SPECIFICATION Spec
CONSTANTS
  Users = {u1, u2}
  Orgs = {o1, o2}
  Keys = {k1}
  Rows = {x1, x2}
  Requests = {r1, r2}
  None = None
  InputRoles = {"DEVELOPER", "VIEWER"}
  InputScopes = {{"monitors:read", "monitors:write"}}
  MaxChanges = 3
SYMMETRY Symmetry
CHECK_DEADLOCK FALSE
INVARIANTS
  TypeOK
  Isolation
  LinksTested
  WritersHaveTheRole
  StaleRightsBounded
  OwnerKept
