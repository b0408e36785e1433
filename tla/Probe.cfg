SPECIFICATION Spec
CONSTANTS
  Urls = {u1, u2, blocked}
  Blocked = {blocked}
  MaxRedirects = 5
  MaxRetries = 2
CHECK_DEADLOCK FALSE
INVARIANTS
  OutcomeIsRight
  HopsAreChecked
