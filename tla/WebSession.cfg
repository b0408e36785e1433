SPECIFICATION WebSpec
CONSTANTS
  Requests = {r1, r2}
  Sessions = {s1, s2}
  Tokens = {t1}
  None = None
  MaxPasswords = 3
  Calls = {c1, c2}
INVARIANTS
  TypeOK
  OutdatedSessionsBounded
  TokenUsesBounded
  TokensBelong
PROPERTY
  RevokedForGood
  WaitersReleased
