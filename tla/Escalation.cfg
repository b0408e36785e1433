SPECIFICATION Spec
CONSTANTS
  Incidents = {i1}
  Scans = {s1, s2}
  Minutes = {1, 2, 3}
  Listed = 2
  MaxAge = 3
  MaxFaults = 1
INVARIANT
  AnnouncementsBounded
PROPERTY
  EscalationsSettle
