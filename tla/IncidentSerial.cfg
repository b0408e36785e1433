SPECIFICATION SerialSpec
CONSTANTS
  Workers = {w1, w2}
  Requests = {}
  ProbeOutcomes = {"UP", "DEGRADED", "DOWN"}
  FailureThreshold = 2
  MaxIncidents = 3
  MaxFailures = 6
  MaxAborts = 0
  MaxRequests = 0
INVARIANTS
  RecoveryFollowsDown
  OpenIsAnnounced
PROPERTIES
  LifecycleContract
