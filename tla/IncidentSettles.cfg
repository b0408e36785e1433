SPECIFICATION FairSpec
CONSTANTS
  Workers = {w1, w2}
  Requests = {r1}
  ProbeOutcomes = {"UP", "DOWN"}
  FailureThreshold = 1
  MaxIncidents = 2
  MaxFailures = 2
  MaxAborts = 0
  MaxRequests = 1
PROPERTIES
  Settles
  ReopenedOnlyByStaleWriter
