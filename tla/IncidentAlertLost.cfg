SPECIFICATION FairSpec
CONSTANTS
  Workers = {w1}
  Requests = {}
  ProbeOutcomes = {"UP", "DOWN"}
  FailureThreshold = 1
  MaxIncidents = 2
  MaxFailures = 2
  MaxAborts = 1
  MaxRequests = 0
PROPERTIES
  EveryIncidentAnnounced
