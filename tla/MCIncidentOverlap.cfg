SPECIFICATION Spec
CONSTANTS
  Workers = {w1, w2}
  Requests = {}
  ProbeOutcomes = {"UP", "DOWN"}
  FailureThreshold = 1
  MaxIncidents = 3
  MaxFailures = 3
  MaxAborts = 1
  MaxRequests = 0
SYMMETRY Symmetry
INVARIANTS
  TypeOK
  ExposureBounded
  OpenIncidentsBounded
  OneDownAlertPerIncident
  EveryFailureCounted
