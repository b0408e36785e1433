SPECIFICATION FairSpec
CONSTANTS
  Senders = {s1, s2}
  Alerts = {ssl}
  Periodic = {ssl}
  Channels = {slack, mail}
  Email = {mail}
  MaxAttempts = 5
  MaxDeliveries = 2
  MaxCalls = 2
  MaxFaults = 1
  MaxEdits = 1
CHECK_DEADLOCK FALSE
INVARIANTS
  TypeOK
  PeriodicOncePerWindow
  MessagesAreCounted
  DeliveredWasSent
PROPERTIES
  EnqueuedSettles
