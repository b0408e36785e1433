CONSTANTS
    s1 = s1
    j1 = j1
    Schedulers = {s1}
    Jobs = {j1}
    Intervals = {3}
    MaxInterval = 3
    FailureThreshold = 2
    Ttl = 3
    MaxDelay = 1
    MaxEdits = 0
    MaxCrashes = 0
SPECIFICATION FairSpec
PROPERTY OutageIsNoticed
