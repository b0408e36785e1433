CONSTANTS
    s1 = s1
    s2 = s2
    j1 = j1
    Schedulers = {s1, s2}
    Jobs = {j1}
    Intervals = {2}
    MaxInterval = 2
    FailureThreshold = 2
    Ttl = 6
    MaxDelay = 1
    MaxEdits = 2
    MaxCrashes = 1
SPECIFICATION FairSpec
INVARIANT TypeOK
PROPERTY ClaimsAreSpaced
PROPERTY KeepsBeingChecked
PROPERTY OutageReachesThreshold
