SPECIFICATION FairSpec
CONSTANTS
    Pods = {p1, p2}
    Manual = {m1}
    NumOrgs = 2
    LastPeriod = 2
    MaxFaults = 1
    MaxMishaps = 1
INVARIANTS
    TypeOK
    ChargedOnce
    RecordMeansCharged
    FinishedMeansBilled
PROPERTIES
    RecordedIsFinal
    KeepsLease
    EveryMonthBilled
CHECK_DEADLOCK FALSE
