SPECIFICATION FairSpec
CONSTANTS
    Requests = {q1}
    Clicks = {c1, c2}
    Workers = {w1}
    Tokens = {k1}
    None = None
    MaxTasks = 3
    MaxFaults = 1
INVARIANTS
    TypeOK
    OpensBounded
    ActsOnce
PROPERTY SeriesGoesOn
CHECK_DEADLOCK FALSE
