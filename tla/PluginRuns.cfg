\* Three calls on one process.
SPECIFICATION Spec
CONSTANTS
    h = h
    Procs = {h}
    Calls = {a, b, c}
    Host <- OneHost
    Plugins = {p1}
    Events = {e1, e2, e3}
    None = None
    Cap = 2
    Threshold = 2
    RunLimit = 3
    MaxRequests = 4
    MaxFaults = 1
SYMMETRY Symmetry
INVARIANTS
    TypeOK
    NoLockOut
    OncePerEvent
    QuotaHolds
    HealthyStaysOn
    StreakPauses
CHECK_DEADLOCK FALSE
