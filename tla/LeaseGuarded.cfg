\* weeklySummaryWorker: one hour a week, a throwing claim ends the tick.
SPECIFICATION Spec
CONSTANTS
    Pods = {p1, p2, p3}
    LastPeriod = 2
    Memory = "after"
    ReleaseOnClaimError = FALSE
    ClaimMayThrow = TRUE
    MaxFaults = 2
INVARIANTS
    TypeOK
    OnePodPerPeriod
    RowsAccounted
CHECK_DEADLOCK FALSE
