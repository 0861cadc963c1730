\* Two instances run the hourly check around the turn of the month.
SPECIFICATION FairSpec
CONSTANTS
    Handlers = {h1}
    Checkers = {c1, c2}
    Resumers = {r1}
    Starts = {"subscribed"}
    LastSub = 1
    MaxEvents = 2
    Resends = FALSE
    LastMonth = 2
    RunsFitInMonth = TRUE
    MaxUsage = 2
    SoftLimits = {1}
    HardLimits = {2}
    TrialCap = 1
    AdminMoves = 1
    MaxFaults = 1
INVARIANTS
    OneWarnPerMonth
    PayingMeansSub
PROPERTIES
    WorkerLeavesAdmins
    CapStops
    RolloverResumes
CHECK_DEADLOCK FALSE
