SPECIFICATION Spec
CONSTANTS
    Handlers = {h1}
    Checkers = {}
    Resumers = {}
    Starts = {"new", "trial"}
    LastSub = 1
    MaxEvents = 2
    Resends = TRUE
    LastMonth = 1
    RunsFitInMonth = TRUE
    MaxUsage = 1
    SoftLimits = {1}
    HardLimits = {1}
    TrialCap = 1
    AdminMoves = 0
    MaxFaults = 1
INVARIANTS
    NothingDropped
CHECK_DEADLOCK FALSE
