\* Deliveries on two instances, admins around them.
SPECIFICATION Spec
CONSTANTS
    Handlers = {h1, h2}
    Checkers = {}
    Resumers = {r1}
    Starts = {"new", "trial"}
    LastSub = 2
    MaxEvents = 3
    Resends = TRUE
    LastMonth = 1
    RunsFitInMonth = TRUE
    MaxUsage = 0
    SoftLimits = {1}
    HardLimits = {1}
    TrialCap = 1
    AdminMoves = 2
    MaxFaults = 1
SYMMETRY Symmetry
INVARIANTS
    TypeOK
    SubFollowsStripe
    ProcessedOnce
CHECK_DEADLOCK FALSE
