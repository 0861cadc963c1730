\* Two overlapping ticks on one enrollment of one sequence; time and the ticks
\* are fair, the users are not.
CONSTANTS
    Seqs = {s1}
    Contacts = {c1}
    Workers = {w1, w2}
    StepLists <- ThreeLists
    MaxSteps = 3
    MaxPerRun = 1
    EmailConfigured = TRUE
    MaxFaults = 1
    NoRow = NoRow
SPECIFICATION FairSpec
INVARIANTS
    TypeOK
    NoDoubleSend
    LossesAreFaults
    OptOutWindow
    NoticeMeansCompleted
PROPERTIES
    KeepsPromise
    TerminalStays
    Progress
\* Everything may be deleted and every tick idle: then nothing is left to do.
CHECK_DEADLOCK FALSE
