\* Two instances; one row of three always fails, an open issue of another may
\* be missed, and a LIMIT of two.
SPECIFICATION FairSpec
CONSTANTS
    Runners = {r1, r2}
    NumTargets = 3
    Limit = 2
    Broken = {1}
    Orgless = {}
    Retitled = {3}
    MaxMishaps = 1
INVARIANTS
    TypeOK
    FiredOnce
    IssuesOnlyByOverlap
PROPERTIES
    EveryMatchServed
\* Users may leave nothing to do.
CHECK_DEADLOCK FALSE
