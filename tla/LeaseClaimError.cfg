\* sequenceWorker and its siblings, when the claim's own statement fails.
CONSTANTS
    Pods = {p1, p2}
    LastPeriod = 1
    Memory = "never"
    ReleaseOnClaimError = TRUE
    ClaimMayThrow = TRUE
    MaxFaults = 1
SPECIFICATION Spec
INVARIANTS
    OnePodPerPeriod
