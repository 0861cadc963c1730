\* Two instances on one deal, and nothing fails.
SPECIFICATION Spec
CONSTANTS
    Runners = {r1, r2}
    NumTargets = 1
    Limit = 1
    Broken = {}
    Orgless = {}
    Retitled = {}
    MaxMishaps = 0
INVARIANTS
    OneInvoicePerDeal
