SPECIFICATION Spec
CONSTANTS
    Facts <- MCFacts
    Population <- MCPopulation
    Direct <- MCDirect
    ScopeOf <- MCScopeOf
    YearsOf <- MCYearsOf
    Undated <- MCUndated
    BaseScore = 3000
    FastTracked = FALSE
    MaxRequests = 2
INVARIANTS RejectedNotFired
CHECK_DEADLOCK FALSE
