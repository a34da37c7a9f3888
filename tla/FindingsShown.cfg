SPECIFICATION Spec
CONSTANTS
    Facts <- MCFacts
    Population <- MCPopulation
    Direct <- MCDirect
    ScopeOf <- MCScopeOf
    YearsOf <- MCYearsOf
    Undated <- MCUndated
    BaseScore = 3000
    FastTracked = FALSE
    MaxRequests = 3
INVARIANTS TypeOK RejectionExplained LastVerdictShown UndoOffered
PROPERTIES RejectingNeverRaises
CHECK_DEADLOCK FALSE
