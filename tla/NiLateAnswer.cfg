SPECIFICATION Spec
CONSTANTS
    SuplEsNo = FALSE
    CpMtlrEs = TRUE
    ThreadMayFail = TRUE
    MaxRequests = 2
    MaxChanges = 2
INVARIANT UserDecides
CHECK_DEADLOCK FALSE
