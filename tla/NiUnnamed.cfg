SPECIFICATION Spec
CONSTANTS
    SuplEsNo = FALSE
    CpMtlrEs = TRUE
    ThreadMayFail = TRUE
    MaxRequests = 3
    MaxChanges = 0
INVARIANT UserDecidesUnlessLate
CHECK_DEADLOCK FALSE
