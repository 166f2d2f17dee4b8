SPECIFICATION Spec
CONSTANTS
    SuplEsNo = FALSE
    CpMtlrEs = TRUE
    ThreadMayFail = TRUE
    MaxRequests = 2
    MaxChanges = 2
INVARIANTS AnsweredOnce UserDecidesInTime
PROPERTY EverySavedRequestEnds
CHECK_DEADLOCK FALSE
