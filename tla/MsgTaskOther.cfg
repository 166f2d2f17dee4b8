SPECIFICATION MCSpec
CONSTANTS
    m1 = m1
    None = None
    Message = {m1}
    Joinable = {FALSE}
    Callers = {"other"}
    ThreadMayFail = FALSE
INVARIANT OwnerUsesLiveTask
CHECK_DEADLOCK FALSE
