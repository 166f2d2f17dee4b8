SPECIFICATION MCSpec
CONSTANTS
    m1 = m1
    m2 = m2
    m3 = m3
    None = None
    Message = {m1, m2, m3}
    Joinable = {TRUE, FALSE}
    Callers = {"self", "other"}
    ThreadMayFail = TRUE
INVARIANTS DelegateLivesWhileUsed NoLostWakeup TaskDeletedAfterUse
PROPERTIES ImplementsChannel EveryMessageEnds DestroyEnds
CHECK_DEADLOCK FALSE
