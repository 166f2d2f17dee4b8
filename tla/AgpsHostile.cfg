SPECIFICATION Spec
CONSTANTS
    h1 = h1
    h2 = h2
    Handle = {h1, h2}
    Created = {"agnss", "internet"}
    WaitForClose = {h2}
    OpenOutcomes = {"OPEN", "FAILED", "CANCELLED", "BADAPN", "NOAPN"}
    CloseOutcomes = {"CLOSED", "FAILED"}
    MaxRequests = 2
    MaxDrops = 1
    MaxRestarts = 1
INVARIANTS LeaseMatchesSubscribers OpenOnlyWhileHeld NoForgottenSubscriber
CHECK_DEADLOCK FALSE
