SPECIFICATION Spec
CONSTANTS
    h1 = h1
    h2 = h2
    Handle = {h1, h2}
    Created = {"agnss"}
    WaitForClose = {}
    OpenOutcomes = {"OPEN", "FAILED", "CANCELLED"}
    CloseOutcomes = {"CLOSED", "FAILED"}
    MaxRequests = 3
    MaxDrops = 1
    MaxRestarts = 0
PROPERTIES EveryRequestAnswered EveryReleaseAnswered
CHECK_DEADLOCK FALSE
