SPECIFICATION Spec
CONSTANTS
    h1 = h1
    Handle = {h1}
    Created = {"agnss"}
    WaitForClose = {}
    OpenOutcomes = {"OPEN"}
    CloseOutcomes = {"CLOSED"}
    MaxRequests = 2
    MaxDrops = 0
    MaxRestarts = 0
INVARIANT NoConnectionLeftUp
CHECK_DEADLOCK FALSE
