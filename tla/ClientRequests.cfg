SPECIFICATION Spec
CONSTANTS
    Ids = {"i1", "i2"}
    MaxRequests = 5
INVARIANTS ResponseReachesItsRequest MapsAgree KnownWhileRunning
CHECK_DEADLOCK FALSE
