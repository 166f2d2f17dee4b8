SPECIFICATION Spec
CONSTANTS
    Ids = {"i1", "i2"}
    MaxRequests = 4
INVARIANTS EachResponseFindsItsRequest
CHECK_DEADLOCK FALSE
