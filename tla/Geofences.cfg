SPECIFICATION Spec
CONSTANTS
    Id = {g1, g2}
    Mask = {1, 2}
    None = None
    Kinds = {"add", "remove", "modify", "pause", "resume"}
    MaxRequests = 3
    MaxOpen = 2
    MaxEvents = 1
SYMMETRY IdSymmetry
INVARIANTS KeysResolve AdapterMatchesModem OneTrueResponseEach BreachReachesOwner
CHECK_DEADLOCK FALSE
