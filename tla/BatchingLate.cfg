SPECIFICATION MCSpec
CONSTANTS
    Client = {c1}
    None = None
    Modes = {"trip"}
    Trips <- TwoTrips
    Word = 8
    MaxRequests = 3
    MaxTravel = 2
    MaxEvents = 0
INVARIANT NeverLate
CHECK_DEADLOCK FALSE
