SPECIFICATION MCSpec
CONSTANTS
    Client = {c1, c2}
    None = None
    Modes = {"routine", "trip", "noReport"}
    Trips <- TwoTrips
    Word = 8
    MaxRequests = 3
    MaxTravel = 2
    MaxEvents = 1
SYMMETRY ClientSymmetry
INVARIANTS ModemBatchesAsSaved TripBatchAsKept NeverEarly BatchFullHeard
CHECK_DEADLOCK FALSE
