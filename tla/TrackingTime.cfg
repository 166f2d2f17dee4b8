SPECIFICATION Spec
CONSTANTS
    a = a
    b = b
    None = None
    Session = {1, 2, 3}
    Client = {a, b}
    Listening = {a, b}
    ClientOf <- MCClientOf
    Options <- MCTimeOptions
    DistanceSupported = TRUE
    InitialEngine = "up"
    MaxUpdates = 1
    MaxFailures = 0
    MaxRemovals = 0
    MaxRestarts = 1
INVARIANTS ModemFastEnough OffWhenUnused EveryRequestAnswered
CHECK_DEADLOCK FALSE
