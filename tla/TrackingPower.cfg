SPECIFICATION Spec
CONSTANTS
    a = a
    b = b
    None = None
    Session = {1, 2, 3}
    Client = {a, b}
    Listening = {a, b}
    ClientOf <- MCClientOf
    Options <- MCTimeOptions
    DistanceSupported = TRUE
    InitialEngine = "up"
    MaxUpdates = 0
    MaxFailures = 0
    MaxRemovals = 0
    MaxRestarts = 0
INVARIANTS ModemPowerEnough
CHECK_DEADLOCK FALSE
