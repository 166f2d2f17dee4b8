SPECIFICATION Spec
CONSTANTS
    a = a
    b = b
    None = None
    Session = {1, 2}
    Client = {a, b}
    Listening = {a, b}
    ClientOf <- MCClientOf
    Options <- MCBothOptions
    DistanceSupported = TRUE
    InitialEngine = "down"
    MaxUpdates = 2
    MaxFailures = 0
    MaxRemovals = 1
    MaxRestarts = 0
INVARIANTS ModemRunsHeldSessions
CHECK_DEADLOCK FALSE
