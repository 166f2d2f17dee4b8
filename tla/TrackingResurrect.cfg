SPECIFICATION Spec
CONSTANTS
    a = a
    b = b
    None = None
    Session = {1, 2, 3}
    Client = {a, b}
    Listening = {a, b}
    ClientOf <- MCClientOf
    Options <- MCBothOptions
    DistanceSupported = TRUE
    InitialEngine = "up"
    MaxUpdates = 1
    MaxFailures = 0
    MaxRemovals = 0
    MaxRestarts = 0
INVARIANTS StoppedStaysStopped
CHECK_DEADLOCK FALSE
