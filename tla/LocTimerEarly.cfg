SPECIFICATION Spec
CONSTANTS
    None = None
    Client = {a, b}
    Delay = {1, 2}
    MaxStarts = 3
    MaxTime = 2
PROPERTY NeverEarly
CHECK_DEADLOCK FALSE
