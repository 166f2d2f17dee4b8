SPECIFICATION OdcpiSpec
CONSTANT MaxEvents = 5
INVARIANTS RetryComing EmergencyReached
PROPERTY AskedUntilStopped
CHECK_DEADLOCK FALSE
