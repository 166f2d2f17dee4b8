SPECIFICATION Spec
CONSTANTS
    None = None
    Client = {c1, c2}
    Callback = {"tracking", "batch", "breach"}
    KindOf <- MCKindOf
    Uses = {{"tracking", "batch"}, {"tracking", "breach"}}
    Loadable = {"gnss", "geofence"}
    MaxEvents = 1
    MaxQueued = 1
INVARIANTS ForgottenOnceTold ModemReportsWhatIsHeard
PROPERTIES DestroyEnds CapabilitiesHeard
CHECK_DEADLOCK FALSE
