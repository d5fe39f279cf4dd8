SPECIFICATION Spec
CONSTANTS
    None = None
    v1 = v1
    v2 = v2
    p1 = p1
    p2 = p2
    Versions = {v1, v2}
    Ports = {p1, p2}
    MaxRuns = 2
    MaxFaults = 2
    MaxUser = 1
    MaxEvents = 3
INVARIANTS
    TypeOK
    OneJoplin
    UnitsAreRunnable
    PreviousRetained
    LocaleRestored
PROPERTIES
    FailedUpgradeStops
    RunsWhatWasInstalled
    ServiceComesBack
CHECK_DEADLOCK FALSE
