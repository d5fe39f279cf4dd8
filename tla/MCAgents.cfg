SPECIFICATION Spec
CONSTANTS
    None = None
    Callers = {1, 2, 3}
    Requests <- MCRequests
    Known <- MCKnown
    MaxFaults = 1
    Slots = 2
    Capacity = 1
    MaxCalls = 2
INVARIANTS
    TypeOK
    PermitsAreHeld
    LostWritesAreFinal
PROPERTIES
    ConflictChangesNothing
    ImplementsService
    EverybodyLeaves
CHECK_DEADLOCK FALSE
