SPECIFICATION Spec
CONSTANTS
    NF = 3
    NN = 2
    NT = 3
    MaxEdits = 2
    MaxFaults = 1
    MaxRuns = 2
    None = None
INVARIANTS
    TypeOK
    SuccessLeavesNothing
    NotebooksKeepTheirDirectory
PROPERTIES
    NotesStayUnlessMoved
CHECK_DEADLOCK FALSE
