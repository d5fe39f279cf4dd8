SPECIFICATION Spec
CONSTANTS
    NF = 3
    NN = 1
    NT = 3
    MaxEdits = 1
    MaxFaults = 0
    MaxRuns = 2
    None = None
PROPERTIES
    DirectoryNamesAreCosmetic
CHECK_DEADLOCK FALSE
