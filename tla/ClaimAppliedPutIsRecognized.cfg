CONSTANTS
    None = None
    Components <- MCComponents
    Notes = {n1}
    Titles = {t1}
    Bodies = {b1, b2}
    Tags = {g1}
    MaxEdits = 2
    MaxFaults = 1
SPECIFICATION Spec
INVARIANTS
    AppliedPutIsRecognized
CHECK_DEADLOCK FALSE
