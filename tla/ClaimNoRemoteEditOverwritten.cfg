CONSTANTS
    None = None
    Components <- MCComponents
    Notes = {n1}
    Titles = {t1}
    Bodies = {b1, b2, b3}
    Tags = {g1}
    MaxEdits = 2
    MaxFaults = 1
SPECIFICATION Spec
PROPERTIES
    NoRemoteEditOverwritten
CHECK_DEADLOCK FALSE
