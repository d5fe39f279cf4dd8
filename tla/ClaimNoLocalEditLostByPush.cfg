CONSTANTS
    None = None
    Components <- MCComponents
    Notes = {n1}
    Titles = {t1, t2}
    Bodies = {b1}
    Tags = {g1}
    MaxEdits = 2
    MaxFaults = 1
SPECIFICATION Spec
PROPERTIES
    NoLocalEditLostByPush
CHECK_DEADLOCK FALSE
