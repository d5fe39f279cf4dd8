CONSTANTS
    None = None
    Components <- MCComponents
    Texts = {x1, x2}
    TagSets = {g1, g2}
    MaxEdits = 3
    MaxFaults = 1
SPECIFICATION Spec
INVARIANTS
    RerunRefreshesEvidence
CHECK_DEADLOCK FALSE
