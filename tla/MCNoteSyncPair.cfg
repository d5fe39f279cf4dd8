CONSTANTS
    None = None
    Components <- MCComponents
    Notes = {n1, n2}
    Titles = {t1}
    Bodies = {b1, b2}
    Tags = {g1}
    MaxEdits = 2
    MaxFaults = 1
SPECIFICATION Spec
INVARIANTS
    JournalTellsTruth
    QuietRunIsAtomic
CHECK_DEADLOCK FALSE
