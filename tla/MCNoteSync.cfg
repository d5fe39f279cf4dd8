CONSTANTS
    None = None
    Components <- MCComponents
    Notes = {n1}
    Titles = {t1}
    Bodies = {b1, b2}
    Tags = {g1, g2}
    MaxEdits = 2
    MaxFaults = 2
SPECIFICATION Spec
INVARIANTS
    TypeOK
    VersionTruth
    JournalTellsTruth
    QuietRunIsAtomic
PROPERTIES
    OverwritesOnlyWhatWasSeen
    CommitMatchesBothSides
    WritesAreJournaled
    RunEnds
CHECK_DEADLOCK FALSE
