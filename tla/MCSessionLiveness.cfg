\* Every stage of one window, on a filesystem with one metadata journal.
SPECIFICATION FairSpec
CONSTANTS
    Windows = {1}
    Blind = TRUE
    MultiAnchor = TRUE
    Identities = {a}
    Absent = Absent
    Threads = {t1, t2}
    SharedJournal = TRUE
    MaxStops = 1
    MaxErrors = 1
    MaxPowerLosses = 1
PROPERTIES
    SnapshotFollowsFiles
    InvocationEnds
    SessionCompletes
