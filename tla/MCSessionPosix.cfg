\* Two inputs and a filesystem that orders nothing across directories.
SPECIFICATION Spec
CONSTANTS
    Windows = {1, 2}
    Blind = FALSE
    MultiAnchor = FALSE
    Identities = {a, b}
    Absent = Absent
    Threads = {t1, t2}
    SharedJournal = FALSE
    MaxStops = 1
    MaxErrors = 1
    MaxPowerLosses = 1
SYMMETRY ThreadSymmetry
INVARIANTS
    FrozenAnchorGenerations
    CountedTasksAreDurable
    ReceiptTellsTheTruth
PROPERTIES
    KeepsPortfolio
