\* Kills, errors, changes of the recording and a loss of power, exact metadata.
SPECIFICATION Spec
CONSTANTS
    Windows = {w1, w2}
    Contents = {c1, c2}
    Absent = Absent
    Threads = 2
    ExactMetadata = TRUE
    SharedJournal = TRUE
    MaxRuns = 3
    MaxKills = 1
    MaxErrors = 1
    MaxChanges = 2
    MaxPowerLosses = 1
SYMMETRY Symmetry
INVARIANTS
    CachedWindowsAreOfSource
    CompletionIsWhole
    PublishedIsKept
PROPERTIES
    OutcomeIsFinal
\* After the last run nothing need happen.
CHECK_DEADLOCK FALSE
