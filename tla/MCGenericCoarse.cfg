\* One change of the recording, within a clock tick, and a kill.
SPECIFICATION Spec
CONSTANTS
    Windows = {w1, w2}
    Contents = {c1, c2}
    Absent = Absent
    Threads = 2
    ExactMetadata = FALSE
    SharedJournal = TRUE
    MaxRuns = 3
    MaxKills = 1
    MaxErrors = 0
    MaxChanges = 1
    MaxPowerLosses = 0
SYMMETRY Symmetry
INVARIANTS
    ChangesAreCaught
\* After the last run nothing need happen.
CHECK_DEADLOCK FALSE
