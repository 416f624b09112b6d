\* An unchanged recording, interrupted by a kill, an error and a loss of power.
SPECIFICATION FairSpec
CONSTANTS
    Windows = {w1, w2}
    Contents = {c1}
    Absent = Absent
    Threads = 2
    ExactMetadata = TRUE
    SharedJournal = TRUE
    MaxRuns = 5
    MaxKills = 1
    MaxErrors = 1
    MaxChanges = 0
    MaxPowerLosses = 1
PROPERTIES
    RunCompletes
\* After the last run nothing need happen.
CHECK_DEADLOCK FALSE
