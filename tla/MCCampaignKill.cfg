\* One kill.
SPECIFICATION Spec
CONSTANTS
    Size = 2
    Absent = Absent
    MaxRuns = 3
    MaxStops = 0
    MaxKills = 1
    MaxErrors = 0
    MaxFailures = 0
    MaxPowerLosses = 0
INVARIANTS
    NeverRefused
CHECK_DEADLOCK FALSE
