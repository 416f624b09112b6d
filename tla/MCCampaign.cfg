\* Two observations; one of each kind of interruption.
SPECIFICATION FairSpec
CONSTANTS
    Size = 2
    Absent = Absent
    MaxRuns = 6
    MaxStops = 1
    MaxKills = 1
    MaxErrors = 1
    MaxFailures = 1
    MaxPowerLosses = 1
INVARIANTS
    NoMixedPublication
    SavedProgressHolds
PROPERTIES
    KeepsCohort
    CampaignCompletes
\* After the last run nothing need happen.
CHECK_DEADLOCK FALSE
