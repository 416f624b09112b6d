\* The store: a holder, one that may reclaim, and one that may reclaim from that. The
\* directory: two callers with two configurations, an operator's mistake, an error or a
\* kill, a change of the recording or a lock file that is removed, a loss of power.
SPECIFICATION AttemptsSpec
CONSTANTS
    Workers = {w1, w2, w3}
    StaleAfter = 3
    MaxWait = 1
    MaxFaults = 3
    Callers = {k1, k2}
    Contents = {c1, c2}
    Original = c1
    Configs = {g1, g2}
    Absent = Absent
    MaxOrphans = 1
    MaxFailures = 1
    MaxIntrusions = 1
    MaxPowerLosses = 1
INVARIANTS
    OneResult
    AnswersHold
PROPERTIES
    LeaseLasts
    AttemptEnds
    AttemptCompletes
\* A directory that cannot be resumed may have no call left.
CHECK_DEADLOCK FALSE
