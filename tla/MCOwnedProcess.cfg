\* A leader and a descendant, or a stranger that gets a pid they gave up; at any
\* time something else may reap the leader.
SPECIFICATION FairSpec
CONSTANTS
    Pids = {p1, p2}
    Nobody = Nobody
    Limit = 1
    MaxWritten = 2
INVARIANTS
    NeverSignalsStranger
    NoSurvivors
    OutcomeIsTrue
PROPERTIES
    CallReturns
\* One call: afterwards nothing need happen.
CHECK_DEADLOCK FALSE
