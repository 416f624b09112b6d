----------------------------- MODULE MCAttempts -----------------------------
(* Instances for TLC of the two places that keep the result of one attempt for
   workers that may die and be called again: the SQLite store (AttemptStore) and the
   directory of the clipping receiver (ClippingAttempt). They share nothing; a
   behaviour is one of either, while the other is at rest. *)
EXTENDS AttemptStore

CONSTANTS Callers, Contents, Configs, Original, Absent, MaxOrphans,
          MaxFailures, MaxIntrusions, MaxPowerLosses

VARIABLES which, source, named, inodes, owner, dir, synced, staged, call, answers,
          directoryFaults

C == INSTANCE ClippingAttempt WITH faults <- directoryFaults

ASSUME DirectoryAssumption == C!ClippingAssumption /\ Original \in Contents

directory == <<source, named, inodes, owner, dir, synced, staged, call, answers,
               directoryFaults>>
all == <<which, vars, directory>>

\* A store whose attempt has its result.
AtRest ==
    /\ status = "ok" /\ lease = 1 /\ result = 1 /\ issued = 1
    /\ startedAge = 0 /\ grantedAge = 0 /\ faults = 0
    /\ LET first == CHOOSE w \in Workers : TRUE IN
           /\ at = [w \in Workers |-> IF w = first THEN "accepted" ELSE "idle"]
           /\ mine = [w \in Workers |-> IF w = first THEN 1 ELSE 0]
    /\ askedAge = [w \in Workers |-> 0]

AttemptsInit ==
    /\ C!Init /\ source.content = Original
    /\ \/ which = "store" /\ Init
       \/ which = "directory" /\ AtRest

InStore(action) == which = "store" /\ action /\ UNCHANGED <<which, directory>>
InDirectory(action) == which = "directory" /\ action /\ UNCHANGED <<which, vars>>

AttemptsNext == InStore(Next) \/ InDirectory(C!Next)

Attempts == AttemptsInit /\ [][AttemptsNext]_all

AttemptsSpec ==
    /\ Attempts
    /\ WF_all(InStore(Tick)) /\ \A w \in Workers : WF_all(InStore(Worker(w)))
    /\ WF_all(InDirectory(C!Again)) /\ \A c \in Callers : WF_all(InDirectory(C!Step(c)))

AnswersHold == C!AnswersHold
AttemptCompletes == which = "directory" => C!AttemptCompletes
=============================================================================
