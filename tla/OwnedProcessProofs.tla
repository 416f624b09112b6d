-------------------------- MODULE OwnedProcessProofs --------------------------
(***************************************************************************)
(* For every number of processes and every limit: a call signals nobody    *)
(* but its own processes and leaves none of them behind, as long as nobody *)
(* else waits for its child; its verdict is the child's and within the     *)
(* limits; and no orphan goes on.  The zombie of the child pins its pid    *)
(* until the group was signalled, and a death signal that is asked for     *)
(* before the parent is looked at leaves no gap.                           *)
(***************************************************************************)
EXTENDS OwnedProcess, TLAPS

\* Where the call relies on its child's pid.
HoldsPid == {"spawning", "adopt", "logs", "exit", "deadline", "pipes", "awaiting",
             "probe", "kill-group", "kill-child", "wait"}

KernelTypes ==
    /\ state \in [Pids -> {"free", "running", "zombie"}]
    /\ who \in [Pids -> {"none", "child", "descendant", "stranger"}]
    /\ group \in [Pids -> Pids \cup {Nobody}]
    /\ child \in Pids \cup {Nobody} /\ (caller # "idle" => child \in Pids)
    /\ caller \in HoldsPid \cup {"idle", "collect", "returned", "dead"}
    /\ adopted \in BOOLEAN /\ stolen \in BOOLEAN
    /\ doomed \subseteq {p \in Pids : state[p] = "running"}

\* The pid is the child's while it is relied upon, and given up at the end.
ChildPinned == ~stolen =>
    /\ caller \in HoldsPid => Owned
    /\ caller \in {"idle", "collect", "returned"} => ~Owned

\* A stranger leads its own group.
StrangersApart ==
    \A p \in Pids : state[p] # "free" /\ who[p] = "stranger" => group[p] = p

\* Adoption is past exec, and not before the child was spawned.
AdoptedAfterExec ==
    /\ caller \in {"idle", "spawning", "adopt"} => ~adopted
    /\ adopted \/ caller = "adopt" => setup = <<>>

\* Once the group was signalled, nobody in it escapes.
GroupDoomed ==
    ~stolen /\ adopted /\ caller \in {"kill-child", "wait", "collect", "returned"} =>
        \A p \in Pids : Holds(p) /\ group[p] = child => p \in doomed

OInv ==
    /\ KernelTypes
    /\ ChildPinned
    /\ StrangersApart
    /\ AdoptedAfterExec
    /\ GroupDoomed
    /\ NeverSignalsStranger
-------------------------------------------------------------------------------
LEMMA OInvInit == Init => OInv
<1> SUFFICES ASSUME Init PROVE OInv
  OBVIOUS
<1> USE DEF Init
<1>1. KernelTypes
  BY ProcessAssumption DEF KernelTypes, HoldsPid
<1>2. ChildPinned /\ StrangersApart /\ AdoptedAfterExec
  BY DEF ChildPinned, StrangersApart, AdoptedAfterExec, HoldsPid, Owned
<1>3. GroupDoomed /\ NeverSignalsStranger
  BY DEF GroupDoomed, NeverSignalsStranger
<1> QED
  BY <1>1, <1>2, <1>3 DEF OInv

LEMMA OInvStep ==
    ASSUME OInv, [Next]_vars
    PROVE  OInv'
<1> USE ProcessAssumption
    DEF OInv, KernelTypes, HoldsPid, ChildPinned, StrangersApart, AdoptedAfterExec,
        GroupDoomed, NeverSignalsStranger, Owned, Holds, Running
<1>1. CASE UNCHANGED vars
  BY <1>1 DEF vars, kernel, callee, self, pipes
<1>2. CASE Spawn
  BY <1>2 DEF Spawn, Starts, Unused, Goto, pipes
<1>3. CASE Spawned
  BY <1>3 DEF Spawned, Goto, kernel, callee, pipes
<1>4. CASE NotSpawned
  BY <1>4 DEF NotSpawned, Disown, Freed, Goto, callee, self, pipes
<1>5. CASE Adopt
  BY <1>5 DEF Adopt, Goto, kernel, callee, pipes
<1>6. CASE Logs
  BY <1>6 DEF Logs, GiveUp, Goto, Watches, kernel, callee, self, pipes
<1>7. CASE SeeExit
  BY <1>7 DEF SeeExit, Disown, Goto, Watches, kernel, callee, self, pipes
<1>8. CASE Deadline
  BY <1>8 DEF Deadline, GiveUp, Goto, Watches, kernel, callee, self, pipes
<1>9. CASE PipesTimeout
  BY <1>9 DEF PipesTimeout, GiveUp, Goto, Watches, kernel, callee, self, pipes
<1>10. CASE PipesDone
  BY <1>10 DEF PipesDone, Goto, Watches, kernel, callee, self, pipes
<1>11. CASE AwaitExit
  BY <1>11 DEF AwaitExit, Disown, GiveUp, Goto, Watches, kernel, callee, self, pipes
<1>12. ASSUME NEW s \in Streams, ReadPipe(s) PROVE OInv'
  BY <1>12 DEF ReadPipe, GiveUp, Goto, Reads, kernel, callee, self
<1>13. ASSUME NEW s \in Streams, ClosePipe(s) PROVE OInv'
  BY <1>13 DEF ClosePipe, Reads, kernel, callee, self
<1>14. CASE Probe
  BY <1>14 DEF Probe, Goto, Watches, kernel, callee, self, pipes
<1>15. CASE KillGroup
  BY <1>15 DEF KillGroup, Signal, Goto, callee, self, pipes
<1>16. CASE KillChild
  BY <1>16 DEF KillChild, Signal, Goto, callee, self, pipes
<1>17. CASE Wait
  BY <1>17 DEF Wait, Freed, Goto, callee, self, pipes
<1>18. CASE Collect
  BY <1>18 DEF Collect, Goto, kernel, callee, self
<1>19. CASE SetUp
  BY <1>19 DEF SetUp, ByOthers, self
<1>20. CASE SetUpFails
  BY <1>20 DEF SetUpFails, Ends, Freed, ByOthers, self
<1>21. CASE CloseStreams
  BY <1>21 DEF CloseStreams, ByOthers, kernel, self
<1>22. CASE Regroup
  BY <1>22 DEF Regroup, Alive, ByOthers, callee, self
<1>23. ASSUME NEW p \in Pids, Die(p) PROVE OInv'
  BY <1>23 DEF Die, Ends, Freed, ByOthers, self
<1>24. ASSUME NEW p \in Pids, Exit(p) PROVE OInv'
  BY <1>24 DEF Exit, Ends, Freed, Alive, ByOthers, self
<1>25. ASSUME NEW p \in Pids, Fork(p) PROVE OInv'
  BY <1>25 DEF Fork, Starts, Unused, Alive, ByOthers, callee, self
<1>26. ASSUME NEW p \in Pids, NEW s \in Streams, Write(p, s) PROVE OInv'
  BY <1>26 DEF Write, ByOthers, kernel, self
<1>27. CASE Stranger
  BY <1>27 DEF Stranger, Starts, Unused, ByOthers, callee, self
<1>28. CASE ForeignReap
  BY <1>28 DEF ForeignReap, Freed, callee
<1>29. CASE Expire
  BY <1>29 DEF Expire, kernel, callee
<1>30. CASE CrashCaller
  BY <1>30 DEF CrashCaller, Active, Freed, Goto, callee, self
<1> QED
  BY <1>1, <1>2, <1>3, <1>4, <1>5, <1>6, <1>7, <1>8, <1>9, <1>10, <1>11, <1>12, <1>13,
     <1>14, <1>15, <1>16, <1>17, <1>18, <1>19, <1>20, <1>21, <1>22, <1>23, <1>24, <1>25,
     <1>26, <1>27, <1>28, <1>29, <1>30 DEF Next

LEMMA OInvariant == Spec => []OInv
<1>1. OInv /\ [Next]_vars => OInv'
  BY OInvStep
<1> QED
  BY <1>1, OInvInit, PTL DEF Spec
-------------------------------------------------------------------------------
(* The verdict, the limits and the orphans *)

\* Where the call has found no error and signalled nobody.
Watching == {"idle", "spawning", "adopt", "logs", "exit", "deadline", "pipes", "awaiting"}
Cleaning == {"probe", "kill-group", "kill-child", "wait"}

\* What may be left of pre_exec, and what of it still looks at the parent.
Remaining ==
    CASE call = "codec"   -> {<<"deathsig", "parent", "group">>, <<"parent", "group">>, <<"group">>, <<>>}
      [] call = "session" -> {<<"group", "deathsig", "parent">>, <<"deathsig", "parent">>, <<"parent">>, <<>>}
      [] call = "backend" -> {<<"group">>, <<>>}

Unbound   == {<<"deathsig", "parent", "group">>, <<"group", "deathsig", "parent">>, <<"deathsig", "parent">>}
SeesParent == Unbound \cup {<<"parent", "group">>, <<"parent">>}

\* Past the request for the death signal the child has made it.
SetUpInOrder ==
    /\ setup \in Remaining
    /\ caller # "idle" /\ call # "backend" /\ setup \notin Unbound => bound

\* There is one child; a zombie has a status, a call that is over has none.
OneChild ==
    /\ \A p \in Pids : who[p] = "child" => p = child /\ state[p] # "free"
    /\ \A p \in Pids : state[p] # "free" => who[p] # "none"
    /\ caller # "idle" => child \in Pids
    /\ Owned /\ state[child] = "zombie" => status # "none"
    /\ caller \in {"idle", "collect", "returned"} => \A p \in Pids : who[p] # "child"

\* While it watches, the call has neither an error nor anybody doomed.
WatchesOnly ==
    /\ caller \in Watching => outcome = "none" /\ doomed = {} /\ status # "killed"
    /\ caller = "logs" => call = "codec"
    /\ caller \in {"exit", "deadline"} => call # "backend"
    /\ caller \in {"pipes", "awaiting"} => call = "backend"
    /\ caller = "idle" => \A s \in Streams : open[s]
    /\ caller = "collect" => outcome = "none"

\* Without an error it cleans up after a child that ended by itself.
EndedByItself ==
    outcome = "none" /\ caller \in Cleaning \cup {"collect"} =>
        /\ status \in {"success", "failure"}
        /\ \A p \in Pids : who[p] = "child" => ~Running(p)

\* What is kept is within the limit; a pipe at its end was read to its end.
PipesDrained ==
    /\ Kept <= Limit
    /\ call # "backend" => captured["stderr"] = 0
    /\ \A s \in Streams : ~open[s] =>
          captured[s] = written[s] /\ (quiet \/ \A p \in Pids : ~Holds(p))
    /\ call = "backend" /\ outcome \in {"none", "ok"}
       /\ caller \in {"awaiting", "collect", "returned"} \cup Cleaning => \A s \in Streams : ~open[s]

Verdict ==
    /\ outcome = "ok" => caller = "returned" /\ status = "success"
    /\ outcome = "nonzero" => caller = "returned" /\ status = "failure"
    /\ outcome = "timeout" => expired

\* An orphan that runs on has yet to look for its parent.
OrphanLooks ==
    caller = "dead" /\ call # "backend" /\ Owned /\ Running(child) /\ child \notin doomed =>
        setup \in SeesParent

VInv ==
    /\ TypeOK /\ SetUpInOrder /\ OneChild /\ WatchesOnly
    /\ EndedByItself /\ PipesDrained /\ Verdict /\ OrphanLooks

LEMMA TailOfTuple ==
    /\ Tail(<<"deathsig", "parent", "group">>) = <<"parent", "group">>
    /\ Tail(<<"group", "deathsig", "parent">>) = <<"deathsig", "parent">>
    /\ Tail(<<"parent", "group">>) = <<"group">> /\ Tail(<<"deathsig", "parent">>) = <<"parent">>
    /\ Tail(<<"group">>) = <<>> /\ Tail(<<"parent">>) = <<>>
    /\ \A a, b, c : Head(<<a>>) = a /\ Head(<<a, b>>) = a /\ Head(<<a, b, c>>) = a
OBVIOUS

LEMMA UnboundSteps ==
    /\ <<"parent", "group">> \notin Unbound /\ <<"group">> \notin Unbound
    /\ <<"parent">> \notin Unbound /\ <<>> \notin Unbound
BY DEF Unbound

\* What is kept of a read fits beside what was kept before.
LEMMA KeptFits ==
    ASSUME NEW limit \in Nat, NEW kept \in 0 .. limit, NEW room \in 0 .. limit,
           kept + room <= limit, NEW n \in Nat
    PROVE  kept + (IF n > room THEN room ELSE n) \in 0 .. limit
OBVIOUS

LEMMA VInvInit == Init => VInv
<1> SUFFICES ASSUME Init PROVE VInv
  OBVIOUS
<1> USE DEF Init
<1>1. TypeOK
  <2>1. {bound, stolen, adopted, expired} \subseteq BOOLEAN /\ quiet \in BOOLEAN
    OBVIOUS
  <2>2. setup \in Seq({"deathsig", "parent", "group"})
    OBVIOUS
  <2>3. \A s \in Streams : 0 \in 0 .. MaxWritten /\ 0 \in 0 .. Limit
    BY ProcessAssumption
  <2> QED
    BY <2>1, <2>2, <2>3 DEF TypeOK, Calls
<1>2. SetUpInOrder /\ OneChild /\ WatchesOnly
  BY DEF SetUpInOrder, OneChild, WatchesOnly, Remaining, Owned, Calls
<1>3. EndedByItself /\ PipesDrained /\ Verdict /\ OrphanLooks
  BY ProcessAssumption DEF EndedByItself, PipesDrained, Verdict, OrphanLooks, Kept, Streams, Cleaning
<1> QED
  BY <1>1, <1>2, <1>3 DEF VInv

\* The tables after a process has ended.
LEMMA EndsTyped ==
    ASSUME TypeOK, NEW p \in Pids, Ends(p)
    PROVE  /\ state' \in [Pids -> {"free", "running", "zombie"}]
           /\ who' \in [Pids -> {"none", "child", "descendant", "stranger"}]
           /\ group' \in [Pids -> Pids \cup {Nobody}]
           /\ doomed' \subseteq {q \in Pids : state'[q] = "running"}
BY DEF TypeOK, Ends, Freed

LEMMA VInvStep ==
    ASSUME VInv, [Next]_vars
    PROVE  VInv'
<1> USE ProcessAssumption
    DEF VInv, TypeOK, SetUpInOrder, OneChild, WatchesOnly, EndedByItself, PipesDrained, Verdict,
        OrphanLooks, Remaining, Unbound, SeesParent, Watching, Cleaning, Owned, Holds, Running,
        Kept, Streams, Calls
<1>1. CASE UNCHANGED vars
  BY <1>1 DEF vars, kernel, callee, self, pipes
<1>2. CASE Spawn
  <2>1. TypeOK'
    <3>1. PreExec \in Seq({"deathsig", "parent", "group"})
      <4>1. CASE call = "codec"
        BY <4>1 DEF PreExec
      <4>2. CASE call = "session"
        BY <4>2 DEF PreExec
      <4>3. CASE call = "backend"
        BY <4>3 DEF PreExec
      <4> QED
        BY <4>1, <4>2, <4>3
    <3> HIDE DEF PreExec
    <3> QED
      BY <1>2, <3>1 DEF Spawn, Starts, Unused, Goto, pipes
  <2>2. SetUpInOrder'
    BY <1>2 DEF Spawn, Starts, Unused, Goto, pipes, PreExec
  <2>3. OneChild'
    BY <1>2 DEF Spawn, Starts, Unused, Goto, pipes, PreExec
  <2>4. WatchesOnly'
    BY <1>2 DEF Spawn, Starts, Unused, Goto, pipes, PreExec
  <2>5. EndedByItself'
    BY <1>2 DEF Spawn, Starts, Unused, Goto, pipes, PreExec
  <2>6. PipesDrained'
    BY <1>2 DEF Spawn, Starts, Unused, Goto, pipes, PreExec
  <2>7. Verdict'
    BY <1>2 DEF Spawn, Starts, Unused, Goto, pipes, PreExec
  <2>8. OrphanLooks'
    BY <1>2 DEF Spawn, Starts, Unused, Goto, pipes, PreExec
  <2> QED
    BY <2>1, <2>2, <2>3, <2>4, <2>5, <2>6, <2>7, <2>8
<1>3. CASE Spawned
  BY <1>3 DEF Spawned, Goto, kernel, callee, pipes
<1>4. CASE NotSpawned
  BY <1>4 DEF NotSpawned, Disown, Freed, Goto, callee, self, pipes
<1>5. CASE Adopt
  <2>1. TypeOK'
    BY <1>5 DEF Adopt, Goto, kernel, callee, pipes
  <2>2. SetUpInOrder'
    BY <1>5 DEF Adopt, Goto, kernel, callee, pipes
  <2>3. OneChild'
    BY <1>5 DEF Adopt, Goto, kernel, callee, pipes
  <2>4. WatchesOnly'
    BY <1>5 DEF Adopt, Goto, kernel, callee, pipes
  <2>5. EndedByItself'
    BY <1>5 DEF Adopt, Goto, kernel, callee, pipes
  <2>6. PipesDrained'
    BY <1>5 DEF Adopt, Goto, kernel, callee, pipes
  <2>7. Verdict'
    BY <1>5 DEF Adopt, Goto, kernel, callee, pipes
  <2>8. OrphanLooks'
    BY <1>5 DEF Adopt, Goto, kernel, callee, pipes
  <2> QED
    BY <2>1, <2>2, <2>3, <2>4, <2>5, <2>6, <2>7, <2>8
<1>6. CASE Logs
  BY <1>6 DEF Logs, GiveUp, Goto, Watches, kernel, callee, self, pipes
<1>7. CASE SeeExit
  <2>1. TypeOK'
    BY <1>7 DEF SeeExit, Disown, Goto, Watches, kernel, callee, self, pipes
  <2>2. SetUpInOrder'
    BY <1>7 DEF SeeExit, Disown, Goto, Watches, kernel, callee, self, pipes
  <2>3. OneChild'
    BY <1>7 DEF SeeExit, Disown, Goto, Watches, kernel, callee, self, pipes
  <2>4. WatchesOnly'
    BY <1>7 DEF SeeExit, Disown, Goto, Watches, kernel, callee, self, pipes
  <2>5. EndedByItself'
    BY <1>7 DEF SeeExit, Disown, Goto, Watches, kernel, callee, self, pipes
  <2>6. PipesDrained'
    BY <1>7 DEF SeeExit, Disown, Goto, Watches, kernel, callee, self, pipes
  <2>7. Verdict'
    BY <1>7 DEF SeeExit, Disown, Goto, Watches, kernel, callee, self, pipes
  <2>8. OrphanLooks'
    BY <1>7 DEF SeeExit, Disown, Goto, Watches, kernel, callee, self, pipes
  <2> QED
    BY <2>1, <2>2, <2>3, <2>4, <2>5, <2>6, <2>7, <2>8
<1>8. CASE Deadline
  BY <1>8 DEF Deadline, GiveUp, Goto, Watches, kernel, callee, self, pipes
<1>9. CASE PipesTimeout
  BY <1>9 DEF PipesTimeout, GiveUp, Goto, Watches, kernel, callee, self, pipes
<1>10. CASE PipesDone
  BY <1>10 DEF PipesDone, Goto, Watches, kernel, callee, self, pipes
<1>11. CASE AwaitExit
  BY <1>11 DEF AwaitExit, Disown, GiveUp, Goto, Watches, kernel, callee, self, pipes
<1>12. ASSUME NEW s \in Streams, ReadPipe(s) PROVE VInv'
  <2>1. TypeOK'
    <3>1. PICK n \in 1 .. written[s] - captured[s] :
              LET available == Limit - Kept IN
              /\ n <= available + 1
              /\ captured' = [captured EXCEPT
                               ![s] = @ + (IF n > available THEN available ELSE n)]
              /\ IF n > available THEN GiveUp("output") ELSE UNCHANGED <<outcome, caller>>
      BY <1>12 DEF ReadPipe
    <3>2. captured' \in [Streams -> 0 .. Limit]
      <4>1. Limit - Kept \in 0 .. Limit /\ captured[s] + (Limit - Kept) <= Limit
        BY <1>12 DEF ReadPipe
      <4>2. n \in Nat /\ captured[s] \in 0 .. Limit /\ captured \in [Streams -> 0 .. Limit]
        BY <1>12
      <4>3. captured[s] + (IF n > Limit - Kept THEN Limit - Kept ELSE n) \in 0 .. Limit
        BY ONLY <4>1, <4>2, ProcessAssumption, KeptFits DEF ProcessAssumption
      <4> QED
        BY ONLY <3>1, <4>2, <4>3
    <3>3. UNCHANGED <<kernel, callee, self, victims, open>>
      BY <1>12 DEF ReadPipe, Reads
    <3>4. outcome' \in {outcome, "output"} /\ caller' \in {caller, "probe"}
      BY <3>1 DEF GiveUp, Goto
    <3> QED
      BY <3>2, <3>3, <3>4 DEF kernel, callee, self
  <2>2. SetUpInOrder'
    BY <1>12 DEF ReadPipe, GiveUp, Goto, Reads, kernel, callee, self
  <2>3. OneChild'
    BY <1>12 DEF ReadPipe, GiveUp, Goto, Reads, kernel, callee, self
  <2>4. WatchesOnly'
    BY <1>12 DEF ReadPipe, GiveUp, Goto, Reads, kernel, callee, self
  <2>5. EndedByItself'
    BY <1>12 DEF ReadPipe, GiveUp, Goto, Reads, kernel, callee, self
  <2>6. PipesDrained'
    <3>1. Kept' <= Limit
      <4>1. CASE s = "stdout"
        BY <1>12, <4>1 DEF ReadPipe, GiveUp, Goto, Reads, kernel, callee, self
      <4>2. CASE s = "stderr"
        BY <1>12, <4>2 DEF ReadPipe, GiveUp, Goto, Reads, kernel, callee, self
      <4> QED
        BY <4>1, <4>2
    <3>2. call = "backend"
      BY <1>12 DEF ReadPipe
    <3> QED
      BY <1>12, <3>1, <3>2 DEF ReadPipe, GiveUp, Goto, Reads, kernel, callee, self
  <2>7. Verdict'
    BY <1>12 DEF ReadPipe, GiveUp, Goto, Reads, kernel, callee, self
  <2>8. OrphanLooks'
    BY <1>12 DEF ReadPipe, GiveUp, Goto, Reads, kernel, callee, self
  <2> QED
    BY <2>1, <2>2, <2>3, <2>4, <2>5, <2>6, <2>7, <2>8
<1>13. ASSUME NEW s \in Streams, ClosePipe(s) PROVE VInv'
  BY <1>13 DEF ClosePipe, Reads, kernel, callee, self
<1>14. CASE Probe
  BY <1>14 DEF Probe, Goto, Watches, kernel, callee, self, pipes
<1>15. CASE KillGroup
  <2>1. TypeOK'
    <3>1. {p \in Pids : group[p] = child /\ Running(p)} \subseteq {p \in Pids : state[p] = "running"}
      OBVIOUS
    <3>2. \A p \in Pids : Running(p) => who[p] \in {"child", "descendant", "stranger"}
      OBVIOUS
    <3> QED
      BY <1>15, <3>1, <3>2 DEF KillGroup, Signal, Goto, callee, self, pipes
  <2>2. SetUpInOrder'
    BY <1>15 DEF KillGroup, Signal, Goto, callee, self, pipes
  <2>3. OneChild'
    BY <1>15 DEF KillGroup, Signal, Goto, callee, self, pipes
  <2>4. WatchesOnly'
    BY <1>15 DEF KillGroup, Signal, Goto, callee, self, pipes
  <2>5. EndedByItself'
    BY <1>15 DEF KillGroup, Signal, Goto, callee, self, pipes
  <2>6. PipesDrained'
    BY <1>15 DEF KillGroup, Signal, Goto, callee, self, pipes
  <2>7. Verdict'
    BY <1>15 DEF KillGroup, Signal, Goto, callee, self, pipes
  <2>8. OrphanLooks'
    BY <1>15 DEF KillGroup, Signal, Goto, callee, self, pipes
  <2> QED
    BY <2>1, <2>2, <2>3, <2>4, <2>5, <2>6, <2>7, <2>8
<1>16. CASE KillChild
  <2>1. TypeOK'
    <3>1. child \in Pids => {p \in {child} : Running(p)} \subseteq {p \in Pids : state[p] = "running"}
      OBVIOUS
    <3>2. \A p \in Pids : Running(p) => who[p] \in {"child", "descendant", "stranger"}
      OBVIOUS
    <3> QED
      BY <1>16, <3>1, <3>2 DEF KillChild, Signal, Goto, callee, self, pipes
  <2>2. SetUpInOrder'
    BY <1>16 DEF KillChild, Signal, Goto, callee, self, pipes
  <2>3. OneChild'
    BY <1>16 DEF KillChild, Signal, Goto, callee, self, pipes
  <2>4. WatchesOnly'
    BY <1>16 DEF KillChild, Signal, Goto, callee, self, pipes
  <2>5. EndedByItself'
    BY <1>16 DEF KillChild, Signal, Goto, callee, self, pipes
  <2>6. PipesDrained'
    BY <1>16 DEF KillChild, Signal, Goto, callee, self, pipes
  <2>7. Verdict'
    BY <1>16 DEF KillChild, Signal, Goto, callee, self, pipes
  <2>8. OrphanLooks'
    BY <1>16 DEF KillChild, Signal, Goto, callee, self, pipes
  <2> QED
    BY <2>1, <2>2, <2>3, <2>4, <2>5, <2>6, <2>7, <2>8
<1>17. CASE Wait
  <2>1. TypeOK'
    BY <1>17 DEF Wait, Freed, Goto, callee, self, pipes
  <2>2. SetUpInOrder'
    BY <1>17 DEF Wait, Freed, Goto, callee, self, pipes
  <2>3. OneChild'
    BY <1>17 DEF Wait, Freed, Goto, callee, self, pipes
  <2>4. WatchesOnly'
    BY <1>17 DEF Wait, Freed, Goto, callee, self, pipes
  <2>5. EndedByItself'
    BY <1>17 DEF Wait, Freed, Goto, callee, self, pipes
  <2>6. PipesDrained'
    BY <1>17 DEF Wait, Freed, Goto, callee, self, pipes
  <2>7. Verdict'
    BY <1>17 DEF Wait, Freed, Goto, callee, self, pipes
  <2>8. OrphanLooks'
    BY <1>17 DEF Wait, Freed, Goto, callee, self, pipes
  <2> QED
    BY <2>1, <2>2, <2>3, <2>4, <2>5, <2>6, <2>7, <2>8
<1>18. CASE Collect
  <2>1. TypeOK'
    BY <1>18 DEF Collect, Goto, kernel, callee, self
  <2>2. SetUpInOrder'
    BY <1>18 DEF Collect, Goto, kernel, callee, self
  <2>3. OneChild'
    BY <1>18 DEF Collect, Goto, kernel, callee, self
  <2>4. WatchesOnly'
    BY <1>18 DEF Collect, Goto, kernel, callee, self
  <2>5. EndedByItself'
    BY <1>18 DEF Collect, Goto, kernel, callee, self
  <2>6. PipesDrained'
    <3>1. CASE call = "codec"
      BY <1>18, <3>1 DEF Collect, Goto, kernel, callee, self
    <3>2. CASE call # "codec"
      BY <1>18, <3>2 DEF Collect, Goto, kernel, callee, self
    <3> QED
      BY <3>1, <3>2
  <2>7. Verdict'
    BY <1>18 DEF Collect, Goto, kernel, callee, self
  <2>8. OrphanLooks'
    BY <1>18 DEF Collect, Goto, kernel, callee, self
  <2> QED
    BY <2>1, <2>2, <2>3, <2>4, <2>5, <2>6, <2>7, <2>8
<1>19. CASE SetUp
  <2>1. TypeOK'
    BY <1>19 DEF SetUp, ByOthers, self, pipes
  <2>2. SetUpInOrder'
    <3>1. ASSUME call = "codec" PROVE SetUpInOrder'
      <4>1. CASE setup = <<"deathsig", "parent", "group">>
        BY <1>19, <3>1, <4>1, TailOfTuple, UnboundSteps DEF SetUp, ByOthers, self, pipes
      <4>2. CASE setup = <<"parent", "group">>
        BY <1>19, <3>1, <4>2, TailOfTuple, UnboundSteps DEF SetUp, ByOthers, self, pipes
      <4>3. CASE setup = <<"group">>
        BY <1>19, <3>1, <4>3, TailOfTuple, UnboundSteps DEF SetUp, ByOthers, self, pipes
      <4> QED
        BY <1>19, <3>1, <4>1, <4>2, <4>3 DEF SetUp
    <3>2. ASSUME call = "session" PROVE SetUpInOrder'
      <4>1. CASE setup = <<"group", "deathsig", "parent">>
        BY <1>19, <3>2, <4>1, TailOfTuple, UnboundSteps DEF SetUp, ByOthers, self, pipes
      <4>2. CASE setup = <<"deathsig", "parent">>
        BY <1>19, <3>2, <4>2, TailOfTuple, UnboundSteps DEF SetUp, ByOthers, self, pipes
      <4>3. CASE setup = <<"parent">>
        BY <1>19, <3>2, <4>3, TailOfTuple, UnboundSteps DEF SetUp, ByOthers, self, pipes
      <4> QED
        BY <1>19, <3>2, <4>1, <4>2, <4>3 DEF SetUp
    <3>3. CASE call = "backend"
      BY <1>19, <3>3, TailOfTuple DEF SetUp, ByOthers, self, pipes
    <3> QED
      BY <3>1, <3>2, <3>3
  <2>3. OneChild'
    BY <1>19 DEF SetUp, ByOthers, self, pipes
  <2>4. WatchesOnly'
    BY <1>19 DEF SetUp, ByOthers, self, pipes
  <2>5. EndedByItself'
    BY <1>19 DEF SetUp, ByOthers, self, pipes
  <2>6. PipesDrained'
    BY <1>19 DEF SetUp, ByOthers, self, pipes
  <2>7. Verdict'
    BY <1>19 DEF SetUp, ByOthers, self, pipes
  <2>8. OrphanLooks'
    <3>1. ASSUME call = "codec" PROVE OrphanLooks'
      <4>1. CASE setup = <<"deathsig", "parent", "group">>
        BY <1>19, <3>1, <4>1, TailOfTuple, UnboundSteps DEF SetUp, ByOthers, self, pipes
      <4>2. CASE setup = <<"parent", "group">>
        BY <1>19, <3>1, <4>2, TailOfTuple, UnboundSteps DEF SetUp, ByOthers, self, pipes
      <4>3. CASE setup = <<"group">>
        BY <1>19, <3>1, <4>3, TailOfTuple, UnboundSteps DEF SetUp, ByOthers, self, pipes
      <4> QED
        BY <1>19, <3>1, <4>1, <4>2, <4>3 DEF SetUp
    <3>2. ASSUME call = "session" PROVE OrphanLooks'
      <4>1. CASE setup = <<"group", "deathsig", "parent">>
        BY <1>19, <3>2, <4>1, TailOfTuple, UnboundSteps DEF SetUp, ByOthers, self, pipes
      <4>2. CASE setup = <<"deathsig", "parent">>
        BY <1>19, <3>2, <4>2, TailOfTuple, UnboundSteps DEF SetUp, ByOthers, self, pipes
      <4>3. CASE setup = <<"parent">>
        BY <1>19, <3>2, <4>3, TailOfTuple, UnboundSteps DEF SetUp, ByOthers, self, pipes
      <4> QED
        BY <1>19, <3>2, <4>1, <4>2, <4>3 DEF SetUp
    <3>3. CASE call = "backend"
      BY <1>19, <3>3 DEF SetUp, ByOthers, self, pipes
    <3> QED
      BY <3>1, <3>2, <3>3
  <2> QED
    BY <2>1, <2>2, <2>3, <2>4, <2>5, <2>6, <2>7, <2>8
<1>20. CASE SetUpFails
  <2>1. TypeOK'
    <3>1. child \in Pids
      BY <1>20 DEF SetUpFails
    <3> QED
      BY <1>20, <3>1, EndsTyped DEF SetUpFails, ByOthers, self, pipes
  <2>2. SetUpInOrder'
    BY <1>20 DEF SetUpFails, Ends, Freed, ByOthers, self, pipes
  <2>3. OneChild'
    BY <1>20 DEF SetUpFails, Ends, Freed, ByOthers, self, pipes
  <2>4. WatchesOnly'
    BY <1>20 DEF SetUpFails, Ends, Freed, ByOthers, self, pipes
  <2>5. EndedByItself'
    BY <1>20 DEF SetUpFails, Ends, Freed, ByOthers, self, pipes
  <2>6. PipesDrained'
    BY <1>20 DEF SetUpFails, Ends, Freed, ByOthers, self, pipes
  <2>7. Verdict'
    BY <1>20 DEF SetUpFails, Ends, Freed, ByOthers, self, pipes
  <2>8. OrphanLooks'
    BY <1>20 DEF SetUpFails, Ends, Freed, ByOthers, self, pipes
  <2> QED
    BY <2>1, <2>2, <2>3, <2>4, <2>5, <2>6, <2>7, <2>8
<1>21. CASE CloseStreams
  BY <1>21 DEF CloseStreams, ByOthers, kernel, self, pipes
<1>22. CASE Regroup
  BY <1>22 DEF Regroup, Alive, ByOthers, callee, self, pipes
<1>23. ASSUME NEW p \in Pids, Die(p) PROVE VInv'
  <2>1. TypeOK'
    BY <1>23, EndsTyped DEF Die, ByOthers, self, pipes
  <2>2. SetUpInOrder'
    BY <1>23 DEF Die, Ends, Freed, ByOthers, self, pipes
  <2>3. OneChild'
    BY <1>23 DEF Die, Ends, Freed, ByOthers, self, pipes
  <2>4. WatchesOnly'
    BY <1>23 DEF Die, Ends, Freed, ByOthers, self, pipes
  <2>5. EndedByItself'
    BY <1>23 DEF Die, Ends, Freed, ByOthers, self, pipes
  <2>6. PipesDrained'
    BY <1>23 DEF Die, Ends, Freed, ByOthers, self, pipes
  <2>7. Verdict'
    BY <1>23 DEF Die, Ends, Freed, ByOthers, self, pipes
  <2>8. OrphanLooks'
    BY <1>23 DEF Die, Ends, Freed, ByOthers, self, pipes
  <2> QED
    BY <2>1, <2>2, <2>3, <2>4, <2>5, <2>6, <2>7, <2>8
<1>24. ASSUME NEW p \in Pids, Exit(p) PROVE VInv'
  <2>1. TypeOK'
    BY <1>24 DEF Exit, Ends, Freed, Alive, ByOthers, self, pipes
  <2>2. SetUpInOrder'
    BY <1>24 DEF Exit, Ends, Freed, Alive, ByOthers, self, pipes
  <2>3. OneChild'
    BY <1>24 DEF Exit, Ends, Freed, Alive, ByOthers, self, pipes
  <2>4. WatchesOnly'
    BY <1>24 DEF Exit, Ends, Freed, Alive, ByOthers, self, pipes
  <2>5. EndedByItself'
    BY <1>24 DEF Exit, Ends, Freed, Alive, ByOthers, self, pipes
  <2>6. PipesDrained'
    BY <1>24 DEF Exit, Ends, Freed, Alive, ByOthers, self, pipes
  <2>7. Verdict'
    BY <1>24 DEF Exit, Ends, Freed, Alive, ByOthers, self, pipes
  <2>8. OrphanLooks'
    BY <1>24 DEF Exit, Ends, Freed, Alive, ByOthers, self, pipes
  <2> QED
    BY <2>1, <2>2, <2>3, <2>4, <2>5, <2>6, <2>7, <2>8
<1>25. ASSUME NEW p \in Pids, Fork(p) PROVE VInv'
  <2>1. TypeOK'
    BY <1>25 DEF Fork, Starts, Unused, Alive, ByOthers, callee, self, pipes
  <2>2. SetUpInOrder'
    BY <1>25 DEF Fork, Starts, Unused, Alive, ByOthers, callee, self, pipes
  <2>3. OneChild'
    BY <1>25 DEF Fork, Starts, Unused, Alive, ByOthers, callee, self, pipes
  <2>4. WatchesOnly'
    BY <1>25 DEF Fork, Starts, Unused, Alive, ByOthers, callee, self, pipes
  <2>5. EndedByItself'
    BY <1>25 DEF Fork, Starts, Unused, Alive, ByOthers, callee, self, pipes
  <2>6. PipesDrained'
    BY <1>25 DEF Fork, Starts, Unused, Alive, ByOthers, callee, self, pipes
  <2>7. Verdict'
    BY <1>25 DEF Fork, Starts, Unused, Alive, ByOthers, callee, self, pipes
  <2>8. OrphanLooks'
    BY <1>25 DEF Fork, Starts, Unused, Alive, ByOthers, callee, self, pipes
  <2> QED
    BY <2>1, <2>2, <2>3, <2>4, <2>5, <2>6, <2>7, <2>8
<1>26. ASSUME NEW p \in Pids, NEW s \in Streams, Write(p, s) PROVE VInv'
  BY <1>26 DEF Write, ByOthers, kernel, self, pipes
<1>27. CASE Stranger
  BY <1>27 DEF Stranger, Starts, Unused, ByOthers, callee, self, pipes
<1>28. CASE ForeignReap
  BY <1>28 DEF ForeignReap, Freed, callee, pipes
<1>29. CASE Expire
  BY <1>29 DEF Expire, kernel, callee, pipes
<1>30. CASE CrashCaller
  <2>1. TypeOK'
    BY <1>30 DEF CrashCaller, Active, Freed, Goto, callee, self, pipes
  <2>2. SetUpInOrder'
    BY <1>30 DEF CrashCaller, Active, Freed, Goto, callee, self, pipes
  <2>3. OneChild'
    BY <1>30 DEF CrashCaller, Active, Freed, Goto, callee, self, pipes
  <2>4. WatchesOnly'
    BY <1>30 DEF CrashCaller, Active, Freed, Goto, callee, self, pipes
  <2>5. EndedByItself'
    BY <1>30 DEF CrashCaller, Active, Freed, Goto, callee, self, pipes
  <2>6. PipesDrained'
    BY <1>30 DEF CrashCaller, Active, Freed, Goto, callee, self, pipes
  <2>7. Verdict'
    BY <1>30 DEF CrashCaller, Active, Freed, Goto, callee, self, pipes
  <2>8. OrphanLooks'
    BY <1>30 DEF CrashCaller, Active, Freed, Goto, callee, self, pipes
  <2> QED
    BY <2>1, <2>2, <2>3, <2>4, <2>5, <2>6, <2>7, <2>8
<1> HIDE DEF VInv
<1> QED
  BY <1>1, <1>2, <1>3, <1>4, <1>5, <1>6, <1>7, <1>8, <1>9, <1>10, <1>11, <1>12, <1>13, <1>14, <1>15, <1>16, <1>17, <1>18, <1>19, <1>20, <1>21, <1>22, <1>23, <1>24, <1>25, <1>26, <1>27, <1>28, <1>29, <1>30 DEF Next

-------------------------------------------------------------------------------
(* The theorems *)

\* Unless the child was stolen no stranger is ever signalled, however fast pids are
\* reused: the child's zombie keeps pid and group identifier from being reused.
THEOREM SignalsOnlyOwn == Spec => []NeverSignalsStranger
<1>1. OInv => NeverSignalsStranger
  BY DEF OInv
<1> QED
  BY <1>1, OInvariant, PTL

\* Nor does a call return before its child is reaped and everybody in the
\* child's group is condemned.
THEOREM LeavesNoSurvivors == Spec => []NoSurvivors
<1>1. OInv => NoSurvivors
  BY DEF OInv, ChildPinned, GroupDoomed, NoSurvivors
<1> QED
  BY <1>1, OInvariant, PTL

LEMMA VInvariant == Spec => []VInv
<1>1. VInv /\ [Next]_vars => VInv'
  BY VInvStep
<1> QED
  BY <1>1, VInvInit, PTL DEF Spec

\* A call stays in its types: in particular it never keeps more than its limit
\* of either stream.
THEOREM CallTypes == Spec => []TypeOK
<1>1. VInv => TypeOK
  BY DEF VInv
<1> QED
  BY <1>1, VInvariant, PTL

\* The verdict is the child's own: whoever else reaps it, whatever is killed in
\* the clean-up, success and failure are how it ended before, with all its output.
THEOREM VerdictIsTrue == Spec => []OutcomeIsTrue
<1>1. ASSUME VInv PROVE OutcomeIsTrue
  <2>1. outcome = "ok" => status = "success"
    BY <1>1 DEF VInv, Verdict
  <2>2. outcome = "ok" /\ call = "codec" => captured["stdout"] <= Limit
    BY <1>1, ProcessAssumption DEF VInv, TypeOK, Streams
  <2>3. ASSUME outcome = "ok", call = "backend" PROVE captured = written
    <3>1. \A s \in Streams : captured[s] = written[s]
      BY <1>1, <2>3 DEF VInv, PipesDrained, Verdict
    <3>2. DOMAIN captured = Streams /\ DOMAIN written = Streams
      BY <1>1 DEF VInv, TypeOK
    <3>3. captured = [s \in Streams |-> captured[s]] /\ written = [s \in Streams |-> written[s]]
      BY <1>1, <3>2 DEF VInv, TypeOK
    <3> QED
      BY <3>1, <3>3
  <2>4. /\ outcome = "nonzero" => status = "failure"
        /\ outcome = "timeout" => expired
    BY <1>1 DEF VInv, Verdict
  <2> QED
    BY <2>1, <2>2, <2>3, <2>4 DEF OutcomeIsTrue
<1> QED
  BY <1>1, VInvariant, PTL

\* Both pipes together never exceed the limit of a back end.
THEOREM MemoryIsBounded == Spec => []OutputBounded
<1>1. VInv => OutputBounded
  BY DEF VInv, PipesDrained, OutputBounded
<1> QED
  BY <1>1, VInvariant, PTL

\* Wherever the caller is killed, its codec or worker is condemned or has yet to
\* find out that its parent is gone.
THEOREM OrphansEnd == Spec => []OrphanIsDoomed
<1>1. VInv => OrphanIsDoomed
  BY DEF VInv, OrphanLooks, SeesParent, Unbound, OrphanIsDoomed, Alive
<1> QED
  BY <1>1, VInvariant, PTL
===============================================================================
