--------------------------- MODULE AttemptsProofs ---------------------------
(***************************************************************************)
(* Of the two places that keep the result of one attempt, for any number   *)
(* of workers and callers, recordings, configurations, faults, and any     *)
(* lengths of time: who is told that its result is stored and how long a   *)
(* lease lasts (AttemptStore), and what an answer is made of               *)
(* (ClippingAttempt).  Neither touches the other, so the invariants of     *)
(* both hold of every behaviour.                                           *)
(***************************************************************************)
EXTENDS MCAttempts, TLAPS
-----------------------------------------------------------------------------
(* The store *)

LEMMA StoreInit == Init => IInv
BY AttemptAssumption DEF Init, IInv, TypeOK, OneResult, TokensDiffer,
    GrantFollowsStart, Terminal, MaxAge

(* What a reservation needs of the row: it has no result that counts. *)
LEMMA ReserveKeeps ==
    ASSUME IInv, NEW w \in Workers, Reserve(w) PROVE IInv'
<1> USE AttemptAssumption DEF IInv
<1>1. TypeOK'
  BY DEF Reserve, StartAge, TypeOK, MaxAge
<1>2. status # "none" => status = "running"
  BY DEF Reserve, Available
<1>3. \A v \in Workers : at[v] # "accepted"
  BY <1>2 DEF OneResult, TokensDiffer, TypeOK, Terminal, Reserve, Available
<1>4. OneResult'
  BY <1>3 DEF Reserve, OneResult, TypeOK, Terminal
<1>5. TokensDiffer'
  BY DEF Reserve, TokensDiffer, TypeOK
<1>6. GrantFollowsStart'
  BY DEF Reserve, StartAge, GrantFollowsStart, TypeOK
<1> QED BY <1>1, <1>4, <1>5, <1>6

(* A recorded result is the first, and the lease's. *)
LEMMA RecordsKeeps ==
    ASSUME IInv, NEW w \in Workers, at[w] = "working", Records(w),
           UNCHANGED <<mine, askedAge, issued>>,
           faults' \in 0..MaxFaults,
           at' \in {at, [at EXCEPT ![w] = "accepted"]}
    PROVE  IInv'
<1> USE DEF IInv
<1>1. TypeOK'
  BY DEF Records, TypeOK
<1>2. \A v \in Workers : at[v] # "accepted"
  BY DEF OneResult, TokensDiffer, TypeOK, Terminal, Records, HoldsLease
<1>3. \A v \in Workers : at'[v] = "accepted" => v = w
  BY <1>2 DEF TypeOK
<1>4. mine[w] # 0
  BY DEF TokensDiffer
<1>5. OneResult'
  BY <1>3, <1>4 DEF Records, HoldsLease, OneResult, TypeOK, Terminal
<1>6. TokensDiffer'
  BY DEF Records, HoldsLease, TokensDiffer, TypeOK, Terminal
<1>7. GrantFollowsStart'
  BY DEF Records, GrantFollowsStart
<1> QED BY <1>1, <1>5, <1>6, <1>7

(* Steps that leave the row and the tokens alone, and accept nobody. *)
LEMMA OtherWorkersKeep ==
    ASSUME IInv, TypeOK', UNCHANGED <<row, mine, issued>>,
           \A v \in Workers : at'[v] \in {"working", "accepted"} => at'[v] = at[v]
    PROVE  IInv'
BY DEF IInv, row, OneResult, TokensDiffer, GrantFollowsStart

(* Both ages grow alike until they are too great to matter. *)
LEMMA TickKeeps == IInv /\ Tick => IInv'
<1> SUFFICES ASSUME IInv, Tick PROVE IInv'
  OBVIOUS
<1> USE AttemptAssumption DEF IInv
<1>1. TypeOK'
  BY DEF Tick, Fault, TypeOK, Later, MaxAge
<1>2. GrantFollowsStart'
  BY DEF Tick, TypeOK, Later, MaxAge, GrantFollowsStart
<1>3. OneResult' /\ TokensDiffer'
  BY DEF Tick, OneResult, TokensDiffer
<1> QED BY <1>1, <1>2, <1>3

LEMMA StoreNext == IInv /\ [Next]_vars => IInv'
<1> SUFFICES ASSUME IInv, [Next]_vars PROVE IInv'
  OBVIOUS
<1> USE AttemptAssumption
<1>1. ASSUME NEW w \in Workers, Ask(w) PROVE IInv'
  <2>1. TypeOK'
    BY <1>1 DEF IInv, Ask, row, TypeOK
  <2> QED BY <1>1, <2>1, OtherWorkersKeep DEF IInv, Ask, TypeOK
<1>2. ASSUME NEW w \in Workers, Refuse(w) PROVE IInv'
  <2>1. TypeOK'
    BY <1>2 DEF IInv, Refuse, row, TypeOK
  <2> QED BY <1>2, <2>1, OtherWorkersKeep DEF IInv, Refuse, TypeOK
<1>3. ASSUME NEW w \in Workers, Crash(w) PROVE IInv'
  <2>1. TypeOK'
    BY <1>3 DEF IInv, Crash, Fault, row, TypeOK
  <2> QED BY <1>3, <2>1, OtherWorkersKeep DEF IInv, Crash, TypeOK
<1>4. ASSUME NEW w \in Workers, Finish(w) PROVE IInv'
  <2>1. CASE Records(w)
    BY <1>4, <2>1, RecordsKeeps DEF Finish, IInv, TypeOK, HoldsLease, Records
  <2>2. CASE ~HoldsLease(w)
    <3>1. TypeOK'
      BY <1>4, <2>2 DEF IInv, Finish, Records, row, TypeOK
    <3> QED BY <1>4, <2>2, <3>1, OtherWorkersKeep DEF IInv, Finish, Records, TypeOK
  <2> QED BY <1>4, <2>1, <2>2 DEF Finish
<1>5. ASSUME NEW w \in Workers, FinishUnanswered(w) PROVE IInv'
  BY <1>5, RecordsKeeps DEF FinishUnanswered, Fault, IInv, TypeOK
<1>6. CASE UNCHANGED vars
  BY <1>6 DEF vars, row, IInv, TypeOK, OneResult, TokensDiffer, GrantFollowsStart
<1> QED
  BY <1>1, <1>2, <1>3, <1>4, <1>5, <1>6, ReserveKeeps, TickKeeps DEF Next, Worker

-----------------------------------------------------------------------------
(* The directory: calls *)

\* A call that goes on keeps what it has read; the others are as before.
LEMMA GotoFrame ==
    ASSUME C!TypeOK, NEW c \in Callers, C!At(c) # "idle", NEW place \in C!Places, C!Goto(c, place)
    PROVE  /\ call' \in [Callers -> {C!Idle} \cup C!Calls]
           /\ C!At(c)' = place
           /\ call'[c].plan = call[c].plan /\ call'[c].stamp = call[c].stamp
           /\ call'[c].selected = call[c].selected /\ call'[c].decoded = call[c].decoded
           /\ \A d \in Callers : d # c => call'[d] = call[d]
<1>1. call[c] \in C!Calls
      BY DEF C!TypeOK, C!At, C!Idle
<1>2. /\ call'[c] = [call[c] EXCEPT !.at = place]
      /\ \A d \in Callers : d # c => call'[d] = call[d]
      BY DEF C!TypeOK, C!Goto
<1>3. [call[c] EXCEPT !.at = place] \in C!Calls
      BY <1>1 DEF C!Calls
<1>4. call' \in [Callers -> {C!Idle} \cup C!Calls]
      BY <1>2, <1>3 DEF C!TypeOK, C!Goto
<1> QED
    BY <1>1, <1>2, <1>4 DEF C!At, C!Calls

\* A call that ends leaves nothing behind.
LEMMA ReturnFrame ==
    ASSUME C!TypeOK, NEW c \in Callers, C!Return(c)
    PROVE  /\ call' \in [Callers -> {C!Idle} \cup C!Calls]
           /\ C!At(c)' = "idle"
           /\ \A d \in Callers : d # c => call'[d] = call[d]
BY DEF C!TypeOK, C!Return, C!At, C!Idle

\* What calls say of the state, if the recording, the plan and the result stay.
LEMMA OtherCallsKeep ==
    ASSUME C!IInv, NEW c \in Callers,
           call' \in [Callers -> {C!Idle} \cup C!Calls],
           \A d \in Callers : d # c => call'[d] = call[d],
           source' = source, dir' = dir, answers' = answers, named' \in Nat, inodes' \in Nat,
           synced' \in [plan : BOOLEAN, result : BOOLEAN], synced.result => synced'.result,
           synced'.result => dir.result # Absent
    PROVE  /\ C!TypeOK' /\ C!AnswersHold'
           /\ (C!At(c)' # "idle" =>
                  /\ call'[c].stamp <= source.stamp
                  /\ C!At(c)' # "identify" /\ C!Unchanged(c)' => source.content = call'[c].plan.content
                  /\ C!At(c)' \in {"decode", "check"} => call'[c].selected = call'[c].plan.content
                  /\ C!At(c)' = "check" /\ C!Unchanged(c)' => call'[c].decoded = source.content
                  /\ C!At(c)' \in {"result", "resultStaged", "resultSync"} => C!Made(c)' = C!Right(call'[c].plan))
                => C!ReadsOneContent'
           /\ (C!At(c)' \in C!Planned => dir.plan = call'[c].plan) => C!PlanStays'
           /\ (C!At(c)' = "resultSync" => dir.result = C!Made(c)') => C!PublishedIsFlushed'
<1>1. C!TypeOK' /\ C!AnswersHold'
      BY DEF C!IInv, C!TypeOK, C!AnswersHold
<1>2. \A d \in Callers : d # c => /\ C!At(d)' = C!At(d) /\ C!Unchanged(d)' = C!Unchanged(d)
                                  /\ C!Made(d)' = C!Made(d)
      BY DEF C!At, C!Unchanged, C!Made
<1> QED
    BY <1>1, <1>2 DEF C!IInv, C!ReadsOneContent, C!PlanStays, C!PublishedIsFlushed

\* A call ends: nothing is claimed of it any more.
LEMMA FailStep ==
    ASSUME C!IInv, NEW c \in Callers, C!Return(c),
           source' = source, dir' = dir, answers' = answers, named' = named, inodes' = inodes,
           synced' = synced
    PROVE  C!IInv'
BY OtherCallsKeep, ReturnFrame DEF C!IInv, C!TypeOK, C!Planned, C!PublishedIsFlushed

\* A call goes on without having read or published anything.
LEMMA GotoStep ==
    ASSUME C!IInv, NEW c \in Callers, C!At(c) # "idle", NEW place \in C!Places, C!Goto(c, place),
           source' = source, dir' = dir, answers' = answers, named' = named, inodes' = inodes,
           synced' \in [plan : BOOLEAN, result : BOOLEAN], synced.result => synced'.result,
           synced'.result => dir.result # Absent,
           C!At(c) # "identify" \/ source.content = call[c].plan.content,
           place \notin {"identify", "decode", "check", "resultSync"},
           place \in C!Planned => dir.plan = call[c].plan,
           place \in {"result", "resultStaged"} => C!Made(c) = C!Right(call[c].plan)
    PROVE  C!IInv'
<1>1. C!At(c)' = place /\ C!Made(c)' = C!Result(call[c].plan, call[c].selected, call[c].decoded)
      BY GotoFrame DEF C!IInv, C!Made
<1> QED
    BY <1>1, OtherCallsKeep, GotoFrame DEF C!IInv, C!ReadsOneContent, C!Made, C!Unchanged, C!TypeOK
-----------------------------------------------------------------------------
(* The steps of a call *)

LEMMA CallStep == ASSUME C!IInv, NEW c \in Callers, NEW resume \in BOOLEAN, NEW plan \in C!Plans,
                         C!Call(c, resume, plan)
                  PROVE  C!IInv'
<1> DEFINE begun == [at |-> "identify", resume |-> resume, plan |-> plan, stamp |-> source.stamp,
                     inode |-> 0, previous |-> Absent, selected |-> Absent, decoded |-> Absent]
<1>1. /\ call' = [call EXCEPT ![c] = begun]
      /\ UNCHANGED <<source, named, inodes, owner, dir, synced, staged, answers>>
      BY DEF C!Call
<1>2. begun \in C!Calls
      BY DEF C!IInv, C!TypeOK, C!Calls, C!Places
<1>3. /\ call'[c] = begun /\ call' \in [Callers -> {C!Idle} \cup C!Calls]
      /\ \A d \in Callers : d # c => call'[d] = call[d]
      BY <1>1, <1>2 DEF C!IInv, C!TypeOK
<1>4. C!At(c)' = "identify" /\ call'[c].stamp = source.stamp
      BY <1>3 DEF C!At
<1>5. source.stamp <= source.stamp
      BY DEF C!IInv, C!TypeOK
<1> QED
    BY <1>1, <1>3, <1>4, <1>5, OtherCallsKeep DEF C!IInv, C!TypeOK, C!Planned, C!PublishedIsFlushed

LEMMA IdentifyStep == ASSUME C!IInv, NEW c \in Callers, C!Identify(c) PROVE C!IInv'
<1>1. CASE C!Return(c)
      BY <1>1, FailStep DEF C!Identify
<1>2. CASE C!Goto(c, "open") /\ source.content = call[c].plan.content
      BY <1>2, GotoStep DEF C!Identify, C!IInv, C!TypeOK, C!Places, C!Planned, C!PublishedIsFlushed
<1> QED
    BY <1>1, <1>2 DEF C!Identify

LEMMA OpenLockStep == ASSUME C!IInv, NEW c \in Callers, C!OpenLock(c) PROVE C!IInv'
<1>1. PICK inode \in Nat : call' = [call EXCEPT ![c].at = "lock", ![c].inode = inode]
      BY SMTT(20) DEF C!OpenLock, C!IInv, C!TypeOK
<1>2. /\ call[c] \in C!Calls /\ C!At(c) = "open"
      BY DEF C!OpenLock, C!IInv, C!TypeOK, C!At, C!Idle
<1>3. /\ call'[c] = [call[c] EXCEPT !.at = "lock", !.inode = inode]
      /\ \A d \in Callers : d # c => call'[d] = call[d]
      BY <1>1 DEF C!IInv, C!TypeOK
<1>4. call'[c] \in C!Calls
      BY <1>2, <1>3 DEF C!Calls, C!Places
<1>5. call' \in [Callers -> {C!Idle} \cup C!Calls]
      BY <1>1, <1>3, <1>4 DEF C!IInv, C!TypeOK
<1>6. C!At(c)' = "lock" /\ call'[c].stamp = call[c].stamp /\ call'[c].plan = call[c].plan
      BY <1>2, <1>3 DEF C!At, C!Calls
<1>7. named' \in Nat /\ inodes' \in Nat
      BY DEF C!OpenLock, C!IInv, C!TypeOK
<1> QED
    BY <1>2, <1>3, <1>5, <1>6, <1>7, OtherCallsKeep
    DEF C!OpenLock, C!IInv, C!TypeOK, C!ReadsOneContent, C!Unchanged, C!Planned, C!PublishedIsFlushed

LEMMA FlockStep == ASSUME C!IInv, NEW c \in Callers, C!Flock(c) PROVE C!IInv'
<1>1. CASE C!Return(c)
      BY <1>1, FailStep DEF C!Flock
<1>2. CASE C!Goto(c, "scan")
      BY <1>2, GotoStep DEF C!Flock, C!IInv, C!TypeOK, C!Places, C!Planned, C!PublishedIsFlushed
<1> QED
    BY <1>1, <1>2 DEF C!Flock

LEMMA ScanStep == ASSUME C!IInv, NEW c \in Callers, C!Scan(c) PROVE C!IInv'
<1>1. CASE C!Return(c)
      BY <1>1, FailStep DEF C!Scan
<1>2. CASE C!Goto(c, "plan")
      BY <1>2, GotoStep DEF C!Scan, C!IInv, C!TypeOK, C!Places, C!Planned, C!PublishedIsFlushed
<1>3. CASE /\ call' = [call EXCEPT ![c].at = "select", ![c].previous = dir.result]
           /\ dir.plan = call[c].plan
  <2>1. /\ call[c] \in C!Calls /\ C!At(c) = "scan"
        BY DEF C!Scan, C!IInv, C!TypeOK, C!At, C!Idle
  <2>2. /\ call'[c] = [call[c] EXCEPT !.at = "select", !.previous = dir.result]
        /\ \A d \in Callers : d # c => call'[d] = call[d]
        BY <1>3 DEF C!IInv, C!TypeOK
  <2>3. call'[c] \in C!Calls
        BY <2>1, <2>2 DEF C!Calls, C!Places, C!Planned, C!IInv, C!TypeOK
  <2>4. call' \in [Callers -> {C!Idle} \cup C!Calls]
        BY <1>3, <2>2, <2>3 DEF C!IInv, C!TypeOK
  <2>5. C!At(c)' = "select" /\ call'[c].stamp = call[c].stamp /\ call'[c].plan = call[c].plan
        BY <2>1, <2>2 DEF C!At, C!Calls
  <2> QED
      BY <1>3, <2>1, <2>2, <2>4, <2>5, OtherCallsKeep
      DEF C!Scan, C!IInv, C!TypeOK, C!ReadsOneContent, C!Unchanged, C!Planned, C!PublishedIsFlushed
<1>4. dir.plan # Absent /\ C!Admits(call[c].resume, call[c].plan) => dir.plan = call[c].plan
      BY DEF C!Admits, C!ResumesPlan, C!BeginsPlan
<1> QED
    BY <1>1, <1>2, <1>3, <1>4 DEF C!Scan, C!Fail

LEMMA StageStep == ASSUME C!IInv, NEW c \in Callers, C!StagePlan(c) \/ C!StageResult(c) PROVE C!IInv'
<1>1. CASE C!Return(c)
      BY <1>1, FailStep DEF C!StagePlan, C!StageResult, C!Stage
<1>2. CASE C!At(c) = "plan" /\ C!Goto(c, "planStaged")
      BY <1>2, GotoStep
      DEF C!StagePlan, C!StageResult, C!Stage, C!IInv, C!TypeOK, C!Places, C!Planned, C!PublishedIsFlushed
<1>3. CASE C!At(c) = "result" /\ C!Goto(c, "resultStaged")
  <2>1. C!Made(c) = C!Right(call[c].plan) /\ source' = source
        BY <1>3 DEF C!IInv, C!ReadsOneContent, C!StagePlan, C!StageResult, C!Stage
  <2> QED
      BY <1>3, <2>1, GotoStep, "result" \in C!Planned, "resultStaged" \in C!Planned
      DEF C!StagePlan, C!StageResult, C!Stage, C!IInv, C!TypeOK, C!Places, C!Planned, C!PlanStays,
          C!PublishedIsFlushed
<1> QED
    BY <1>1, <1>2, <1>3 DEF C!StagePlan, C!StageResult, C!Stage, C!Fail

LEMMA FlushedKeeps ==
    ASSUME C!IInv, synced' = C!Flushed
    PROVE  /\ synced' \in [plan : BOOLEAN, result : BOOLEAN]
           /\ synced.result => synced'.result
           /\ synced'.result <=> dir.result # Absent
BY DEF C!Flushed, C!IInv, C!TypeOK, C!PublishedIsFlushed

LEMMA SyncPlanStep == ASSUME C!IInv, NEW c \in Callers, C!SyncPlan(c) PROVE C!IInv'
<1>1. dir.plan = call[c].plan
      BY DEF C!SyncPlan, C!IInv, C!PlanStays, C!Planned
<1> QED
    BY <1>1, FlushedKeeps, GotoStep DEF C!SyncPlan, C!IInv, C!TypeOK, C!Places, C!Planned

LEMMA SelectStep == ASSUME C!IInv, NEW c \in Callers, C!Select(c) PROVE C!IInv'
<1>1. CASE C!Return(c)
      BY <1>1, FailStep DEF C!Select
<1>2. CASE ~C!Return(c)
  <2>1. /\ call' = [call EXCEPT ![c].at = "decode", ![c].selected = source.content]
        /\ C!Unchanged(c)
        BY <1>2 DEF C!Select, C!Fail
  <2>2. /\ call[c] \in C!Calls /\ C!At(c) = "select"
        BY DEF C!Select, C!IInv, C!TypeOK, C!At, C!Idle
  <2>3. /\ call'[c] = [call[c] EXCEPT !.at = "decode", !.selected = source.content]
        /\ \A d \in Callers : d # c => call'[d] = call[d]
        BY <2>1 DEF C!IInv, C!TypeOK
  <2>4. call'[c] \in C!Calls
        BY <2>2, <2>3 DEF C!Calls, C!Places, C!Planned, C!IInv, C!TypeOK
  <2>5. call' \in [Callers -> {C!Idle} \cup C!Calls]
        BY <2>1, <2>3, <2>4 DEF C!IInv, C!TypeOK
  <2>6. /\ C!At(c)' = "decode" /\ call'[c].stamp = call[c].stamp /\ call'[c].plan = call[c].plan
        /\ call'[c].selected = source.content
        BY <2>2, <2>3 DEF C!At, C!Calls
  <2>7. source.content = call[c].plan.content /\ call[c].stamp <= source.stamp /\ dir.plan = call[c].plan
        BY <2>1, <2>2 DEF C!IInv, C!ReadsOneContent, C!PlanStays, C!Planned
  <2> QED
      BY <2>1, <2>3, <2>5, <2>6, <2>7, OtherCallsKeep DEF C!Select, C!IInv, C!TypeOK, C!PublishedIsFlushed
<1> QED
    BY <1>1, <1>2

LEMMA DecodeStep == ASSUME C!IInv, NEW c \in Callers, C!Decode(c) PROVE C!IInv'
<1>1. call' = [call EXCEPT ![c].at = "check", ![c].decoded = source.content]
      BY DEF C!Decode
<1>2. /\ call[c] \in C!Calls /\ C!At(c) = "decode"
      BY DEF C!Decode, C!IInv, C!TypeOK, C!At, C!Idle
<1>3. /\ call'[c] = [call[c] EXCEPT !.at = "check", !.decoded = source.content]
      /\ \A d \in Callers : d # c => call'[d] = call[d]
      BY <1>1 DEF C!IInv, C!TypeOK
<1>4. call'[c] \in C!Calls
      BY <1>2, <1>3 DEF C!Calls, C!Places, C!Planned, C!IInv, C!TypeOK
<1>5. call' \in [Callers -> {C!Idle} \cup C!Calls]
      BY <1>1, <1>3, <1>4 DEF C!IInv, C!TypeOK
<1>6. /\ C!At(c)' = "check" /\ call'[c].stamp = call[c].stamp /\ call'[c].plan = call[c].plan
      /\ call'[c].selected = call[c].selected /\ call'[c].decoded = source.content
      BY <1>2, <1>3 DEF C!At, C!Calls
<1>7. /\ call[c].selected = call[c].plan.content /\ call[c].stamp <= source.stamp
      /\ dir.plan = call[c].plan
      /\ C!Unchanged(c) => source.content = call[c].plan.content
      BY <1>2 DEF C!IInv, C!ReadsOneContent, C!PlanStays, C!Planned
<1>8. C!Unchanged(c)' <=> C!Unchanged(c)
      BY <1>6 DEF C!Unchanged, C!Decode
<1> QED
    BY <1>3, <1>5, <1>6, <1>7, <1>8, OtherCallsKeep DEF C!Decode, C!IInv, C!TypeOK, C!PublishedIsFlushed

\* What passes the check was read from the plan's content throughout.
LEMMA CheckedIsRight ==
    ASSUME C!IInv, NEW c \in Callers, C!At(c) = "check", C!StillHolds(c)
    PROVE  C!Made(c) = C!Right(call[c].plan) /\ dir.plan = call[c].plan
BY DEF C!IInv, C!ReadsOneContent, C!StillHolds, C!Made, C!Right, C!Result

\* An answer that is right, and the result in the directory, holds.
LEMMA AnsweredStep ==
    ASSUME C!IInv, NEW c \in Callers, NEW published \in BOOLEAN, C!At(c) # "idle",
           C!Return(c), C!Answered(c, published),
           C!Made(c) = C!Right(call[c].plan), dir.result = C!Made(c),
           source' = source, dir' = dir, named' = named, inodes' = inodes,
           synced' \in [plan : BOOLEAN, result : BOOLEAN], synced.result => synced'.result,
           synced'.result => dir.result # Absent, published => synced'.result
    PROVE  C!IInv'
<1> DEFINE answer == [result |-> C!Made(c), published |-> published]
<1>1. call[c].plan \in C!Plans
      BY DEF C!IInv, C!TypeOK, C!At, C!Idle, C!Calls
<1>2. C!Made(c) \in C!Results /\ C!Made(c).plan = call[c].plan
      BY <1>1 DEF C!Right, C!Result, C!Results, C!Plans
<1>3. answers' = answers \cup {answer} /\ answer.result = C!Made(c) /\ answer.published = published
      BY DEF C!Answered
<1>4. answer \in [result : C!Results, published : BOOLEAN]
      BY <1>2
<1> HIDE DEF answer
<1>5. C!TypeOK'
      BY <1>3, <1>4, ReturnFrame DEF C!IInv, C!TypeOK
<1>6. C!AnswersHold'
      BY <1>2, <1>3 DEF C!IInv, C!AnswersHold
<1>7. C!PublishedIsFlushed' /\ C!ReadsOneContent' /\ C!PlanStays'
  <2>1. \A d \in Callers : d # c => /\ C!At(d)' = C!At(d) /\ C!Unchanged(d)' = C!Unchanged(d)
                                    /\ C!Made(d)' = C!Made(d) /\ call'[d] = call[d]
        BY ReturnFrame DEF C!IInv, C!At, C!Unchanged, C!Made
  <2>2. C!At(c)' = "idle"
        BY ReturnFrame DEF C!IInv
  <2> QED
      BY <1>3, <2>1, <2>2 DEF C!IInv, C!ReadsOneContent, C!PlanStays, C!PublishedIsFlushed, C!Planned
<1> QED
    BY <1>5, <1>6, <1>7 DEF C!IInv

LEMMA CheckStep == ASSUME C!IInv, NEW c \in Callers, C!Check(c) PROVE C!IInv'
<1>1. CASE UNCHANGED answers /\ C!Return(c)
      BY <1>1, FailStep DEF C!Check
<1>2. CASE C!StillHolds(c) /\ C!Goto(c, "result") /\ UNCHANGED answers
      BY <1>2, CheckedIsRight, GotoStep
      DEF C!Check, C!IInv, C!TypeOK, C!Places, C!Planned, C!PublishedIsFlushed
<1>3. CASE C!StillHolds(c) /\ dir.result = C!Made(c) /\ C!Answered(c, FALSE) /\ C!Return(c)
      BY <1>3, CheckedIsRight, AnsweredStep DEF C!Check, C!IInv, C!TypeOK, C!PublishedIsFlushed
<1> QED
    BY <1>1, <1>2, <1>3 DEF C!Check, C!Fail

LEMMA SyncResultStep ==
    ASSUME C!ClippingAssumption, C!IInv, NEW c \in Callers, C!SyncResult(c) PROVE C!IInv'
<1>1. C!Made(c) = C!Right(call[c].plan) /\ dir.result = C!Made(c)
      BY DEF C!SyncResult, C!IInv, C!ReadsOneContent, C!PublishedIsFlushed
<1>2. call[c].plan \in C!Plans
      BY DEF C!SyncResult, C!IInv, C!TypeOK, C!At, C!Idle, C!Calls
<1>3. dir.result # Absent
      BY <1>1, <1>2 DEF C!Right, C!Result, C!Results, C!Plans, C!ClippingAssumption
<1>4. synced'.result
      BY <1>3, FlushedKeeps DEF C!SyncResult
<1> QED
    BY <1>1, <1>3, <1>4, FlushedKeeps, AnsweredStep DEF C!SyncResult, C!Fail

\* Without a plan in the directory there is no result, and no call relies on one.
LEMMA NoPlanNoResult ==
    ASSUME C!ClippingAssumption, C!IInv, dir.plan = Absent
    PROVE  dir.result = Absent /\ \A d \in Callers : C!At(d) \notin C!Planned
<1>1. \A d \in Callers : C!At(d) # "idle" => call[d].plan \in C!Plans
      BY DEF C!IInv, C!TypeOK, C!At, C!Idle, C!Calls
<1>2. \A d \in Callers : C!At(d) \notin C!Planned
      BY <1>1 DEF C!IInv, C!PlanStays, C!Planned, C!ClippingAssumption
<1>3. dir.result # Absent => dir.result \in C!Results /\ dir.result.plan = Absent
      BY DEF C!IInv, C!TypeOK, C!AnswersHold, C!Right, C!Result
<1> QED
    BY <1>2, <1>3 DEF C!Results, C!ClippingAssumption

\* Without a result nothing was published, and no call flushes one.
LEMMA NoResultNoAnswer ==
    ASSUME C!ClippingAssumption, C!IInv, dir.result = Absent
    PROVE  /\ \A a \in answers : ~a.published
           /\ \A d \in Callers : C!At(d) # "resultSync"
<1>1. \A d \in Callers : C!At(d) = "resultSync" =>
          C!Made(d) = C!Right(call[d].plan) /\ call[d].plan \in C!Plans /\ C!Made(d) = Absent
      BY DEF C!IInv, C!TypeOK, C!ReadsOneContent, C!PublishedIsFlushed, C!At, C!Idle, C!Calls
<1>2. \A p \in C!Plans : C!Right(p) # Absent
      BY DEF C!Right, C!Result, C!Results, C!Plans, C!ClippingAssumption
<1> QED
    BY <1>1, <1>2 DEF C!IInv, C!TypeOK, C!PublishedIsFlushed

\* The name is free, or nothing happens but that the call ends.
LEMMA PersistStep ==
    ASSUME C!ClippingAssumption, C!IInv, NEW c \in Callers, C!PersistPlan(c) \/ C!PersistResult(c)
    PROVE  C!IInv'
<1> DEFINE plan == call[c].plan
<1>1. CASE C!Return(c) /\ UNCHANGED <<dir, synced>>
      BY <1>1, FailStep DEF C!PersistPlan, C!PersistResult, C!Persist
<1>2. CASE C!PersistPlan(c) /\ dir.plan = Absent
  <2>1. /\ C!At(c) = "planStaged" /\ C!Goto(c, "planSync")
        /\ dir' = [dir EXCEPT !["plan"] = plan] /\ synced' = [synced EXCEPT !["plan"] = FALSE]
        /\ UNCHANGED <<source, named, inodes, answers>>
        BY <1>2 DEF C!PersistPlan, C!Persist
  <2>2. plan \in C!Plans
        BY <2>1 DEF C!IInv, C!TypeOK, C!At, C!Idle, C!Calls
  <2>3. /\ dir' \in [plan : C!Plans \cup {Absent}, result : C!Results \cup {Absent}]
        /\ dir'.plan = plan /\ dir'.result = Absent
        /\ synced' \in [plan : BOOLEAN, result : BOOLEAN] /\ synced'.result = synced.result
        BY <1>2, <2>1, <2>2, NoPlanNoResult DEF C!IInv, C!TypeOK
  <2>4. /\ call' \in [Callers -> {C!Idle} \cup C!Calls]
        /\ C!At(c)' = "planSync" /\ call'[c].plan = plan /\ call'[c].stamp = call[c].stamp
        /\ \A d \in Callers : d # c => call'[d] = call[d]
        BY <2>1, GotoFrame DEF C!IInv, C!Places, C!Planned
  <2>5. \A d \in Callers : d # c => /\ C!At(d)' = C!At(d) /\ C!Unchanged(d)' = C!Unchanged(d)
                                    /\ C!Made(d)' = C!Made(d)
        BY <2>1, <2>4 DEF C!At, C!Unchanged, C!Made
  <2>6. \A d \in Callers : C!At(d) \notin C!Planned
        BY <1>2, NoPlanNoResult
  <2>7. C!TypeOK' /\ C!AnswersHold'
        BY <1>2, <2>1, <2>3, <2>4, NoPlanNoResult DEF C!IInv, C!TypeOK, C!AnswersHold
  <2>8. C!ReadsOneContent'
        BY <2>1, <2>4, <2>5 DEF C!IInv, C!ReadsOneContent, C!Unchanged
  <2>9. C!PlanStays' /\ C!PublishedIsFlushed'
        BY <1>2, <2>1, <2>3, <2>4, <2>5, <2>6, NoPlanNoResult
        DEF C!IInv, C!PlanStays, C!PublishedIsFlushed, C!Planned
  <2> QED
      BY <2>7, <2>8, <2>9 DEF C!IInv
<1>3. CASE C!PersistResult(c) /\ dir.result = Absent
  <2>1. /\ C!At(c) = "resultStaged" /\ C!Goto(c, "resultSync")
        /\ dir' = [dir EXCEPT !["result"] = C!Made(c)]
        /\ synced' = [synced EXCEPT !["result"] = FALSE]
        /\ UNCHANGED <<source, named, inodes, answers>>
        BY <1>3 DEF C!PersistResult, C!Persist
  <2>2. /\ plan \in C!Plans /\ C!Made(c) = C!Right(plan) /\ dir.plan = plan
        BY <2>1 DEF C!IInv, C!TypeOK, C!At, C!Idle, C!Calls, C!ReadsOneContent, C!PlanStays, C!Planned
  <2>3. C!Made(c) \in C!Results /\ C!Made(c) # Absent
        BY <2>2 DEF C!Right, C!Result, C!Results, C!Plans, C!ClippingAssumption
  <2>4. /\ dir' \in [plan : C!Plans \cup {Absent}, result : C!Results \cup {Absent}]
        /\ dir'.plan = plan /\ dir'.result = C!Made(c)
        /\ synced' \in [plan : BOOLEAN, result : BOOLEAN] /\ synced'.result = FALSE
        BY <2>1, <2>2, <2>3 DEF C!IInv, C!TypeOK
  <2>5. /\ call' \in [Callers -> {C!Idle} \cup C!Calls]
        /\ C!At(c)' = "resultSync" /\ call'[c].plan = plan /\ call'[c].stamp = call[c].stamp
        /\ C!Made(c)' = C!Made(c)
        /\ \A d \in Callers : d # c => call'[d] = call[d]
        BY <2>1, GotoFrame DEF C!IInv, C!Places, C!Planned, C!Made
  <2>6. \A d \in Callers : d # c => /\ C!At(d)' = C!At(d) /\ C!Unchanged(d)' = C!Unchanged(d)
                                    /\ C!Made(d)' = C!Made(d)
        BY <2>1, <2>5 DEF C!At, C!Unchanged, C!Made
  <2>7. C!TypeOK' /\ C!AnswersHold'
        BY <1>3, <2>1, <2>2, <2>4, <2>5, NoResultNoAnswer DEF C!IInv, C!TypeOK, C!AnswersHold
  <2>8. C!ReadsOneContent'
        BY <2>1, <2>2, <2>5, <2>6 DEF C!IInv, C!ReadsOneContent, C!Unchanged
  <2>9. C!PlanStays' /\ C!PublishedIsFlushed'
        BY <1>3, <2>1, <2>2, <2>3, <2>4, <2>5, <2>6, NoResultNoAnswer
        DEF C!IInv, C!PlanStays, C!PublishedIsFlushed, C!Planned
  <2> QED
      BY <2>7, <2>8, <2>9 DEF C!IInv
<1> QED
    BY <1>1, <1>2, <1>3 DEF C!PersistPlan, C!PersistResult, C!Persist, C!Fail
-----------------------------------------------------------------------------
(* Faults *)

LEMMA ErrorStep == ASSUME C!IInv, NEW c \in Callers, C!Error(c) \/ C!Kill(c) PROVE C!IInv'
BY FailStep DEF C!Error, C!Kill, C!Fail

LEMMA PowerLossStep == ASSUME C!ClippingAssumption, C!IInv, C!PowerLoss PROVE C!IInv'
<1>1. PICK lost \in SUBSET {"plan", "result"} :
          /\ C!Losable(lost)
          /\ dir' = [f \in DOMAIN dir |-> IF f \in lost THEN Absent ELSE dir[f]]
          /\ synced' = [f \in DOMAIN dir |-> dir[f] # Absent /\ f \notin lost]
      BY DEF C!PowerLoss
<1>2. /\ UNCHANGED <<source, named, inodes, answers>>
      /\ \A c \in Callers : C!At(c)' = "idle"
      /\ call' \in [Callers -> {C!Idle} \cup C!Calls]
      BY DEF C!PowerLoss, C!At, C!Idle
<1>3. /\ dir' \in [plan : C!Plans \cup {Absent}, result : C!Results \cup {Absent}]
      /\ dir'.plan = (IF "plan" \in lost THEN Absent ELSE dir.plan)
      /\ dir'.result = (IF "result" \in lost THEN Absent ELSE dir.result)
      /\ synced' \in [plan : BOOLEAN, result : BOOLEAN]
      /\ synced'.result = (dir.result # Absent /\ "result" \notin lost)
      BY <1>1 DEF C!IInv, C!TypeOK
<1>4. /\ "result" \in lost => dir.result # Absent /\ ~synced.result
      /\ "plan" \in lost /\ dir.result # Absent => "result" \in lost
      BY <1>1 DEF C!Losable
<1>5. C!TypeOK' /\ C!ReadsOneContent' /\ C!PlanStays'
      BY <1>2, <1>3 DEF C!IInv, C!TypeOK, C!ReadsOneContent, C!PlanStays, C!Planned
<1>6. C!AnswersHold'
      BY <1>2, <1>3, <1>4 DEF C!IInv, C!TypeOK, C!AnswersHold, C!PublishedIsFlushed
<1>7. C!PublishedIsFlushed'
      BY <1>2, <1>3, <1>4 DEF C!IInv, C!TypeOK, C!PublishedIsFlushed
<1> QED
    BY <1>5, <1>6, <1>7 DEF C!IInv

\* A change moves the stamp past all that calls have seen.
LEMMA EditStep == ASSUME C!IInv, NEW content \in Contents, C!Edit(content) PROVE C!IInv'
<1>1. /\ source' = [content |-> content, stamp |-> source.stamp + 1]
      /\ UNCHANGED <<named, inodes, dir, synced, call, answers>>
      /\ source.stamp \in Nat
      BY DEF C!Edit, C!IInv, C!TypeOK
<1>2. \A c \in Callers : C!At(c) # "idle" => call[c].stamp \in Nat
      BY DEF C!IInv, C!TypeOK, C!At, C!Idle, C!Calls
<1>3. /\ \A c \in Callers : C!At(c)' = C!At(c) /\ C!Made(c)' = C!Made(c)
      /\ \A c \in Callers : C!At(c) # "idle" =>
             call[c].stamp <= source'.stamp /\ ~C!Unchanged(c)'
      BY <1>1, <1>2 DEF C!IInv, C!ReadsOneContent, C!At, C!Made, C!Unchanged
<1>4. C!TypeOK' /\ C!AnswersHold' /\ C!PlanStays' /\ C!PublishedIsFlushed'
      BY <1>1, <1>3 DEF C!IInv, C!TypeOK, C!AnswersHold, C!PlanStays, C!PublishedIsFlushed
<1>5. C!ReadsOneContent'
      BY <1>1, <1>3 DEF C!IInv, C!ReadsOneContent
<1> QED
    BY <1>4, <1>5 DEF C!IInv

LEMMA TheftStep == ASSUME C!IInv, C!Theft PROVE C!IInv'
<1>1. UNCHANGED <<source, inodes, dir, synced, call, answers>> /\ named' \in Nat
      BY DEF C!Theft
<1> QED
    BY <1>1 DEF C!IInv, C!TypeOK, C!AnswersHold, C!PlanStays, C!PublishedIsFlushed, C!ReadsOneContent,
               C!At, C!Unchanged, C!Made
-----------------------------------------------------------------------------
LEMMA DirectoryInit == ASSUME C!ClippingAssumption, C!Init PROVE C!IInv
BY DEF C!Init, C!IInv, C!TypeOK, C!ReadsOneContent, C!PlanStays, C!PublishedIsFlushed, C!AnswersHold, C!At,
       C!Idle, C!Planned

LEMMA DirectoryNext == ASSUME C!ClippingAssumption, C!IInv, [C!Next]_(C!vars) PROVE C!IInv'
<1>1. ASSUME NEW c \in Callers, C!Step(c) PROVE C!IInv'
      BY <1>1, IdentifyStep, OpenLockStep, FlockStep, ScanStep, StageStep, PersistStep,
         SyncPlanStep, SelectStep, DecodeStep, CheckStep, SyncResultStep DEF C!Step
<1>2. ASSUME UNCHANGED C!vars PROVE C!IInv'
      BY <1>2 DEF C!vars, C!IInv, C!TypeOK, C!AnswersHold, C!PlanStays, C!PublishedIsFlushed,
                  C!ReadsOneContent, C!At, C!Unchanged, C!Made
<1> QED
    BY <1>1, <1>2, CallStep, ErrorStep, PowerLossStep, EditStep, TheftStep DEF C!Next
-----------------------------------------------------------------------------
(* Either *)

\* A store that is at rest has its result.
LEMMA RestsWell == ASSUME AtRest PROVE IInv
<1>1. /\ status = "ok" /\ lease = 1 /\ result = 1 /\ issued = 1
      /\ startedAge = 0 /\ grantedAge = 0 /\ faults = 0
      /\ askedAge = [w \in Workers |-> 0]
  BY Zenon DEF AtRest
<1>2. PICK first : /\ at = [w \in Workers |-> IF w = first THEN "accepted" ELSE "idle"]
                   /\ mine = [w \in Workers |-> IF w = first THEN 1 ELSE 0]
  BY Zenon DEF AtRest
<1>3. TypeOK
  BY <1>1, <1>2, AttemptAssumption DEF TypeOK, Terminal, MaxAge
<1>4. OneResult /\ TokensDiffer
  BY <1>1, <1>2 DEF OneResult, TokensDiffer, Terminal
<1>5. GrantFollowsStart
  BY <1>1, AttemptAssumption DEF GrantFollowsStart
<1> QED
  BY <1>3, <1>4, <1>5 DEF IInv

LEMMA AttemptsStart == AttemptsInit => IInv /\ C!IInv
BY StoreInit, RestsWell, DirectoryInit, DirectoryAssumption DEF AttemptsInit

LEMMA AttemptsStep == IInv /\ C!IInv /\ [AttemptsNext]_all => IInv' /\ C!IInv'
<1> SUFFICES ASSUME IInv, C!IInv, [AttemptsNext]_all PROVE IInv' /\ C!IInv'
  OBVIOUS
<1>1. [Next]_vars /\ [C!Next]_(C!vars)
  BY DEF AttemptsNext, InStore, InDirectory, all, directory, C!vars
<1> QED
  BY <1>1, StoreNext, DirectoryNext, DirectoryAssumption

(* The inductive invariants of the store's row and of the directory. *)
THEOREM AttemptInvariant == Attempts => [](IInv /\ C!IInv)
BY AttemptsStart, AttemptsStep, PTL DEF Attempts

(* Whoever is told that its result is stored finds it there for ever: finish()
   accepts one lease, and reserve() leaves a finished attempt alone. *)
THEOREM AcceptedIsKept == Attempts => []OneResult
<1>1. IInv => OneResult
  BY DEF IInv
<1> QED BY <1>1, AttemptInvariant, PTL

(* Whatever callers, kills, losses of power, changes of the recording and removals of
   the lock file do: an answer of the clipping receiver is of the plan's recording and
   configuration throughout, and a published one stays. *)
THEOREM AnswersAlwaysHold == Attempts => []AnswersHold
<1>1. C!IInv => AnswersHold
  BY DEF C!IInv, AnswersHold
<1> QED BY <1>1, AttemptInvariant, PTL

(* No lease is reclaimed before the stale interval less the busy timeout is over:
   reserve() compares times that were read before its transaction. *)
THEOREM LeasesLast == Attempts => LeaseLasts
<1>1. IInv /\ [Next]_vars =>
        [status = "running" /\ lease' # lease => grantedAge + MaxWait > StaleAfter]_vars
  <2> SUFFICES ASSUME IInv, Next, status = "running", lease' # lease
               PROVE  grantedAge + MaxWait > StaleAfter
    OBVIOUS
  <2>1. PICK w \in Workers : Reserve(w)
    BY DEF Next, Worker, Ask, Refuse, Finish, Records, Crash, FinishUnanswered, Tick, row
  <2>2. startedAge > StaleAfter + askedAge[w]
    BY <2>1 DEF Reserve, Available, Stale
  <2>3. startedAge <= grantedAge + MaxWait
    BY DEF IInv, GrantFollowsStart
  <2> QED
    BY <2>1, <2>2, <2>3, AttemptAssumption DEF IInv, TypeOK, MaxAge
<1>2. [AttemptsNext]_all => [Next]_vars
  BY DEF AttemptsNext, InStore, InDirectory, all, directory
<1> QED BY <1>1, <1>2, AttemptInvariant, PTL DEF Attempts, LeaseLasts
===============================================================================
