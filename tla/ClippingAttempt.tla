--------------------------- MODULE ClippingAttempt ---------------------------
(* run_blind_phase_fsk_file (src/rust/clipping_file.rs): the clipping receiver writes
   one plan and one result per output directory. Callers overlap, are killed and call
   again; a completed result is not trusted but decoded again and compared. Somebody
   may change the recording meanwhile, or take the lock file away.

   A plan stands for everything its fingerprint is taken of: the content of the
   recording and the configuration. What a receiver makes of a recording depends on
   these two, and on nothing else as long as it reads one content throughout. *)
EXTENDS Naturals, FiniteSets

CONSTANTS
    Callers, Contents, Configs,
    Absent,          \* no file, no caller, nothing read
    MaxOrphans,      \* abandoned staging files a resume allows (8)
    MaxFailures,     \* bounds: misplaced calls, errors and kills,
    MaxIntrusions,   \* changes of the recording and removals of the lock file,
    MaxPowerLosses

Plans == [content : Contents, config : Configs]
Results == [plan : Plans, selected : Contents, decoded : Contents]

ClippingAssumption ==
    /\ Callers # {} /\ Contents # {} /\ Configs # {}
    /\ Absent \notin Callers \cup Contents \cup Plans \cup Results
    /\ {MaxOrphans, MaxFailures, MaxIntrusions, MaxPowerLosses} \subseteq Nat

Result(plan, selected, decoded) == [plan |-> plan, selected |-> selected, decoded |-> decoded]
Right(plan) == Result(plan, plan.content, plan.content)

VARIABLES
    source,    \* the recording: [content, stamp]
    named,     \* the inode that attempt.lock names, 0 if there is none
    inodes,    \* inodes that it ever named
    owner,     \* who holds the flock of an inode
    dir,       \* plan.json and result.json
    synced,    \* whether their directory entries would survive a power loss
    staged,    \* staging files that can be seen, by plan
    call,      \* what each caller is doing
    answers,   \* all that was ever returned: [result, published]
    faults     \* how many of each kind there were

vars == <<source, named, inodes, owner, dir, synced, staged, call, answers, faults>>

Idle == [at |-> "idle"]
At(c) == call[c].at
Goto(c, at) == call' = [call EXCEPT ![c].at = at]
Return(c) == call' = [call EXCEPT ![c] = Idle]

Fault(kind, bound) == faults[kind] < bound /\ faults' = [faults EXCEPT ![kind] = @ + 1]

\* The lock goes with the descriptor.
Released(c) == [i \in DOMAIN owner |-> IF owner[i] = c THEN Absent ELSE owner[i]]
Fail(c) == Return(c) /\ owner' = Released(c)

\* AttemptLock::verify
Verified(c) == named = call[c].inode
-----------------------------------------------------------------------------
(* The recording, the plan and the lock *)

\* What an operator asks who has looked at the directory: to go on with what it
\* holds, or to begin with the recording as it is.
Owed == {p \in Plans : dir.plan = p \/ (dir.plan = Absent /\ staged[p] > 0)}
Fit(resume, plan) == IF Owed = {} THEN ~resume /\ plan.content = source.content
                                  ELSE resume /\ plan \in Owed

Call(c, resume, plan) ==
    /\ At(c) = "idle"
    /\ IF Fit(resume, plan) THEN UNCHANGED faults ELSE Fault("failures", MaxFailures)
    /\ call' = [call EXCEPT ![c] =
           [at |-> "identify", resume |-> resume, plan |-> plan, stamp |-> source.stamp,
            inode |-> 0, previous |-> Absent, selected |-> Absent, decoded |-> Absent]]
    /\ UNCHANGED <<source, named, inodes, owner, dir, synced, staged, answers>>

\* The stamp is compared after the recording was hashed.
Unchanged(c) == source.stamp = call[c].stamp

Identify(c) ==
    /\ At(c) = "identify"
    /\ IF Unchanged(c) /\ source.content = call[c].plan.content
       THEN Goto(c, "open") ELSE Return(c)
    /\ UNCHANGED <<source, named, inodes, owner, dir, synced, staged, answers, faults>>

OpenLock(c) ==
    /\ At(c) = "open"
    /\ IF named # 0
       THEN /\ call' = [call EXCEPT ![c].at = "lock", ![c].inode = named]
            /\ UNCHANGED <<named, inodes, owner>>
       ELSE /\ named' = inodes + 1 /\ inodes' = inodes + 1
            /\ owner' = [i \in 1..(inodes + 1) |-> IF i \in DOMAIN owner THEN owner[i] ELSE Absent]
            /\ call' = [call EXCEPT ![c].at = "lock", ![c].inode = inodes + 1]
    /\ UNCHANGED <<source, dir, synced, staged, answers, faults>>

Flock(c) ==
    /\ At(c) = "lock"
    /\ IF owner[call[c].inode] = Absent /\ Verified(c)
       THEN owner' = [owner EXCEPT ![call[c].inode] = c] /\ Goto(c, "scan")
       ELSE Return(c) /\ UNCHANGED owner
    /\ UNCHANGED <<source, named, inodes, dir, synced, staged, answers, faults>>
-----------------------------------------------------------------------------
(* Which calls the directory admits *)

Unexpected(plan) == \E p \in Plans : p # plan /\ staged[p] > 0

ResumesPlan(resume, plan) == dir.plan = plan /\ resume

\* A kill in the middle of the first publication leaves staging files and no plan.
BeginsPlan_WithoutOrphans(resume, plan) ==
    dir.plan = Absent /\ dir.result = Absent /\ ~resume /\ staged[plan] = 0
BeginsPlan(resume, plan) ==
    dir.plan = Absent /\ dir.result = Absent /\ (resume <=> staged[plan] > 0)

Admits(resume, plan) ==
    /\ ~Unexpected(plan) /\ staged[plan] <= MaxOrphans
    /\ ResumesPlan(resume, plan) \/ BeginsPlan(resume, plan)

Scan(c) ==
    /\ At(c) = "scan"
    /\ IF ~Admits(call[c].resume, call[c].plan) THEN Fail(c)
       ELSE IF dir.plan = Absent
       THEN IF Verified(c) THEN Goto(c, "plan") /\ UNCHANGED owner ELSE Fail(c)
       ELSE /\ call' = [call EXCEPT ![c].at = "select", ![c].previous = dir.result]
            /\ UNCHANGED owner
    /\ UNCHANGED <<source, named, inodes, dir, synced, staged, answers, faults>>
-----------------------------------------------------------------------------
(* publish_new, of the plan and of the result *)

Stage(c, at, next) ==
    /\ At(c) = at
    /\ staged' = [staged EXCEPT ![call[c].plan] = @ + 1]
    /\ Goto(c, next)
    /\ UNCHANGED <<source, named, inodes, owner, dir, synced, answers, faults>>

\* The staging file gets the name, unless the name is taken, and is gone either way.
Persist_Clobbers(c, file, document, at, next) ==
    /\ At(c) = at
    /\ staged' = [staged EXCEPT ![call[c].plan] = @ - 1]
    /\ dir' = [dir EXCEPT ![file] = document]
    /\ synced' = [synced EXCEPT ![file] = FALSE]
    /\ Goto(c, next)
    /\ UNCHANGED <<source, named, inodes, owner, answers, faults>>
Persist(c, file, document, at, next) ==
    /\ At(c) = at
    /\ staged' = [staged EXCEPT ![call[c].plan] = @ - 1]
    /\ IF dir[file] = Absent
       THEN /\ dir' = [dir EXCEPT ![file] = document]
            /\ synced' = [synced EXCEPT ![file] = FALSE]
            /\ Goto(c, next) /\ UNCHANGED owner
       ELSE Fail(c) /\ UNCHANGED <<dir, synced>>
    /\ UNCHANGED <<source, named, inodes, answers, faults>>

\* The entries of the directory are on disk.
Flushed == [f \in DOMAIN dir |-> dir[f] # Absent]

StagePlan(c) == Stage(c, "plan", "planStaged")
PersistPlan(c) == Persist(c, "plan", call[c].plan, "planStaged", "planSync")

SyncPlan(c) ==
    /\ At(c) = "planSync"
    /\ synced' = Flushed
    /\ Goto(c, "select")
    /\ UNCHANGED <<source, named, inodes, owner, dir, staged, answers, faults>>
-----------------------------------------------------------------------------
(* Reading the recording *)

\* The windows are selected, and compared with the stamp.
Select(c) ==
    /\ At(c) = "select"
    /\ IF Unchanged(c)
       THEN /\ call' = [call EXCEPT ![c].at = "decode", ![c].selected = source.content]
            /\ UNCHANGED owner
       ELSE Fail(c)
    /\ UNCHANGED <<source, named, inodes, dir, synced, staged, answers, faults>>

Decode(c) ==
    /\ At(c) = "decode"
    /\ call' = [call EXCEPT ![c].at = "check", ![c].decoded = source.content]
    /\ UNCHANGED <<source, named, inodes, owner, dir, synced, staged, answers, faults>>

Made(c) == Result(call[c].plan, call[c].selected, call[c].decoded)

Answered(c, published) ==
    answers' = answers \cup {[result |-> Made(c), published |-> published]}

\* The recording, the lock and the plan are compared again; then a result that was
\* there is compared and returned, and another is published.
StillHolds(c) ==
    Unchanged(c) /\ source.content = call[c].plan.content /\ Verified(c) /\ dir.plan = call[c].plan

Check(c) ==
    /\ At(c) = "check"
    /\ \/ /\ StillHolds(c) /\ call[c].previous = Absent
          /\ Goto(c, "result") /\ UNCHANGED <<owner, answers>>
       \/ /\ StillHolds(c) /\ call[c].previous = Made(c) /\ dir.result = Made(c)
          /\ Answered(c, FALSE) /\ Fail(c)
       \/ /\ \/ ~StillHolds(c)
             \/ call[c].previous # Absent
                /\ (call[c].previous # Made(c) \/ dir.result # Made(c))
          /\ Fail(c) /\ UNCHANGED answers
    /\ UNCHANGED <<source, named, inodes, dir, synced, staged, faults>>

StageResult(c) ==
    /\ At(c) = "result"
    /\ \/ Verified(c) /\ Stage(c, "result", "resultStaged")
       \/ /\ ~Verified(c) /\ Fail(c)
          /\ UNCHANGED <<source, named, inodes, dir, synced, staged, answers, faults>>
PersistResult(c) == Persist(c, "result", Made(c), "resultStaged", "resultSync")

SyncResult(c) ==
    /\ At(c) = "resultSync"
    /\ synced' = Flushed
    /\ Answered(c, TRUE) /\ Fail(c)
    /\ UNCHANGED <<source, named, inodes, dir, staged, faults>>
-----------------------------------------------------------------------------
(* Faults *)

Staging == {"planStaged", "resultStaged"}

\* No room, or a file operation fails: a staging file is removed.
Error(c) ==
    /\ At(c) \notin {"idle", "identify"}
    /\ Fault("failures", MaxFailures)
    /\ staged' = IF At(c) \in Staging THEN [staged EXCEPT ![call[c].plan] = @ - 1] ELSE staged
    /\ Fail(c)
    /\ UNCHANGED <<source, named, inodes, dir, synced, answers>>

\* A kill leaves it.
Kill(c) ==
    /\ At(c) # "idle"
    /\ Fault("failures", MaxFailures)
    /\ Fail(c)
    /\ UNCHANGED <<source, named, inodes, dir, synced, staged, answers>>

\* What is not synced may be gone, or be back under its staging name. The filesystem
\* keeps the order of two renames in a directory.
Losable(lost) ==
    /\ \A f \in lost : dir[f] # Absent /\ ~synced[f]
    /\ "plan" \in lost /\ dir.result # Absent => "result" \in lost

Left(p, lost) == staged[p] + (IF dir.plan = p THEN Cardinality(lost) ELSE 0)

PowerLoss ==
    /\ Fault("powerLosses", MaxPowerLosses)
    /\ call' = [c \in Callers |-> Idle]
    /\ owner' = [i \in DOMAIN owner |-> Absent]
    /\ \E lost \in SUBSET {"plan", "result"} :
           /\ Losable(lost)
           /\ dir' = [f \in DOMAIN dir |-> IF f \in lost THEN Absent ELSE dir[f]]
           /\ synced' = [f \in DOMAIN dir |-> dir[f] # Absent /\ f \notin lost]
           /\ \E p \in Plans : \E n \in 0..Left(p, lost) : staged' = [staged EXCEPT ![p] = n]
    /\ UNCHANGED <<source, named, inodes, answers>>

\* Somebody writes to the recording: an exact clock stamps every change.
Edit(content) ==
    /\ Fault("intrusions", MaxIntrusions)
    /\ source' = [content |-> content, stamp |-> source.stamp + 1]
    /\ UNCHANGED <<named, inodes, owner, dir, synced, staged, call, answers>>

\* Somebody takes the lock file away; its holder holds an inode without a name.
Theft ==
    /\ named # 0
    /\ Fault("intrusions", MaxIntrusions)
    /\ named' = 0
    /\ UNCHANGED <<source, inodes, owner, dir, synced, staged, call, answers>>
-----------------------------------------------------------------------------
Init ==
    /\ source \in [content : Contents, stamp : {0}]
    /\ named = 0 /\ inodes = 0 /\ owner = <<>>
    /\ dir = [plan |-> Absent, result |-> Absent]
    /\ synced = [plan |-> FALSE, result |-> FALSE]
    /\ staged = [p \in Plans |-> 0]
    /\ call = [c \in Callers |-> Idle]
    /\ answers = {}
    /\ faults = [failures |-> 0, intrusions |-> 0, powerLosses |-> 0]

Step(c) ==
    \/ Identify(c) \/ OpenLock(c) \/ Flock(c) \/ Scan(c)
    \/ StagePlan(c) \/ PersistPlan(c) \/ SyncPlan(c)
    \/ Select(c) \/ Decode(c) \/ Check(c)
    \/ StageResult(c) \/ PersistResult(c) \/ SyncResult(c)

Next ==
    \/ \E c \in Callers : Step(c) \/ Error(c) \/ Kill(c)
    \/ \E c \in Callers, resume \in BOOLEAN, plan \in Plans : Call(c, resume, plan)
    \/ \E content \in Contents : Edit(content)
    \/ PowerLoss \/ Theft

Spec == Init /\ [][Next]_vars

\* Calls run, and somebody who wants the result keeps calling as the directory asks.
Again == \E c \in Callers, resume \in BOOLEAN, plan \in Plans :
             Fit(resume, plan) /\ Call(c, resume, plan)

FairSpec == Spec /\ WF_vars(Again) /\ \A c \in Callers : WF_vars(Step(c))
-----------------------------------------------------------------------------
(* What a caller can rely on *)

\* Whatever overlaps, is cut off or changes meanwhile: a result that is returned or
\* found was made, from its selection of windows to the last sample, of the recording
\* and the configuration of the plan beside it. No call, kill or loss of power, not
\* even a removed lock file, replaces or loses one that was published.
AnswersHold ==
    /\ \A a \in answers : /\ a.result = Right(a.result.plan)
                          /\ a.published => dir.result = a.result
    /\ dir.result # Absent => dir.result = Right(dir.plan)

\* The directory can be resumed: what was abandoned in it is of one plan and no more
\* than the allowance, and the recording is that plan's.
Usable ==
    /\ Cardinality({p \in Plans : p \in Owed \/ staged[p] > 0}) <= 1
    /\ \A p \in Plans : staged[p] <= MaxOrphans /\ (p \in Owed => p.content = source.content)

\* If interruptions end and leave it so, the attempt gets its result.
AttemptCompletes == (<>[]Usable) => <>(answers # {})
-----------------------------------------------------------------------------
(* Why: the parts of an inductive invariant *)

\* Where a call has a plan in the directory.
Planned == {"planSync", "select", "decode", "check", "result", "resultStaged", "resultSync"}
Places == {"identify", "open", "lock", "scan", "plan", "planStaged"} \cup Planned

Calls == [at : Places, resume : BOOLEAN, plan : Plans, stamp : Nat, inode : Nat,
          previous : Results \cup {Absent}, selected : Contents \cup {Absent},
          decoded : Contents \cup {Absent}]

TypeOK ==
    /\ source \in [content : Contents, stamp : Nat]
    /\ dir \in [plan : Plans \cup {Absent}, result : Results \cup {Absent}]
    /\ synced \in [plan : BOOLEAN, result : BOOLEAN]
    /\ call \in [Callers -> {Idle} \cup Calls]
    /\ answers \subseteq [result : Results, published : BOOLEAN]
    /\ named \in Nat /\ inodes \in Nat

\* As long as the stamp is the one a call began with, so is the content; and what the
\* call has read by then is the plan's.
ReadsOneContent ==
    \A c \in Callers : At(c) # "idle" =>
        /\ call[c].stamp <= source.stamp
        /\ At(c) # "identify" /\ Unchanged(c) => source.content = call[c].plan.content
        /\ At(c) \in {"decode", "check"} => call[c].selected = call[c].plan.content
        /\ At(c) = "check" /\ Unchanged(c) => call[c].decoded = source.content
        /\ At(c) \in {"result", "resultStaged", "resultSync"} => Made(c) = Right(call[c].plan)

\* The plan that a call found or published stays beside what it makes of it.
PlanStays == \A c \in Callers : At(c) \in Planned => dir.plan = call[c].plan

\* A result is published once it is flushed.
PublishedIsFlushed ==
    /\ \A c \in Callers : At(c) = "resultSync" => dir.result = Made(c)
    /\ \A a \in answers : a.published => synced.result
    /\ synced.result => dir.result # Absent

IInv == TypeOK /\ ReadsOneContent /\ PlanStays /\ PublishedIsFlushed /\ AnswersHold
=============================================================================
