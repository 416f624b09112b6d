------------------------------ MODULE SessionLock ------------------------------
(***************************************************************************)
(* Who may write to a progressive session (rust/progressive.rs).  A        *)
(* supervisor locks session.lock (flock) and hands the open file to its    *)
(* worker, which runs codecs in process groups of their own; any of them   *)
(* may be killed at any moment, between fork and exec too.                 *)
(*                                                                         *)
(* flock belongs to the open file: it is released when the last process    *)
(* that has it closes it.  fork copies it, exec drops it when it is marked *)
(* close-on-exec, the end of a process closes it before its children learn *)
(* of that end.                                                            *)
(***************************************************************************)
EXTENDS Sequences

CONSTANTS Invocations, Absent

ASSUME InvocationAssumption == Absent \notin Invocations

Processes == {"supervisor", "worker", "codec", "helper"}

VARIABLES
    supervisor, worker, codec, helper,  \* per invocation, where each process is
    setup,      \* what the worker or codec has left to do before exec
    bound,      \* processes that asked to be killed when their parent dies
    doomed,     \* processes with a SIGKILL pending
    has,        \* processes that have the invocation's lock file open
    inherited,  \* the worker's descriptor of it survives an exec
    lock        \* the invocation whose open file is locked, or Absent

signals == <<setup, bound, doomed>>
file    == <<has, inherited, lock>>
vars    == <<supervisor, worker, codec, helper, signals, file>>

Steps == {"group", "deathsig", "inherit", "parent"}

TypeOK ==
    /\ supervisor \in [Invocations -> {"idle", "opened", "locked", "spawning", "watching",
                                       "stopping", "reaped", "closed", "ended"}]
    /\ worker \in [Invocations -> {"none", "setup", "checking", "checked", "serving",
                                   "closed", "zombie"}]
    /\ codec \in [Invocations -> {"none", "setup", "running", "closed"}]
    /\ helper \in [Invocations -> {"none", "running"}]
    /\ setup \in [Invocations -> [{"worker", "codec"} -> Seq(Steps)]]
    /\ bound \in [Invocations -> SUBSET {"worker", "codec"}]
    /\ doomed \in [Invocations -> SUBSET {"worker", "codec"}]
    /\ has \in [Invocations -> SUBSET Processes]
    /\ inherited \in [Invocations -> BOOLEAN]
    /\ lock \in Invocations \cup {Absent}
    /\ lock # Absent => has[lock] # {}

Init ==
    /\ supervisor = [i \in Invocations |-> "idle"]
    /\ worker = [i \in Invocations |-> "none"]
    /\ codec = [i \in Invocations |-> "none"]
    /\ helper = [i \in Invocations |-> "none"]
    /\ setup = [i \in Invocations |-> [p \in {"worker", "codec"} |-> <<>>]]
    /\ bound = [i \in Invocations |-> {}]
    /\ doomed = [i \in Invocations |-> {}]
    /\ has = [i \in Invocations |-> {}]
    /\ inherited = [i \in Invocations |-> FALSE]
    /\ lock = Absent
-------------------------------------------------------------------------------
(* The kernel *)

\* Process p closes the lock file; the last to do so unlocks it.
Closes(i, p) ==
    /\ has' = [has EXCEPT ![i] = @ \ {p}]
    /\ lock' = IF lock = i /\ has'[i] = {} THEN Absent ELSE lock
    /\ UNCHANGED inherited

\* fork copies the open file; the child has asked for nothing yet.
Forks(i, p, parent, steps) ==
    /\ setup' = [setup EXCEPT ![i][p] = steps]
    /\ has' = IF parent \in has[i] THEN [has EXCEPT ![i] = @ \cup {p}] ELSE has
    /\ bound' = [bound EXCEPT ![i] = @ \ {p}]
    /\ doomed' = [doomed EXCEPT ![i] = @ \ {p}]
    /\ UNCHANGED <<inherited, lock>>

\* p's parent is gone: p is killed if it asked for that.
Orphans(i, p) ==
    /\ doomed' = [doomed EXCEPT ![i] = @ \cup ({p} \cap bound[i])]
    /\ UNCHANGED <<setup, bound>>

SupervisorGone(i) == supervisor[i] = "ended"
WorkerGone(i) == worker[i] \in {"none", "zombie"}
ParentGone(i, p) == IF p = "worker" THEN SupervisorGone(i) ELSE WorkerGone(i)
InSetUp(i, p) == "setup" = IF p = "worker" THEN worker[i] ELSE codec[i]
-------------------------------------------------------------------------------
(* The supervisor *)

Open(i) ==
    /\ supervisor[i] = "idle"
    /\ supervisor' = [supervisor EXCEPT ![i] = "opened"]
    /\ has' = [has EXCEPT ![i] = {"supervisor"}]
    /\ UNCHANGED <<worker, codec, helper, signals, inherited, lock>>

\* LOCK_EX | LOCK_NB, or "session is already running".
Lock(i) ==
    /\ supervisor[i] = "opened"
    /\ IF lock = Absent
       THEN /\ supervisor' = [supervisor EXCEPT ![i] = "locked"]
            /\ lock' = i /\ UNCHANGED <<has, inherited>>
       ELSE /\ supervisor' = [supervisor EXCEPT ![i] = "closed"]
            /\ Closes(i, "supervisor")
    /\ UNCHANGED <<worker, codec, helper, signals>>

WorkerSetUp == <<"group", "deathsig", "inherit", "parent">>

SpawnWorker(i) ==
    /\ supervisor[i] = "locked"
    /\ supervisor' = [supervisor EXCEPT ![i] = "spawning"]
    /\ worker' = [worker EXCEPT ![i] = "setup"]
    /\ Forks(i, "worker", "supervisor", WorkerSetUp)
    /\ UNCHANGED <<codec, helper>>

\* spawn fails when the worker ended before exec: it is reaped, the call returns.
NotSpawned(i) ==
    /\ supervisor[i] = "spawning" /\ worker[i] = "zombie" /\ setup[i]["worker"] # <<>>
    /\ supervisor' = [supervisor EXCEPT ![i] = "closed"]
    /\ worker' = [worker EXCEPT ![i] = "none"]
    /\ Closes(i, "supervisor")
    /\ UNCHANGED <<codec, helper, signals>>

Spawned(i) ==
    /\ supervisor[i] = "spawning" /\ worker[i] # "setup" /\ setup[i]["worker"] = <<>>
    /\ supervisor' = [supervisor EXCEPT ![i] = "watching"]
    /\ UNCHANGED <<worker, codec, helper, signals, file>>

\* SIGKILL for the worker's group, if there still is a worker.
KillsWorker(i) ==
    /\ doomed' = IF WorkerGone(i) THEN doomed ELSE [doomed EXCEPT ![i] = @ \cup {"worker"}]
    /\ UNCHANGED <<worker, codec, helper, setup, bound>>

\* (Fault) The session is unlocked as soon as the stop is requested.
KillWorker_Unlocks(i) ==
    /\ supervisor[i] = "watching"
    /\ supervisor' = [supervisor EXCEPT ![i] = "stopping"]
    /\ KillsWorker(i)
    /\ lock' = Absent /\ UNCHANGED <<has, inherited>>

\* Deadline, signal, or the worker has exited: cleanup_and_wait.  A codec is in
\* a group of its own and gets nothing from this.
KillWorker(i) ==
    /\ supervisor[i] = "watching"
    /\ supervisor' = [supervisor EXCEPT ![i] = "stopping"]
    /\ KillsWorker(i)
    /\ UNCHANGED file

\* (Fault) The worker is killed, but not waited for.
Reap_NoWait(i) ==
    /\ supervisor[i] = "stopping"
    /\ supervisor' = [supervisor EXCEPT ![i] = "reaped"]
    /\ UNCHANGED <<worker, codec, helper, signals, file>>

Reap(i) ==
    /\ supervisor[i] = "stopping" /\ worker[i] = "zombie"
    /\ supervisor' = [supervisor EXCEPT ![i] = "reaped"]
    /\ worker' = [worker EXCEPT ![i] = "none"]
    /\ UNCHANGED <<codec, helper, signals, file>>

\* The session is read and the receipt written; then everything is dropped, the
\* lock with it.  An error or a kill closes it at any earlier step.
CloseSupervisor(i) ==
    /\ supervisor[i] \notin {"idle", "closed", "ended"}
    /\ supervisor' = [supervisor EXCEPT ![i] = "closed"]
    /\ Closes(i, "supervisor")
    /\ UNCHANGED <<worker, codec, helper, signals>>

EndSupervisor(i) ==
    /\ supervisor[i] = "closed"
    /\ supervisor' = [supervisor EXCEPT ![i] = "ended"]
    /\ worker' = [worker EXCEPT ![i] = IF @ = "zombie" THEN "none" ELSE @]
    /\ Orphans(i, "worker")
    /\ UNCHANGED <<codec, helper, file>>
-------------------------------------------------------------------------------
(* Between fork and exec *)

\* One call of pre_exec; the parent check refuses an orphan.
SetUp(i, p) ==
    /\ InSetUp(i, p) /\ p \notin doomed[i] /\ setup[i][p] # <<>>
    /\ Head(setup[i][p]) = "parent" => ~ParentGone(i, p)
    /\ setup' = [setup EXCEPT ![i][p] = Tail(@)]
    /\ bound' = IF Head(setup[i][p]) = "deathsig" THEN [bound EXCEPT ![i] = @ \cup {p}]
                ELSE bound
    /\ inherited' = IF Head(setup[i][p]) = "inherit" THEN [inherited EXCEPT ![i] = TRUE]
                    ELSE inherited
    /\ UNCHANGED <<supervisor, worker, codec, helper, doomed, has, lock>>

\* The new program has the lock file only if its descriptor is inherited.
Execs(i, p) ==
    /\ setup[i][p] = <<>> /\ p \notin doomed[i]
    /\ IF inherited[i] THEN UNCHANGED file ELSE Closes(i, p)
    /\ UNCHANGED <<supervisor, helper, signals>>

ExecWorker(i) ==
    /\ worker[i] = "setup" /\ Execs(i, "worker")
    /\ worker' = [worker EXCEPT ![i] = "checking"]
    /\ UNCHANGED codec

ExecCodec(i) ==
    /\ codec[i] = "setup" /\ Execs(i, "codec")
    /\ codec' = [codec EXCEPT ![i] = "running"]
    /\ UNCHANGED worker
-------------------------------------------------------------------------------
(* The worker and its codec *)

WorkerRuns(i) == "worker" \notin doomed[i] /\ UNCHANGED <<supervisor, helper, has>>

\* The descriptor must be this session's lock, and flock on it must succeed.
CheckLock(i) ==
    /\ worker[i] = "checking" /\ "worker" \in has[i] /\ lock \in {i, Absent}
    /\ worker' = [worker EXCEPT ![i] = "checked"]
    /\ lock' = i
    /\ WorkerRuns(i) /\ UNCHANGED <<codec, signals, inherited>>

\* (Fault) The descriptor stays inheritable.
KeepPrivate_Not(i) ==
    /\ worker[i] = "checked"
    /\ worker' = [worker EXCEPT ![i] = "serving"]
    /\ WorkerRuns(i) /\ UNCHANGED <<codec, signals, inherited, lock>>

\* FD_CLOEXEC; from here on the worker changes the session.
KeepPrivate(i) ==
    /\ worker[i] = "checked"
    /\ worker' = [worker EXCEPT ![i] = "serving"]
    /\ inherited' = [inherited EXCEPT ![i] = FALSE]
    /\ WorkerRuns(i) /\ UNCHANGED <<codec, signals, lock>>

CodecSetUp == <<"deathsig", "parent", "group">>

RunCodec(i) ==
    /\ worker[i] = "serving" /\ "worker" \notin doomed[i] /\ codec[i] = "none"
    /\ codec' = [codec EXCEPT ![i] = "setup"]
    /\ Forks(i, "codec", "worker", CodecSetUp)
    /\ UNCHANGED <<supervisor, worker, helper>>

\* The codec forks a process, for which nobody has asked a death signal.
RunHelper(i) ==
    /\ codec[i] = "running" /\ "codec" \notin doomed[i] /\ helper[i] = "none"
    /\ helper' = [helper EXCEPT ![i] = "running"]
    /\ has' = IF "codec" \in has[i] THEN [has EXCEPT ![i] = @ \cup {"helper"}] ELSE has
    /\ UNCHANGED <<supervisor, worker, codec, signals, inherited, lock>>

\* A process ends: killed, of its own will, or because its set-up failed.  Its
\* files are closed first, its child learns of it later.
CloseWorker(i) ==
    /\ worker[i] \notin {"none", "closed", "zombie"}
    /\ worker' = [worker EXCEPT ![i] = "closed"]
    /\ Closes(i, "worker")
    /\ UNCHANGED <<supervisor, codec, helper, signals>>

\* The supervisor has to wait for its worker, unless it is gone itself.
EndWorker(i) ==
    /\ worker[i] = "closed"
    /\ worker' = [worker EXCEPT ![i] = IF SupervisorGone(i) THEN "none" ELSE "zombie"]
    /\ Orphans(i, "codec")
    /\ UNCHANGED <<supervisor, codec, helper, file>>

\* (That a worker which goes on kills what its codec forked is the subject of
\* OwnedProcess; here it may live on.)
CloseCodec(i) ==
    /\ codec[i] \in {"setup", "running"}
    /\ codec' = [codec EXCEPT ![i] = "closed"]
    /\ Closes(i, "codec")
    /\ UNCHANGED <<supervisor, worker, helper, signals>>

EndCodec(i) ==
    /\ codec[i] = "closed"
    /\ codec' = [codec EXCEPT ![i] = "none"]
    /\ UNCHANGED <<supervisor, worker, helper, signals, file>>

\* A process with a SIGKILL pending, or refused by its parent check, has to end.
MustEnd(i, p) ==
    \/ p \in doomed[i]
    \/ /\ InSetUp(i, p) /\ ParentGone(i, p)
       /\ setup[i][p] # <<>> /\ Head(setup[i][p]) = "parent"

Next == \E i \in Invocations :
    \/ Open(i) \/ Lock(i) \/ SpawnWorker(i) \/ Spawned(i) \/ NotSpawned(i)
    \/ KillWorker(i) \/ Reap(i) \/ CloseSupervisor(i) \/ EndSupervisor(i)
    \/ \E p \in {"worker", "codec"} : SetUp(i, p)
    \/ ExecWorker(i) \/ CheckLock(i) \/ KeepPrivate(i) \/ CloseWorker(i) \/ EndWorker(i)
    \/ RunCodec(i) \/ ExecCodec(i) \/ RunHelper(i) \/ CloseCodec(i) \/ EndCodec(i)

Spec == Init /\ [][Next]_vars

\* The kernel ends what it has to end, and a process gets from fork to exec.
\* Nobody owes anything else: a supervisor may watch for ever, a worker or codec
\* may hang, a helper may never exit.
FairSpec ==
    /\ Spec
    /\ \A i \in Invocations :
          /\ \A p \in {"worker", "codec"} : WF_vars(SetUp(i, p))
          /\ WF_vars(ExecWorker(i)) /\ WF_vars(ExecCodec(i))
          /\ WF_vars(MustEnd(i, "worker") /\ CloseWorker(i))
          /\ WF_vars(MustEnd(i, "codec") /\ CloseCodec(i))
          /\ WF_vars(EndSupervisor(i)) /\ WF_vars(EndWorker(i)) /\ WF_vars(EndCodec(i))
-------------------------------------------------------------------------------
(* What the lock is for *)

\* A worker that may change the session.
Serves(i) == worker[i] = "serving"

\* However invocations overlap and whoever is killed, at most one worker at a
\* time changes a session.
AtMostOneWorker == \A i, j \in Invocations : Serves(i) /\ Serves(j) => i = j

\* When a supervisor reads result.json for its receipt nobody can change it: its
\* own worker is reaped, and no other invocation has got the lock.
ReceiptReadsQuietSession ==
    \A i, j \in Invocations : supervisor[i] = "reaped" => ~Serves(j)

\* Neither a worker nor a codec goes on running after its parent was killed,
\* wherever it was between fork and exec.
OrphansAreDoomed ==
    \A i \in Invocations :
        /\ SupervisorGone(i) /\ worker[i] \in {"checking", "checked", "serving"}
              => "worker" \in doomed[i]
        /\ WorkerGone(i) /\ codec[i] = "running" => "codec" \in doomed[i]

\* A session whose supervisor is gone can be resumed: its lock gets free, even
\* if a process that a codec forked goes on for ever.
SessionBecomesFree ==
    \A i \in Invocations : SupervisorGone(i) ~> lock # i
===============================================================================
