-------------------------- MODULE ProgressiveSession --------------------------
(***************************************************************************)
(* A resumable progressive session (rust/progressive.rs): one invocation   *)
(* at a time is a supervisor process and the worker process it spawned.    *)
(* The worker verifies the session directory, then a pool of threads works *)
(* through the phases, committing one immutable file per task and          *)
(* republishing result.json after each.                                    *)
(*                                                                         *)
(* Every file has two images: what a process sees, lost by nothing but a   *)
(* power loss, and what the storage device holds (the variables named      *)
(* ...OnDevice).  A rename changes the first; the fsync of the directory,  *)
(* or the kernel in its own time, brings the second up to date.            *)
(***************************************************************************)
EXTENDS ProgressiveTasks, FiniteSets

CONSTANTS
    Threads,        \* the worker's pool
    SharedJournal,  \* TRUE: one metadata journal, an fsync of any directory
                    \* makes every earlier rename durable (ext4, XFS, Btrfs);
                    \* FALSE: it does so for that directory only (POSIX)
    MaxStops,       \* bound on deadlines, signals and supervisor crashes
    MaxErrors,      \* bound on I/O and computation errors of the worker
    MaxPowerLosses  \* bound on losses of power

ASSUME SessionAssumption ==
    /\ SharedJournal \in BOOLEAN
    /\ {MaxStops, MaxErrors, MaxPowerLosses} \subseteq Nat
    /\ Windows # {}
    /\ Absent \notin Threads
    /\ \A S \in SUBSET Tasks : S # Absent

VARIABLES
    \* Session directory as processes see it.
    manifest,       \* manifest.json: the session's identity, or Absent
    files,          \* tasks/: the committed task files
    result,         \* result.json: the set of tasks it reports, or Absent
    \* The same on the storage device.
    manifestOnDevice, filesOnDevice, resultOnDevice,
    \* The worker process.
    worker,         \* where its main thread is
    exit,           \* its exit status once worker = "exited"
    input,          \* identity of this invocation's arguments
    done,           \* State.done: verified or committed tasks
    phase,          \* phase running in the pool
    anchors,        \* sources of the anchors frozen for that phase
    pending,        \* its tasks not yet taken by a thread
    failed,         \* some task of the phase returned an error
    mutex,          \* thread that owns the state lock, or Absent
    at, job, view,  \* per thread: where it is, its task, and the snapshot it
                    \* is about to publish
    validated,      \* this invocation wrote runs/<run>/validated.json
    \* The supervisor process.
    supervisor, receipt,
    \* Bookkeeping: the task files this invocation found, and the counters of
    \* what the bounds limit.
    found, stops, errors, powerLosses

visible == <<manifest, files, result>>
device  == <<manifestOnDevice, filesOnDevice, resultOnDevice>>
main    == <<worker, exit, input, phase, anchors>>
pool    == <<done, pending, failed, mutex, at, job, view>>
super   == <<supervisor, receipt, found>>
faults  == <<stops, errors, powerLosses>>

vars == <<visible, device, main, pool, validated, super, faults>>

WorkerStates == {"none", "prepare", "manifest-renamed", "verify", "publish",
                 "result-renamed", "validate", "next-phase", "in-pool", "exited"}
ThreadStates == {"idle", "computing", "task-renamed", "task-synced",
                 "state-locked", "result-renamed"}

\* receipt.json: stop_reason, input_and_checkpoints_verified, complete, and the
\* tasks of the snapshot it summarises ({} for none).
Receipts == [reason : {"none", "stopped", "completed", "worker_error"},
             verified : BOOLEAN, complete : BOOLEAN, tasks : SUBSET Tasks]

NoReceipt == [reason |-> "none", verified |-> FALSE, complete |-> FALSE,
              tasks |-> {}]

TypeOK ==
    /\ manifest \in Identities \cup {Absent}
    /\ manifestOnDevice \in Identities \cup {Absent}
    /\ files \in TaskFiles
    /\ filesOnDevice \in TaskFiles
    /\ result = Absent \/ result \subseteq Tasks
    /\ resultOnDevice = Absent \/ resultOnDevice \subseteq Tasks
    /\ worker \in WorkerStates
    /\ exit \in {"ok", "error"}
    /\ input \in Identities \cup {Absent}
    /\ done \subseteq Tasks
    /\ phase \in 0 .. 3
    /\ anchors \subseteq BaselineTasks
    /\ pending \subseteq Tasks
    /\ failed \in BOOLEAN
    /\ mutex \in Threads \cup {Absent}
    /\ at \in [Threads -> ThreadStates]
    /\ job \in [Threads -> Tasks \cup {Absent}]
    /\ view \in [Threads -> SUBSET Tasks]
    /\ validated \in BOOLEAN
    /\ supervisor \in {"down", "watching", "stopping", "reported"}
    /\ receipt \in Receipts
    /\ found \subseteq Tasks
    /\ stops \in 0 .. MaxStops
    /\ errors \in 0 .. MaxErrors
    /\ powerLosses \in 0 .. MaxPowerLosses
-------------------------------------------------------------------------------
(* The processes' memory, and the storage device *)

Init ==
    /\ manifest = Absent /\ files = NoTaskFiles /\ result = Absent
    /\ manifestOnDevice = Absent /\ filesOnDevice = NoTaskFiles
    /\ resultOnDevice = Absent
    /\ worker = "none" /\ exit = "ok" /\ input = Absent
    /\ phase = 0 /\ anchors = {}
    /\ done = {} /\ pending = {} /\ failed = FALSE /\ mutex = Absent
    /\ at = [t \in Threads |-> "idle"]
    /\ job = [t \in Threads |-> Absent]
    /\ view = [t \in Threads |-> {}]
    /\ validated = FALSE
    /\ supervisor = "down" /\ receipt = NoReceipt /\ found = {}
    /\ stops = 0 /\ errors = 0 /\ powerLosses = 0

\* The worker process is gone, and its memory with it.
WorkerGone ==
    /\ worker' = "none" /\ exit' = "ok" /\ input' = Absent
    /\ phase' = 0 /\ anchors' = {}
    /\ done' = {} /\ pending' = {} /\ failed' = FALSE /\ mutex' = Absent
    /\ at' = [t \in Threads |-> "idle"]
    /\ job' = [t \in Threads |-> Absent]
    /\ view' = [t \in Threads |-> {}]

Directories == {"session", "tasks"}

\* The renames made so far in directory d reach the device; with one journal,
\* those of the other directory too.
Persist(d) ==
    /\ IF d = "tasks" \/ SharedJournal
       THEN filesOnDevice' = files
       ELSE UNCHANGED filesOnDevice
    /\ IF d = "session" \/ SharedJournal
       THEN manifestOnDevice' = manifest /\ resultOnDevice' = result
       ELSE UNCHANGED <<manifestOnDevice, resultOnDevice>>

\* The kernel writes back a directory on its own.
Writeback ==
    \E d \in Directories :
        /\ Persist(d)
        /\ UNCHANGED <<visible, main, pool, validated, super, faults>>
-------------------------------------------------------------------------------
(* The worker's main thread *)

Unsupervised == UNCHANGED <<super, faults>>

\* The worker returns an error; its process ends.
Fail == worker' = "exited" /\ exit' = "error"

\* A new session: the manifest freezes this invocation's inputs.
CreateManifest ==
    /\ worker = "prepare" /\ manifest = Absent
    /\ manifest' = input
    /\ worker' = "manifest-renamed"
    /\ UNCHANGED <<files, result, device, exit, input, phase, anchors, pool,
                   validated>>
    /\ Unsupervised

SyncManifest ==
    /\ worker = "manifest-renamed"
    /\ Persist("session")
    /\ worker' = "verify"
    /\ UNCHANGED <<visible, exit, input, phase, anchors, pool, validated>>
    /\ Unsupervised

\* A resumed session: the same inputs, or the invocation is refused.
ResumeManifest ==
    /\ worker = "prepare" /\ manifest # Absent
    /\ IF manifest = input THEN worker' = "verify" /\ UNCHANGED exit ELSE Fail
    /\ UNCHANGED <<visible, device, input, phase, anchors, pool, validated>>
    /\ Unsupervised

\* (Fault) The verified state is not published before it is called validated.
Verify_SkipsPublish ==
    /\ worker = "verify"
    /\ PhaseOrdered(Present(files))
    /\ worker' = "validate" /\ done' = Present(files)
    /\ UNCHANGED <<visible, device, exit, input, phase, anchors, pending, failed,
                   mutex, at, job, view, validated>>
    /\ Unsupervised

\* Every task file is read back: bound to this session, and none of a phase
\* whose predecessors are incomplete.  State is rebuilt from them alone.
Verify ==
    /\ worker = "verify"
    /\ IF /\ PhaseOrdered(Present(files))
          /\ \A k \in Present(files) : files[k].session = manifest
       THEN worker' = "publish" /\ done' = Present(files) /\ UNCHANGED exit
       ELSE Fail /\ UNCHANGED done
    /\ UNCHANGED <<visible, device, input, phase, anchors, pending, failed,
                   mutex, at, job, view, validated>>
    /\ Unsupervised

PublishVerified ==
    /\ worker = "publish"
    /\ result' = done
    /\ worker' = "result-renamed"
    /\ UNCHANGED <<manifest, files, device, exit, input, phase, anchors, pool,
                   validated>>
    /\ Unsupervised

SyncVerified ==
    /\ worker = "result-renamed"
    /\ Persist("session")
    /\ worker' = "validate"
    /\ UNCHANGED <<visible, exit, input, phase, anchors, pool, validated>>
    /\ Unsupervised

\* Only now may a receipt call result.json current.  (The fsync of the run's
\* own directory is left to Writeback: nothing relies on it.)
Validate ==
    /\ worker = "validate"
    /\ validated' = TRUE
    /\ worker' = "next-phase"
    /\ UNCHANGED <<visible, device, exit, input, phase, anchors, pool>>
    /\ Unsupervised

\* (Fault) All later phases are handed out with this one.
StartPhase_Pipelined ==
    /\ worker = "next-phase" /\ phase < 3
    /\ phase' = phase + 1
    /\ anchors' = AnchorSources(phase', done)
    /\ pending' = Tasks \ done
    /\ worker' = "in-pool"
    /\ UNCHANGED <<visible, device, exit, input, done, failed, mutex, at, job,
                   view, validated>>
    /\ Unsupervised

\* The anchors are frozen and the tasks not yet done are handed to the pool.
StartPhase ==
    /\ worker = "next-phase" /\ phase < 3
    /\ phase' = phase + 1
    /\ anchors' = AnchorSources(phase', done)
    /\ pending' = Phase(phase') \ done
    /\ worker' = "in-pool"
    /\ UNCHANGED <<visible, device, exit, input, done, failed, mutex, at, job,
                   view, validated>>
    /\ Unsupervised

\* try_for_each returns when no thread works and either all tasks are done or
\* one of them failed, which ends the worker.
EndPhase ==
    /\ worker = "in-pool"
    /\ \A t \in Threads : at[t] = "idle"
    /\ pending = {} \/ failed
    /\ IF failed THEN Fail ELSE worker' = "next-phase" /\ UNCHANGED exit
    /\ UNCHANGED <<visible, device, input, phase, anchors, pool, validated>>
    /\ Unsupervised

Finish ==
    /\ worker = "next-phase" /\ phase = 3
    /\ worker' = "exited" /\ exit' = "ok"
    /\ UNCHANGED <<visible, device, input, phase, anchors, pool, validated>>
    /\ Unsupervised

\* Any of the main thread's steps may fail: audio changed, no space, no memory.
WorkerError ==
    /\ worker \notin {"none", "in-pool", "exited"}
    /\ errors < MaxErrors
    /\ errors' = errors + 1
    /\ Fail
    /\ UNCHANGED <<visible, device, input, phase, anchors, pool, validated, super,
                   stops, powerLosses>>

Main == \/ CreateManifest \/ SyncManifest \/ ResumeManifest \/ Verify
        \/ PublishVerified \/ SyncVerified \/ Validate
        \/ StartPhase \/ EndPhase \/ Finish
-------------------------------------------------------------------------------
(* A thread of the pool *)

Goes(t, from, to) == at[t] = from /\ at' = [at EXCEPT ![t] = to]

InPool == UNCHANGED <<main, validated, super>>

\* rayon hands a task to an idle thread; after a failure it may still do so
\* until the threads notice.
TakeTask(t) ==
    /\ worker = "in-pool"
    /\ Goes(t, "idle", "computing")
    /\ \E k \in pending : job' = [job EXCEPT ![t] = k] /\ pending' = pending \ {k}
    /\ InPool
    /\ UNCHANGED <<visible, device, done, failed, mutex, view, faults>>

\* The search is over and its commit is renamed into place, unless a file is
\* there already.
RenameTask(t) ==
    LET k == job[t] IN
    /\ at[t] = "computing"
    /\ IF files[k] = Absent
       THEN /\ files' = [files EXCEPT ![k] = Commit(manifest, k, anchors)]
            /\ at' = [at EXCEPT ![t] = "task-renamed"]
            /\ UNCHANGED <<job, failed>>
       ELSE /\ failed' = TRUE
            /\ at' = [at EXCEPT ![t] = "idle"]
            /\ job' = [job EXCEPT ![t] = Absent]
            /\ UNCHANGED files
    /\ InPool
    /\ UNCHANGED <<manifest, result, device, done, pending, mutex, view, faults>>

SyncTask(t) ==
    /\ Goes(t, "task-renamed", "task-synced")
    /\ Persist("tasks")
    /\ InPool
    /\ UNCHANGED <<visible, done, pending, failed, mutex, job, view, faults>>

\* (Faults) The state lock is not taken; the task is added before the directory
\* of its file was synced.
AddTask_Unlocked(t) ==
    /\ Goes(t, "task-synced", "state-locked")
    /\ mutex' = t
    /\ done' = done \cup {job[t]}
    /\ view' = [view EXCEPT ![t] = done']
    /\ InPool
    /\ UNCHANGED <<visible, device, pending, failed, job, faults>>

AddTask_BeforeSync(t) ==
    /\ Goes(t, "task-renamed", "state-locked")
    /\ mutex = Absent
    /\ mutex' = t
    /\ done' = done \cup {job[t]}
    /\ view' = [view EXCEPT ![t] = done']
    /\ InPool
    /\ UNCHANGED <<visible, device, pending, failed, job, faults>>

\* Under the state lock: State.add, and the snapshot is taken.
AddTask(t) ==
    /\ Goes(t, "task-synced", "state-locked")
    /\ mutex = Absent
    /\ mutex' = t
    /\ done' = done \cup {job[t]}
    /\ view' = [view EXCEPT ![t] = done']
    /\ InPool
    /\ UNCHANGED <<visible, device, pending, failed, job, faults>>

PublishSnapshot(t) ==
    /\ Goes(t, "state-locked", "result-renamed")
    /\ result' = view[t]
    /\ InPool
    /\ UNCHANGED <<manifest, files, device, done, pending, failed, mutex, job,
                   view, faults>>

\* The lock is released only after the snapshot's directory was synced.
SyncSnapshot(t) ==
    /\ Goes(t, "result-renamed", "idle")
    /\ Persist("session")
    /\ mutex' = Absent
    /\ job' = [job EXCEPT ![t] = Absent]
    /\ view' = [view EXCEPT ![t] = {}]
    /\ InPool
    /\ UNCHANGED <<visible, done, pending, failed, faults>>

\* (Fault) A failing task leaves the state locked.
TaskError_KeepsLock(t) ==
    /\ at[t] # "idle"
    /\ errors < MaxErrors
    /\ errors' = errors + 1
    /\ failed' = TRUE
    /\ at' = [at EXCEPT ![t] = "idle"]
    /\ job' = [job EXCEPT ![t] = Absent]
    /\ view' = [view EXCEPT ![t] = {}]
    /\ InPool
    /\ UNCHANGED <<visible, device, done, pending, mutex, stops, powerLosses>>

\* The task returns an error from any of these steps: the search, a rename, an
\* fsync.  What it wrote stays; dropping the guard releases the lock.
TaskError(t) ==
    /\ at[t] # "idle"
    /\ errors < MaxErrors
    /\ errors' = errors + 1
    /\ failed' = TRUE
    /\ at' = [at EXCEPT ![t] = "idle"]
    /\ job' = [job EXCEPT ![t] = Absent]
    /\ view' = [view EXCEPT ![t] = {}]
    /\ mutex' = IF mutex = t THEN Absent ELSE mutex
    /\ InPool
    /\ UNCHANGED <<visible, device, done, pending, stops, powerLosses>>

Thread(t) == \/ TakeTask(t) \/ RenameTask(t) \/ SyncTask(t)
             \/ AddTask(t) \/ PublishSnapshot(t) \/ SyncSnapshot(t)
-------------------------------------------------------------------------------
(* The supervisor *)

\* A new invocation takes the session lock, which an orphaned worker would
\* still hold, and spawns its worker.
Invoke(id) ==
    /\ supervisor \in {"down", "reported"} /\ worker = "none"
    /\ supervisor' = "watching"
    /\ worker' = "prepare" /\ input' = id
    /\ validated' = FALSE
    /\ found' = Present(files)
    /\ receipt' = NoReceipt
    /\ UNCHANGED <<visible, device, exit, phase, anchors, pool, faults>>

\* Deadline, SIGINT or SIGTERM: the polling loop ends.  The worker goes on
\* until it is killed.
Stop ==
    /\ supervisor = "watching"
    /\ stops < MaxStops
    /\ stops' = stops + 1
    /\ supervisor' = "stopping"
    /\ UNCHANGED <<visible, device, main, pool, validated, receipt, found, errors,
                   powerLosses>>

\* The worker's group is killed and reaped, and the receipt is written from
\* what this invocation validated.
Report ==
    /\ supervisor = "stopping" \/ (supervisor = "watching" /\ worker = "exited")
    /\ supervisor' = "reported"
    /\ LET stopped == supervisor = "stopping"
           successful == stopped \/ exit = "ok"
           snapshot == IF validated /\ result # Absent THEN result ELSE {}
       IN  receipt' = [reason |-> IF stopped THEN "stopped"
                                  ELSE IF exit = "ok" THEN "completed"
                                  ELSE "worker_error",
                       verified |-> validated,
                       complete |-> successful /\ snapshot = Tasks,
                       tasks |-> snapshot]
    /\ WorkerGone
    /\ UNCHANGED <<visible, device, validated, found, faults>>

\* The supervisor is killed: no receipt.  Its worker is killed by the kernel
\* when it learns that its parent died, and holds the session lock until then.
CrashSupervisor ==
    /\ supervisor \in {"watching", "stopping"}
    /\ stops < MaxStops
    /\ stops' = stops + 1
    /\ supervisor' = "down"
    /\ UNCHANGED <<visible, device, main, pool, validated, receipt, found, errors,
                   powerLosses>>

KillOrphan ==
    /\ supervisor = "down" /\ worker # "none"
    /\ WorkerGone
    /\ UNCHANGED <<visible, device, validated, super, faults>>

\* Every process and everything not on the device is gone.
LosePower ==
    /\ powerLosses < MaxPowerLosses
    /\ powerLosses' = powerLosses + 1
    /\ manifest' = manifestOnDevice /\ files' = filesOnDevice
    /\ result' = resultOnDevice
    /\ WorkerGone
    /\ validated' = FALSE
    /\ supervisor' = "down" /\ receipt' = NoReceipt /\ found' = {}
    /\ UNCHANGED <<device, stops, errors>>

Next ==
    \/ CreateManifest \/ SyncManifest \/ ResumeManifest \/ Verify
    \/ PublishVerified \/ SyncVerified \/ Validate
    \/ StartPhase \/ EndPhase \/ Finish \/ WorkerError
    \/ \E t \in Threads :
          \/ TakeTask(t) \/ RenameTask(t) \/ SyncTask(t)
          \/ AddTask(t) \/ PublishSnapshot(t) \/ SyncSnapshot(t) \/ TaskError(t)
    \/ \E id \in Identities : Invoke(id)
    \/ Stop \/ Report \/ CrashSupervisor \/ KillOrphan
    \/ Writeback \/ LosePower

Spec == Init /\ [][Next]_vars

\* The operating system runs the processes and kills an orphan; the operator
\* resumes the session with the same inputs.  Nobody owes a stop, an error, a
\* crash or a writeback.
FairSpec ==
    /\ Spec
    /\ WF_vars(Main)
    /\ \A t \in Threads : WF_vars(Thread(t))
    /\ WF_vars(Report) /\ WF_vars(KillOrphan)
    /\ WF_vars(\E id \in Identities : (manifest \in {id, Absent}) /\ Invoke(id))
-------------------------------------------------------------------------------
(* What makes a session correct *)

\* Task files appear phase by phase, both to a process and on the device: the
\* verification of a session that was only killed, stopped or cut off never
\* finds "tasks before dependency stages completed".
TasksInPhaseOrder ==
    /\ PhaseOrdered(Present(files))
    /\ PhaseOrdered(Present(filesOnDevice))

\* Whichever invocation computed it, an exploratory task used the anchors of
\* every quick task and a final task those of the complete baseline: never a
\* part of a generation, and never the baseline found after a resume.
FrozenAnchorGenerations ==
    \A p \in {2, 3} : \A k \in Phase(p) : \A f \in {files, filesOnDevice} :
        f[k] # Absent /\ k.stage \in AnchoredStages =>
            f[k].anchors = IF p = 2 THEN QuickTasks ELSE BaselineTasks

\* On any filesystem, what an invocation counts as done beyond the files it
\* found is on the device before a snapshot or a receipt can report it.
CountedTasksAreDurable == done \ found \subseteq Present(filesOnDevice)

\* Every task file belongs to the session of the manifest beside it, also when
\* somebody resumed with other inputs and after a power loss.
TasksBoundToManifest ==
    /\ \A k \in Present(files) : files[k].session = manifest
    /\ \A k \in Present(filesOnDevice) :
          filesOnDevice[k].session = manifestOnDevice

\* A receipt that says its checkpoints were verified counts every task file the
\* invocation found and none that does not exist; "completed" without an error
\* means complete, and complete that every task has its file.
ReceiptTellsTheTruth ==
    supervisor = "reported" =>
        /\ receipt.verified => /\ found \subseteq receipt.tasks
                               /\ receipt.tasks \subseteq Present(files)
        /\ receipt.reason = "completed" => receipt.complete
        /\ receipt.complete => Present(files) = Tasks

SnapshotHasFiles ==
    /\ result # Absent => result \subseteq Present(files)
    /\ resultOnDevice # Absent => resultOnDevice \subseteq Present(filesOnDevice)

\* Short of a power loss, a reader of result.json never sees a task disappear; and
\* it never reports a task without its task file, whether a process reads both or a
\* power loss returns both from the device (which takes a shared journal: a file
\* renamed by an invocation that was killed before its fsync is taken over by the
\* next one without another).
SnapshotFollowsFiles ==
    [][/\ SnapshotHasFiles'
       /\ result # Absent /\ powerLosses' = powerLosses
            => result' # Absent /\ result \subseteq result']_vars

\* The files of the session, on both images, are a portfolio.
Portfolio == INSTANCE ProgressivePortfolio
                 WITH committed <- files, kept <- filesOnDevice

KeepsPortfolio == Portfolio!Spec

\* An invocation ends by itself: the pool never waits for a lock or a task
\* nobody will release.
InvocationEnds == supervisor = "watching" ~> supervisor # "watching"

\* If interruptions and errors are finitely many and the operator keeps
\* resuming, the session becomes complete and stays so.
SessionCompletes == <>[](result = Tasks)
-------------------------------------------------------------------------------
(* Why: the parts of an inductive invariant *)

\* Past its manifest a worker serves the session of its inputs, and no search
\* starts before that manifest is on the device.
SessionOpen ==
    /\ worker # "none" => input \in Identities
    /\ worker \notin {"none", "prepare", "exited"} => manifest = input
    /\ manifestOnDevice \in {Absent, manifest}
    /\ worker \in {"validate", "next-phase", "in-pool"} \/ Present(files) # {}
         => manifestOnDevice = manifest

\* Only threads of a running pool work, each on a task of the phase whose
\* predecessors are all done.
PoolWorksOnPhase ==
    /\ \A t \in Threads : at[t] # "idle" => /\ worker = "in-pool"
                                           /\ job[t] \in Phase(phase)
    /\ worker = "in-pool" => /\ phase \in Phases
                             /\ pending \subseteq Phase(phase)
                             /\ Before(phase) \subseteq done
    /\ worker = "next-phase" => Before(phase + 1) \subseteq done
    /\ worker \notin {"next-phase", "in-pool", "exited"} => phase = 0

\* What is done has its file, and a thread past its rename has one too.
DoneHasFiles ==
    /\ done \subseteq Present(files)
    /\ \A t \in Threads :
          /\ at[t] \in {"task-renamed", "task-synced"} => job[t] \in Present(files)
          /\ at[t] \in {"state-locked", "result-renamed"} => job[t] \in done

\* No task of the phase gets lost between the queue, the threads and done,
\* unless an error ends the phase.
NoTaskLost ==
    worker = "in-pool" /\ ~failed =>
        \A k \in Phase(phase) :
            k \in done \cup pending \/ \E t \in Threads : at[t] # "idle" /\ job[t] = k

\* The anchors of a running phase are its complete generation.
AnchorsComplete ==
    worker = "in-pool" =>
        /\ phase = 2 => anchors = QuickTasks
        /\ phase = 3 => anchors = BaselineTasks

IInv ==
    /\ TypeOK
    /\ SessionOpen
    /\ PoolWorksOnPhase
    /\ DoneHasFiles
    /\ NoTaskLost
    /\ AnchorsComplete
    /\ TasksInPhaseOrder
    /\ FrozenAnchorGenerations
    /\ TasksBoundToManifest
===============================================================================
