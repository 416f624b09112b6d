----------------------- MODULE ProgressiveSessionProofs -----------------------
(***************************************************************************)
(* For any recording, pool size, bounds and filesystem: the task files of  *)
(* a progressive session appear in the order of its phases and carry the   *)
(* anchors of complete generations.  The proof is one inductive invariant, *)
(* IInv, whose parts ProgressiveSession explains.                          *)
(***************************************************************************)
EXTENDS ProgressiveSession, TLAPS
-------------------------------------------------------------------------------
(* The portfolio *)

\* A task belongs to one phase only: no stage is listed twice (progressive.rs,
\* phases).
LEMMA PhasesDisjoint ==
    ASSUME NEW p \in Phases, NEW q \in Phases, NEW k \in Phase(p), k \in Phase(q)
    PROVE  p = q
BY DEF Phases, Phase, PhaseStages

\* Every phase consists of tasks.
LEMMA PhaseIsTasks == \A p \in Phases : Phase(p) \subseteq Tasks
BY DEF Tasks

\* What precedes a phase, and what precedes the next one.
LEMMA BeforePhase ==
    /\ Before(1) = {}
    /\ \A p \in Phases : Before(p) \subseteq Tasks
    /\ \A p \in Phases : Before(p + 1) = Before(p) \cup Phase(p)
<1>1. Before(1) = {}
  BY DEF Before, Phases
<1>2. \A p \in Phases : Before(p) \subseteq Tasks
  BY DEF Before, Tasks
<1>3. ASSUME NEW p \in Phases PROVE Before(p + 1) = Before(p) \cup Phase(p)
  <2>1. \A q \in Phases : q < p + 1 <=> q < p \/ q = p
    BY DEF Phases
  <2>. QED
    BY <2>1 DEF Before
<1>. QED
  BY <1>1, <1>2, <1>3

\* The anchored generations are what the phases before exploration and before
\* the final tasks leave.
LEMMA Generations ==
    /\ QuickTasks \subseteq BaselineTasks
    /\ BaselineTasks \subseteq Tasks
    /\ QuickTasks = Before(2)
    /\ BaselineTasks \subseteq Before(3)
<1>1. QuickTasks \subseteq BaselineTasks
  BY DEF QuickTasks, BaselineTasks, Phase, PhaseStages
<1>2. QuickTasks = Before(2)
  BY DEF QuickTasks, Before, Phases
<1>3. BaselineTasks \subseteq Phase(1) \cup Phase(2)
  BY DEF BaselineTasks, Phase, PhaseStages
<1>4. Phase(1) \subseteq Before(3) /\ Phase(2) \subseteq Before(3)
  BY DEF Before, Phases
<1>. QED
  BY <1>1, <1>2, <1>3, <1>4, BeforePhase DEF Phases, Before, Tasks

\* The files a process or the device can hold stay such when a commit is added.
LEMMA CommitTyped ==
    ASSUME NEW s \in Identities, NEW k \in Tasks, NEW a \in SUBSET BaselineTasks
    PROVE  Commit(s, k, a) \in Commits
BY DEF Commit, Commits

\* Adding a task of a phase whose predecessors are present keeps the order.
LEMMA OrderKept ==
    ASSUME NEW S \in SUBSET Tasks, PhaseOrdered(S),
           NEW p \in Phases, NEW k \in Phase(p), Before(p) \subseteq S
    PROVE  PhaseOrdered(S \cup {k})
<1>. SUFFICES ASSUME NEW q \in Phases, (S \cup {k}) \cap Phase(q) # {}
              PROVE  Before(q) \subseteq S \cup {k}
  BY DEF PhaseOrdered
<1>1. CASE S \cap Phase(q) # {}
  BY <1>1 DEF PhaseOrdered
<1>2. CASE S \cap Phase(q) = {}
  <2>1. k \in Phase(q)
    BY <1>2
  <2>2. p = q
    BY <2>1, PhasesDisjoint
  <2>. QED
    BY <2>2
<1>. QED
  BY <1>1, <1>2
-------------------------------------------------------------------------------
(* Type correctness *)

\* The anchors a phase freezes are those of baseline tasks.
LEMMA SourcesAreBaseline ==
    ASSUME NEW p, NEW S \in SUBSET Tasks
    PROVE  AnchorSources(p, S) \subseteq BaselineTasks
BY Generations DEF AnchorSources

\* A worker's memory before it started and after it ended is typed.
LEMMA IdleTypes ==
    /\ [t \in Threads |-> "idle"] \in [Threads -> ThreadStates]
    /\ [t \in Threads |-> Absent] \in [Threads -> Tasks \cup {Absent}]
    /\ [t \in Threads |-> {}] \in [Threads -> SUBSET Tasks]
<1>1. {} \in SUBSET Tasks
  OBVIOUS
<1>2. [t \in Threads |-> {}] \in [Threads -> SUBSET Tasks]
  BY <1>1, Zenon
<1>. QED
  BY <1>2 DEF ThreadStates

LEMMA WorkerGoneType ==
    WorkerGone =>
        /\ worker' \in WorkerStates /\ exit' \in {"ok", "error"} /\ input' = Absent
        /\ phase' \in 0 .. 3 /\ anchors' \subseteq BaselineTasks
        /\ done' \subseteq Tasks /\ pending' \subseteq Tasks /\ failed' \in BOOLEAN
        /\ mutex' \in Threads \cup {Absent}
        /\ at' \in [Threads -> ThreadStates]
        /\ job' \in [Threads -> Tasks \cup {Absent}]
        /\ view' \in [Threads -> SUBSET Tasks]
<1>. SUFFICES ASSUME WorkerGone
              PROVE  /\ worker' \in WorkerStates /\ phase' \in 0 .. 3
                     /\ at' \in [Threads -> ThreadStates]
                     /\ job' \in [Threads -> Tasks \cup {Absent}]
                     /\ view' \in [Threads -> SUBSET Tasks]
  BY DEF WorkerGone
<1>1. at' = [t \in Threads |-> "idle"] /\ job' = [t \in Threads |-> Absent]
      /\ view' = [t \in Threads |-> {}]
  BY DEF WorkerGone
<1>2. /\ at' \in [Threads -> ThreadStates]
      /\ job' \in [Threads -> Tasks \cup {Absent}]
      /\ view' \in [Threads -> SUBSET Tasks]
  BY <1>1, IdleTypes, Zenon
<1>. QED
  BY <1>2 DEF WorkerGone, WorkerStates

\* The initial state has the types of the variables' declarations.
LEMMA InitType == Init => TypeOK
<1>1. NoTaskFiles \in TaskFiles
  BY DEF NoTaskFiles, TaskFiles
<1>2. NoReceipt \in Receipts
  BY DEF NoReceipt, Receipts
<1>3. 0 \in 0 .. MaxStops /\ 0 \in 0 .. MaxErrors /\ 0 \in 0 .. MaxPowerLosses
  BY SessionAssumption
<1>4. ASSUME Init
      PROVE  /\ at \in [Threads -> ThreadStates]
             /\ job \in [Threads -> Tasks \cup {Absent}]
             /\ view \in [Threads -> SUBSET Tasks]
  <2>1. at = [t \in Threads |-> "idle"] /\ job = [t \in Threads |-> Absent]
        /\ view = [t \in Threads |-> {}]
    BY <1>4 DEF Init
  <2>. QED
    BY <2>1, IdleTypes, Zenon
<1>5. ASSUME Init
      PROVE  /\ files \in TaskFiles /\ filesOnDevice \in TaskFiles
             /\ receipt \in Receipts /\ worker \in WorkerStates /\ phase \in 0 .. 3
             /\ stops \in 0 .. MaxStops /\ errors \in 0 .. MaxErrors
             /\ powerLosses \in 0 .. MaxPowerLosses
  BY <1>1, <1>2, <1>3, <1>5 DEF Init, WorkerStates
<1>6. ASSUME Init
      PROVE  /\ manifest = Absent /\ manifestOnDevice = Absent /\ result = Absent
             /\ resultOnDevice = Absent /\ exit = "ok" /\ input = Absent
             /\ done = {} /\ anchors = {} /\ pending = {} /\ failed = FALSE
             /\ mutex = Absent /\ validated = FALSE /\ supervisor = "down"
             /\ found = {}
  BY <1>6 DEF Init
<1>. QED
  BY <1>4, <1>5, <1>6 DEF TypeOK

\* The steps of the worker's main thread keep the types.
LEMMA MainType == IInv /\ (Main \/ WorkerError) => TypeOK'
<1>. SUFFICES ASSUME IInv, Main \/ WorkerError PROVE TypeOK'
  OBVIOUS
<1>0. TypeOK /\ SessionOpen
  BY DEF IInv
<1>. USE SessionAssumption
     DEF TypeOK, WorkerStates, Fail, Unsupervised, visible, device, pool, super,
         faults
<1>1. CASE CreateManifest BY <1>0, <1>1 DEF CreateManifest
<1>2. CASE SyncManifest BY <1>0, <1>2 DEF SyncManifest, Persist
<1>3. CASE ResumeManifest BY <1>0, <1>3 DEF ResumeManifest
<1>4. CASE Verify BY <1>0, <1>4 DEF Verify, Present
<1>5. CASE PublishVerified BY <1>0, <1>5 DEF PublishVerified
<1>6. CASE SyncVerified BY <1>0, <1>6 DEF SyncVerified, Persist
<1>7. CASE Validate BY <1>0, <1>7 DEF Validate
<1>8. CASE StartPhase
  <2>1. phase' \in Phases /\ phase' \in 0 .. 3
    BY <1>0, <1>8 DEF StartPhase, Phases
  <2>2. anchors' \subseteq BaselineTasks
    BY <1>0, <1>8, SourcesAreBaseline DEF StartPhase
  <2>3. pending' \subseteq Tasks
    BY <1>8, <2>1, PhaseIsTasks DEF StartPhase
  <2>. QED
    BY <1>0, <1>8, <2>1, <2>2, <2>3 DEF StartPhase
<1>9. CASE EndPhase BY <1>0, <1>9 DEF EndPhase
<1>10. CASE Finish BY <1>0, <1>10 DEF Finish
<1>11. CASE WorkerError BY <1>0, <1>11 DEF WorkerError
<1>. QED
  BY <1>1, <1>2, <1>3, <1>4, <1>5, <1>6, <1>7, <1>8, <1>9, <1>10, <1>11 DEF Main

\* A working thread has a task of the running phase.
LEMMA WorkingThread ==
    ASSUME IInv, NEW t \in Threads, at[t] # "idle"
    PROVE  /\ worker = "in-pool" /\ phase \in Phases
           /\ job[t] \in Phase(phase) /\ job[t] \in Tasks
           /\ manifest \in Identities
BY PhaseIsTasks DEF IInv, PoolWorksOnPhase, SessionOpen

\* What the updates of a thread's state need to know.
LEMMA ThreadFunctions ==
    IInv => /\ at \in [Threads -> ThreadStates]
            /\ job \in [Threads -> Tasks \cup {Absent}]
            /\ files \in TaskFiles
BY DEF IInv, TypeOK

\* The steps of a thread keep the types.
LEMMA ThreadType ==
    ASSUME IInv, NEW t \in Threads, Thread(t) \/ TaskError(t)
    PROVE  TypeOK'
<1>0. TypeOK
  BY DEF IInv
<1>. USE SessionAssumption
     DEF TypeOK, ThreadStates, Goes, InPool, visible, device, main, super, faults
<1>1. CASE TakeTask(t) BY <1>0, <1>1 DEF TakeTask
<1>2. CASE RenameTask(t)
  <2>1. files' \in TaskFiles
    <3>1. Commit(manifest, job[t], anchors) \in Commits
      BY <1>0, <1>2, WorkingThread, CommitTyped DEF RenameTask
    <3>. QED
      BY <1>0, <1>2, <3>1 DEF RenameTask, TaskFiles
  <2>2. CASE files[job[t]] = Absent
    BY <1>0, <1>2, <2>1, <2>2 DEF RenameTask
  <2>3. CASE files[job[t]] # Absent
    BY <1>0, <1>2, <2>1, <2>3 DEF RenameTask
  <2>. QED
    BY <2>2, <2>3
<1>3. CASE SyncTask(t) BY <1>0, <1>3 DEF SyncTask, Persist
<1>4. CASE AddTask(t)
  <2>1. job[t] \in Tasks
    BY <1>4, WorkingThread DEF AddTask
  <2>. QED
    BY <1>0, <1>4, <2>1 DEF AddTask
<1>5. CASE PublishSnapshot(t) BY <1>0, <1>5 DEF PublishSnapshot
<1>6. CASE SyncSnapshot(t) BY <1>0, <1>6 DEF SyncSnapshot, Persist
<1>7. CASE TaskError(t) BY <1>0, <1>7 DEF TaskError
<1>. QED
  BY <1>1, <1>2, <1>3, <1>4, <1>5, <1>6, <1>7 DEF Thread

\* What the supervisor, the kernel and a loss of power do.
Outside == \/ \E id \in Identities : Invoke(id)
           \/ Stop \/ Report \/ CrashSupervisor \/ KillOrphan
           \/ Writeback \/ LosePower

\* Their steps keep the types.
LEMMA OutsideType ==
    ASSUME TypeOK, Outside
    PROVE  TypeOK'
<1>. USE SessionAssumption
     DEF TypeOK, WorkerStates, ThreadStates, visible, device, main, pool, super,
         faults
<1>1. CASE \E id \in Identities : Invoke(id)
  <2>1. NoReceipt \in Receipts
    BY DEF NoReceipt, Receipts
  <2>. QED
    BY <1>1, <2>1 DEF Invoke, Present
<1>2. CASE Stop BY <1>2 DEF Stop
<1>3. CASE Report
  <2>1. receipt' \in Receipts
    BY <1>3 DEF Report, Receipts
  <2>2. /\ supervisor' = "reported" /\ WorkerGone
        /\ UNCHANGED <<visible, device, validated, found, faults>>
    BY <1>3 DEF Report
  <2>. QED
    BY <2>1, <2>2, WorkerGoneType
<1>4. CASE CrashSupervisor BY <1>4 DEF CrashSupervisor
<1>5. CASE KillOrphan BY <1>5, WorkerGoneType DEF KillOrphan
<1>6. CASE Writeback BY <1>6 DEF Writeback, Persist
<1>7. CASE LosePower
  <2>1. NoReceipt \in Receipts
    BY DEF NoReceipt, Receipts
  <2>2. powerLosses' \in 0 .. MaxPowerLosses
    BY <1>7 DEF LosePower
  <2>3. /\ manifest' = manifestOnDevice /\ files' = filesOnDevice
        /\ result' = resultOnDevice
        /\ WorkerGone
        /\ validated' = FALSE
        /\ supervisor' = "down" /\ receipt' = NoReceipt /\ found' = {}
        /\ UNCHANGED <<device, stops, errors>>
    BY <1>7 DEF LosePower
  <2>. QED
    BY <2>1, <2>2, <2>3, WorkerGoneType
<1>. QED
  BY <1>1, <1>2, <1>3, <1>4, <1>5, <1>6, <1>7 DEF Outside

\* A rename adds at most the thread's own task to the files, as the commit of
\* this session.
LEMMA RenameAdds ==
    ASSUME IInv, NEW t \in Threads, RenameTask(t)
    PROVE  LET c == Commit(manifest, job[t], anchors) IN
           /\ c \in Commits /\ c # Absent
           /\ \/ /\ files' = [files EXCEPT ![job[t]] = c]
                 /\ at' = [at EXCEPT ![t] = "task-renamed"]
                 /\ Present(files') = Present(files) \cup {job[t]}
                 /\ UNCHANGED <<job, failed>>
              \/ /\ files' = files
                 /\ at' = [at EXCEPT ![t] = "idle"]
                 /\ job' = [job EXCEPT ![t] = Absent]
                 /\ failed' = TRUE
           /\ UNCHANGED <<filesOnDevice, done, pending, phase, anchors, worker>>
<1>. DEFINE c == Commit(manifest, job[t], anchors)
<1>1. at[t] # "idle" /\ job[t] \in Tasks /\ manifest \in Identities
  BY WorkingThread DEF RenameTask
<1>2. anchors \subseteq BaselineTasks /\ files \in TaskFiles
  BY DEF IInv, TypeOK
<1>3. c \in Commits /\ c # Absent
  BY <1>1, <1>2, CommitTyped, AbsentAssumption
<1>4. ASSUME files' = [files EXCEPT ![job[t]] = c]
      PROVE  Present(files') = Present(files) \cup {job[t]}
  BY <1>1, <1>2, <1>3, <1>4 DEF Present, TaskFiles
<1>. QED
  BY <1>3, <1>4 DEF RenameTask, InPool, device, main

-------------------------------------------------------------------------------
(* What groups of steps leave alone *)

\* The main thread's steps outside the pool, other than Verify, StartPhase and
\* EndPhase.
Aside == \/ CreateManifest \/ SyncManifest \/ ResumeManifest
         \/ PublishVerified \/ SyncVerified \/ Validate \/ Finish \/ WorkerError

\* They touch neither the task files nor the pool, and reach the first phase
\* with the phase counter at zero.
LEMMA AsideFrame ==
    ASSUME IInv, Aside
    PROVE  /\ worker # "in-pool" /\ worker' # "in-pool"
           /\ UNCHANGED <<files, done, pending, failed, at, job, phase, anchors>>
           /\ filesOnDevice' = files \/ filesOnDevice' = filesOnDevice
           /\ worker' = "next-phase" => phase = 0
           /\ worker' \notin {"next-phase", "exited"} => phase = 0
BY DEF IInv, PoolWorksOnPhase, Aside, CreateManifest, SyncManifest, ResumeManifest,
       PublishVerified, SyncVerified, Validate, Finish, WorkerError, Persist, Fail,
       Unsupervised, visible, device, pool

\* A new invocation finds an idle pool; stops, crashes and writeback leave the
\* worker's memory alone.
Around == \/ \E id \in Identities : Invoke(id)
          \/ Stop \/ CrashSupervisor \/ Writeback

LEMMA AroundFrame ==
    ASSUME Around
    PROVE  /\ UNCHANGED <<files, done, pending, failed, at, job, phase, anchors>>
           /\ filesOnDevice' = files \/ filesOnDevice' = filesOnDevice
           /\ worker' = worker \/ (worker = "none" /\ worker' = "prepare")
BY DEF Around, Invoke, Stop, CrashSupervisor, Writeback, Persist, visible, device,
       main, pool

\* The worker ends with its memory; its task files stay or are those of the
\* device.
Ending == Report \/ KillOrphan \/ LosePower

LEMMA EndingFrame ==
    ASSUME Ending
    PROVE  /\ worker' = "none" /\ phase' = 0 /\ done' = {}
           /\ \A t \in Threads : at'[t] = "idle"
           /\ UNCHANGED filesOnDevice
           /\ files' = files \/ files' = filesOnDevice
BY DEF Ending, Report, KillOrphan, LosePower, WorkerGone, visible, device

\* The cases of a step that the lemmas below distinguish.
LEMMA StepCases ==
    ASSUME Next
    PROVE  \/ Aside \/ Around \/ Ending \/ Verify \/ StartPhase \/ EndPhase
           \/ \E t \in Threads : Thread(t) \/ TaskError(t)
BY DEF Next, Aside, Around, Ending, Thread
-------------------------------------------------------------------------------
(* The invariant is preserved: one lemma per part *)

\* Threads work on the running phase, whose predecessors are done.
LEMMA PoolWorksOnPhaseStep == ASSUME IInv, Next PROVE PoolWorksOnPhase'
<1>. USE DEF IInv, PoolWorksOnPhase, visible, device, main, pool, super, faults, Unsupervised, Fail
<1>1. CASE Aside BY <1>1, AsideFrame, BeforePhase
<1>2. CASE Around BY <1>2, AroundFrame
<1>3. CASE Ending BY <1>3, EndingFrame
<1>4. CASE Verify BY <1>4 DEF Verify
<1>5. CASE StartPhase
  <2>1. phase + 1 \in Phases
    BY <1>5 DEF StartPhase, TypeOK, Phases
  <2>. QED
    BY <1>5, <2>1 DEF StartPhase
<1>6. CASE EndPhase
  <2>1. CASE failed
    BY <1>6, <2>1 DEF EndPhase
  <2>2. CASE ~failed
    <3>1. Phase(phase) \subseteq done
      BY <1>6, <2>2 DEF EndPhase, NoTaskLost
    <3>. QED
      BY <1>6, <2>2, <3>1, BeforePhase DEF EndPhase
  <2>. QED
    BY <2>1, <2>2
<1>7. ASSUME NEW t \in Threads, Thread(t) \/ TaskError(t) PROVE PoolWorksOnPhase'
  <2>. USE DEF Goes, InPool
  <2>1. CASE TakeTask(t) BY <2>1, WorkingThread, ThreadFunctions DEF TakeTask
  <2>2. CASE RenameTask(t) BY <2>2, WorkingThread, ThreadFunctions, RenameAdds DEF RenameTask
  <2>3. CASE SyncTask(t) BY <2>3, WorkingThread, ThreadFunctions DEF SyncTask, Persist
  <2>4. CASE AddTask(t) BY <2>4, WorkingThread, ThreadFunctions DEF AddTask
  <2>5. CASE PublishSnapshot(t) BY <2>5, WorkingThread, ThreadFunctions DEF PublishSnapshot
  <2>6. CASE SyncSnapshot(t) BY <2>6, WorkingThread, ThreadFunctions DEF SyncSnapshot, Persist
  <2>7. CASE TaskError(t) BY <2>7, WorkingThread, ThreadFunctions DEF TaskError
  <2>. QED
    BY <1>7, <2>1, <2>2, <2>3, <2>4, <2>5, <2>6, <2>7 DEF Thread
<1>. QED
  BY StepCases, <1>1, <1>2, <1>3, <1>4, <1>5, <1>6, <1>7

\* What is done has its file.
LEMMA DoneHasFilesStep == ASSUME IInv, Next PROVE DoneHasFiles'
<1>. USE DEF IInv, PoolWorksOnPhase, DoneHasFiles, Present, visible, device, main, pool, super, faults, Unsupervised, Fail
<1>1. CASE Aside BY <1>1, AsideFrame
<1>2. CASE Around BY <1>2, AroundFrame
<1>3. CASE Ending BY <1>3, EndingFrame
<1>4. CASE Verify BY <1>4 DEF Verify
<1>5. CASE StartPhase BY <1>5 DEF StartPhase
<1>6. CASE EndPhase BY <1>6 DEF EndPhase
<1>7. ASSUME NEW t \in Threads, Thread(t) \/ TaskError(t) PROVE DoneHasFiles'
  <2>. USE DEF Goes, InPool
  <2>1. CASE TakeTask(t) BY <2>1, WorkingThread, ThreadFunctions DEF TakeTask
  <2>2. CASE RenameTask(t)
    <3>1. Present(files) \subseteq Present(files')
      BY <2>2, RenameAdds
    <3>2. at'[t] = "task-renamed" => job'[t] \in Present(files')
      BY <2>2, RenameAdds, ThreadFunctions
    <3>3. at'[t] \in {"idle", "task-renamed"}
      BY <2>2, RenameAdds, ThreadFunctions
    <3>4. \A u \in Threads \ {t} : at'[u] = at[u] /\ job'[u] = job[u]
      BY ZenonT(30), <2>2, RenameAdds, ThreadFunctions
    <3>5. done' = done
      BY <2>2, RenameAdds
    <3>6. DoneHasFiles
      BY DEF IInv
    <3>. HIDE DEF IInv, PoolWorksOnPhase, Present
    <3>. QED
      BY <3>1, <3>2, <3>3, <3>4, <3>5, <3>6 DEF DoneHasFiles
  <2>3. CASE SyncTask(t) BY <2>3, WorkingThread, ThreadFunctions DEF SyncTask, Persist
  <2>4. CASE AddTask(t) BY <2>4, WorkingThread, ThreadFunctions DEF AddTask
  <2>5. CASE PublishSnapshot(t) BY <2>5, WorkingThread, ThreadFunctions DEF PublishSnapshot
  <2>6. CASE SyncSnapshot(t) BY <2>6, WorkingThread, ThreadFunctions DEF SyncSnapshot, Persist
  <2>7. CASE TaskError(t) BY <2>7, WorkingThread, ThreadFunctions DEF TaskError
  <2>. QED
    BY <1>7, <2>1, <2>2, <2>3, <2>4, <2>5, <2>6, <2>7 DEF Thread
<1>. QED
  BY StepCases, <1>1, <1>2, <1>3, <1>4, <1>5, <1>6, <1>7

\* Every task of the phase is queued, worked on or done, until an error.
LEMMA NoTaskLostStep == ASSUME IInv, Next PROVE NoTaskLost'
<1>. USE DEF IInv, PoolWorksOnPhase, NoTaskLost, visible, device, main, pool, super, faults, Unsupervised, Fail
<1>1. CASE Aside BY <1>1, AsideFrame
<1>2. CASE Around BY <1>2, AroundFrame
<1>3. CASE Ending BY <1>3, EndingFrame
<1>4. CASE Verify BY <1>4 DEF Verify
<1>5. CASE StartPhase BY <1>5 DEF StartPhase
<1>6. CASE EndPhase BY <1>6 DEF EndPhase
<1>7. ASSUME NEW t \in Threads, Thread(t) \/ TaskError(t) PROVE NoTaskLost'
  <2>. USE DEF Goes, InPool
  <2>1. CASE TakeTask(t) BY <2>1, WorkingThread, ThreadFunctions DEF TakeTask
  <2>2. CASE RenameTask(t) BY <2>2, WorkingThread, ThreadFunctions, RenameAdds DEF RenameTask
  <2>3. CASE SyncTask(t) BY <2>3, WorkingThread, ThreadFunctions DEF SyncTask, Persist
  <2>4. CASE AddTask(t) BY <2>4, WorkingThread, ThreadFunctions DEF AddTask
  <2>5. CASE PublishSnapshot(t) BY <2>5, WorkingThread, ThreadFunctions DEF PublishSnapshot
  <2>6. CASE SyncSnapshot(t) BY <2>6, WorkingThread, ThreadFunctions DEF SyncSnapshot, Persist, DoneHasFiles
  <2>7. CASE TaskError(t) BY <2>7, WorkingThread, ThreadFunctions DEF TaskError
  <2>. QED
    BY <1>7, <2>1, <2>2, <2>3, <2>4, <2>5, <2>6, <2>7 DEF Thread
<1>. QED
  BY StepCases, <1>1, <1>2, <1>3, <1>4, <1>5, <1>6, <1>7

\* A phase freezes its complete generation of anchors.
LEMMA AnchorsCompleteStep == ASSUME IInv, Next PROVE AnchorsComplete'
<1>. USE DEF IInv, PoolWorksOnPhase, AnchorsComplete, visible, device, main, pool, super, faults, Unsupervised, Fail
<1>1. CASE Aside BY <1>1, AsideFrame
<1>2. CASE Around BY <1>2, AroundFrame
<1>3. CASE Ending BY <1>3, EndingFrame
<1>4. CASE Verify BY <1>4 DEF Verify
<1>5. CASE StartPhase
  <2>1. Before(phase') \subseteq done
    BY <1>5 DEF StartPhase
  <2>2. phase' = 2 => QuickTasks \subseteq done
    BY <2>1, Generations
  <2>3. phase' = 3 => BaselineTasks \subseteq done
    BY <2>1, Generations
  <2>4. anchors' = AnchorSources(phase', done)
    BY <1>5 DEF StartPhase
  <2>5. phase' = 2 => anchors' = QuickTasks
    BY <2>2, <2>4 DEF AnchorSources
  <2>6. phase' = 3 => anchors' = BaselineTasks
    BY <2>3, <2>4 DEF AnchorSources
  <2>. QED
    BY <2>5, <2>6
<1>6. CASE EndPhase BY <1>6 DEF EndPhase
<1>7. ASSUME NEW t \in Threads, Thread(t) \/ TaskError(t) PROVE AnchorsComplete'
  <2>. USE DEF Goes, InPool
  <2>1. CASE TakeTask(t) BY <2>1, WorkingThread, ThreadFunctions DEF TakeTask
  <2>2. CASE RenameTask(t) BY <2>2, WorkingThread, ThreadFunctions, RenameAdds DEF RenameTask
  <2>3. CASE SyncTask(t) BY <2>3, WorkingThread, ThreadFunctions DEF SyncTask, Persist
  <2>4. CASE AddTask(t) BY <2>4, WorkingThread, ThreadFunctions DEF AddTask
  <2>5. CASE PublishSnapshot(t) BY <2>5, WorkingThread, ThreadFunctions DEF PublishSnapshot
  <2>6. CASE SyncSnapshot(t) BY <2>6, WorkingThread, ThreadFunctions DEF SyncSnapshot, Persist
  <2>7. CASE TaskError(t) BY <2>7, WorkingThread, ThreadFunctions DEF TaskError
  <2>. QED
    BY <1>7, <2>1, <2>2, <2>3, <2>4, <2>5, <2>6, <2>7 DEF Thread
<1>. QED
  BY StepCases, <1>1, <1>2, <1>3, <1>4, <1>5, <1>6, <1>7

\* The manifest is that of the session's inputs, and on the device before anything
\* depends on it.
LEMMA SessionOpenStep == ASSUME IInv, Next PROVE SessionOpen'
<1>. USE DEF IInv, SessionOpen, TypeOK, Present, visible, device, main, pool, super, faults, Unsupervised, Fail
<1>1. CASE Aside
  <2>1. CASE CreateManifest
    <3>1. Present(files) = {}
      BY <2>1, PortfolioAssumption
         DEF CreateManifest, TasksBoundToManifest, TaskFiles, Commits
    <3>. QED
      BY <2>1, <3>1 DEF CreateManifest
  <2>2. CASE SyncManifest BY <2>2 DEF SyncManifest, Persist
  <2>3. CASE ResumeManifest BY <2>3 DEF ResumeManifest
  <2>4. CASE PublishVerified BY <2>4 DEF PublishVerified
  <2>5. CASE SyncVerified BY <2>5 DEF SyncVerified, Persist
  <2>6. CASE Validate BY <2>6 DEF Validate
  <2>7. CASE Finish BY <2>7 DEF Finish
  <2>8. CASE WorkerError BY <2>8 DEF WorkerError
  <2>. QED
    BY <1>1, <2>1, <2>2, <2>3, <2>4, <2>5, <2>6, <2>7, <2>8 DEF Aside
<1>2. CASE Around BY <1>2 DEF Around, Invoke, Stop, CrashSupervisor, Writeback, Persist
<1>3. CASE Ending BY <1>3 DEF Ending, Report, KillOrphan, LosePower, WorkerGone
<1>4. CASE Verify BY <1>4 DEF Verify
<1>5. CASE StartPhase BY <1>5 DEF StartPhase
<1>6. CASE EndPhase BY <1>6 DEF EndPhase
<1>7. ASSUME NEW t \in Threads, Thread(t) \/ TaskError(t) PROVE SessionOpen'
  <2>. USE DEF Goes, InPool
  <2>1. CASE TakeTask(t) BY <2>1, WorkingThread, ThreadFunctions DEF TakeTask
  <2>2. CASE RenameTask(t)
    <3>1. worker = "in-pool"
      BY <2>2, WorkingThread DEF RenameTask
    <3>. QED
      BY <2>2, <3>1 DEF RenameTask
  <2>3. CASE SyncTask(t) BY <2>3, WorkingThread, ThreadFunctions DEF SyncTask, Persist
  <2>4. CASE AddTask(t) BY <2>4, WorkingThread, ThreadFunctions DEF AddTask
  <2>5. CASE PublishSnapshot(t) BY <2>5, WorkingThread, ThreadFunctions DEF PublishSnapshot
  <2>6. CASE SyncSnapshot(t) BY <2>6, WorkingThread, ThreadFunctions DEF SyncSnapshot, Persist
  <2>7. CASE TaskError(t) BY <2>7, WorkingThread, ThreadFunctions DEF TaskError
  <2>. QED
    BY <1>7, <2>1, <2>2, <2>3, <2>4, <2>5, <2>6, <2>7 DEF Thread
<1>. QED
  BY StepCases, <1>1, <1>2, <1>3, <1>4, <1>5, <1>6, <1>7

\* The task files respect the order of the phases, as seen and on the device.
LEMMA TasksInPhaseOrderStep == ASSUME IInv, Next PROVE TasksInPhaseOrder'
<1>. USE DEF IInv, TasksInPhaseOrder, visible, device, main, pool, super, faults, Unsupervised, Fail
<1>1. CASE Aside BY <1>1, AsideFrame
<1>2. CASE Around BY <1>2, AroundFrame
<1>3. CASE Ending BY <1>3, EndingFrame
<1>4. CASE Verify BY <1>4 DEF Verify
<1>5. CASE StartPhase BY <1>5 DEF StartPhase
<1>6. CASE EndPhase BY <1>6 DEF EndPhase
<1>7. ASSUME NEW t \in Threads, Thread(t) \/ TaskError(t) PROVE TasksInPhaseOrder'
  <2>. USE DEF Goes, InPool
  <2>1. CASE TakeTask(t) BY <2>1, WorkingThread, ThreadFunctions DEF TakeTask
  <2>2. CASE RenameTask(t)
    <3>1. /\ phase \in Phases /\ job[t] \in Phase(phase)
          /\ Before(phase) \subseteq Present(files)
      BY <2>2, WorkingThread DEF RenameTask, PoolWorksOnPhase, DoneHasFiles
    <3>2. PhaseOrdered(Present(files) \cup {job[t]})
      BY <3>1, OrderKept DEF Present
    <3>. QED
      BY <2>2, <3>2, RenameAdds
  <2>3. CASE SyncTask(t) BY <2>3, WorkingThread, ThreadFunctions DEF SyncTask, Persist
  <2>4. CASE AddTask(t) BY <2>4, WorkingThread, ThreadFunctions DEF AddTask
  <2>5. CASE PublishSnapshot(t) BY <2>5, WorkingThread, ThreadFunctions DEF PublishSnapshot
  <2>6. CASE SyncSnapshot(t) BY <2>6, WorkingThread, ThreadFunctions DEF SyncSnapshot, Persist
  <2>7. CASE TaskError(t) BY <2>7, WorkingThread, ThreadFunctions DEF TaskError
  <2>. QED
    BY <1>7, <2>1, <2>2, <2>3, <2>4, <2>5, <2>6, <2>7 DEF Thread
<1>. QED
  BY StepCases, <1>1, <1>2, <1>3, <1>4, <1>5, <1>6, <1>7

\* Task files carry the anchors of complete generations.
LEMMA FrozenAnchorGenerationsStep == ASSUME IInv, Next PROVE FrozenAnchorGenerations'
<1>. USE DEF IInv, FrozenAnchorGenerations, visible, device, main, pool, super, faults, Unsupervised, Fail
<1>1. CASE Aside BY <1>1, AsideFrame
<1>2. CASE Around BY <1>2, AroundFrame
<1>3. CASE Ending BY <1>3, EndingFrame
<1>4. CASE Verify BY <1>4 DEF Verify
<1>5. CASE StartPhase BY <1>5 DEF StartPhase
<1>6. CASE EndPhase BY <1>6 DEF EndPhase
<1>7. ASSUME NEW t \in Threads, Thread(t) \/ TaskError(t) PROVE FrozenAnchorGenerations'
  <2>. USE DEF Goes, InPool
  <2>1. CASE TakeTask(t) BY <2>1, WorkingThread, ThreadFunctions DEF TakeTask
  <2>2. CASE RenameTask(t)
    <3>. HIDE DEF IInv
    <3>. SUFFICES ASSUME NEW p \in {2, 3}, NEW k \in Phase(p),
                         NEW f \in {files', filesOnDevice'},
                         f[k] # Absent, k.stage \in AnchoredStages
                  PROVE  f[k].anchors = IF p = 2 THEN QuickTasks ELSE BaselineTasks
      BY DEF FrozenAnchorGenerations
    <3>1. FrozenAnchorGenerations /\ files \in TaskFiles /\ filesOnDevice' = filesOnDevice
      BY <2>2, RenameAdds DEF IInv, TypeOK
    <3>2. CASE f = filesOnDevice \/ f = files \/ k # job[t]
      <4>1. CASE f = filesOnDevice \/ f = files BY <3>1, <4>1
      <4>2. CASE f = files' /\ k # job[t]
        <5>1. k \in Tasks
          BY PhaseIsTasks DEF Phases
        <5>2. files' = files
              \/ \E c : files' = [files EXCEPT ![job[t]] = c]
          BY <2>2 DEF RenameTask
        <5>3. f[k] = files[k]
          BY <3>1, <4>2, <5>1, <5>2 DEF TaskFiles
        <5>. QED
          BY <3>1, <5>3
      <4>. QED
        BY <3>1, <3>2, <4>1, <4>2
    <3>3. CASE f # filesOnDevice /\ f # files /\ k = job[t]
      <4>1. f = files' /\ files' = [files EXCEPT ![k] = Commit(manifest, k, anchors)]
        BY <2>2, <3>1, <3>3, RenameAdds
      <4>2. phase = p
        BY <2>2, <3>3, WorkingThread, PhasesDisjoint DEF RenameTask, Phases
      <4>3. anchors = IF p = 2 THEN QuickTasks ELSE BaselineTasks
        BY <2>2, <4>2, WorkingThread DEF RenameTask, IInv, AnchorsComplete
      <4>4. k \in Tasks
        BY PhaseIsTasks DEF Phases
      <4>. QED
        BY <3>1, <4>1, <4>3, <4>4 DEF TaskFiles, Commit
    <3>. QED
      BY <3>1, <3>2, <3>3
  <2>3. CASE SyncTask(t) BY <2>3, WorkingThread, ThreadFunctions DEF SyncTask, Persist
  <2>4. CASE AddTask(t) BY <2>4, WorkingThread, ThreadFunctions DEF AddTask
  <2>5. CASE PublishSnapshot(t) BY <2>5, WorkingThread, ThreadFunctions DEF PublishSnapshot
  <2>6. CASE SyncSnapshot(t) BY <2>6, WorkingThread, ThreadFunctions DEF SyncSnapshot, Persist
  <2>7. CASE TaskError(t) BY <2>7, WorkingThread, ThreadFunctions DEF TaskError
  <2>. QED
    BY <1>7, <2>1, <2>2, <2>3, <2>4, <2>5, <2>6, <2>7 DEF Thread
<1>. QED
  BY StepCases, <1>1, <1>2, <1>3, <1>4, <1>5, <1>6, <1>7

\* The device never holds task files without the manifest processes see.
LEMMA DeviceSession ==
    ASSUME IInv
    PROVE  /\ \A k \in Present(filesOnDevice) : filesOnDevice[k].session = manifest
           /\ \A k \in Present(files) : files[k].session = manifestOnDevice
<1>1. ASSUME NEW k \in Present(filesOnDevice)
      PROVE  filesOnDevice[k].session = manifest
  <2>1. filesOnDevice[k] \in Commits
    BY DEF IInv, TypeOK, TaskFiles, Present
  <2>2. manifestOnDevice # Absent
    BY <2>1, PortfolioAssumption DEF IInv, TasksBoundToManifest, Commits
  <2>. QED
    BY <2>2 DEF IInv, TasksBoundToManifest, SessionOpen
<1>2. ASSUME NEW k \in Present(files)
      PROVE  files[k].session = manifestOnDevice
  BY DEF IInv, TasksBoundToManifest, SessionOpen
<1>. QED
  BY <1>1, <1>2

\* Every task file belongs to the session of the manifest beside it.
LEMMA TasksBoundToManifestStep == ASSUME IInv, Next PROVE TasksBoundToManifest'
<1>. USE DEF IInv, TasksBoundToManifest, SessionOpen, Present, visible, device, main, pool, super, faults, Unsupervised, Fail
<1>1. CASE Aside
  <2>1. CASE CreateManifest
    <3>1. Present(files) = {} /\ Present(filesOnDevice) = {}
      BY <2>1, PortfolioAssumption DEF CreateManifest, TypeOK, TaskFiles, Commits
    <3>. QED
      BY <2>1, <3>1 DEF CreateManifest
  <2>2. CASE SyncManifest BY <2>2, DeviceSession DEF SyncManifest, Persist
  <2>3. CASE ResumeManifest BY <2>3 DEF ResumeManifest
  <2>4. CASE PublishVerified BY <2>4 DEF PublishVerified
  <2>5. CASE SyncVerified BY <2>5, DeviceSession DEF SyncVerified, Persist
  <2>6. CASE Validate BY <2>6 DEF Validate
  <2>7. CASE Finish BY <2>7 DEF Finish
  <2>8. CASE WorkerError BY <2>8 DEF WorkerError
  <2>. QED
    BY <1>1, <2>1, <2>2, <2>3, <2>4, <2>5, <2>6, <2>7, <2>8 DEF Aside
<1>2. CASE Around
  <2>1. CASE \E id \in Identities : Invoke(id) BY <2>1 DEF Invoke
  <2>2. CASE Stop \/ CrashSupervisor BY <2>2 DEF Stop, CrashSupervisor
  <2>3. CASE Writeback BY <2>3, DeviceSession DEF Writeback, Persist
  <2>. QED
    BY <1>2, <2>1, <2>2, <2>3 DEF Around
<1>3. CASE Ending BY <1>3 DEF Ending, Report, KillOrphan, LosePower, WorkerGone
<1>4. CASE Verify BY <1>4 DEF Verify
<1>5. CASE StartPhase BY <1>5 DEF StartPhase
<1>6. CASE EndPhase BY <1>6 DEF EndPhase
<1>7. ASSUME NEW t \in Threads, Thread(t) \/ TaskError(t) PROVE TasksBoundToManifest'
  <2>. USE DEF Goes, InPool
  <2>1. CASE TakeTask(t) BY <2>1, WorkingThread, ThreadFunctions DEF TakeTask
  <2>2. CASE RenameTask(t)
    <3>1. manifest' = manifest /\ manifestOnDevice' = manifestOnDevice
      BY <2>2 DEF RenameTask
    <3>2. Commit(manifest, job[t], anchors).session = manifest
      BY DEF Commit
    <3>. QED
      BY <2>2, <3>1, <3>2, RenameAdds, ThreadFunctions DEF TaskFiles
  <2>3. CASE SyncTask(t) BY <2>3, WorkingThread, ThreadFunctions DEF SyncTask, Persist
  <2>4. CASE AddTask(t) BY <2>4, WorkingThread, ThreadFunctions DEF AddTask
  <2>5. CASE PublishSnapshot(t) BY <2>5, WorkingThread, ThreadFunctions DEF PublishSnapshot
  <2>6. CASE SyncSnapshot(t) BY <2>6, WorkingThread, ThreadFunctions DEF SyncSnapshot, Persist
  <2>7. CASE TaskError(t) BY <2>7, WorkingThread, ThreadFunctions DEF TaskError
  <2>. QED
    BY <1>7, <2>1, <2>2, <2>3, <2>4, <2>5, <2>6, <2>7 DEF Thread
<1>. QED
  BY StepCases, <1>1, <1>2, <1>3, <1>4, <1>5, <1>6, <1>7

-------------------------------------------------------------------------------
(* The theorems *)

\* The invariant holds initially.
LEMMA InitInvariant == Init => IInv
<1>. SUFFICES ASSUME Init PROVE IInv
  OBVIOUS
<1>1. TypeOK
  BY InitType
<1>2. Present(NoTaskFiles) = {}
  BY DEF Present, NoTaskFiles
<1>3. TasksInPhaseOrder /\ TasksBoundToManifest
  BY <1>2 DEF Init, TasksInPhaseOrder, TasksBoundToManifest, PhaseOrdered
<1>4. FrozenAnchorGenerations
  <2>1. \A k \in Tasks : NoTaskFiles[k] = Absent
    BY DEF NoTaskFiles
  <2>. QED
    BY <2>1, PhaseIsTasks DEF Init, FrozenAnchorGenerations, Phases
<1>5. SessionOpen /\ DoneHasFiles /\ NoTaskLost /\ AnchorsComplete
  BY <1>2 DEF Init, SessionOpen, DoneHasFiles, NoTaskLost, AnchorsComplete
<1>6. PoolWorksOnPhase
  BY DEF Init, PoolWorksOnPhase
<1>. QED
  BY <1>1, <1>3, <1>4, <1>5, <1>6 DEF IInv

\* Every step preserves it.
LEMMA NextInvariant == IInv /\ [Next]_vars => IInv'
<1>. SUFFICES ASSUME IInv, [Next]_vars PROVE IInv'
  OBVIOUS
<1>1. CASE UNCHANGED vars
  BY <1>1 DEF vars, visible, device, main, pool, super, faults, IInv, TypeOK,
       SessionOpen, PoolWorksOnPhase, DoneHasFiles, NoTaskLost, AnchorsComplete,
       TasksInPhaseOrder, FrozenAnchorGenerations, TasksBoundToManifest, Present
<1>2. CASE Next
  <2>1. TypeOK'
    BY <1>2, MainType, ThreadType, OutsideType DEF IInv, Next, Main, Thread, Outside
  <2>. QED
    BY <1>2, <2>1, SessionOpenStep, PoolWorksOnPhaseStep, DoneHasFilesStep,
       NoTaskLostStep, AnchorsCompleteStep, TasksInPhaseOrderStep,
       FrozenAnchorGenerationsStep, TasksBoundToManifestStep
       DEF IInv
<1>. QED
  BY <1>1, <1>2

\* The invariant holds in every reachable state, for any recording, options,
\* pool, filesystem and number of interruptions.
THEOREM SessionInvariant == Spec => []IInv
BY InitInvariant, NextInvariant, PTL DEF Spec

\* Type correctness of the session.
THEOREM SessionTypes == Spec => []TypeOK
<1>1. IInv => TypeOK
  BY DEF IInv
<1>. QED
  BY <1>1, SessionInvariant, PTL

\* The verification of an honest session never refuses it: its task files respect
\* the phase order whatever was killed, stopped or lost.
THEOREM SessionPhaseOrder == Spec => []TasksInPhaseOrder
<1>1. IInv => TasksInPhaseOrder
  BY DEF IInv
<1>. QED
  BY <1>1, SessionInvariant, PTL

\* Exploratory tasks use the complete quick anchors and final tasks those of the
\* complete baseline, in whichever invocation they were computed.
THEOREM SessionAnchors == Spec => []FrozenAnchorGenerations
<1>1. IInv => FrozenAnchorGenerations
  BY DEF IInv
<1>. QED
  BY <1>1, SessionInvariant, PTL

\* No session mixes the results of different inputs.
THEOREM SessionInputs == Spec => []TasksBoundToManifest
<1>1. IInv => TasksBoundToManifest
  BY DEF IInv
<1>. QED
  BY <1>1, SessionInvariant, PTL

\* The instance's own names for the portfolio's operators mean the same.
LEMMA PortfolioOperators ==
    /\ Portfolio!Phases = Phases
    /\ \A p : Portfolio!Phase(p) = Phase(p) /\ Portfolio!Before(p) = Before(p)
    /\ \A p, S : Portfolio!AnchorSources(p, S) = AnchorSources(p, S)
    /\ \A s, k, a : Portfolio!Commit(s, k, a) = Commit(s, k, a)
    /\ \A f : Portfolio!Present(f) = Present(f)
    /\ Portfolio!NoTaskFiles = NoTaskFiles
<1>1. Portfolio!Phases = Phases
  BY DEF Phases, Portfolio!Phases
<1>2. \A p : Portfolio!Phase(p) = Phase(p)
  BY DEF Phase, Portfolio!Phase, PhaseStages, Portfolio!PhaseStages
<1>3. \A p : Portfolio!Before(p) = Before(p)
  BY <1>1, <1>2 DEF Before, Portfolio!Before
<1>4. Portfolio!QuickTasks = QuickTasks /\ Portfolio!BaselineTasks = BaselineTasks
  BY <1>2 DEF QuickTasks, BaselineTasks, Portfolio!QuickTasks, Portfolio!BaselineTasks
<1>5. \A p, S : Portfolio!AnchorSources(p, S) = AnchorSources(p, S)
  BY <1>4 DEF AnchorSources, Portfolio!AnchorSources
<1>6. \A s, k, a : Portfolio!Commit(s, k, a) = Commit(s, k, a)
  BY DEF Commit, Portfolio!Commit, AnchoredStages, Portfolio!AnchoredStages
<1>7. Portfolio!Tasks = Tasks
  BY <1>1, <1>2 DEF Tasks, Portfolio!Tasks
<1>8. \A f : Portfolio!Present(f) = Present(f)
  BY <1>7 DEF Present, Portfolio!Present
<1>9. Portfolio!NoTaskFiles = NoTaskFiles
  BY <1>7 DEF NoTaskFiles, Portfolio!NoTaskFiles
<1>. QED
  BY <1>1, <1>2, <1>3, <1>5, <1>6, <1>8, <1>9

\* The frozen anchors of a running phase are those its commits promise.
LEMMA PhaseAnchors ==
    ASSUME IInv, worker = "in-pool", NEW k \in Phase(phase), NEW s
    PROVE  Commit(s, k, anchors) = Commit(s, k, AnchorSources(phase, Before(phase)))
<1>1. phase \in Phases
  BY DEF IInv, PoolWorksOnPhase
<1>2. CASE phase = 1
  <2>1. k.stage \notin AnchoredStages
    BY <1>2 DEF Phase, PhaseStages, AnchoredStages
  <2>. QED
    BY <2>1 DEF Commit
<1>3. CASE phase = 2
  BY <1>3, Generations DEF IInv, AnchorsComplete, AnchorSources, Commit
<1>4. CASE phase = 3
  BY <1>4, Generations DEF IInv, AnchorsComplete, AnchorSources, Commit
<1>. QED
  BY <1>1, <1>2, <1>3, <1>4 DEF Phases

\* A rename is a commit of the portfolio, or changes nothing.
LEMMA RenameCommits ==
    ASSUME IInv, NEW t \in Threads, RenameTask(t)
    PROVE  \/ Portfolio!CommitTask(phase, job[t], manifest)
           \/ UNCHANGED <<files, filesOnDevice>>
<1>1. /\ worker = "in-pool" /\ phase \in Phases /\ job[t] \in Phase(phase)
      /\ Before(phase) \subseteq Present(files)
  BY WorkingThread DEF RenameTask, IInv, PoolWorksOnPhase, DoneHasFiles
<1>2. \A j \in Present(files) : files[j].session = manifest
  BY DEF IInv, TasksBoundToManifest
<1>3. UNCHANGED filesOnDevice
  BY RenameAdds
<1>4. CASE files[job[t]] = Absent
  <2>1. files' = [files EXCEPT ![job[t]] = Commit(manifest, job[t], anchors)]
    BY <1>4 DEF RenameTask
  <2>. QED
    BY <1>1, <1>2, <1>3, <1>4, <2>1, PhaseAnchors,
       PortfolioOperators DEF Portfolio!CommitTask
<1>5. CASE files[job[t]] # Absent
  BY <1>3, <1>5 DEF RenameTask
<1>. QED
  BY <1>4, <1>5

\* Every step of a session is a step of the portfolio or leaves it alone.
LEMMA StepRefines == IInv /\ [Next]_vars => [Portfolio!Next]_(Portfolio!vars)
<1>. SUFFICES ASSUME IInv, [Next]_vars
              PROVE  Portfolio!Next \/ UNCHANGED <<files, filesOnDevice>>
  BY DEF Portfolio!vars
<1>1. CASE UNCHANGED vars
  BY <1>1 DEF vars, visible, device
<1>2. CASE Aside
  BY <1>2, AsideFrame DEF Portfolio!Next, Portfolio!Keep
<1>3. CASE Around
  BY <1>3, AroundFrame DEF Portfolio!Next, Portfolio!Keep
<1>4. CASE Ending
  BY <1>4, EndingFrame DEF Portfolio!Next, Portfolio!LosePower
<1>5. CASE Verify \/ StartPhase \/ EndPhase
  BY <1>5 DEF Verify, StartPhase, EndPhase, visible, device
<1>6. ASSUME NEW t \in Threads, Thread(t) \/ TaskError(t)
      PROVE  Portfolio!Next \/ UNCHANGED <<files, filesOnDevice>>
  <2>1. CASE RenameTask(t)
    <3>1. manifest \in Identities /\ phase \in Phases /\ job[t] \in Phase(phase)
      BY <2>1, WorkingThread DEF RenameTask
    <3>. QED
      BY <2>1, <3>1, RenameCommits, PortfolioOperators
         DEF Portfolio!Next
  <2>2. CASE SyncTask(t) \/ SyncSnapshot(t)
    BY <2>2 DEF SyncTask, SyncSnapshot, Persist, visible, Portfolio!Next,
         Portfolio!Keep
  <2>3. CASE TakeTask(t) \/ AddTask(t) \/ PublishSnapshot(t) \/ TaskError(t)
    BY <2>3 DEF TakeTask, AddTask, PublishSnapshot, TaskError, visible, device
  <2>. QED
    BY <1>6, <2>1, <2>2, <2>3 DEF Thread
<1>. QED
  BY <1>1, <1>2, <1>3, <1>4, <1>5, <1>6, StepCases

\* The session keeps the promise of ProgressivePortfolio: its task files, seen
\* and on the device, are a portfolio that only grows phase by phase.
THEOREM SessionKeepsPortfolio == Spec => KeepsPortfolio
<1>1. Init => Portfolio!Init
  BY PortfolioOperators DEF Init, Portfolio!Init
<1>. QED
  BY <1>1, StepRefines, SessionInvariant, PTL DEF Spec, KeepsPortfolio, Portfolio!Spec
-------------------------------------------------------------------------------
(* What snapshots and receipts report *)

Unverified == {"none", "prepare", "manifest-renamed", "verify"}
Verified == {"publish", "result-renamed", "validate", "next-phase", "in-pool"}
Locked == {"state-locked", "result-renamed"}

\* The owner of the state lock, and nobody else, publishes; what it publishes is all
\* that is done.
Locking ==
    \A t \in Threads :
        /\ at[t] \in Locked <=> mutex = t
        /\ at[t] \in Locked => view[t] = done
        /\ at[t] = "result-renamed" => result = done

\* The verification counts the files that the invocation found.
FoundIsCounted ==
    /\ worker \in Unverified => done = {}
    /\ worker \in Unverified \ {"none"} => found = Present(files)
    /\ worker = "publish" => done = Present(files)
    /\ worker \in Verified => found \subseteq done

\* A file is counted once it was synced.
SyncedIsDurable ==
    /\ CountedTasksAreDurable
    /\ Present(filesOnDevice) \subseteq Present(files)
    /\ \A t \in Threads : at[t] = "task-synced" => job[t] \in Present(filesOnDevice)

\* The snapshot is what is done, unless the lock is held or the phase has failed; once
\* validated it covers what was found.
SnapshotIsCurrent ==
    /\ worker \in {"result-renamed", "validate", "next-phase"} => result = done
    /\ worker = "in-pool" /\ mutex = Absent /\ ~failed => result = done
    /\ worker \in {"next-phase", "in-pool"} => validated
    /\ worker = "exited" /\ exit = "ok" => validated /\ result = Tasks
    /\ validated => /\ result # Absent
                    /\ found \subseteq result
                    /\ result \subseteq Present(files)

\* The receipt is written when the worker is gone.
ReceiptIsLast == supervisor = "reported" => worker = "none"

ReportInv ==
    /\ Locking /\ FoundIsCounted /\ SyncedIsDurable /\ SnapshotIsCurrent
    /\ ReceiptIsLast /\ ReceiptTellsTheTruth

\* With one journal a snapshot never leads, and later ones are no smaller.
SnapshotIsCounted ==
    SharedJournal =>
        /\ SnapshotHasFiles
        /\ worker \in Verified /\ result # Absent => result \subseteq done

\* Outside a running phase no thread works.
LEMMA IdlePool ==
    ASSUME IInv, worker # "in-pool"
    PROVE  \A t \in Threads : at[t] = "idle"
BY DEF IInv, PoolWorksOnPhase

LEMMA LockingStep == ASSUME IInv, ReportInv, Next PROVE Locking'
<1>. USE DEF ReportInv, Locking, Locked
<1>1. CASE Aside \/ Verify \/ StartPhase \/ EndPhase
  <2>1. \A t \in Threads : at[t] = "idle"
    BY <1>1, AsideFrame, IdlePool DEF Verify, StartPhase, EndPhase
  <2>2. UNCHANGED <<at, mutex>>
    BY <1>1 DEF Aside, CreateManifest, SyncManifest, ResumeManifest, PublishVerified,
         SyncVerified, Validate, Finish, WorkerError, Verify, StartPhase, EndPhase, pool
  <2>. QED
    BY <2>1, <2>2
<1>2. CASE Around
  BY <1>2 DEF Around, Invoke, Stop, CrashSupervisor, Writeback, visible, pool
<1>3. CASE Ending
  <2>1. mutex' = Absent
    BY <1>3 DEF Ending, Report, KillOrphan, LosePower, WorkerGone
  <2>. QED
    BY <1>3, <2>1, EndingFrame, SessionAssumption
<1>4. ASSUME NEW t \in Threads, Thread(t) \/ TaskError(t) PROVE Locking'
  <2>0. at \in [Threads -> ThreadStates] /\ view \in [Threads -> SUBSET Tasks] /\ Absent \notin Threads
    BY SessionAssumption DEF IInv, TypeOK
  <2>. USE <2>0 DEF Goes, InPool, visible
  <2>1. CASE TakeTask(t) BY <2>1 DEF TakeTask
  <2>2. CASE RenameTask(t) BY <2>2 DEF RenameTask
  <2>3. CASE SyncTask(t) BY <2>3 DEF SyncTask
  <2>4. CASE AddTask(t) BY <2>4 DEF AddTask
  <2>5. CASE PublishSnapshot(t) BY <2>5 DEF PublishSnapshot
  <2>6. CASE SyncSnapshot(t) BY <2>6 DEF SyncSnapshot
  <2>7. CASE TaskError(t) BY <2>7 DEF TaskError
  <2>. QED
    BY <1>4, <2>1, <2>2, <2>3, <2>4, <2>5, <2>6, <2>7 DEF Thread
<1>. QED
  BY StepCases, <1>1, <1>2, <1>3, <1>4

LEMMA FoundIsCountedStep == ASSUME IInv, ReportInv, Next PROVE FoundIsCounted'
<1>. USE DEF ReportInv, FoundIsCounted, Unverified, Verified
<1>1. CASE Aside
  BY <1>1 DEF Aside, CreateManifest, SyncManifest, ResumeManifest, PublishVerified,
       SyncVerified, Validate, Finish, WorkerError, Fail, Unsupervised, Present,
       visible, pool, super
<1>2. CASE Around
  BY <1>2 DEF Around, Invoke, Stop, CrashSupervisor, Writeback, Present, visible,
       main, pool, super
<1>3. CASE Ending
  BY <1>3, EndingFrame
<1>4. CASE Verify \/ StartPhase \/ EndPhase
  BY <1>4 DEF Verify, StartPhase, EndPhase, Fail, Unsupervised, Present, visible, pool, super
<1>5. ASSUME NEW t \in Threads, Thread(t) \/ TaskError(t) PROVE FoundIsCounted'
  <2>1. worker = "in-pool" /\ UNCHANGED <<worker, found>>
    BY <1>5, WorkingThread DEF Thread, TakeTask, RenameTask, SyncTask, AddTask,
         PublishSnapshot, SyncSnapshot, TaskError, Goes, InPool, main, super
  <2>2. done \subseteq done'
    BY <1>5 DEF Thread, TakeTask, RenameTask, SyncTask, AddTask, PublishSnapshot,
         SyncSnapshot, TaskError
  <2>. QED
    BY <2>1, <2>2
<1>. QED
  BY StepCases, <1>1, <1>2, <1>3, <1>4, <1>5

LEMMA SyncedIsDurableStep == ASSUME IInv, ReportInv, Next PROVE SyncedIsDurable'
<1>. USE DEF ReportInv, SyncedIsDurable, CountedTasksAreDurable, Present
<1>1. CASE Aside
  BY <1>1, AsideFrame DEF Aside, CreateManifest, SyncManifest, ResumeManifest,
       PublishVerified, SyncVerified, Validate, Finish, WorkerError, Unsupervised, super
<1>2. CASE Around
  <2>1. CASE \E id \in Identities : Invoke(id)
    <3>1. done = {}
      BY <2>1 DEF Invoke, FoundIsCounted, Unverified
    <3>. QED
      BY <2>1, <3>1 DEF Invoke, visible, device, pool
  <2>2. CASE Stop \/ CrashSupervisor \/ Writeback
    BY <2>2 DEF Stop, CrashSupervisor, Writeback, Persist, visible, device, pool, super
  <2>. QED
    BY <1>2, <2>1, <2>2 DEF Around
<1>3. CASE Ending
  BY <1>3, EndingFrame
<1>4. CASE Verify
  BY <1>4 DEF Verify, FoundIsCounted, Unverified, Unsupervised, visible, device, super
<1>5. CASE StartPhase \/ EndPhase
  BY <1>5 DEF StartPhase, EndPhase, Unsupervised, visible, device, pool, super
<1>6. ASSUME NEW t \in Threads, Thread(t) \/ TaskError(t) PROVE SyncedIsDurable'
  <2>. USE ThreadFunctions DEF Goes, InPool, super
  <2>1. CASE TakeTask(t) BY <2>1 DEF TakeTask, visible, device
  <2>2. CASE RenameTask(t)
    BY <2>2, RenameAdds, AbsentAssumption DEF RenameTask
  <2>3. CASE SyncTask(t)
    BY <2>3 DEF SyncTask, Persist, visible, IInv, DoneHasFiles
  <2>4. CASE AddTask(t) BY <2>4 DEF AddTask, visible, device
  <2>5. CASE PublishSnapshot(t) BY <2>5 DEF PublishSnapshot, device
  <2>6. CASE SyncSnapshot(t) BY <2>6 DEF SyncSnapshot, Persist, visible
  <2>7. CASE TaskError(t) BY <2>7 DEF TaskError, visible, device
  <2>. QED
    BY <1>6, <2>1, <2>2, <2>3, <2>4, <2>5, <2>6, <2>7 DEF Thread
<1>. QED
  BY StepCases, <1>1, <1>2, <1>3, <1>4, <1>5, <1>6

\* No snapshot is not a snapshot of nothing.
LEMMA SnapshotExists == ASSUME NEW S \in SUBSET Tasks PROVE S # Absent
BY SessionAssumption

\* The last phase done, everything is.
LEMMA PhasesAreTasks == Before(4) = Tasks
BY DEF Before, Phases, Tasks

LEMMA SnapshotIsCurrentStep == ASSUME IInv, ReportInv, Next PROVE SnapshotIsCurrent'
<1>. USE DEF ReportInv, SnapshotIsCurrent, Present, Verified
<1>0. /\ done \subseteq Tasks /\ done \subseteq Present(files)
      /\ SessionAssumption
  BY SessionAssumption DEF IInv, TypeOK, DoneHasFiles
<1>1. CASE Aside
  <2>. USE DEF Unsupervised, Fail, visible, pool, super
  <2>1. CASE CreateManifest BY <2>1 DEF CreateManifest
  <2>2. CASE SyncManifest BY <2>2 DEF SyncManifest
  <2>3. CASE ResumeManifest BY <2>3 DEF ResumeManifest
  <2>4. CASE PublishVerified
    BY <1>0, <2>4, SnapshotExists DEF PublishVerified, FoundIsCounted
  <2>5. CASE SyncVerified BY <2>5 DEF SyncVerified
  <2>6. CASE Validate
    BY <1>0, <2>6, SnapshotExists DEF Validate, FoundIsCounted
  <2>7. CASE Finish
    <3>1. done = Tasks
      BY <1>0, <2>7, PhasesAreTasks DEF Finish, IInv, PoolWorksOnPhase
    <3>. QED
      BY <2>7, <3>1 DEF Finish
  <2>8. CASE WorkerError BY <2>8 DEF WorkerError
  <2>. QED
    BY <1>1, <2>1, <2>2, <2>3, <2>4, <2>5, <2>6, <2>7, <2>8 DEF Aside
<1>2. CASE Around
  BY <1>2 DEF Around, Invoke, Stop, CrashSupervisor, Writeback, visible, main, pool, super
<1>3. CASE Ending
  BY <1>3 DEF Ending, Report, KillOrphan, LosePower, WorkerGone, visible, super
<1>4. CASE Verify
  BY <1>4 DEF Verify, Fail, Unsupervised, visible, super
<1>5. CASE StartPhase
  BY <1>5 DEF StartPhase, Unsupervised, visible, super
<1>6. CASE EndPhase
  <2>1. mutex = Absent
    BY <1>6 DEF EndPhase, Locking, Locked, IInv, TypeOK
  <2>. QED
    BY <1>6, <2>1 DEF EndPhase, Fail, Unsupervised, visible, pool, super
<1>7. ASSUME NEW t \in Threads, Thread(t) \/ TaskError(t) PROVE SnapshotIsCurrent'
  <2>. USE ThreadFunctions DEF Goes, InPool, main, super
  <2>0. worker = "in-pool" /\ UNCHANGED <<worker, exit, found, validated>>
    BY <1>7, WorkingThread DEF Thread, TakeTask, RenameTask, SyncTask, AddTask,
         PublishSnapshot, SyncSnapshot, TaskError
  <2>1. CASE TakeTask(t) BY <2>0, <2>1 DEF TakeTask, visible
  <2>2. CASE RenameTask(t)
    <3>1. Present(files) \subseteq Present(files')
      BY <2>2, RenameAdds, AbsentAssumption
    <3>. QED
      BY <2>0, <2>2, <3>1 DEF RenameTask
  <2>3. CASE SyncTask(t) BY <2>0, <2>3 DEF SyncTask, visible
  <2>4. CASE AddTask(t) BY <2>0, <2>4, <1>0 DEF AddTask, visible
  <2>5. CASE PublishSnapshot(t)
    <3>1. result' = done /\ found \subseteq done /\ mutex = t
      BY <2>0, <2>5 DEF PublishSnapshot, Locking, Locked, FoundIsCounted
    <3>. QED
      BY <1>0, <2>0, <2>5, <3>1, SnapshotExists DEF PublishSnapshot
  <2>6. CASE SyncSnapshot(t)
    BY <2>0, <2>6 DEF SyncSnapshot, visible, Locking
  <2>7. CASE TaskError(t) BY <2>0, <2>7 DEF TaskError, visible
  <2>. QED
    BY <1>7, <2>1, <2>2, <2>3, <2>4, <2>5, <2>6, <2>7 DEF Thread
<1>. QED
  BY StepCases, <1>1, <1>2, <1>3, <1>4, <1>5, <1>6, <1>7

\* While the worker runs there is no receipt yet.
LEMMA ReceiptIsLastStep == ASSUME IInv, ReportInv, Next PROVE ReceiptIsLast'
<1>. USE DEF ReportInv, ReceiptIsLast
<1>1. CASE Aside
  BY <1>1 DEF Aside, CreateManifest, SyncManifest, ResumeManifest, PublishVerified,
       SyncVerified, Validate, Finish, WorkerError, Unsupervised, super
<1>2. CASE Around
  BY <1>2 DEF Around, Invoke, Stop, CrashSupervisor, Writeback, main, super
<1>3. CASE Ending
  BY <1>3, EndingFrame
<1>4. CASE Verify \/ StartPhase \/ EndPhase
  BY <1>4 DEF Verify, StartPhase, EndPhase, Unsupervised, super
<1>5. ASSUME NEW t \in Threads, Thread(t) \/ TaskError(t) PROVE ReceiptIsLast'
  <2>1. worker = "in-pool" /\ UNCHANGED supervisor
    BY <1>5, WorkingThread DEF Thread, TakeTask, RenameTask, SyncTask, AddTask,
         PublishSnapshot, SyncSnapshot, TaskError, Goes, InPool, super
  <2>. QED
    BY <2>1
<1>. QED
  BY StepCases, <1>1, <1>2, <1>3, <1>4, <1>5

\* What Report writes is true of the files it leaves.
LEMMA ReportIsTrue == ASSUME IInv, ReportInv, Report PROVE ReceiptTellsTheTruth'
<1>. DEFINE snapshot == IF validated /\ result # Absent THEN result ELSE {}
<1>1. /\ receipt'.verified = validated
      /\ receipt'.tasks = snapshot
      /\ receipt'.reason = "completed" => worker = "exited" /\ exit = "ok"
      /\ receipt'.complete => snapshot = Tasks
      /\ worker = "exited" /\ exit = "ok" /\ snapshot = Tasks => receipt'.complete
      /\ UNCHANGED <<files, found>>
  BY DEF Report, visible
<1>2. /\ validated => snapshot = result /\ found \subseteq result
                      /\ result \subseteq Present(files)
      /\ ~validated => snapshot = {}
      /\ worker = "exited" /\ exit = "ok" => snapshot = Tasks
  BY DEF ReportInv, SnapshotIsCurrent
<1>3. Tasks # {}
  <2>1. PICK w \in Windows : TRUE
    BY SessionAssumption
  <2>2. [stage |-> "quick", window |-> w] \in Phase(1)
    BY <2>1 DEF Phase, PhaseStages
  <2>. QED
    BY <2>2, PhaseIsTasks DEF Phases
<1>4. Present(files) \subseteq Tasks
  BY DEF Present
<1>. HIDE DEF snapshot
<1>5. receipt'.complete => Present(files) = Tasks
  BY <1>1, <1>2, <1>3, <1>4
<1>. QED
  BY <1>1, <1>2, <1>5 DEF ReceiptTellsTheTruth, Present

LEMMA ReceiptTellsTheTruthStep ==
    ASSUME IInv, ReportInv, Next PROVE ReceiptTellsTheTruth'
<1>1. CASE Report
  BY <1>1, ReportIsTrue
<1>2. CASE supervisor = "reported" /\ supervisor' = "reported" /\ ~Report
  <2>1. worker = "none"
    BY <1>2 DEF ReportInv, ReceiptIsLast
  <2>2. ~\E t \in Threads : Thread(t) \/ TaskError(t)
    BY <2>1, WorkingThread DEF Thread, TakeTask, RenameTask, SyncTask, AddTask,
         PublishSnapshot, SyncSnapshot, TaskError, Goes
  <2>3. ~Aside /\ ~Verify /\ ~StartPhase /\ ~EndPhase
    BY <2>1 DEF Aside, CreateManifest, SyncManifest, ResumeManifest, PublishVerified,
         SyncVerified, Validate, Finish, WorkerError, Verify, StartPhase, EndPhase
  <2>4. Writeback
    BY <1>2, <2>2, <2>3, StepCases DEF Around, Ending, Invoke, Stop, CrashSupervisor,
         KillOrphan, LosePower
  <2>. QED
    BY <1>2, <2>4 DEF Writeback, ReportInv, ReceiptTellsTheTruth, Present, visible, super
<1>3. supervisor' = "reported" => supervisor = "reported" \/ Report
  <2>1. \A t \in Threads : Thread(t) \/ TaskError(t) => UNCHANGED supervisor
    BY DEF Thread, TakeTask, RenameTask, SyncTask, AddTask, PublishSnapshot,
         SyncSnapshot, TaskError, InPool, super
  <2>2. Aside \/ Verify \/ StartPhase \/ EndPhase => UNCHANGED supervisor
    BY DEF Aside, CreateManifest, SyncManifest, ResumeManifest, PublishVerified,
         SyncVerified, Validate, Finish, WorkerError, Verify, StartPhase, EndPhase,
         Unsupervised, super
  <2>. QED
    BY <2>1, <2>2, StepCases DEF Around, Ending, Invoke, Stop, CrashSupervisor,
         Writeback, KillOrphan, LosePower, super
<1>. QED
  BY <1>1, <1>2, <1>3 DEF ReceiptTellsTheTruth

LEMMA InitReports == Init => ReportInv
<1>. SUFFICES ASSUME Init PROVE ReportInv
  OBVIOUS
<1>1. \A t \in Threads : at[t] = "idle" /\ mutex # t
  BY SessionAssumption DEF Init
<1>2. Present(filesOnDevice) = Present(files)
  BY DEF Init
<1>3. Locking /\ SyncedIsDurable
  BY <1>1, <1>2 DEF Init, Locking, Locked, SyncedIsDurable, CountedTasksAreDurable
<1>4. FoundIsCounted /\ SnapshotIsCurrent /\ ReceiptIsLast /\ ReceiptTellsTheTruth
  BY DEF Init, FoundIsCounted, Unverified, Verified, SnapshotIsCurrent, ReceiptIsLast,
      ReceiptTellsTheTruth
<1>. QED
  BY <1>3, <1>4 DEF ReportInv

LEMMA NextReports == IInv /\ ReportInv /\ [Next]_vars => ReportInv'
<1>. SUFFICES ASSUME IInv, ReportInv, [Next]_vars PROVE ReportInv'
  OBVIOUS
<1>1. CASE UNCHANGED vars
  BY <1>1 DEF vars, visible, device, main, pool, super, faults, ReportInv, Locking,
       FoundIsCounted, SyncedIsDurable, CountedTasksAreDurable, SnapshotIsCurrent,
       ReceiptIsLast, ReceiptTellsTheTruth, Present
<1>2. CASE Next
  BY <1>2, LockingStep, FoundIsCountedStep, SyncedIsDurableStep, SnapshotIsCurrentStep,
     ReceiptIsLastStep, ReceiptTellsTheTruthStep DEF ReportInv
<1>. QED
  BY <1>1, <1>2

LEMMA ReportInvariant == Spec => []ReportInv
BY InitReports, NextReports, SessionInvariant, PTL DEF Spec

\* A receipt never promises more than the files beside it hold, and one that says
\* "completed" is complete: whoever was killed, stopped or cut off before, and however
\* the threads of the pool took turns at the state lock.
THEOREM SessionReceipts == Spec => []ReceiptTellsTheTruth
<1>1. ReportInv => ReceiptTellsTheTruth
  BY DEF ReportInv
<1>. QED
  BY <1>1, ReportInvariant, PTL

\* What an invocation adds to its count outlives a power loss, on any filesystem.
THEOREM SessionDurability == Spec => []CountedTasksAreDurable
<1>1. ReportInv => CountedTasksAreDurable
  BY DEF ReportInv, SyncedIsDurable
<1>. QED
  BY <1>1, ReportInvariant, PTL

\* A step publishes no less than the snapshot before it, and never a task without its
\* file on the same image.
SnapshotFollows ==
    /\ SnapshotIsCounted'
    /\ result # Absent /\ powerLosses' = powerLosses
         => result' # Absent /\ result \subseteq result'

LEMMA SnapshotFollowsStep ==
    ASSUME SharedJournal = TRUE, IInv, ReportInv, SnapshotIsCounted, Next
    PROVE  SnapshotFollows
<1>. USE DEF SnapshotFollows, SnapshotIsCounted, SnapshotHasFiles, Present, Verified
<1>0. done \subseteq Tasks /\ done \subseteq Present(files) /\ powerLosses \in Nat
  BY SessionAssumption DEF IInv, TypeOK, DoneHasFiles
<1>1. CASE Aside
  <2>. USE DEF Unsupervised, Fail, Persist, visible, device, pool
  <2>1. CASE CreateManifest BY <2>1 DEF CreateManifest
  <2>2. CASE SyncManifest BY <2>2 DEF SyncManifest
  <2>3. CASE ResumeManifest BY <2>3 DEF ResumeManifest
  <2>4. CASE PublishVerified BY <1>0, <2>4, SnapshotExists DEF PublishVerified
  <2>5. CASE SyncVerified BY <2>5 DEF SyncVerified
  <2>6. CASE Validate BY <2>6 DEF Validate
  <2>7. CASE Finish BY <2>7 DEF Finish
  <2>8. CASE WorkerError BY <2>8 DEF WorkerError
  <2>. QED
    BY <1>1, <2>1, <2>2, <2>3, <2>4, <2>5, <2>6, <2>7, <2>8 DEF Aside
<1>2. CASE Around
  BY <1>2 DEF Around, Invoke, Stop, CrashSupervisor, Writeback, Persist, visible, device,
       main, pool
<1>3. CASE Report \/ KillOrphan
  BY <1>3 DEF Report, KillOrphan, WorkerGone, visible, device
<1>4. CASE LosePower
  BY <1>0, <1>4 DEF LosePower, WorkerGone, device
<1>5. CASE Verify \/ StartPhase \/ EndPhase
  BY <1>5 DEF Verify, StartPhase, EndPhase, Fail, Unsupervised, visible, device, pool
<1>6. ASSUME NEW t \in Threads, Thread(t) \/ TaskError(t) PROVE SnapshotFollows
  <2>. USE ThreadFunctions DEF Goes, InPool, main, super
  <2>0. worker = "in-pool" /\ UNCHANGED worker
    BY <1>6, WorkingThread DEF Thread, TakeTask, RenameTask, SyncTask, AddTask,
         PublishSnapshot, SyncSnapshot, TaskError
  <2>1. CASE TakeTask(t) BY <2>0, <2>1 DEF TakeTask, visible, device
  <2>2. CASE RenameTask(t)
    <3>1. Present(files) \subseteq Present(files')
      BY <2>2, RenameAdds, AbsentAssumption
    <3>. QED
      BY <2>0, <2>2, <3>1 DEF RenameTask, device
  <2>3. CASE SyncTask(t) BY <2>0, <2>3 DEF SyncTask, Persist, visible
  <2>4. CASE AddTask(t) BY <2>0, <2>4 DEF AddTask, visible, device
  <2>5. CASE PublishSnapshot(t)
    <3>1. result' = done
      BY <2>5 DEF PublishSnapshot, ReportInv, Locking, Locked
    <3>. QED
      BY <1>0, <2>0, <2>5, <3>1, SnapshotExists DEF PublishSnapshot, device
  <2>6. CASE SyncSnapshot(t) BY <2>0, <2>6 DEF SyncSnapshot, Persist, visible
  <2>7. CASE TaskError(t) BY <2>0, <2>7 DEF TaskError, visible, device
  <2>. QED
    BY <1>6, <2>1, <2>2, <2>3, <2>4, <2>5, <2>6, <2>7 DEF Thread
<1>. QED
  BY StepCases, <1>1, <1>2, <1>3, <1>4, <1>5, <1>6 DEF Ending

\* With one metadata journal, result.json only grows until power is lost, and reports
\* no task whose file a reader of the same image would miss.
THEOREM SessionSnapshots ==
    ASSUME SharedJournal = TRUE
    PROVE  Spec => SnapshotFollowsFiles
<1>1. Init => SnapshotIsCounted
  BY DEF Init, SnapshotIsCounted, SnapshotHasFiles, Verified
<1>2. IInv /\ ReportInv /\ SnapshotIsCounted /\ [Next]_vars
        => SnapshotIsCounted'
  <2>1. ASSUME SnapshotIsCounted, UNCHANGED vars PROVE SnapshotIsCounted'
    BY <2>1 DEF vars, visible, device, main, pool, SnapshotIsCounted, SnapshotHasFiles,
         Present
  <2>. QED
    BY <2>1, SnapshotFollowsStep DEF SnapshotFollows
<1>3. IInv /\ ReportInv /\ SnapshotIsCounted /\ [Next]_vars
        => [/\ SnapshotHasFiles'
            /\ result # Absent /\ powerLosses' = powerLosses
                 => result' # Absent /\ result \subseteq result']_vars
  BY SnapshotFollowsStep DEF SnapshotFollows, SnapshotIsCounted
<1>. QED
  BY <1>1, <1>2, <1>3, SessionInvariant, ReportInvariant, PTL
     DEF Spec, SnapshotFollowsFiles
===============================================================================
