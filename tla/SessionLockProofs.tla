--------------------------- MODULE SessionLockProofs ---------------------------
(***************************************************************************)
(* For every number of invocations, the session lock admits one worker,    *)
(* and a supervisor reads a session that nobody changes.  The argument is  *)
(* that whoever relies on the lock has the locked file open itself, so     *)
(* that nobody else's closing can unlock it.                               *)
(***************************************************************************)
EXTENDS SessionLock, TLAPS

\* Supervisors and workers that take their lock for granted.
Guarding(i) == supervisor[i] \in {"locked", "spawning", "watching", "stopping", "reaped"}
Entitled(i) == worker[i] \in {"checked", "serving"}

\* The part of the types that matters here.
LockTypes ==
    /\ DOMAIN supervisor = Invocations /\ supervisor = [i \in Invocations |-> supervisor[i]]
    /\ DOMAIN worker = Invocations /\ worker = [i \in Invocations |-> worker[i]]
    /\ has \in [Invocations -> SUBSET Processes]

\* Their invocation is the locked one, and they have its file open.
HoldersKeepLock ==
    \A i \in Invocations :
        /\ supervisor[i] = "opened" => "supervisor" \in has[i]
        /\ Guarding(i) => lock = i /\ "supervisor" \in has[i]
        /\ Entitled(i) => lock = i /\ "worker" \in has[i]

\* A supervisor has no worker before it starts and after its clean-up.
NoWorkerAround ==
    \A i \in Invocations : supervisor[i] \in {"idle", "reaped"} => worker[i] = "none"

LockInv == LockTypes /\ HoldersKeepLock /\ NoWorkerAround
-------------------------------------------------------------------------------
(* The kernel's steps *)

\* Closing the file in one process leaves it locked while another has it open.
LEMMA ClosesKeepsLock ==
    ASSUME LockTypes, NEW i \in Invocations, NEW p \in Processes, Closes(i, p)
    PROVE  /\ has' \in [Invocations -> SUBSET Processes]
           /\ \A j \in Invocations, q \in Processes :
                 q \in has[j] /\ ~(j = i /\ q = p) => q \in has'[j]
           /\ \A j \in Invocations, q \in Processes :
                 lock = j /\ q \in has[j] /\ ~(j = i /\ q = p) => lock' = j
BY DEF LockTypes, Closes

\* fork only adds to who has the file open.
LEMMA ForksKeepsLock ==
    ASSUME LockTypes, NEW i \in Invocations, NEW p \in Processes, NEW parent, NEW steps,
           Forks(i, p, parent, steps)
    PROVE  /\ has' \in [Invocations -> SUBSET Processes]
           /\ \A j \in Invocations : has[j] \subseteq has'[j]
           /\ lock' = lock
BY DEF LockTypes, Forks

LEMMA ExecsKeepsLock ==
    ASSUME LockTypes, NEW i \in Invocations, NEW p \in {"worker", "codec"}, Execs(i, p)
    PROVE  /\ has' \in [Invocations -> SUBSET Processes]
           /\ \A j \in Invocations, q \in Processes :
                 q \in has[j] /\ ~(j = i /\ q = p) => q \in has'[j]
           /\ \A j \in Invocations, q \in Processes :
                 lock = j /\ q \in has[j] /\ ~(j = i /\ q = p) => lock' = j
<1>1. p \in Processes
  BY DEF Processes
<1>2. CASE inherited[i]
  BY <1>2 DEF LockTypes, Execs, file
<1>3. CASE ~inherited[i]
  <2>1. Closes(i, p)
    BY <1>3 DEF Execs
  <2> QED
    BY <1>1, <2>1, ClosesKeepsLock
<1> QED
  BY <1>2, <1>3
-------------------------------------------------------------------------------
(* The invariant *)

LEMMA LockInvInit == Init => LockInv
BY DEF Init, LockInv, LockTypes, HoldersKeepLock, NoWorkerAround, Guarding, Entitled

LEMMA LockInvStep == LockInv /\ [Next]_vars => LockInv'
<1> SUFFICES ASSUME LockInv, [Next]_vars PROVE LockInv'
  OBVIOUS
<1> USE DEF LockInv, LockTypes, HoldersKeepLock, NoWorkerAround, Guarding, Entitled
<1>0. {"supervisor", "worker", "codec"} \subseteq Processes
  BY DEF Processes
<1>1. CASE UNCHANGED vars
  BY <1>1 DEF vars, file, signals
<1>2. ASSUME NEW i \in Invocations, Open(i) PROVE LockInv'
  BY <1>0, <1>2 DEF Open
<1>3. ASSUME NEW i \in Invocations, Lock(i) PROVE LockInv'
  <2>1. CASE lock = Absent
    BY <1>3, <2>1, InvocationAssumption DEF Lock
  <2>2. CASE lock # Absent
    <3>1. Closes(i, "supervisor") /\ supervisor' = [supervisor EXCEPT ![i] = "closed"]
          /\ UNCHANGED worker
      BY <1>3, <2>2 DEF Lock
    <3> QED
      BY <1>0, <3>1, ClosesKeepsLock
  <2> QED
    BY <2>1, <2>2
<1>4. ASSUME NEW i \in Invocations, SpawnWorker(i) PROVE LockInv'
  BY <1>0, <1>4, ForksKeepsLock DEF SpawnWorker
<1>5. ASSUME NEW i \in Invocations, Spawned(i) PROVE LockInv'
  BY <1>5 DEF Spawned, file
<1>6. ASSUME NEW i \in Invocations, NotSpawned(i) PROVE LockInv'
  BY <1>0, <1>6, ClosesKeepsLock DEF NotSpawned
<1>7. ASSUME NEW i \in Invocations, KillWorker(i) PROVE LockInv'
  BY <1>7 DEF KillWorker, KillsWorker, file
<1>8. ASSUME NEW i \in Invocations, Reap(i) PROVE LockInv'
  BY <1>8 DEF Reap, file
<1>9. ASSUME NEW i \in Invocations, CloseSupervisor(i) PROVE LockInv'
  BY <1>0, <1>9, ClosesKeepsLock DEF CloseSupervisor
<1>10. ASSUME NEW i \in Invocations, EndSupervisor(i) PROVE LockInv'
  BY <1>10 DEF EndSupervisor, file
<1>11. ASSUME NEW i \in Invocations, NEW p \in {"worker", "codec"}, SetUp(i, p)
       PROVE  LockInv'
  BY <1>11 DEF SetUp
<1>12. ASSUME NEW i \in Invocations, ExecWorker(i) PROVE LockInv'
  BY <1>0, <1>12, ExecsKeepsLock DEF ExecWorker, Execs
<1>13. ASSUME NEW i \in Invocations, CheckLock(i) PROVE LockInv'
  BY <1>13, InvocationAssumption DEF CheckLock, WorkerRuns
<1>14. ASSUME NEW i \in Invocations, KeepPrivate(i) PROVE LockInv'
  BY <1>14 DEF KeepPrivate, WorkerRuns
<1>15. ASSUME NEW i \in Invocations, CloseWorker(i) PROVE LockInv'
  BY <1>0, <1>15, ClosesKeepsLock DEF CloseWorker
<1>16. ASSUME NEW i \in Invocations, EndWorker(i) PROVE LockInv'
  BY <1>16 DEF EndWorker, file
<1>17. ASSUME NEW i \in Invocations, RunCodec(i) PROVE LockInv'
  BY <1>0, <1>17, ForksKeepsLock DEF RunCodec
<1>18. ASSUME NEW i \in Invocations, ExecCodec(i) PROVE LockInv'
  BY <1>0, <1>18, ExecsKeepsLock DEF ExecCodec, Execs
<1>19. ASSUME NEW i \in Invocations, RunHelper(i) PROVE LockInv'
  BY <1>19 DEF RunHelper, Processes
<1>20. ASSUME NEW i \in Invocations, CloseCodec(i) PROVE LockInv'
  BY <1>0, <1>20, ClosesKeepsLock DEF CloseCodec
<1>21. ASSUME NEW i \in Invocations, EndCodec(i) PROVE LockInv'
  BY <1>21 DEF EndCodec, file
<1> QED
  BY <1>1, <1>2, <1>3, <1>4, <1>5, <1>6, <1>7, <1>8, <1>9, <1>10, <1>11, <1>12, <1>13,
     <1>14, <1>15, <1>16, <1>17, <1>18, <1>19, <1>20, <1>21 DEF Next

LEMMA LockInvariant == Spec => []LockInv
BY LockInvInit, LockInvStep, PTL DEF Spec
-------------------------------------------------------------------------------
(* The theorems *)

\* However many invocations overlap, one worker at a time changes the session:
\* two would both be the locked invocation.
THEOREM LockExcludes == Spec => []AtMostOneWorker
<1>1. LockInv => AtMostOneWorker
  BY DEF LockInv, HoldersKeepLock, Entitled, AtMostOneWorker, Serves
<1> QED
  BY <1>1, LockInvariant, PTL

\* A receipt is written from a session at rest: the supervisor still holds the
\* lock, and its own worker is reaped.
THEOREM LockCoversReceipt == Spec => []ReceiptReadsQuietSession
<1>1. LockInv => ReceiptReadsQuietSession
  BY DEF LockInv, HoldersKeepLock, NoWorkerAround, Guarding, Entitled,
         ReceiptReadsQuietSession, Serves
<1> QED
  BY <1>1, LockInvariant, PTL
===============================================================================
