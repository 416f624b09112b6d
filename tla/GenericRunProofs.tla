--------------------------- MODULE GenericRunProofs ---------------------------
(***************************************************************************)
(* For any schedule, recording, pool, and numbers of runs and faults.      *)
(*                                                                         *)
(* If metadata show every change, the windows of a run directory are of    *)
(* the recording its contract names (SourceInv).  If moreover an fsync     *)
(* makes all earlier renames durable, a seal is whole and final (SealInv). *)
(* Under that second assumption alone, nothing published is lost (KeptInv).*)
(***************************************************************************)
EXTENDS GenericRun, TLAPS

\* Places where nothing is known of the recording; before the contract is written;
\* while a resume takes over; and once all windows are returned.
Unknown  == {"none", "opened", "hash", "failing", "sync-failure"}
Fresh    == {"none", "opened", "hash", "load", "read", "recheck", "authenticate", "contract"}
Opened   == {"attempt", "sync-attempt", "retire-result", "retire-journal", "sync-retired"}
Begun    == (Fresh \ {"none", "opened"}) \cup {"sync-contract", "scan"} \cup Opened
Merging  == {"final", "compare", "journal", "sync-journal", "result", "sync-result",
             "completion", "sync-completion", "finish"}

\* Types, and what they need.
FilesTyped == live \in Images /\ disk \in Images /\ published \subseteq Artifacts
SealableTyped ==
    /\ at \in {"sync-journal", "result", "sync-result", "completion"} => live.journal # Absent
    /\ at \in {"sync-result", "completion"} => live.result # Absent
PlaceTyped ==
    /\ at \in {"none", "opened", "hash", "load", "read", "recheck", "authenticate",
               "scan", "pool", "abort", "final", "compare", "failing"} \cup Writing \cup Syncing
    /\ run \in 0 .. MaxRuns
    /\ at # "none" => run \in Runs
ClocksTyped ==
    /\ content \in Contents /\ stamp \in 0 .. MaxChanges /\ audio \in BOOLEAN
    /\ guard \in 0 .. MaxChanges /\ changes \in 0 .. MaxChanges
    /\ guard <= stamp /\ stamp <= changes
MemoryTyped ==
    /\ {source, before, pcm} \subseteq Contents \cup {Absent}
    /\ cached \in [Windows -> Contents \cup {Absent}]
    /\ sealed \in BOOLEAN
    /\ at \notin Unknown => source \in Contents
    /\ at \notin Unknown \cup {"load", "read"} /\ audio => pcm \in Contents
PoolTyped ==
    /\ stage \in [Windows -> {"todo", "read", "check", "write", "sync", "marked", "returned"}]
    /\ got \in [Windows -> Decoded \cup {"error", Absent}]
    /\ \A w \in Windows :
          /\ at = "pool" /\ stage[w] \in {"check", "returned"} => got[w] # Absent
          /\ at = "pool" /\ stage[w] \in {"write", "sync"} => got[w] \in Contents
          /\ at = "pool" /\ stage[w] = "marked" => got[w] = "error"
          /\ at \in Begun \cup {"none", "opened"} => stage[w] = "todo"
    /\ at \in Merging => got \in [Windows -> Decoded]
CountersTyped ==
    /\ outcome \in {"none", "complete", "failed", "error", "killed"}
    /\ kills \in 0 .. MaxKills /\ errors \in 0 .. MaxErrors
    /\ powerLosses \in 0 .. MaxPowerLosses

TypeInv ==
    FilesTyped /\ SealableTyped /\ PlaceTyped /\ ClocksTyped /\ MemoryTyped /\ PoolTyped /\ CountersTyped
-------------------------------------------------------------------------------
(* Images *)

LEMMA Bounds ==
    /\ Absent \notin Contents \cup {"failures", "error"}
    /\ "failures" \notin Contents /\ "error" \notin Contents
    /\ MaxRuns \in Nat \ {0} /\ MaxKills \in Nat /\ MaxErrors \in Nat
    /\ MaxChanges \in Nat /\ MaxPowerLosses \in Nat
    /\ ExactMetadata \in BOOLEAN /\ SharedJournal \in BOOLEAN
    /\ Runs = 1 .. MaxRuns /\ Decoded = Contents \cup {"failures"}
BY RunAssumption DEF Runs, Decoded

\* An invalidated run is a run.
LEMMA Marked == ASSUME live \in Images PROVE [live EXCEPT !.marker = TRUE] \in Images
BY DEF Images

\* An fsync brings parts of the device's image up to date.
LEMMA Persisted ==
    ASSUME live \in Images, disk \in Images, NEW r \in Runs,
           NEW d \in {"root", "windows", "attempts", "attempt"}, Persist(d, r)
    PROVE  /\ disk' \in Images
           /\ disk'.contract \in {disk.contract, live.contract}
           /\ disk'.windows \in {disk.windows, live.windows}
           /\ d = "root" => disk'.contract = live.contract
           /\ SharedJournal => disk' = live
<1>0. SharedJournal => disk' = live
  BY DEF Persist
<1>1. CASE SharedJournal
  BY <1>1 DEF Persist
<1>2. CASE ~SharedJournal /\ d = "root"
  <2>1. disk' = [part \in DOMAIN live |-> IF part \in RootPart THEN live[part] ELSE disk[part]]
    BY <1>2 DEF Persist
  <2>2. DOMAIN live = {"contract", "journal", "result", "completion", "marker", "windows",
                       "attempts", "prior"}
    BY DEF Images
  <2>3. disk' = [contract |-> live.contract, journal |-> live.journal, result |-> live.result,
                 completion |-> live.completion, marker |-> live.marker, windows |-> disk.windows,
                 attempts |-> disk.attempts, prior |-> disk.prior]
    BY <2>1, <2>2 DEF RootPart
  <2> QED
    BY <1>2, <2>3 DEF Images
<1>3. CASE ~SharedJournal /\ d = "windows"
  BY <1>3 DEF Persist, Images
<1>4. CASE ~SharedJournal /\ d = "attempts"
  BY <1>4 DEF Persist, Images
<1>5. CASE ~SharedJournal /\ d = "attempt"
  <2>1. disk' = [disk EXCEPT !.prior = [disk.prior EXCEPT ![r] = live.prior[r]]]
    BY <1>5 DEF Persist, Images
  <2>2. [disk.prior EXCEPT ![r] = live.prior[r]] \in [Runs -> SUBSET Artifacts]
    BY DEF Images
  <2> QED
    BY <1>5, <2>1, <2>2 DEF Images
<1> QED
  BY <1>0, <1>1, <1>2, <1>3, <1>4, <1>5

\* What survives a loss of power.
LEMMA Survives ==
    ASSUME live \in Images, disk \in Images, LosePower
    PROVE  /\ live' \in Images /\ disk' = live'
           /\ live'.contract = disk.contract /\ live'.journal = disk.journal
           /\ live'.result = disk.result /\ live'.completion = disk.completion
           /\ live'.marker = disk.marker /\ live'.windows = disk.windows
           /\ live'.attempts = disk.attempts
           /\ \A r \in disk.attempts : live'.prior[r] = disk.prior[r]
<1>1. [r \in Runs |-> IF r \in disk.attempts THEN disk.prior[r] ELSE {}] \in [Runs -> SUBSET Artifacts]
  BY DEF Images
<1>2. disk.attempts \subseteq Runs
  BY DEF Images
<1> QED
  BY <1>1, <1>2 DEF LosePower, Images

\* The directory after a retirement.
LEMMA JournalRetired ==
    ASSUME live \in Images, run \in Runs, live.journal # Absent,
           live' = [live EXCEPT !.journal = Absent, !.prior[run] = @ \cup {<<"journal", live.journal.run>>}]
    PROVE  /\ live' \in Images
           /\ live'.journal = Absent /\ live'.result = live.result
           /\ live'.contract = live.contract /\ live'.completion = live.completion
           /\ live'.marker = live.marker /\ live'.windows = live.windows
           /\ live'.attempts = live.attempts
           /\ live'.prior = [live.prior EXCEPT ![run] = @ \cup {<<"journal", live.journal.run>>}]
<1>1. live.journal.run \in Runs
  BY DEF Images, Journals, Results
<1>2. [live.prior EXCEPT ![run] = @ \cup {<<"journal", live.journal.run>>}] \in [Runs -> SUBSET Artifacts]
  BY <1>1 DEF Images, Artifacts
<1>3. live' = [[live EXCEPT !.journal = Absent] EXCEPT
                  !.prior = [live.prior EXCEPT ![run] = @ \cup {<<"journal", live.journal.run>>}]]
  BY DEF Images
<1> QED
  BY <1>2, <1>3 DEF Images

LEMMA ResultRetired ==
    ASSUME live \in Images, run \in Runs, live.result # Absent,
           live' = [live EXCEPT !.result = Absent, !.prior[run] = @ \cup {<<"result", live.result.run>>}]
    PROVE  /\ live' \in Images
           /\ live'.result = Absent /\ live'.journal = live.journal
           /\ live'.contract = live.contract /\ live'.completion = live.completion
           /\ live'.marker = live.marker /\ live'.windows = live.windows
           /\ live'.attempts = live.attempts
           /\ live'.prior = [live.prior EXCEPT ![run] = @ \cup {<<"result", live.result.run>>}]
<1>1. live.result.run \in Runs
  BY DEF Images, Journals, Results
<1>2. [live.prior EXCEPT ![run] = @ \cup {<<"result", live.result.run>>}] \in [Runs -> SUBSET Artifacts]
  BY <1>1 DEF Images, Artifacts
<1>3. live' = [[live EXCEPT !.result = Absent] EXCEPT
                  !.prior = [live.prior EXCEPT ![run] = @ \cup {<<"result", live.result.run>>}]]
  BY DEF Images
<1> QED
  BY <1>2, <1>3 DEF Images

-------------------------------------------------------------------------------
(* Types *)

LEMMA TypeInvImplies == TypeInv => TypeOK
BY DEF TypeInv, TypeOK, FilesTyped, PlaceTyped, ClocksTyped, MemoryTyped, PoolTyped, CountersTyped

LEMMA InitTyped == Init => TypeInv
<1> SUFFICES ASSUME Init PROVE TypeInv
  OBVIOUS
<1> USE Bounds
<1>1. Empty \in Images
  BY DEF Empty, Images
<1>2. FilesTyped
  BY <1>1 DEF Init, FilesTyped
<1>3. PlaceTyped /\ ClocksTyped /\ CountersTyped
  BY DEF Init, Idle, PlaceTyped, ClocksTyped, CountersTyped
<1>4. MemoryTyped
  BY DEF Init, Idle, MemoryTyped, Unknown
<1>5. PoolTyped
  BY DEF Init, Idle, PoolTyped, Begun, Fresh, Opened, Merging
<1>6. SealableTyped
  BY DEF Init, SealableTyped
<1> QED
  BY <1>2, <1>3, <1>4, <1>5, <1>6 DEF TypeInv

\* The files.
LEMMA FilesTypedStep == TypeInv /\ [Next]_vars => FilesTyped'
<1> SUFFICES ASSUME TypeInv, [Next]_vars PROVE FilesTyped'
  OBVIOUS
<1> USE Bounds DEF TypeInv, FilesTyped
<1>0. live \in Images /\ disk \in Images /\ published \subseteq Artifacts /\ (at # "none" => run \in Runs)
  BY DEF PlaceTyped
<1>1. CASE UNCHANGED vars
  BY <1>1 DEF vars
<1>2. CASE Writeback
  BY <1>0, <1>2, Persisted DEF Writeback
<1>3. CASE LosePower
  <2>1. published' = published
    BY <1>3 DEF LosePower
  <2> QED
    BY <1>0, <1>3, <2>1, Survives
<1>4. CASE Kill \/ Change \/ Invoke \/ WriteError \/ Compare
  BY <1>0, <1>4 DEF Kill, Change, Invoke, WriteError, Compare, Return, Quiet
<1>5. CASE OpenSource \/ HashSource \/ LoadAudio \/ Authenticate \/ Scan \/ PoolDone
  BY <1>0, <1>5 DEF OpenSource, HashSource, LoadAudio, Authenticate, Scan, PoolDone, Quiet
<1>6. CASE WriteContract
  <2>1. Contract \in Contracts
    BY <1>6 DEF WriteContract, Step, Contract, Contracts, MemoryTyped, Unknown, ClocksTyped
  <2> QED
    BY <1>0, <1>6, <2>1 DEF WriteContract, Images
<1>7. CASE NewAttempt
  <2>1. run \in Runs
    BY <1>0, <1>7 DEF NewAttempt, Step
  <2> QED
    BY <1>0, <1>7, <2>1 DEF NewAttempt, Images
<1>8. CASE SyncAttempt \/ SyncRoot \/ SyncPublished \/ SyncSeal \/ AbortAttempt \/ Finish \/ SyncFailure
  <2>1. run \in Runs
    BY <1>0, <1>8 DEF SyncAttempt, SyncRoot, SyncPublished, SyncSeal, AbortAttempt, Finish, SyncFailure, Step
  <2>2. /\ live' = live
        /\ Persist("root", run) \/ Persist("attempt", run)
        /\ published' \in {published, published \cup {<<"attempt", run>>},
                           published \cup {<<"journal", run>>}, published \cup {<<"result", run>>}}
    BY <1>8 DEF SyncAttempt, SyncRoot, SyncPublished, SyncSeal, AbortAttempt, Finish, SyncFailure
  <2>3. disk' \in Images
    BY <1>0, <2>1, <2>2, Persisted
  <2> QED
    BY <1>0, <2>1, <2>2, <2>3 DEF Artifacts
<1>9. CASE RetireResult \/ RetireJournal
  <2>1. CASE RetireResult
    <3>1. live' = IF live.result = Absent THEN live
                  ELSE [live EXCEPT !.result = Absent, !.prior[run] = @ \cup {<<"result", live.result.run>>}]
      BY <2>1 DEF RetireResult, Retires
    <3>2. run \in Runs /\ UNCHANGED <<disk, published>>
      BY <1>0, <2>1 DEF RetireResult, Retires
    <3> QED
      BY <1>0, <3>1, <3>2, ResultRetired
  <2>2. CASE RetireJournal
    <3>1. live' = IF live.journal = Absent THEN live
                  ELSE [live EXCEPT !.journal = Absent, !.prior[run] = @ \cup {<<"journal", live.journal.run>>}]
      BY <2>2 DEF RetireJournal, Retires
    <3>2. run \in Runs /\ UNCHANGED <<disk, published>>
      BY <1>0, <2>2 DEF RetireJournal, Retires
    <3> QED
      BY <1>0, <3>1, <3>2, JournalRetired
  <2> QED
    BY <1>9, <2>1, <2>2
<1>10. CASE CheckFinal \/ CheckAborted
  <2>1. live' \in {live, [live EXCEPT !.marker = TRUE]} /\ UNCHANGED <<disk, published>>
    BY <1>10 DEF CheckFinal, CheckAborted, Checks, Invalidates
  <2> QED
    BY <1>0, <2>1, Marked
<1>11. CASE PublishJournal \/ PublishResult
  <2>1. run \in Runs /\ got \in [Windows -> Decoded]
    BY <1>0, <1>11 DEF PublishJournal, PublishResult, PoolTyped, Merging
  <2>2. [run |-> run, of |-> got] \in Journals
    BY <2>1 DEF Journals
  <2>3. [run |-> run, status |-> Status, of |-> got] \in Results
    BY <2>1 DEF Results, Status
  <2>4. CASE PublishJournal
    <3>1. live' = live \/ live' = [live EXCEPT !.journal = [run |-> run, of |-> got]]
      BY <2>4 DEF PublishJournal, Publishes
    <3>2. UNCHANGED <<disk, published>>
      BY <2>4 DEF PublishJournal, Publishes
    <3>3. live' \in Images
      BY <1>0, <2>2, <3>1 DEF Images
    <3> QED
      BY <1>0, <3>2, <3>3
  <2>5. CASE PublishResult
    <3>1. live' = live \/ live' = [live EXCEPT !.result = [run |-> run, status |-> Status, of |-> got]]
      BY <2>5 DEF PublishResult, Publishes
    <3>2. UNCHANGED <<disk, published>>
      BY <2>5 DEF PublishResult, Publishes
    <3>3. live' \in Images
      BY <1>0, <2>3, <3>1 DEF Images
    <3> QED
      BY <1>0, <3>2, <3>3
  <2> QED
    BY <1>11, <2>4, <2>5
<1>12. CASE PublishFailure
  <2>1. run \in Runs
    BY <1>0, <1>12 DEF PublishFailure
  <2>2. FailedResult \in Results
    BY <2>1 DEF FailedResult, Results
  <2>3. UNCHANGED <<disk, published>>
    BY <1>12 DEF PublishFailure, Publishes, Return
  <2>4. live' = live \/ live' = [live EXCEPT !.result = FailedResult]
    BY <1>12 DEF PublishFailure, Publishes, Return
  <2>5. live' \in Images
    BY <1>0, <2>2, <2>4 DEF Images
  <2> QED
    BY <1>0, <2>3, <2>5
<1>14. ASSUME NEW w \in Windows, Window(w) \/ WindowError(w) PROVE FilesTyped'
  <2>1. run \in Runs /\ at = "pool" /\ published' = published
    BY <1>0, <1>14 DEF Window, WindowError, Begin, Decode, Check, CommitWindow, SyncWindow, Pooled
  <2>2. CASE Begin(w) \/ Decode(w) \/ WindowError(w)
    <3>1. live' \in {live, [live EXCEPT !.marker = TRUE]} /\ UNCHANGED disk
      BY <2>2 DEF Begin, Decode, WindowError, InvalidatesFrom, Invalidates
    <3> QED
      BY <1>0, <2>1, <3>1, Marked
  <2>3. CASE Check(w)
    <3>1. /\ live' \in {live, [live EXCEPT !.marker = TRUE]}
          /\ disk' = disk \/ Persist("attempt", run)
      BY <2>3 DEF Check, InvalidatesFrom, Invalidates
    <3>2. disk' \in Images
      BY <1>0, <2>1, <3>1, Persisted
    <3> QED
      BY <1>0, <2>1, <3>1, <3>2, Marked
  <2>4. CASE CommitWindow(w)
    <3>1. got[w] \in Contents
      BY <2>4 DEF CommitWindow, Pooled, PoolTyped
    <3>2. [live.windows EXCEPT ![w] = got[w]] \in [Windows -> Contents \cup {Absent}]
      BY <1>0, <3>1 DEF Images
    <3>3. live' = [live EXCEPT !.windows = [live.windows EXCEPT ![w] = got[w]]] /\ disk' = disk
      BY <2>4 DEF CommitWindow
    <3> QED
      BY <1>0, <2>1, <3>2, <3>3 DEF Images
  <2>5. CASE SyncWindow(w)
    <3>1. live' = live /\ (Persist("windows", run) \/ Persist("root", run))
      BY <2>5 DEF SyncWindow
    <3>2. disk' \in Images
      BY <1>0, <2>1, <3>1, Persisted
    <3> QED
      BY <1>0, <2>1, <3>1, <3>2
  <2> QED
    BY <1>14, <2>2, <2>3, <2>4, <2>5 DEF Window
<1>15. CASE Seal
  <2>1. live.journal \in Journals /\ live.result \in Results
    BY <1>0, <1>15 DEF Seal, SealableTyped, Images
  <2>2. live' = live \/ live' = [live EXCEPT !.completion = [journal |-> live.journal, result |-> live.result]]
    BY <1>15 DEF Seal, Publishes
  <2>3. UNCHANGED <<disk, published>>
    BY <1>15 DEF Seal, Publishes
  <2>4. [journal |-> live.journal, result |-> live.result] \in Seals
    BY <2>1 DEF Seals
  <2>5. live' \in Images
    BY <1>0, <2>2, <2>4 DEF Images
  <2> QED
    BY <1>0, <2>3, <2>5
<1> QED
  BY <1>1, <1>2, <1>3, <1>4, <1>5, <1>6, <1>7, <1>8, <1>9, <1>10, <1>11, <1>12, <1>14, <1>15
     DEF Next, Main

\* What is sealed.
LEMMA SealableTypedStep == TypeInv /\ [Next]_vars => SealableTyped'
<1> SUFFICES ASSUME TypeInv, [Next]_vars PROVE SealableTyped'
  OBVIOUS
<1> USE Bounds DEF TypeInv, SealableTyped
<1>0. live \in Images /\ (at # "none" => run \in Runs)
  BY DEF PlaceTyped, FilesTyped
<1>1. CASE UNCHANGED vars
  BY <1>1 DEF vars
<1>2. CASE Writeback \/ Change
  BY <1>2 DEF Writeback, Change
<1>3. CASE at' \notin {"sync-journal", "result", "sync-result", "completion"}
  BY <1>3
<1>4. CASE Kill \/ LosePower \/ Invoke \/ WriteError \/ Compare
  BY <1>3, <1>4 DEF Kill, LosePower, Forget, Invoke, WriteError, Compare, Return, Goto, Fail
<1>5. CASE OpenSource \/ HashSource \/ LoadAudio \/ Authenticate \/ Scan \/ PoolDone
  BY <1>3, <1>5 DEF OpenSource, HashSource, LoadAudio, Authenticate, Scan, PoolDone, Goto, Fail
<1>6. CASE WriteContract \/ NewAttempt \/ RetireResult \/ RetireJournal \/ CheckFinal \/ CheckAborted
  BY <1>3, <1>6 DEF WriteContract, NewAttempt, RetireResult, RetireJournal, CheckFinal, CheckAborted,
     Step, Checks, Goto, Retires
<1>7. CASE SyncAttempt \/ SyncRoot \/ SyncSeal \/ AbortAttempt \/ Finish \/ SyncFailure \/ Seal \/ PublishFailure
  BY <1>3, <1>7 DEF SyncAttempt, SyncRoot, SyncSeal, AbortAttempt, Finish, SyncFailure, Seal,
     PublishFailure, Publishes, Return, Forget, Step, Goto, Fail
<1>8. CASE SyncPublished
  BY <1>8 DEF SyncPublished, Step, Goto
<1>9. CASE PublishJournal
  <2>1. [run |-> run, of |-> got] # Absent
    <3>1. got \in [Windows -> Decoded]
      BY <1>9 DEF PublishJournal, PoolTyped, Merging
    <3>2. [run |-> run, of |-> got] \in Journals
      BY <1>0, <1>9, <3>1 DEF PublishJournal, Journals
    <3> QED
      BY <3>2, AbsentAssumption
  <2> QED
    BY <1>0, <1>9, <2>1 DEF PublishJournal, Publishes, Goto, Fail, Images
<1>10. CASE PublishResult
  <2>1. [run |-> run, status |-> Status, of |-> got] # Absent
    <3>1. got \in [Windows -> Decoded]
      BY <1>10 DEF PublishResult, PoolTyped, Merging
    <3>2. [run |-> run, status |-> Status, of |-> got] \in Results
      BY <1>0, <1>10, <3>1 DEF PublishResult, Results, Status
    <3> QED
      BY <3>2, AbsentAssumption
  <2> QED
    BY <1>0, <1>10, <2>1 DEF PublishResult, Publishes, Goto, Fail, Images
<1>11. ASSUME NEW w \in Windows, Window(w) \/ WindowError(w) PROVE SealableTyped'
  BY <1>11 DEF Window, WindowError, Begin, Decode, Check, CommitWindow, SyncWindow, Pooled
<1> QED
  BY <1>1, <1>2, <1>4, <1>5, <1>6, <1>7, <1>8, <1>9, <1>10, <1>11 DEF Next, Main

\* The places, and what happens outside.
LEMMA PlaceTypedStep == TypeInv /\ [Next]_vars => PlaceTyped'
<1> SUFFICES ASSUME TypeInv, [Next]_vars PROVE PlaceTyped'
  OBVIOUS
<1> USE Bounds DEF TypeInv, PlaceTyped, Writing, Syncing
<1>1. CASE UNCHANGED vars
  BY <1>1 DEF vars
<1>2. CASE Writeback \/ Change \/ Kill \/ LosePower \/ WriteError
  BY <1>2 DEF Writeback, Change, Kill, LosePower, Forget, WriteError, Fail, Goto
<1>3. CASE Invoke
  BY <1>3 DEF Invoke, Goto
<1>4. CASE Compare \/ PublishFailure
  BY <1>4 DEF Compare, PublishFailure, Publishes, Return, Forget, Quiet, Goto, Fail
<1>5. CASE OpenSource \/ HashSource \/ LoadAudio \/ Authenticate \/ Scan \/ PoolDone
  BY <1>5 DEF OpenSource, HashSource, LoadAudio, Authenticate, Scan, PoolDone, Goto, Fail, Quiet
<1>6. CASE WriteContract \/ NewAttempt \/ RetireResult \/ RetireJournal
  BY <1>6 DEF WriteContract, NewAttempt, RetireResult, RetireJournal, Step, Goto, Retires
<1>7. CASE CheckFinal \/ CheckAborted
  BY <1>7 DEF CheckFinal, CheckAborted, Checks, Goto
<1>8. CASE SyncAttempt \/ SyncRoot \/ SyncSeal \/ AbortAttempt \/ SyncPublished
  BY <1>8 DEF SyncAttempt, SyncRoot, SyncSeal, AbortAttempt, SyncPublished, Step, Goto
<1>9. CASE Finish \/ SyncFailure
  BY <1>9 DEF Finish, SyncFailure, Forget
<1>10. CASE PublishJournal \/ PublishResult \/ Seal
  BY <1>10 DEF PublishJournal, PublishResult, Seal, Publishes, Goto, Fail
<1>11. ASSUME NEW w \in Windows, Window(w) \/ WindowError(w) PROVE PlaceTyped'
  BY <1>11 DEF Window, WindowError, Begin, Decode, Check, CommitWindow, SyncWindow, Pooled
<1> QED
  BY <1>1, <1>2, <1>3, <1>4, <1>5, <1>6, <1>7, <1>8, <1>9, <1>10, <1>11 DEF Next, Main

LEMMA ClocksTypedStep == TypeInv /\ [Next]_vars => ClocksTyped'
<1> SUFFICES ASSUME TypeInv, [Next]_vars PROVE ClocksTyped'
  OBVIOUS
<1> USE Bounds DEF TypeInv, ClocksTyped, recording, memory, faults
<1>1. CASE UNCHANGED <<recording, guard, changes>>
  BY <1>1
<1>2. CASE Writeback \/ Invoke \/ WriteError \/ UNCHANGED vars
  BY <1>1, <1>2 DEF Writeback, Invoke, WriteError, vars
<1>3. CASE Change
  BY <1>3 DEF Change
<1>4. CASE Kill \/ LosePower \/ Finish \/ SyncFailure
  BY <1>4 DEF Kill, LosePower, Forget, Finish, SyncFailure
<1>5. CASE Compare \/ PublishFailure
  BY <1>1, <1>5 DEF Compare, PublishFailure, Publishes, Return, Forget, Quiet
<1>6. CASE OpenSource
  BY <1>6 DEF OpenSource, Quiet
<1>7. CASE HashSource \/ LoadAudio \/ Authenticate \/ Scan \/ PoolDone
  BY <1>1, <1>7 DEF HashSource, LoadAudio, Authenticate, Scan, PoolDone, Quiet
<1>8. CASE WriteContract \/ NewAttempt \/ RetireResult \/ RetireJournal \/ CheckFinal \/ CheckAborted
  BY <1>1, <1>8 DEF WriteContract, NewAttempt, RetireResult, RetireJournal, Step, Retires,
     CheckFinal, CheckAborted, Checks
<1>9. CASE SyncAttempt \/ SyncRoot \/ SyncSeal \/ AbortAttempt \/ SyncPublished
  BY <1>1, <1>9 DEF SyncAttempt, SyncRoot, SyncSeal, AbortAttempt, SyncPublished, Step
<1>10. CASE PublishJournal \/ PublishResult \/ Seal
  BY <1>1, <1>10 DEF PublishJournal, PublishResult, Seal, Publishes
<1>11. ASSUME NEW w \in Windows, Window(w) \/ WindowError(w) PROVE ClocksTyped'
  BY <1>1, <1>11 DEF Window, WindowError, Begin, Decode, Check, CommitWindow, SyncWindow, Pooled
<1> QED
  BY <1>2, <1>3, <1>4, <1>5, <1>6, <1>7, <1>8, <1>9, <1>10, <1>11 DEF Next, Main

LEMMA CountersTypedStep == TypeInv /\ [Next]_vars => CountersTyped'
<1> SUFFICES ASSUME TypeInv, [Next]_vars PROVE CountersTyped'
  OBVIOUS
<1> USE Bounds DEF TypeInv, CountersTyped, faults
<1>1. CASE UNCHANGED <<outcome, faults, errors>>
  BY <1>1
<1>2. CASE Writeback \/ UNCHANGED vars
  BY <1>1, <1>2 DEF Writeback, vars
<1>3. CASE Change \/ Invoke \/ WriteError \/ Kill \/ LosePower
  BY <1>3 DEF Change, Invoke, WriteError, Kill, LosePower
<1>4. CASE Finish \/ SyncFailure
  BY <1>4 DEF Finish, SyncFailure, Status
<1>5. CASE Compare \/ PublishFailure
  BY <1>5 DEF Compare, PublishFailure, Publishes, Return, Quiet
<1>7. CASE OpenSource \/ HashSource \/ LoadAudio \/ Authenticate \/ Scan \/ PoolDone
  BY <1>1, <1>7 DEF OpenSource, HashSource, LoadAudio, Authenticate, Scan, PoolDone, Quiet
<1>8. CASE WriteContract \/ NewAttempt \/ RetireResult \/ RetireJournal
  BY <1>1, <1>8 DEF WriteContract, NewAttempt, RetireResult, RetireJournal, Step, Retires
<1>9. CASE SyncAttempt \/ SyncRoot \/ SyncSeal \/ AbortAttempt \/ SyncPublished
  BY <1>1, <1>9 DEF SyncAttempt, SyncRoot, SyncSeal, AbortAttempt, SyncPublished, Step
<1>10. CASE PublishJournal \/ PublishResult \/ Seal
  BY <1>1, <1>10 DEF PublishJournal, PublishResult, Seal, Publishes
<1>11. CASE CheckFinal \/ CheckAborted
  BY <1>11 DEF CheckFinal, CheckAborted, Checks, Invalidates
<1>12. ASSUME NEW w \in Windows, Window(w) \/ WindowError(w) PROVE CountersTyped'
  BY <1>12 DEF Window, WindowError, Begin, Decode, Check, CommitWindow, SyncWindow, Pooled,
     InvalidatesFrom, Invalidates
<1> QED
  BY <1>2, <1>3, <1>4, <1>5, <1>7, <1>8, <1>9, <1>10, <1>11, <1>12 DEF Next, Main

\* What is in memory.
LEMMA MemoryTypedStep == TypeInv /\ [Next]_vars => MemoryTyped'
<1> SUFFICES ASSUME TypeInv, [Next]_vars PROVE MemoryTyped'
  OBVIOUS
<1> USE Bounds DEF TypeInv, MemoryTyped, Unknown, recording, memory
<1>0. content \in Contents /\ audio \in BOOLEAN /\ live \in Images
  BY DEF ClocksTyped, FilesTyped
<1>1. CASE UNCHANGED <<audio, source, before, pcm, cached, sealed, at>>
  BY <1>1
<1>2. CASE Forget /\ audio' = audio
  BY <1>2 DEF Forget
<1>3. CASE Writeback \/ Change \/ UNCHANGED vars
  BY <1>1, <1>3 DEF Writeback, Change, vars
<1>4. CASE Kill \/ LosePower \/ Finish \/ SyncFailure
  BY <1>2, <1>4 DEF Kill, LosePower, Finish, SyncFailure
<1>5. CASE Compare \/ PublishFailure
  BY <1>2, <1>5 DEF Compare, PublishFailure, Publishes, Return, Quiet, Goto, Fail
<1>6. CASE Invoke \/ WriteError
  BY <1>6 DEF Invoke, WriteError, Goto, Fail
<1>7. CASE OpenSource \/ HashSource
  BY <1>0, <1>7 DEF OpenSource, HashSource, Quiet, Goto, Fail
<1>8. CASE LoadAudio
  BY <1>0, <1>8 DEF LoadAudio, Quiet, Goto, Fail
<1>9. CASE Authenticate \/ PoolDone
  BY <1>9 DEF Authenticate, PoolDone, Quiet, Goto, Fail
<1>10. CASE Scan
  <2>1. live.windows \in [Windows -> Contents \cup {Absent}]
    BY <1>0 DEF Images
  <2> QED
    BY <1>10, <2>1 DEF Scan, Quiet, Goto, Fail
<1>11. CASE WriteContract \/ NewAttempt
  BY <1>11 DEF WriteContract, NewAttempt, Step, Goto
<1>16. CASE RetireResult \/ RetireJournal
  <2>1. UNCHANGED <<recording, memory>> /\ at \notin Unknown \cup {"load", "read"}
    BY <1>16 DEF RetireResult, RetireJournal, Retires
  <2> QED
    BY <2>1
<1>12. CASE SyncAttempt \/ SyncRoot \/ SyncSeal \/ AbortAttempt \/ SyncPublished
  BY <1>12 DEF SyncAttempt, SyncRoot, SyncSeal, AbortAttempt, SyncPublished, Step, Goto
<1>13. CASE PublishJournal \/ PublishResult \/ Seal
  BY <1>13 DEF PublishJournal, PublishResult, Seal, Publishes, Goto, Fail
<1>14. CASE CheckFinal \/ CheckAborted
  BY <1>14 DEF CheckFinal, CheckAborted, Checks, Goto
<1>15. ASSUME NEW w \in Windows, Window(w) \/ WindowError(w) PROVE MemoryTyped'
  BY <1>1, <1>15 DEF Window, WindowError, Begin, Decode, Check, CommitWindow, SyncWindow, Pooled
<1> QED
  BY <1>3, <1>4, <1>5, <1>6, <1>7, <1>8, <1>9, <1>10, <1>11, <1>12, <1>13, <1>14, <1>15, <1>16 DEF Next, Main

\* A step of a thread.
Stages == {"todo", "read", "check", "write", "sync", "marked", "returned"}

LEMMA WindowMoves ==
    ASSUME NEW w \in Windows, Window(w) \/ WindowError(w),
           stage \in [Windows -> Stages], got \in [Windows -> Decoded \cup {"error", Absent}],
           stage[w] \in {"check", "returned"} => got[w] # Absent,
           stage[w] \in {"write", "sync"} => got[w] \in Contents,
           stage[w] = "marked" => got[w] = "error",
           content \in Contents, audio => pcm \in Contents, cached[w] \in Contents \cup {Absent}
    PROVE  /\ stage' \in [Windows -> Stages]
           /\ got' \in [Windows -> Decoded \cup {"error", Absent}]
           /\ \A v \in Windows \ {w} : stage'[v] = stage[v] /\ got'[v] = got[v]
           /\ stage'[w] \in {"check", "returned"} => got'[w] # Absent
           /\ stage'[w] \in {"write", "sync"} => got'[w] \in Contents
           /\ stage'[w] = "marked" => got'[w] = "error"
<1> USE Bounds DEF Moves, Returns, Stages
<1>1. CASE Begin(w)
  <2>1. \/ Moves(w, "marked") /\ got' = [got EXCEPT ![w] = "error"]
        \/ Returns(w, "error")
        \/ cached[w] # Absent /\ Returns(w, cached[w])
        \/ Moves(w, "read") /\ got' = got
    BY <1>1 DEF Begin, InvalidatesFrom
  <2> QED
    BY <2>1
<1>2. CASE Decode(w)
  <2>1. /\ Moves(w, "check")
        /\ \E value \in Contents \cup {"failures", "error"} : got' = [got EXCEPT ![w] = value]
    BY <1>2 DEF Decode
  <2> QED
    BY <2>1
<1>3. CASE Check(w)
  <2>1. \/ Moves(w, "marked") /\ got' = [got EXCEPT ![w] = "error"]
        \/ Returns(w, "error")
        \/ stage[w] = "check" /\ got[w] \in Contents /\ Moves(w, "write") /\ got' = got
        \/ stage[w] = "check" /\ got[w] \notin Contents /\ Moves(w, "returned") /\ got' = got
    BY <1>3 DEF Check, InvalidatesFrom
  <2> QED
    BY <2>1
<1>4. CASE CommitWindow(w) \/ SyncWindow(w) \/ WindowError(w)
  <2>1. \/ stage[w] = "write" /\ Moves(w, "sync") /\ got' = got
        \/ stage[w] = "sync" /\ Moves(w, "returned") /\ got' = got
        \/ stage[w] = "marked" /\ Moves(w, "returned") /\ got' = got
        \/ Returns(w, "error")
    BY <1>4 DEF CommitWindow, SyncWindow, WindowError
  <2> QED
    BY <2>1
<1> QED
  BY <1>1, <1>2, <1>3, <1>4 DEF Window

\* What the threads hold.
LEMMA PoolTypedStep == TypeInv /\ [Next]_vars => PoolTyped'
<1> SUFFICES ASSUME TypeInv, [Next]_vars PROVE PoolTyped'
  OBVIOUS
<1> USE Bounds DEF TypeInv, PoolTyped, Begun, Fresh, Opened, Merging, pool
<1>1. CASE UNCHANGED <<pool, at>>
  BY <1>1
<1>2. CASE Forget
  BY <1>2 DEF Forget
<1>3. CASE Writeback \/ Change \/ UNCHANGED vars
  BY <1>1, <1>3 DEF Writeback, Change, vars
<1>4. CASE Kill \/ LosePower \/ Finish \/ SyncFailure
  BY <1>2, <1>4 DEF Kill, LosePower, Finish, SyncFailure
<1>5. CASE Compare \/ PublishFailure
  BY <1>2, <1>5 DEF Compare, PublishFailure, Publishes, Return, Quiet, Goto, Fail
<1>6. CASE Invoke \/ WriteError
  BY <1>6 DEF Invoke, WriteError, Goto, Fail
<1>7. CASE OpenSource \/ HashSource \/ LoadAudio \/ Authenticate \/ Scan
  BY <1>7 DEF OpenSource, HashSource, LoadAudio, Authenticate, Scan, Quiet, Goto, Fail
<1>8. CASE PoolDone
  <2>1. \A w \in Windows : got[w] # Absent
    BY <1>8 DEF PoolDone
  <2>2. CASE \E w \in Windows : got[w] = "error"
    BY <1>8, <2>2 DEF PoolDone, Quiet, Goto
  <2>3. CASE \A w \in Windows : got[w] # "error"
    <3>1. got \in [Windows -> Decoded]
      BY <2>1, <2>3
    <3> QED
      BY <1>8, <2>3, <3>1 DEF PoolDone, Quiet, Goto
  <2> QED
    BY <2>2, <2>3
<1>9. CASE WriteContract \/ NewAttempt \/ RetireResult \/ RetireJournal
  BY <1>9 DEF WriteContract, NewAttempt, RetireResult, RetireJournal, Step, Retires, Goto
<1>10. CASE SyncAttempt \/ SyncRoot \/ SyncSeal \/ AbortAttempt \/ SyncPublished
  BY <1>10 DEF SyncAttempt, SyncRoot, SyncSeal, AbortAttempt, SyncPublished, Step, Goto
<1>11. CASE PublishJournal \/ PublishResult \/ Seal
  BY <1>11 DEF PublishJournal, PublishResult, Seal, Publishes, Goto, Fail
<1>12. CASE CheckFinal \/ CheckAborted
  BY <1>12 DEF CheckFinal, CheckAborted, Checks, Goto
<1>13. ASSUME NEW w \in Windows, Window(w) \/ WindowError(w) PROVE PoolTyped'
  <2>0. /\ at = "pool" /\ at' = at /\ content \in Contents /\ audio \in BOOLEAN
        /\ (audio => pcm \in Contents) /\ cached[w] \in Contents \cup {Absent}
    BY <1>13 DEF Window, WindowError, Begin, Decode, Check, CommitWindow, SyncWindow, Pooled,
       ClocksTyped, MemoryTyped, Unknown
  <2>5. /\ stage' \in [Windows -> Stages]
        /\ got' \in [Windows -> Decoded \cup {"error", Absent}]
        /\ \A v \in Windows \ {w} : stage'[v] = stage[v] /\ got'[v] = got[v]
        /\ stage'[w] \in {"check", "returned"} => got'[w] # Absent
        /\ stage'[w] \in {"write", "sync"} => got'[w] \in Contents
        /\ stage'[w] = "marked" => got'[w] = "error"
    BY <1>13, <2>0, WindowMoves DEF Stages
  <2> QED
    BY <2>0, <2>5 DEF Stages
<1> QED
  BY <1>3, <1>4, <1>5, <1>6, <1>7, <1>8, <1>9, <1>10, <1>11, <1>12, <1>13 DEF Next, Main

LEMMA TypeInvStep == TypeInv /\ [Next]_vars => TypeInv'
BY FilesTypedStep, SealableTypedStep, PlaceTypedStep, ClocksTypedStep, MemoryTypedStep, PoolTypedStep,
   CountersTypedStep DEF TypeInv

\* Type correctness, for any windows, contents, threads, metadata, filesystem and faults.
THEOREM RunTypes == Spec => []TypeOK
<1>1. Spec => []TypeInv
  BY InitTyped, TypeInvStep, PTL DEF Spec
<1> QED
  BY <1>1, TypeInvImplies, PTL
-------------------------------------------------------------------------------
(* Windows are of the contract's recording *)

\* As long as no change shows, what was read is what the recording holds.
AsGuarded ==
    stamp = guard /\ at \notin Unknown =>
        /\ source = content
        /\ audio /\ at \notin {"load", "read"} => pcm = content

\* Only a first run writes a contract; whoever goes on has that contract, and it is
\* durable before a window is decoded.
Identified ==
    /\ run = 0 \/ (run = 1 /\ at # "none" /\ at \in Fresh) =>
          live.contract = Absent /\ disk.contract = Absent
    /\ at = "contract" => run = 1
    /\ at \notin Unknown \cup Fresh => live.contract = Contract
    /\ at \in {"retire-result", "retire-journal", "sync-retired"} => disk.contract = Contract
    /\ at = "pool" /\ ~sealed => disk.contract = Contract

\* Only missing windows are decoded, and only from the recording.
DecodedSource ==
    /\ at \in Opened => ~sealed
    /\ at = "pool" =>
        /\ sealed => \A w \in Windows : cached[w] # Absent
        /\ \A w \in Windows : stage[w] \in {"read", "check", "write", "sync"} => cached[w] = Absent
        /\ \A w \in Windows :
              /\ stage[w] = "check" /\ stamp = guard /\ got[w] \in Contents => got[w] = source
              /\ stage[w] \in {"write", "sync"} => got[w] = source

\* What is committed, live or on the device.
WindowsKept ==
    \A w \in Windows : live.windows[w] # Absent \/ disk.windows[w] # Absent =>
        /\ disk.contract # Absent /\ live.contract = disk.contract
        /\ {live.windows[w], disk.windows[w]} \subseteq {Absent, live.contract.source}

SourceInv == TypeInv /\ AsGuarded /\ Identified /\ DecodedSource /\ WindowsKept

LEMMA InitSource == Init => SourceInv
<1> SUFFICES ASSUME Init PROVE SourceInv
  OBVIOUS
<1>1. \A w \in Windows : Empty.windows[w] = Absent
  BY DEF Empty
<1>2. live.contract = Absent /\ disk.contract = Absent
  BY DEF Init, Empty
<1> QED
  BY <1>1, <1>2, InitTyped DEF Init, SourceInv, AsGuarded, Identified, DecodedSource, WindowsKept, Unknown, Fresh, Opened

LEMMA AsGuardedStep == SourceInv /\ [Next]_vars /\ ExactMetadata => AsGuarded'
<1> SUFFICES ASSUME SourceInv, [Next]_vars, ExactMetadata PROVE AsGuarded'
  OBVIOUS
<1> USE DEF SourceInv, AsGuarded, Unknown, recording, memory
<1>1. CASE UNCHANGED <<recording, guard, source, pcm, at>>
  BY <1>1
<1>2. CASE at' \in Unknown
  BY <1>2
<1>3. CASE Writeback \/ UNCHANGED vars
  BY <1>1, <1>3 DEF Writeback, vars
<1>4. CASE Change
  <2>1. guard \in Nat /\ stamp \in Nat /\ guard <= stamp /\ stamp' = stamp + 1 /\ guard' = guard
    BY <1>4, Bounds DEF Change, TypeInv, ClocksTyped
  <2> QED
    BY <2>1
<1>5. CASE Kill \/ LosePower \/ Finish \/ SyncFailure \/ Invoke \/ WriteError
  BY <1>2, <1>5 DEF Kill, LosePower, Finish, SyncFailure, Invoke, WriteError, Forget, Goto, Fail
<1>6. CASE Compare \/ PublishFailure \/ OpenSource
  BY <1>2, <1>6 DEF Compare, PublishFailure, Publishes, Return, Forget, Goto, Fail, OpenSource
<1>7. CASE HashSource
  BY <1>7 DEF HashSource, Quiet, Goto, Fail
<1>8. CASE LoadAudio
  BY <1>8 DEF LoadAudio, Quiet, Goto, Fail
<1>9. CASE Authenticate \/ PoolDone \/ Scan
  BY <1>9 DEF Authenticate, PoolDone, Scan, Quiet, Goto, Fail
<1>10. CASE WriteContract \/ NewAttempt
  BY <1>10 DEF WriteContract, NewAttempt, Step, Goto
<1>11. CASE RetireResult \/ RetireJournal
  <2>1. UNCHANGED <<recording, memory>> /\ at \notin Unknown \cup {"load", "read"}
    BY <1>11 DEF RetireResult, RetireJournal, Retires
  <2> QED
    BY <2>1
<1>12. CASE SyncAttempt \/ SyncRoot \/ SyncSeal \/ AbortAttempt \/ SyncPublished
  BY <1>12 DEF SyncAttempt, SyncRoot, SyncSeal, AbortAttempt, SyncPublished, Step, Goto
<1>13. CASE PublishJournal \/ PublishResult \/ Seal
  BY <1>13 DEF PublishJournal, PublishResult, Seal, Publishes, Goto, Fail
<1>14. CASE CheckFinal \/ CheckAborted
  BY <1>14 DEF CheckFinal, CheckAborted, Checks, Goto
<1>15. ASSUME NEW w \in Windows, Window(w) \/ WindowError(w) PROVE AsGuarded'
  BY <1>1, <1>15 DEF Window, WindowError, Begin, Decode, Check, CommitWindow, SyncWindow, Pooled
<1> QED
  BY <1>3, <1>4, <1>5, <1>6, <1>7, <1>8, <1>9, <1>10, <1>11, <1>12, <1>13, <1>14, <1>15 DEF Next, Main

LEMMA RetireMoves ==
    ASSUME RetireResult \/ RetireJournal
    PROVE  /\ at \in {"retire-result", "retire-journal"} /\ at' \in {"retire-journal", "sync-retired"}
           /\ UNCHANGED <<recording, disk, published, run, memory, pool, outcome, faults, errors>>
<1>1. CASE RetireResult
  BY <1>1 DEF RetireResult, Retires, Goto
<1>2. CASE RetireJournal
  BY <1>2 DEF RetireJournal, Retires, Goto
<1> QED
  BY <1>1, <1>2

\* A step of one thread, as seen by it and by the others.
LEMMA WindowStep ==
    ASSUME TypeInv, NEW w \in Windows, Window(w) \/ WindowError(w)
    PROVE  /\ at = "pool" /\ at' = "pool" /\ run \in Runs
           /\ UNCHANGED <<recording, published, run, memory, outcome, faults>>
           /\ stage' \in [Windows -> Stages]
           /\ got' \in [Windows -> Decoded \cup {"error", Absent}]
           /\ \A v \in Windows \ {w} : stage'[v] = stage[v] /\ got'[v] = got[v]
<1>1. /\ at = "pool" /\ at' = "pool" /\ UNCHANGED <<recording, published, run, memory, outcome, faults>>
  BY DEF Window, WindowError, Begin, Decode, Check, CommitWindow, SyncWindow, Pooled
<1>2. /\ run \in Runs /\ content \in Contents /\ (audio => pcm \in Contents)
      /\ cached[w] \in Contents \cup {Absent}
  BY <1>1 DEF TypeInv, PlaceTyped, ClocksTyped, MemoryTyped, Unknown
<1> QED
  BY <1>1, <1>2, WindowMoves DEF TypeInv, PoolTyped, Stages

\* The threads' windows.
LEMMA DecodedSourceStep == SourceInv /\ [Next]_vars /\ ExactMetadata => DecodedSource'
<1> SUFFICES ASSUME SourceInv, [Next]_vars, ExactMetadata PROVE DecodedSource'
  OBVIOUS
<1> USE DEF SourceInv, DecodedSource, Opened
<1>1. CASE at' \notin Opened \cup {"pool"}
  BY <1>1
<1>2. CASE UNCHANGED <<at, memory, pool, recording>>
  BY <1>2 DEF memory, pool, recording
<1>3. CASE Writeback \/ UNCHANGED vars
  BY <1>2, <1>3 DEF Writeback, vars
<1>4. CASE Change
  <2>1. guard \in Nat /\ stamp \in Nat /\ guard <= stamp /\ stamp' = stamp + 1 /\ guard' = guard
    BY <1>4, Bounds DEF Change, TypeInv, ClocksTyped, memory
  <2>2. UNCHANGED <<at, memory, pool>>
    BY <1>4 DEF Change
  <2> QED
    BY <2>1, <2>2 DEF memory, pool
<1>5. CASE Kill \/ LosePower \/ Finish \/ SyncFailure \/ Invoke \/ WriteError
  BY <1>1, <1>5 DEF Kill, LosePower, Finish, SyncFailure, Invoke, WriteError, Forget, Goto, Fail
<1>6. CASE Compare \/ PublishFailure \/ OpenSource \/ HashSource \/ LoadAudio \/ Authenticate
  BY <1>1, <1>6 DEF Compare, PublishFailure, Publishes, Return, Forget, Goto, Fail, OpenSource,
     HashSource, LoadAudio, Authenticate
<1>7. CASE PoolDone \/ WriteContract
  BY <1>1, <1>7 DEF PoolDone, WriteContract, Step, Goto
<1>16. CASE NewAttempt \/ SyncAttempt
  BY <1>16 DEF NewAttempt, SyncAttempt, Step, Goto, memory
<1>8. CASE Scan
  <2>1. \A w \in Windows : stage'[w] = "todo"
    BY <1>8 DEF Scan, Quiet, pool, TypeInv, PoolTyped, Begun
  <2>2. /\ at' = "pool" => \A w \in Windows : cached'[w] # Absent
        /\ at' \in {"attempt", "pool", "failing"}
        /\ at' = "attempt" => ~sealed'
    BY <1>8 DEF Scan, Goto, Fail
  <2> QED
    BY <2>1, <2>2
<1>9. CASE RetireResult \/ RetireJournal
  BY <1>9, RetireMoves DEF memory
<1>10. CASE SyncSeal \/ AbortAttempt \/ SyncPublished
  BY <1>1, <1>10 DEF SyncSeal, AbortAttempt, SyncPublished, Step, Goto
<1>11. CASE SyncRoot
  <2>1. CASE at = "sync-retired"
    <3>1. ~sealed
      BY <2>1
    <3>2. \A w \in Windows : stage'[w] = "todo"
      BY <1>11, <2>1 DEF SyncRoot, pool, TypeInv, PoolTyped, Begun, Opened
    <3> QED
      BY <1>11, <3>1, <3>2 DEF SyncRoot, memory
  <2> QED
    BY <1>1, <1>11, <2>1 DEF SyncRoot, Step, Goto
<1>13. CASE PublishJournal \/ PublishResult \/ Seal
  BY <1>1, <1>13 DEF PublishJournal, PublishResult, Seal, Publishes, Goto, Fail
<1>14. CASE CheckFinal \/ CheckAborted
  BY <1>1, <1>14 DEF CheckFinal, CheckAborted, Checks, Goto
<1>15. ASSUME NEW w \in Windows, Window(w) \/ WindowError(w) PROVE DecodedSource'
  <2>0. /\ at = "pool" /\ at' = "pool" /\ UNCHANGED <<recording, memory>>
        /\ stage' \in [Windows -> Stages] /\ got' \in [Windows -> Decoded \cup {"error", Absent}]
        /\ \A v \in Windows \ {w} : stage'[v] = stage[v] /\ got'[v] = got[v]
        /\ w \in DOMAIN stage /\ w \in DOMAIN got
    BY <1>15, WindowStep DEF TypeInv, PoolTyped
  <2> DEFINE Own(v) ==
               /\ stage'[v] \in {"read", "check", "write", "sync"} => cached[v] = Absent
               /\ stage'[v] = "check" /\ stamp = guard /\ got'[v] \in Contents => got'[v] = source
               /\ stage'[v] \in {"write", "sync"} => got'[v] = source
  <2>1. ASSUME Begin(w) PROVE Own(w)
    BY <2>0, <2>1 DEF Begin, InvalidatesFrom, Moves, Returns
  <2>2. ASSUME Decode(w) PROVE Own(w)
    <3>1. stage[w] = "read" /\ stage'[w] = "check" /\ cached[w] = Absent
      BY <2>0, <2>2 DEF Decode, Moves
    <3>2. got'[w] \in Contents => got'[w] = IF audio THEN pcm ELSE content
      BY <2>0, <2>2, Bounds DEF Decode
    <3> QED
      BY <2>0, <3>1, <3>2 DEF AsGuarded, Unknown
  <2>3. ASSUME Check(w) PROVE Own(w)
    BY <2>0, <2>3 DEF Check, InvalidatesFrom, Moves, Returns, Unchanged
  <2>4. ASSUME CommitWindow(w) \/ SyncWindow(w) \/ WindowError(w) PROVE Own(w)
    BY <2>0, <2>4 DEF CommitWindow, SyncWindow, WindowError, Moves, Returns
  <2>5. Own(w)
    BY <1>15, <2>1, <2>2, <2>3, <2>4 DEF Window
  <2>6. \A v \in Windows : Own(v)
    BY <2>0, <2>5
  <2> QED
    BY <2>0, <2>6 DEF recording, memory
<1> QED
  BY <1>3, <1>4, <1>5, <1>6, <1>7, <1>8, <1>9, <1>10, <1>11, <1>13, <1>14, <1>15, <1>16 DEF Next, Main

\* Contracts.
LEMMA IdentifiedStep == SourceInv /\ [Next]_vars => Identified'
<1> SUFFICES ASSUME SourceInv, [Next]_vars PROVE Identified'
  OBVIOUS
<1> USE DEF SourceInv, Identified, Unknown, Fresh
<1>0. live \in Images /\ disk \in Images /\ (at # "none" => run \in Runs) /\ run \in 0 .. MaxRuns
  BY DEF TypeInv, FilesTyped, PlaceTyped
<1>1. CASE UNCHANGED <<at, run, memory, audio>> /\ live'.contract = live.contract
           /\ disk'.contract \in {disk.contract, live.contract}
  BY <1>1 DEF memory, Contract
<1>2. CASE UNCHANGED vars \/ Change
  BY <1>1, <1>2 DEF vars, Change, recording
<1>3. CASE Writeback
  <2>1. UNCHANGED <<at, run, memory, audio, live>>
    BY <1>3 DEF Writeback, recording
  <2>2. disk'.contract \in {disk.contract, live.contract}
    BY <1>0, <1>3, Persisted DEF Writeback
  <2> QED
    BY <1>1, <2>1, <2>2
<1>4. CASE Kill \/ Finish \/ SyncFailure
  <2>1. at # "none" /\ at' = "none" /\ run' = run
    BY <1>4 DEF Kill, Finish, SyncFailure, Forget
  <2> QED
    BY <1>0, <2>1, Bounds
<1>5. CASE LosePower
  BY <1>0, <1>5, Bounds DEF LosePower, Forget
<1>6. CASE Invoke
  <2>1. /\ at' = "opened" /\ run' = run + 1 /\ UNCHANGED <<live, disk>>
    BY <1>6 DEF Invoke, Goto
  <2> QED
    BY <1>0, <2>1, Bounds
<1>7. CASE WriteError
  BY <1>7 DEF WriteError, Goto, Fail
<1>8. CASE OpenSource \/ HashSource \/ LoadAudio
  <2>1. /\ at \in Fresh /\ at # "none" /\ at # "contract" /\ UNCHANGED <<live, disk, run>>
        /\ at' \in {"hash", "load", "read", "recheck", "authenticate", "failing"}
    BY <1>8 DEF OpenSource, HashSource, LoadAudio, Quiet, Goto, Fail
  <2> QED
    BY <2>1
<1>9. CASE Authenticate
  <2>1. UNCHANGED <<live, disk, run, memory, audio>> /\ run \in Runs
    BY <1>0, <1>9 DEF Authenticate, Quiet, recording
  <2>2. Contract' = Contract
    BY <2>1 DEF Contract, memory
  <2>3. CASE run > 1
    BY <1>9, <2>1, <2>2, <2>3 DEF Authenticate, Resuming, Goto, Fail
  <2>4. CASE ~(run > 1)
    <3>1. run = 1 /\ at' = "contract" /\ at = "authenticate"
      BY <1>9, <2>1, <2>4, Bounds DEF Authenticate, Resuming, Goto
    <3> QED
      BY <2>1, <3>1
  <2> QED
    BY <2>3, <2>4
<1>10. CASE WriteContract
  <2>1. /\ at' = "sync-contract" /\ UNCHANGED <<disk, run, memory, audio>>
        /\ live'.contract = Contract
    BY <1>0, <1>10 DEF WriteContract, Step, Goto, recording, Images
  <2>2. Contract' = Contract
    BY <2>1 DEF Contract, memory
  <2>3. run = 1
    BY <1>10 DEF WriteContract, Step
  <2> QED
    BY <2>1, <2>2, <2>3
<1>11. CASE Scan
  <2>1. /\ UNCHANGED <<live, disk, run, audio, source, pcm>> /\ at = "scan" /\ run \in Runs
        /\ at' \in {"attempt", "pool", "failing"} /\ (at' = "pool" => sealed')
    BY <1>0, <1>11 DEF Scan, Quiet, recording, Goto, Fail
  <2>2. Contract' = Contract
    BY <2>1 DEF Contract
  <2> QED
    BY <2>1, <2>2, Bounds
<1>12. CASE NewAttempt \/ RetireResult \/ RetireJournal
  <2>1. /\ UNCHANGED <<disk, run, memory, audio>> /\ run \in Runs
        /\ at \in {"attempt", "retire-result", "retire-journal"}
        /\ at' \in {"sync-attempt", "retire-journal", "sync-retired"}
        /\ at = "attempt" => at' = "sync-attempt"
    BY <1>0, <1>12, RetireMoves DEF NewAttempt, Step, Goto, recording
  <2>2. live'.contract = live.contract
    <3>1. CASE NewAttempt
      BY <1>0, <3>1 DEF NewAttempt, Images
    <3>2. CASE RetireResult
      BY <1>0, <2>1, <3>2, ResultRetired DEF RetireResult, Retires
    <3>3. CASE RetireJournal
      BY <1>0, <2>1, <3>3, JournalRetired DEF RetireJournal, Retires
    <3> QED
      BY <1>12, <3>1, <3>2, <3>3
  <2>3. Contract' = Contract
    BY <2>1 DEF Contract, memory
  <2> QED
    BY <2>1, <2>2, <2>3, Bounds
<1>13. CASE SyncAttempt \/ SyncRoot
  <2>1. /\ UNCHANGED <<live, run, memory, audio>> /\ run \in Runs /\ Persist("root", run)
        /\ at \in {"sync-attempt", "sync-contract", "sync-retired", "sync-marker", "sync-abort-marker"}
        /\ at' \in {"retire-result", "scan", "pool", "failing", "abort-attempt"}
    BY <1>0, <1>13 DEF SyncAttempt, SyncRoot, Step, Goto, recording
  <2>2. disk'.contract = live.contract
    BY <1>0, <2>1, Persisted
  <2>3. Contract' = Contract
    BY <2>1 DEF Contract, memory
  <2> QED
    BY <2>1, <2>2, <2>3, Bounds
<1>14. CASE PoolDone \/ CheckFinal \/ CheckAborted \/ PublishJournal \/ PublishResult \/ Seal
            \/ SyncPublished \/ SyncSeal \/ AbortAttempt
  <2>1. /\ UNCHANGED <<run, memory, audio>>
        /\ at \notin Unknown \cup Fresh /\ at' \notin Fresh \cup {"pool"} /\ at' \notin Opened
        /\ live'.contract = live.contract
    <3>1. CASE PoolDone \/ CheckFinal \/ CheckAborted
      BY <1>0, <3>1 DEF PoolDone, CheckFinal, CheckAborted, Checks, Invalidates, Quiet, Goto, recording, Images, Opened
    <3>2. CASE PublishJournal
      BY <1>0, <3>2 DEF PublishJournal, Publishes, Goto, Fail, recording, Images, Opened
    <3>3. CASE PublishResult
      BY <1>0, <3>3 DEF PublishResult, Publishes, Goto, Fail, recording, Images, Opened
    <3>4. CASE Seal
      BY <1>0, <3>4 DEF Seal, Publishes, Goto, Fail, recording, Images, Opened
    <3>5. CASE SyncPublished \/ SyncSeal \/ AbortAttempt
      BY <3>5 DEF SyncPublished, SyncSeal, AbortAttempt, Step, Goto, recording, Opened
    <3> QED
      BY <1>14, <3>1, <3>2, <3>3, <3>4, <3>5
  <2>2. Contract' = Contract
    BY <2>1 DEF Contract, memory
  <2> QED
    BY <1>0, <2>1, <2>2, Bounds DEF Opened
<1>15. CASE Compare \/ PublishFailure
  <2>1. at # "none" /\ at' \in {"none", "failing", "sync-failure"} /\ run' = run
    BY <1>15 DEF Compare, PublishFailure, Publishes, Return, Forget, Quiet, Goto, Fail
  <2> QED
    BY <1>0, <2>1, Bounds
<1>16. ASSUME NEW w \in Windows, Window(w) \/ WindowError(w) PROVE Identified'
  <2>1. /\ at = "pool" /\ at' = at /\ run \in Runs /\ UNCHANGED <<run, memory, recording>>
    BY <1>16, WindowStep
  <2>2. live'.contract = live.contract /\ disk'.contract \in {disk.contract, live.contract}
    <3>1. CASE Begin(w) \/ Decode(w) \/ WindowError(w)
      BY <1>0, <3>1 DEF Begin, Decode, WindowError, InvalidatesFrom, Invalidates, Images
    <3>2. CASE Check(w)
      <4>1. /\ live' \in {live, [live EXCEPT !.marker = TRUE]}
            /\ disk' = disk \/ Persist("attempt", run)
        BY <3>2 DEF Check, InvalidatesFrom, Invalidates
      <4> QED
        BY <1>0, <2>1, <4>1, Persisted DEF Images
    <3>3. CASE CommitWindow(w)
      BY <1>0, <3>3 DEF CommitWindow, Images
    <3>4. CASE SyncWindow(w)
      <4>1. live' = live /\ (Persist("windows", run) \/ Persist("root", run))
        BY <3>4 DEF SyncWindow
      <4> QED
        BY <1>0, <2>1, <4>1, Persisted
    <3> QED
      BY <1>16, <3>1, <3>2, <3>3, <3>4 DEF Window
  <2> QED
    BY <1>1, <2>1, <2>2 DEF recording
<1> QED
  BY <1>2, <1>3, <1>4, <1>5, <1>6, <1>7, <1>8, <1>9, <1>10, <1>11, <1>12, <1>13, <1>14, <1>15, <1>16
     DEF Next, Main

\* Windows and contract change in three steps only; the device follows.
LEMMA SameWindows ==
    ASSUME TypeInv, [Next]_vars, ~WriteContract, ~LosePower, \A w \in Windows : ~CommitWindow(w)
    PROVE  /\ live'.contract = live.contract /\ live'.windows = live.windows
           /\ disk'.contract \in {disk.contract, live.contract}
           /\ disk'.windows \in {disk.windows, live.windows}
<1> USE DEF TypeInv, FilesTyped, PlaceTyped
<1>1. CASE UNCHANGED <<live, disk>>
  BY <1>1
<1>2. CASE UNCHANGED vars \/ Change \/ Invoke \/ WriteError \/ Kill
  BY <1>1, <1>2 DEF vars, Change, Invoke, WriteError, Kill
<1>3. CASE Writeback
  BY <1>3, Persisted DEF Writeback
<1>4. CASE OpenSource \/ HashSource \/ LoadAudio \/ Authenticate \/ Scan \/ PoolDone \/ Compare
  BY <1>1, <1>4 DEF OpenSource, HashSource, LoadAudio, Authenticate, Scan, PoolDone, Compare, Return, Quiet
<1>5. CASE NewAttempt
  BY <1>5 DEF NewAttempt, Images
<1>6. CASE RetireResult
  <2>1. run \in Runs /\ disk' = disk
    BY <1>6, RetireMoves
  <2> QED
    BY <1>6, <2>1, ResultRetired DEF RetireResult, Retires
<1>7. CASE RetireJournal
  <2>1. run \in Runs /\ disk' = disk
    BY <1>7, RetireMoves
  <2> QED
    BY <1>7, <2>1, JournalRetired DEF RetireJournal, Retires
<1>8. CASE SyncAttempt \/ SyncRoot \/ SyncPublished \/ SyncSeal \/ AbortAttempt \/ Finish \/ SyncFailure
  <2>1. run \in Runs /\ live' = live /\ (Persist("root", run) \/ Persist("attempt", run))
    BY <1>8 DEF SyncAttempt, SyncRoot, SyncPublished, SyncSeal, AbortAttempt, Finish, SyncFailure, Step
  <2> QED
    BY <2>1, Persisted
<1>9. CASE CheckFinal \/ CheckAborted
  BY <1>9 DEF CheckFinal, CheckAborted, Checks, Invalidates, Images
<1>10. CASE PublishJournal
  BY <1>10 DEF PublishJournal, Publishes, Images
<1>11. CASE PublishResult
  BY <1>11 DEF PublishResult, Publishes, Images
<1>12. CASE Seal
  BY <1>12 DEF Seal, Publishes, Images
<1>13. CASE PublishFailure
  BY <1>13 DEF PublishFailure, Publishes, Return, Images
<1>14. ASSUME NEW w \in Windows, Begin(w) \/ Decode(w) \/ WindowError(w)
       PROVE  /\ live'.contract = live.contract /\ live'.windows = live.windows /\ disk' = disk
  BY <1>14 DEF Begin, Decode, WindowError, InvalidatesFrom, Invalidates, Images
<1>15. ASSUME NEW w \in Windows, Check(w) \/ SyncWindow(w)
       PROVE  /\ live'.contract = live.contract /\ live'.windows = live.windows
              /\ disk'.contract \in {disk.contract, live.contract}
              /\ disk'.windows \in {disk.windows, live.windows}
  <2>1. run \in Runs
    BY <1>15 DEF Check, SyncWindow, Pooled
  <2>2. /\ live' \in {live, [live EXCEPT !.marker = TRUE]}
        /\ disk' = disk \/ (\E d \in {"root", "windows", "attempts", "attempt"} : Persist(d, run))
    BY <1>15 DEF Check, SyncWindow, InvalidatesFrom, Invalidates
  <2> QED
    BY <2>1, <2>2, Persisted DEF Images
<1> QED
  BY <1>2, <1>3, <1>4, <1>5, <1>6, <1>7, <1>8, <1>9, <1>10, <1>11, <1>12, <1>13, <1>14, <1>15
     DEF Next, Main, Window

\* The windows.
LEMMA WindowsKeptStep == SourceInv /\ [Next]_vars => WindowsKept'
<1> SUFFICES ASSUME SourceInv, [Next]_vars PROVE WindowsKept'
  OBVIOUS
<1> USE DEF SourceInv, WindowsKept
<1>0. live \in Images /\ disk \in Images
  BY DEF TypeInv, FilesTyped
<1>1. CASE ~WriteContract /\ ~LosePower /\ \A w \in Windows : ~CommitWindow(w)
  BY <1>1, SameWindows
<1>2. CASE WriteContract
  <2>1. live.contract = Absent /\ disk.contract = Absent
    BY <1>2 DEF WriteContract, Step, Identified, Fresh
  <2>2. live'.windows = live.windows /\ disk' = disk
    BY <1>0, <1>2 DEF WriteContract, Images
  <2> QED
    BY <2>1, <2>2
<1>3. CASE LosePower
  BY <1>0, <1>3, Survives
<1>4. ASSUME NEW w \in Windows, CommitWindow(w) PROVE WindowsKept'
  <2>1. at = "pool" /\ stage[w] = "write" /\ disk' = disk
    BY <1>4 DEF CommitWindow, Pooled
  <2>2. ~sealed /\ got[w] = source
    BY <2>1 DEF DecodedSource
  <2>3. live.contract = Contract /\ disk.contract = Contract
    BY <2>1, <2>2 DEF Identified, Unknown, Fresh
  <2>4. Contract \in Contracts /\ Contract.source = source
    BY <2>1 DEF Contract, Contracts, TypeInv, MemoryTyped, ClocksTyped, Unknown
  <2>5. /\ live'.contract = live.contract
        /\ live'.windows = [live.windows EXCEPT ![w] = got[w]]
    BY <1>0, <1>4 DEF CommitWindow, Images
  <2>6. \A v \in Windows : live'.windows[v] = IF v = w THEN source ELSE live.windows[v]
    BY <1>0, <2>2, <2>5 DEF Images
  <2> QED
    BY <2>1, <2>2, <2>3, <2>4, <2>5, <2>6, AbsentAssumption
<1> QED
  BY <1>1, <1>2, <1>3, <1>4

LEMMA SourceInvStep == SourceInv /\ [Next]_vars /\ ExactMetadata => SourceInv'
BY TypeInvStep, AsGuardedStep, IdentifiedStep, DecodedSourceStep, WindowsKeptStep DEF SourceInv

\* If metadata show every change, whatever the recording goes through, what is in windows/
\* was decoded from the contract's recording.
THEOREM WindowsOfSource == ASSUME ExactMetadata = TRUE PROVE Spec => []CachedWindowsAreOfSource
<1>0. SourceInv /\ [Next]_vars => SourceInv'
  BY SourceInvStep
<1>1. Spec => []SourceInv
  BY <1>0, InitSource, PTL DEF Spec
<1>2. SourceInv => CachedWindowsAreOfSource
  BY DEF SourceInv, WindowsKept, CachedWindowsAreOfSource
<1> QED
  BY <1>1, <1>2, PTL
-------------------------------------------------------------------------------
(* Seals *)

\* Only what makes, retires or seals a journal or result changes these parts.
LEMMA SameParts ==
    ASSUME TypeInv, [Next]_vars, ~LosePower, ~RetireResult, ~RetireJournal,
           ~PublishJournal, ~PublishResult, ~PublishFailure, ~Seal
    PROVE  live'.completion = live.completion /\ live'.result = live.result /\ live'.journal = live.journal
<1> USE DEF TypeInv, FilesTyped
<1>1. CASE UNCHANGED live
  BY <1>1
<1>2. CASE UNCHANGED vars \/ Change \/ Invoke \/ WriteError \/ Kill \/ Writeback
  BY <1>1, <1>2 DEF vars, Change, Invoke, WriteError, Kill, Writeback
<1>3. CASE OpenSource \/ HashSource \/ LoadAudio \/ Authenticate \/ Scan \/ PoolDone \/ Compare
  BY <1>1, <1>3 DEF OpenSource, HashSource, LoadAudio, Authenticate, Scan, PoolDone, Compare, Return, Quiet
<1>4. CASE NewAttempt \/ WriteContract
  BY <1>4 DEF NewAttempt, WriteContract, Images
<1>5. CASE SyncAttempt \/ SyncRoot \/ SyncPublished \/ SyncSeal \/ AbortAttempt \/ Finish \/ SyncFailure
  BY <1>5 DEF SyncAttempt, SyncRoot, SyncPublished, SyncSeal, AbortAttempt, Finish, SyncFailure
<1>6. CASE CheckFinal \/ CheckAborted
  BY <1>6 DEF CheckFinal, CheckAborted, Checks, Invalidates, Images
<1>7. ASSUME NEW w \in Windows, Window(w) \/ WindowError(w)
      PROVE  live'.completion = live.completion /\ live'.result = live.result /\ live'.journal = live.journal
  <2>1. \/ live' = live \/ live' = [live EXCEPT !.marker = TRUE]
        \/ live' = [live EXCEPT !.windows[w] = got[w]]
    BY <1>7 DEF Window, WindowError, Begin, Decode, Check, CommitWindow, SyncWindow, InvalidatesFrom, Invalidates
  <2> QED
    BY <2>1 DEF Images
<1> QED
  BY <1>2, <1>3, <1>4, <1>5, <1>6, <1>7 DEF Next, Main

\* The same for the marker.
LEMMA SameMarker ==
    ASSUME TypeInv, [Next]_vars, ~LosePower, ~CheckFinal, ~CheckAborted, at # "pool"
    PROVE  live'.marker = live.marker
<1> USE DEF TypeInv, FilesTyped, PlaceTyped
<1>1. CASE UNCHANGED live
  BY <1>1
<1>2. CASE UNCHANGED vars \/ Change \/ Invoke \/ WriteError \/ Kill \/ Writeback
  BY <1>1, <1>2 DEF vars, Change, Invoke, WriteError, Kill, Writeback
<1>3. CASE OpenSource \/ HashSource \/ LoadAudio \/ Authenticate \/ Scan \/ PoolDone \/ Compare
  BY <1>1, <1>3 DEF OpenSource, HashSource, LoadAudio, Authenticate, Scan, PoolDone, Compare, Return, Quiet
<1>4. CASE NewAttempt \/ WriteContract
  BY <1>4 DEF NewAttempt, WriteContract, Images
<1>5. CASE SyncAttempt \/ SyncRoot \/ SyncPublished \/ SyncSeal \/ AbortAttempt \/ Finish \/ SyncFailure
  BY <1>5 DEF SyncAttempt, SyncRoot, SyncPublished, SyncSeal, AbortAttempt, Finish, SyncFailure
<1>6. CASE RetireResult
  <2>1. run \in Runs
    BY <1>6, RetireMoves
  <2> QED
    BY <1>6, <2>1, ResultRetired DEF RetireResult, Retires
<1>7. CASE RetireJournal
  <2>1. run \in Runs
    BY <1>7, RetireMoves
  <2> QED
    BY <1>7, <2>1, JournalRetired DEF RetireJournal, Retires
<1>8. CASE PublishJournal
  BY <1>8 DEF PublishJournal, Publishes, Images
<1>9. CASE PublishResult
  BY <1>9 DEF PublishResult, Publishes, Images
<1>10. CASE Seal
  BY <1>10 DEF Seal, Publishes, Images
<1>11. CASE PublishFailure
  BY <1>11 DEF PublishFailure, Publishes, Return, Images
<1>12. ~(\E w \in Windows : Window(w) \/ WindowError(w))
  BY DEF Window, WindowError, Begin, Decode, Check, CommitWindow, SyncWindow, Pooled
<1> QED
  BY <1>2, <1>3, <1>4, <1>5, <1>6, <1>7, <1>8, <1>9, <1>10, <1>11, <1>12 DEF Next, Main

\* With one journal the device catches up with everything or nothing.
LEMMA DeviceSteps ==
    ASSUME TypeInv, [Next]_vars, SharedJournal
    PROVE  disk' = disk \/ (disk' = live /\ live' = live) \/ LosePower
<1>1. CASE UNCHANGED vars \/ Change \/ Invoke \/ WriteError \/ Kill \/ Writeback
  BY <1>1 DEF vars, Change, Invoke, WriteError, Kill, Writeback, Persist
<1>2. CASE OpenSource \/ HashSource \/ LoadAudio \/ Authenticate \/ Scan \/ PoolDone \/ Compare
  BY <1>2 DEF OpenSource, HashSource, LoadAudio, Authenticate, Scan, PoolDone, Compare, Return, Quiet
<1>3. CASE NewAttempt \/ WriteContract \/ RetireResult \/ RetireJournal \/ CheckFinal \/ CheckAborted
  BY <1>3, RetireMoves DEF NewAttempt, WriteContract, CheckFinal, CheckAborted, Checks
<1>4. CASE SyncAttempt \/ SyncRoot \/ SyncPublished \/ SyncSeal \/ AbortAttempt \/ Finish \/ SyncFailure
  BY <1>4 DEF SyncAttempt, SyncRoot, SyncPublished, SyncSeal, AbortAttempt, Finish, SyncFailure, Persist
<1>5. CASE PublishJournal \/ PublishResult \/ Seal \/ PublishFailure
  BY <1>5 DEF PublishJournal, PublishResult, Seal, PublishFailure, Publishes, Return
<1>6. ASSUME NEW w \in Windows, Window(w) \/ WindowError(w) PROVE disk' = disk \/ (disk' = live /\ live' = live)
  <2>1. CASE Begin(w) \/ Decode(w) \/ CommitWindow(w) \/ WindowError(w)
    BY <2>1 DEF Begin, Decode, CommitWindow, WindowError, InvalidatesFrom
  <2>2. CASE Check(w)
    BY <2>2 DEF Check, InvalidatesFrom, Persist
  <2>3. CASE SyncWindow(w)
    BY <2>3 DEF SyncWindow, Persist
  <2> QED
    BY <1>6, <2>1, <2>2, <2>3 DEF Window
<1> QED
  BY <1>1, <1>2, <1>3, <1>4, <1>5, <1>6 DEF Next, Main

\* A seal comes with what it seals.
Whole(image) ==
    image.completion # Absent =>
        /\ image.contract # Absent
        /\ image.result = image.completion.result /\ image.result.status = "complete"
        /\ image.journal = image.completion.journal
        /\ image.result.of = image.windows /\ image.journal.of = image.windows
        /\ \A w \in Windows : image.windows[w] # Absent

\* A run knows whether its directory is sealed.
KnowsSeal ==
    /\ at \in Opened \cup {"journal", "sync-journal", "result", "sync-result", "completion",
                          "abort-attempt", "abort-result"} => live.completion = Absent
    /\ at \in {"pool", "final", "abort", "sync-abort-marker"} => (sealed <=> live.completion # Absent)
    /\ at \in {"compare", "sync-completion"} => live.completion # Absent
    /\ at = "finish" /\ Status = "complete" => live.completion # Absent

\* A window that a thread returned is in windows/, but for its failures.
Merged ==
    /\ at \in Opened \cup {"pool"} =>
          \A w \in Windows : cached[w] # Absent => live.windows[w] = cached[w]
    /\ at = "pool" => \A w \in Windows :
          stage[w] \in {"sync", "returned"} /\ got[w] \in Contents => live.windows[w] = got[w]
    /\ at \in Merging => \A w \in Windows : got[w] \in Contents => live.windows[w] = got[w]

\* What the run published, it finds.
OwnParts ==
    /\ at \in {"sync-journal", "result", "sync-result", "completion"} =>
          live.journal = [run |-> run, of |-> got]
    /\ at \in {"sync-result", "completion"} =>
          live.result = [run |-> run, status |-> Status, of |-> got]
    /\ at = "completion" => Status = "complete"
    /\ at = "sync-failure" => live.result # Absent /\ live.result.run = run

\* A run that noticed a change, or found one noticed, does not get far.
NoChangeSeen ==
    /\ at \in Begun \cup Merging => ~live.marker
    /\ at = "pool" /\ live.marker =>
          \E w \in Windows : stage[w] \in {"marked", "returned"} /\ got[w] = "error"

Outcomes ==
    /\ outcome # "none" => at = "none"
    /\ outcome = "complete" => live.completion # Absent /\ ~live.marker

\* A durable seal is the one processes see.
DeviceFollows ==
    disk.completion # Absent =>
        /\ live.completion = disk.completion /\ live.windows = disk.windows
        /\ live.result = disk.result /\ live.journal = disk.journal

SealInv ==
    /\ SourceInv /\ Whole(live) /\ Whole(disk) /\ KnowsSeal /\ Merged /\ OwnParts
    /\ NoChangeSeen /\ Outcomes /\ DeviceFollows

LEMMA InitSeal == Init => SealInv
<1> SUFFICES ASSUME Init PROVE SealInv
  OBVIOUS
<1>1. live.completion = Absent /\ disk.completion = Absent /\ at = "none" /\ outcome = "none"
  BY DEF Init, Empty
<1> QED
  BY <1>1, InitSource DEF SealInv, Whole, KnowsSeal, Merged, OwnParts, NoChangeSeen, Outcomes,
     DeviceFollows, Opened, Begun, Fresh, Merging

\* Only Seal seals, and it seals what belongs together.
LEMMA SealSeals ==
    ASSUME SealInv, Seal
    PROVE  live.completion = Absent /\ live'.completion # Absent /\ Whole(live')
<1> USE DEF SealInv, SourceInv, TypeInv, FilesTyped
<1>1. at = "completion" /\ live.completion = Absent
  BY DEF Seal, KnowsSeal
<1>2. live' = [live EXCEPT !.completion = [journal |-> live.journal, result |-> live.result]]
  BY <1>1 DEF Seal, Publishes
<1>3. live.journal \in Journals /\ live.result \in Results
  BY <1>1 DEF SealableTyped, Images
<1>4. [journal |-> live.journal, result |-> live.result] \in Seals
  BY <1>3 DEF Seals
<1>5. /\ live'.completion = [journal |-> live.journal, result |-> live.result]
      /\ live'.journal = live.journal /\ live'.result = live.result
      /\ live'.windows = live.windows /\ live'.contract = live.contract
  BY <1>2 DEF Images
<1>6. /\ live.journal.of = got /\ live.result.of = got /\ live.result.status = "complete"
      /\ Status = "complete"
  BY <1>1 DEF OwnParts
<1>7. \A w \in Windows : got[w] \in Contents
  <2>1. got \in [Windows -> Decoded]
    BY <1>1 DEF PoolTyped, Merging
  <2> QED
    BY <1>6, <2>1, Bounds DEF Status
<1>8. live.windows = got
  <2>1. \A w \in Windows : live.windows[w] = got[w]
    BY <1>1, <1>7 DEF Merged, Merging
  <2>2. live.windows \in [Windows -> Contents \cup {Absent}] /\ got \in [Windows -> Decoded \cup {"error", Absent}]
    BY DEF Images, PoolTyped
  <2> QED
    BY <2>1, <2>2
<1>9. live.contract # Absent
  <2>1. live.contract = Contract /\ Contract \in Contracts
    BY <1>1 DEF Identified, Unknown, Fresh, Contract, Contracts, MemoryTyped, ClocksTyped
  <2> QED
    BY <2>1, AbsentAssumption
<1> QED
  BY <1>1, <1>4, <1>5, <1>6, <1>7, <1>8, <1>9, AbsentAssumption, Bounds DEF Whole

\* What is sealed stays, unless the power goes.
LEMMA SealedStays ==
    ASSUME SealInv, [Next]_vars, ~LosePower, live.completion # Absent
    PROVE  /\ live'.completion = live.completion /\ live'.windows = live.windows
           /\ live'.result = live.result /\ live'.journal = live.journal /\ live'.contract = live.contract
<1> USE DEF SealInv, SourceInv, TypeInv, FilesTyped
<1>1. live.result # Absent /\ live.journal # Absent
  BY AbsentAssumption DEF Whole, Images, Seals
<1>2. ~WriteContract
  BY DEF WriteContract, Step, Whole, Identified, Fresh
<1>3. \A w \in Windows : ~CommitWindow(w)
  BY DEF CommitWindow, Pooled, KnowsSeal, DecodedSource
<1>4. ~RetireResult /\ ~RetireJournal /\ ~Seal
  BY DEF RetireResult, RetireJournal, Seal, KnowsSeal, Opened
<1>5. CASE PublishJournal \/ PublishResult \/ PublishFailure
  <2>1. live' = live
    BY <1>1, <1>5 DEF PublishJournal, PublishResult, PublishFailure, Publishes, Return
  <2> QED
    BY <2>1
<1> QED
  BY <1>2, <1>3, <1>4, <1>5, SameWindows, SameParts

LEMMA UnsealedStays ==
    ASSUME SealInv, [Next]_vars, ~LosePower, ~Seal, live.completion = Absent
    PROVE  live'.completion = Absent
<1> USE DEF SealInv, SourceInv, TypeInv, FilesTyped
<1>1. CASE RetireResult
  <2>1. run \in Runs
    BY <1>1, RetireMoves DEF PlaceTyped
  <2> QED
    BY <1>1, <2>1, ResultRetired DEF RetireResult, Retires
<1>2. CASE RetireJournal
  <2>1. run \in Runs
    BY <1>2, RetireMoves DEF PlaceTyped
  <2> QED
    BY <1>2, <2>1, JournalRetired DEF RetireJournal, Retires
<1>3. CASE PublishJournal
  BY <1>3 DEF PublishJournal, Publishes, Images
<1>4. CASE PublishResult
  BY <1>4 DEF PublishResult, Publishes, Images
<1>5. CASE PublishFailure
  BY <1>5 DEF PublishFailure, Publishes, Return, Images
<1> QED
  BY <1>1, <1>2, <1>3, <1>4, <1>5, SameParts

\* Seals, live and durable.
LEMMA WholeStep == SealInv /\ [Next]_vars /\ SharedJournal => Whole(live)' /\ Whole(disk)' /\ DeviceFollows'
<1> SUFFICES ASSUME SealInv, [Next]_vars, SharedJournal PROVE Whole(live') /\ Whole(disk') /\ DeviceFollows'
  BY DEF Whole
<1> USE DEF SealInv
<1>1. CASE LosePower
  <2>1. live \in Images /\ disk \in Images
    BY DEF SourceInv, TypeInv, FilesTyped
  <2> QED
    BY <1>1, <2>1, Survives DEF Whole, DeviceFollows
<1>2. CASE ~LosePower
  <2>1. Whole(live')
    <3>1. CASE live.completion # Absent
      BY <1>2, <3>1, SealedStays DEF Whole
    <3>2. CASE live.completion = Absent /\ ~Seal
      BY <1>2, <3>2, UnsealedStays DEF Whole
    <3>3. CASE Seal
      BY <3>3, SealSeals
    <3> QED
      BY <3>1, <3>2, <3>3
  <2>2. CASE disk' = disk
    BY <1>2, <2>1, <2>2, SealedStays DEF Whole, DeviceFollows
  <2>3. CASE disk' = live /\ live' = live
    BY <2>1, <2>3 DEF DeviceFollows
  <2> QED
    BY <1>2, <2>1, <2>2, <2>3, DeviceSteps DEF SourceInv
<1> QED
  BY <1>1, <1>2

LEMMA KnowsSealStep == SealInv /\ [Next]_vars => KnowsSeal'
<1> SUFFICES ASSUME SealInv, [Next]_vars PROVE KnowsSeal'
  OBVIOUS
<1> USE DEF SealInv, KnowsSeal, Opened
<1>0. TypeInv
  BY DEF SourceInv
<1>1. CASE at' \in {"none", "opened", "hash", "load", "read", "recheck", "authenticate", "contract",
                   "sync-contract", "scan", "failing", "sync-failure", "sync-marker"}
  BY <1>1
<1>2. CASE UNCHANGED <<at, sealed, got>> /\ live'.completion = live.completion
  BY <1>2 DEF Status
<1>3. CASE UNCHANGED vars \/ Change \/ Writeback
  BY <1>2, <1>3 DEF vars, Change, Writeback, memory, pool
<1>4. CASE Kill \/ LosePower \/ Finish \/ SyncFailure \/ Invoke \/ WriteError
  BY <1>1, <1>4 DEF Kill, LosePower, Finish, SyncFailure, Invoke, WriteError, Forget, Goto, Fail
<1>5. CASE Compare \/ PublishFailure \/ OpenSource \/ HashSource \/ LoadAudio \/ Authenticate \/ WriteContract
  BY <1>1, <1>5 DEF Compare, PublishFailure, Publishes, Return, Forget, Goto, Fail, OpenSource,
     HashSource, LoadAudio, Authenticate, WriteContract, Step
<1>6. CASE Scan
  BY <1>6 DEF Scan, Quiet, Goto, Fail
<1>7. CASE NewAttempt \/ SyncAttempt \/ RetireResult \/ RetireJournal
  <2>1. live'.completion = live.completion
    <3>1. CASE NewAttempt \/ SyncAttempt
      BY <1>0, <3>1, SameParts DEF NewAttempt, SyncAttempt, Step, LosePower, Forget, Goto, RetireResult,
         RetireJournal, PublishJournal, PublishResult, PublishFailure, Seal
    <3>2. CASE RetireResult \/ RetireJournal
      <4>1. live.completion = Absent /\ ~LosePower /\ ~Seal
        BY <3>2, RetireMoves DEF LosePower, Forget, Seal
      <4> QED
        BY <4>1, UnsealedStays
    <3> QED
      BY <1>7, <3>1, <3>2
  <2>2. at \in Opened /\ at' \in Opened
    BY <1>7, RetireMoves DEF NewAttempt, SyncAttempt, Step, Goto
  <2> QED
    BY <2>1, <2>2
<1>8. CASE SyncRoot
  <2>1. live' = live /\ UNCHANGED <<sealed, got>>
    BY <1>8 DEF SyncRoot, memory, pool
  <2>2. CASE at = "sync-retired"
    BY <1>8, <2>1, <2>2 DEF SyncRoot, Step, Goto, SourceInv, DecodedSource
  <2>3. CASE at = "sync-abort-marker"
    BY <1>8, <2>1, <2>3 DEF SyncRoot, Step, Goto
  <2> QED
    BY <1>1, <1>8, <2>2, <2>3 DEF SyncRoot, Step, Goto
<1>9. CASE PoolDone
  BY <1>9 DEF PoolDone, Quiet, Goto, memory
<1>10. CASE CheckFinal \/ CheckAborted
  <2>1. live'.completion = live.completion /\ UNCHANGED <<sealed, got>>
    BY <1>0, <1>10 DEF CheckFinal, CheckAborted, Checks, Invalidates, memory, pool, TypeInv, FilesTyped, Images
  <2>2. CASE CheckFinal
    BY <1>1, <2>1, <2>2 DEF CheckFinal, Checks, Goto
  <2>3. CASE CheckAborted
    BY <1>1, <2>1, <2>3 DEF CheckAborted, Checks, Goto
  <2> QED
    BY <1>10, <2>2, <2>3
<1>11. CASE PublishJournal \/ PublishResult
  <2>1. live.completion = Absent /\ at' \in {"sync-journal", "sync-result", "failing"}
    BY <1>11 DEF PublishJournal, PublishResult, Publishes, Goto, Fail
  <2>2. live'.completion = Absent
    BY <1>11, <2>1, UnsealedStays DEF PublishJournal, PublishResult, LosePower, Seal, Publishes, Forget, Goto, Fail
  <2> QED
    BY <2>1, <2>2
<1>12. CASE SyncPublished
  BY <1>12 DEF SyncPublished, Step, Goto, pool, Status
<1>13. CASE Seal
  BY <1>13, SealSeals DEF Seal, Publishes, Goto, Fail
<1>14. CASE SyncSeal \/ AbortAttempt
  BY <1>14 DEF SyncSeal, AbortAttempt, Step, Goto
<1>15. ASSUME NEW w \in Windows, Window(w) \/ WindowError(w) PROVE KnowsSeal'
  <2>1. at = "pool" /\ at' = "pool" /\ sealed' = sealed
    BY <1>0, <1>15, WindowStep DEF memory
  <2>2. live'.completion = live.completion
    BY <1>0, <2>1, SameParts DEF LosePower, Forget, RetireResult, RetireJournal, PublishJournal, PublishResult,
       PublishFailure, Seal
  <2> QED
    BY <2>1, <2>2
<1> QED
  BY <1>3, <1>4, <1>5, <1>6, <1>7, <1>8, <1>9, <1>10, <1>11, <1>12, <1>13, <1>14, <1>15 DEF Next, Main

LEMMA MergedStep == SealInv /\ [Next]_vars => Merged'
<1> SUFFICES ASSUME SealInv, [Next]_vars PROVE Merged'
  OBVIOUS
<1> USE DEF SealInv, Merged, Opened, Merging
<1>0. TypeInv
  BY DEF SourceInv
<1>1. CASE at' \notin Opened \cup Merging \cup {"pool"}
  BY <1>1
<1>2. CASE UNCHANGED <<at, cached, stage, got, live>>
  BY <1>2
<1>3. CASE UNCHANGED vars \/ Change \/ Writeback
  BY <1>2, <1>3 DEF vars, Change, Writeback, memory, pool
<1>4. CASE Kill \/ LosePower \/ Finish \/ SyncFailure \/ Invoke \/ WriteError
  BY <1>1, <1>4 DEF Kill, LosePower, Finish, SyncFailure, Invoke, WriteError, Forget, Goto, Fail
<1>5. CASE Compare \/ PublishFailure \/ OpenSource \/ HashSource \/ LoadAudio \/ Authenticate \/ WriteContract
  BY <1>1, <1>5 DEF Compare, PublishFailure, Publishes, Return, Forget, Goto, Fail, OpenSource,
     HashSource, LoadAudio, Authenticate, WriteContract, Step
<1>6. CASE Scan
  <2>1. at' \in {"attempt", "pool", "failing"} /\ cached' = live'.windows
    BY <1>6 DEF Scan, Quiet, Goto, Fail
  <2>2. \A w \in Windows : stage'[w] = "todo"
    BY <1>0, <1>6 DEF Scan, Quiet, pool, TypeInv, PoolTyped, Begun
  <2> QED
    BY <2>1, <2>2
<1>7. CASE NewAttempt \/ SyncAttempt \/ RetireResult \/ RetireJournal
  <2>1. at \in Opened /\ at' \in Opened /\ cached' = cached
    BY <1>7, RetireMoves DEF NewAttempt, SyncAttempt, Step, Goto, memory
  <2>2. live'.windows = live.windows
    BY <1>0, <2>1, SameWindows DEF WriteContract, LosePower, Forget, CommitWindow, Pooled, Step
  <2> QED
    BY <2>1, <2>2
<1>8. CASE SyncRoot
  <2>1. live' = live /\ UNCHANGED <<cached, stage, got>>
    BY <1>8 DEF SyncRoot, memory, pool
  <2>2. CASE at = "sync-retired"
    <3>1. \A w \in Windows : stage'[w] = "todo"
      BY <1>0, <2>1, <2>2 DEF TypeInv, PoolTyped, Begun
    <3> QED
      BY <1>8, <2>1, <2>2, <3>1 DEF SyncRoot, Step, Goto
  <2> QED
    BY <1>1, <1>8, <2>2 DEF SyncRoot, Step, Goto
<1>9. CASE PoolDone
  BY <1>9 DEF PoolDone, Quiet, Goto, memory, pool
<1>10. CASE CheckFinal \/ CheckAborted
  <2>1. live'.windows = live.windows /\ UNCHANGED <<cached, stage, got>>
    BY <1>0, <1>10 DEF CheckFinal, CheckAborted, Checks, Invalidates, memory, pool, TypeInv, FilesTyped, Images
  <2>2. CASE CheckFinal
    BY <1>1, <2>1, <2>2 DEF CheckFinal, Checks, Goto
  <2>3. CASE CheckAborted
    BY <1>1, <2>1, <2>3 DEF CheckAborted, Checks, Goto
  <2> QED
    BY <1>10, <2>2, <2>3
<1>11. CASE PublishJournal \/ PublishResult \/ Seal \/ SyncPublished \/ SyncSeal \/ AbortAttempt
  <2>1. /\ at \in Merging \/ at' = "abort-result"
        /\ at' \notin Opened \cup {"pool"} /\ got' = got
        /\ at \notin {"none", "pool", "contract"} /\ at' # "none"
    BY <1>11 DEF PublishJournal, PublishResult, Seal, Publishes, SyncPublished, SyncSeal, AbortAttempt, Step, Goto, Fail, pool
  <2>2. live'.windows = live.windows
    BY <1>0, <2>1, SameWindows DEF WriteContract, LosePower, Forget, CommitWindow, Pooled, Step
  <2> QED
    BY <2>1, <2>2
<1>15. ASSUME NEW w \in Windows, Window(w) \/ WindowError(w) PROVE Merged'
  <2>1. /\ at = "pool" /\ at' = "pool" /\ cached' = cached
        /\ stage \in [Windows -> Stages] /\ got \in [Windows -> Decoded \cup {"error", Absent}]
        /\ cached \in [Windows -> Contents \cup {Absent}] /\ live \in Images
        /\ stage[w] = "marked" => got[w] = "error"
        /\ \A v \in Windows \ {w} : stage'[v] = stage[v] /\ got'[v] = got[v]
    BY <1>0, <1>15, WindowStep DEF memory, TypeInv, PoolTyped, Stages, MemoryTyped, FilesTyped
  <2>2. CASE CommitWindow(w)
    <3>1. /\ cached[w] = Absent /\ stage[w] = "write" /\ got' = got
          /\ live'.windows = [live.windows EXCEPT ![w] = got[w]]
      BY <2>1, <2>2 DEF CommitWindow, SourceInv, DecodedSource, Images
    <3>2. \A v \in Windows : live'.windows[v] = IF v = w THEN got[w] ELSE live.windows[v]
      BY <2>1, <3>1 DEF Images
    <3> QED
      BY <2>1, <3>1, <3>2
  <2>3. CASE Begin(w) \/ Decode(w) \/ Check(w) \/ SyncWindow(w) \/ WindowError(w)
    <3>1. live'.windows = live.windows
      BY <2>1, <2>3 DEF Begin, Decode, Check, SyncWindow, WindowError, InvalidatesFrom, Invalidates, Images
    <3>2. stage'[w] \in {"sync", "returned"} /\ got'[w] \in Contents => live'.windows[w] = got'[w]
      <4>1. CASE Begin(w)
        <5>1. \/ Moves(w, "marked")
              \/ Returns(w, "error")
              \/ cached[w] # Absent /\ Returns(w, cached[w])
              \/ Moves(w, "read")
          BY <4>1 DEF Begin, InvalidatesFrom
        <5> QED
          BY <2>1, <3>1, <5>1, Bounds DEF Moves, Returns
      <4>2. CASE Decode(w) \/ Check(w)
        <5>1. \/ Moves(w, "check") \/ Moves(w, "marked") \/ Moves(w, "write")
              \/ Returns(w, "error")
              \/ got[w] \notin Contents /\ got' = got
          BY <4>2 DEF Decode, Check, InvalidatesFrom
        <5> QED
          BY <2>1, <5>1, Bounds DEF Moves, Returns
      <4>3. CASE SyncWindow(w) \/ WindowError(w)
        <5>1. \/ stage[w] \in {"sync", "marked"} /\ got' = got
              \/ Returns(w, "error")
          BY <4>3 DEF SyncWindow, WindowError
        <5> QED
          BY <2>1, <3>1, <5>1, Bounds DEF Returns
      <4> QED
        BY <2>3, <4>1, <4>2, <4>3
    <3> QED
      BY <2>1, <3>1, <3>2
  <2> QED
    BY <1>15, <2>2, <2>3 DEF Window
<1> QED
  BY <1>3, <1>4, <1>5, <1>6, <1>7, <1>8, <1>9, <1>10, <1>11, <1>15 DEF Next, Main

LEMMA OwnPartsStep == TypeInv /\ OwnParts /\ [Next]_vars => OwnParts'
<1> SUFFICES ASSUME TypeInv, OwnParts, [Next]_vars PROVE OwnParts'
  OBVIOUS
<1> DEFINE Own == {"sync-journal", "result", "sync-result", "completion", "sync-failure"}
<1> USE DEF OwnParts
<1>0. TypeInv /\ live \in Images /\ (at # "none" => run \in Runs)
  BY DEF TypeInv, FilesTyped, PlaceTyped
<1>1. CASE at' \notin Own
  BY <1>1
<1>2. CASE UNCHANGED <<at, run, got, live>>
  BY <1>2 DEF Status
<1>3. CASE UNCHANGED vars \/ Change \/ Writeback
  BY <1>2, <1>3 DEF vars, Change, Writeback, pool
<1>4. CASE Kill \/ LosePower \/ Finish \/ SyncFailure \/ Invoke \/ WriteError
  BY <1>1, <1>4 DEF Kill, LosePower, Finish, SyncFailure, Invoke, WriteError, Forget, Goto, Fail
<1>5. CASE Compare \/ OpenSource \/ HashSource \/ LoadAudio \/ Authenticate \/ WriteContract \/ Scan
  BY <1>1, <1>5 DEF Compare, Return, Forget, Goto, Fail, OpenSource,
     HashSource, LoadAudio, Authenticate, WriteContract, Step, Scan
<1>6. CASE NewAttempt \/ SyncAttempt \/ RetireResult \/ RetireJournal \/ SyncRoot \/ PoolDone
  BY <1>1, <1>6, RetireMoves DEF NewAttempt, SyncAttempt, SyncRoot, PoolDone, Step, Goto
<1>7. CASE CheckFinal \/ CheckAborted \/ SyncSeal \/ AbortAttempt \/ Seal
  BY <1>1, <1>7 DEF CheckFinal, CheckAborted, Checks, SyncSeal, AbortAttempt, Seal, Publishes, Step, Goto, Fail
<1>8. CASE PublishJournal
  <2>1. CASE live.journal = Absent
    <3>1. /\ live' = [live EXCEPT !.journal = [run |-> run, of |-> got]] /\ at' = "sync-journal"
          /\ UNCHANGED <<run, got>>
      BY <1>8, <2>1 DEF PublishJournal, Publishes, Goto, pool
    <3> QED
      BY <1>0, <3>1 DEF Images
  <2> QED
    BY <1>1, <1>8, <2>1 DEF PublishJournal, Publishes, Goto, Fail
<1>9. CASE PublishResult
  <2>1. CASE live.result = Absent
    <3>1. /\ live' = [live EXCEPT !.result = [run |-> run, status |-> Status, of |-> got]]
          /\ at = "result" /\ at' = "sync-result" /\ UNCHANGED <<run, got>>
      BY <1>9, <2>1 DEF PublishResult, Publishes, Goto, pool
    <3>2. Status' = Status
      BY <3>1 DEF Status
    <3> QED
      BY <1>0, <3>1, <3>2 DEF Images
  <2> QED
    BY <1>1, <1>9, <2>1 DEF PublishResult, Publishes, Goto, Fail
<1>10. CASE PublishFailure
  <2>1. CASE at' = "sync-failure"
    <3>1. at # "none" /\ live' = [live EXCEPT !.result = FailedResult] /\ UNCHANGED run
      BY <1>10, <2>1 DEF PublishFailure, Publishes, Goto, Fail, Return, Forget
    <3>2. FailedResult \in Results /\ FailedResult.run = run
      BY <1>0, <3>1, Bounds DEF FailedResult, Results
    <3> QED
      BY <1>0, <2>1, <3>1, <3>2, AbsentAssumption DEF Images
  <2> QED
    BY <1>1, <1>10, <2>1 DEF PublishFailure, Publishes, Goto, Fail, Return, Forget
<1>11. CASE SyncPublished
  <2>1. live' = live /\ UNCHANGED <<run, got>>
    BY <1>11 DEF SyncPublished, Step, pool
  <2>2. Status' = Status
    BY <2>1 DEF Status
  <2> QED
    BY <1>11, <2>1, <2>2 DEF SyncPublished, Step, Goto
<1>12. ASSUME NEW w \in Windows, Window(w) \/ WindowError(w) PROVE OwnParts'
  BY <1>0, <1>1, <1>12, WindowStep
<1> QED
  BY <1>3, <1>4, <1>5, <1>6, <1>7, <1>8, <1>9, <1>10, <1>11, <1>12 DEF Next, Main

LEMMA NoChangeSeenStep == SealInv /\ [Next]_vars => NoChangeSeen'
<1> SUFFICES ASSUME SealInv, [Next]_vars PROVE NoChangeSeen'
  OBVIOUS
<1> DEFINE Clean == Begun \cup Merging
<1> USE DEF SealInv, NoChangeSeen, Begun, Fresh, Opened, Merging
<1>0. TypeInv /\ live \in Images
  BY DEF SourceInv, TypeInv, FilesTyped
<1>1. CASE at' \notin Clean \cup {"pool"}
  BY <1>1
<1>2. CASE UNCHANGED <<at, stage, got, live>>
  BY <1>2
<1>3. CASE UNCHANGED vars \/ Change \/ Writeback
  BY <1>2, <1>3 DEF vars, Change, Writeback, pool
<1>4. CASE Kill \/ LosePower \/ Finish \/ SyncFailure \/ Invoke \/ WriteError
  BY <1>1, <1>4 DEF Kill, LosePower, Finish, SyncFailure, Invoke, WriteError, Forget, Goto, Fail
<1>5. CASE Compare \/ PublishFailure
  BY <1>1, <1>5 DEF Compare, PublishFailure, Publishes, Return, Forget, Goto, Fail
<1>6. CASE OpenSource
  BY <1>6 DEF OpenSource, Quiet, Goto, Fail
<1>7. CASE at \in Clean /\ at' \in Clean \cup {"pool"} /\ ~CheckFinal
  <2>1. ~LosePower /\ ~CheckAborted /\ at # "pool"
    BY <1>7 DEF LosePower, Forget, CheckAborted, Checks
  <2> QED
    BY <1>0, <1>7, <2>1, SameMarker
<1>8. CASE HashSource \/ LoadAudio \/ Authenticate \/ WriteContract \/ Scan \/ NewAttempt \/ SyncAttempt
  BY <1>1, <1>7, <1>8 DEF HashSource, LoadAudio, Authenticate, WriteContract, Scan, NewAttempt,
     SyncAttempt, Step, CheckFinal, Checks
<1>9. CASE RetireResult \/ RetireJournal
  BY <1>1, <1>7, <1>9, RetireMoves DEF CheckFinal, Checks
<1>10. CASE SyncRoot
  BY <1>1, <1>7, <1>10 DEF SyncRoot, Step, Goto, CheckFinal, Checks
<1>11. CASE PoolDone
  BY <1>11 DEF PoolDone, Quiet, Goto
<1>12. CASE CheckFinal
  BY <1>1, <1>12 DEF CheckFinal, Checks, Goto
<1>13. CASE CheckAborted
  BY <1>1, <1>13 DEF CheckAborted, Checks, Goto
<1>14. CASE PublishJournal \/ PublishResult \/ Seal \/ SyncPublished \/ SyncSeal \/ AbortAttempt
  BY <1>1, <1>7, <1>14 DEF PublishJournal, PublishResult, Seal, Publishes, SyncPublished, SyncSeal,
     AbortAttempt, Step, Goto, Fail, CheckFinal, Checks
<1>15. ASSUME NEW w \in Windows, Window(w) \/ WindowError(w) PROVE NoChangeSeen'
  <2>1. /\ at = "pool" /\ at' = "pool"
        /\ stage \in [Windows -> Stages] /\ got \in [Windows -> Decoded \cup {"error", Absent}]
        /\ \A v \in Windows \ {w} : stage'[v] = stage[v] /\ got'[v] = got[v]
    BY <1>0, <1>15, WindowStep DEF TypeInv, PoolTyped, Stages
  <2>2. \/ live'.marker = live.marker
        \/ stage'[w] \in {"marked", "returned"} /\ got'[w] = "error"
    <3>1. \/ live' = live \/ live' = [live EXCEPT !.windows[w] = got[w]]
          \/ Moves(w, "marked") /\ got' = [got EXCEPT ![w] = "error"]
          \/ Returns(w, "error")
      BY <1>15 DEF Window, WindowError, Begin, Decode, Check, CommitWindow, SyncWindow, InvalidatesFrom
    <3> QED
      BY <1>0, <2>1, <3>1 DEF Images, Moves, Returns
  <2>3. stage[w] \in {"marked", "returned"} /\ got[w] = "error" =>
           stage'[w] \in {"marked", "returned"} /\ got'[w] = "error"
    BY <1>15, <2>1 DEF Window, WindowError, Begin, Decode, Check, CommitWindow, SyncWindow, Moves, Returns
  <2> QED
    BY <2>1, <2>2, <2>3
<1> QED
  BY <1>3, <1>4, <1>5, <1>6, <1>8, <1>9, <1>10, <1>11, <1>12, <1>13, <1>14, <1>15 DEF Next, Main

LEMMA OutcomesStep == SealInv /\ [Next]_vars => Outcomes'
<1> SUFFICES ASSUME SealInv, [Next]_vars PROVE Outcomes'
  OBVIOUS
<1> USE DEF SealInv, Outcomes
<1>1. CASE UNCHANGED <<at, outcome, live>>
  BY <1>1
<1>2. CASE UNCHANGED vars \/ Change \/ Writeback
  BY <1>1, <1>2 DEF vars, Change, Writeback
<1>3. CASE outcome' = "none"
  BY <1>3
<1>4. CASE at # "none" /\ outcome' = outcome
  BY <1>3, <1>4
<1>5. CASE Kill \/ LosePower \/ SyncFailure \/ Invoke
  BY <1>5 DEF Kill, LosePower, SyncFailure, Invoke, Forget
<1>6. CASE WriteError \/ OpenSource \/ HashSource \/ LoadAudio \/ Authenticate \/ Scan \/ PoolDone
  BY <1>4, <1>6 DEF WriteError, OpenSource, HashSource, LoadAudio, Authenticate, Scan, PoolDone, Quiet,
     Writing, Syncing
<1>7. CASE WriteContract \/ NewAttempt \/ SyncAttempt \/ SyncRoot \/ SyncPublished \/ SyncSeal \/ AbortAttempt
  BY <1>4, <1>7 DEF WriteContract, NewAttempt, SyncAttempt, SyncRoot, SyncPublished, SyncSeal, AbortAttempt, Step
<1>8. CASE RetireResult \/ RetireJournal
  BY <1>4, <1>8, RetireMoves
<1>9. CASE CheckFinal \/ CheckAborted \/ PublishJournal \/ PublishResult \/ Seal
  BY <1>4, <1>9 DEF CheckFinal, CheckAborted, Checks, PublishJournal, PublishResult, Seal, Publishes
<1>10. CASE Compare
  <2>1. live.completion # Absent /\ ~live.marker /\ at = "compare"
    BY <1>10 DEF Compare, KnowsSeal, NoChangeSeen, Merging
  <2> QED
    BY <1>4, <1>10, <2>1 DEF Compare, Return, Forget, Quiet
<1>11. CASE Finish
  <2>1. at = "finish" /\ live' = live /\ at' = "none" /\ outcome' = Status
    BY <1>11 DEF Finish, Forget
  <2> QED
    BY <2>1 DEF KnowsSeal, NoChangeSeen, Merging
<1>12. CASE PublishFailure
  BY <1>4, <1>12 DEF PublishFailure, Publishes, Return, Forget
<1>13. ASSUME NEW w \in Windows, Window(w) \/ WindowError(w) PROVE Outcomes'
  BY <1>4, <1>13, WindowStep DEF SourceInv
<1> QED
  BY <1>2, <1>5, <1>6, <1>7, <1>8, <1>9, <1>10, <1>11, <1>12, <1>13 DEF Next, Main

LEMMA SealInvStep ==
    SealInv /\ [Next]_vars /\ ExactMetadata /\ SharedJournal => SealInv'
<1> SUFFICES ASSUME SealInv, [Next]_vars, ExactMetadata, SharedJournal PROVE SealInv'
  OBVIOUS
<1>1. SourceInv'
  BY SourceInvStep DEF SealInv
<1>2. Whole(live)' /\ Whole(disk)' /\ DeviceFollows'
  BY WholeStep
<1> QED
  BY <1>1, <1>2, KnowsSealStep, MergedStep, OwnPartsStep, NoChangeSeenStep, OutcomesStep
     DEF SealInv, SourceInv

LEMMA SealInvariant ==
    ASSUME ExactMetadata = TRUE, SharedJournal = TRUE PROVE Spec => []SealInv
<1>1. SealInv /\ [Next]_vars => SealInv'
  BY SealInvStep
<1> QED
  BY <1>1, InitSeal, PTL DEF Spec

\* A seal, as seen and on the device, comes with every window and with the journal and
\* result that merge them; who returns a complete result has sealed it.
THEOREM SealsAreWhole ==
    ASSUME ExactMetadata = TRUE, SharedJournal = TRUE PROVE Spec => []CompletionIsWhole
<1>1. SealInv => CompletionIsWhole
  <2> SUFFICES ASSUME SealInv PROVE CompletionIsWhole
    OBVIOUS
  <2>1. ASSUME NEW image \in {live, disk}, image.completion # Absent, NEW w \in Windows
        PROVE  image.windows[w] = image.contract.source
    <3>1. image.windows[w] # Absent
      BY <2>1 DEF SealInv, Whole
    <3> QED
      BY <2>1, <3>1 DEF SealInv, SourceInv, WindowsKept
  <2>2. ASSUME outcome = "complete", NEW w \in Windows
        PROVE  live.result.of[w] = live.contract.source
    BY <2>1, <2>2 DEF SealInv, Outcomes, Whole
  <2>3. outcome = "complete" => live.completion # Absent /\ ~live.marker
    BY DEF SealInv, Outcomes
  <2> QED
    BY <2>1, <2>2, <2>3 DEF SealInv, Whole, CompletionIsWhole
<1> QED
  BY <1>1, SealInvariant, PTL

\* What was invalidated is not completed, and a durable completion stays what it is.
THEOREM CompletionsAreFinal ==
    ASSUME ExactMetadata = TRUE, SharedJournal = TRUE PROVE Spec => OutcomeIsFinal
<1> DEFINE Final ==
      /\ live.marker /\ live.completion = Absent => live'.completion = Absent
      /\ disk.completion # Absent =>
            /\ live'.completion = live.completion /\ live'.windows = live.windows
            /\ live'.result = live.result /\ live'.journal = live.journal
<1>1. SealInv /\ [Next]_vars => [Final]_vars
  <2> SUFFICES ASSUME SealInv, [Next]_vars PROVE Final
    OBVIOUS
  <2>0. live \in Images /\ disk \in Images
    BY DEF SealInv, SourceInv, TypeInv, FilesTyped
  <2>1. CASE LosePower
    BY <2>0, <2>1, Survives DEF SealInv, DeviceFollows
  <2>2. CASE ~LosePower
    <3>1. Seal => ~live.marker
      BY DEF Seal, SealInv, NoChangeSeen, Merging
    <3> QED
      BY <2>2, <3>1, SealedStays, UnsealedStays DEF SealInv, DeviceFollows
  <2> QED
    BY <2>1, <2>2
<1> QED
  BY <1>1, SealInvariant, PTL DEF Spec, OutcomeIsFinal
-------------------------------------------------------------------------------
(* Nothing published is lost *)

\* What was published is in an image: in its place, or with an attempt.
Kept(image) ==
    /\ \A r \in Runs : <<"attempt", r>> \in published => r \in image.attempts
    /\ \A r \in Runs : <<"journal", r>> \in published =>
          \/ \E a \in image.attempts : <<"journal", r>> \in image.prior[a]
          \/ image.journal # Absent /\ image.journal.run = r
    /\ \A r \in Runs : <<"result", r>> \in published =>
          \/ \E a \in image.attempts : <<"result", r>> \in image.prior[a]
          \/ image.result # Absent /\ image.result.run = r

\* An attempt that retires earlier parts has its directory.
OwnAttempt == at \in Opened \ {"attempt"} => run \in live.attempts

KeptInv == TypeInv /\ OwnParts /\ OwnAttempt /\ Kept(live) /\ Kept(disk)

\* j has everything that i has.
Includes(j, i) ==
    /\ i.attempts \subseteq j.attempts
    /\ \A a \in i.attempts : i.prior[a] \subseteq j.prior[a]
    /\ i.journal # Absent =>
          \/ j.journal = i.journal
          \/ \E a \in j.attempts : <<"journal", i.journal.run>> \in j.prior[a]
    /\ i.result # Absent =>
          \/ j.result = i.result
          \/ \E a \in j.attempts : <<"result", i.result.run>> \in j.prior[a]

LEMMA IncludesKeeps == ASSUME NEW i, NEW j, Kept(i), Includes(j, i) PROVE Kept(j)
BY DEF Kept, Includes

LEMMA LiveGrows ==
    ASSUME TypeInv, OwnAttempt, [Next]_vars, ~LosePower
    PROVE  Includes(live', live) /\ live.attempts \subseteq live'.attempts
<1> USE DEF TypeInv, FilesTyped, PlaceTyped
<1>1. CASE /\ live'.attempts = live.attempts /\ live'.prior = live.prior
           /\ live.journal # Absent => live'.journal = live.journal
           /\ live.result # Absent => live'.result = live.result
  BY <1>1 DEF Includes
<1>2. CASE UNCHANGED vars \/ Change \/ Invoke \/ WriteError \/ Kill \/ Writeback
  BY <1>1, <1>2 DEF vars, Change, Invoke, WriteError, Kill, Writeback
<1>3. CASE OpenSource \/ HashSource \/ LoadAudio \/ Authenticate \/ Scan \/ PoolDone \/ Compare
  BY <1>1, <1>3 DEF OpenSource, HashSource, LoadAudio, Authenticate, Scan, PoolDone, Compare, Return, Quiet
<1>4. CASE WriteContract
  BY <1>1, <1>4 DEF WriteContract, Images
<1>5. CASE NewAttempt
  BY <1>5 DEF NewAttempt, Images, Includes
<1>6. CASE SyncAttempt \/ SyncRoot \/ SyncPublished \/ SyncSeal \/ AbortAttempt \/ Finish \/ SyncFailure
  BY <1>1, <1>6 DEF SyncAttempt, SyncRoot, SyncPublished, SyncSeal, AbortAttempt, Finish, SyncFailure
<1>7. CASE CheckFinal \/ CheckAborted
  BY <1>1, <1>7 DEF CheckFinal, CheckAborted, Checks, Invalidates, Images
<1>8. CASE RetireResult
  <2>1. run \in Runs /\ run \in live.attempts
    BY <1>8, RetireMoves DEF OwnAttempt, Opened, RetireResult
  <2>2. CASE live.result # Absent
    <3>1. /\ live'.journal = live.journal /\ live'.attempts = live.attempts
          /\ live'.prior = [live.prior EXCEPT ![run] = @ \cup {<<"result", live.result.run>>}]
      BY <1>8, <2>1, <2>2, ResultRetired DEF RetireResult, Retires
    <3>2. live.prior \in [Runs -> SUBSET Artifacts] /\ live.attempts \subseteq Runs
      BY DEF Images
    <3>3. /\ \A a \in Runs : live.prior[a] \subseteq live'.prior[a]
          /\ <<"result", live.result.run>> \in live'.prior[run]
      BY <2>1, <3>1, <3>2
    <3> QED
      BY <2>1, <3>1, <3>2, <3>3 DEF Includes
  <2> QED
    BY <1>1, <1>8, <2>2 DEF RetireResult, Retires
<1>9. CASE RetireJournal
  <2>1. run \in Runs /\ run \in live.attempts
    BY <1>9, RetireMoves DEF OwnAttempt, Opened, RetireJournal
  <2>2. CASE live.journal # Absent
    <3>1. /\ live'.result = live.result /\ live'.attempts = live.attempts
          /\ live'.prior = [live.prior EXCEPT ![run] = @ \cup {<<"journal", live.journal.run>>}]
      BY <1>9, <2>1, <2>2, JournalRetired DEF RetireJournal, Retires
    <3>2. live.prior \in [Runs -> SUBSET Artifacts] /\ live.attempts \subseteq Runs
      BY DEF Images
    <3>3. /\ \A a \in Runs : live.prior[a] \subseteq live'.prior[a]
          /\ <<"journal", live.journal.run>> \in live'.prior[run]
      BY <2>1, <3>1, <3>2
    <3> QED
      BY <2>1, <3>1, <3>2, <3>3 DEF Includes
  <2> QED
    BY <1>1, <1>9, <2>2 DEF RetireJournal, Retires
<1>10. CASE PublishJournal
  BY <1>1, <1>10 DEF PublishJournal, Publishes, Images
<1>11. CASE PublishResult
  BY <1>1, <1>11 DEF PublishResult, Publishes, Images
<1>12. CASE Seal
  BY <1>1, <1>12 DEF Seal, Publishes, Images
<1>13. CASE PublishFailure
  BY <1>1, <1>13 DEF PublishFailure, Publishes, Return, Images
<1>14. ASSUME NEW w \in Windows, Window(w) \/ WindowError(w)
       PROVE  Includes(live', live) /\ live.attempts \subseteq live'.attempts
  <2>1. \/ live' = live \/ live' = [live EXCEPT !.marker = TRUE]
        \/ live' = [live EXCEPT !.windows[w] = got[w]]
    BY <1>14 DEF Window, WindowError, Begin, Decode, Check, CommitWindow, SyncWindow, InvalidatesFrom, Invalidates
  <2> QED
    BY <1>1, <2>1 DEF Images
<1> QED
  BY <1>2, <1>3, <1>4, <1>5, <1>6, <1>7, <1>8, <1>9, <1>10, <1>11, <1>12, <1>13, <1>14 DEF Next, Main

LEMMA OwnAttemptStep == TypeInv /\ OwnAttempt /\ [Next]_vars => OwnAttempt'
<1> SUFFICES ASSUME TypeInv, OwnAttempt, [Next]_vars PROVE OwnAttempt'
  OBVIOUS
<1> USE DEF OwnAttempt, Opened
<1>0. live \in Images /\ (at # "none" => run \in Runs)
  BY DEF TypeInv, FilesTyped, PlaceTyped
<1>1. CASE at' \notin Opened \ {"attempt"}
  BY <1>1
<1>2. CASE run' = run /\ at \in Opened \ {"attempt"} /\ at' # "none"
  <2>1. ~LosePower
    BY <1>2 DEF LosePower, Forget
  <2> QED
    BY <1>2, <2>1, LiveGrows
<1>3. CASE UNCHANGED vars \/ Change \/ Writeback
  BY <1>3 DEF vars, Change, Writeback
<1>4. CASE Kill \/ LosePower \/ Finish \/ SyncFailure \/ Invoke \/ WriteError \/ Compare \/ PublishFailure
  BY <1>1, <1>4 DEF Kill, LosePower, Finish, SyncFailure, Invoke, WriteError, Forget, Goto, Fail, Compare,
     PublishFailure, Publishes, Return
<1>5. CASE OpenSource \/ HashSource \/ LoadAudio \/ Authenticate \/ WriteContract \/ Scan \/ PoolDone
  BY <1>1, <1>5 DEF OpenSource, HashSource, LoadAudio, Authenticate, WriteContract, Step, Scan, PoolDone, Goto, Fail
<1>6. CASE NewAttempt
  BY <1>0, <1>6 DEF NewAttempt, Step, Images
<1>7. CASE RetireResult \/ RetireJournal
  BY <1>2, <1>7, RetireMoves
<1>8. CASE SyncAttempt
  BY <1>8 DEF SyncAttempt, Step, Goto
<1>9. CASE SyncRoot \/ CheckFinal \/ CheckAborted \/ SyncPublished \/ SyncSeal \/ AbortAttempt
  BY <1>1, <1>9 DEF SyncRoot, CheckFinal, CheckAborted, Checks, SyncPublished, SyncSeal, AbortAttempt, Step, Goto
<1>10. CASE PublishJournal \/ PublishResult \/ Seal
  BY <1>1, <1>10 DEF PublishJournal, PublishResult, Seal, Publishes, Goto, Fail
<1>11. ASSUME NEW w \in Windows, Window(w) \/ WindowError(w) PROVE OwnAttempt'
  BY <1>1, <1>11, WindowStep
<1> QED
  BY <1>3, <1>4, <1>5, <1>6, <1>7, <1>8, <1>9, <1>10, <1>11 DEF Next, Main

\* What is published is in its place, and durable.
LEMMA PublishedSteps ==
    ASSUME KeptInv, [Next]_vars, SharedJournal
    PROVE  \/ published' = published
           \/ /\ live' = live /\ disk' = live
              /\ \/ published' = published \cup {<<"attempt", run>>} /\ run \in live.attempts
                 \/ published' = published \cup {<<"journal", run>>} /\ live.journal # Absent /\ live.journal.run = run
                 \/ published' = published \cup {<<"result", run>>} /\ live.result # Absent /\ live.result.run = run
<1> USE DEF KeptInv, OwnParts
<1>1. CASE UNCHANGED vars \/ Change \/ Invoke \/ WriteError \/ Kill \/ Writeback \/ LosePower
  BY <1>1 DEF vars, Change, Invoke, WriteError, Kill, Writeback, LosePower
<1>2. CASE OpenSource \/ HashSource \/ LoadAudio \/ Authenticate \/ Scan \/ PoolDone \/ Compare
  BY <1>2 DEF OpenSource, HashSource, LoadAudio, Authenticate, Scan, PoolDone, Compare, Return, Quiet
<1>3. CASE NewAttempt \/ WriteContract \/ RetireResult \/ RetireJournal \/ CheckFinal \/ CheckAborted
  BY <1>3, RetireMoves DEF NewAttempt, WriteContract, CheckFinal, CheckAborted, Checks
<1>4. CASE SyncRoot \/ SyncSeal \/ AbortAttempt \/ Finish
  BY <1>4 DEF SyncRoot, SyncSeal, AbortAttempt, Finish
<1>5. CASE PublishJournal \/ PublishResult \/ Seal \/ PublishFailure
  BY <1>5 DEF PublishJournal, PublishResult, Seal, PublishFailure, Publishes, Return
<1>6. CASE SyncAttempt
  BY <1>6 DEF SyncAttempt, Step, Persist, OwnAttempt, Opened
<1>7. CASE SyncPublished
  BY <1>7 DEF SyncPublished, Step, Persist, TypeInv, SealableTyped
<1>8. CASE SyncFailure
  BY <1>8 DEF SyncFailure, Persist
<1>9. ASSUME NEW w \in Windows, Window(w) \/ WindowError(w) PROVE published' = published
  BY <1>9, WindowStep
<1> QED
  BY <1>1, <1>2, <1>3, <1>4, <1>5, <1>6, <1>7, <1>8, <1>9 DEF Next, Main

\* Publishing what an image has.
LEMMA PublishedKept ==
    ASSUME KeptInv, live' = live, disk' = live,
           \/ published' = published \cup {<<"attempt", run>>} /\ run \in live.attempts
           \/ published' = published \cup {<<"journal", run>>} /\ live.journal # Absent /\ live.journal.run = run
           \/ published' = published \cup {<<"result", run>>} /\ live.result # Absent /\ live.result.run = run
    PROVE  Kept(live)' /\ Kept(disk)'
BY DEF KeptInv, Kept

LEMMA KeptInvStep == KeptInv /\ [Next]_vars /\ SharedJournal => KeptInv'
<1> SUFFICES ASSUME KeptInv, [Next]_vars, SharedJournal PROVE KeptInv'
  OBVIOUS
<1> USE DEF KeptInv
<1>1. TypeInv' /\ OwnParts' /\ OwnAttempt'
  BY TypeInvStep, OwnPartsStep, OwnAttemptStep
<1>2. CASE published' = published
  <2>1. CASE LosePower
    <3>1. live \in Images /\ disk \in Images
      BY DEF TypeInv, FilesTyped
    <3>2. disk' = live' /\ Includes(live', disk)
      BY <2>1, <3>1, Survives DEF Includes
    <3>3. Kept(live') /\ Kept(disk')
      BY <3>2, IncludesKeeps
    <3> QED
      BY <1>1, <1>2, <3>3 DEF Kept
  <2>2. CASE ~LosePower
    <3>1. Kept(live')
      BY <2>2, LiveGrows, IncludesKeeps
    <3>2. Kept(disk')
      BY <2>2, DeviceSteps
    <3> QED
      BY <1>1, <1>2, <3>1, <3>2 DEF Kept
  <2> QED
    BY <2>1, <2>2
<1>3. CASE published' # published
  <2>1. Kept(live)' /\ Kept(disk)'
    BY <1>3, PublishedSteps, PublishedKept
  <2> QED
    BY <1>1, <2>1
<1> QED
  BY <1>2, <1>3

\* On a device that orders its metadata, no attempt, journal or result that was published is
\* lost, whatever later runs, kills and losses of power do.
THEOREM NothingPublishedIsLost ==
    ASSUME SharedJournal = TRUE PROVE Spec => []PublishedIsKept
<1>1. Init => KeptInv
  <2> SUFFICES ASSUME Init PROVE KeptInv
    OBVIOUS
  <2> QED
    BY InitTyped DEF Init, KeptInv, Kept, OwnParts, OwnAttempt, Opened
<1>2. KeptInv /\ [Next]_vars => KeptInv'
  BY KeptInvStep
<1>3. KeptInv => PublishedIsKept
  <2> SUFFICES ASSUME KeptInv PROVE PublishedIsKept
    OBVIOUS
  <2>1. AttemptsAreKept
    BY DEF KeptInv, Kept, AttemptsAreKept
  <2>2. ASSUME NEW r \in Runs, <<"journal", r>> \in published
        PROVE  \/ \E a \in live.attempts : <<"journal", r>> \in live.prior[a]
               \/ live["journal"] # Absent /\ live["journal"].run = r
    BY <2>2 DEF KeptInv, Kept
  <2>3. ASSUME NEW r \in Runs, <<"result", r>> \in published
        PROVE  \/ \E a \in live.attempts : <<"result", r>> \in live.prior[a]
               \/ live["result"] # Absent /\ live["result"].run = r
    BY <2>3 DEF KeptInv, Kept
  <2> QED
    BY <2>1, <2>2, <2>3 DEF PublishedIsKept
<1> QED
  BY <1>1, <1>2, <1>3, PTL DEF Spec
===============================================================================
