---------------------------- MODULE CampaignProofs ----------------------------
(***************************************************************************)
(* For a cohort of any size and any number of runs and interruptions: what *)
(* is published of an observation comes from one attempt, what checkpoints *)
(* say holds, and the campaign implements CampaignCohort.  The proof is    *)
(* one inductive invariant, CampaignInv.                                   *)
(***************************************************************************)
EXTENDS Campaign, FiniteSetTheorems, TLAPS

\* Where a run is, or will be after the fsync it waits for.
Place == IF at = "sync" THEN then ELSE at

\* The run, the observation and the attempt at hand exist.
AtHand ==
    /\ at # "none" => run \in Runs
    /\ Place \in InItem \ {"item"} => item \in Observations
    /\ Place \in {"copy", "commit"} => from \in Runs

\* What holds of the files, live or on the device, at any time.
Whole(image) ==
    /\ \A o \in Observations, a \in Artifacts : image.flat[o][a] \in Ready(image, o) \cup {Absent}
    /\ \A o \in Observations : \A r, q \in Ready(image, o) : r = q
    /\ \A o \in Observations : image.commit[o] # Absent => FlatFrom(image, o, image.commit[o])
    /\ ProgressHolds(image)

\* Rows are commits that exist.
RowsAreCommitted == \A o \in Observations : rows[o] \in Runs => live.commit[o] = rows[o]

\* What the run has established where it is.
Established ==
    /\ Place = "reuse" => from = Absent
    /\ Place \in {"attempt", "decode", "fail", "ready"} =>
          from = Absent /\ Ready(live, item) = {} /\ NoFlat(live, item)
    /\ Place \in {"copy", "commit"} => from \in Ready(live, item)
    /\ Place = "commit" => FlatFrom(live, item, from)
    /\ Place = "recheck" /\ from # Absent => live.commit[item] = from
    /\ Place = "terminal" => AllComplete /\ \A o \in Observations : <<o, rows[o]>> \in live.progress

\* The device is at most one commit or the final summary behind, and level with
\* the files whenever the run may write one of these.
Behind ==
    \/ live.commit = disk.commit /\ (live.summary # disk.summary => live.summary)
    \/ /\ live.summary = disk.summary
       /\ \E o \in Observations, r \in Runs :
             disk.commit[o] = Absent /\ live.commit = [disk.commit EXCEPT ![o] = r]

Level ==
    \/ at \in {"item", "reuse", "attempt", "decode", "fail", "ready", "copy", "commit", "terminal"}
    \/ at = "sync" /\ then \in {"decode", "copy"}
    => live.commit = disk.commit /\ live.summary = disk.summary

\* The parts of TypeOK, and AtHand.
FilesTyped    == live \in Images /\ disk \in Images
PlacesTyped   == at \in Places /\ then \in Places
MemoryTyped   ==
    /\ run \in 0 .. MaxRuns
    /\ item \in 1 .. Size + 1
    /\ from \in Runs \cup {Absent}
    /\ rows \in [Observations -> Runs \cup {Absent, Failed}]
    /\ \A o \in Observations : rows[o] # Absent => o < item
    /\ stop \in BOOLEAN /\ pause \in BOOLEAN
OutcomeTyped  == outcome \in {"none", "complete", "failed", "paused", "error", "refused", "killed"}
CountersTyped ==
    /\ stops \in 0 .. MaxStops /\ kills \in 0 .. MaxKills /\ errors \in 0 .. MaxErrors
    /\ failures \in 0 .. MaxFailures /\ powerLosses \in 0 .. MaxPowerLosses

TypeInv ==
    FilesTyped /\ PlacesTyped /\ MemoryTyped /\ AtHand /\ OutcomeTyped /\ CountersTyped
CampaignInv ==
    TypeInv /\ Whole(live) /\ Whole(disk) /\ RowsAreCommitted /\ Established /\ Behind /\ Level
-------------------------------------------------------------------------------
(* Writing to an image *)

LEMMA AttemptWritten ==
    ASSUME NEW i \in Images, NEW o \in Observations, NEW r \in Runs,
           NEW s \in {"made", "failed", "ready"},
           NEW j, j = [i EXCEPT !.attempts[o][r] = s]
    PROVE  /\ j \in Images
           /\ j.flat = i.flat /\ j.commit = i.commit /\ j.progress = i.progress /\ j.summary = i.summary
           /\ \A p \in Observations \ {o} : Ready(j, p) = Ready(i, p)
           /\ s = "ready" => Ready(j, o) = Ready(i, o) \cup {r}
           /\ s # "ready" => Ready(j, o) \subseteq Ready(i, o)
<1>1. j.attempts = [i.attempts EXCEPT ![o] = [i.attempts[o] EXCEPT ![r] = s]]
  BY DEF Images
<1>2. j.attempts \in [Observations -> [Runs -> {"none", "made", "failed", "ready"}]]
  BY <1>1 DEF Images
<1>3. j \in Images
  BY <1>2 DEF Images
<1>4. \A p \in Observations \ {o} : j.attempts[p] = i.attempts[p]
  BY <1>1 DEF Images
<1>5. \A q \in Runs : j.attempts[o][q] = IF q = r THEN s ELSE i.attempts[o][q]
  BY <1>1 DEF Images
<1>6. /\ \A p \in Observations \ {o} : Ready(j, p) = Ready(i, p)
      /\ s = "ready" => Ready(j, o) = Ready(i, o) \cup {r}
      /\ s # "ready" => Ready(j, o) \subseteq Ready(i, o)
  BY <1>4, <1>5 DEF Ready
<1> QED
  BY <1>3, <1>6 DEF Images

LEMMA ArtifactWritten ==
    ASSUME NEW i \in Images, NEW o \in Observations, NEW a \in Artifacts, NEW r \in Runs,
           NEW j, j = [i EXCEPT !.flat[o][a] = r]
    PROVE  /\ j \in Images
           /\ j.attempts = i.attempts /\ j.commit = i.commit /\ j.progress = i.progress
           /\ j.summary = i.summary
           /\ j.flat = [i.flat EXCEPT ![o] = [i.flat[o] EXCEPT ![a] = r]]
<1>1. j.flat = [i.flat EXCEPT ![o] = [i.flat[o] EXCEPT ![a] = r]]
  BY DEF Images
<1>2. j.flat \in [Observations -> [Artifacts -> Runs \cup {Absent}]]
  BY <1>1 DEF Images
<1> QED
  BY <1>1, <1>2 DEF Images

LEMMA CommitWritten ==
    ASSUME NEW i \in Images, NEW o \in Observations, NEW r \in Runs,
           NEW j, j = [i EXCEPT !.commit[o] = r]
    PROVE  /\ j \in Images
           /\ j.attempts = i.attempts /\ j.flat = i.flat /\ j.progress = i.progress
           /\ j.summary = i.summary
           /\ j.commit = [i.commit EXCEPT ![o] = r]
BY DEF Images

LEMMA ProgressWritten ==
    ASSUME NEW i \in Images, NEW s \in SUBSET (Observations \X Runs),
           NEW j, j = [i EXCEPT !.progress = @ \cup s]
    PROVE  /\ j \in Images
           /\ j.attempts = i.attempts /\ j.flat = i.flat /\ j.commit = i.commit
           /\ j.summary = i.summary /\ j.progress = i.progress \cup s
BY DEF Images

LEMMA LeftoversWritten ==
    ASSUME NEW i \in Images, NEW j \in WithLeftovers(i)
    PROVE  /\ j \in Images
           /\ j.attempts = i.attempts /\ j.flat = i.flat /\ j.commit = i.commit
           /\ j.summary = i.summary /\ j.progress = i.progress
<1>1. Leaves \subseteq Leftovers
  BY DEF Leaves, Leftovers
<1> QED
  BY <1>1 DEF Images, WithLeftovers

\* Whole reads the files these lemmas speak of.
LEMMA SameFilesWhole ==
    ASSUME NEW i, NEW j, Whole(i),
           j.attempts = i.attempts, j.flat = i.flat, j.commit = i.commit,
           j.summary = i.summary, j.progress = i.progress
    PROVE  Whole(j)
BY DEF Whole, ProgressHolds, Ready, FlatFrom
-------------------------------------------------------------------------------
(* Types *)

\* What the counters count to.
LEMMA Bounds ==
    /\ Size \in Nat \ {0} /\ MaxRuns \in Nat \ {0}
    /\ MaxStops \in Nat /\ MaxKills \in Nat /\ MaxErrors \in Nat
    /\ MaxFailures \in Nat /\ MaxPowerLosses \in Nat
    /\ Absent \notin Runs /\ Failed \notin Runs /\ Absent # Failed /\ Runs \subseteq 0 .. MaxRuns
    /\ Observations = 1 .. Size
BY CampaignAssumption DEF Runs, Failed, Observations

\* A run without rows.
LEMMA NoRows ==
    /\ [o \in Observations |-> Absent] \in [Observations -> Runs \cup {Absent, Failed}]
    /\ \A o \in Observations : [p \in Observations |-> Absent][o] = Absent
    /\ 1 \in 1 .. Size + 1 /\ 0 \in 0 .. MaxRuns
BY Bounds

LEMMA TypeInvImplies == TypeInv => TypeOK
BY DEF TypeInv, TypeOK, FilesTyped, PlacesTyped, MemoryTyped, OutcomeTyped, CountersTyped

LEMMA InitTyped == Init => TypeInv
<1> SUFFICES ASSUME Init PROVE TypeInv
  OBVIOUS
<1>1. FilesTyped
  BY DEF Init, FilesTyped, Empty, Images
<1>2. PlacesTyped
  BY DEF Init, PlacesTyped, Places
<1>3. MemoryTyped
  BY NoRows, Bounds DEF Init, Fresh, MemoryTyped
<1>4. AtHand
  BY DEF Init, AtHand, Place, InItem
<1>5. OutcomeTyped /\ CountersTyped
  BY Bounds DEF Init, OutcomeTyped, CountersTyped
<1> QED
  BY <1>1, <1>2, <1>3, <1>4, <1>5 DEF TypeInv

\* The files.
LEMMA FilesTypedStep == TypeInv /\ [Next]_vars => FilesTyped'
<1> SUFFICES ASSUME TypeInv, [Next]_vars PROVE FilesTyped'
  OBVIOUS
<1> USE DEF TypeInv, FilesTyped
<1>0. at # "none" => run \in Runs
  BY DEF AtHand
<1>1. CASE UNCHANGED vars
  BY <1>1 DEF vars
<1>2. CASE WritePlan \/ WriteTerminal
  BY <1>2 DEF WritePlan, WriteTerminal, Goto, Writes, Images
<1>3. CASE NewAttempt \/ WriteFailure \/ WriteReady
  <2>1. item \in Observations /\ run \in Runs
    BY <1>3 DEF NewAttempt, WriteFailure, WriteReady, AtHand, Place, InItem
  <2> QED
    BY <1>3, <2>1, AttemptWritten DEF NewAttempt, WriteFailure, WriteReady, Writes
<1>4. CASE Copy
  <2>1. item \in Observations /\ from \in Runs
    BY <1>4 DEF Copy, AtHand, Place, InItem
  <2> QED
    <3>1. ASSUME NEW a \in Artifacts, live' = [live EXCEPT !.flat[item][a] = from]
          PROVE  live' \in Images
      BY <2>1, <3>1, ArtifactWritten
    <3> QED
      BY <1>4, <3>1 DEF Copy, Goto, Writes, Pauses
<1>5. CASE Commit
  <2>1. item \in Observations /\ from \in Runs
    BY <1>5 DEF Commit, AtHand, Place, InItem
  <2> QED
    <3>1. ASSUME live' = [live EXCEPT !.commit[item] = from] PROVE live' \in Images
      BY <2>1, <3>1, CommitWritten
    <3> QED
      BY <1>5, <3>1 DEF Commit, Goto, Writes, Pauses
<1>6. CASE WriteCheckpoint \/ WriteReport
  <2>1. {<<o, rows[o]>> : o \in Completed} \in SUBSET (Observations \X Runs)
    BY DEF Completed
  <2> QED
    BY <1>6, <2>1, ProgressWritten DEF WriteCheckpoint, WriteReport, Saves, Returns, Writes
<1>7. CASE Kill \/ LosePower
  BY <1>7, LeftoversWritten DEF Kill, LosePower
<1>8. CASE Sync \/ Writeback
  BY <1>8 DEF Sync, Writeback
<1>9. CASE Invoke \/ VerifySavedProgress \/ WriteOwner \/ StartItem \/ Recheck \/ Return
  BY <1>9 DEF Invoke, VerifySavedProgress, WriteOwner, StartItem, Recheck, Return, Goto,
     Returns, Writes, Pauses
<1>10. CASE Reuse \/ Decode \/ Error \/ Signal
  BY <1>10 DEF Reuse, Decode, Error, Signal, Goto, Pauses
<1> QED
  BY <1>1, <1>2, <1>3, <1>4, <1>5, <1>6, <1>7, <1>8, <1>9, <1>10 DEF Next, Step

\* The places.
LEMMA PlacesTypedStep == TypeInv /\ [Next]_vars => PlacesTyped'
<1> SUFFICES ASSUME TypeInv, [Next]_vars PROVE PlacesTyped'
  OBVIOUS
<1> USE DEF TypeInv, PlacesTyped, Places, InItem
<1>1. CASE UNCHANGED vars
  BY <1>1 DEF vars
<1>2. CASE WritePlan \/ WriteTerminal \/ WriteCheckpoint \/ WriteReport
  BY <1>2 DEF WritePlan, WriteTerminal, WriteCheckpoint, WriteReport, Goto, Writes, Returns, Ends
<1>3. CASE NewAttempt \/ WriteFailure \/ WriteReady \/ Decode
  BY <1>3 DEF NewAttempt, WriteFailure, WriteReady, Writes, Decode
<1>4. CASE Reuse
  BY <1>4 DEF Reuse, Goto, Pauses
<1>5. CASE Copy \/ Commit \/ Recheck
  BY <1>5 DEF Copy, Commit, Recheck, Goto, Writes, Pauses
<1>6. CASE Invoke \/ VerifySavedProgress \/ WriteOwner \/ StartItem \/ Return
  BY <1>6 DEF Invoke, VerifySavedProgress, WriteOwner, StartItem, Return, Goto, Returns,
     Ends, Writes, Pauses
<1>7. CASE Kill \/ LosePower \/ Error
  BY <1>7 DEF Kill, LosePower, Error, Ends
<1>8. CASE Sync \/ Writeback \/ Signal
  BY <1>8 DEF Sync, Writeback, Signal
<1> QED
  BY <1>1, <1>2, <1>3, <1>4, <1>5, <1>6, <1>7, <1>8 DEF Next, Step

\* The run and the observation it is at.
LEMMA AtHandStep == TypeInv /\ [Next]_vars => AtHand'
<1> SUFFICES ASSUME TypeInv, [Next]_vars PROVE AtHand'
  OBVIOUS
<1> USE DEF TypeInv, AtHand, Place, InItem
<1>1. CASE UNCHANGED vars
  BY <1>1 DEF vars, memory
<1>2. CASE WritePlan \/ WriteTerminal \/ WriteCheckpoint \/ WriteReport
  BY <1>2 DEF WritePlan, WriteTerminal, WriteCheckpoint, WriteReport, Goto, Writes, Returns, Ends
<1>3. CASE NewAttempt \/ WriteFailure \/ WriteReady \/ Decode
  BY <1>3 DEF NewAttempt, WriteFailure, WriteReady, Writes, Decode, memory
<1>4. CASE Reuse
  BY <1>4 DEF Reuse, Goto, Pauses, memory, Ready
<1>5. CASE Copy \/ Commit \/ Recheck
  BY <1>5 DEF Copy, Commit, Recheck, Goto, Writes, Pauses, memory
<1>6. CASE Invoke
  BY <1>6, Bounds DEF Invoke, Runs, MemoryTyped
<1>7. CASE StartItem
  BY <1>7, Bounds DEF StartItem, Goto, Pauses, MemoryTyped
<1>8. CASE VerifySavedProgress \/ WriteOwner \/ Return
  BY <1>8 DEF VerifySavedProgress, WriteOwner, Return, Goto, Returns, Ends, Writes
<1>9. CASE Kill \/ LosePower \/ Error
  BY <1>9 DEF Kill, LosePower, Error, Ends
<1>10. CASE Sync
  BY <1>10 DEF Sync, memory
<1>11. CASE Writeback \/ Signal
  BY <1>11 DEF Writeback, Signal, memory
<1> QED
  BY <1>1, <1>2, <1>3, <1>4, <1>5, <1>6, <1>7, <1>8, <1>9, <1>10, <1>11 DEF Next, Step

\* The run's memory.
LEMMA MemoryTypedStep == TypeInv /\ [Next]_vars => MemoryTyped'
<1> SUFFICES ASSUME TypeInv, [Next]_vars PROVE MemoryTyped'
  OBVIOUS
<1> USE DEF TypeInv, MemoryTyped
<1>1. CASE UNCHANGED vars
  BY <1>1 DEF vars, memory
<1>2. CASE \E value : Ends(value)
  BY <1>2, NoRows DEF Ends
<1>3. CASE UNCHANGED <<run, memory>>
  BY <1>3 DEF memory
<1>4. CASE Invoke
  BY <1>4, Bounds DEF Invoke, memory
<1>5. CASE Pauses
  BY <1>5 DEF Pauses
<1>6. CASE StartItem
  BY <1>5, <1>6 DEF StartItem, Goto
<1>7. CASE Reuse
  BY <1>3, <1>5, <1>7 DEF Reuse, Goto, Ready, memory
<1>8. CASE WriteReady
  BY <1>8 DEF WriteReady, Writes, AtHand
<1>9. CASE Recheck
  <2>1. item \in Observations
    BY <1>9 DEF Recheck, AtHand, Place, InItem
  <2>2. rows' \in [Observations -> Runs \cup {Absent, Failed}] /\ item' \in 1 .. Size + 1
    BY <1>9, <2>1, Bounds DEF Recheck
  <2>3. \A o \in Observations : rows'[o] # Absent => o < item'
    BY <1>9, <2>1, Bounds DEF Recheck
  <2> QED
    BY <1>9, <2>2, <2>3 DEF Recheck, Goto
<1>10. CASE Error
  BY <1>2, <1>10 DEF Error
<1>11. CASE Signal
  BY <1>11 DEF Signal
<1>12. CASE VerifySavedProgress \/ WriteOwner \/ WriteCheckpoint \/ Return
  BY <1>2, <1>3, <1>12 DEF VerifySavedProgress, WriteOwner, WriteCheckpoint, Return, Returns,
     Goto, Writes
<1>13. CASE WritePlan \/ Sync \/ NewAttempt \/ Decode \/ WriteFailure
  BY <1>3, <1>13 DEF WritePlan, Sync, NewAttempt, Decode, WriteFailure, Writes
<1>14. CASE Copy \/ Commit
  BY <1>3, <1>5, <1>14 DEF Copy, Commit, Goto, Writes
<1>15. CASE WriteReport \/ WriteTerminal \/ Writeback
  BY <1>3, <1>15 DEF WriteReport, WriteTerminal, Writeback, Goto, Writes
<1>16. CASE Kill \/ LosePower
  BY <1>2, <1>16 DEF Kill, LosePower
<1> QED
  BY <1>1, <1>4, <1>6, <1>7, <1>8, <1>9, <1>10, <1>11, <1>12, <1>13, <1>14, <1>15, <1>16
     DEF Next, Step

\* Outcomes and counters.
LEMMA CountersTypedStep == TypeInv /\ [Next]_vars => OutcomeTyped' /\ CountersTyped'
<1> SUFFICES ASSUME TypeInv, [Next]_vars PROVE OutcomeTyped' /\ CountersTyped'
  OBVIOUS
<1> USE Bounds DEF TypeInv, OutcomeTyped, CountersTyped, faults
<1>1. CASE UNCHANGED <<outcome, faults, errors>>
  BY <1>1
<1>2. CASE UNCHANGED vars
  BY <1>1, <1>2 DEF vars
<1>3. CASE \/ WritePlan \/ StartItem \/ Sync \/ Reuse \/ NewAttempt \/ WriteFailure \/ WriteReady
           \/ Copy \/ Commit \/ Recheck \/ WriteReport \/ WriteTerminal \/ Writeback
  BY <1>1, <1>3 DEF WritePlan, StartItem, Sync, Reuse, NewAttempt, WriteFailure, WriteReady, Copy,
     Commit, Recheck, WriteReport, WriteTerminal, Writeback, Goto, Writes, Pauses
<1>4. CASE VerifySavedProgress \/ WriteOwner \/ WriteCheckpoint \/ Return
  BY <1>4 DEF VerifySavedProgress, WriteOwner, WriteCheckpoint, Return, Goto, Writes, Returns, Ends
<1>5. CASE Invoke \/ Decode \/ Signal
  BY <1>5 DEF Invoke, Decode, Signal
<1>6. CASE Error \/ Kill \/ LosePower
  BY <1>6 DEF Error, Kill, LosePower, Ends
<1> QED
  BY <1>2, <1>3, <1>4, <1>5, <1>6 DEF Next, Step

LEMMA TypeInvariant == Spec => []TypeInv
<1>1. TypeInv /\ [Next]_vars => TypeInv'
  BY FilesTypedStep, PlacesTypedStep, AtHandStep, MemoryTypedStep, CountersTypedStep DEF TypeInv
<1> QED
  BY <1>1, InitTyped, PTL DEF Spec
-------------------------------------------------------------------------------
(* Files *)

\* A first attempt or what becomes of it.
LEMMA AttemptWhole ==
    ASSUME NEW i \in Images, NEW o \in Observations, NEW r \in Runs,
           NEW s \in {"made", "failed", "ready"},
           NEW j, j = [i EXCEPT !.attempts[o][r] = s],
           Whole(i), Ready(i, o) = {}, NoFlat(i, o)
    PROVE  Whole(j)
<1>0. /\ j.flat = i.flat /\ j.commit = i.commit /\ j.progress = i.progress /\ j.summary = i.summary
      /\ \A p \in Observations \ {o} : Ready(j, p) = Ready(i, p)
      /\ Ready(j, o) \subseteq {r}
  BY AttemptWritten
<1>1. \A p \in Observations, a \in Artifacts : j.flat[p][a] \in Ready(j, p) \cup {Absent}
  BY <1>0 DEF Whole, NoFlat, FlatFrom
<1>3. \A p \in Observations : \A q, t \in Ready(j, p) : q = t
  BY <1>0 DEF Whole
<1>4. \A p \in Observations : j.commit[p] # Absent => FlatFrom(j, p, j.commit[p])
  BY <1>0 DEF Whole, FlatFrom
<1>5. ProgressHolds(j)
  BY <1>0 DEF Whole, ProgressHolds
<1> QED
  BY <1>1, <1>3, <1>4, <1>5 DEF Whole

\* A missing artifact of the ready attempt.
LEMMA ArtifactWhole ==
    ASSUME NEW i \in Images, NEW o \in Observations, NEW a \in Artifacts, NEW r \in Runs,
           NEW j, j = [i EXCEPT !.flat[o][a] = r],
           Whole(i), r \in Ready(i, o), i.flat[o][a] = Absent
    PROVE  Whole(j)
<1>0. /\ j.attempts = i.attempts /\ j.commit = i.commit /\ j.progress = i.progress
      /\ j.summary = i.summary
      /\ j.flat = [i.flat EXCEPT ![o] = [i.flat[o] EXCEPT ![a] = r]]
  BY ArtifactWritten
<1>1. \A p \in Observations, b \in Artifacts :
         j.flat[p][b] = IF p = o /\ b = a THEN r ELSE i.flat[p][b]
  BY <1>0 DEF Images
<1>2. \A p \in Observations : Ready(j, p) = Ready(i, p)
  BY <1>0 DEF Ready
<1>3. \A p \in Observations, b \in Artifacts : j.flat[p][b] \in Ready(j, p) \cup {Absent}
  BY <1>1, <1>2 DEF Whole
<1>4. i.commit[o] = Absent
  BY DEF Whole, FlatFrom
<1>5. \A p \in Observations : j.commit[p] # Absent => FlatFrom(j, p, j.commit[p])
  BY <1>0, <1>1, <1>4 DEF Whole, FlatFrom
<1>6. ProgressHolds(j)
  BY <1>0 DEF Whole, ProgressHolds
<1> QED
  BY <1>2, <1>3, <1>5, <1>6 DEF Whole

\* The commit of an attempt whose artifacts are all there.
LEMMA CommitWhole ==
    ASSUME NEW i \in Images, NEW o \in Observations, NEW r \in Runs,
           NEW j, j = [i EXCEPT !.commit[o] = r],
           Whole(i), FlatFrom(i, o, r), i.commit[o] = Absent
    PROVE  Whole(j)
<1>0. /\ j.attempts = i.attempts /\ j.flat = i.flat /\ j.progress = i.progress
      /\ j.summary = i.summary /\ j.commit = [i.commit EXCEPT ![o] = r]
  BY CommitWritten
<1>1. \A p \in Observations : Ready(j, p) = Ready(i, p)
  BY <1>0 DEF Ready
<1>2. \A p \in Observations : j.commit[p] = IF p = o THEN r ELSE i.commit[p]
  BY <1>0 DEF Images
<1>3. \A p \in Observations : j.commit[p] # Absent => FlatFrom(j, p, j.commit[p])
  BY <1>2, <1>0 DEF Whole, FlatFrom
<1>4. \A p \in i.progress : p[1] \in Observations /\ p[2] \in Runs /\ i.commit[p[1]] = p[2]
  BY DEF Images, Whole, ProgressHolds
<1>5. ProgressHolds(j)
  BY <1>2, <1>4, Bounds, <1>0 DEF Whole, ProgressHolds
<1> QED
  BY <1>1, <1>3, <1>5, <1>0 DEF Whole

\* More progress, of commits that are there.
LEMMA ProgressWhole ==
    ASSUME NEW i \in Images, NEW s \in SUBSET (Observations \X Runs),
           NEW j, j = [i EXCEPT !.progress = @ \cup s],
           Whole(i), \A p \in s : i.commit[p[1]] = p[2]
    PROVE  Whole(j)
<1>0. /\ j.attempts = i.attempts /\ j.flat = i.flat /\ j.commit = i.commit
      /\ j.summary = i.summary /\ j.progress = i.progress \cup s
  BY ProgressWritten
<1>1. \A p \in Observations : Ready(j, p) = Ready(i, p)
  BY <1>0 DEF Ready
<1>2. \A p \in Observations : \A r : FlatFrom(j, p, r) <=> FlatFrom(i, p, r)
  BY <1>0 DEF FlatFrom
<1>3. ProgressHolds(j)
  BY <1>0 DEF Whole, ProgressHolds
<1> QED
  BY <1>1, <1>2, <1>3, <1>0 DEF Whole

\* What the run reports is committed.
LEMMA SavedRowsWhole ==
    ASSUME CampaignInv, Saves
    PROVE  /\ Whole(live')
           /\ live'.commit = live.commit /\ live'.summary = live.summary
           /\ \A o \in Completed : <<o, rows[o]>> \in live'.progress
<1> DEFINE s == {<<o, rows[o]>> : o \in Completed}
<1>1. live \in Images /\ Whole(live)
  BY DEF CampaignInv, TypeInv, FilesTyped
<1>2. s \in SUBSET (Observations \X Runs)
  BY DEF Completed
<1>3. \A p \in s : live.commit[p[1]] = p[2]
  BY DEF Completed, CampaignInv, RowsAreCommitted
<1>4. live' = [live EXCEPT !.progress = @ \cup s]
  BY DEF Saves
<1>5. Whole(live')
  BY <1>1, <1>2, <1>3, <1>4, ProgressWhole
<1>6. /\ live'.commit = live.commit /\ live'.summary = live.summary
      /\ live'.progress = live.progress \cup s
  BY <1>1, <1>2, <1>4, ProgressWritten
<1> QED
  BY <1>5, <1>6

LEMMA WholeStep == CampaignInv /\ [Next]_vars => Whole(live') /\ Whole(disk')
<1> SUFFICES ASSUME CampaignInv, [Next]_vars PROVE Whole(live') /\ Whole(disk')
  OBVIOUS
<1>0. /\ live \in Images /\ disk \in Images /\ Whole(live) /\ Whole(disk)
      /\ AtHand /\ Established
  BY DEF CampaignInv, TypeInv, FilesTyped
<1>1. CASE UNCHANGED vars
  BY <1>0, <1>1 DEF vars
<1>2. CASE WritePlan
  <2>1. Whole(live')
    BY <1>0, <1>2, SameFilesWhole DEF WritePlan, Images
  <2> QED
    BY <1>0, <1>2, <2>1 DEF WritePlan, Writes
<1>3. CASE WriteTerminal
  <2>1. CASE live.summary
    BY <1>0, <1>3, <2>1 DEF WriteTerminal, Goto
  <2>2. CASE ~live.summary
    <3>1. live' = [live EXCEPT !.summary = TRUE] /\ disk' = disk
      BY <1>3, <2>2 DEF WriteTerminal, Writes
    <3>2. /\ live'.attempts = live.attempts /\ live'.flat = live.flat /\ live'.commit = live.commit
          /\ live'.progress = live.progress
      BY <1>0, <3>1 DEF Images
    <3>3. \A o \in Observations : rows[o] \in Runs /\ <<o, rows[o]>> \in live.progress
      BY <1>0, <1>3 DEF WriteTerminal, Established, Place, AllComplete, Completed
    <3>4. ProgressHolds(live')
      BY <1>0, <3>2, <3>3 DEF Whole, ProgressHolds
    <3>5. \A o \in Observations : Ready(live', o) = Ready(live, o)
      BY <3>2 DEF Ready
    <3>6. Whole(live')
      BY <1>0, <3>2, <3>4, <3>5 DEF Whole, FlatFrom
    <3> QED
      BY <1>0, <3>1, <3>6
  <2> QED
    BY <2>1, <2>2
<1>4. CASE NewAttempt \/ WriteFailure \/ WriteReady
  <2>1. /\ item \in Observations /\ run \in Runs /\ disk' = disk
        /\ Ready(live, item) = {} /\ NoFlat(live, item)
    BY <1>0, <1>4 DEF NewAttempt, WriteFailure, WriteReady, Writes, AtHand, Established, Place, InItem
  <2>2. \E s \in {"made", "failed", "ready"} : live' = [live EXCEPT !.attempts[item][run] = s]
    BY <1>4 DEF NewAttempt, WriteFailure, WriteReady
  <2> QED
    BY <1>0, <2>1, <2>2, AttemptWhole
<1>5. CASE Copy
  <2>1. /\ item \in Observations /\ from \in Runs /\ from \in Ready(live, item)
        /\ disk' = disk
    BY <1>0, <1>5 DEF Copy, Goto, Writes, Pauses, AtHand, Established, Place, InItem
  <2>2. \/ live' = live
        \/ \E a \in Artifacts :
              live.flat[item][a] = Absent /\ live' = [live EXCEPT !.flat[item][a] = from]
    BY <1>5 DEF Copy, Goto, Writes, Pauses
  <2> QED
    BY <1>0, <2>1, <2>2, ArtifactWhole
<1>6. CASE Commit
  <2>1. item \in Observations /\ from \in Runs /\ FlatFrom(live, item, from) /\ disk' = disk
    BY <1>0, <1>6 DEF Commit, Goto, Writes, Pauses, AtHand, Established, Place, InItem
  <2>2. \/ live' = live
        \/ live.commit[item] = Absent /\ live' = [live EXCEPT !.commit[item] = from]
    BY <1>6 DEF Commit, Goto, Writes, Pauses
  <2> QED
    BY <1>0, <2>1, <2>2, CommitWhole
<1>7. CASE WriteCheckpoint \/ WriteReport
  BY <1>0, <1>7, SavedRowsWhole DEF WriteCheckpoint, WriteReport, Writes, Returns
<1>8. CASE Kill
  BY <1>0, <1>8, LeftoversWritten, SameFilesWhole DEF Kill
<1>9. CASE LosePower
  BY <1>0, <1>9, LeftoversWritten, SameFilesWhole DEF LosePower
<1>10. CASE Sync \/ Writeback
  BY <1>0, <1>10 DEF Sync, Writeback
<1>11. CASE Invoke \/ VerifySavedProgress \/ WriteOwner \/ StartItem \/ Recheck \/ Return
  BY <1>0, <1>11 DEF Invoke, VerifySavedProgress, WriteOwner, StartItem, Recheck, Return, Goto,
     Returns, Writes, Pauses
<1>12. CASE Reuse \/ Decode \/ Error \/ Signal
  BY <1>0, <1>12 DEF Reuse, Decode, Error, Signal, Goto, Pauses
<1> QED
  BY <1>1, <1>2, <1>3, <1>4, <1>5, <1>6, <1>7, <1>8, <1>9, <1>10, <1>11, <1>12 DEF Next, Step
-------------------------------------------------------------------------------
(* The run *)

\* Apart from a loss of power, with which the run ends, commits stay.
LEMMA RowsStep == CampaignInv /\ [Next]_vars => RowsAreCommitted'
<1> SUFFICES ASSUME CampaignInv, [Next]_vars PROVE RowsAreCommitted'
  OBVIOUS
<1>0. live \in Images /\ AtHand /\ RowsAreCommitted /\ Established /\ MemoryTyped
  BY DEF CampaignInv, TypeInv, FilesTyped
<1>1. CASE \E value : Ends(value)
  BY <1>1, Bounds DEF Ends, RowsAreCommitted
<1>2. CASE rows' = rows /\ live'.commit = live.commit
  BY <1>0, <1>2 DEF RowsAreCommitted
<1>3. CASE UNCHANGED vars
  BY <1>2, <1>3 DEF vars, memory
<1>4. CASE Commit
  <2>1. CASE live.commit[item] = Absent
    <3>1. live' = [live EXCEPT !.commit[item] = from] /\ rows' = rows
      BY <1>4, <2>1 DEF Commit, memory
    <3>2. item \in Observations /\ from \in Runs
      BY <1>0, <1>4 DEF Commit, AtHand, Place, InItem
    <3>3. live'.commit = [live.commit EXCEPT ![item] = from]
      BY <1>0, <3>1, <3>2, CommitWritten
    <3> QED
      BY <1>0, <2>1, <3>1, <3>2, <3>3, Bounds DEF RowsAreCommitted, Images
  <2>2. CASE live.commit[item] # Absent
    BY <1>2, <1>4, <2>2 DEF Commit, Goto, Pauses, memory
  <2> QED
    BY <2>1, <2>2
<1>5. CASE Recheck
  <2>1. /\ item \in Observations /\ live' = live
        /\ rows' = [rows EXCEPT ![item] = IF from = Absent THEN Failed ELSE from]
        /\ from # Absent => live.commit[item] = from
    BY <1>0, <1>5 DEF Recheck, AtHand, Established, Place, InItem
  <2> QED
    BY <1>0, <2>1, Bounds DEF RowsAreCommitted, MemoryTyped
<1>6. CASE NewAttempt \/ WriteFailure \/ WriteReady
  <2>1. item \in Observations /\ run \in Runs
    BY <1>0, <1>6 DEF NewAttempt, WriteFailure, WriteReady, AtHand, Place, InItem
  <2>2. \E s \in {"made", "failed", "ready"} : live' = [live EXCEPT !.attempts[item][run] = s]
    BY <1>6 DEF NewAttempt, WriteFailure, WriteReady
  <2>3. live'.commit = live.commit
    BY <1>0, <2>1, <2>2, AttemptWritten
  <2> QED
    BY <1>2, <1>6, <2>3 DEF NewAttempt, WriteFailure, WriteReady, memory
<1>7. CASE Copy
  <2>1. item \in Observations /\ from \in Runs /\ rows' = rows
    BY <1>0, <1>7 DEF Copy, Pauses, AtHand, Place, InItem, memory
  <2>2. live' = live \/ \E a \in Artifacts : live' = [live EXCEPT !.flat[item][a] = from]
    BY <1>7 DEF Copy, Goto, Writes, Pauses
  <2> QED
    <3>1. ASSUME NEW a \in Artifacts, live' = [live EXCEPT !.flat[item][a] = from]
          PROVE  live'.commit = live.commit
      BY <1>0, <2>1, <3>1, ArtifactWritten
    <3> QED
      BY <1>2, <2>1, <2>2, <3>1
<1>8. CASE WritePlan \/ WriteTerminal
  BY <1>0, <1>2, <1>8 DEF WritePlan, WriteTerminal, memory, Images
<1>9. CASE WriteCheckpoint \/ WriteReport
  <2>1. CASE Saves /\ UNCHANGED memory
    BY <1>2, <2>1, SavedRowsWhole DEF memory
  <2> QED
    BY <1>1, <1>9, <2>1 DEF WriteCheckpoint, WriteReport, Returns
<1>10. CASE Kill \/ LosePower
  BY <1>1, <1>10 DEF Kill, LosePower
<1>11. CASE Error
  BY <1>1, <1>2, <1>11 DEF Error
<1>12. CASE VerifySavedProgress \/ WriteOwner \/ Return
  BY <1>1, <1>2, <1>12 DEF VerifySavedProgress, WriteOwner, Return, Returns, memory
<1>13. CASE Invoke \/ StartItem \/ Sync \/ Reuse \/ Decode \/ Signal \/ Writeback
  BY <1>2, <1>13 DEF Invoke, StartItem, Sync, Reuse, Decode, Signal, Writeback, Pauses, memory
<1> QED
  BY <1>3, <1>4, <1>5, <1>6, <1>7, <1>8, <1>9, <1>10, <1>11, <1>12, <1>13 DEF Next, Step

\* Each step establishes what the next one relies on; fsyncs leave it as it is.
LEMMA EstablishedStep == CampaignInv /\ [Next]_vars => Established'
<1> SUFFICES ASSUME CampaignInv, [Next]_vars PROVE Established'
  OBVIOUS
<1>0. /\ live \in Images /\ Whole(live) /\ AtHand /\ RowsAreCommitted /\ Established
      /\ MemoryTyped
  BY DEF CampaignInv, TypeInv, FilesTyped
<1>1. CASE Place' \in {"none", "plan", "verify", "owner", "item", "checkpoint", "end", "report", "return", "sync"}
  BY <1>1 DEF Established
<1>2. CASE Place' = Place /\ UNCHANGED <<live, item, from, rows, pause>>
  BY <1>0, <1>2 DEF Established, Ready, NoFlat, FlatFrom, AllComplete, Completed
<1>3. CASE UNCHANGED vars
  BY <1>2, <1>3 DEF vars, memory, Place
<1>4. CASE \E value : Ends(value)
  BY <1>1, <1>4 DEF Ends, Place
<1>5. CASE Pauses
  BY <1>1, <1>5 DEF Pauses, Place
<1>6. CASE StartItem
  BY <1>1, <1>5, <1>6 DEF StartItem, Goto, Place, Established
<1>7. CASE Reuse
  <2>1. CASE /\ Goto("copy") /\ from' \in Ready(live, item) /\ UNCHANGED <<live, item>>
    BY <2>1 DEF Goto, Place, Established, Ready
  <2>2. CASE /\ Ready(live, item) = {} /\ NoFlat(live, item)
             /\ Goto("attempt") /\ UNCHANGED <<live, memory>>
    BY <1>0, <1>7, <2>2 DEF Reuse, Goto, Place, Established, memory, Ready, NoFlat, FlatFrom
  <2> QED
    BY <1>5, <1>7, <2>1, <2>2 DEF Reuse
<1>8. CASE NewAttempt \/ WriteFailure \/ WriteReady
  <2>1. /\ item \in Observations /\ run \in Runs /\ Ready(live, item) = {} /\ NoFlat(live, item)
        /\ from = Absent /\ item' = item
    BY <1>0, <1>8 DEF NewAttempt, WriteFailure, WriteReady, AtHand, Established, Place, InItem, memory
  <2>2. CASE NewAttempt
    <3>1. live' = [live EXCEPT !.attempts[item][run] = "made"] /\ Place' = "decode" /\ from' = from
      BY <2>2 DEF NewAttempt, Writes, Place, memory
    <3>2. live'.flat = live.flat /\ Ready(live', item) = {}
      BY <1>0, <2>1, <3>1, AttemptWritten
    <3> QED
      BY <2>1, <3>1, <3>2 DEF Established, NoFlat, FlatFrom, Ready
  <2>3. CASE WriteFailure
    BY <2>1, <2>3 DEF WriteFailure, Writes, Place, Established, memory
  <2>4. CASE WriteReady
    <3>1. live' = [live EXCEPT !.attempts[item][run] = "ready"] /\ Place' = "copy" /\ from' = run
      BY <2>4 DEF WriteReady, Writes, Place
    <3>2. run \in Ready(live', item)
      BY <1>0, <2>1, <3>1, AttemptWritten
    <3> QED
      BY <2>1, <3>1, <3>2 DEF Established, Ready
  <2> QED
    BY <1>8, <2>2, <2>3, <2>4
<1>9. CASE Decode
  BY <1>0, <1>9 DEF Decode, Place, Established, memory, Ready, NoFlat, FlatFrom
<1>10. CASE Copy
  <2>1. item \in Observations /\ from \in Runs /\ from \in Ready(live, item)
    BY <1>0, <1>10 DEF Copy, AtHand, Established, Place, InItem
  <2>2. CASE FlatFrom(live, item, from) /\ Goto("commit") /\ UNCHANGED <<live, memory>>
    BY <2>1, <2>2 DEF Goto, Place, Established, FlatFrom, Ready, memory
  <2>3. ASSUME NEW a \in Artifacts, live' = [live EXCEPT !.flat[item][a] = from],
               Writes("copy"), UNCHANGED memory
        PROVE  Established'
    <3>1. live'.attempts = live.attempts
      BY <1>0, <2>1, <2>3, ArtifactWritten
    <3> QED
      BY <2>1, <2>3, <3>1 DEF Writes, Place, Established, memory, Ready
  <2> QED
    BY <1>5, <1>10, <2>2, <2>3 DEF Copy
<1>11. CASE Commit
  <2>1. item \in Observations /\ from \in Runs
    BY <1>0, <1>11 DEF Commit, AtHand, Place, InItem
  <2>2. CASE live.commit[item] = Absent
    <3>1. live' = [live EXCEPT !.commit[item] = from] /\ Place' = "recheck" /\ UNCHANGED memory
      BY <1>11, <2>2 DEF Commit, Writes, Place
    <3>2. live'.commit[item] = from
      BY <1>0, <2>1, <3>1 DEF Images
    <3> QED
      BY <3>1, <3>2 DEF Established, memory
  <2>3. CASE live.commit[item] = from /\ Goto("recheck") /\ UNCHANGED <<live, memory>>
    BY <2>3 DEF Goto, Place, Established, memory
  <2> QED
    BY <1>5, <1>11, <2>2, <2>3 DEF Commit
<1>12. CASE WriteReport
  <2>1. CASE AllComplete
    <3>1. Place' = "terminal" /\ Saves /\ UNCHANGED memory
      BY <1>12, <2>1 DEF WriteReport, Writes, Place
    <3>2. \A o \in Observations : <<o, rows[o]>> \in live'.progress
      BY <2>1, <3>1, SavedRowsWhole DEF AllComplete
    <3> QED
      BY <2>1, <3>1, <3>2 DEF Established, AllComplete, Completed, memory
  <2> QED
    BY <1>1, <1>12, <2>1 DEF WriteReport, Writes, Place
<1>13. CASE WriteCheckpoint
  BY <1>1, <1>4, <1>13 DEF WriteCheckpoint, Returns, Writes, Place
<1>14. CASE Sync
  BY <1>1, <1>2, <1>14 DEF Sync, Place, memory
<1>15. CASE Invoke \/ WritePlan \/ Recheck \/ WriteTerminal
  BY <1>1, <1>15 DEF Invoke, WritePlan, Recheck, WriteTerminal, Goto, Writes, Place
<1>16. CASE VerifySavedProgress \/ WriteOwner \/ Return
  BY <1>1, <1>4, <1>16 DEF VerifySavedProgress, WriteOwner, Return, Returns, Goto, Writes, Place
<1>17. CASE Kill \/ LosePower
  BY <1>4, <1>17 DEF Kill, LosePower
<1>18. CASE Error
  BY <1>1, <1>4, <1>18 DEF Error, Place
<1>19. CASE Signal \/ Writeback
  BY <1>2, <1>19 DEF Signal, Writeback, Place, memory
<1> QED
  BY <1>3, <1>6, <1>7, <1>8, <1>9, <1>10, <1>11, <1>12, <1>13, <1>14, <1>15, <1>16, <1>17, <1>18,
     <1>19 DEF Next, Step
-------------------------------------------------------------------------------
(* The device *)

\* What is behind the files is caught up with before anything else is published.
LEMMA BehindStep == CampaignInv /\ [Next]_vars => Behind' /\ Level'
<1> SUFFICES ASSUME CampaignInv, [Next]_vars PROVE Behind' /\ Level'
  OBVIOUS
<1>0. /\ live \in Images /\ disk \in Images /\ AtHand /\ Behind /\ Level
  BY DEF CampaignInv, TypeInv, FilesTyped
<1> DEFINE Same == /\ live'.commit = live.commit /\ live'.summary = live.summary
                   /\ disk'.commit = disk.commit /\ disk'.summary = disk.summary
           Far  == /\ at' \notin {"item", "reuse", "attempt", "decode", "fail", "ready", "copy",
                                  "commit", "terminal"}
                   /\ at' = "sync" => then' \notin {"decode", "copy"}
           Near == live.commit = disk.commit /\ live.summary = disk.summary
<1>1. CASE disk'.commit = live'.commit /\ disk'.summary = live'.summary
  BY <1>1 DEF Behind, Level
<1>2. CASE Same /\ Far
  BY <1>0, <1>2 DEF Behind, Level
<1>3. CASE Same /\ Near
  BY <1>1, <1>3
<1>4. CASE UNCHANGED vars
  BY <1>0, <1>4 DEF vars, Behind, Level
<1>5. ASSUME NEW value, Ends(value) PROVE Far
  BY <1>5 DEF Ends
<1>6. CASE Pauses
  BY <1>2, <1>6 DEF Pauses
<1>7. CASE WritePlan
  BY <1>0, <1>2, <1>7 DEF WritePlan, Writes, Images
<1>8. CASE StartItem
  BY <1>0, <1>3, <1>6, <1>8 DEF StartItem, Goto, Level
<1>9. CASE Reuse
  BY <1>0, <1>3, <1>6, <1>9 DEF Reuse, Goto, Level, memory
<1>10. CASE NewAttempt \/ WriteFailure \/ WriteReady
  <2>1. item \in Observations /\ run \in Runs /\ Near
    BY <1>0, <1>10 DEF NewAttempt, WriteFailure, WriteReady, AtHand, Place, InItem, Level
  <2>2. ASSUME NEW s \in {"made", "failed", "ready"}, live' = [live EXCEPT !.attempts[item][run] = s]
        PROVE  live'.commit = live.commit /\ live'.summary = live.summary
    BY <1>0, <2>1, <2>2, AttemptWritten
  <2> QED
    BY <1>3, <1>10, <2>1, <2>2 DEF NewAttempt, WriteFailure, WriteReady, Writes
<1>11. CASE Decode
  BY <1>0, <1>3, <1>11 DEF Decode, Level
<1>12. CASE Copy
  <2>1. item \in Observations /\ from \in Runs /\ Near
    BY <1>0, <1>12 DEF Copy, AtHand, Place, InItem, Level
  <2>2. ASSUME NEW a \in Artifacts, live' = [live EXCEPT !.flat[item][a] = from]
        PROVE  live'.commit = live.commit /\ live'.summary = live.summary
    BY <1>0, <2>1, <2>2, ArtifactWritten
  <2> QED
    BY <1>3, <1>12, <2>1, <2>2 DEF Copy, Goto, Writes, Pauses
<1>13. CASE Commit
  <2>1. item \in Observations /\ from \in Runs /\ Near
    BY <1>0, <1>13 DEF Commit, AtHand, Place, InItem, Level
  <2>2. CASE live.commit[item] = Absent
    <3>1. live' = [live EXCEPT !.commit[item] = from] /\ disk' = disk /\ Far
      BY <1>13, <2>2 DEF Commit, Writes
    <3>2. live'.commit = [live.commit EXCEPT ![item] = from] /\ live'.summary = live.summary
      BY <1>0, <2>1, <3>1, CommitWritten
    <3> QED
      BY <2>1, <2>2, <3>1, <3>2 DEF Behind, Level
  <2> QED
    BY <1>2, <1>6, <1>13, <2>2 DEF Commit, Goto
<1>14. CASE WriteCheckpoint \/ WriteReport
  BY <1>2, <1>5, <1>14, SavedRowsWhole DEF WriteCheckpoint, WriteReport, Writes, Returns
<1>15. CASE WriteTerminal
  <2>1. CASE live.summary
    BY <1>2, <1>15, <2>1 DEF WriteTerminal, Goto
  <2>2. CASE ~live.summary
    <3>1. live' = [live EXCEPT !.summary = TRUE] /\ disk' = disk /\ Far /\ Near
      BY <1>0, <1>15, <2>2 DEF WriteTerminal, Writes, Level
    <3>2. live'.commit = live.commit /\ live'.summary
      BY <1>0, <3>1 DEF Images
    <3> QED
      BY <3>1, <3>2 DEF Behind, Level
  <2> QED
    BY <2>1, <2>2
<1>16. CASE Sync \/ Writeback \/ LosePower
  BY <1>1, <1>16 DEF Sync, Writeback, LosePower
<1>17. CASE Kill
  BY <1>0, <1>2, <1>5, <1>17, LeftoversWritten DEF Kill
<1>18. CASE Error
  BY <1>2, <1>5, <1>18 DEF Error
<1>19. CASE Signal
  BY <1>0, <1>19 DEF Signal, Behind, Level
<1>20. CASE Invoke \/ Recheck \/ VerifySavedProgress \/ WriteOwner \/ Return
  BY <1>2, <1>5, <1>20 DEF Invoke, Recheck, VerifySavedProgress, WriteOwner, Return, Returns,
     Goto, Writes
<1> QED
  BY <1>4, <1>7, <1>8, <1>9, <1>10, <1>11, <1>12, <1>13, <1>14, <1>15, <1>16, <1>17, <1>18,
     <1>19, <1>20 DEF Next, Step

LEMMA CampaignInvInit == Init => CampaignInv
<1> SUFFICES ASSUME Init PROVE CampaignInv
  OBVIOUS
<1>1. Whole(Empty)
  BY DEF Whole, ProgressHolds, Empty, Ready, FlatFrom
<1> QED
  BY <1>1, InitTyped, Bounds DEF Init, Fresh, CampaignInv, RowsAreCommitted, Established, Place,
     Behind, Level

LEMMA CampaignInvariant == Spec => []CampaignInv
<1>1. CampaignInv /\ [Next]_vars => CampaignInv'
  <2> SUFFICES ASSUME CampaignInv, [Next]_vars PROVE CampaignInv'
    OBVIOUS
  <2>1. TypeInv'
    BY FilesTypedStep, PlacesTypedStep, AtHandStep, MemoryTypedStep, CountersTypedStep
       DEF CampaignInv, TypeInv
  <2>2. Whole(live)' /\ Whole(disk)'
    BY WholeStep DEF Whole, ProgressHolds, Ready, FlatFrom
  <2> QED
    BY <2>1, <2>2, RowsStep, EstablishedStep, BehindStep DEF CampaignInv
<1> QED
  BY <1>1, CampaignInvInit, PTL DEF Spec
-------------------------------------------------------------------------------
(* The theorems *)

\* The variables have the types Campaign gives them.
THEOREM CampaignTypeCorrect == Spec => []TypeOK
<1>1. CampaignInv => TypeOK
  BY TypeInvImplies DEF CampaignInv
<1> QED
  BY <1>1, CampaignInvariant, PTL

\* Wherever publications were cut off, what is published of an observation are
\* artifacts of its one ready attempt: a new attempt is made only while nothing
\* is ready or published, and the next run publishes what is ready.
THEOREM PublicationsAreWhole == Spec => []NoMixedPublication
<1>1. ASSUME NEW image, Whole(image), NEW o \in Observations
      PROVE  Cardinality(Ready(image, o)) <= 1
  <2>1. CASE Ready(image, o) = {}
    BY <2>1, FS_EmptySet
  <2>2. ASSUME NEW r \in Ready(image, o) PROVE Cardinality(Ready(image, o)) <= 1
    <3>1. Ready(image, o) = {r}
      BY <1>1, <2>2 DEF Whole
    <3> QED
      BY <3>1, FS_Singleton
  <2> QED
    BY <2>1, <2>2
<1>2. CampaignInv => NoMixedPublication
  BY <1>1 DEF CampaignInv, Whole, NoMixedPublication
<1> QED
  BY <1>2, CampaignInvariant, PTL

\* What a resume verifies first is so, whatever ended the runs before it: rows
\* are commits, and they are saved only then.
THEOREM SavedProgressIsTrue == Spec => []SavedProgressHolds
<1>1. CampaignInv => SavedProgressHolds
  BY DEF CampaignInv, Whole, SavedProgressHolds
<1> QED
  BY <1>1, CampaignInvariant, PTL

\* What is on the device changes as CampaignCohort promises: by one commit, or
\* by the summary of a whole cohort.
THEOREM CampaignKeepsCohort == Spec => KeepsCohort
<1>1. Init => Cohort!Init
  BY DEF Init, Empty, Cohort!Init
<1>2. CampaignInv /\ [Next]_vars => [Cohort!Next]_<<disk.commit, disk.summary>>
  <2> SUFFICES ASSUME CampaignInv, [Next]_vars
               PROVE  [Cohort!Next]_<<disk.commit, disk.summary>>
    OBVIOUS
  <2>0. live \in Images /\ disk \in Images /\ Whole(live) /\ Behind
    BY DEF CampaignInv, TypeInv, FilesTyped
  <2>1. CASE disk'.commit = disk.commit /\ disk'.summary = disk.summary
    BY <2>1
  <2>2. CASE disk' = live
    <3>1. CASE live.commit = disk.commit /\ live.summary # disk.summary
      <4>1. disk.summary = FALSE /\ live.summary = TRUE
        BY <2>0, <3>1 DEF Behind, Images
      <4>2. \A o \in Observations : \E r \in Runs : live.commit[o] = r
        <5>1. \A p \in live.progress : live.commit[p[1]] = p[2]
          BY <2>0 DEF Whole, ProgressHolds
        <5>2. \A o \in Observations : \E r \in Runs : <<o, r>> \in live.progress
          BY <2>0, <4>1 DEF Whole, ProgressHolds
        <5>3. ASSUME NEW o \in Observations, NEW r \in Runs, <<o, r>> \in live.progress
              PROVE  live.commit[o] = r
          <6>1. live.commit[<<o, r>>[1]] = <<o, r>>[2]
            BY <5>1, <5>3
          <6> QED
            BY <6>1
        <5> QED
          BY <5>2, <5>3
      <4> QED
        BY <2>2, <3>1, <4>1, <4>2, Bounds DEF Cohort!Next, Cohort!Complete
    <3>2. ASSUME live.summary = disk.summary, NEW o \in Observations, NEW r \in Runs,
                 disk.commit[o] = Absent, live.commit = [disk.commit EXCEPT ![o] = r]
          PROVE  Cohort!Publish(o)
      BY <2>2, <3>2 DEF Cohort!Publish
    <3> QED
      BY <2>0, <2>1, <2>2, <3>1, <3>2 DEF Behind, Cohort!Next
  <2>3. CASE LosePower
    BY <2>0, <2>1, <2>3, LeftoversWritten DEF LosePower
  <2>4. CASE Sync \/ Writeback
    BY <2>2, <2>4 DEF Sync, Writeback
  <2>5. CASE UNCHANGED vars
    BY <2>1, <2>5 DEF vars
  <2>6. CASE /\ ~Sync /\ ~Writeback /\ ~LosePower /\ Next
    BY <2>1, <2>6 DEF Next, Step, Invoke, WritePlan, VerifySavedProgress, WriteOwner, StartItem,
       Reuse, NewAttempt, Decode, WriteFailure, WriteReady, Copy, Commit, Recheck, WriteCheckpoint,
       WriteReport, WriteTerminal, Return, Error, Signal, Kill, Goto, Writes, Returns, Pauses
  <2> QED
    BY <2>3, <2>4, <2>5, <2>6
<1> QED
  BY <1>1, <1>2, CampaignInvariant, PTL DEF KeepsCohort, Spec, Cohort!Spec
===============================================================================
