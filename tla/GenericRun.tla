------------------------------- MODULE GenericRun -------------------------------
(***************************************************************************)
(* A resumable run of the generic receiver (rust/generic.rs): the first    *)
(* invocation creates the run directory and freezes a contract, the later  *)
(* ones resume it; windows are decoded by a pool, committed one file each, *)
(* merged into windows.jsonl and result.json and sealed by                 *)
(* completion.json.  One invocation runs at a time (.generic-lock).        *)
(*                                                                         *)
(* The recording should not change during a run.  If it does, metadata     *)
(* checks around each window and a hash at the end are to notice, and      *)
(* source-invalidated.json ends the run for good.                          *)
(*                                                                         *)
(* live is what processes see of the directory, disk what a power loss     *)
(* leaves of it; the lock, plan.json (as the contract) and the temporary   *)
(* files are left out.                                                     *)
(***************************************************************************)
EXTENDS Integers, FiniteSets

CONSTANTS
    Windows,        \* of the schedule
    Contents,       \* what the recording may contain
    Absent,
    Threads,        \* size of the pool
    ExactMetadata,  \* TRUE: every change of a file shows in its metadata;
                    \* FALSE: one within a clock tick need not
    SharedJournal,  \* TRUE: an fsync makes all earlier renames durable;
                    \* FALSE: only those in the directory synced (POSIX)
    MaxRuns, MaxKills, MaxErrors, MaxChanges, MaxPowerLosses

ASSUME RunAssumption ==
    /\ Absent \notin Contents \cup {"failures", "error"} /\ {"failures", "error"} \cap Contents = {}
    /\ {ExactMetadata, SharedJournal} \subseteq BOOLEAN
    /\ Threads \in Nat \ {0} /\ MaxRuns \in Nat \ {0}
    /\ {MaxKills, MaxErrors, MaxChanges, MaxPowerLosses} \subseteq Nat

VARIABLES
    \* The recording: its content and its metadata (mtime, ctime, inode).
    content, stamp,
    audio,          \* it is audio, loaded at the start; or IQ, read per window
    \* The run directory.
    live, disk,
    published,      \* attempts, journals and results reported as durable
    \* The invocation.
    at, run,        \* where it is; its number, 1 for the fresh one
    guard, source,  \* metadata and hash of the recording
    before, pcm,    \* load_audio: its own hash, and the samples
    cached,         \* the windows it found
    sealed,         \* it found completion.json
    stage, got,     \* per window: where its thread is, what it decoded
    outcome,        \* what the last invocation returned, if power is still on
    \* What the bounds limit.
    kills, errors, changes, powerLosses

recording == <<content, stamp, audio>>
memory    == <<guard, source, before, pcm, cached, sealed>>
pool      == <<stage, got>>
faults    == <<kills, changes, powerLosses>>
vars      == <<recording, live, disk, published, at, run, memory, pool, outcome, faults, errors>>

Runs    == 1 .. MaxRuns
Decoded == Contents \cup {"failures"}

Journals  == [run : Runs, of : [Windows -> Decoded]]
Results   == [run : Runs, status : {"complete", "failed"}, of : [Windows -> Decoded]]
Artifacts == {"attempt", "journal", "result"} \X Runs
Contracts == [source : Contents, pcm : Contents]
Seals     == [journal : Journals, result : Results]

ASSUME AbsentAssumption ==
    /\ Absent \notin Contracts /\ Absent \notin Seals
    /\ Absent \notin Journals /\ Absent \notin Results

\* An image of the run directory, each part with the directory it is in.
Images ==
    [contract : {Absent} \cup Contracts,                            \* root
     journal : {Absent} \cup Journals, result : {Absent} \cup Results,  \* root
     completion : {Absent} \cup Seals,                              \* root
     marker : BOOLEAN,                                                  \* root
     windows : [Windows -> Contents \cup {Absent}],                     \* windows/
     attempts : SUBSET Runs,                                            \* attempts/
     prior : [Runs -> SUBSET Artifacts]]                                \* attempts/<run>/

Empty ==
    [contract |-> Absent, journal |-> Absent, result |-> Absent, completion |-> Absent,
     marker |-> FALSE, windows |-> [w \in Windows |-> Absent], attempts |-> {},
     prior |-> [r \in Runs |-> {}]]

Writing == {"contract", "attempt", "retire-result", "retire-journal", "journal",
            "result", "completion", "finish", "abort-attempt", "abort-result"}
Syncing == {"sync-contract", "sync-attempt", "sync-retired", "sync-journal",
            "sync-result", "sync-completion", "sync-failure",
            "sync-marker", "sync-abort-marker"}

TypeOK ==
    /\ content \in Contents /\ stamp \in 0 .. MaxChanges /\ audio \in BOOLEAN
    /\ live \in Images /\ disk \in Images
    /\ published \subseteq Artifacts
    /\ at \in {"none", "opened", "hash", "load", "read", "recheck", "authenticate",
               "scan", "pool", "abort", "final", "compare", "failing"} \cup Writing \cup Syncing
    /\ run \in 0 .. MaxRuns
    /\ guard \in 0 .. MaxChanges
    /\ {source, before, pcm} \subseteq Contents \cup {Absent}
    /\ cached \in [Windows -> Contents \cup {Absent}]
    /\ sealed \in BOOLEAN
    /\ stage \in [Windows -> {"todo", "read", "check", "write", "sync", "marked", "returned"}]
    /\ got \in [Windows -> Decoded \cup {"error", Absent}]
    /\ outcome \in {"none", "complete", "failed", "error", "killed"}
    /\ kills \in 0 .. MaxKills /\ errors \in 0 .. MaxErrors
    /\ changes \in 0 .. MaxChanges /\ powerLosses \in 0 .. MaxPowerLosses

Idle ==
    /\ guard = 0 /\ source = Absent /\ before = Absent /\ pcm = Absent
    /\ cached = [w \in Windows |-> Absent] /\ sealed = FALSE
    /\ stage = [w \in Windows |-> "todo"] /\ got = [w \in Windows |-> Absent]

Init ==
    /\ content \in Contents /\ stamp = 0 /\ audio \in BOOLEAN
    /\ live = Empty /\ disk = Empty /\ published = {}
    /\ at = "none" /\ run = 0 /\ outcome = "none"
    /\ Idle
    /\ kills = 0 /\ errors = 0 /\ changes = 0 /\ powerLosses = 0
-------------------------------------------------------------------------------
(* The directory and the device *)

RootPart == {"contract", "journal", "result", "completion", "marker"}

\* The parts of the directory that an fsync in run r of directory d makes durable.
Persist(d, r) ==
    disk' = IF SharedJournal THEN live
            ELSE CASE d = "root" ->
                        [part \in DOMAIN live |-> IF part \in RootPart THEN live[part] ELSE disk[part]]
                   [] d \in {"windows", "attempts"} -> [disk EXCEPT ![d] = live[d]]
                   [] d = "attempt" -> [disk EXCEPT !.prior[r] = live.prior[r]]

Writeback ==
    /\ disk # live
    /\ \E d \in {"root", "windows", "attempts", "attempt"} : \E r \in Runs : Persist(d, r)
    /\ UNCHANGED <<recording, live, published, at, run, memory, pool, outcome, faults, errors>>

\* What an invocation had in memory is gone.
Forget ==
    /\ at' = "none"
    /\ guard' = 0 /\ source' = Absent /\ before' = Absent /\ pcm' = Absent
    /\ cached' = [w \in Windows |-> Absent] /\ sealed' = FALSE
    /\ stage' = [w \in Windows |-> "todo"] /\ got' = [w \in Windows |-> Absent]
    /\ UNCHANGED run

Kill ==
    /\ at # "none" /\ kills < MaxKills
    /\ kills' = kills + 1
    /\ Forget /\ outcome' = "killed"
    /\ UNCHANGED <<recording, live, disk, published, changes, powerLosses, errors>>

\* A directory whose own entry was not durable takes its files with it.
LosePower ==
    /\ powerLosses < MaxPowerLosses /\ run > 0
    /\ powerLosses' = powerLosses + 1
    /\ live' = [disk EXCEPT !.prior = [r \in Runs |-> IF r \in disk.attempts THEN disk.prior[r] ELSE {}]]
    /\ disk' = live'
    /\ Forget /\ outcome' = "killed"
    /\ UNCHANGED <<recording, published, kills, changes, errors>>

\* Somebody changes the recording, or restores it.
Change ==
    /\ changes < MaxChanges
    /\ changes' = changes + 1
    /\ \E c \in Contents \ {content} : content' = c
    /\ stamp' \in IF ExactMetadata THEN {stamp + 1} ELSE {stamp, stamp + 1}
    /\ UNCHANGED <<audio, live, disk, published, at, run, memory, pool, outcome, kills, powerLosses, errors>>
-------------------------------------------------------------------------------
(* An invocation: open, identify, authenticate *)

Goto(place) == at' = place

\* RunStore::open.  A directory that exists is only resumed.
Invoke ==
    /\ at = "none" /\ run < MaxRuns
    /\ run' = run + 1
    /\ Goto("opened") /\ outcome' = "none"
    /\ UNCHANGED <<recording, live, disk, published, memory, pool, faults, errors>>

Quiet    == UNCHANGED <<recording, live, disk, published, run, pool, outcome, faults, errors>>
Resuming == run > 1
Fail     == Goto("failing")

\* (Fault) An invalidated run is resumed if the recording has been restored.
OpenSource_AnyRun ==
    /\ at = "opened"
    /\ Goto("hash") /\ guard' = stamp
    /\ UNCHANGED <<source, before, pcm, cached, sealed>>
    /\ Quiet

OpenSource ==
    /\ at = "opened"
    /\ IF live.marker THEN Fail /\ UNCHANGED guard ELSE Goto("hash") /\ guard' = stamp
    /\ UNCHANGED <<source, before, pcm, cached, sealed>>
    /\ Quiet

HashSource ==
    /\ at = "hash"
    /\ source' = content
    /\ IF stamp = guard THEN Goto(IF audio THEN "load" ELSE "authenticate") ELSE Fail
    /\ UNCHANGED <<guard, before, pcm, cached, sealed>>
    /\ Quiet

\* load_audio hashes the recording for itself before and after it reads it.
LoadAudio ==
    /\ \/ at = "load" /\ Goto("read") /\ before' = content /\ UNCHANGED pcm
       \/ at = "read" /\ Goto("recheck") /\ pcm' = content /\ UNCHANGED before
       \/ /\ at = "recheck"
          /\ IF content = before THEN Goto("authenticate") ELSE Fail
          /\ UNCHANGED <<before, pcm>>
    /\ UNCHANGED <<guard, source, cached, sealed>>
    /\ Quiet

Contract == [source |-> source, pcm |-> IF audio THEN pcm ELSE source]

\* A fresh run freezes its inputs, a resumed one must come with the same.
Authenticate ==
    /\ at = "authenticate"
    /\ IF ~Resuming THEN Goto("contract")
       ELSE IF live.contract = Contract THEN Goto("scan") ELSE Fail
    /\ UNCHANGED memory
    /\ Quiet

Step(from, to) == at = from /\ Goto(to) /\ UNCHANGED <<recording, run, outcome, faults, errors>>

WriteContract ==
    /\ Step("contract", "sync-contract")
    /\ live' = [live EXCEPT !.contract = Contract]
    /\ UNCHANGED <<disk, published, memory, pool>>

\* The committed windows are verified; a seal must fit everything it seals.
Scan ==
    /\ at = "scan"
    /\ cached' = live.windows
    /\ sealed' = (live.completion # Absent)
    /\ IF live.completion = Absent THEN Goto("attempt")
       ELSE IF /\ \A w \in Windows : live.windows[w] # Absent
               /\ live.result = live.completion.result
               /\ live.journal = live.completion.journal
            THEN Goto("pool") ELSE Fail
    /\ UNCHANGED <<guard, source, before, pcm>>
    /\ Quiet

NewAttempt ==
    /\ Step("attempt", "sync-attempt")
    /\ live' = [live EXCEPT !.attempts = @ \cup {run}]
    /\ UNCHANGED <<disk, published, memory, pool>>

\* start.json is written too; of the directories it is the root that is synced.
SyncAttempt ==
    /\ Step("sync-attempt", "retire-result")
    /\ published' = published \cup {<<"attempt", run>>}
    /\ Persist("root", run)
    /\ UNCHANGED <<live, memory, pool>>

\* (Fault) It is deleted.
Retires_Deletes(part, to) ==
    /\ live' = [live EXCEPT ![part] = Absent]
    /\ Goto(to)
    /\ UNCHANGED <<recording, run, outcome, faults, errors, disk, published, memory, pool>>

\* (Fault) It stays where it is.
Retires_Leaves(part, to) ==
    /\ Goto(to)
    /\ UNCHANGED <<recording, run, outcome, faults, errors, live, disk, published, memory, pool>>

\* An earlier journal or result that no seal covers moves to the new attempt.
Retires(part, to) ==
    /\ live' = IF live[part] = Absent THEN live
               ELSE [live EXCEPT ![part] = Absent,
                                 !.prior[run] = @ \cup {<<part, live[part].run>>}]
    /\ Goto(to)
    /\ UNCHANGED <<recording, run, outcome, faults, errors, disk, published, memory, pool>>

RetireResult  == at = "retire-result" /\ Retires("result", "retire-journal")
RetireJournal == at = "retire-journal" /\ Retires("journal", "sync-retired")

\* The fsync of the root that belongs to a write there.
SyncRoot ==
    /\ \/ Step("sync-contract", "scan")
       \/ Step("sync-retired", "pool")
       \/ Step("sync-marker", "failing")
       \/ Step("sync-abort-marker", IF sealed THEN "failing" ELSE "abort-attempt")
    /\ Persist("root", run)
    /\ UNCHANGED <<live, published, memory, pool>>
-------------------------------------------------------------------------------
(* The pool *)

\* check_runtime_guards
Unchanged == stamp = guard

Pooled   == at = "pool" /\ UNCHANGED <<recording, published, at, run, memory, outcome, faults>>
Moves(w, place) == stage' = [stage EXCEPT ![w] = place]
Returns(w, value) == Moves(w, "returned") /\ got' = [got EXCEPT ![w] = value]

\* A change was noticed: source-invalidated.json, unless it is there already or
\* cannot be created.
Invalidates ==
    \/ live' = [live EXCEPT !.marker = TRUE] /\ UNCHANGED errors
    \/ /\ ~live.marker /\ errors < MaxErrors
       /\ errors' = errors + 1 /\ UNCHANGED live

InvalidatesFrom(w) ==
    /\ Invalidates
    /\ IF live'.marker # live.marker
       THEN Moves(w, "marked") /\ got' = [got EXCEPT ![w] = "error"]
       ELSE Returns(w, "error")
    /\ UNCHANGED disk

Begin(w) ==
    /\ Pooled /\ stage[w] = "todo"
    /\ Cardinality({v \in Windows : stage[v] \notin {"todo", "returned"}}) < Threads
    /\ IF ~Unchanged THEN InvalidatesFrom(w)
       ELSE /\ IF cached[w] # Absent THEN Returns(w, cached[w])
               ELSE Moves(w, "read") /\ UNCHANGED got
            /\ UNCHANGED <<live, disk, errors>>

\* The window is decoded; some hypotheses may fail, or the reading.
Decode(w) ==
    /\ Pooled /\ stage[w] = "read"
    /\ Moves(w, "check")
    /\ \/ got' = [got EXCEPT ![w] = IF audio THEN pcm ELSE content] /\ UNCHANGED errors
       \/ /\ errors < MaxErrors /\ errors' = errors + 1
          /\ \E failure \in {"failures", "error"} : got' = [got EXCEPT ![w] = failure]
    /\ UNCHANGED <<live, disk>>

\* (Fault) What was decoded is committed without another look at the recording.
Check_Trusts(w) ==
    /\ Pooled /\ stage[w] = "check"
    /\ Moves(w, IF got[w] \in Contents THEN "write" ELSE "returned")
    /\ UNCHANGED <<got, live, disk, errors>>

\* Only a window without failures is committed; another is recorded in the
\* attempt's directory.
Check(w) ==
    /\ Pooled /\ stage[w] = "check"
    /\ IF ~Unchanged THEN InvalidatesFrom(w)
       ELSE /\ Moves(w, IF got[w] \in Contents THEN "write" ELSE "returned")
            /\ IF got[w] \in Contents THEN UNCHANGED disk ELSE Persist("attempt", run)
            /\ UNCHANGED <<got, live, errors>>

CommitWindow(w) ==
    /\ Pooled /\ stage[w] = "write"
    /\ live' = [live EXCEPT !.windows[w] = got[w]]
    /\ Moves(w, "sync")
    /\ UNCHANGED <<got, disk, errors>>

SyncWindow(w) ==
    /\ Pooled
    /\ \/ stage[w] = "sync" /\ Persist("windows", run)
       \/ stage[w] = "marked" /\ Persist("root", run)
    /\ Moves(w, "returned")
    /\ UNCHANGED <<got, live, errors>>

\* A write fails, or the budget of 512 MiB is used up.
WindowError(w) ==
    /\ Pooled /\ stage[w] \in {"check", "write", "sync"}
    /\ errors < MaxErrors /\ errors' = errors + 1
    /\ Returns(w, "error")
    /\ UNCHANGED <<live, disk>>
-------------------------------------------------------------------------------
(* An invocation: merge, publish, seal *)

PoolDone ==
    /\ at = "pool" /\ \A w \in Windows : stage[w] = "returned"
    /\ Goto(IF \E w \in Windows : got[w] = "error" THEN "abort" ELSE "final")
    /\ UNCHANGED memory
    /\ Quiet

\* check_source_final: the recording is hashed once more.
FinallyUnchanged == stamp = guard /\ content = source

Checks(from, good, marked, bad) ==
    /\ at = from
    /\ IF FinallyUnchanged THEN Goto(good) /\ UNCHANGED <<live, errors>>
       ELSE /\ Invalidates
            /\ Goto(IF live'.marker # live.marker THEN marked ELSE bad)
    /\ UNCHANGED <<recording, disk, published, run, memory, pool, outcome, faults>>

CheckFinal == Checks("final", IF sealed THEN "compare" ELSE "journal", "sync-marker", "failing")

\* After a window's error the committed windows stay, if the recording does.
CheckAborted ==
    LET next == IF sealed THEN "failing" ELSE "abort-attempt"
    IN  Checks("abort", next, "sync-abort-marker", next)

Return(value) ==
    /\ Forget /\ outcome' = value
    /\ UNCHANGED <<recording, live, disk, published, faults, errors>>

\* A sealed run is merged again, and must give the sealed journal and result.
Compare ==
    /\ at = "compare"
    /\ IF live.result.of = got /\ live.journal.of = got
       THEN Return("complete")
       ELSE Fail /\ UNCHANGED memory /\ Quiet

\* persist_noclobber: never over an existing file.
Publishes(part, value, to) ==
    /\ IF live[part] = Absent
       THEN live' = [live EXCEPT ![part] = value] /\ Goto(to)
       ELSE UNCHANGED live /\ Fail
    /\ UNCHANGED <<recording, run, outcome, faults, errors, disk, published, memory, pool>>

PublishJournal ==
    at = "journal" /\ Publishes("journal", [run |-> run, of |-> got], "sync-journal")

Status == IF \E w \in Windows : got[w] = "failures" THEN "failed" ELSE "complete"

PublishResult ==
    at = "result" /\ Publishes("result", [run |-> run, status |-> Status, of |-> got], "sync-result")

\* (Fault) Windows with failures do not keep a run from being sealed.
SyncPublished_SealsAnyway ==
    /\ \/ /\ Step("sync-journal", "result")
          /\ published' = published \cup {<<"journal", run>>}
       \/ /\ Step("sync-result", "completion")
          /\ published' = published \cup {<<"result", run>>}
    /\ Persist("root", run)
    /\ UNCHANGED <<live, memory, pool>>

SyncPublished ==
    /\ \/ /\ Step("sync-journal", "result")
          /\ published' = published \cup {<<"journal", run>>}
       \/ /\ Step("sync-result", IF Status = "complete" THEN "completion" ELSE "finish")
          /\ published' = published \cup {<<"result", run>>}
    /\ Persist("root", run)
    /\ UNCHANGED <<live, memory, pool>>

Seal ==
    at = "completion"
    /\ Publishes("completion", [journal |-> live.journal, result |-> live.result], "sync-completion")

SyncSeal ==
    /\ Step("sync-completion", "finish")
    /\ Persist("root", run)
    /\ UNCHANGED <<live, published, memory, pool>>

\* finish.json
Finish ==
    /\ at = "finish"
    /\ Persist("attempt", run)
    /\ Forget /\ outcome' = Status
    /\ UNCHANGED <<recording, live, published, faults, errors>>

\* failure.json
AbortAttempt ==
    /\ Step("abort-attempt", "abort-result")
    /\ Persist("attempt", run)
    /\ UNCHANGED <<live, published, memory, pool>>

FailedResult == [run |-> run, status |-> "failed", of |-> [w \in Windows |-> "failures"]]

\* An error is published as the result, if there is none: by an attempt whose
\* pool failed, or by a fresh run.  A resume that failed earlier leaves no trace.
PublishFailure ==
    /\ at \in {"abort-result", "failing"}
    /\ IF live.result = Absent /\ (at = "failing" => ~Resuming)
       THEN Publishes("result", FailedResult, "sync-failure")
       ELSE Return("error")

SyncFailure ==
    /\ at = "sync-failure"
    /\ Persist("root", run)
    /\ published' = published \cup {<<"result", run>>}
    /\ Forget /\ outcome' = "error"
    /\ UNCHANGED <<recording, live, faults, errors>>

\* A write fails.
WriteError ==
    /\ at \in Writing \cup Syncing
    /\ errors < MaxErrors /\ errors' = errors + 1
    /\ Fail
    /\ UNCHANGED <<recording, live, disk, published, run, memory, pool, outcome, faults>>

Main ==
    \/ OpenSource \/ HashSource \/ LoadAudio \/ Authenticate \/ WriteContract \/ Scan
    \/ NewAttempt \/ SyncAttempt \/ RetireResult \/ RetireJournal \/ SyncRoot
    \/ PoolDone \/ CheckFinal \/ CheckAborted \/ Compare
    \/ PublishJournal \/ PublishResult \/ SyncPublished \/ Seal \/ SyncSeal \/ Finish
    \/ AbortAttempt \/ PublishFailure \/ SyncFailure

Window(w) == Begin(w) \/ Decode(w) \/ Check(w) \/ CommitWindow(w) \/ SyncWindow(w)

Next ==
    \/ Invoke \/ Main \/ WriteError
    \/ \E w \in Windows : Window(w) \/ WindowError(w)
    \/ Writeback \/ Kill \/ LosePower \/ Change

Spec == Init /\ [][Next]_vars

\* The operating system runs an invocation to its end, and the operator resumes
\* one that ended.  Kills, errors, changes and losses of power are never owed.
FairSpec ==
    /\ Spec
    /\ WF_vars(Main) /\ WF_vars(Invoke)
    /\ \A w \in Windows : WF_vars(Window(w))
-------------------------------------------------------------------------------
(* What the run directory promises *)

\* What is in windows/ was decoded from the recording that the contract names,
\* whatever the recording went through meanwhile.
CachedWindowsAreOfSource ==
    \A w \in Windows : live.windows[w] # Absent =>
        live.contract # Absent /\ live.windows[w] = live.contract.source

\* completion.json, as seen and on the device, comes with every window, and with
\* the very journal and result that merge them, none failed. An invocation that
\* returns a complete result has sealed it, of the recording it was given, and no
\* change was ever noticed. (The seal may still be lost with the power: one found by
\* a resume may never have been synced.)
CompletionIsWhole ==
    /\ \A image \in {live, disk} : image.completion # Absent =>
           /\ image.result = image.completion.result /\ image.result.status = "complete"
           /\ image.journal = image.completion.journal
           /\ image.result.of = image.windows /\ image.journal.of = image.windows
           /\ \A w \in Windows : image.windows[w] = image.contract.source
    /\ outcome = "complete" =>
        /\ live.completion # Absent /\ ~live.marker
        /\ \A w \in Windows : live.result.of[w] = live.contract.source

\* How a run ended is final. One in which a change was noticed is never completed: not
\* by a thread that noticed nothing, nor by a resume after the recording was restored;
\* and once a completion is durable, no resume, kill or loss of power changes what it
\* completes.
OutcomeIsFinal ==
    [][/\ live.marker /\ live.completion = Absent => live'.completion = Absent
       /\ disk.completion # Absent =>
             /\ live'.completion = live.completion /\ live'.windows = live.windows
             /\ live'.result = live.result /\ live'.journal = live.journal]_vars

\* "All attempts are retained."
AttemptsAreKept == \A r \in Runs : <<"attempt", r>> \in published => r \in live.attempts

\* So is every journal and result once published: in its place, or in the
\* attempt that superseded it.
PublishedIsKept ==
    /\ AttemptsAreKept
    /\ \A part \in {"journal", "result"}, r \in Runs : <<part, r>> \in published =>
          \/ \E a \in live.attempts : <<part, r>> \in live.prior[a]
          \/ live[part] # Absent /\ live[part].run = r

\* Between invocations, a run that was not invalidated holds only windows of its
\* recording.
ChangesAreCaught == at = "none" /\ ~live.marker => CachedWindowsAreOfSource

\* Once its contract is durable, some invocation of a run with an unchanged
\* recording returns the complete result, if interruptions end.
RunCompletes == <>(disk.contract # Absent) => <>(outcome = "complete")
===============================================================================
