------------------------------- MODULE Campaign -------------------------------
(***************************************************************************)
(* A campaign (rust/campaign.rs): a fixed cohort of observations, decoded  *)
(* one after the other by as many runs as it takes.  A run starts a new    *)
(* attempt for an observation only if no earlier one is ready; it copies a *)
(* ready attempt's three artifacts to the observation's directory and then *)
(* writes commit.json.  After each observation it writes a checkpoint, at  *)
(* the end a summary, and summary.json once every observation is complete. *)
(*                                                                         *)
(* Every file is written as a temporary one, synced, renamed, and its      *)
(* directory synced (write_json_new, atomic_copy_new).  One run at a time  *)
(* (.campaign.lock).  live is what processes see of the files, disk what a *)
(* power loss leaves, on a filesystem with one metadata journal.           *)
(***************************************************************************)
EXTENDS Integers, FiniteSets

CONSTANTS
    Size,           \* of the cohort
    Absent,
    MaxRuns, MaxStops, MaxKills, MaxErrors, MaxFailures, MaxPowerLosses

ASSUME CampaignAssumption ==
    /\ Size \in Nat \ {0} /\ MaxRuns \in Nat \ {0}
    /\ {MaxStops, MaxKills, MaxErrors, MaxFailures, MaxPowerLosses} \subseteq Nat
    /\ Absent \notin 0 .. MaxRuns

VARIABLES
    live, disk,
    at, then,       \* where the run is; where it goes after an fsync
    run,            \* its number
    item,           \* the observation it is at
    from,           \* the ready attempt it publishes
    rows,           \* per observation: the attempt published, or Failed
    stop,           \* SIGINT or SIGTERM came
    pause,          \* the run ends before the cohort does
    outcome,        \* what the last run returned
    stops, kills, errors, failures, powerLosses

memory == <<item, from, rows, stop, pause>>
faults == <<stops, kills, failures, powerLosses>>
vars   == <<live, disk, at, then, run, memory, outcome, faults, errors>>

Runs         == 1 .. MaxRuns
Failed       == 0
Observations == 1 .. Size
Artifacts    == {"result", "journal", "plan"}

\* What a kill may leave of a file that was being written to one of the
\* directories that are scanned.
Leftovers == {"run", "checkpoint", "partial checkpoint", "partial summary"}

\* An attempt is named for the run that made it.
Images ==
    [plan : BOOLEAN,
     attempts : [Observations -> [Runs -> {"none", "made", "failed", "ready"}]],
     flat : [Observations -> [Artifacts -> Runs \cup {Absent}]],
     commit : [Observations -> Runs \cup {Absent}],
     progress : SUBSET (Observations \X Runs),   \* commits that checkpoints
                                                 \* and summaries refer to
     summary : BOOLEAN,                          \* summary.json
     leftovers : SUBSET Leftovers]

Empty ==
    [plan |-> FALSE,
     attempts |-> [o \in Observations |-> [r \in Runs |-> "none"]],
     flat |-> [o \in Observations |-> [a \in Artifacts |-> Absent]],
     commit |-> [o \in Observations |-> Absent],
     progress |-> {}, summary |-> FALSE, leftovers |-> {}]

InItem == {"item", "reuse", "attempt", "decode", "fail", "ready", "copy", "commit", "recheck"}
Places == {"none", "plan", "verify", "owner", "sync", "checkpoint", "end", "report",
           "terminal", "return"} \cup InItem

TypeOK ==
    /\ live \in Images /\ disk \in Images
    /\ at \in Places /\ then \in Places
    /\ run \in 0 .. MaxRuns
    /\ item \in 1 .. Size + 1
    /\ from \in Runs \cup {Absent}
    /\ rows \in [Observations -> Runs \cup {Absent, Failed}]
    /\ \A o \in Observations : rows[o] # Absent => o < item
    /\ stop \in BOOLEAN /\ pause \in BOOLEAN
    /\ outcome \in {"none", "complete", "failed", "paused", "error", "refused", "killed"}
    /\ stops \in 0 .. MaxStops /\ kills \in 0 .. MaxKills /\ errors \in 0 .. MaxErrors
    /\ failures \in 0 .. MaxFailures /\ powerLosses \in 0 .. MaxPowerLosses

Fresh ==
    /\ item = 1 /\ from = Absent /\ rows = [o \in Observations |-> Absent]
    /\ stop = FALSE /\ pause = FALSE

Init ==
    /\ live = Empty /\ disk = Empty
    /\ at = "none" /\ then = "none" /\ run = 0 /\ outcome = "none"
    /\ Fresh
    /\ stops = 0 /\ kills = 0 /\ errors = 0 /\ failures = 0 /\ powerLosses = 0
-------------------------------------------------------------------------------
(* Steps of a run *)

Goto(place) == at' = place /\ UNCHANGED <<then, run, outcome, faults, errors>>
Writes(to)  == at' = "sync" /\ then' = to /\ UNCHANGED <<disk, run, outcome, faults, errors>>

\* The run ends; its memory is gone.
Ends(value) ==
    /\ at' = "none" /\ then' = "none" /\ outcome' = value
    /\ item' = 1 /\ from' = Absent /\ rows' = [o \in Observations |-> Absent]
    /\ stop' = FALSE /\ pause' = FALSE
    /\ UNCHANGED run

Returns(value) == Ends(value) /\ UNCHANGED <<live, disk, faults, errors>>

\* An observation that returns an error pauses the run; so does a signal.
Pauses ==
    /\ pause' = TRUE /\ UNCHANGED <<item, from, rows, stop>>
    /\ at' = "end" /\ UNCHANGED <<live, disk, then, run, outcome, faults>>

\* The fsync of the directory a file was renamed to.
Sync ==
    /\ at = "sync"
    /\ disk' = live
    /\ at' = then /\ then' = "none"
    /\ UNCHANGED <<live, run, memory, outcome, faults, errors>>

\* The first run makes the directory, any other resumes it.
Invoke ==
    /\ at = "none" /\ run < MaxRuns
    /\ run' = run + 1 /\ outcome' = "none"
    /\ at' = IF run = 0 THEN "plan" ELSE "verify"
    /\ UNCHANGED <<live, disk, then, memory, faults, errors>>

WritePlan ==
    /\ at = "plan"
    /\ live' = [live EXCEPT !.plan = TRUE]
    /\ Writes("owner") /\ UNCHANGED memory

\* verify_saved_progress reads every entry of checkpoints/ and summaries/.
ProgressHolds(image) ==
    /\ \A p \in image.progress : image.commit[p[1]] = p[2]
    /\ image.summary => \A o \in Observations : \E r \in Runs : <<o, r>> \in image.progress

VerifySavedProgress ==
    /\ at = "verify"
    /\ IF ~live.plan THEN Returns("error")
       ELSE IF ProgressHolds(live)
               /\ live.leftovers \cap {"partial checkpoint", "partial summary"} = {}
            THEN Goto("owner") /\ UNCHANGED <<live, disk, memory>>
            ELSE Returns("refused")

\* next_index admits nothing but runs in runs/.
WriteOwner ==
    /\ at = "owner"
    /\ IF "run" \in live.leftovers THEN Returns("refused")
       ELSE Writes("item") /\ UNCHANGED <<live, memory>>

StartItem ==
    /\ at = "item"
    /\ IF item <= Size /\ stop
       THEN Pauses /\ UNCHANGED errors
       ELSE /\ Goto(IF item <= Size THEN "reuse" ELSE "end")
            /\ from' = Absent
            /\ UNCHANGED <<live, disk, item, rows, stop, pause>>
-------------------------------------------------------------------------------
(* One observation (process_one) *)

Ready(image, o) == {r \in Runs : image.attempts[o][r] = "ready"}
FlatFrom(image, o, r) == \A a \in Artifacts : image.flat[o][a] = r
NoFlat(image, o) == FlatFrom(image, o, Absent)

\* (Fault) Only what is committed is looked at.
Reuse_OnlyCommits ==
    /\ at = "reuse"
    /\ IF live.commit[item] = Absent
       THEN Goto("attempt") /\ UNCHANGED from
       ELSE Goto("copy") /\ from' = live.commit[item]
    /\ UNCHANGED <<live, disk, item, rows, stop, pause>>

\* (Fault) Flat artifacts without a commit are refused first.
Reuse_RefusesFlat ==
    /\ at = "reuse"
    /\ IF live.commit[item] = Absent /\ ~NoFlat(live, item)
       THEN Pauses /\ UNCHANGED errors
       ELSE /\ \/ /\ live.commit[item] = Absent /\ Ready(live, item) = {}
                  /\ Goto("attempt") /\ UNCHANGED from
               \/ \E r \in Ready(live, item) : Goto("copy") /\ from' = r
            /\ UNCHANGED <<live, disk, item, rows, stop, pause>>

\* reuse_complete: a committed attempt is verified, a ready one published; only
\* without either a new one is made.
Reuse ==
    /\ at = "reuse"
    /\ LET committed == live.commit[item]
           ready == Ready(live, item)
           Publish(r) == Goto("copy") /\ from' = r /\ UNCHANGED <<live, disk, item, rows, stop, pause>>
       IN  \/ /\ committed # Absent
              /\ committed \in ready /\ FlatFrom(live, item, committed)
              /\ Publish(committed)
           \/ /\ committed = Absent /\ Cardinality(ready) = 1
              /\ \E r \in ready : Publish(r)
           \/ /\ committed = Absent /\ ready = {} /\ NoFlat(live, item)
              /\ Goto("attempt") /\ UNCHANGED <<live, disk, memory>>
           \/ /\ \/ committed # Absent /\ ~(committed \in ready /\ FlatFrom(live, item, committed))
                 \/ committed = Absent /\ Cardinality(ready) > 1
                 \/ committed = Absent /\ ready = {} /\ ~NoFlat(live, item)
              /\ Pauses /\ UNCHANGED errors

NewAttempt ==
    /\ at = "attempt"
    /\ live' = [live EXCEPT !.attempts[item][run] = "made"]
    /\ Writes("decode") /\ UNCHANGED memory

\* decode_file; windows that fail and errors of the decoder are one here.
Decode ==
    /\ at = "decode"
    /\ \/ at' = "ready" /\ UNCHANGED failures
       \/ at' = "fail" /\ failures < MaxFailures /\ failures' = failures + 1
    /\ UNCHANGED <<live, disk, then, run, memory, outcome, stops, kills, powerLosses, errors>>

WriteFailure ==
    /\ at = "fail"
    /\ live' = [live EXCEPT !.attempts[item][run] = "failed"]
    /\ Writes("recheck") /\ UNCHANGED memory

WriteReady ==
    /\ at = "ready"
    /\ live' = [live EXCEPT !.attempts[item][run] = "ready"]
    /\ from' = run
    /\ Writes("copy") /\ UNCHANGED <<item, rows, stop, pause>>

\* publish_ready, in this order.  An artifact that is there must be the attempt's.
Before(a) == CASE a = "result" -> {} [] a = "journal" -> {"result"} [] a = "plan" -> {"result", "journal"}

\* (Fault) Three artifacts are enough.
Copy_SkipsCommit ==
    /\ at = "copy"
    /\ IF FlatFrom(live, item, from)
       THEN Goto("recheck") /\ UNCHANGED <<live, disk>>
       ELSE \E a \in Artifacts :
               /\ live.flat[item][a] = Absent /\ \A b \in Before(a) : live.flat[item][b] = from
               /\ live' = [live EXCEPT !.flat[item][a] = from] /\ Writes("copy")
    /\ UNCHANGED memory

Copy ==
    /\ at = "copy"
    /\ \/ /\ FlatFrom(live, item, from)
          /\ Goto("commit") /\ UNCHANGED <<live, disk, memory>>
       \/ \E a \in Artifacts :
             /\ \A b \in Before(a) : live.flat[item][b] = from
             /\ \/ /\ live.flat[item][a] = Absent
                   /\ live' = [live EXCEPT !.flat[item][a] = from]
                   /\ Writes("copy") /\ UNCHANGED memory
                \/ /\ live.flat[item][a] \notin {Absent, from}
                   /\ Pauses /\ UNCHANGED errors

Commit ==
    /\ at = "commit"
    /\ IF live.commit[item] = Absent
       THEN live' = [live EXCEPT !.commit[item] = from] /\ Writes("recheck") /\ UNCHANGED memory
       ELSE IF live.commit[item] = from
       THEN Goto("recheck") /\ UNCHANGED <<live, disk, memory>>
       ELSE Pauses /\ UNCHANGED errors
-------------------------------------------------------------------------------
(* Progress *)

\* The inputs are verified once more, and the observation has its row.
Recheck ==
    /\ at = "recheck"
    /\ rows' = [rows EXCEPT ![item] = IF from = Absent THEN Failed ELSE from]
    /\ item' = item + 1
    /\ Goto("checkpoint")
    /\ UNCHANGED <<live, disk, from, stop, pause>>

Completed == {o \in Observations : rows[o] \in Runs}

\* (Fault) A failed observation is done with, too.
AllComplete_OrFailed == ~pause /\ \A o \in Observations : rows[o] # Absent

AllComplete == ~pause /\ Completed = Observations

Saves == live' = [live EXCEPT !.progress = @ \cup {<<o, rows[o]>> : o \in Completed}]

WriteCheckpoint ==
    /\ at \in {"checkpoint", "end"}
    /\ IF live.leftovers \cap {"checkpoint", "partial checkpoint"} # {}
       THEN Returns("refused")
       ELSE /\ Saves
            /\ Writes(IF at = "checkpoint" THEN "item" ELSE "report")
            /\ UNCHANGED memory

WriteReport ==
    /\ at = "report"
    /\ Saves
    /\ Writes(IF AllComplete THEN "terminal" ELSE "return") /\ UNCHANGED memory

WriteTerminal ==
    /\ at = "terminal"
    /\ IF live.summary THEN Goto("return") /\ UNCHANGED <<live, disk>>
       ELSE live' = [live EXCEPT !.summary = TRUE] /\ Writes("return")
    /\ UNCHANGED memory

Return ==
    /\ at = "return"
    /\ Returns(IF AllComplete THEN "complete" ELSE IF pause THEN "paused" ELSE "failed")
-------------------------------------------------------------------------------
(* What may go wrong *)

\* Within process_one and the checks around it.
InObservation ==
    LET place == IF at = "sync" THEN then ELSE at
    IN  place \in InItem /\ (place = "item" => at # "sync" /\ item <= Size)

\* A write, a check of the inputs or of the disk space fails.
Error ==
    /\ at # "none" /\ errors < MaxErrors
    /\ errors' = errors + 1
    /\ IF InObservation
       THEN /\ pause' = TRUE /\ UNCHANGED <<item, from, rows, stop>>
            /\ at' = "end" /\ then' = "none" /\ UNCHANGED <<run, outcome>>
       ELSE Ends("error")
    /\ UNCHANGED <<live, disk, faults>>

Signal ==
    /\ at \notin {"none", "plan", "verify"} /\ ~stop /\ stops < MaxStops
    /\ stop' = TRUE /\ stops' = stops + 1
    /\ UNCHANGED <<live, disk, at, then, run, item, from, rows, pause, outcome, kills,
                   failures, powerLosses, errors>>

\* What is left of the file being written.
Leaves ==
    CASE at = "owner" -> {"run"}
      [] at \in {"checkpoint", "end"} -> {"checkpoint", "partial checkpoint"}
      [] at = "report" -> {"partial summary"}
      [] OTHER -> {}

WithLeftovers(image) == {image} \cup {[image EXCEPT !.leftovers = @ \cup {l}] : l \in Leaves}

Kill ==
    /\ at # "none" /\ kills < MaxKills
    /\ kills' = kills + 1
    /\ live' \in WithLeftovers(live)
    /\ Ends("killed")
    /\ UNCHANGED <<disk, stops, failures, powerLosses, errors>>

Writeback ==
    /\ disk # live
    /\ disk' = live
    /\ UNCHANGED <<live, at, then, run, memory, outcome, faults, errors>>

LosePower ==
    /\ run > 0 /\ powerLosses < MaxPowerLosses
    /\ powerLosses' = powerLosses + 1
    /\ live' \in WithLeftovers(disk) /\ disk' = live'
    /\ Ends("killed")
    /\ UNCHANGED <<stops, kills, failures, errors>>

Step ==
    \/ WritePlan \/ VerifySavedProgress \/ WriteOwner \/ StartItem \/ Sync
    \/ Reuse \/ NewAttempt \/ Decode \/ WriteFailure \/ WriteReady \/ Copy \/ Commit
    \/ Recheck \/ WriteCheckpoint \/ WriteReport \/ WriteTerminal \/ Return

Next == Invoke \/ Step \/ Error \/ Signal \/ Kill \/ Writeback \/ LosePower

Spec == Init /\ [][Next]_vars

\* A run goes on, and the operator resumes a campaign that is not complete.
\* Signals, errors, failures, kills and power losses are never owed.
FairSpec == Spec /\ WF_vars(Step) /\ WF_vars(Invoke)
-------------------------------------------------------------------------------
(* What a campaign promises *)

\* The flat artifacts of an observation are those of its one ready attempt,
\* wherever publications were cut off; a commit comes with all of them.
NoMixedPublication ==
    \A image \in {live, disk}, o \in Observations :
        /\ \A a \in Artifacts : image.flat[o][a] \in Ready(image, o) \cup {Absent}
        /\ Cardinality(Ready(image, o)) <= 1
        /\ image.commit[o] # Absent => FlatFrom(image, o, image.commit[o])

\* Checkpoints and summaries refer to commits that are there, and summary.json
\* to the whole cohort, also after a loss of power: no resume is refused for
\* what an earlier run saved.
SavedProgressHolds == ProgressHolds(live) /\ ProgressHolds(disk)

\* What is on the device implements CampaignCohort.
Cohort == INSTANCE CampaignCohort WITH
    Attempts <- Runs, published <- disk.commit, complete <- disk.summary
KeepsCohort == Cohort!Spec

\* A campaign whose plan is durable completes after finitely many signals,
\* errors, failures and losses of power, and kills that left no file behind.
CampaignCompletes ==
    <>disk.plan /\ [](live.leftovers = {}) => <>live.summary

\* A campaign that was interrupted can be resumed: its own files are never the
\* reason for a refusal.
NeverRefused == outcome # "refused"
===============================================================================
