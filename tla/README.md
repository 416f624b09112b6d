# FrameLift: specifications and proofs

TLA+ models of the control logic of FrameLift's Rust receiver and of the decoders
whose bookkeeping is exact, TLC instances that check them, and TLAPS proofs of what
matters most. Paths below are relative to the repository root.

## 1. The system

FrameLift decodes satellite recordings offline. The signal processing is
deterministic numeric code; what is hard to get right is everything around it:
work that is stopped by deadlines and signals and resumed later, files that are
immutable once committed, recordings that change while they are read, child
processes that must not outlive their owner, frames that arrive late, twice or
never, and reports that must not claim more than was done.

| Component (source) | State it keeps | Operations | Hard behaviour |
|---|---|---|---|
| Progressive session (`rust/progressive.rs`, `rust/progressive_signals.rs`) | session directory: `manifest.json`, `tasks/`, `result.json`, `runs/`; the worker's `State` under a mutex; the session lock | supervise (start, resume, poll, stop, receipt), worker (prepare, verify, phases, commit, publish) | two processes and a thread pool; kill at any step; power loss; resume |
| Progressive audio (`rust/progressive_audio.rs`, `rust/progressive_audio_integrity.rs`) | content-addressed WAV cache, per-block proofs | open, convert, freeze, read a window | recording and copy mutated while they are read |
| Session lock (`rust/progressive.rs`) | `session.lock`, who has it open | lock, inherit, check, release | kills between fork and exec, orphans |
| Owned processes (`rust/input.rs`, `rust/backends.rs`) | process groups, captured output, pid ownership | spawn, poll, limit, kill, reap | pid reuse, descendants, timeout against exit |
| Generic run store (`rust/generic.rs`) | run directory: contract, windows, attempts, completion, invalidation; byte budget | open, attempt, decode windows, merge, complete | crash between steps, recording mutated, failing windows retried |
| Campaign (`rust/campaign.rs`) | output directory: attempts, flat artifacts, commits, summary | lock, process one, publish, reuse, checkpoint | crash in a multi-file publication, interrupted attempts |
| Clipping file resume (`rust/clipping_file.rs`) | output directory: lock, `plan.json`, `result.json` | identify, lock, resume, publish, revalidate | overlapping callers, abandoned staging files, a removed lock file |
| Research attempt store (`rust/research/store.rs`) | a SQLite row per attempt: status, lease token, start, result | reserve, finish | a stale lease reclaimed while its worker is alive |
| Window tiling and merge (`rust/receiver.rs`) | none | window bounds, merge of overlapping windows | off-by-one at the end of a recording |
| Codec pool and anchors (`rust/codec_pool.rs`, `rust/anchors.rs`) | none | frames with their places, eligible sources for a target window | the level before the first symbol; overlap and distance boundaries |
| Packet reassembly (`rust/space_packet_stream.rs`, `rust/meteor_cli.rs`, `rust/protocol.rs`, `rust/geoscan.rs`) | partial packets, frame counters | push, reassemble, merge two receivers | lost, repeated, reordered fragments; counter wrap |
| Error correction (`rust/fec_rs.rs`, `rust/convolutional.rs`) | none | encode, correct, maximum-likelihood path | errors beyond the radius, shortening, ties |
| Compute back ends (`rust/compute.rs`) | process-wide FIR back end | select, initialise, FIR | CUDA library; numeric |
| DSP (`rust/dsp.rs`, `rust/adaptive.rs`, `rust/soft.rs`, ...) | none | demodulation | floating point |
| CLI and research tools (`rust/cli`, `rust/research`, `src/telemetry_yield`) | reports | orchestration, experiments | mostly one-shot I/O |

What makes each part correct:

- Progressive session: snapshots and receipts claim only what the task files hold;
  phases are committed in order with the anchors of complete phases; inputs are not
  mixed; an interrupted session can be completed.
- Progressive audio: a window that is searched consists of the samples the manifest
  froze, whatever happens to the files; the search covers the recording.
- Session lock: one worker at a time, and nobody writes while a receipt is made.
- Owned processes: signals reach the call's own processes only, all of them; the
  verdict is the first failure; no call hangs.
- Generic run store: a cached window is of the recording in the contract, a seal is
  whole, nothing once published is lost, an invalidated run never completes.
- Campaign: flat artifacts are one attempt's, saved progress stays verifiable.
- Clipping and attempt store: one result, made of one recording, that is never
  replaced; a lease lasts as long as it was promised.
- Decoders: no packet is joined from parts of two, none is lost that can be kept, the
  correction never invents a codeword other than the one sent within its radius.

How they interact: the CLI calls `progressive::supervise`, which re-executes the
binary as `progressive-worker` in a process group of its own; the worker inherits
the descriptor of `session.lock`, opens the audio (possibly through a codec child of
its own), and shares its memory with nobody. The campaign calls the back ends, which
run external decoders as owned process groups. The generic receiver, the clipping
receiver and the campaign keep their own directories. Nothing communicates except
through files, exit statuses, process signals, locks and the attempt database.

## 2. Modules

| Module | Models |
|---|---|
| `ProgressiveTasks` | stages, phases, tasks, commits and anchor generations of a portfolio |
| `ProgressivePortfolio` | the promise: task files that only grow, phase by phase |
| `ProgressiveSession` | supervisor, worker, pool, session directory, storage device |
| `ProgressiveAudio` | the recording and its converted copy, as a session freezes and reads them |
| `ReceiverWindows` | the loop that cuts a recording into windows, composed into `ProgressiveAudio` |
| `SessionLock` | overlapping invocations, the inherited `flock`, death signals |
| `OwnedProcess` | one call that runs a child: fork to exec, polling, limits, kill, reap |
| `GenericRun` | a resumable run of the generic receiver and its directory |
| `CampaignCohort` | the promise: an observation is published once, the cohort completes last |
| `Campaign` | the runs of a campaign and its directory |
| `AttemptStore` | one row of the research attempt store and its workers |
| `ClippingAttempt` | callers of the clipping receiver and its directory |
| `AosPackets` | transfer frames to space packets, and the merge of two receivers |
| `HdlcFrames` | level decisions to AX.25 frames, by two decoders |
| `ReedSolomon`, `Viterbi` | the codecs, over any field, roots and length of the register |
| `StepFold` | a fold over a prefix, and what TLC evaluates once |
| `MC...` | the instances of a module for TLC |
| `...Proofs` | its theorems (`ReceiversProofs`: of `AosPackets`, `HdlcFrames`, `Viterbi` and `ReedSolomon`; `AttemptsProofs`: of `AttemptStore` and `ClippingAttempt`) |
| `ReceiversInvariants` | the invariants and other terms of `ReceiversProofs` |

`ProgressiveSession` has one worker and one supervisor, and makes the receipt in one
step. `SessionLock` is why: `AtMostOneWorker` is its guard on `Invoke` (no worker of
an earlier invocation is left), `ReceiptReadsQuietSession` makes `Report` atomic.
`OwnedProcess` is what either of them does with a child. `ProgressiveAudio` is what the
session calls an identity and takes as unchanging: the windows its tasks search. Two
instances hold two models each: `MCAttempts` the two places that keep one attempt's
result, a behaviour being of one of them while the other is at rest; `MCReceivers` the
stateful `AosPackets` and, in the variable `trial`, the inputs of the pure decoders.

A definition named `X_Something` beside an `X` is a fault: what the code would be with
one plausible mistake. No specification uses them; they show which mistake each
property catches.

### ProgressiveSession

Two images of every file. `manifest`, `files` and `result` are what processes see;
`manifestOnDevice`, `filesOnDevice`, `resultOnDevice` are what a power loss leaves.
`publish` (progressive.rs:145) is two steps, the rename and the fsync of the
directory, with a kill possible between them; the data itself is synced before the
rename, so a file is never half written. `Writeback` lets the kernel persist a
directory whenever it likes, `LosePower` returns everything to the device's image.

The worker's main thread goes through `prepare` (`CreateManifest`, `SyncManifest`,
`ResumeManifest`), the verification loop (`Verify`), the first snapshot
(`PublishVerified`, `SyncVerified`), `validated.json` (`Validate`) and the phases
(`StartPhase`, `EndPhase`, `Finish`). Each pool thread takes a task, renames its
file, syncs `tasks/`, takes the state lock and adds the task, renames `result.json`
and syncs its directory before the lock is dropped. Every one of these steps can
return an error (`WorkerError`, `TaskError`), which ends the phase.

The supervisor invokes, stops (deadline and signals alike), reports, or is killed
itself; its worker then goes on until the kernel delivers its death signal, holding
the session lock meanwhile. A worker is modelled as killed atomically, because
SIGKILL of a group leaves no step to any of its threads.

Left out: the content of frames and the checks of `State::add` on it, scratch files,
the codec child, CPU accounting, the in-memory cache of prepared windows. An
identity stands for the audio's content, executable, policy and compute back end; an
anchor set is the set of baseline tasks that trained it, since an anchor is a
function of its task and `progressive_merge_anchors` does not depend on order.

### ProgressiveAudio and ReceiverWindows

A file is a sequence of blocks. Whatever reads a whole file (`EndHash`, `EndCopy`,
`EndCheck`, `EndProof`) reads it a block per step (`ReadBlock`), and `ChangeSource` and
`ChangeCache` may come between any two: a pass may see a file that never existed. A
checksum is the content it was computed from, so `prepared-<sha256>.wav` is a name
that promises a content, and linking a conversion over an existing name is a decision
about content. A stamp is a length and a time; two changes within a tick of the clock
may leave one stamp, and that is why no step relies on stamps where content matters.

`PublishManifest` freezes what was verified; a resume (`Resumable`) compares with it.
`Tile` is the loop of `window_bounds`, one iteration per step over the frozen number of
samples. `BeginWindow`, `ReadSamples` and `EndWindow` read a window: every block is
compared with its proof (`BlockHolds`), and both files' stamps are looked at again
before the window is handed to the search. Any failed comparison ends the invocation
(`Refuse`), a kill or a stop does (`Interrupt`), and `LosePower` returns cache and
manifest to the device's image.

### SessionLock

`supervise` opens and locks `session.lock` (`Open`, `Lock`), marks the descriptor
inheritable in the child only (`SetUp`, the steps of `pre_exec`, progressive.rs:629),
and the worker checks that it is the locked file and marks it close-on-exec again
(`CheckLock`, `KeepPrivate`, progressive.rs:318-334). `has` is who has the open file;
the kernel drops the lock with the last of them. Anybody may be killed between any
two steps, by a signal that is only pending until `CloseWorker` or `CloseCodec`. The
supervisor kills (`KillWorker`), reaps (`Reap`), and reads for the receipt while it is
"reaped". `helper` is a process that a codec forked and nobody kills.

### OwnedProcess

Three callers of `OwnedProcessGroup` (input.rs:151): `external_command` (a codec),
`bounded_process` (backends.rs:385) and the supervisor. The steps of the child between
fork and exec are in `setup`; `Adopt` is the group's constructor; `SeeExit`,
`Deadline`, `Logs`, `ReadPipe`, `AwaitExit` the poll loops; `Probe`, `KillGroup`,
`KillChild`, `Wait` are `cleanup_and_wait`, whose first two error paths refuse to
signal. Around it is the kernel: pids are reused as soon as they name neither process
nor group, a group outlives its leader, SIGKILL takes effect later (`Die`).
`ForeignReap` is something else in the process that reaps the child, and sets
`stolen`: a call that probed before that may then signal whoever has the pid, so the
promise of `NeverSignalsStranger` is for calls whose child is not stolen. The others
hold in any case. Captured bytes are counted in units of the limit; the descendants may
change their group (`Regroup`), which takes them out of the call's promise.

### GenericRun

One invocation at a time (the directory's lock, taken with `flock`; a fresh
invocation that loses the race for it is as one killed after `Invoke`). Main
thread: `OpenSource` to `Authenticate` (guard, hash, load, compare with the contract),
`Scan` (committed windows, seal), `NewAttempt`, `RetireResult` and `RetireJournal` (an
earlier failed result moves to the new attempt), the pool, `CheckFinal`, and the
publication of journal, result and seal, each a rename and an fsync. Pool threads:
`Begin` (guard, cache), `Decode`, `Check` (guard again), `CommitWindow`, `SyncWindow`.
`Change` alters the recording at any time, and may restore it. `FailedResult` stands
for an error's result, whose content nothing reads.

Two images as above: `live`, and `disk` after a loss of power. The content of a window
is the content of the recording it was decoded from. Left out: the bytes (the budget
of 512 MiB, generic.rs:781, is an error that may happen wherever bytes are reserved),
`plan.json` (written before the contract and compared with it: one file here),
temporary files, and the executable's guard, which is checked with the source's.

### Campaign

One run at a time (`CampaignLock`). `WritePlan`, or `VerifySavedProgress` on a resume,
and `WriteOwner` open it; per observation come `StartItem` (the stop signal is looked at
here only), `Reuse`, `NewAttempt`, `Decode`, `WriteReady` or `WriteFailure`, `Copy` three
times, `Commit`, `Recheck` and `WriteCheckpoint`; a last checkpoint, `WriteReport` and
`WriteTerminal` end it. A write is the rename; `Sync` is the fsync of the directory after
it, and the only step in between is a kill, a signal or a loss of power. An error inside
an observation pauses the run, any other ends it.

An attempt is named for the run that made it. An artifact's content is the attempt it is
a copy of. `progress` is the set of commits that some checkpoint or summary refers to,
by the commit's identity. Temporary files are modelled where they matter (`leftovers`):
in the directories whose every entry the next run reads. Checks of the frozen reference,
of inputs, executables and disk space are `Error`s that may happen where they are made.
The fsync of any directory is taken to persist every earlier rename: the code never
syncs the entries of the directories it makes (campaign.rs:918), so without that it
promises nothing.

### AttemptStore

Rows do not interact: the model has one. A transaction is one step, because
`BEGIN IMMEDIATE` admits one writer; but `now` is read before the transaction (`Ask`),
which may wait for others up to the busy timeout, so `Reserve` and `Refuse` decide with
an old time. Time is kept as ages that count no further than anybody looks. `Crash`
ends a worker, `FinishUnanswered` stores a result and loses the answer, and `Late` is a
worker whose lease ran out while it worked. A lease token is the next number: they are
random in the code, hence all different.

### ClippingAttempt

A caller identifies the recording (`Identify`), opens and locks the lock file (`OpenLock`,
`Flock`, which looks at the inode behind the name again), reads the directory (`Scan`),
stages, links and syncs the plan, selects windows and decodes them, checks that the
recording is still what it identified (`Check`), and publishes the result or, when one
is there, compares with it: a completed result is never trusted unseen. `Theft` removes
the lock file, so two callers may hold two inodes; `Edit` changes the recording; `Kill`
leaves staging files, which a resume admits up to a limit; `PowerLoss` drops directory
entries that were not flushed. Two renames into one directory are taken to survive in
their order. The recording's stamp shows every change here: the code relies on it
between two hashes.

### AosPackets

A byte is its place in the transmission, so a packet is a run of places and a packet
joined from two is one no `Run` describes. `sent` is any layout of packets over the
frames, with idle packets, headers of another version, idle frames, frames whose first
header pointer lies outside and frames of a foreign channel. `ReadFrame` is the loop of
`packets` over any file (mode "free"); `Push` and the steps of the walk through the zone
(`WalkPacket`, `WalkPart`, `WalkInvalid`) are `AosPacketDemux::push`. `Augment` merges two
receivers' frames by identity and in the order of their counters ("hybrid"), or refuses
a span in which the order would hide a wrap ("refused"). An identity
has one payload here, so its other refusal, of payloads that differ, never comes about.

### HdlcFrames, ReedSolomon, Viterbi

Operators, not state machines. `HdlcFrames` has both finders of AX.25 frames: the
receiver decodes the levels twice, once for each level before the first symbol;
`validated_spans` decodes once and flips the bits that this level reaches through NRZI
and the scrambler. Which frames are good is the constant `Intact`; the instance uses
even parity in place of the checksum. `ReedSolomon` is the systematic encoder and the
decoder (Berlekamp-Massey, root search, magnitudes, verification) over interleaved,
shortened codewords; a symbol is the set of powers of x in it. `CodeAssumption` asks for
what `validate` and `Gf::new` check: the powers of x run through all symbols, the step of
the roots is coprime to their number, the parity is even. `Viterbi` is the soft
decoder with free first and last states over integers.

## 3. Runs

| Run | Instance | Shows |
|---|---|---|
| `session_posix` | 2 windows, 2 stages, 2 threads, 2 sets of inputs, one stop or kill, one error, one power loss, no order across directories (740k states) | `FrozenAnchorGenerations`, `CountedTasksAreDurable`, `ReceiptTellsTheTruth`, refinement of `ProgressivePortfolio` |
| `session_liveness` | 1 window, every stage, 2 threads, one metadata journal, the same faults, fair (411k) | `SnapshotFollowsFiles`, `InvocationEnds`, `SessionCompletes` |
| `session_lock` | 2 invocations, each with worker, codec and helper, fair (277k) | `AtMostOneWorker`, `ReceiptReadsQuietSession`, `SessionBecomesFree` |
| `owned_process` | 2 pids, limit 1, two bytes per stream, somebody else may reap, fair (478k) | `NeverSignalsStranger`, `NoSurvivors`, `OutcomeIsTrue`, `CallReturns` |
| `generic_run` | 2 windows, 2 threads, 3 invocations, a kill, an error, 2 changes, a power loss (641k) | `CachedWindowsAreOfSource`, `CompletionIsWhole`, `PublishedIsKept`, `OutcomeIsFinal` |
| `generic_liveness` | an unchanged recording, 5 invocations, fair (217k) | `RunCompletes` |
| `generic_coarse_metadata` | one change within a clock tick, one kill | violated: a stale window is cached |
| `campaign` | 2 observations, 6 runs, a signal, a kill, an error, a failed decode, a power loss, fair (1.1M) | `NoMixedPublication`, `SavedProgressHolds`, refinement of `CampaignCohort`, `CampaignCompletes` |
| `campaign_kill` | one kill | violated: a campaign that can no longer be resumed |
| `progressive_audio` | recordings of 2 or 4 samples, WAV and OGG, windows of 3 with stride 2, 2 changes, an interruption, a power loss, fair (306k) | `WindowsAreFrozen`, `ManifestIsTrue`, `StampsVouch`, `SearchCoversRecording`, `SearchEnds` |
| `attempts` | 3 workers of a row, timeout 3, wait 1, 3 faults; 2 callers of a directory, 2 contents, 2 configurations, one failure, intrusion and power loss; fair (525k) | `OneResult`, `LeaseLasts`, `AttemptEnds`; `AnswersHold`, `AttemptCompletes` |
| `receivers` | every layout over 3 frames of 4 bytes, any 3 reads or any 2 receivers; levels, codewords and soft pairs as below (484k) | `PacketsAreWhole`, `PacketsAreKept`, `CleanReportIsComplete`; `FramesAreFound`, `DecodersAgree`, `ErrorsAreCorrected`, `PathIsMostLikely` |

### Bounds

Two windows and two threads are the least at which a phase can be partly done by one
invocation and finished by the next while two commits race for the lock. One stop,
one error and one power loss, in any order, give resumed sessions, files renamed but
never synced, and their combination.

`SharedJournal` says what an fsync of a directory promises. With one metadata journal
(ext4, XFS, Btrfs) it makes every earlier rename durable; POSIX promises it for that
directory only. `SnapshotFollowsFiles` needs the former: a task file renamed by an
invocation that was killed before its fsync is taken over by the next one, which
syncs only the session directory before it reports the task as done. So does
`PublishedIsKept`: an attempt's directory is created in `attempts/`, and the code then
syncs the run's root (generic.rs:954).

Two pids are a leader and a descendant in its group, or a stranger that gets a pid one
of them gave up. Two invocations are one that holds the lock, or leaves it to its orphans,
and one that wants it. In `GenericRun` two windows are one committed and one not; three
invocations one that fails or is killed, one that resumes it and one that resumes a
completed run; two changes are a change and its restoration. `generic_liveness` gets an
invocation for each of its three interruptions, one for the success and one spare.
In `Campaign` one observation is done and the other not; six runs are one for each of
the five interruptions, and the one that completes.

In `ProgressiveAudio` a recording of two samples is a single cut window and one of four
is two that overlap, the second cut at the end; two changes are a change and its
restoration, or one of each file. In `AttemptStore` three workers are a holder, one that
reclaims from it, and one that may reclaim from that; the timeout is longer than the wait,
as in the code, and long enough for a worker's wait to matter twice. In `AosPackets` three
frames hold a packet that spans a whole frame in the middle; two-byte headers may be
split by a frame's end; counters 0 and 5 modulo 6 are a pass without a wrap and one with
it, and a span of half the counters. The scrambler's taps 6 and 8, two ones before a
stuffed zero and bytes of two bits keep the order of the real 12, 17, 5 and 8 and let
frames fit into thirteen levels, all of which are tried, and longer sendings of one or two
frames with noise around them. GF(8) with four parity symbols has the radius 2: two errors
at any places of one lane, and a third there or in the other lane, are within the radius
and beyond it. A state of two bits (`High` 2, where
the code has 32) needs five pairs to leave and rejoin a path: all pairs of three soft
values up to three, of two up to five.

Symmetry is over interchangeable values (threads, windows, contents) and only in runs
without liveness. `CHECK_DEADLOCK FALSE` is set where a model ends: one call has
returned, the last permitted invocation has, or the file is read.

### Fairness

In `ProgressiveSession` the operating system runs the worker's threads, the
supervisor's poll and the death signal (weak fairness each), and the operator resumes
with the same inputs. In `OwnedProcess` the caller's own steps are fair, a child gets
from fork to exec, pending kills take effect, and the deadline passes except in a session,
which may have none; nothing is owed by the child: it may hang, close its
streams or not. In `SessionLock` only the kernel is: set-up steps of a forked process,
the end of what must end, the release of a dead supervisor's files. In `GenericRun` the
invocation's threads, and the operator who resumes; in `Campaign` the run and the
operator, and `CampaignCompletes` asks that no kill left a temporary file behind. In
`ProgressiveAudio` the worker, which is started again with the same recording. In
`AttemptStore` the clock and the workers, who keep asking; in `ClippingAttempt` the steps
of a call, and somebody who keeps calling as the directory asks (`Again`), while
`AttemptCompletes` asks that the directory stays usable. Stops, errors, kills, changes,
crashes, writeback and power losses are never owed, and bounded: "if interruptions
end, ...".

### Findings

- `generic_coarse_metadata`: "full boundary hashes catch content changes even on
  filesystems with coarsely updated metadata" (generic.rs:973). Windows are committed on
  metadata alone, and a kill comes before the boundary: the stale window stays, and the
  next invocation with the original recording takes it over.
- `campaign_kill`: every JSON file is written to a temporary one beside it
  (input.rs:119). A kill at that moment leaves it in `runs/`, `checkpoints/` or
  `summaries/`, where the next run refuses whatever it cannot parse (campaign.rs:493,
  794): a campaign interrupted there cannot be resumed, although interruption by an outer
  kill is what docs/rust-receiver.md:219-220 advises. `generic.rs:1357` expects such files.

## 4. Proofs

The theorems hold for every value of the constants under the assumptions named in the
modules (`PortfolioAssumption`, `AbsentAssumption`, `SessionAssumption`,
`ProcessAssumption`, `InvocationAssumption`, `RunAssumption`, `CampaignAssumption`,
`AttemptAssumption`, `ClippingAssumption`, `DirectoryAssumption`, `PacketAssumption`,
`ReceiversAssumption`, `WindowAssumption`, `AudioAssumption`): small conditions
such as "an absent file is no content" or "a pass is shorter than half the counters".

`ProgressiveSessionProofs` proves, for every recording, option, number of threads,
filesystem and bound: type correctness, `TasksInPhaseOrder`,
`FrozenAnchorGenerations`, `TasksBoundToManifest` (`SessionInputs`), that the session
implements `ProgressivePortfolio`, `ReceiptTellsTheTruth` (`SessionReceipts`),
`CountedTasksAreDurable` (`SessionDurability`) and, with one metadata journal,
`SnapshotFollowsFiles` (`SessionSnapshots`).

The invariant `IInv` adds to the first of those properties what makes them inductive:
`PoolWorksOnPhase` (threads only work on the phase whose predecessors are done),
`DoneHasFiles` (what is counted done has a file), `NoTaskLost` (queue, threads and
done together cover the phase until an error), `AnchorsComplete`, and `SessionOpen`
(the manifest is on the device before a search starts). Phase order is preserved by
a rename because the phase's predecessors are done, hence have files; an ended phase
completes its predecessors because no task is lost; the anchors frozen at the start
of a phase are complete for the same reason. The device's files are always a former
image of `tasks/`, so they inherit the order.

`ReportInv`, on top of it, is about what is reported: `Locking` (one thread has the
state, and it is the one between its two renames), `FoundIsCounted` (what an invocation
found on opening is in its count from the first snapshot on), `SyncedIsDurable` (beyond
that it counts only files whose directory was synced since), `SnapshotIsCurrent`
(`result.json` is the count while no thread holds the lock, unless the phase has failed, and
once validated it covers what was found), and `ReceiptIsLast`. A receipt reads a quiet session, so all of these are level by then.
`SnapshotIsCounted`, the part for the device's image, needs one journal: files taken over
from a killed invocation are durable only because a later sync covers their directory.

`OwnedProcessProofs`: type correctness (`CallTypes`), `SignalsOnlyOwn`. As long as nothing
else has reaped it, the child that has not been waited for is running or a zombie
(`ChildPinned`), and that pins its pid: no stranger has it, nor a group of that number
other than the child's, since a pid is not given out while a group has it. So whatever is
signalled before `Wait` is the call's. `LeavesNoSurvivors`: the group is condemned before
the wait, and members forked since are condemned with it. `VerdictIsTrue`: the first error
stays, and a verdict without one is the child's own status. `MemoryIsBounded`: a back end
keeps no more than the limit of both streams together. `OrphansEnd`: a child whose caller
is gone is dead or condemned, because it has asked for the signal and then looked whether
its parent is still there, in that order; the back end's child asks for none
(backends.rs:400), and nothing is promised of it.

`SessionLockProofs`: `LockExcludes` and `LockCoversReceipt`. The invariant
`HoldersKeepLock` says that a supervisor that relies on the lock, and a worker that found it
in order, have the locked file open themselves; so nobody else's closing unlocks it, and
two of them would have the same owner.

`GenericRunProofs`: type correctness and four properties, each under the assumptions it
needs and no other.

- `WindowsOfSource`, if metadata show every change. `SourceInv`: while the stamp equals the
  guard, what was read is what the recording holds (`AsGuarded`); whoever goes on past the
  comparison has the contract's recording, and the contract is durable before a window is
  decoded (`Identified`); what is decoded and not yet checked is of the recording read
  (`DecodedSource`), hence also what is committed (`WindowsKept`, of both images).
- `SealsAreWhole` and `CompletionsAreFinal`, if moreover one journal orders all renames.
  `SealInv`: a seal is whole in both images (`Whole`), a run that takes a seal over knows it
  (`KnowsSeal`), journal and result are merged from the windows in the directory (`Merged`),
  parts of a run that publishes are its own (`OwnParts`), and a run that goes on has noticed
  no change (`NoChangeSeen`); a durable seal is the one processes see (`DeviceFollows`).
- `NothingPublishedIsLost`, with one journal, whatever metadata show. `KeptInv`: every
  artifact ever published is in the directory or in the attempt it was retired to, in both
  images (`Kept`), since a run only replaces a result in its place after it has moved the
  earlier one to an attempt of its own (`OwnAttempt`).

`CampaignProofs`: type correctness, `NoMixedPublication`, `SavedProgressHolds`, and that
the device's image implements `CampaignCohort`, for a cohort of any size. `CampaignInv`
says of both images that flat artifacts are the one ready attempt's and progress refers to
commits (`Whole`); of the run, what it relies on at each place (`Established`: while an
attempt is made nothing is ready or published) and that its rows are commits; and of the
device that it is at most one commit or the summary behind (`Behind`), and level where the
next may be written (`Level`). Level is needed because a run killed between a rename and
its fsync leaves the next one a commit to catch up with: the fsync of the run record does.

`AttemptsProofs` is about `Attempts`, the composition of `AttemptStore` and
`ClippingAttempt` that the run `attempts` checks. `AttemptInvariant` carries an invariant of
each through the steps of the other.

- Of the store: to `OneResult` it adds that tokens differ (`TokensDiffer`) and that a start
  is no older than its grant but for the wait (`GrantFollowsStart`). A row that may be
  reserved has no result, so nobody has been accepted; only the lease's holder finishes.
  From it `LeasesLast`, an action property.
- Of the directory: `ReadsOneContent` (while the stamp is the one a call began with, what it
  has read is the plan's content), `PlanStays` (no rename replaces a plan that is there,
  lock or no lock) and `PublishedIsFlushed`. From them `AnswersAlwaysHold`.

`ProgressiveAudioProofs`, about `ProgressiveAudio` and the tiling it composes with, for any
blocks, conversion, layout and sizes.

- `SearchesFrozenWindows` and `ManifestStaysTrue`, from `IInv`: what is read is the verified
  content or the conversion of just that (`WavIsPrepared`), a session that has a manifest
  reads what it says (`AsManifest`), a copy's name is durable before a manifest names it
  (`CopyIsDurable`), and what a reader has got so far are blocks of the frozen content in
  the window's order (`ReadsFrozen`). Every comparison on the way is of content, so the
  argument needs nothing of stamps.
- `StampsAlwaysVouch`, from `StampsInv`: nothing bears a time that has not come
  (`TimesPast`), so a change that does not keep the time shows in every stamp that was taken
  before; a pass that is followed by an unchanged stamp has seen the file as it is
  (`PassesVouched`).
- `SearchAlwaysCovers`, from `TilingSound`: the tiles reach as far beyond the next offset as
  two neighbours share, and the loop's last iteration leaves less than a shortest window.

`ReceiversProofs` is about what `MCReceivers` composes, in the terms that
`ReceiversInvariants` defines. `MCReceivers` leaves every size of
the decoders a constant, and its configuration gives them values: the theorems hold for the
real taps, 17 and 12, the real 6-bit state and GF(256) as for the small ones that TLC runs.
`ReceiversReceive` carries what is proved of `AosPackets` over to the composition.

- `PacketsWhole`, from `IInv`. What is pending is the head of one packet, cut at the end
  of the frame whose counter is remembered (`PendingIsHead`); a frame with the next counter
  is the frame that goes on with it, since a pass is shorter than half the counters.
- `PacketsKept` and `CleanReports`, from `KInv` on top of it. `RowsKept`: if the frames from
  the one a packet starts in up to the last one read were pushed in a row, then the walk
  has that packet still to come to, or it is pending up to the end of that frame, or it is
  in the archive. `CleanKept` says the same of every packet whose first frame was read, as
  long as the report counts no gap, abort, invalid header or refused frame: then no push
  was anything but the next. Two receivers' frames, merged, are such a row where between
  them they have every frame (`MergedInARow`).
- `DecodersAlwaysAgree`: the streams for the two first levels differ in one bit before the
  scrambler and in three after it, for any taps, and those are what the second decoder flips;
  the same frames follow. `DecodersAgreeAlways` is that of every trial.
- `FramesAlwaysFound`. Decoding undoes NRZI for any level, and the scrambler once the
  descrambler has heard as many bits as the longest tap; what follows is the sender's bit
  stream. `Unstuff` undoes `Stuff`; a stuffed frame has no `Ones + 1` ones in a row, so no
  flag stands in it or across its ends; the last flag before a frame and the first after it
  are neighbours, whatever gap, noise or shared flag lies around them, and the frame passes
  the length checks since stuffing adds one bit in `Ones` at most. `FramesFoundAlways` is
  that of every trial.
- `DecodedIsLikeliest`. After each pair, a state's metric bounds what any path to it attains
  (`MetricBounds`), and following the decisions back from the best final state gives one
  that attains it (`DecodedAttains`), ties or not. The code subtracts the best metric from
  all of them after each pair, which the model leaves out because no comparison changes.
  `LikeliestAlways` is that of every trial.
- `CorrectionsAreNear`: whatever locator Berlekamp-Massey arrives at, a word that is returned
  has no syndrome and differs from the received one only where the locator has roots, in at
  most `Radius` places.
- `CodewordsAreApart`: two codewords that agree but for `Parity` places are the same. The
  symbols are a field because the powers of x run through all of them (`TimesIs`,
  `ReciprocalIs`); sums of the powers of different symbols do not all vanish
  (`Vandermonde`, by the least counterexample: the last term is eliminated); and places
  within a codeword stand for different symbols since the step is coprime to the order
  (`PlacesDiffer`).
- `CodewordsAreRestored`, from `Searched`, which each round of Berlekamp-Massey keeps
  (`SearchedNext`): the locator foretells the syndromes read so far, its degree is at most
  the number of errors, and the locator kept besides is the last that failed, at the
  syndrome it is remembered with. That bound on the degree is why the search needs no more
  than `Parity` syndromes: a locator that has foretold as many as there are errors foretells
  all and vanishes at their places (`AllPredicted`), and it has no other roots (`FewRoots`).
  The magnitudes found there are the errors (`OneExplanation`). So whatever codeword lies
  within `Radius` is what the decoder returns, and it returns nothing else.
- `SentIsReturned`, `ReturnedIsNear` and, of both, `BlocksAreCorrected`: the division in
  `encode` leaves the values at the generator's roots as they are, so what is sent are
  codewords, and each lane is decoded on its own. `ErrorsCorrectedAlways` is that of every
  trial. This holds of every code that `validate` admits, in any basis that renames symbols
  one to one.

The recursions there are recursive functions, and what they compute is proved by the least
counterexample (`LeastOne`, `UpTo`, from the well-foundedness of `<` over the naturals): a
function over the rounds of a loop exists and is the one the definition chooses (`Rounds`),
and a set of rounds that has the first and with each the next has all of them. No induction
theorem that takes an operator is needed.

Only model-checked:

- Liveness and what depends on ENABLED: out of the prover's reach.

Every invariant that a run expects to hold is stated by a theorem.

## 5. Not modelled

- Signal processing and estimators (`dsp.rs`, `adaptive.rs`, `soft.rs`, `triage.rs` and
  others): floating point without state between calls. A model over integers would not be
  of this code.
- LDPC and the chains of `coded.rs`: floating-point message passing.
- Command line, reports and the ledger: one-shot formatting.
- The CUDA back end: a library behind an interface, and arithmetic.
- `src/examples`, `rust/research` apart from the attempt store, and the Python tooling:
  experiments that are run once, benchmarks, and a legacy the receiver does not use.

These are by far the greater part of the repository's lines, so the share that the models
cover stays small: what they cover is the part whose correctness is a question of order,
failure and bookkeeping. Within the modelled components, size limits, disk room, the checks
of configuration values and the bytes of documents are left out or stand as errors that may
happen wherever the code checks. `PROJECT.json` lists every part with its reason, and the
hazards with the properties that cover them. One hazard has none: the durability of a
campaign attempt's directory entry (campaign.rs:918), which `Campaign` assumes.

## 6. Plan

1. Codec pool: which sources are eligible for a target window, against a reference
   definition (overlap, distance and guard boundaries).
2. Image assembly from KISS and GEOSCAN frames (formats.rs:807, geoscan.rs:88): lost and
   repeated chunks, restarted images.
3. One-time initialisation of the FIR back end by concurrent callers (compute.rs:252).
