----------------------------- MODULE OwnedProcess -----------------------------
(***************************************************************************)
(* One call that runs a child process and owns its process group           *)
(* (OwnedProcessGroup, rust/input.rs): "codec" is external_command, which  *)
(* polls the size of two log files; "backend" is bounded_process           *)
(* (rust/backends.rs), which reads two pipes under one limit; "session" is *)
(* the supervisor of a progressive session (rust/progressive.rs).          *)
(*                                                                         *)
(* Around it is the part of the kernel that makes this hard: process       *)
(* identifiers are reused, a group outlives its leader, a signal to a pid  *)
(* hits whoever has it now, and the caller can be killed at any step.      *)
(***************************************************************************)
EXTENDS Integers, Sequences, FiniteSets

CONSTANTS
    Pids,           \* identifiers of processes and of groups
    Nobody,         \* no pid; as a group, the caller's own
    Limit,          \* bytes the call accepts (of each log, of both pipes)
    MaxWritten      \* bound on what is written to one stream

ASSUME ProcessAssumption ==
    /\ Nobody \notin Pids
    /\ Limit \in Nat /\ MaxWritten \in Nat

VARIABLES
    \* The kernel's process table.
    state, who, group,
    doomed,         \* processes with a SIGKILL pending
    \* The child.
    setup,          \* what it has left to do between fork and exec
    bound,          \* it asked to be killed when its parent dies
    status,         \* how it ended
    written,        \* per stream, what its group has written
    quiet,          \* its group has closed both streams
    \* The call.
    caller, call, child,
    stolen,         \* something else in the caller's process waited for the child
    adopted,        \* the call holds an OwnedProcessGroup
    outcome,        \* "none" until an error or a verdict
    open, captured, \* per stream: pipe not at its end; bytes kept
    expired,        \* the timeout has passed
    victims         \* whom the call has signalled

kernel == <<state, who, group, doomed>>
callee == <<setup, bound, status, written, quiet>>
self   == <<call, child, stolen, adopted, expired>>
pipes  == <<open, captured>>
vars   == <<kernel, callee, self, pipes, caller, outcome, victims>>

Calls   == {"codec", "backend", "session"}
Streams == {"stdout", "stderr"}

TypeOK ==
    /\ state \in [Pids -> {"free", "running", "zombie"}]
    /\ who \in [Pids -> {"none", "child", "descendant", "stranger"}]
    /\ group \in [Pids -> Pids \cup {Nobody}]
    /\ doomed \subseteq {p \in Pids : state[p] = "running"}
    /\ setup \in Seq({"deathsig", "parent", "group"})
    /\ {bound, stolen, adopted, expired} \subseteq BOOLEAN
    /\ status \in {"none", "success", "failure", "killed"}
    /\ written \in [Streams -> 0 .. MaxWritten] /\ quiet \in BOOLEAN
    /\ caller \in {"idle", "spawning", "adopt", "logs", "exit", "deadline", "pipes",
                   "awaiting", "probe", "kill-group", "kill-child", "wait",
                   "collect", "returned", "dead"}
    /\ call \in Calls
    /\ child \in Pids \cup {Nobody}
    /\ outcome \in {"none", "ok", "launch", "unowned", "timeout", "output", "nonzero"}
    /\ open \in [Streams -> BOOLEAN]
    /\ captured \in [Streams -> 0 .. Limit]
    /\ victims \subseteq {"child", "descendant", "stranger"}

Init ==
    /\ state = [p \in Pids |-> "free"]
    /\ who = [p \in Pids |-> "none"]
    /\ group = [p \in Pids |-> Nobody]
    /\ doomed = {}
    /\ setup = <<>> /\ bound = FALSE /\ status = "none"
    /\ written = [s \in Streams |-> 0] /\ quiet = FALSE
    /\ caller = "idle" /\ call \in Calls /\ child = Nobody
    /\ stolen = FALSE /\ adopted = FALSE /\ outcome = "none"
    /\ open = [s \in Streams |-> TRUE]
    /\ captured = [s \in Streams |-> 0]
    /\ expired = FALSE /\ victims = {}
-------------------------------------------------------------------------------
(* The kernel *)

Running(p) == state[p] = "running"

\* A pid is given out only when it names neither a process nor a group.
Unused(p) == state[p] = "free" /\ \A q \in Pids : state[q] # "free" => group[q] # p

\* The pid the call holds still names its child.
Owned == child # Nobody /\ state[child] # "free" /\ who[child] = "child"

Starts(p, kind, g) ==
    /\ Unused(p)
    /\ state' = [state EXCEPT ![p] = "running"]
    /\ who' = [who EXCEPT ![p] = kind]
    /\ group' = [group EXCEPT ![p] = g]
    /\ UNCHANGED doomed

Freed(p) ==
    /\ state' = [state EXCEPT ![p] = "free"]
    /\ who' = [who EXCEPT ![p] = "none"]
    /\ group' = [group EXCEPT ![p] = Nobody]

\* The child of a living caller stays a zombie until it is waited for; init
\* waits for everything else.
Ends(p) ==
    /\ IF p = child /\ who[p] = "child" /\ caller # "dead"
       THEN state' = [state EXCEPT ![p] = "zombie"] /\ UNCHANGED <<who, group>>
       ELSE Freed(p)
    /\ doomed' = doomed \ {p}

ByOthers == UNCHANGED <<self, pipes, caller, outcome, victims>>

\* A process with a pending SIGKILL ends, when it gets to it.
Die(p) ==
    /\ p \in doomed
    /\ Ends(p)
    /\ status' = IF p = child /\ who[p] = "child" THEN "killed" ELSE status
    /\ UNCHANGED <<setup, bound, written, quiet>>
    /\ ByOthers

\* Somebody else's process.
Stranger ==
    /\ \E p \in Pids : Starts(p, "stranger", p)
    /\ UNCHANGED callee
    /\ ByOthers

\* Another thread waits for any child, or SIGCHLD is ignored.
ForeignReap ==
    /\ Owned /\ state[child] = "zombie"
    /\ Freed(child)
    /\ stolen' = TRUE
    /\ UNCHANGED <<doomed, callee, call, child, adopted, expired, pipes, caller, outcome, victims>>
-------------------------------------------------------------------------------
(* The child and what it forks *)

\* Between fork and exec (the limit on file sizes left out).
PreExec ==
    CASE call = "codec"   -> <<"deathsig", "parent", "group">>
      [] call = "session" -> <<"group", "deathsig", "parent">>
      [] call = "backend" -> <<"group">>

\* A step of pre_exec; the parent check refuses a child that was orphaned.
SetUp ==
    /\ setup # <<>> /\ Owned /\ Running(child) /\ child \notin doomed
    /\ Head(setup) = "parent" => caller # "dead"
    /\ setup' = Tail(setup)
    /\ bound' = (bound \/ Head(setup) = "deathsig")
    /\ group' = IF Head(setup) = "group" THEN [group EXCEPT ![child] = child] ELSE group
    /\ UNCHANGED <<state, who, doomed, status, written, quiet>>
    /\ ByOthers

\* Any of these calls may fail: the child exits without exec.
SetUpFails ==
    /\ setup # <<>> /\ Owned /\ Running(child) /\ child \notin doomed
    /\ Ends(child)
    /\ status' = "failure"
    /\ UNCHANGED <<setup, bound, written, quiet>>
    /\ ByOthers

\* A program of the group, past exec and not about to die.
Alive(p) == Running(p) /\ p \notin doomed /\ who[p] \in {"child", "descendant"} /\ setup = <<>>

Exit(p) ==
    /\ Alive(p)
    /\ Ends(p)
    /\ IF who[p] = "child" THEN status' \in {"success", "failure"} ELSE UNCHANGED status
    /\ UNCHANGED <<setup, bound, written, quiet>>
    /\ ByOthers

Fork(p) ==
    /\ Alive(p)
    /\ \E q \in Pids : Starts(q, "descendant", group[p])
    /\ UNCHANGED callee
    /\ ByOthers

\* A SIGKILL that is pending does not stop a write that is under way.
Write(p, s) ==
    /\ Running(p) /\ who[p] \in {"child", "descendant"} /\ setup = <<>>
    /\ ~quiet /\ written[s] < MaxWritten
    /\ written' = [written EXCEPT ![s] = @ + 1]
    /\ UNCHANGED <<kernel, setup, bound, status, quiet>>
    /\ ByOthers

\* It closes its streams and goes on.
CloseStreams ==
    /\ Owned /\ Alive(child) /\ ~quiet
    /\ quiet' = TRUE
    /\ UNCHANGED <<kernel, setup, bound, status, written>>
    /\ ByOthers

\* The child itself moves to another group.
Regroup ==
    /\ Owned /\ Alive(child)
    /\ group' = [group EXCEPT ![child] = Nobody]
    /\ UNCHANGED <<state, who, doomed, callee>>
    /\ ByOthers
-------------------------------------------------------------------------------
(* The call: spawn and adopt *)

Goto(place) == caller' = place

\* An error found by the call: OwnedProcessGroup is dropped and cleans up.
GiveUp(error) == outcome' = error /\ Goto("probe")

\* waitid answers ECHILD: never signal what is no longer owned.
Disown == outcome' = "launch" /\ Goto("returned")

Spawn ==
    /\ caller = "idle"
    /\ \E p \in Pids : Starts(p, "child", Nobody) /\ child' = p
    /\ setup' = PreExec
    /\ Goto("spawning")
    /\ UNCHANGED <<bound, status, written, quiet, call, stolen, adopted, expired, pipes, outcome, victims>>

\* spawn returns once the child executes its program.
Spawned ==
    /\ caller = "spawning" /\ setup = <<>>
    /\ Goto(IF call = "codec" THEN "logs" ELSE "adopt")
    /\ adopted' = (call = "codec")
    /\ UNCHANGED <<kernel, callee, call, child, stolen, expired, pipes, outcome, victims>>

\* It failed to: spawn waits for it and returns the error.
NotSpawned ==
    /\ caller = "spawning" /\ setup # <<>>
    /\ ~Owned \/ state[child] = "zombie"
    /\ IF Owned THEN Freed(child) ELSE UNCHANGED <<state, who, group>>
    /\ Disown
    /\ UNCHANGED <<doomed, callee, self, pipes, victims>>

\* OwnedProcessGroup::new: a child outside its own group is killed alone.
Adopt ==
    /\ caller = "adopt"
    /\ IF state[child] # "free" /\ group[child] = child
       THEN /\ adopted' = TRUE
            /\ Goto(IF call = "backend" THEN "pipes" ELSE "exit")
            /\ UNCHANGED outcome
       ELSE /\ outcome' = "unowned"
            /\ Goto("kill-child")
            /\ UNCHANGED adopted
    /\ UNCHANGED <<kernel, callee, call, child, stolen, expired, pipes, victims>>
-------------------------------------------------------------------------------
(* The call: wait for the end *)

Watches == UNCHANGED <<kernel, callee, self, pipes, victims>>

\* external_command looks at both logs, then at the child, then at the clock.
Logs ==
    /\ caller = "logs"
    /\ IF \E s \in Streams : written[s] > Limit
       THEN GiveUp("output")
       ELSE Goto("exit") /\ UNCHANGED outcome
    /\ Watches

\* (Fault) waitid without WNOWAIT: seeing the exit reaps the child.
SeeExit_Reaps ==
    /\ caller = "exit"
    /\ \/ Owned /\ state[child] = "zombie" /\ Freed(child) /\ Goto("kill-group")
       \/ Owned /\ Running(child) /\ Goto("deadline") /\ UNCHANGED <<state, who, group>>
    /\ UNCHANGED <<doomed, callee, self, pipes, outcome, victims>>

\* exited_without_reaping
SeeExit ==
    /\ caller = "exit"
    /\ \/ ~Owned /\ Disown
       \/ Owned /\ state[child] = "zombie" /\ Goto("probe") /\ UNCHANGED outcome
       \/ Owned /\ Running(child) /\ Goto("deadline") /\ UNCHANGED outcome
    /\ Watches

Deadline ==
    /\ caller = "deadline"
    /\ IF expired
       THEN GiveUp("timeout")
       ELSE Goto(IF call = "codec" THEN "logs" ELSE "exit") /\ UNCHANGED outcome
    /\ Watches

\* bounded_process: the clock is looked at before every poll of the pipes.
PipesTimeout ==
    /\ caller = "pipes" /\ expired
    /\ GiveUp("timeout")
    /\ Watches

Kept == captured["stdout"] + captured["stderr"]

Holds(p) == Running(p) /\ who[p] \in {"child", "descendant"}

Reads == UNCHANGED <<kernel, callee, self, victims>>

\* A read asks for one byte more than may still be kept: getting it means that
\* the limit of both pipes together is exceeded.
ReadPipe(s) ==
    /\ caller = "pipes" /\ open[s]
    /\ \E n \in 1 .. written[s] - captured[s] :
          LET available == Limit - Kept IN
          /\ n <= available + 1
          /\ captured' = [captured EXCEPT ![s] = @ + (IF n > available THEN available ELSE n)]
          /\ IF n > available THEN GiveUp("output") ELSE UNCHANGED <<outcome, caller>>
    /\ UNCHANGED open
    /\ Reads

\* A pipe is at its end when it is empty and nobody is left to write to it.
ClosePipe(s) ==
    /\ caller = "pipes" /\ open[s]
    /\ captured[s] = written[s] /\ (quiet \/ ~\E p \in Pids : Holds(p))
    /\ open' = [open EXCEPT ![s] = FALSE]
    /\ UNCHANGED <<captured, outcome, caller>>
    /\ Reads

PipesDone ==
    /\ caller = "pipes" /\ \A s \in Streams : ~open[s]
    /\ Goto("awaiting") /\ UNCHANGED outcome
    /\ Watches

\* (Fault) Once both pipes are at their end the clock is not looked at again.
AwaitExit_Forever ==
    /\ caller = "awaiting"
    /\ \/ ~Owned /\ Disown
       \/ Owned /\ state[child] = "zombie" /\ Goto("probe") /\ UNCHANGED outcome
    /\ Watches

AwaitExit ==
    /\ caller = "awaiting"
    /\ \/ ~Owned /\ Disown
       \/ Owned /\ state[child] = "zombie" /\ Goto("probe") /\ UNCHANGED outcome
       \/ Owned /\ Running(child) /\ expired /\ GiveUp("timeout")
    /\ Watches
-------------------------------------------------------------------------------
(* The call: cleanup_and_wait *)

Probe ==
    /\ caller = "probe"
    /\ IF Owned
       THEN Goto("kill-group") /\ UNCHANGED outcome
       ELSE Goto("returned") /\ outcome' = IF outcome = "none" THEN "launch" ELSE outcome
    /\ Watches

\* SIGKILL to these processes, whoever they are.
Signal(targets) ==
    LET hit == {p \in targets : Running(p)} IN
    /\ doomed' = doomed \cup hit
    /\ victims' = victims \cup {who[p] : p \in hit}
    /\ UNCHANGED <<state, who, group, callee, self, pipes, outcome>>

\* (Fault) A child that exited by itself is taken to have no group left.
KillGroup_OnlyIfRunning ==
    /\ caller = "kill-group"
    /\ Signal({p \in Pids : Running(child) /\ group[p] = child})
    /\ Goto("kill-child")

\* kill(-pid): every member at once, so that none can fork its way out.
KillGroup ==
    /\ caller = "kill-group"
    /\ Signal({p \in Pids : group[p] = child})
    /\ Goto("kill-child")

\* The child too, should it have left its group.
KillChild ==
    /\ caller = "kill-child"
    /\ Signal({child})
    /\ Goto("wait")

\* (Fault) The exit status is judged although the call had already failed.
Wait_StatusWins ==
    /\ caller = "wait"
    /\ IF Owned
       THEN /\ state[child] = "zombie"
            /\ Freed(child)
            /\ IF status # "success" THEN outcome' = "nonzero" /\ Goto("returned")
               ELSE IF outcome = "none" THEN UNCHANGED outcome /\ Goto("collect")
               ELSE UNCHANGED outcome /\ Goto("returned")
       ELSE /\ UNCHANGED <<state, who, group>>
            /\ Goto("returned")
            /\ outcome' = IF outcome = "none" THEN "launch" ELSE outcome
    /\ UNCHANGED <<doomed, callee, self, pipes, victims>>

\* The child is reaped: only now can its pid be reused.
Wait ==
    /\ caller = "wait"
    /\ IF Owned
       THEN /\ state[child] = "zombie"
            /\ Freed(child)
            /\ Goto(IF outcome = "none" THEN "collect" ELSE "returned")
            /\ UNCHANGED outcome
       ELSE /\ UNCHANGED <<state, who, group>>
            /\ Goto("returned")
            /\ outcome' = IF outcome = "none" THEN "launch" ELSE outcome
    /\ UNCHANGED <<doomed, callee, self, pipes, victims>>

\* The verdict, unless there was an error: external_command looks at the logs
\* once more and returns what is in the first.
Collect ==
    /\ caller = "collect"
    /\ Goto("returned")
    /\ outcome' = IF call = "codec" /\ \E s \in Streams : written[s] > Limit THEN "output"
                  ELSE IF status = "success" THEN "ok" ELSE "nonzero"
    /\ captured' = IF call = "codec" /\ outcome' = "ok"
                   THEN [captured EXCEPT !["stdout"] = written["stdout"]] ELSE captured
    /\ UNCHANGED <<kernel, callee, self, open, victims>>

Step == \/ Spawned \/ NotSpawned \/ Adopt \/ Logs \/ SeeExit \/ Deadline
        \/ PipesTimeout \/ PipesDone \/ AwaitExit
        \/ Probe \/ KillGroup \/ KillChild \/ Wait \/ Collect
-------------------------------------------------------------------------------
(* Time, and the end of the caller *)

Active == caller \notin {"idle", "returned", "dead"}

Expire ==
    /\ Active /\ ~expired
    /\ expired' = TRUE
    /\ UNCHANGED <<kernel, callee, call, child, stolen, adopted, pipes, caller, outcome, victims>>

\* The caller is killed: nothing of its own runs any more.  The kernel signals
\* a child that asked for it, and init reaps one that has ended.
CrashCaller ==
    /\ Active
    /\ Goto("dead")
    /\ IF Owned /\ state[child] = "zombie" THEN Freed(child) ELSE UNCHANGED <<state, who, group>>
    /\ doomed' = IF bound /\ Owned /\ Running(child) THEN doomed \cup {child} ELSE doomed
    /\ UNCHANGED <<callee, self, pipes, outcome, victims>>

Next ==
    \/ Spawn \/ Spawned \/ NotSpawned \/ Adopt
    \/ Logs \/ SeeExit \/ Deadline
    \/ PipesTimeout \/ PipesDone \/ AwaitExit
    \/ \E s \in Streams : ReadPipe(s) \/ ClosePipe(s)
    \/ Probe \/ KillGroup \/ KillChild \/ Wait \/ Collect
    \/ SetUp \/ SetUpFails \/ CloseStreams \/ Regroup
    \/ \E p \in Pids : \/ Die(p) \/ Exit(p) \/ Fork(p)
                       \/ \E s \in Streams : Write(p, s)
    \/ Stranger \/ ForeignReap \/ Expire \/ CrashCaller

Spec == Init /\ [][Next]_vars

\* The caller runs, the time limit of a codec or back end passes, the child gets
\* from fork to exec and a killed process ends.  No program of the group ever has
\* to end or to write, and a session may have no time limit.
FairSpec ==
    /\ Spec
    /\ WF_vars(Step) /\ WF_vars(\E s \in Streams : ReadPipe(s) \/ ClosePipe(s))
    /\ WF_vars(SetUp) /\ WF_vars(call # "session" /\ Expire)
    /\ \A p \in Pids : WF_vars(Die(p))
-------------------------------------------------------------------------------
(* What the caller may rely on *)

\* The call signals only its child and what that child forked, whatever became
\* of their pids: "an unrelated process can never reuse the group identifier
\* before we kill it".  Unless something else has reaped the child: a call that
\* probed before that may signal whoever has the pid now.
NeverSignalsStranger == ~stolen => "stranger" \notin victims

\* A call that returns has reaped its child, and what is left of its group has
\* a SIGKILL pending; also after errors and timeouts, and when the child exited
\* first or changed its group; what became of a stolen child it cannot tell.
NoSurvivors ==
    caller = "returned" /\ ~stolen =>
        /\ ~Owned
        /\ adopted => \A p \in Pids : Holds(p) /\ group[p] = child => p \in doomed

\* The outcome is the child's own doing and not the clean-up's: success means
\* that it succeeded within the limits and that everything it said was kept.
OutcomeIsTrue ==
    /\ outcome = "ok" =>
          /\ status = "success"
          /\ call = "codec" => captured["stdout"] <= Limit
          /\ call = "backend" => captured = written
    /\ outcome = "nonzero" => status = "failure"
    /\ outcome = "timeout" => expired

\* Both streams of a back end together never take more memory than its limit.
OutputBounded == call = "backend" => Kept <= Limit

\* A codec or worker whose caller was killed never goes on running, wherever it
\* was between fork and exec at that moment.
OrphanIsDoomed ==
    caller = "dead" /\ call # "backend" /\ Owned => ~Alive(child)

\* A call with a time limit returns, whatever its child does and whoever else
\* reaps it.
CallReturns == caller = "spawning" /\ call # "session" ~> ~Active
===============================================================================
