--------------------------- MODULE ProgressiveTasks ---------------------------
(***************************************************************************)
(* The finite portfolio of a progressive session: its stages, the order of *)
(* its phases, its tasks and what one committed task file records.         *)
(* Shared by the promise (ProgressivePortfolio) and by the session that    *)
(* keeps it (ProgressiveSession).                                          *)
(***************************************************************************)
EXTENDS Naturals

CONSTANTS
    Windows,        \* the analysis windows of the recording
    Blind,          \* BOOLEAN: not options.no_blind
    MultiAnchor,    \* BOOLEAN: not options.no_multi_anchor
    Identities,     \* what a manifest freezes: audio content, executable,
                    \* search policy and compute backend, as one value
    Absent          \* no such file

ASSUME PortfolioAssumption ==
    /\ Blind \in BOOLEAN
    /\ MultiAnchor \in BOOLEAN
    /\ Absent \notin Identities

PhaseStages(p) ==
    CASE p = 1 -> {"quick"}
      [] p = 2 -> {"early-nearest", "baseline-remainder"}
                    \cup (IF Blind THEN {"blind"} ELSE {})
                    \cup (IF MultiAnchor THEN {"early-multi"} ELSE {})
      [] OTHER -> {"nearest"}
                    \cup (IF MultiAnchor THEN {"multi-anchor"} ELSE {})

Phases == 1 .. 3

Phase(p) == [stage : PhaseStages(p), window : Windows]

Before(p) == UNION {Phase(q) : q \in {q \in Phases : q < p}}

Tasks == UNION {Phase(p) : p \in Phases}

QuickTasks    == Phase(1)
BaselineTasks == [stage : {"quick", "baseline-remainder"}, window : Windows]

\* Stages whose search reads the frozen anchors; the others ignore them.
AnchoredStages == {"early-nearest", "early-multi", "nearest", "multi-anchor"}

\* (Fault) Exploration uses whatever baseline is known when it starts.
AnchorSources_Current(p, done) == done \cap BaselineTasks

\* The baseline tasks among `done` whose anchors phase p freezes when it
\* starts: the quick prefix for exploration, every baseline task otherwise.
\* An anchor is a function of the baseline task that trained it, and the merge
\* does not depend on the order of its candidates, so the set stands for them.
AnchorSources(p, done) ==
    done \cap (IF p = 2 THEN QuickTasks ELSE BaselineTasks)

\* A committed task file: the session whose hash it carries and the baseline
\* tasks whose anchors its search used.
Commits == [session : Identities, anchors : SUBSET BaselineTasks]

Commit(session, k, anchors) ==
    [session |-> session,
     anchors |-> IF k.stage \in AnchoredStages THEN anchors ELSE {}]

ASSUME AbsentAssumption == Absent \notin Commits

TaskFiles == [Tasks -> Commits \cup {Absent}]

NoTaskFiles == [k \in Tasks |-> Absent]

Present(f) == {k \in Tasks : f[k] # Absent}

\* (Fault) Stages of one phase are made to wait for each other.
PhaseOrdered_PerStage(done) ==
    \A p \in Phases : done \cap Phase(p) # {} => Before(p + 1) \subseteq done

\* What the verification loop demands of a set of task files: nothing of a
\* later phase before every task of the earlier phases.
PhaseOrdered(done) ==
    \A p \in Phases : done \cap Phase(p) # {} => Before(p) \subseteq done
===============================================================================
