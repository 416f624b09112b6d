------------------------- MODULE ProgressivePortfolio -------------------------
(***************************************************************************)
(* What a progressive session promises of its task files, whatever is      *)
(* killed, stopped or cut off: they only grow, one task at a time, phase   *)
(* after phase, each bound to one session and to the anchor generation of  *)
(* its phase; a loss of power returns them to an earlier such state.       *)
(***************************************************************************)
EXTENDS ProgressiveTasks

VARIABLES committed,    \* the task files a reader sees
          kept          \* the task files a loss of power leaves

vars == <<committed, kept>>

Init == /\ committed = NoTaskFiles
        /\ kept = NoTaskFiles

\* One new commit: every earlier phase is complete, the file did not exist,
\* every other commit is of the same session, and the anchors are those of the
\* complete generation, never of a part of it.
CommitTask(p, k, s) ==
    /\ k \in Phase(p)
    /\ committed[k] = Absent
    /\ Before(p) \subseteq Present(committed)
    /\ \A j \in Present(committed) : committed[j].session = s
    /\ committed' = [committed EXCEPT
                       ![k] = Commit(s, k, AnchorSources(p, Before(p)))]
    /\ UNCHANGED kept

Keep == /\ kept' = committed
        /\ UNCHANGED committed

LosePower == /\ committed' = kept
             /\ UNCHANGED kept

Next == \/ \E p \in Phases, s \in Identities : \E k \in Phase(p) :
               CommitTask(p, k, s)
        \/ Keep
        \/ LosePower

Spec == Init /\ [][Next]_vars
===============================================================================
