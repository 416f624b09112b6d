------------------------- MODULE MCProgressiveSession -------------------------
(* Instances of ProgressiveSession for TLC. *)
EXTENDS ProgressiveSession, TLC

\* The threads are interchangeable; used with safety properties only.
ThreadSymmetry == Permutations(Threads)
===============================================================================
