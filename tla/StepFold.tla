------------------------------ MODULE StepFold ------------------------------
(* FoldLeft of SequencesExt as a function of the prefix: it runs over all subsets of
   the indices, which is too slow for a decoder's loop over its input. *)
EXTENDS Naturals, Sequences

Fold(op(_, _), base, seq) ==
    LET upTo[i \in 0..Len(seq)] == IF i = 0 THEN base ELSE op(upTo[i - 1], seq[i])
    IN upTo[Len(seq)]

\* The same function; TLC evaluates it here, and not whenever it is read.
Evaluated(f) == CHOOSE g \in {f} : g = g

\* The same sequence, likewise.
Written(s) == s \o <<>>
=============================================================================
