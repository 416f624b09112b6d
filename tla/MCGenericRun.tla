------------------------------ MODULE MCGenericRun ------------------------------
(* Instances of GenericRun for TLC. *)
EXTENDS GenericRun, TLC

WindowSymmetry == Permutations(Windows)
ContentSymmetry == Permutations(Contents)
Symmetry == WindowSymmetry \cup ContentSymmetry
===============================================================================
