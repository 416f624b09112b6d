---------------------------- MODULE MCOwnedProcess ----------------------------
(* Instances of OwnedProcess for TLC. *)
EXTENDS OwnedProcess
===============================================================================
