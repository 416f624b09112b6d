---------------------------- MODULE MCSessionLock ----------------------------
(* Instances of SessionLock for TLC. *)
EXTENDS SessionLock
===============================================================================
