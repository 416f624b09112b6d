---------------------------- MODULE CampaignCohort ----------------------------
(* What a campaign promises about its cohort, whatever interrupts it: each   *)
(* observation is published once, from one attempt, and the campaign is      *)
(* declared complete only when all of them are.                              *)

CONSTANTS Observations, Attempts, Absent

VARIABLES published, complete

Init == published = [o \in Observations |-> Absent] /\ complete = FALSE

Publish(o) ==
    /\ published[o] = Absent
    /\ \E a \in Attempts : published' = [published EXCEPT ![o] = a]
    /\ UNCHANGED complete

Complete ==
    /\ ~complete
    /\ \A o \in Observations : published[o] # Absent
    /\ complete' = TRUE
    /\ UNCHANGED published

Next == (\E o \in Observations : Publish(o)) \/ Complete

Spec == Init /\ [][Next]_<<published, complete>>
===============================================================================
