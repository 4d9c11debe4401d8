------------------------------ MODULE MCSyncVar -----------------------------
(* SyncVar for TLC: the LWPs of Family are one process, which catches       *)
(* SIGWAITING, and each other one is alone in its own, which does not.      *)
EXTENDS SyncVar

CONSTANT Family

MCProc == [l \in Lwps |-> IF l \in Family THEN "p" ELSE l]
MCWaitProcs == {"p"}

(* Sound when Family is empty or all of Lwps.                               *)
Symmetry == Permutations(Lwps)
=============================================================================
