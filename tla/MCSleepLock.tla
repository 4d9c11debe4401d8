----------------------------- MODULE MCSleepLock -----------------------------
(* SleepLock for TLC.                                                       *)
EXTENDS SleepLock

CONSTANTS Family, CatchWaiting

(* The LWPs of Family are one process, each other one is alone in its own.  *)
MCProc == [l \in Lwps |-> IF l \in Family THEN "p" ELSE l]
MCWaitProcs == IF CatchWaiting THEN {"p"} ELSE {}

(* Sound when Family is empty or all of Lwps: the LWPs are then alike.      *)
Symmetry == Permutations(Lwps)
=============================================================================
