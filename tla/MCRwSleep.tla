----------------------------- MODULE MCRwSleep ------------------------------
(* RwSleep for TLC: the LWPs are alike.                                     *)
EXTENDS RwSleep

Symmetry == Permutations(Lwps)
=============================================================================
