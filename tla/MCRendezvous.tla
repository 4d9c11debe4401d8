----------------------------- MODULE MCRendezvous ----------------------------
(* Rendezvous for TLC.                                                      *)
EXTENDS Rendezvous, TLC

(* Sound for the invariants, although the process starts with some of its   *)
(* slots: no action and no invariant tells them apart, so a behaviour from  *)
(* other slots is the same behaviour renamed.                               *)
Symmetry == Permutations(Lwps)

(* rv_live looks no further than the first mishap.  No counterexample is    *)
(* lost: what its two properties say of who waits ends with a mishap, what  *)
(* ImplementsRendezvous says of single steps is a theorem for all of them,  *)
(* and rv_all checks the invariants beyond.                                 *)
UntilUpset == mishaps = {}
=============================================================================
