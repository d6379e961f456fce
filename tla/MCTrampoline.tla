---------------------------- MODULE MCTrampoline ----------------------------
(* Trampoline for TLC.                                                     *)
EXTENDS Trampoline, TLC

Symmetry == Permutations(Enclaves)
=============================================================================
