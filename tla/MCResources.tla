---------------------------- MODULE MCResources -----------------------------
(* Resources for TLC.                                                      *)
EXTENDS Resources, TLC

Symmetry == Permutations(Tools)
=============================================================================
