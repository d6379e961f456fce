------------------------------- MODULE MCXbuf -------------------------------
(* Xbuf with one server and a few senders; the bounds are in the .cfg.     *)
EXTENDS Xbuf, TLC

Symmetry == Permutations(Senders)
=============================================================================
