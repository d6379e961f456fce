-------------------------------- MODULE Fifo --------------------------------
(***************************************************************************)
(* What the queue and the early ring buffer promise: entries come out once *)
(* each, in the order they went in, and there are never more than Bound.   *)
(***************************************************************************)
EXTENDS Integers, Sequences

CONSTANT Bound

VARIABLES fifo,   \* the entries, oldest first
          got     \* what the last removal returned

FifoInit == fifo = <<>> /\ got = <<>>

Put ==
    /\ Len(fifo') \in Len(fifo) + 1 .. Bound
    /\ SubSeq(fifo', 1, Len(fifo)) = fifo
    /\ UNCHANGED got

Get == \E n \in 0 .. Len(fifo) :
    /\ got' = SubSeq(fifo, 1, n)
    /\ fifo' = SubSeq(fifo, n + 1, Len(fifo))

FifoSpec == FifoInit /\ [][Put \/ Get]_<<fifo, got>>
=============================================================================
