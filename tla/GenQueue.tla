------------------------------ MODULE GenQueue ------------------------------
(***************************************************************************)
(* util-queue.c: a queue of entries under a spin lock, with a bound that   *)
(* enqueue checks before it takes the lock.  Its entries are not NULL.     *)
(***************************************************************************)
EXTENDS Integers, Sequences, FiniteSets

CONSTANTS Producers,     \* threads that call enqueue
          Items,         \* entries
          MaxEntries     \* queue->max_entries

ASSUME GenQueueAssumption ==
    /\ MaxEntries \in Nat
    /\ IsFiniteSet(Producers) /\ Producers # {}

VARIABLES entries,       \* the list
          num_entries,
          enq,           \* producers past the check and the kmalloc
          dequeued       \* what the last dequeue returned

qvars == <<entries, num_entries, enq, dequeued>>

QInit == entries = <<>> /\ num_entries = 0 /\ enq = {} /\ dequeued = <<>>

EnqueueCheckSlip(p) ==
    /\ p \notin enq
    /\ num_entries <= MaxEntries
    /\ enq' = enq \cup {p}
    /\ UNCHANGED <<entries, num_entries, dequeued>>

\* A full queue, or no memory, returns -1 and changes nothing.
EnqueueCheck(p) ==
    /\ p \notin enq
    /\ num_entries < MaxEntries
    /\ enq' = enq \cup {p}
    /\ UNCHANGED <<entries, num_entries, dequeued>>

EnqueueAddSlip(p, item) ==
    /\ p \in enq
    /\ enq' = enq \ {p}
    /\ entries' = <<item>> \o entries
    /\ num_entries' = num_entries + 1
    /\ UNCHANGED dequeued

EnqueueAdd(p, item) ==
    /\ p \in enq
    /\ enq' = enq \ {p}
    /\ entries' = Append(entries, item)
    /\ num_entries' = num_entries + 1
    /\ UNCHANGED dequeued

dequeue ==
    /\ IF entries # <<>>
       THEN /\ dequeued' = <<Head(entries)>>
            /\ entries' = Tail(entries)
            /\ num_entries' = num_entries - 1
       ELSE /\ dequeued' = <<>>
            /\ UNCHANGED <<entries, num_entries>>
    /\ UNCHANGED enq

\* Called when nobody else uses the queue: dequeue until it is empty.
deinit_queue ==
    /\ enq = {}
    /\ entries # <<>>
    /\ entries' = <<>>
    /\ num_entries' = 0
    /\ dequeued' = entries
    /\ UNCHANGED enq

QNext ==
    \/ \E p \in Producers : EnqueueCheck(p)
    \/ \E p \in Producers, item \in Items : EnqueueAdd(p, item)
    \/ dequeue
    \/ deinit_queue

QSpec == QInit /\ [][QNext]_qvars
-----------------------------------------------------------------------------
(* Properties.                                                             *)

(* The check outside the lock lets the queue grow past max_entries, by less
   than one entry for each concurrent caller, and never further: the entries
   and the calls that are past the check are bounded together.             *)
QueueBound ==
    /\ num_entries = Len(entries)
    /\ num_entries + Cardinality(enq) < MaxEntries + Cardinality(Producers)

QFifo == INSTANCE Fifo WITH Bound <- MaxEntries + Cardinality(Producers) - 1,
                            fifo <- entries, got <- dequeued

(* Whatever the callers interleave, the queue is first in, first out.      *)
QueueIsFifo == QFifo!FifoSpec
=============================================================================
