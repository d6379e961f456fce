------------------------------ MODULE HashMap ------------------------------
(***************************************************************************)
(* What a hash table promises: a bag of key/value pairs.  A key may have   *)
(* several pairs ("allows duplicate keys - but they shouldn't be used");   *)
(* search, change and remove then take any one of them.  0 is both the     *)
(* value 0 and "not found".                                                *)
(***************************************************************************)
EXTENDS Integers, FiniteSets

CONSTANTS Keys,
          Word      \* a uintptr_t is a number below Word

Pairs == Keys \X (0 .. Word - 1)
Empty == [p \in Pairs |-> 0]

With(m, k, v)    == [m EXCEPT ![<<k, v>>] = @ + 1]
Without(m, k, v) == [m EXCEPT ![<<k, v>>] = @ - 1]
Values(m, k)     == {v \in 0 .. Word - 1 : m[<<k, v>>] > 0}

VARIABLES pairs,    \* how many times each pair is in the table
          answer    \* the last call, its key, and what it returned

MapInit == pairs = Empty /\ answer = <<"none", 0, 0>>

\* Returns non-zero for success; without memory nothing changes.
MapInsert(k, v) ==
    \/ pairs' = With(pairs, k, v) /\ answer' = <<"insert", k, -1>>
    \/ UNCHANGED pairs /\ answer' = <<"insert", k, 0>>

\* Replaces a value of k by what New makes of it.
MapUpdate(k, New(_)) ==
    \/ \E v \in Values(pairs, k) :
          pairs' = With(Without(pairs, k, v), k, New(v)) /\ answer' = <<"update", k, -1>>
    \/ Values(pairs, k) = {} /\ answer' = <<"update", k, 0>> /\ UNCHANGED pairs

MapSearch(k) ==
    /\ UNCHANGED pairs
    /\ \/ \E v \in Values(pairs, k) : answer' = <<"search", k, v>>
       \/ Values(pairs, k) = {} /\ answer' = <<"search", k, 0>>

MapRemove(k) ==
    \/ \E v \in Values(pairs, k) : pairs' = Without(pairs, k, v) /\ answer' = <<"remove", k, v>>
    \/ Values(pairs, k) = {} /\ answer' = <<"remove", k, 0>> /\ UNCHANGED pairs

MapNext == \E k \in Keys :
    \/ \E v \in 0 .. Word - 1 :
          \/ MapInsert(k, v)
          \/ LET New(old) == v                 IN MapUpdate(k, New)
          \/ LET New(old) == (old + v) % Word  IN MapUpdate(k, New)
    \/ MapSearch(k)
    \/ MapRemove(k)

\* The table is given up and another one is made.
MapFree == pairs' = Empty /\ UNCHANGED answer

MapSpec == MapInit /\ [][MapNext \/ MapFree]_<<pairs, answer>>
=============================================================================
