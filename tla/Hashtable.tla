----------------------------- MODULE Hashtable -----------------------------
(***************************************************************************)
(* util-hashtable.c: chains in a table whose length is a prime, grown when *)
(* there are more entries than the load limit.  Its users call it from one *)
(* thread, so a call is one step; kmalloc may fail in every call of it.    *)
(***************************************************************************)
EXTENDS Integers, Sequences, FiniteSets, SequencesExt

CONSTANTS Keys, Word,
          HashOf,         \* hash_fn and the mixing of do_hash, key by key
          primes,         \* lengths of the table
          load_factors,   \* entries a table of each length may hold
          MinSizes,       \* what create_htable is asked for
          PointerSize,    \* sizeof(struct hash_entry *)
          PlanB,          \* may the longer table's memory be refused and then,
                          \* asked for again at once, be given?
          MaxEntryCount   \* bound: entries

ASSUME HashtableAssumption ==
    /\ Word \in Nat \ {0}
    /\ HashOf \in [Keys -> Nat]
    /\ primes \in Seq(Nat \ {0}) /\ Len(primes) > 0
    /\ load_factors \in Seq(Nat) /\ Len(load_factors) = Len(primes)
    /\ \A i, j \in DOMAIN primes : i < j => primes[i] < primes[j]
    /\ PointerSize \in Nat \ {0}
    /\ PlanB \in BOOLEAN
    /\ \A n \in MinSizes : n \in Nat /\ n < primes[Len(primes)]

VARIABLES table,         \* chains of entries, from index 0
          table_length, prime_index, load_limit,
          entry_count,
          status,        \* "none" before create, "up"
          ret            \* the last call, its key, and what it returned

hvars == <<table, table_length, prime_index, load_limit, entry_count, status, ret>>

NoTable == [i \in {} |-> <<>>]

HInit ==
    /\ table = NoTable /\ table_length = 0 /\ prime_index = 1 /\ load_limit = 0
    /\ entry_count = 0
    /\ status = "none"
    /\ ret = <<"none", 0, 0>>

do_hash(k) == HashOf[k]
indexFor(length, hash) == hash % length
Bucket(k) == indexFor(table_length, do_hash(k))

\* The place of the first entry of the chain whose hash and key are k's; 0 if
\* there is none.
Place(k) == SelectInSeq(table[Bucket(k)], LAMBDA e : e.hash = do_hash(k) /\ e.key = k)
-----------------------------------------------------------------------------
create_htable(min_size) ==
    LET i == CHOOSE j \in DOMAIN primes :
                primes[j] > min_size /\ \A n \in 1 .. j - 1 : primes[n] <= min_size
    IN  /\ status = "none"
        /\ table' = [b \in 0 .. primes[i] - 1 |-> <<>>]
        /\ table_length' = primes[i]
        /\ prime_index' = i
        /\ load_limit' = load_factors[i]
        /\ entry_count' = 0
        /\ status' = "up"
        /\ UNCHANGED ret

free_htable ==
    /\ status = "up"
    /\ status' = "none"
    /\ table' = NoTable /\ table_length' = 0 /\ prime_index' = 1 /\ load_limit' = 0
    /\ entry_count' = 0
    /\ UNCHANGED ret

\* Bucket by bucket and from its head, an entry at a time is moved to the head
\* of its new chain.
MoveChain(new, chain, length) ==
    FoldLeft(LAMBDA n, e : [n EXCEPT ![indexFor(length, e.hash)] = <<e>> \o @], new, chain)

Rehashed(t, length) ==
    FoldLeft(LAMBDA n, chain : MoveChain(n, chain, length),
             [b \in 0 .. length - 1 |-> <<>>], [i \in 1 .. table_length |-> t[i - 1]])

\* tmp_realloc copies table_length bytes where it should copy as many pointers:
\* the chains behind the first few are not in the new buffer, whose rest is not
\* initialised.  Here the rest is empty.  Line 280 writes through a pointer
\* found in it, and where that ends the kernel the behaviour ends here.
tmp_realloc(t, length) ==
    [b \in 0 .. length - 1 |-> IF b < table_length \div PointerSize THEN t[b] ELSE <<>>]

\* The chains are sorted out in place.
MoveFrom(t, b, length) ==
    LET Stays(e) == indexFor(length, e.hash) = b
        Goes(e)  == ~Stays(e)
    IN  MoveChain([t EXCEPT ![b] = SelectSeq(@, Stays)], SelectSeq(t[b], Goes), length)

Realloced(t, length) ==
    FoldLeft(LAMBDA n, b : MoveFrom(n, b - 1, length), tmp_realloc(t, length),
             [i \in 1 .. table_length |-> i])

\* hashtable_expand, as the outcomes that htable_insert uses: the table is
\* replaced by the next longer one, or stays, or is reallocated by Plan B.
\* prime_index ends where it was if the table does.
hashtable_expand(t) ==
    LET next == prime_index + 1 IN
    {[index |-> prime_index, table |-> t]} \cup
    (IF prime_index < Len(primes)
     THEN {[index |-> next, table |-> Rehashed(t, primes[next])]} \cup
          (IF PlanB THEN {[index |-> next, table |-> Realloced(t, primes[next])]} ELSE {})
     ELSE {})

InsertSlip(k, v) ==
    /\ status = "up"
    /\ entry_count < MaxEntryCount
    /\ \E new \in IF entry_count + 1 > load_limit THEN hashtable_expand(table)
                  ELSE {[index |-> prime_index, table |-> table]} :
        /\ prime_index' = new.index
        /\ table_length' = primes[new.index]
        /\ load_limit' = load_factors[new.index]
        /\ \/ /\ entry_count' = entry_count + 1
              /\ ret' = <<"insert", k, -1>>
              /\ table' = [new.table EXCEPT ![Bucket(k)] =
                    <<[hash |-> do_hash(k), key |-> k, value |-> v]>> \o @]
           \/ /\ ret' = <<"insert", k, 0>>
              /\ table' = new.table
              /\ UNCHANGED entry_count
    /\ UNCHANGED status

htable_insert(k, v) ==
    /\ status = "up"
    /\ entry_count < MaxEntryCount
    /\ \E new \in IF entry_count + 1 > load_limit THEN hashtable_expand(table)
                  ELSE {[index |-> prime_index, table |-> table]} :
        /\ prime_index' = new.index
        /\ table_length' = primes[new.index]
        /\ load_limit' = load_factors[new.index]
        /\ \/ /\ entry_count' = entry_count + 1
              /\ ret' = <<"insert", k, -1>>
              /\ table' = [new.table EXCEPT ![indexFor(primes[new.index], do_hash(k))] =
                    <<[hash |-> do_hash(k), key |-> k, value |-> v]>> \o @]
           \/ /\ ret' = <<"insert", k, 0>>
              /\ table' = new.table
              /\ UNCHANGED entry_count
    /\ UNCHANGED status

\* The first entry of k gets the value that new makes of the old one.
Update(k, new) ==
    /\ status = "up"
    /\ IF Place(k) # 0
       THEN /\ table' = [table EXCEPT ![Bucket(k)][Place(k)].value = new[@]]
            /\ ret' = <<"update", k, -1>>
       ELSE /\ ret' = <<"update", k, 0>>
            /\ UNCHANGED table
    /\ UNCHANGED <<table_length, prime_index, load_limit, entry_count, status>>

htable_change(k, v) == Update(k, [old \in 0 .. Word - 1 |-> v])
htable_inc(k, v)    == Update(k, [old \in 0 .. Word - 1 |-> (old + v) % Word])
htable_dec(k, v)    == Update(k, [old \in 0 .. Word - 1 |-> (old - v) % Word])

htable_search(k) ==
    /\ status = "up"
    /\ ret' = <<"search", k, IF Place(k) # 0 THEN table[Bucket(k)][Place(k)].value ELSE 0>>
    /\ UNCHANGED <<table, table_length, prime_index, load_limit, entry_count, status>>

htable_remove(k) ==
    /\ status = "up"
    /\ IF Place(k) # 0
       THEN /\ ret' = <<"remove", k, table[Bucket(k)][Place(k)].value>>
            /\ table' = [table EXCEPT ![Bucket(k)] = RemoveAt(@, Place(k))]
            /\ entry_count' = entry_count - 1
       ELSE ret' = <<"remove", k, 0>> /\ UNCHANGED <<table, entry_count>>
    /\ UNCHANGED <<table_length, prime_index, load_limit, status>>
-----------------------------------------------------------------------------
HNext ==
    \/ \E n \in MinSizes : create_htable(n)
    \/ free_htable
    \/ \E k \in Keys : htable_search(k) \/ htable_remove(k)
    \/ \E k \in Keys, v \in 0 .. Word - 1 :
        \/ htable_insert(k, v) \/ htable_change(k, v)
        \/ htable_inc(k, v) \/ htable_dec(k, v)

HSpec == HInit /\ [][HNext]_hvars
-----------------------------------------------------------------------------
(* Properties.                                                             *)

\* The places of the table that hold pair <<k, v>>.
Holding(k, v) == {p \in (0 .. table_length - 1) \X (1 .. entry_count) :
    /\ p[2] \in DOMAIN table[p[1]]
    /\ table[p[1]][p[2]].key = k /\ table[p[1]][p[2]].value = v}

Contents == [p \in Keys \X (0 .. Word - 1) |-> Cardinality(Holding(p[1], p[2]))]

Map == INSTANCE HashMap WITH pairs <- Contents, answer <- ret

(* The table behaves as the bag of pairs that HashMap promises, whatever its
   length, its chains and the allocations that fail, as long as no longer table
   is refused and then given to Plan B.                                    *)
IsMap == Map!MapSpec

(* The table holds entry_count entries: "If expand fails, we should still try
   cramming just this value into the existing table".  It is violated when
   PlanB is TRUE: the reallocated table has lost the chains that were not
   copied, and the insertion goes on in it.                                *)
NothingLost ==
    Cardinality({p \in (0 .. table_length - 1) \X (1 .. MaxEntryCount) :
                    p[2] \in DOMAIN table[p[1]]}) = entry_count
=============================================================================
