-------------------------- MODULE StructuresProofs --------------------------
(***************************************************************************)
(* Theorems about the parts that run in one thread at a time: the queue,   *)
(* the file service, the boot memory, the loops over IOMMU pages and the   *)
(* early ring buffer.  The hash table has HashtableProofs, whose lemmas on *)
(* numbers, folds and sequences are used here too.                         *)
(***************************************************************************)
EXTENDS GenQueue, EnclaveFs, EarlyRingbuf, BootParams, IommuRegion, HashtableProofs

(* The head of a list is its first entry.                                  *)
LEMMA HeadIsFirst ==
    ASSUME NEW S, NEW s \in Seq(S), s # <<>>
    PROVE  Head(s) = s[1]
OBVIOUS

-----------------------------------------------------------------------------
(* The queue (GenQueue).                                                   *)

(* The invariant of the queue: the bound, and the producers past the check
   are producers (enqueue, dequeue, deinit_queue of util-queue.c).         *)
QueueIInv ==
    /\ entries \in Seq(Items)
    /\ enq \subseteq Producers
    /\ QueueBound

(* A producer that passes the check, or leaves it, moves the number of those
   past the check by one (enqueue).                                        *)
LEMMA EnqCount ==
    ASSUME enq \subseteq Producers
    PROVE  /\ IsFiniteSet(enq) /\ Cardinality(enq) \in Nat
           /\ Cardinality(Producers) \in Nat
           /\ Cardinality(enq) <= Cardinality(Producers)
           /\ Cardinality({}) = 0 /\ Cardinality(Producers) > 0
           /\ \A p \in Producers \ enq :
                /\ Cardinality(enq \cup {p}) = Cardinality(enq) + 1
                /\ Cardinality(enq) < Cardinality(Producers)
           /\ \A p \in enq : Cardinality(enq \ {p}) = Cardinality(enq) - 1
<1>1. IsFiniteSet(Producers) /\ Producers # {}
  BY GenQueueAssumption
<1>2. IsFiniteSet(enq) /\ Cardinality(enq) <= Cardinality(Producers)
  BY <1>1, FS_Subset
<1>3. Cardinality(enq) \in Nat /\ Cardinality(Producers) \in Nat
  BY <1>1, <1>2, FS_CardinalityType
<1>4. Cardinality({}) = 0 /\ Cardinality(Producers) > 0
  BY <1>1, <1>3, FS_EmptySet
<1>5. \A p \in Producers \ enq : Cardinality(enq \cup {p}) = Cardinality(enq) + 1
  BY <1>2, FS_AddElement
<1>6. \A p \in Producers \ enq : Cardinality(enq) < Cardinality(Producers)
  <2> TAKE p \in Producers \ enq
  <2>1. enq \cup {p} \subseteq Producers
    OBVIOUS
  <2>2. Cardinality(enq \cup {p}) <= Cardinality(Producers)
    BY <2>1, <1>1, FS_Subset
  <2> QED
    BY <2>2, <1>3, <1>5
<1>7. \A p \in enq : Cardinality(enq \ {p}) = Cardinality(enq) - 1
  BY <1>2, FS_RemoveElement
<1> QED
  BY <1>2, <1>3, <1>4, <1>5, <1>6, <1>7

(* Every step of the queue keeps its invariant: a caller past the check has
   seen room, and what it adds is what it was counted for (enqueue).       *)
LEMMA QueueStep ==
    ASSUME QueueIInv, [QNext]_qvars
    PROVE  QueueIInv'
<1> USE DEF QueueIInv, QueueBound
<1>0. MaxEntries \in Nat /\ Len(entries) \in Nat
  BY GenQueueAssumption
<1>1. ASSUME NEW p \in Producers, EnqueueCheck(p) PROVE QueueIInv'
  BY <1>0, <1>1, EnqCount DEF EnqueueCheck
<1>2. ASSUME NEW p \in Producers, NEW item \in Items, EnqueueAdd(p, item) PROVE QueueIInv'
  <2>1. entries' \in Seq(Items) /\ Len(entries') = Len(entries) + 1
    BY <1>2 DEF EnqueueAdd
  <2> QED
    BY <2>1, <1>0, <1>2, EnqCount DEF EnqueueAdd
<1>3. CASE dequeue
  <2>1. CASE entries = <<>>
    BY <2>1, <1>3 DEF dequeue
  <2>2. CASE entries # <<>>
    <3>1. entries' \in Seq(Items) /\ Len(entries') = Len(entries) - 1
      BY <2>2, <1>3 DEF dequeue
    <3> QED
      BY <3>1, <2>2, <1>0, <1>3, EnqCount DEF dequeue
  <2> QED
    BY <2>1, <2>2
<1>4. CASE deinit_queue
  BY <1>0, <1>4, EnqCount DEF deinit_queue
<1>5. CASE UNCHANGED qvars
  BY <1>5 DEF qvars
<1> QED
  BY <1>1, <1>2, <1>3, <1>4, <1>5 DEF QNext

(* The queue's invariant holds of every behaviour of its callers.          *)
THEOREM QueueAlways == QSpec => []QueueIInv
<1>1. QInit => QueueIInv
  <2> SUFFICES ASSUME QInit PROVE QueueIInv
    OBVIOUS
  <2>1. enq \subseteq Producers
    BY DEF QInit
  <2>2. MaxEntries \in Nat
    BY GenQueueAssumption
  <2> QED
    BY <2>1, <2>2, EnqCount DEF QInit, QueueIInv, QueueBound
<1>2. QueueIInv /\ [QNext]_qvars => QueueIInv'
  BY QueueStep
<1> QED
  BY <1>1, <1>2, PTL DEF QSpec

(* The check of max_entries outside the lock costs at most one entry per
   concurrent caller (enqueue of util-queue.c).                            *)
THEOREM QueueCorrect == QSpec => []QueueBound
<1>1. QueueIInv => QueueBound
  BY DEF QueueIInv
<1> QED
  BY <1>1, QueueAlways, PTL

(* Every step of the queue is one of a bounded first-in first-out buffer, or
   leaves it alone (enqueue, dequeue, deinit_queue).                       *)
LEMMA QueueRefines ==
    ASSUME QueueIInv, QueueIInv', [QNext]_qvars
    PROVE  [QFifo!Put \/ QFifo!Get]_<<entries, dequeued>>
<1>0. entries \in Seq(Items) /\ Len(entries) \in Nat
  BY DEF QueueIInv
<1>1. ASSUME NEW p \in Producers, EnqueueCheck(p) PROVE UNCHANGED <<entries, dequeued>>
  BY <1>1 DEF EnqueueCheck
<1>2. ASSUME NEW p \in Producers, NEW item \in Items, EnqueueAdd(p, item) PROVE QFifo!Put
  <2>1. entries' = Append(entries, item) /\ UNCHANGED dequeued
    BY <1>2 DEF EnqueueAdd
  <2>2. Len(entries') = Len(entries) + 1
    BY <2>1, <1>0
  <2>3. Len(entries') <= MaxEntries + Cardinality(Producers) - 1
    <3>1. Cardinality(enq') \in Nat /\ Cardinality(Producers) \in Nat
      <4>1. enq' \subseteq Producers
        BY DEF QueueIInv
      <4> QED
        BY <4>1, GenQueueAssumption, FS_Subset, FS_CardinalityType
    <3>2. Len(entries') + Cardinality(enq') < MaxEntries + Cardinality(Producers)
      BY DEF QueueIInv, QueueBound
    <3> QED
      BY <3>1, <3>2, <2>2, <1>0, GenQueueAssumption
  <2>4. SubSeq(entries', 1, Len(entries)) = entries
    <3>1. \A i \in 1 .. Len(entries) : entries'[i] = entries[i]
      BY <2>1, <1>0, AppendProperties
    <3>2. entries' \in Seq(Items)
      BY DEF QueueIInv
    <3> QED
      BY <3>1, <3>2, <2>2, <1>0, SubSeqProperties, SeqEqual
  <2>5. MaxEntries + Cardinality(Producers) - 1 \in Int
    BY GenQueueAssumption, FS_CardinalityType
  <2> QED
    BY <2>1, <2>2, <2>3, <2>4, <2>5, <1>0 DEF QFifo!Put
<1>3. CASE dequeue
  <2>1. CASE entries = <<>>
    <3>1. entries' = <<>> /\ dequeued' = <<>>
      BY <2>1, <1>3 DEF dequeue
    <3>2. SubSeq(entries, 1, 0) = <<>> /\ SubSeq(entries, 0 + 1, Len(entries)) = <<>>
      BY <2>1, <1>0, SubSeqEmpty
    <3>3. 0 \in 0 .. Len(entries)
      BY <1>0
    <3> QED
      BY <3>1, <3>2, <3>3 DEF QFifo!Get
  <2>2. CASE entries # <<>>
    <3>1. entries' = Tail(entries) /\ dequeued' = <<Head(entries)>>
      BY <2>2, <1>3 DEF dequeue
    <3>2. 1 \in 0 .. Len(entries) /\ Len(entries) >= 1
      BY <2>2, <1>0
    <3>3. entries' = SubSeq(entries, 1 + 1, Len(entries))
      BY <3>1, <2>2, <1>0, TailIsSubSeq
    <3>4. SubSeq(entries, 1, 1) = <<Head(entries)>>
      <4>1. /\ SubSeq(entries, 1, 1) \in Seq(Items)
            /\ Len(SubSeq(entries, 1, 1)) = 1
            /\ SubSeq(entries, 1, 1)[1] = entries[1]
        BY <3>2, <1>0, SubSeqProperties
      <4>2. Head(entries) \in Items
        BY <2>2, <1>0, HeadTailProperties
      <4>3. Head(entries) = entries[1]
        BY <2>2, <1>0, HeadIsFirst
      <4>4. /\ <<Head(entries)>> \in Seq(Items)
            /\ Len(<<Head(entries)>>) = 1
            /\ <<Head(entries)>>[1] = entries[1]
        BY <4>2, <4>3
      <4>5. \A i \in 1 .. 1 : SubSeq(entries, 1, 1)[i] = <<Head(entries)>>[i]
        BY <4>1, <4>4
      <4> QED
        BY <4>1, <4>4, <4>5, SeqEqual
    <3> QED
      BY <3>1, <3>2, <3>3, <3>4 DEF QFifo!Get
  <2> QED
    BY <2>1, <2>2
<1>4. CASE deinit_queue
  <2>1. entries' = <<>> /\ dequeued' = entries
    BY <1>4 DEF deinit_queue
  <2>2. SubSeq(entries, 1, Len(entries)) = entries
    BY <1>0, SubSeqFull
  <2>3. SubSeq(entries, Len(entries) + 1, Len(entries)) = <<>>
    BY <1>0, SubSeqEmpty
  <2>4. Len(entries) \in 0 .. Len(entries)
    BY <1>0
  <2> QED
    BY <2>1, <2>2, <2>3, <2>4 DEF QFifo!Get
<1>5. CASE UNCHANGED qvars
  BY <1>5 DEF qvars
<1> QED
  BY <1>1, <1>2, <1>3, <1>4, <1>5 DEF QNext

(* Whatever the callers interleave, the queue is a bounded first-in first-out
   buffer (util-queue.c).                                                  *)
THEOREM QueueImplements == QSpec => QueueIsFifo
<1>1. QInit => QFifo!FifoInit
  BY DEF QInit, QFifo!FifoInit
<1>2. QueueIInv /\ QueueIInv' /\ [QNext]_qvars
        => [QFifo!Put \/ QFifo!Get]_<<entries, dequeued>>
  BY QueueRefines
<1> QED
  BY <1>1, <1>2, QueueAlways, PTL DEF QSpec, QueueIsFifo, QFifo!FifoSpec

-----------------------------------------------------------------------------
(* The file service (EnclaveFs).                                           *)

\* The handles a table knows, and the entries of a list.
Handles(m) == {p \in Ptrs \ {0} : \E v \in Ptrs : m[<<p, v>>] > 0}
Entries(s) == {s[i] : i \in DOMAIN s}

FsPcs == {"idle", "desc", "io", "answer"}

CallType ==
    [pc : FsPcs, file : Ptrs, length : Nat, descs : Seq(Nat), i : Nat, left : Nat,
     ret : Int, total : Nat, done : Seq(Nat), bad : BOOLEAN]

(* The table has a file under its own address and once, and the counter of
   open files never falls below the handles the table knows (htable_insert and
   htable_remove in enclave_vfs_open_lcall, enclave_vfs_close_lcall).      *)
TableInv ==
    /\ open_file_table \in [Tab!Pairs -> Nat]
    /\ \A k \in Ptrs \ {0}, v \in Ptrs :
        open_file_table[<<k, v>>] <= (IF v = k THEN 1 ELSE 0)
    /\ num_files \in Nat
    /\ Cardinality(Handles(open_file_table)) <= num_files
    /\ fs = "freed" => open_file_table = Tab!Empty

(* The open files are those on the list and those that were lost, never both
   (enclave_vfs_open_lcall, enclave_vfs_close_lcall, deinit_enclave_fs).   *)
ListInv ==
    /\ files \subseteq Ptrs \ {0} /\ lost \subseteq Ptrs
    /\ open_file_list \in Seq(Ptrs)
    /\ fs \in {"up", "closing", "freed", "oops"}
    /\ KnownIsOpen
    /\ NoFileForgotten
    /\ Listed \cap lost = {}

(* Where a read or write stands: the descriptors before the one it works on
   are full unless an operation failed, those after it are untouched, and the
   file stays open until FREE (enclave_vfs_read_lcall,
   enclave_vfs_write_lcall).                                               *)
CallInv ==
    /\ call \in CallType
    /\ Len(call.done) = Len(call.descs)
    /\ call.pc # "idle" => /\ fs = "up" => call.file \in files
                           /\ \A d \in 1 .. Len(call.descs) : call.done[d] <= call.descs[d]
    /\ call.pc \in {"desc", "io"} =>
        /\ call.i > 0
        /\ \A d \in 1 .. Len(call.descs) : d > call.i => call.done[d] = 0
        /\ ~call.bad => \A d \in 1 .. Len(call.descs) : d < call.i => call.done[d] = call.descs[d]
    /\ call.pc = "desc" /\ call.i <= Len(call.descs) => call.done[call.i] = 0
    /\ call.pc = "io" => /\ call.i <= Len(call.descs)
                         /\ call.left + call.done[call.i] = call.descs[call.i]
    /\ NoHole

FsIInv == TableInv /\ ListInv /\ CallInv

(* Adding or removing a pair moves the count of that pair only (HashMap's With
   and Without, as enclave_fs.c uses the table).                           *)
LEMMA TabChange ==
    ASSUME NEW m \in [Tab!Pairs -> Nat], NEW p \in Ptrs
    PROVE  /\ Tab!With(m, p, p) \in [Tab!Pairs -> Nat]
           /\ Tab!With(m, p, p)[<<p, p>>] = m[<<p, p>>] + 1
           /\ \A k, v \in Ptrs : <<k, v>> # <<p, p>> =>
                Tab!With(m, p, p)[<<k, v>>] = m[<<k, v>>]
           /\ m[<<p, p>>] > 0 => Tab!Without(m, p, p) \in [Tab!Pairs -> Nat]
           /\ Tab!Without(m, p, p)[<<p, p>>] = m[<<p, p>>] - 1
           /\ \A k, v \in Ptrs : <<k, v>> # <<p, p>> =>
                Tab!Without(m, p, p)[<<k, v>>] = m[<<k, v>>]
<1>1. Tab!Pairs = Ptrs \X Ptrs
  BY FsAssumption DEF Ptrs, Tab!Pairs
<1>2. \A k, v \in Ptrs : <<k, v>> \in Tab!Pairs /\ m[<<k, v>>] \in Nat
  BY <1>1
<1>3. \A q \in Tab!Pairs : m[q] \in Nat
  OBVIOUS
<1> QED
  BY <1>2, <1>3 DEF Tab!With, Tab!Without

(* A handle is known if the table has a pair for it (htable_search).       *)
LEMMA KnownHandles ==
    /\ \A p \in Ptrs : htable_found(p) <=> p \in Handles(open_file_table)
    /\ \A p \in Ptrs : htable_found(p)' <=> p \in Handles(open_file_table')
    /\ \A m : IsFiniteSet(Handles(m)) /\ Cardinality(Handles(m)) \in Nat
<1>1. Ptrs = 0 .. (MaxPtr + 1) - 1
  BY FsAssumption DEF Ptrs
<1>2. \A p \in Ptrs : htable_found(p) <=> p \in Handles(open_file_table)
  BY <1>1 DEF Handles, htable_found, Tab!Values
<1>3. \A p \in Ptrs : htable_found(p)' <=> p \in Handles(open_file_table')
  BY <1>1 DEF Handles, htable_found, Tab!Values
<1>4. IsFiniteSet(Ptrs)
  BY FsAssumption, FS_Interval DEF Ptrs
<1>5. \A m : Handles(m) \subseteq Ptrs
  BY DEF Handles
<1> QED
  BY <1>2, <1>3, <1>4, <1>5, FS_Subset, FS_CardinalityType

(* A table without pairs knows no handle (init_enclave_fs).                *)
LEMMA EmptyTable ==
    /\ Tab!Empty \in [Tab!Pairs -> Nat]
    /\ \A k, v \in Ptrs : Tab!Empty[<<k, v>>] = 0
    /\ Handles(Tab!Empty) = {} /\ Cardinality(Handles(Tab!Empty)) = 0
<1>1. Tab!Pairs = Ptrs \X Ptrs
  BY FsAssumption DEF Ptrs, Tab!Pairs
<1>2. Tab!Empty = [p \in Tab!Pairs |-> 0]
  BY DEF Tab!Empty
<1>3. \A k, v \in Ptrs : Tab!Empty[<<k, v>>] = 0
  BY <1>1, <1>2
<1>4. Handles(Tab!Empty) = {}
  <2>1. \A p \in Handles(Tab!Empty) : \E v \in Ptrs : p \in Ptrs /\ Tab!Empty[<<p, v>>] > 0
    BY DEF Handles
  <2>2. \A p \in Handles(Tab!Empty) : \E v \in Ptrs : 0 > 0
    BY <2>1, <1>3
  <2> QED
    BY <2>2
<1> QED
  BY <1>2, <1>3, <1>4, FS_EmptySet

(* Removing an entry that occurs once takes out that entry and keeps the others
   in order (the list_del in enclave_vfs_close_lcall).                     *)
LEMMA RemoveOnce ==
    ASSUME NEW S, NEW s \in Seq(S), NEW k \in 1 .. Len(s),
           \A i \in 1 .. Len(s) : s[i] = s[k] => i = k
    PROVE  /\ RemoveFirst(s, s[k]) \in Seq(S)
           /\ Len(RemoveFirst(s, s[k])) = Len(s) - 1
           /\ \A i \in 1 .. Len(s) - 1 :
                RemoveFirst(s, s[k])[i] = IF i < k THEN s[i] ELSE s[i + 1]
<1>1. {i \in 1 .. Len(s) : s[i] = s[k]} = {k}
  OBVIOUS
<1>2. Min({k}) = k
  BY DEF Min
<1>3. SelectInSeq(s, LAMBDA v : v = s[k]) = k
  BY <1>1, <1>2 DEF SelectInSeq
<1>4. RemoveFirst(s, s[k]) = RemoveAt(s, k)
  BY <1>3 DEF RemoveFirst
<1> QED
  BY <1>4, RemoveAtIs

(* What the two invariants say of lists and tables, before and after a step. *)
LEMMA ListedEntries ==
    /\ Listed = Entries(open_file_list) \ {0}
    /\ Listed' = Entries(open_file_list') \ {0}
    /\ \A S : \A s \in Seq(S) : DOMAIN s = 1 .. Len(s)
    /\ Entries(<<>>) = {}
BY DEF Listed, Entries

(* A successful open adds at most one handle, and only that of the new file
   (htable_insert in enclave_vfs_open_lcall).                              *)
LEMMA OpenTable ==
    ASSUME TableInv, NEW p \in Ptrs, p \notin Handles(open_file_table),
           open_file_table' \in {Tab!With(open_file_table, p, p), open_file_table},
           num_files' = num_files + 1, fs = "up", fs' = "up"
    PROVE  TableInv' /\ Handles(open_file_table') \subseteq Handles(open_file_table) \cup ({p} \ {0})
<1> DEFINE m == open_file_table
           n == open_file_table'
<1>1. m \in [Tab!Pairs -> Nat] /\ \A k, v \in Ptrs : m[<<k, v>>] \in Nat
  <2>1. Tab!Pairs = Ptrs \X Ptrs
    BY FsAssumption DEF Ptrs, Tab!Pairs
  <2> QED
    BY <2>1 DEF TableInv
<1>2. n \in [Tab!Pairs -> Nat] /\ \A k, v \in Ptrs : <<k, v>> # <<p, p>> => n[<<k, v>>] = m[<<k, v>>]
  <2> HIDE DEF m
  <2>1. /\ Tab!With(m, p, p) \in [Tab!Pairs -> Nat]
        /\ \A k, v \in Ptrs : <<k, v>> # <<p, p>> => Tab!With(m, p, p)[<<k, v>>] = m[<<k, v>>]
    BY <1>1, TabChange
  <2>2. n = Tab!With(m, p, p) \/ n = m
    BY DEF m
  <2> HIDE DEF n
  <2> QED
    BY <2>1, <2>2, <1>1
<1>3. n[<<p, p>>] <= m[<<p, p>>] + 1
  BY <1>1, TabChange
<1>4. p # 0 => m[<<p, p>>] = 0
  BY <1>1 DEF Handles
<1>5. \A k \in Ptrs \ {0}, v \in Ptrs : n[<<k, v>>] <= (IF v = k THEN 1 ELSE 0)
  <2> TAKE k \in Ptrs \ {0}, v \in Ptrs
  <2>1. CASE <<k, v>> = <<p, p>>
    BY <2>1, <1>3, <1>4
  <2>2. CASE <<k, v>> # <<p, p>>
    BY <2>2, <1>2 DEF TableInv
  <2> QED
    BY <2>1, <2>2
<1>6. Handles(n) \subseteq Handles(m) \cup ({p} \ {0})
  <2> SUFFICES ASSUME NEW k \in Handles(n), k # p PROVE k \in Handles(m)
    BY DEF Handles
  <2>1. PICK v \in Ptrs : n[<<k, v>>] > 0
    BY DEF Handles
  <2>2. k \in Ptrs \ {0} /\ <<k, v>> # <<p, p>>
    BY DEF Handles
  <2>3. m[<<k, v>>] > 0
    BY <2>1, <2>2, <1>2
  <2> QED
    BY <2>2, <2>3 DEF Handles
<1>7. Cardinality(Handles(n)) <= num_files + 1
  <2>1. IsFiniteSet(Handles(m) \cup {p}) /\ Cardinality(Handles(m) \cup {p}) = Cardinality(Handles(m)) + 1
    BY KnownHandles, FS_AddElement
  <2>2. Handles(n) \subseteq Handles(m) \cup {p}
    BY <1>6
  <2>3. Cardinality(Handles(n)) <= Cardinality(Handles(m)) + 1
    BY <2>1, <2>2, FS_Subset
  <2>4. Cardinality(Handles(m)) <= num_files /\ num_files \in Nat
    BY DEF TableInv
  <2>5. Cardinality(Handles(m)) \in Nat /\ Cardinality(Handles(n)) \in Nat
    BY KnownHandles
  <2> HIDE DEF m, n
  <2> QED
    BY <2>3, <2>4, <2>5
<1>8. num_files' \in Nat
  BY DEF TableInv
<1> QED
  BY <1>2, <1>5, <1>6, <1>7, <1>8 DEF TableInv

(* A close takes the handle out of the table, all of it, and the counter has
   it (htable_remove in enclave_vfs_close_lcall).                          *)
LEMMA CloseTable ==
    ASSUME TableInv, NEW p \in Handles(open_file_table),
           open_file_table' = Tab!Without(open_file_table, p, p),
           num_files' = num_files - 1, fs = "up", fs' = "up"
    PROVE  TableInv' /\ Handles(open_file_table') = Handles(open_file_table) \ {p}
<1> DEFINE m == open_file_table
           n == open_file_table'
<1>0. p \in Ptrs \ {0}
  BY DEF Handles
<1>1. m \in [Tab!Pairs -> Nat] /\ \A k, v \in Ptrs : m[<<k, v>>] \in Nat
  <2>1. Tab!Pairs = Ptrs \X Ptrs
    BY FsAssumption DEF Ptrs, Tab!Pairs
  <2> QED
    BY <2>1 DEF TableInv
<1>2. m[<<p, p>>] = 1 /\ \A v \in Ptrs \ {p} : m[<<p, v>>] = 0
  <2>1. PICK v \in Ptrs : m[<<p, v>>] > 0
    BY DEF Handles
  <2>2. \A w \in Ptrs : m[<<p, w>>] <= (IF w = p THEN 1 ELSE 0)
    BY <1>0 DEF TableInv
  <2> HIDE DEF m
  <2>3. v = p
    BY <2>1, <2>2, <1>0, <1>1
  <2>4. m[<<p, p>>] = 1
    BY <2>1, <2>2, <2>3, <1>0, <1>1
  <2>5. \A w \in Ptrs \ {p} : m[<<p, w>>] = 0
    BY <2>2, <1>0, <1>1
  <2> QED
    BY <2>4, <2>5
<1>3. n \in [Tab!Pairs -> Nat] /\ n[<<p, p>>] = m[<<p, p>>] - 1
  BY <1>0, <1>1, <1>2, TabChange
<1>4. \A k, v \in Ptrs : <<k, v>> # <<p, p>> => n[<<k, v>>] = m[<<k, v>>]
  <2>1. n = Tab!Without(m, p, p)
    OBVIOUS
  <2> HIDE DEF m, n
  <2>2. \A k, v \in Ptrs : <<k, v>> # <<p, p>> => Tab!Without(m, p, p)[<<k, v>>] = m[<<k, v>>]
    BY <1>0, <1>1, TabChange
  <2> QED
    BY <2>1, <2>2
<1>5. \A k \in Ptrs \ {0}, v \in Ptrs : n[<<k, v>>] <= (IF v = k THEN 1 ELSE 0)
  <2> TAKE k \in Ptrs \ {0}, v \in Ptrs
  <2>1. CASE <<k, v>> = <<p, p>>
    BY <2>1, <1>2, <1>3
  <2>2. CASE <<k, v>> # <<p, p>>
    BY <2>2, <1>4 DEF TableInv
  <2> QED
    BY <2>1, <2>2
<1>6. Handles(n) = Handles(m) \ {p}
  <2>1. p \notin Handles(n)
    <3> SUFFICES ASSUME p \in Handles(n) PROVE FALSE
      OBVIOUS
    <3>1. PICK v \in Ptrs : n[<<p, v>>] > 0
      BY DEF Handles
    <3>2. n[<<p, v>>] = 0
      <4>1. CASE v = p
        BY <4>1, <1>2, <1>3
      <4>2. CASE v # p
        BY <4>2, <1>0, <1>2, <1>4
      <4> QED
        BY <4>1, <4>2
    <3> QED
      BY <3>1, <3>2
  <2>2. ASSUME NEW k, k # p PROVE k \in Handles(n) <=> k \in Handles(m)
    <3>1. ASSUME k \in Ptrs PROVE \A v \in Ptrs : n[<<k, v>>] = m[<<k, v>>]
      BY <3>1, <2>2, <1>4
    <3> HIDE DEF m, n
    <3> QED
      BY <3>1 DEF Handles
  <2> QED
    BY <2>1, <2>2
<1>7. Cardinality(Handles(n)) = Cardinality(Handles(m)) - 1
  BY <1>6, KnownHandles, FS_RemoveElement
<1>8. Cardinality(Handles(m)) <= num_files /\ num_files \in Nat
  BY DEF TableInv
<1>9. Cardinality(Handles(m)) \in Nat /\ Cardinality(Handles(n)) \in Nat
  BY KnownHandles
<1>10. num_files' \in Nat /\ Cardinality(Handles(n)) <= num_files'
  <2> HIDE DEF m, n
  <2> QED
    BY <1>7, <1>8, <1>9
<1> QED
  BY <1>3, <1>5, <1>6, <1>10 DEF TableInv

\* No file is on a list twice.
Once(s) == \A i, j \in DOMAIN s : s[i] = s[j] /\ s[i] # 0 => i = j

(* A new node at the end of the list adds its file (list_add_tail in
   enclave_vfs_open_lcall).                                                *)
LEMMA AppendEntry ==
    ASSUME NEW s \in Seq(Ptrs), NEW p \in Ptrs, Once(s), p = 0 \/ p \notin Entries(s)
    PROVE  /\ Append(s, p) \in Seq(Ptrs)
           /\ Entries(Append(s, p)) = Entries(s) \cup {p}
           /\ Once(Append(s, p))
<1> DEFINE t == Append(s, p)
<1>1. /\ t \in Seq(Ptrs) /\ Len(t) = Len(s) + 1
      /\ \A i \in 1 .. Len(s) : t[i] = s[i]
      /\ t[Len(s) + 1] = p
  BY AppendProperties
<1>2. DOMAIN s = 1 .. Len(s) /\ DOMAIN t = 1 .. Len(s) + 1 /\ Len(s) \in Nat
  BY <1>1
<1> HIDE DEF t
<1>3. \A i \in 1 .. Len(s) + 1 : i \in 1 .. Len(s) \/ i = Len(s) + 1
  BY <1>2
<1>4. Entries(t) = Entries(s) \cup {p}
  <2>1. Entries(t) \subseteq Entries(s) \cup {p}
    BY <1>1, <1>2, <1>3 DEF Entries
  <2>2. Entries(s) \subseteq Entries(t)
    <3> SUFFICES ASSUME NEW i \in 1 .. Len(s) PROVE s[i] \in Entries(t)
      BY <1>2 DEF Entries
    <3>1. i \in DOMAIN t /\ t[i] = s[i]
      BY <1>1, <1>2
    <3> QED
      BY <3>1 DEF Entries
  <2>3. p \in Entries(t)
    <3>1. Len(s) + 1 \in DOMAIN t
      BY <1>2
    <3> QED
      BY <3>1, <1>1 DEF Entries
  <2> QED
    BY <2>1, <2>2, <2>3
<1>5. Once(t)
  <2>1. p # 0 => \A i \in 1 .. Len(s) : s[i] # p
    BY <1>2 DEF Entries
  <2> QED
    BY <2>1, <1>1, <1>2, <1>3 DEF Once
<1> QED
  BY <1>1, <1>4, <1>5 DEF t

(* Taking the first node off the list takes its file, which is nowhere else
   on it (deinit_enclave_fs).                                              *)
LEMMA TailEntry ==
    ASSUME NEW s \in Seq(Ptrs), Once(s), s # <<>>, Head(s) # 0
    PROVE  /\ Tail(s) \in Seq(Ptrs)
           /\ Head(s) \in Entries(s)
           /\ Entries(Tail(s)) = Entries(s) \ {Head(s)}
           /\ Once(Tail(s))
<1> DEFINE t == Tail(s)
           h == Head(s)
<1>1. /\ t \in Seq(Ptrs) /\ Len(t) = Len(s) - 1
      /\ \A i \in 1 .. Len(t) : t[i] = s[i + 1]
  BY HeadTailProperties
<1>2. Len(s) \in Nat /\ Len(s) >= 1
  OBVIOUS
<1>3. h = s[1]
  BY HeadIsFirst
<1>4. DOMAIN s = 1 .. Len(s) /\ DOMAIN t = 1 .. Len(s) - 1
  BY <1>1
<1> HIDE DEF t, h
<1>5. h # 0 /\ h \in Entries(s)
  <2>1. 1 \in DOMAIN s
    BY <1>2, <1>4
  <2> QED
    BY <2>1, <1>3 DEF h, Entries
<1>6. \A i \in 1 .. Len(s) - 1 : i + 1 \in DOMAIN s /\ t[i] = s[i + 1] /\ i + 1 # 1
  BY <1>1, <1>2, <1>4
<1>7. \A i \in DOMAIN s : s[i] = h => i = 1
  <2>1. 1 \in DOMAIN s
    BY <1>2, <1>4
  <2> QED
    BY <2>1, <1>3, <1>5 DEF Once
<1>8. Entries(t) = Entries(s) \ {h}
  <2>1. Entries(t) \subseteq Entries(s) \ {h}
    BY <1>4, <1>6, <1>7 DEF Entries
  <2>2. ASSUME NEW i \in DOMAIN s, s[i] # h PROVE s[i] \in Entries(t)
    <3>1. i # 1
      BY <2>2, <1>3
    <3>2. i - 1 \in 1 .. Len(s) - 1 /\ (i - 1) + 1 = i
      BY <3>1, <1>2, <1>4
    <3>3. t[i - 1] = s[i] /\ i - 1 \in DOMAIN t
      BY <3>2, <1>4, <1>6
    <3> QED
      BY <3>3 DEF Entries
  <2> QED
    BY <2>1, <2>2 DEF Entries
<1>9. Once(t)
  <2> SUFFICES ASSUME NEW i \in DOMAIN t, NEW j \in DOMAIN t, t[i] = t[j], t[i] # 0
               PROVE  i = j
    BY DEF Once
  <2>1. s[i + 1] = s[j + 1] /\ s[i + 1] # 0 /\ i + 1 \in DOMAIN s /\ j + 1 \in DOMAIN s
    BY <1>4, <1>6
  <2>2. i + 1 = j + 1
    BY <2>1 DEF Once
  <2>3. i \in Int /\ j \in Int
    BY <1>2, <1>4
  <2> QED
    BY <2>2, <2>3
<1> QED
  BY <1>1, <1>5, <1>8, <1>9 DEF t, h

(* Taking a file's node off the list takes that file and no other, wherever the
   node is, and nothing if there is none (enclave_vfs_close_lcall).        *)
LEMMA RemoveEntry ==
    ASSUME NEW s \in Seq(Ptrs), NEW p \in Ptrs \ {0}, Once(s)
    PROVE  /\ RemoveFirst(s, p) \in Seq(Ptrs)
           /\ Entries(RemoveFirst(s, p)) = Entries(s) \ {p}
           /\ Once(RemoveFirst(s, p))
<1>0. DOMAIN s = 1 .. Len(s) /\ Len(s) \in Nat
  OBVIOUS
<1>1. CASE p \notin Entries(s)
  <2>1. ~ \E i \in 1 .. Len(s) : s[i] = p
    BY <1>0, <1>1 DEF Entries
  <2>2. RemoveFirst(s, p) = s
    BY <2>1 DEF RemoveFirst
  <2> QED
    BY <2>2, <1>1
<1>2. CASE p \in Entries(s)
  <2> DEFINE t == RemoveFirst(s, p)
  <2>1. PICK k \in 1 .. Len(s) : s[k] = p
    BY <1>0, <1>2 DEF Entries
  <2>2. \A i \in 1 .. Len(s) : s[i] = s[k] => i = k
    BY <2>1, <1>0 DEF Once
  <2>3. /\ t \in Seq(Ptrs) /\ Len(t) = Len(s) - 1
        /\ \A i \in 1 .. Len(s) - 1 : t[i] = IF i < k THEN s[i] ELSE s[i + 1]
    BY <2>1, <2>2, RemoveOnce
  <2>4. DOMAIN t = 1 .. Len(s) - 1
    BY <2>3
  <2> HIDE DEF t
  <2> DEFINE f(i) == IF i < k THEN i ELSE i + 1
  <2>5. \A i \in DOMAIN t : f(i) \in DOMAIN s /\ f(i) # k /\ t[i] = s[f(i)]
    BY <2>3, <2>4, <1>0
  <2>6. \A i, j \in DOMAIN t : f(i) = f(j) => i = j
    BY <2>4, <1>0
  <2>7. \A i \in DOMAIN s : i # k => \E j \in DOMAIN t : f(j) = i
    <3> SUFFICES ASSUME NEW i \in DOMAIN s, i # k PROVE \E j \in DOMAIN t : f(j) = i
      OBVIOUS
    <3>1. CASE i < k
      <4>1. i \in DOMAIN t /\ f(i) = i
        BY <3>1, <2>4, <1>0
      <4> QED
        BY <4>1
    <3>2. CASE ~(i < k)
      <4>1. i - 1 \in DOMAIN t /\ f(i - 1) = i
        BY <3>2, <2>4, <1>0
      <4> QED
        BY <4>1
    <3> QED
      BY <3>1, <3>2
  <2> HIDE DEF f
  <2>8. Entries(t) \subseteq Entries(s) \ {p}
    BY <2>1, <2>2, <2>5, <1>0 DEF Entries
  <2>9. Entries(s) \ {p} \subseteq Entries(t)
    <3> SUFFICES ASSUME NEW i \in DOMAIN s, s[i] # p PROVE s[i] \in Entries(t)
      BY DEF Entries
    <3>1. PICK j \in DOMAIN t : f(j) = i
      BY <2>1, <2>7
    <3>2. t[j] = s[i]
      BY <3>1, <2>5
    <3> QED
      BY <3>2 DEF Entries
  <2>10. Once(t)
    <3> SUFFICES ASSUME NEW i \in DOMAIN t, NEW j \in DOMAIN t, t[i] = t[j], t[i] # 0
                 PROVE  i = j
      BY DEF Once
    <3>1. f(i) = f(j)
      BY <2>5 DEF Once
    <3> QED
      BY <3>1, <2>6
  <2> QED
    BY <2>3, <2>8, <2>9, <2>10 DEF t
<1> QED
  BY <1>1, <1>2

\* ListInv with the list and the table by what they hold.
ListOf(t, s) ==
    /\ s \in Seq(Ptrs) /\ Once(s)
    /\ fs \in {"up", "freed"} => Handles(t) \subseteq files
    /\ files \subseteq Ptrs \ {0} /\ lost \subseteq Ptrs
    /\ fs \in {"up", "closing", "freed", "oops"}
    /\ files = (Entries(s) \ {0}) \cup lost
    /\ Entries(s) \cap lost \subseteq {0}

(* The two ways to state the invariant of the list say the same.           *)
LEMMA ListForm ==
    /\ ListInv <=> ListOf(open_file_table, open_file_list)
    /\ ListInv' <=> ListOf(open_file_table, open_file_list)'
<1>1. ListInv <=> ListOf(open_file_table, open_file_list)
  <2>1. (\A p \in Ptrs : htable_found(p) => p \in files)
            <=> Handles(open_file_table) \subseteq files
    <3>1. Handles(open_file_table) \subseteq Ptrs
      BY DEF Handles
    <3> QED
      BY <3>1, KnownHandles
  <2> QED
    BY <2>1, ListedEntries DEF ListInv, ListOf, KnownIsOpen, NoFileForgotten, Once
<1>2. ListInv' <=> ListOf(open_file_table, open_file_list)'
  <2>1. (\A p \in Ptrs : htable_found(p)' => p \in files')
            <=> Handles(open_file_table') \subseteq files'
    <3>1. Handles(open_file_table') \subseteq Ptrs
      BY DEF Handles
    <3> QED
      BY <3>1, KnownHandles
  <2> QED
    BY <2>1, ListedEntries DEF ListInv, ListOf, KnownIsOpen, NoFileForgotten, Once
<1> QED
  BY <1>1, <1>2

(* An open keeps the files together, whichever of its allocations fail
   (enclave_vfs_open_lcall).                                               *)
LEMMA OpenFiles ==
    ASSUME TableInv, ListInv, NEW p \in Ptrs, enclave_vfs_open_lcall(p)
    PROVE  TableInv' /\ ListInv'
<1>1. ListOf(open_file_table, open_file_list)
  BY ListForm
<1>2. fs = "up" /\ fs' = "up" /\ (p = 0 \/ p \notin files)
  BY DEF enclave_vfs_open_lcall, Idle0, file_open
<1>3. p \notin Handles(open_file_table)
  BY <1>1, <1>2 DEF ListOf, Handles
<1>4. ~htable_found(p)
  BY <1>3, KnownHandles
<1>5. /\ files' = files \cup ({p} \ {0})
      /\ num_files' = num_files + 1
      /\ open_file_table' \in {Tab!With(open_file_table, p, p), open_file_table}
      /\ \/ open_file_list' = Append(open_file_list, p) /\ lost' = lost
         \/ open_file_list' = open_file_list /\ lost' = lost \cup ({p} \ {0})
  BY <1>4 DEF enclave_vfs_open_lcall
<1>6. /\ TableInv'
      /\ Handles(open_file_table') \subseteq Handles(open_file_table) \cup ({p} \ {0})
  BY <1>2, <1>3, <1>5, OpenTable
<1>7. p = 0 \/ p \notin Entries(open_file_list)
  BY <1>1, <1>2 DEF ListOf
<1>8. CASE open_file_list' = Append(open_file_list, p) /\ lost' = lost
  <2>1. /\ Append(open_file_list, p) \in Seq(Ptrs) /\ Once(Append(open_file_list, p))
        /\ Entries(Append(open_file_list, p)) = Entries(open_file_list) \cup {p}
    BY <1>1, <1>7, AppendEntry DEF ListOf
  <2>2. /\ open_file_list' \in Seq(Ptrs) /\ Once(open_file_list')
        /\ Entries(open_file_list') = Entries(open_file_list) \cup {p}
    BY <2>1, <1>8
  <2>3. ListOf(open_file_table, open_file_list)'
    BY <2>2, <1>1, <1>2, <1>5, <1>6, <1>8 DEF ListOf
  <2> QED
    BY <2>3, <1>6, ListForm
<1>9. CASE open_file_list' = open_file_list /\ lost' = lost \cup ({p} \ {0})
  <2>1. ListOf(open_file_table, open_file_list)'
    BY <1>1, <1>2, <1>5, <1>6, <1>7, <1>9 DEF ListOf
  <2> QED
    BY <2>1, <1>6, ListForm
<1> QED
  BY <1>5, <1>8, <1>9

(* A close forgets the handle everywhere at once (enclave_vfs_close_lcall). *)
LEMMA CloseFiles ==
    ASSUME TableInv, ListInv, NEW p \in Ptrs, enclave_vfs_close_lcall(p)
    PROVE  TableInv' /\ ListInv'
<1>1. ListOf(open_file_table, open_file_list)
  BY ListForm
<1>2. fs = "up" /\ fs' = "up" /\ p \in Handles(open_file_table)
  BY KnownHandles DEF enclave_vfs_close_lcall, Idle0
<1>3. /\ files' = files \ {p} /\ lost' = lost \ {p}
      /\ num_files' = num_files - 1
      /\ open_file_table' = Tab!Without(open_file_table, p, p)
      /\ open_file_list' = RemoveFirst(open_file_list, p)
  BY DEF enclave_vfs_close_lcall
<1>4. TableInv' /\ Handles(open_file_table') = Handles(open_file_table) \ {p}
  BY <1>2, <1>3, CloseTable
<1>5. p \in Ptrs \ {0}
  BY <1>2 DEF Handles
<1>6. /\ RemoveFirst(open_file_list, p) \in Seq(Ptrs) /\ Once(RemoveFirst(open_file_list, p))
      /\ Entries(RemoveFirst(open_file_list, p)) = Entries(open_file_list) \ {p}
  BY <1>1, <1>5, RemoveEntry DEF ListOf
<1>7. /\ open_file_list' \in Seq(Ptrs) /\ Once(open_file_list')
      /\ Entries(open_file_list') = Entries(open_file_list) \ {p}
  BY <1>3, <1>6
<1>8. ListOf(open_file_table, open_file_list)'
  BY <1>1, <1>2, <1>3, <1>4, <1>7 DEF ListOf
<1> QED
  BY <1>4, <1>8, ListForm

(* FREE closes the listed files one by one, then empties the table
   (deinit_enclave_fs, init_enclave_fs).                                   *)
LEMMA DeinitFiles ==
    ASSUME TableInv, ListInv,
           DeinitBegin \/ DeinitClose \/ DeinitTable \/ init_enclave_fs
    PROVE  TableInv' /\ ListInv'
<1>1. ListOf(open_file_table, open_file_list)
  BY ListForm
<1>2. CASE DeinitBegin
  <2>1. /\ fs' = "closing"
        /\ UNCHANGED <<files, open_file_table, open_file_list, num_files, lost>>
    BY <1>2 DEF DeinitBegin
  <2>2. ListOf(open_file_table, open_file_list)'
    BY <2>1, <1>1 DEF ListOf
  <2>3. TableInv'
    BY <2>1 DEF TableInv
  <2> QED
    BY <2>2, <2>3, ListForm
<1>3. CASE DeinitClose
  <2>1. fs = "closing" /\ open_file_list # <<>>
        /\ UNCHANGED <<open_file_table, num_files, lost>>
    BY <1>3 DEF DeinitClose
  <2>2. fs' \in {"closing", "oops"}
    BY <1>3, <2>1 DEF DeinitClose
  <2>3. TableInv'
    BY <2>1, <2>2 DEF TableInv
  <2>4. CASE Head(open_file_list) = 0
    <3>1. UNCHANGED <<files, open_file_list>>
      BY <2>4, <1>3 DEF DeinitClose
    <3>2. ListOf(open_file_table, open_file_list)'
      BY <3>1, <2>1, <2>2, <1>1 DEF ListOf
    <3> QED
      BY <3>2, <2>3, ListForm
  <2>5. CASE Head(open_file_list) # 0
    <3>1. /\ files' = files \ {Head(open_file_list)}
          /\ open_file_list' = Tail(open_file_list)
      BY <2>5, <1>3 DEF DeinitClose
    <3>2. /\ Tail(open_file_list) \in Seq(Ptrs)
          /\ Head(open_file_list) \in Entries(open_file_list)
          /\ Entries(Tail(open_file_list)) = Entries(open_file_list) \ {Head(open_file_list)}
          /\ Once(Tail(open_file_list))
      BY <2>1, <2>5, <1>1, TailEntry DEF ListOf
    <3>3. /\ open_file_list' \in Seq(Ptrs) /\ Once(open_file_list')
          /\ Entries(open_file_list') = Entries(open_file_list) \ {Head(open_file_list)}
      BY <3>1, <3>2
    <3>4. Head(open_file_list) \notin lost
      BY <3>2, <2>5, <1>1 DEF ListOf
    <3> DEFINE h == Head(open_file_list)
    <3>5. h \notin lost /\ files' = files \ {h}
          /\ Entries(open_file_list') = Entries(open_file_list) \ {h}
      BY <3>1, <3>3, <3>4
    <3> HIDE DEF h
    <3>6. ListOf(open_file_table, open_file_list)'
      BY <3>3, <3>5, <2>1, <2>2, <1>1 DEF ListOf
    <3> QED
      BY <3>6, <2>3, ListForm
  <2> QED
    BY <2>4, <2>5
<1>4. CASE DeinitTable
  <2>1. /\ open_file_table' = Tab!Empty /\ fs' = "freed"
        /\ UNCHANGED <<files, open_file_list, num_files, lost>>
    BY <1>4 DEF DeinitTable
  <2>2. TableInv'
    <3>1. \A k \in Ptrs \ {0}, v \in Ptrs : Tab!Empty[<<k, v>>] <= (IF v = k THEN 1 ELSE 0)
      <4> TAKE k \in Ptrs \ {0}, v \in Ptrs
      <4>1. Tab!Empty[<<k, v>>] = 0
        BY EmptyTable
      <4> QED
        BY <4>1
    <3>2. num_files' \in Nat /\ Cardinality(Handles(Tab!Empty)) <= num_files'
      BY <2>1, EmptyTable DEF TableInv
    <3> QED
      BY <3>1, <3>2, <2>1, EmptyTable DEF TableInv
  <2>3. ListOf(open_file_table, open_file_list)'
    BY <2>1, <1>1, EmptyTable DEF ListOf
  <2> QED
    BY <2>2, <2>3, ListForm
<1>5. CASE init_enclave_fs
  <2>1. /\ fs = "freed" /\ fs' = "up" /\ num_files' = 0
        /\ UNCHANGED <<files, open_file_table, open_file_list, lost>>
    BY <1>5 DEF init_enclave_fs
  <2>2. open_file_table = Tab!Empty
    BY <2>1 DEF TableInv
  <2>3. Cardinality(Handles(open_file_table)) = 0
    BY <2>2, EmptyTable
  <2>4. TableInv'
    BY <2>1, <2>3 DEF TableInv
  <2>5. ListOf(open_file_table, open_file_list)'
    BY <2>1, <1>1 DEF ListOf
  <2> QED
    BY <2>4, <2>5, ListForm
<1> QED
  BY <1>2, <1>3, <1>4, <1>5

(* The fields of a call, set to values of their types.                     *)
LEMMA CallSet ==
    ASSUME NEW c \in CallType
    PROVE  /\ \A pc \in FsPcs : [c EXCEPT !.pc = pc] \in CallType
           /\ \A pc \in FsPcs, got \in Int : [c EXCEPT !.pc = pc, !.ret = got] \in CallType
           /\ \A pc \in FsPcs, i \in Nat : [c EXCEPT !.pc = pc, !.i = i] \in CallType
           /\ \A pc \in FsPcs, left \in Nat, got \in Int :
                [c EXCEPT !.pc = pc, !.left = left, !.ret = got] \in CallType
           /\ \A pc \in FsPcs, i \in Nat, got \in Int :
                [c EXCEPT !.pc = pc, !.i = i, !.ret = got, !.bad = TRUE] \in CallType
           /\ \A left \in Nat, got \in Int, total \in Nat, done \in Seq(Nat) :
                [c EXCEPT !.left = left, !.ret = got, !.total = total, !.done = done] \in CallType
<1>1. ASSUME NEW pc \in FsPcs, NEW got \in Int
      PROVE  [c EXCEPT !.pc = pc] \in CallType /\ [c EXCEPT !.pc = pc, !.ret = got] \in CallType
  BY DEF CallType
<1>2. ASSUME NEW pc \in FsPcs, NEW i \in Nat
      PROVE  [c EXCEPT !.pc = pc, !.i = i] \in CallType
  BY DEF CallType
<1>3. ASSUME NEW pc \in FsPcs, NEW left \in Nat, NEW got \in Int
      PROVE  [c EXCEPT !.pc = pc, !.left = left, !.ret = got] \in CallType
  BY DEF CallType
<1>4. ASSUME NEW pc \in FsPcs, NEW i \in Nat, NEW got \in Int
      PROVE  [c EXCEPT !.pc = pc, !.i = i, !.ret = got, !.bad = TRUE] \in CallType
  BY DEF CallType
<1>5. ASSUME NEW left \in Nat, NEW got \in Int, NEW total \in Nat, NEW done \in Seq(Nat)
      PROVE  [c EXCEPT !.left = left, !.ret = got, !.total = total, !.done = done] \in CallType
  BY DEF CallType
<1>6. 0 \in Int
  OBVIOUS
<1> QED
  BY <1>1, <1>2, <1>3, <1>4, <1>5, <1>6

(* A sequence of numbers with one of them raised.                          *)
LEMMA RaiseOne ==
    ASSUME NEW s \in Seq(Nat), NEW k \in 1 .. Len(s), NEW r \in Nat,
           NEW t, t = [s EXCEPT ![k] = @ + r]
    PROVE  /\ t \in Seq(Nat) /\ Len(t) = Len(s)
           /\ t[k] = s[k] + r
           /\ \A d \in 1 .. Len(s) : d # k => t[d] = s[d]
<1>1. s[k] + r \in Nat
  OBVIOUS
<1> DEFINE x == s[k] + r
<1> HIDE DEF x
<1>2. x \in Nat
  BY <1>1 DEF x
<1>3. /\ [s EXCEPT ![k] = x] \in Seq(Nat) /\ Len([s EXCEPT ![k] = x]) = Len(s)
      /\ \A d \in 1 .. Len(s) : [s EXCEPT ![k] = x][d] = IF d = k THEN x ELSE s[d]
  BY <1>2, ExceptSeq
<1> QED
  BY <1>3 DEF x

(* While no call is served, the operations on the table and the list leave the
   call alone (the long-call thread serves one call at a time).            *)
LEMMA IdleCall ==
    ASSUME CallInv, call.pc = "idle", call' = call
    PROVE  CallInv'
<1>1. call'.pc = "idle"
  OBVIOUS
<1> QED
  BY <1>1 DEF CallInv, NoHole

(* Opens and closes come when no call is served; FREE may come any time, and
   says nothing more of the call's file.                                   *)
LEMMA FilesCall ==
    ASSUME CallInv,
           \/ \E p \in Ptrs : enclave_vfs_open_lcall(p) \/ enclave_vfs_close_lcall(p)
           \/ DeinitBegin \/ DeinitClose \/ DeinitTable \/ init_enclave_fs
    PROVE  CallInv'
<1>1. call' = call
  BY DEF enclave_vfs_open_lcall, enclave_vfs_close_lcall, DeinitBegin, DeinitClose,
         DeinitTable, init_enclave_fs
<1>2. call.pc = "idle" \/ fs' # "up"
  BY DEF Idle0, enclave_vfs_open_lcall, enclave_vfs_close_lcall, DeinitBegin,
         DeinitClose, DeinitTable, init_enclave_fs
<1>3. CASE fs' # "up"
  BY <1>1, <1>3 DEF CallInv, NoHole
<1> QED
  BY <1>1, <1>2, <1>3, IdleCall

(* A call begins at its first descriptor, with nothing moved, on a file that
   is open (enclave_vfs_read_lcall, enclave_vfs_write_lcall).              *)
LEMMA BeginCall ==
    ASSUME ListInv, CallInv, NEW p \in Ptrs, NEW descs \in DescLists, NEW length \in IoLengths,
           IoBegin(p, descs, length)
    PROVE  CallInv'
<1>1. fs = "up" /\ fs' = "up" /\ files' = files /\ htable_found(p)
  BY DEF IoBegin, Idle0
<1>2. p \in files
  BY <1>1 DEF ListInv, KnownIsOpen
<1>3. descs \in Seq(Nat) /\ length \in Nat
  BY FsAssumption
<1> DEFINE done == [d \in DOMAIN descs |-> 0]
<1>4. done \in Seq(Nat) /\ Len(done) = Len(descs) /\ \A d \in 1 .. Len(descs) : done[d] = 0
  BY <1>3
<1>5. call' = [pc |-> "desc", file |-> p, length |-> length, descs |-> descs, i |-> 1,
               left |-> 0, ret |-> 0, total |-> 0, done |-> done, bad |-> FALSE]
  BY DEF IoBegin, NoIo
<1> HIDE DEF done
<1>6. \A d \in 1 .. Len(descs) : descs[d] \in Nat
  BY <1>3
<1>7. call' \in CallType
  BY <1>3, <1>4, <1>5 DEF CallType, FsPcs
<1>8. /\ call'.pc = "desc" /\ call'.file = p /\ call'.i = 1 /\ call'.descs = descs
      /\ call'.done = done
  BY <1>5
<1>9. DOMAIN descs = 1 .. Len(descs) /\ Len(descs) \in Nat
  BY <1>3
<1>10. NoHole'
  BY <1>4, <1>8, <1>9 DEF NoHole
<1>11. \A d \in 1 .. Len(descs) : done[d] <= descs[d]
  BY <1>4, <1>6
<1>12. \A d \in 1 .. Len(descs) : ~(d < 1)
  OBVIOUS
<1>13. 1 <= Len(descs) => done[1] = 0
  BY <1>4, <1>9
<1> QED
  BY <1>1, <1>2, <1>4, <1>7, <1>8, <1>10, <1>11, <1>12, <1>13 DEF CallInv

(* The next descriptor, or the answer when there is none or the length that was
   asked for has been moved (the outer loop).                              *)
LEMMA DescCall ==
    ASSUME CallInv, IoDesc
    PROVE  CallInv'
<1>1. fs' = fs /\ files' = files /\ call.pc = "desc" /\ call \in CallType
  BY DEF IoDesc, CallInv
<1>2. /\ call.descs \in Seq(Nat) /\ call.done \in Seq(Nat) /\ call.i \in Nat
      /\ DOMAIN call.descs = 1 .. Len(call.descs) /\ Len(call.descs) \in Nat
  BY <1>1 DEF CallType
<1>3. CASE call' = [call EXCEPT !.pc = "answer"]
  <2>1. call' \in CallType
    BY <1>1, <1>3 DEF CallType, FsPcs
  <2>2. /\ call'.pc = "answer" /\ call'.file = call.file /\ call'.descs = call.descs
        /\ call'.done = call.done /\ call'.bad = call.bad
    BY <1>1, <1>3 DEF CallType
  <2>3. NoHole'
    BY <2>2, <1>1 DEF CallInv, NoHole
  <2> QED
    BY <2>1, <2>2, <2>3, <1>1 DEF CallInv
<1>4. CASE call' # [call EXCEPT !.pc = "answer"]
  <2>1. /\ call.i <= Len(call.descs)
        /\ call' = [call EXCEPT !.pc = "io", !.left = call.descs[call.i], !.ret = 0]
    BY <1>2, <1>4 DEF IoDesc
  <2>2. call.i \in 1 .. Len(call.descs) /\ call.descs[call.i] \in Nat /\ call.done[call.i] = 0
    BY <2>1, <1>1, <1>2 DEF CallInv
  <2>3. call' \in CallType
    <3>1. [call EXCEPT !.pc = "io", !.left = call.descs[call.i], !.ret = 0] \in CallType
      <4>1. "io" \in FsPcs /\ 0 \in Int
        BY DEF FsPcs
      <4> QED
        BY <4>1, <2>2, <1>1, CallSet
    <3> QED
      BY <3>1, <2>1
  <2>4. /\ call'.pc = "io" /\ call'.file = call.file /\ call'.descs = call.descs
        /\ call'.done = call.done /\ call'.bad = call.bad /\ call'.i = call.i
        /\ call'.left = call.descs[call.i]
    BY <2>1, <1>1 DEF CallType
  <2>5. NoHole'
    BY <2>4, <1>1 DEF CallInv, NoHole
  <2>6. call'.left + call'.done[call'.i] = call'.descs[call'.i]
    BY <2>2, <2>4
  <2> QED
    BY <2>1, <2>3, <2>4, <2>5, <2>6, <1>1 DEF CallInv
<1> QED
  BY <1>3, <1>4

(* One file operation: what it moves goes to the descriptor that is worked on
   and fits there; nothing moved ends the call, an error leaves a hole that is
   noted (the inner loop, file_read, file_write).                          *)
LEMMA RoundCall ==
    ASSUME CallInv, NEW got \in -1 .. call.left, file_io(got)
    PROVE  CallInv'
<1>1. fs' = fs /\ files' = files /\ call.pc = "io" /\ call.left > 0 /\ call \in CallType
  BY DEF file_io, CallInv
<1>2. /\ call.descs \in Seq(Nat) /\ call.done \in Seq(Nat) /\ call.i \in Nat
      /\ DOMAIN call.descs = 1 .. Len(call.descs) /\ Len(call.descs) \in Nat
      /\ call.left \in Nat /\ call.total \in Nat /\ got \in Int
  BY <1>1 DEF CallType
<1>3. /\ call.i \in 1 .. Len(call.descs) /\ Len(call.done) = Len(call.descs)
      /\ call.descs[call.i] \in Nat /\ call.done[call.i] \in Nat
      /\ call.left + call.done[call.i] = call.descs[call.i]
  <2>1. /\ call.i > 0 /\ call.i <= Len(call.descs) /\ Len(call.done) = Len(call.descs)
        /\ call.left + call.done[call.i] = call.descs[call.i]
    BY <1>1 DEF CallInv
  <2>2. call.i \in 1 .. Len(call.descs) /\ call.i \in 1 .. Len(call.done)
    BY <2>1, <1>2
  <2>3. call.descs[call.i] \in Nat /\ call.done[call.i] \in Nat
    BY <2>2, <1>2, ElementOfSeq
  <2> QED
    BY <2>1, <2>2, <2>3
<1>4. CASE got > 0
  <2> DEFINE done == [call.done EXCEPT ![call.i] = @ + got]
             left == call.left - got
             total == call.total + got
  <2>1. call' = [call EXCEPT !.left = left, !.ret = got, !.total = total, !.done = done]
    BY <1>1, <1>4 DEF file_io, CallType
  <2>2. left \in Nat /\ total \in Nat
    BY <1>2, <1>4
  <2>3. /\ done \in Seq(Nat) /\ Len(done) = Len(call.descs)
        /\ done[call.i] = call.done[call.i] + got
        /\ \A d \in 1 .. Len(call.descs) : d # call.i => done[d] = call.done[d]
    <3>1. call.i \in 1 .. Len(call.done) /\ got \in Nat
      BY <1>2, <1>3, <1>4
    <3>2. done = [call.done EXCEPT ![call.i] = @ + got]
      OBVIOUS
    <3> HIDE DEF done
    <3> DEFINE s == call.done
               k == call.i
    <3>3. s \in Seq(Nat) /\ k \in 1 .. Len(s) /\ done = [s EXCEPT ![k] = @ + got]
      BY <3>1, <3>2, <1>2
    <3> HIDE DEF s, k
    <3>4. /\ done \in Seq(Nat) /\ Len(done) = Len(s) /\ done[k] = s[k] + got
          /\ \A d \in 1 .. Len(s) : d # k => done[d] = s[d]
      BY <3>1, <3>3, RaiseOne
    <3> QED
      BY <3>4, <1>3 DEF s, k
  <2>4. left + done[call.i] = call.descs[call.i] /\ done[call.i] <= call.descs[call.i]
    <3>1. done[call.i] = call.done[call.i] + got
      BY <2>3
    <3>2. left = call.left - got /\ left \in Nat
      BY <2>2
    <3> DEFINE a == call.done[call.i]
               b == call.descs[call.i]
               e == done[call.i]
    <3>3. a \in Nat /\ b \in Nat /\ call.left + a = b /\ e = a + got
      BY <3>1, <1>3
    <3>4. call.left \in Nat /\ got \in Int
      BY <1>2
    <3> HIDE DEF a, b, e, left, done
    <3>5. left + e = b /\ e <= b
      BY ONLY <3>2, <3>3, <3>4
    <3> QED
      BY <3>5 DEF a, b, e
  <2> HIDE DEF done, left, total
  <2>5. call' \in CallType
    <3>1. [call EXCEPT !.left = left, !.ret = got, !.total = total, !.done = done] \in CallType
      BY <2>2, <2>3, <1>1, <1>2, CallSet
    <3> QED
      BY <3>1, <2>1
  <2>6. /\ call'.pc = "io" /\ call'.file = call.file /\ call'.descs = call.descs
        /\ call'.done = done /\ call'.bad = call.bad /\ call'.i = call.i
        /\ call'.left = left
    BY <2>1, <1>1 DEF CallType
  <2>7. \A d \in 1 .. Len(call.descs) : done[d] <= call.descs[d]
    BY <2>3, <2>4, <1>1 DEF CallInv
  <2>8. \A d \in 1 .. Len(call.descs) : d > call.i => done[d] = 0
    <3>1. \A d \in 1 .. Len(call.descs) : d > call.i => call.done[d] = 0
      BY <1>1 DEF CallInv
    <3>2. \A d \in 1 .. Len(call.descs) : d > call.i => d # call.i
      BY ONLY <1>2
    <3> QED
      BY <3>1, <3>2, <2>3
  <2>9. ~call.bad => \A d \in 1 .. Len(call.descs) : d < call.i => done[d] = call.descs[d]
    BY <2>3, <1>1, <1>2 DEF CallInv
  <2>10. NoHole'
    <3> SUFFICES ASSUME ~call.bad, NEW c \in 1 .. Len(call.descs), NEW d \in 1 .. Len(call.descs),
                        c < d, done[d] > 0
                 PROVE  done[c] = call.descs[c]
      BY <2>6, <1>2 DEF NoHole
    <3>1. d <= call.i
      <4>1. d > call.i => done[d] = 0
        BY <2>8
      <4>2. d \in Nat /\ call.i \in Nat
        BY <1>2
      <4> QED
        BY <4>1, <4>2
    <3>2. c < call.i
      BY <3>1, <1>2
    <3> QED
      BY <3>2, <2>9
  <2> QED
    BY <2>3, <2>4, <2>5, <2>6, <2>7, <2>8, <2>9, <2>10, <1>1, <1>3 DEF CallInv
<1>5. CASE got = 0
  <2>1. call' = [call EXCEPT !.pc = "answer", !.ret = 0]
    BY <1>5 DEF file_io
  <2>2. call' \in CallType
    <3>1. "answer" \in FsPcs /\ 0 \in Int
      BY DEF FsPcs
    <3> QED
      BY <3>1, <2>1, <1>1, CallSet
  <2>3. /\ call'.pc = "answer" /\ call'.file = call.file /\ call'.descs = call.descs
        /\ call'.done = call.done /\ call'.bad = call.bad
    BY <2>1, <1>1 DEF CallType
  <2>4. NoHole'
    BY <2>3, <1>1 DEF CallInv, NoHole
  <2> QED
    BY <2>2, <2>3, <2>4, <1>1 DEF CallInv
<1>6. CASE got < 0
  <2>1. call' = [call EXCEPT !.pc = "desc", !.i = call.i + 1, !.ret = got, !.bad = TRUE]
    BY <1>6 DEF file_io
  <2>2. call' \in CallType
    <3>1. "desc" \in FsPcs /\ call.i + 1 \in Nat
      BY <1>2 DEF FsPcs
    <3> QED
      BY <3>1, <2>1, <1>1, <1>2, CallSet
  <2>3. /\ call'.pc = "desc" /\ call'.file = call.file /\ call'.descs = call.descs
        /\ call'.done = call.done /\ call'.bad = TRUE /\ call'.i = call.i + 1
    BY <2>1, <1>1 DEF CallType
  <2>4. NoHole'
    BY <2>3 DEF NoHole
  <2>5. \A d \in 1 .. Len(call.descs) : d >= call.i + 1 => call.done[d] = 0
    <3>1. \A d \in 1 .. Len(call.descs) : d > call.i => call.done[d] = 0
      BY <1>1 DEF CallInv
    <3>2. \A d \in 1 .. Len(call.descs) : d >= call.i + 1 => d > call.i
      BY ONLY <1>2
    <3> QED
      BY <3>1, <3>2
  <2>6. call.i + 1 > 0 /\ \A d \in 1 .. Len(call.descs) : d > call.i + 1 => d >= call.i + 1
    BY <1>2
  <2>7. call.i + 1 <= Len(call.descs) => call.done[call.i + 1] = 0
    BY <2>5, <1>2
  <2> QED
    BY <2>2, <2>3, <2>4, <2>5, <2>6, <2>7, <1>1 DEF CallInv
<1> QED
  BY <1>2, <1>4, <1>5, <1>6

(* A descriptor that is full is left for the next one (the inner loop's end). *)
LEMMA FullCall ==
    ASSUME CallInv, IoFull
    PROVE  CallInv'
<1>1. fs' = fs /\ files' = files /\ call.pc = "io" /\ call.left = 0 /\ call \in CallType
  BY DEF IoFull, CallInv
<1>2. /\ call.descs \in Seq(Nat) /\ call.done \in Seq(Nat) /\ call.i \in Nat
      /\ DOMAIN call.descs = 1 .. Len(call.descs) /\ Len(call.descs) \in Nat
  BY <1>1 DEF CallType
<1>3. /\ call.i \in 1 .. Len(call.descs) /\ Len(call.done) = Len(call.descs)
      /\ call.done[call.i] = call.descs[call.i]
  <2>1. /\ call.i \in 1 .. Len(call.descs) /\ Len(call.done) = Len(call.descs)
        /\ 0 + call.done[call.i] = call.descs[call.i]
    BY <1>1, <1>2 DEF CallInv
  <2> QED
    BY <2>1, <1>2
<1>4. CASE call' = [call EXCEPT !.pc = "answer"]
  <2>2. call' \in CallType
    BY <1>4, <1>1 DEF CallType, FsPcs
  <2>3. /\ call'.pc = "answer" /\ call'.file = call.file /\ call'.descs = call.descs
        /\ call'.done = call.done /\ call'.bad = call.bad
    BY <1>4, <1>1 DEF CallType
  <2>4. NoHole'
    BY <2>3, <1>1 DEF CallInv, NoHole
  <2> QED
    BY <2>2, <2>3, <2>4, <1>1 DEF CallInv
<1>5. CASE call' = [call EXCEPT !.pc = "desc", !.i = call.i + 1]
  <2>2. call' \in CallType
    <3>1. "desc" \in FsPcs /\ call.i + 1 \in Nat
      BY <1>2 DEF FsPcs
    <3> QED
      BY <3>1, <1>1, <1>5, CallSet
  <2>3. /\ call'.pc = "desc" /\ call'.file = call.file /\ call'.descs = call.descs
        /\ call'.done = call.done /\ call'.bad = call.bad /\ call'.i = call.i + 1
    BY <1>5, <1>1 DEF CallType
  <2>4. NoHole'
    BY <2>3, <1>1 DEF CallInv, NoHole
  <2>5. \A d \in 1 .. Len(call.descs) : d >= call.i + 1 => call.done[d] = 0
    <3>1. \A d \in 1 .. Len(call.descs) : d > call.i => call.done[d] = 0
      BY <1>1 DEF CallInv
    <3>2. \A d \in 1 .. Len(call.descs) : d >= call.i + 1 => d > call.i
      BY ONLY <1>2
    <3> QED
      BY <3>1, <3>2
  <2>6. call.i + 1 > 0 /\ \A d \in 1 .. Len(call.descs) : d > call.i + 1 => d >= call.i + 1
    BY <1>2
  <2>7. call.i + 1 <= Len(call.descs) => call.done[call.i + 1] = 0
    BY <2>5, <1>2
  <2>8. ~call.bad => \A d \in 1 .. Len(call.descs) : d < call.i + 1 => call.done[d] = call.descs[d]
    <3> SUFFICES ASSUME ~call.bad, NEW d \in 1 .. Len(call.descs), d < call.i + 1
                 PROVE  call.done[d] = call.descs[d]
      OBVIOUS
    <3>1. d < call.i \/ d = call.i
      BY <1>2
    <3> QED
      BY <3>1, <1>1, <1>3 DEF CallInv
  <2> QED
    BY <2>2, <2>3, <2>4, <2>5, <2>6, <2>7, <2>8, <1>1 DEF CallInv
<1> QED
  BY <1>4, <1>5 DEF IoFull

(* The answer ends the call.                                               *)
LEMMA NoCall == NoIo \in CallType /\ NoIo.pc = "idle" /\ Len(NoIo.done) = Len(NoIo.descs)
<1>1. 0 \in Ptrs /\ <<>> \in Seq(Nat)
  BY FsAssumption DEF Ptrs
<1> QED
  BY <1>1 DEF NoIo, CallType, FsPcs

(* Every step of the file service keeps its invariant.                     *)
LEMMA FsStep ==
    ASSUME FsIInv, [FsNext]_fsvars
    PROVE  FsIInv'
<1>0. TableInv /\ ListInv /\ CallInv
  BY DEF FsIInv
<1>1. ASSUME UNCHANGED <<files, open_file_table, open_file_list, num_files, fs, lost>>
      PROVE  TableInv' /\ ListInv'
  <2>1. TableInv'
    BY <1>0, <1>1 DEF TableInv
  <2>2. ListOf(open_file_table, open_file_list)'
    BY <1>0, <1>1, ListForm DEF ListOf
  <2> QED
    BY <2>1, <2>2, ListForm
<1>2. ASSUME NEW p \in Ptrs, enclave_vfs_open_lcall(p) \/ enclave_vfs_close_lcall(p)
      PROVE  FsIInv'
  BY <1>0, <1>2, OpenFiles, CloseFiles, FilesCall DEF FsIInv
<1>3. CASE DeinitBegin \/ DeinitClose \/ DeinitTable \/ init_enclave_fs
  BY <1>0, <1>3, DeinitFiles, FilesCall DEF FsIInv
<1>4. ASSUME NEW p \in Ptrs, NEW descs \in DescLists, NEW length \in IoLengths,
             IoBegin(p, descs, length)
      PROVE  FsIInv'
  <2>1. CallInv'
    BY <1>0, <1>4, BeginCall
  <2> QED
    BY <2>1, <1>1, <1>4 DEF IoBegin, FsIInv
<1>5. CASE IoDesc
  BY <1>0, <1>1, <1>5, DescCall DEF IoDesc, FsIInv
<1>6. CASE IoFull
  BY <1>0, <1>1, <1>6, FullCall DEF IoFull, FsIInv
<1>7. CASE IoAnswer
  <2>1. call' = NoIo
    BY <1>7 DEF IoAnswer
  <2>2. CallInv'
    BY <2>1, NoCall DEF CallInv, NoHole
  <2> QED
    BY <2>2, <1>1, <1>7 DEF IoAnswer, FsIInv
<1>8. ASSUME NEW got \in -1 .. call.left, file_io(got) PROVE FsIInv'
  <2>1. CallInv'
    BY <1>0, <1>8, RoundCall
  <2> QED
    BY <2>1, <1>1, <1>8 DEF file_io, FsIInv
<1>9. CASE UNCHANGED fsvars
  <2>1. UNCHANGED <<files, open_file_table, open_file_list, num_files, fs, lost, call>>
    BY <1>9 DEF fsvars
  <2>2. CallInv'
    BY <2>1, <1>0 DEF CallInv, NoHole
  <2> QED
    BY <2>1, <2>2, <1>1 DEF FsIInv
<1> QED
  BY <1>2, <1>3, <1>4, <1>5, <1>6, <1>7, <1>8, <1>9 DEF FsNext

(* The file service's invariant holds of every sequence of calls, FREEs and
   new enclaves (enclave_fs.c, file_io.c).                                 *)
THEOREM FsAlways == FsSpec => []FsIInv
<1>1. FsInit => FsIInv
  <2> SUFFICES ASSUME FsInit PROVE FsIInv
    OBVIOUS
  <2>1. TableInv
    <3>1. \A k \in Ptrs \ {0}, v \in Ptrs : open_file_table[<<k, v>>] <= (IF v = k THEN 1 ELSE 0)
      <4> TAKE k \in Ptrs \ {0}, v \in Ptrs
      <4>1. open_file_table[<<k, v>>] = 0
        BY EmptyTable DEF FsInit
      <4> QED
        BY <4>1
    <3> QED
      BY <3>1, EmptyTable DEF FsInit, TableInv
  <2>2. ListOf(open_file_table, open_file_list)
    <3>1. Once(<<>>) /\ Entries(<<>>) = {} /\ <<>> \in Seq(Ptrs)
      BY DEF Once, Entries
    <3> QED
      BY <3>1, EmptyTable DEF FsInit, ListOf
  <2>3. CallInv
    BY NoCall DEF FsInit, CallInv, NoHole
  <2> QED
    BY <2>1, <2>2, <2>3, ListForm DEF FsIInv
<1>2. FsIInv /\ [FsNext]_fsvars => FsIInv'
  BY FsStep
<1> QED
  BY <1>1, <1>2, PTL DEF FsSpec

(* Known handles are open files, and every open file is on the list that FREE
   walks or was lost when its node had no memory (enclave_vfs_open_lcall,
   enclave_vfs_close_lcall, deinit_enclave_fs).                            *)
THEOREM FilesCorrect == FsSpec => []FilesInv
<1>1. FsIInv => FilesInv
  <2> SUFFICES ASSUME FsIInv PROVE FilesInv
    OBVIOUS
  <2>1. call.pc \in FsPcs
    BY DEF FsIInv, CallInv, CallType
  <2> QED
    BY <2>1 DEF FsIInv, TableInv, ListInv, FilesInv, FsTypeOK, FsPcs
<1> QED
  BY <1>1, FsAlways, PTL

\* The equation of the fold.
IsSum(it, s, n) == it = [u \in SUBSET (1 .. n) |->
                          IF u = {} THEN 0 ELSE it[u \ {Max(u)}] + s[Max(u)]]

(* Total is the fold that its equation describes.                          *)
LEMMA TotalIs ==
    ASSUME NEW s \in Seq(Nat)
    PROVE  Total(s) = (CHOOSE it : IsSum(it, s, Len(s)))[1 .. Len(s)]
<1>1. DOMAIN s = 1 .. Len(s)
  OBVIOUS
<1> QED
  BY <1>1 DEF Total, FoldLeft, MapThenFoldSet, IsSum

(* The sum over a prefix exists, whatever the prefix.                      *)
LEMMA SumExists ==
    ASSUME NEW s \in Seq(Nat)
    PROVE  \A n \in 0 .. Len(s) : \E it : IsSum(it, s, n)
<1> DEFINE S == {n \in 0 .. Len(s) : \E it : IsSum(it, s, n)}
<1>0. Len(s) \in Nat
  OBVIOUS
<1>1. 0 \in S
  <2> DEFINE it == [u \in SUBSET (1 .. 0) |-> 0]
  <2>1. \A u \in SUBSET (1 .. 0) : u = {}
    OBVIOUS
  <2>2. IsSum(it, s, 0)
    BY <2>1 DEF IsSum
  <2> QED
    BY <2>2, <1>0
<1>2. ASSUME NEW n \in 0 .. Len(s) - 1, n \in S PROVE n + 1 \in S
  <2>1. PICK g : IsSum(g, s, n)
    BY <1>2
  <2> DEFINE h == [u \in SUBSET (1 .. n + 1) |->
                    IF n + 1 \in u THEN g[u \ {n + 1}] + s[n + 1] ELSE g[u]]
  <2>2. ASSUME NEW u \in SUBSET (1 .. n + 1)
        PROVE  h[u] = IF u = {} THEN 0 ELSE h[u \ {Max(u)}] + s[Max(u)]
    <3>1. CASE n + 1 \in u
      <4>1. Max(u) = n + 1
        <5>1. u \subseteq Nat /\ \A y \in u : y <= n + 1
          OBVIOUS
        <5> QED
          BY <5>1, <3>1, MaxIs
      <4>2. u \ {n + 1} \in SUBSET (1 .. n + 1) /\ n + 1 \notin u \ {n + 1}
        OBVIOUS
      <4>3. h[u \ {n + 1}] = g[u \ {n + 1}]
        BY <4>2
      <4>4. h[u] = g[u \ {n + 1}] + s[n + 1]
        BY <3>1
      <4> HIDE DEF h
      <4> QED
        BY <3>1, <4>1, <4>3, <4>4
    <3>2. CASE n + 1 \notin u
      <4>1. u \in SUBSET (1 .. n)
        BY <3>2
      <4>2. h[u] = g[u]
        BY <3>2
      <4>3. g[u] = IF u = {} THEN 0 ELSE g[u \ {Max(u)}] + s[Max(u)]
        BY <4>1, <2>1 DEF IsSum
      <4>4. u \ {Max(u)} \in SUBSET (1 .. n + 1) /\ n + 1 \notin u \ {Max(u)}
        BY <3>2
      <4>5. h[u \ {Max(u)}] = g[u \ {Max(u)}]
        BY <4>4
      <4> HIDE DEF h
      <4> QED
        BY <4>2, <4>3, <4>5
    <3> QED
      BY <3>1, <3>2
  <2>3. h = [u \in SUBSET (1 .. n + 1) |-> h[u]]
    OBVIOUS
  <2> HIDE DEF h
  <2>4. IsSum(h, s, n + 1)
    BY <2>2, <2>3 DEF IsSum
  <2> QED
    BY <2>4
<1> HIDE DEF S
<1>3. 0 .. Len(s) \subseteq S
  BY <1>0, <1>1, <1>2, UpTo
<1> QED
  BY <1>3 DEF S

(* What the fold computes, prefix by prefix.                               *)
LEMMA TotalSteps ==
    ASSUME NEW s \in Seq(Nat)
    PROVE  \E it : /\ Total(s) = it[1 .. Len(s)]
                   /\ it[1 .. 0] = 0
                   /\ \A n \in 1 .. Len(s) : it[1 .. n] = it[1 .. n - 1] + s[n]
<1> DEFINE it == CHOOSE i : IsSum(i, s, Len(s))
<1>1. Len(s) \in 0 .. Len(s)
  OBVIOUS
<1>2. IsSum(it, s, Len(s))
  BY <1>1, SumExists
<1>3. Total(s) = it[1 .. Len(s)]
  BY TotalIs
<1> HIDE DEF it
<1>4. \A u \in SUBSET (1 .. Len(s)) :
        it[u] = IF u = {} THEN 0 ELSE it[u \ {Max(u)}] + s[Max(u)]
  BY <1>2 DEF IsSum
<1>5. it[1 .. 0] = 0
  <2>1. 1 .. 0 = {} /\ {} \in SUBSET (1 .. Len(s))
    OBVIOUS
  <2> QED
    BY <2>1, <1>4
<1>6. ASSUME NEW n \in 1 .. Len(s) PROVE it[1 .. n] = it[1 .. n - 1] + s[n]
  <2>1. /\ 1 .. n \in SUBSET (1 .. Len(s)) /\ 1 .. n # {}
        /\ Max(1 .. n) = n /\ (1 .. n) \ {Max(1 .. n)} = 1 .. n - 1
    <3>1. Len(s) \in Nat
      OBVIOUS
    <3> QED
      BY ONLY <3>1, n \in 1 .. Len(s), RangeMax
  <2>2. it[1 .. n] = it[(1 .. n) \ {Max(1 .. n)}] + s[Max(1 .. n)]
    BY <2>1, <1>4
  <2> QED
    BY <2>1, <2>2
<1> QED
  BY <1>3, <1>5, <1>6

\* The sum of the first n elements.
Upto(s, n) == Total(SubSeq(s, 1, n))

(* A prefix, as a sequence.                                                *)
LEMMA PrefixIs ==
    ASSUME NEW S, NEW s \in Seq(S), NEW n \in 0 .. Len(s)
    PROVE  /\ SubSeq(s, 1, n) \in Seq(S) /\ Len(SubSeq(s, 1, n)) = n
           /\ \A d \in 1 .. n : SubSeq(s, 1, n)[d] = s[d]
<1>1. 1 \in 1 .. Len(s) + 1 /\ n \in 1 - 1 .. Len(s)
  OBVIOUS
<1>2. /\ SubSeq(s, 1, n) \in Seq(S)
      /\ Len(SubSeq(s, 1, n)) = IF 1 <= n THEN n - 1 + 1 ELSE 0
      /\ \A d \in 1 .. n - 1 + 1 : SubSeq(s, 1, n)[d] = s[1 + d - 1]
  BY <1>1, SubSeqProperties
<1>3. n \in Nat /\ \A d \in 1 .. n : d \in 1 .. n - 1 + 1 /\ 1 + d - 1 = d
  OBVIOUS
<1> QED
  BY <1>2, <1>3

(* The sums of the prefixes follow the recursion of the fold.              *)
LEMMA UptoStep ==
    ASSUME NEW s \in Seq(Nat)
    PROVE  /\ Upto(s, 0) = 0
           /\ \A n \in 1 .. Len(s) : Upto(s, n) = Upto(s, n - 1) + s[n]
           /\ Upto(s, Len(s)) = Total(s)
           /\ \A n \in 0 .. Len(s) : Upto(s, n) \in Nat
<1>0. Len(s) \in Nat
  OBVIOUS
<1>1. PICK it : /\ Total(s) = it[1 .. Len(s)]
                /\ it[1 .. 0] = 0
                /\ \A n \in 1 .. Len(s) : it[1 .. n] = it[1 .. n - 1] + s[n]
  BY TotalSteps
<1>2. ASSUME NEW n \in 0 .. Len(s) PROVE Upto(s, n) = it[1 .. n]
  <2> DEFINE p == SubSeq(s, 1, n)
  <2>1. p \in Seq(Nat) /\ Len(p) = n /\ \A d \in 1 .. n : p[d] = s[d]
    BY PrefixIs
  <2> HIDE DEF p
  <2>2. PICK jt : /\ Total(p) = jt[1 .. n]
                  /\ jt[1 .. 0] = 0
                  /\ \A d \in 1 .. n : jt[1 .. d] = jt[1 .. d - 1] + p[d]
    BY <2>1, TotalSteps
  <2> DEFINE S == {d \in 0 .. n : jt[1 .. d] = it[1 .. d]}
  <2>3. 0 \in S
    BY <2>2, <1>1
  <2>4. ASSUME NEW d \in 0 .. n - 1, d \in S PROVE d + 1 \in S
    <3>1. d + 1 \in 1 .. n /\ d + 1 \in 1 .. Len(s) /\ d + 1 - 1 = d /\ d + 1 \in 0 .. n
      BY <1>0
    <3>2. jt[1 .. d + 1] = jt[1 .. d] + p[d + 1]
      BY <3>1, <2>2
    <3>3. it[1 .. d + 1] = it[1 .. d] + s[d + 1]
      BY <3>1, <1>1
    <3> QED
      BY <3>1, <3>2, <3>3, <2>1, <2>4
  <2> HIDE DEF S
  <2>5. n \in Nat
    BY <1>0
  <2>6. 0 .. n \subseteq S
    BY <2>3, <2>4, <2>5, UpTo
  <2>7. n \in S
    BY <2>5, <2>6
  <2> QED
    BY <2>2, <2>7 DEF S, p, Upto
<1>3. Upto(s, 0) = 0
  BY <1>0, <1>1, <1>2
<1>4. ASSUME NEW n \in 1 .. Len(s) PROVE Upto(s, n) = Upto(s, n - 1) + s[n]
  <2>1. n \in 0 .. Len(s) /\ n - 1 \in 0 .. Len(s)
    BY <1>0
  <2> QED
    BY <2>1, <1>1, <1>2
<1>5. Upto(s, Len(s)) = Total(s)
  <2>1. Len(s) \in 0 .. Len(s)
    BY <1>0
  <2> QED
    BY <2>1, <1>1, <1>2
<1>6. \A n \in 0 .. Len(s) : Upto(s, n) \in Nat
  <2> DEFINE S == {n \in 0 .. Len(s) : Upto(s, n) \in Nat}
  <2>1. 0 \in S
    BY <1>0, <1>3
  <2>2. ASSUME NEW n \in 0 .. Len(s) - 1, n \in S PROVE n + 1 \in S
    <3>1. n + 1 \in 1 .. Len(s) /\ n + 1 - 1 = n /\ n + 1 \in 0 .. Len(s)
      BY <1>0
    <3>2. Upto(s, n + 1) = Upto(s, n) + s[n + 1]
      BY <3>1, <1>4
    <3>3. s[n + 1] \in Nat
      BY <3>1
    <3> QED
      BY <3>1, <3>2, <3>3, <2>2
  <2> HIDE DEF S
  <2>3. 0 .. Len(s) \subseteq S
    BY <1>0, <2>1, <2>2, UpTo
  <2> QED
    BY <2>3 DEF S
<1> QED
  BY <1>3, <1>4, <1>5, <1>6

(* The same, one element further.                                          *)
LEMMA UptoNext ==
    ASSUME NEW s \in Seq(Nat), NEW n \in 0 .. Len(s) - 1
    PROVE  Upto(s, n + 1) = Upto(s, n) + s[n + 1] /\ Upto(s, n) \in Nat
<1>1. n + 1 \in 1 .. Len(s) /\ n + 1 - 1 = n /\ n \in 0 .. Len(s)
  OBVIOUS
<1>2. Upto(s, n + 1) = Upto(s, n + 1 - 1) + s[n + 1] /\ Upto(s, n) \in Nat
  BY <1>1, UptoStep
<1> QED
  BY <1>1, <1>2

(* An element that is raised raises the sum by as much.                    *)
LEMMA UptoRaised ==
    ASSUME NEW s \in Seq(Nat), NEW t \in Seq(Nat), Len(t) = Len(s), NEW k \in 1 .. Len(s),
           NEW r \in Nat, t[k] = s[k] + r, \A d \in 1 .. Len(s) : d # k => t[d] = s[d]
    PROVE  /\ \A n \in 0 .. Len(s) : Upto(t, n) = IF n < k THEN Upto(s, n) ELSE Upto(s, n) + r
           /\ Total(t) = Total(s) + r
<1> DEFINE S == {n \in 0 .. Len(s) : Upto(t, n) = IF n < k THEN Upto(s, n) ELSE Upto(s, n) + r}
<1>0. Len(s) \in Nat /\ k \in Nat
  OBVIOUS
<1>1. 0 \in S
  BY <1>0, UptoStep
<1>2. ASSUME NEW n \in 0 .. Len(s) - 1, n \in S PROVE n + 1 \in S
  <2>1. n + 1 \in 1 .. Len(s) /\ n + 1 - 1 = n /\ n + 1 \in 0 .. Len(s) /\ n \in 0 .. Len(s)
    BY <1>0
  <2>2. Upto(s, n + 1) = Upto(s, n) + s[n + 1] /\ Upto(s, n) \in Nat
    BY <2>1, UptoNext
  <2>3. Upto(t, n + 1) = Upto(t, n) + t[n + 1] /\ Upto(t, n) \in Nat
    BY <2>1, UptoNext
  <2>4. s[n + 1] \in Nat /\ t[n + 1] \in Nat
    BY <2>1, ElementOfSeq
  <2>5. t[n + 1] = IF n + 1 = k THEN s[n + 1] + r ELSE s[n + 1]
    BY <2>1
  <2>6. Upto(t, n) = IF n < k THEN Upto(s, n) ELSE Upto(s, n) + r
    BY <1>2
  <2> DEFINE a == Upto(s, n)
             b == Upto(t, n)
             c == Upto(s, n + 1)
             e == Upto(t, n + 1)
             x == s[n + 1]
             y == t[n + 1]
  <2> HIDE DEF a, b, c, e, x, y
  <2>7. /\ a \in Nat /\ b \in Nat /\ x \in Nat /\ y \in Nat /\ c = a + x /\ e = b + y
        /\ y = IF n + 1 = k THEN x + r ELSE x
        /\ b = IF n < k THEN a ELSE a + r
    BY <2>2, <2>3, <2>4, <2>5, <2>6 DEF a, b, c, e, x, y
  <2>8. e = IF n + 1 < k THEN c ELSE c + r
    BY <2>7, <1>0, n \in Nat
  <2> QED
    BY <2>1, <2>8 DEF c, e
<1> HIDE DEF S
<1>3. 0 .. Len(s) \subseteq S
  BY <1>0, <1>1, <1>2, UpTo
<1>4. Len(s) \in 0 .. Len(s) /\ ~(Len(s) < k)
  BY <1>0
<1>5. Upto(s, Len(s)) = Total(s) /\ Upto(t, Len(s)) = Total(t)
  BY UptoStep
<1> QED
  BY <1>3, <1>4, <1>5 DEF S

(* Zeros at the end add nothing.                                           *)
LEMMA UptoZeros ==
    ASSUME NEW s \in Seq(Nat), NEW k \in 0 .. Len(s), \A d \in 1 .. Len(s) : d > k => s[d] = 0
    PROVE  \A n \in 0 .. Len(s) : n >= k => Upto(s, n) = Upto(s, k)
<1> DEFINE S == {n \in 0 .. Len(s) : n >= k => Upto(s, n) = Upto(s, k)}
<1>0. Len(s) \in Nat /\ k \in Nat
  OBVIOUS
<1>1. 0 \in S
  BY <1>0
<1>2. ASSUME NEW n \in 0 .. Len(s) - 1, n \in S PROVE n + 1 \in S
  <2>1. n + 1 \in 1 .. Len(s) /\ n + 1 - 1 = n /\ n + 1 \in 0 .. Len(s) /\ n \in 0 .. Len(s)
    BY <1>0
  <2>2. Upto(s, n + 1) = Upto(s, n) + s[n + 1] /\ Upto(s, n) \in Nat
    BY <2>1, UptoNext
  <2>3. n + 1 > k => s[n + 1] = 0
    BY <2>1
  <2>4. n + 1 >= k => n + 1 = k \/ (n + 1 > k /\ n >= k)
    BY <1>0
  <2>5. n >= k => Upto(s, n) = Upto(s, k)
    BY <1>2
  <2>6. n + 1 >= k => Upto(s, n + 1) = Upto(s, k)
    BY <2>2, <2>3, <2>4, <2>5
  <2> QED
    BY <2>1, <2>6
<1> HIDE DEF S
<1>3. 0 .. Len(s) \subseteq S
  BY <1>0, <1>1, <1>2, UpTo
<1> QED
  BY <1>3 DEF S

(* The bytes counted so far are those the descriptors got, and a descriptor is
   begun only while bytes are missing (enclave_vfs_read_lcall,
   enclave_vfs_write_lcall).                                               *)
SumInv ==
    call.pc # "idle" =>
        /\ call.total = Total(call.done)
        /\ \A d \in 1 .. Len(call.descs) :
            call.done[d] > 0 => Upto(call.done, d - 1) < call.length
        /\ call.pc = "io" => Upto(call.done, call.i - 1) < call.length

(* A call that begins has moved nothing (IoBegin).                         *)
LEMMA BeginSum ==
    ASSUME NEW p \in Ptrs, NEW descs \in DescLists, NEW length \in IoLengths,
           IoBegin(p, descs, length)
    PROVE  SumInv'
<1>1. descs \in Seq(Nat) /\ length \in Nat
  BY FsAssumption
<1> DEFINE done == [d \in DOMAIN descs |-> 0]
<1>2. done \in Seq(Nat) /\ Len(done) = Len(descs) /\ \A d \in 1 .. Len(descs) : done[d] = 0
  BY <1>1
<1>3. /\ call'.pc = "desc" /\ call'.descs = descs /\ call'.done = done /\ call'.total = 0
  BY DEF IoBegin, NoIo
<1> HIDE DEF done
<1>4. Total(done) = 0
  <2>1. 0 \in 0 .. Len(done) /\ Len(done) \in 0 .. Len(done) /\ Len(done) >= 0
    BY <1>2
  <2>2. Upto(done, Len(done)) = Upto(done, 0)
    BY <2>1, <1>2, UptoZeros
  <2> QED
    BY <2>2, <1>2, UptoStep
<1>5. \A d \in 1 .. Len(descs) : ~(done[d] > 0)
  BY <1>2
<1> QED
  BY <1>3, <1>4, <1>5 DEF SumInv

(* A descriptor is begun while bytes are missing, and all that were moved went
   to those before it (IoDesc).                                            *)
LEMMA DescSum ==
    ASSUME CallInv, SumInv, IoDesc
    PROVE  SumInv'
<1>1. /\ call.pc = "desc" /\ call \in CallType
  BY DEF IoDesc, CallInv
<1>2. /\ call.descs \in Seq(Nat) /\ call.done \in Seq(Nat) /\ call.i \in Nat
      /\ Len(call.descs) \in Nat /\ Len(call.done) = Len(call.descs)
      /\ call.total \in Nat /\ call.length \in Nat
  BY <1>1 DEF CallType, CallInv
<1>3. CASE call' = [call EXCEPT !.pc = "answer"]
  <2>1. /\ call'.pc = "answer" /\ call'.descs = call.descs /\ call'.done = call.done
        /\ call'.total = call.total /\ call'.length = call.length
    BY <1>1, <1>3 DEF CallType
  <2> QED
    BY <2>1, <1>1 DEF SumInv
<1>4. CASE call' # [call EXCEPT !.pc = "answer"]
  <2>1. /\ call.i <= Len(call.descs) /\ call.total < call.length
        /\ call' = [call EXCEPT !.pc = "io", !.left = call.descs[call.i], !.ret = 0]
    BY <1>2, <1>4 DEF IoDesc
  <2>2. /\ call'.pc = "io" /\ call'.descs = call.descs /\ call'.done = call.done
        /\ call'.total = call.total /\ call'.length = call.length /\ call'.i = call.i
    BY <2>1, <1>1 DEF CallType
  <2>3. /\ call.i > 0 /\ call.done[call.i] = 0
        /\ \A d \in 1 .. Len(call.descs) : d > call.i => call.done[d] = 0
    BY <2>1, <1>1 DEF CallInv
  <2> DEFINE k == call.i - 1
             s == call.done
  <2>4. k \in 0 .. Len(s) /\ \A d \in 1 .. Len(s) : d > k => d = call.i \/ d > call.i
    <3> DEFINE i == call.i
    <3>1. i \in Nat /\ i > 0 /\ i <= Len(s) /\ Len(s) \in Nat
      BY <2>1, <2>3, <1>2
    <3> HIDE DEF i, s
    <3>2. i - 1 \in 0 .. Len(s) /\ \A d \in 1 .. Len(s) : d > i - 1 => d = i \/ d > i
      BY <3>1
    <3> QED
      BY <3>2 DEF i
  <2>5. \A d \in 1 .. Len(s) : d > k => s[d] = 0
    BY <2>3, <2>4, <1>2
  <2>6. Len(s) \in 0 .. Len(s) /\ Len(s) >= k /\ s \in Seq(Nat)
    BY <2>4, <1>2
  <2> HIDE DEF k, s
  <2>7. Upto(s, Len(s)) = Upto(s, k)
    BY <2>4, <2>5, <2>6, UptoZeros
  <2>8. Upto(s, k) = Total(s)
    BY <2>6, <2>7, UptoStep
  <2>9. Upto(call.done, call.i - 1) < call.length
    BY <2>1, <2>8, <1>1 DEF SumInv, k, s
  <2> QED
    BY <2>2, <2>9, <1>1 DEF SumInv
<1> QED
  BY <1>3, <1>4

(* What a file operation moves is counted once, for the descriptor it went to
   (file_read, file_write and the inner loop).                             *)
LEMMA RoundSum ==
    ASSUME CallInv, SumInv, NEW got \in -1 .. call.left, file_io(got)
    PROVE  SumInv'
<1>1. call.pc = "io" /\ call.left > 0 /\ call \in CallType
  BY DEF file_io, CallInv
<1>2. /\ call.descs \in Seq(Nat) /\ call.done \in Seq(Nat) /\ call.i \in Nat
      /\ Len(call.descs) \in Nat /\ Len(call.done) = Len(call.descs)
      /\ call.total \in Nat /\ call.length \in Nat /\ call.left \in Nat /\ got \in Int
  BY <1>1 DEF CallType, CallInv
<1>3. CASE got > 0
  <2> DEFINE t == [call.done EXCEPT ![call.i] = @ + got]
             s == call.done
             k == call.i
  <2>1. /\ call'.pc = "io" /\ call'.descs = call.descs /\ call'.done = t
        /\ call'.total = call.total + got /\ call'.length = call.length /\ call'.i = k
    BY <1>1, <1>3 DEF file_io, CallType
  <2>2. s \in Seq(Nat) /\ k \in 1 .. Len(s) /\ got \in Nat /\ k \in Nat /\ Len(s) \in Nat
    BY <1>1, <1>2, <1>3 DEF CallInv
  <2>3. t = [s EXCEPT ![k] = @ + got]
    OBVIOUS
  <2>4. \A d \in 1 .. Len(s) : d > k => s[d] = 0
    BY <1>1, <1>2 DEF CallInv
  <2>5. /\ call.total = Total(s) /\ Upto(s, k - 1) < call.length
        /\ \A d \in 1 .. Len(s) : s[d] > 0 => Upto(s, d - 1) < call.length
    BY <1>1, <1>2 DEF SumInv
  <2> HIDE DEF t, s, k
  <2>6. /\ t \in Seq(Nat) /\ Len(t) = Len(s) /\ t[k] = s[k] + got
        /\ \A d \in 1 .. Len(s) : d # k => t[d] = s[d]
    BY <2>2, <2>3, RaiseOne
  <2>7. /\ \A n \in 0 .. Len(s) : Upto(t, n) = IF n < k THEN Upto(s, n) ELSE Upto(s, n) + got
        /\ Total(t) = Total(s) + got
    BY <2>2, <2>6, UptoRaised
  <2>8. \A d \in 1 .. Len(s) : d <= k => Upto(t, d - 1) = Upto(s, d - 1)
    <3> SUFFICES ASSUME NEW d \in 1 .. Len(s), d <= k
                 PROVE  Upto(t, d - 1) = Upto(s, d - 1)
      OBVIOUS
    <3>1. d - 1 \in 0 .. Len(s) /\ d - 1 < k
      BY <2>2
    <3> QED
      BY <3>1, <2>7
  <2>9. ASSUME NEW d \in 1 .. Len(s), t[d] > 0 PROVE Upto(t, d - 1) < call.length
    <3>1. CASE d = k
      BY <3>1, <2>2, <2>5, <2>8
    <3>2. CASE d # k
      <4>1. s[d] > 0
        BY <3>2, <2>6, <2>9
      <4>2. ~(d > k)
        BY <4>1, <2>4
      <4>3. d <= k
        BY <4>2, <2>2
      <4> QED
        BY <4>1, <4>3, <2>5, <2>8
    <3> QED
      BY <3>1, <3>2
  <2>10. Upto(t, k - 1) < call.length
    <3>1. k <= k
      BY <2>2
    <3> QED
      BY <3>1, <2>2, <2>5, <2>8
  <2>11. Len(call.descs) = Len(s)
    BY <1>2 DEF s
  <2> QED
    BY <2>1, <2>5, <2>7, <2>9, <2>10, <2>11 DEF SumInv
<1>4. CASE ~(got > 0)
  <2>1. \/ call' = [call EXCEPT !.pc = "answer", !.ret = 0]
        \/ call' = [call EXCEPT !.pc = "desc", !.i = call.i + 1, !.ret = got, !.bad = TRUE]
    BY <1>2, <1>4 DEF file_io
  <2>2. /\ call'.pc # "io" /\ call'.descs = call.descs /\ call'.done = call.done
        /\ call'.total = call.total /\ call'.length = call.length
    BY <2>1, <1>1 DEF CallType
  <2> QED
    BY <2>2, <1>1 DEF SumInv
<1> QED
  BY <1>3, <1>4

(* Every step of the file service keeps the counts right.                  *)
LEMMA SumStep ==
    ASSUME FsIInv, SumInv, [FsNext]_fsvars
    PROVE  SumInv'
<1>0. CallInv
  BY DEF FsIInv
<1>1. ASSUME call' = call PROVE SumInv'
  BY <1>1 DEF SumInv
<1>2. ASSUME NEW p \in Ptrs, enclave_vfs_open_lcall(p) \/ enclave_vfs_close_lcall(p)
      PROVE  SumInv'
  BY <1>1, <1>2 DEF enclave_vfs_open_lcall, enclave_vfs_close_lcall
<1>3. CASE DeinitBegin \/ DeinitClose \/ DeinitTable \/ init_enclave_fs \/ UNCHANGED fsvars
  BY <1>1, <1>3 DEF DeinitBegin, DeinitClose, DeinitTable, init_enclave_fs, fsvars
<1>4. ASSUME NEW p \in Ptrs, NEW descs \in DescLists, NEW length \in IoLengths,
             IoBegin(p, descs, length)
      PROVE  SumInv'
  BY <1>4, BeginSum
<1>5. CASE IoDesc
  BY <1>0, <1>5, DescSum
<1>6. CASE IoFull
  <2>1. call.pc = "io" /\ call \in CallType
    BY <1>0, <1>6 DEF IoFull, CallInv
  <2>2. /\ call'.pc # "io" /\ call'.descs = call.descs /\ call'.done = call.done
        /\ call'.total = call.total /\ call'.length = call.length
    BY <2>1, <1>6 DEF IoFull, CallType
  <2> QED
    BY <2>1, <2>2 DEF SumInv
<1>7. CASE IoAnswer
  BY <1>7 DEF IoAnswer, NoIo, SumInv
<1>8. ASSUME NEW got \in -1 .. call.left, file_io(got) PROVE SumInv'
  BY <1>0, <1>8, RoundSum
<1> QED
  BY <1>2, <1>3, <1>4, <1>5, <1>6, <1>7, <1>8 DEF FsNext

(* The status of a read or write is the number of bytes that were moved, no
   descriptor gets more than its size, none is begun once the length has been
   moved, and unless an operation failed the data has no hole, for lists of any
   length (enclave_vfs_read_lcall, enclave_vfs_write_lcall).               *)
THEOREM TransferCorrect == FsSpec => []TransferInv
<1>1. FsInit => SumInv
  BY DEF FsInit, NoIo, SumInv
<1>2. FsIInv /\ SumInv /\ [FsNext]_fsvars => SumInv'
  BY SumStep
<1>3. FsIInv /\ SumInv => TransferInv
  <2> SUFFICES ASSUME FsIInv, SumInv PROVE TransferInv
    OBVIOUS
  <2>1. CallInv /\ call.descs \in Seq(Nat)
    BY DEF FsIInv, CallInv, CallType
  <2>2. DOMAIN call.descs = 1 .. Len(call.descs)
    BY <2>1
  <2>3. NoHole
    BY <2>1 DEF CallInv
  <2>4. TransferExact
    BY <2>1, <2>2 DEF CallInv, SumInv, TransferExact, Upto
  <2> QED
    BY <2>3, <2>4 DEF TransferInv
<1> QED
  BY <1>1, <1>2, <1>3, FsAlways, PTL DEF FsSpec

-----------------------------------------------------------------------------
(* The early ring buffer (EarlyRingbuf).                                   *)

Cells == Bytes \cup {NoByte}

(* The invariant of the ring: the write index is cur_len bytes after the read
   index, once around at most; either may stand at the end of the buffer
   instead of its start (pisces_early_ringbuf_write, _read).               *)
RingInv ==
    /\ e_read_idx \in 0 .. EarlySize /\ e_write_idx \in 0 .. EarlySize
    /\ e_cur_len \in 0 .. EarlySize
    /\ e_buf \in [0 .. EarlySize - 1 -> Cells]
    /\ \/ e_read_idx + e_cur_len = e_write_idx
       \/ e_read_idx + e_cur_len = e_write_idx + EarlySize

\* The position of the i-th byte after index r.
Slot(r, i) == IF r + i - 1 < EarlySize THEN r + i - 1 ELSE r + i - 1 - EarlySize

(* An index wraps at the size of the buffer.                               *)
LEMMA SlotIsMod ==
    ASSUME NEW r \in 0 .. EarlySize, NEW i \in 1 .. EarlySize
    PROVE  /\ (r + i - 1) % EarlySize = Slot(r, i)
           /\ Slot(r, i) \in 0 .. EarlySize - 1
<1> DEFINE x == r + i - 1
<1>1. EarlySize \in Nat \ {0}
  BY EarlyAssumption
<1>2. x \in Nat /\ x < 2 * EarlySize
  BY <1>1
<1>3. Slot(r, i) = IF x < EarlySize THEN x ELSE x - EarlySize
  BY <1>1 DEF Slot
<1> HIDE DEF x
<1>4. CASE x < EarlySize
  <2>1. x % EarlySize = x
    BY <1>1, <1>2, <1>4
  <2> QED
    BY <2>1, <1>1, <1>2, <1>3, <1>4 DEF x
<1>5. CASE ~(x < EarlySize)
  <2>0. x >= EarlySize
    BY <1>1, <1>2, <1>5
  <2>1. x % EarlySize = x - EarlySize
    BY <1>1, <1>2, <2>0
  <2> QED
    BY <2>0, <2>1, <1>1, <1>2, <1>3, <1>5 DEF x
<1> QED
  BY <1>4, <1>5

RingBytes(r, n, b) == [i \in 1 .. n |-> b[(r + i - 1) % EarlySize]]

(* What the ring holds, byte by byte, before and after a step.             *)
LEMMA StoredBytes ==
    /\ RingInv => /\ Stored \in Seq(Cells) /\ Len(Stored) = e_cur_len
                  /\ \A i \in 1 .. e_cur_len : Stored[i] = e_buf[Slot(e_read_idx, i)]
    /\ RingInv' => /\ Stored' \in Seq(Cells) /\ Len(Stored') = e_cur_len'
                   /\ \A i \in 1 .. e_cur_len' : Stored'[i] = e_buf'[Slot(e_read_idx', i)]
<1>0. EarlySize \in Nat \ {0}
  BY EarlyAssumption
<1>1. ASSUME NEW r \in 0 .. EarlySize, NEW n \in 0 .. EarlySize,
             NEW b \in [0 .. EarlySize - 1 -> Cells]
      PROVE  /\ RingBytes(r, n, b) \in Seq(Cells) /\ Len(RingBytes(r, n, b)) = n
             /\ \A i \in 1 .. n : RingBytes(r, n, b)[i] = b[Slot(r, i)]
  <2> DEFINE s == RingBytes(r, n, b)
  <2>1. \A i \in 1 .. n : /\ (r + i - 1) % EarlySize = Slot(r, i)
                          /\ b[Slot(r, i)] \in Cells
    <3> TAKE i \in 1 .. n
    <3>1. i \in 1 .. EarlySize
      BY <1>0
    <3>2. (r + i - 1) % EarlySize = Slot(r, i) /\ Slot(r, i) \in 0 .. EarlySize - 1
      BY <3>1, SlotIsMod
    <3> QED
      BY <3>2
  <2>2. \A i \in 1 .. n : s[i] = b[Slot(r, i)]
    BY <2>1 DEF RingBytes
  <2>3. s \in [1 .. n -> Cells]
    BY <2>1 DEF RingBytes
  <2> HIDE DEF s
  <2>4. s \in Seq(Cells) /\ Len(s) = n
    BY <2>3, <1>0
  <2> QED
    BY <2>2, <2>4 DEF s
<1>2. RingInv => /\ Stored \in Seq(Cells) /\ Len(Stored) = e_cur_len
                 /\ \A i \in 1 .. e_cur_len : Stored[i] = e_buf[Slot(e_read_idx, i)]
  <2> SUFFICES ASSUME RingInv
               PROVE  /\ Stored \in Seq(Cells) /\ Len(Stored) = e_cur_len
                      /\ \A i \in 1 .. e_cur_len : Stored[i] = e_buf[Slot(e_read_idx, i)]
    OBVIOUS
  <2>1. /\ e_read_idx \in 0 .. EarlySize /\ e_cur_len \in 0 .. EarlySize
        /\ e_buf \in [0 .. EarlySize - 1 -> Cells]
    BY DEF RingInv
  <2>2. Stored = RingBytes(e_read_idx, e_cur_len, e_buf)
    BY DEF Stored, RingBytes
  <2> QED
    BY <2>1, <2>2, <1>1
<1>3. RingInv' => /\ Stored' \in Seq(Cells) /\ Len(Stored') = e_cur_len'
                  /\ \A i \in 1 .. e_cur_len' : Stored'[i] = e_buf'[Slot(e_read_idx', i)]
  <2> SUFFICES ASSUME RingInv'
               PROVE  /\ Stored' \in Seq(Cells) /\ Len(Stored') = e_cur_len'
                      /\ \A i \in 1 .. e_cur_len' : Stored'[i] = e_buf'[Slot(e_read_idx', i)]
    OBVIOUS
  <2>1. /\ e_read_idx' \in 0 .. EarlySize /\ e_cur_len' \in 0 .. EarlySize
        /\ e_buf' \in [0 .. EarlySize - 1 -> Cells]
    BY DEF RingInv
  <2>2. Stored' = RingBytes(e_read_idx', e_cur_len', e_buf')
    BY DEF Stored, RingBytes
  <2> QED
    BY <2>1, <2>2, <1>1
<1> QED
  BY <1>2, <1>3

(* A copy into the buffer changes the cells it covers and no other (memcpy). *)
LEMMA CopyInCells ==
    ASSUME NEW b \in [0 .. EarlySize - 1 -> Cells], NEW at \in Nat, NEW data \in Seq(Cells)
    PROVE  /\ CopyIn(b, at, data) \in [0 .. EarlySize - 1 -> Cells]
           /\ \A q \in 0 .. EarlySize - 1 :
                CopyIn(b, at, data)[q] = IF at <= q /\ q < at + Len(data)
                                         THEN data[q - at + 1] ELSE b[q]
<1>0. EarlySize \in Nat \ {0} /\ Len(data) \in Nat
  BY EarlyAssumption
<1>1. \A q \in 0 .. EarlySize - 1 : q \in at .. at + Len(data) - 1 <=> at <= q /\ q < at + Len(data)
  BY <1>0
<1>2. \A q \in 0 .. EarlySize - 1 : at <= q /\ q < at + Len(data) => data[q - at + 1] \in Cells
  <2> SUFFICES ASSUME NEW q \in 0 .. EarlySize - 1, at <= q, q < at + Len(data)
               PROVE  data[q - at + 1] \in Cells
    OBVIOUS
  <2>1. q - at + 1 \in 1 .. Len(data)
    BY <1>0
  <2> QED
    BY <2>1, ElementOfSeq
<1> QED
  BY <1>1, <1>2 DEF CopyIn

(* A write that fits stores its bytes after those that are there and disturbs
   none, wherever the ring wraps (pisces_early_ringbuf_write).             *)
LEMMA WriteStep ==
    ASSUME RingInv, NEW n \in Nat, NEW data \in [1 .. n -> Bytes],
           pisces_early_ringbuf_write(data)
    PROVE  RingInv' /\ Stored' = Stored \o data /\ Len(data) = n
<1> DEFINE r == e_read_idx
           w == e_write_idx
           c == e_cur_len
           s == EarlySize - e_write_idx
<1>0. EarlySize \in Nat \ {0}
  BY EarlyAssumption
<1>1. /\ r \in 0 .. EarlySize /\ w \in 0 .. EarlySize /\ c \in 0 .. EarlySize
      /\ r + c = w \/ r + c = w + EarlySize
      /\ e_buf \in [0 .. EarlySize - 1 -> Cells]
  BY DEF RingInv
<1>2. data \in Seq(Cells) /\ Len(data) = n
  BY DEF Cells
<1>3. /\ n <= EarlySize - c
      /\ e_cur_len' = c + n /\ e_read_idx' = r
  BY <1>2 DEF pisces_early_ringbuf_write
<1>4. is_write_loop(n) <=> w >= r /\ c < EarlySize /\ s < n
  BY DEF is_write_loop
<1>5. is_write_loop(n) =>
        /\ e_buf' = CopyIn(CopyIn(e_buf, w, SubSeq(data, 1, s)), 0, SubSeq(data, s + 1, n))
        /\ e_write_idx' = n - s
  BY <1>2 DEF pisces_early_ringbuf_write
<1>6. ~is_write_loop(n) => e_buf' = CopyIn(e_buf, w, data) /\ e_write_idx' = w + n
  BY <1>2 DEF pisces_early_ringbuf_write
<1>7. s = EarlySize - w
  OBVIOUS
<1>8. \A i \in 1 .. c + n : r + i - 1 < 2 * EarlySize /\ i \in 1 .. EarlySize
  BY <1>0, <1>1, <1>3
<1> HIDE DEF r, w, c, s
<1>9. ASSUME ~is_write_loop(n)
      PROVE  RingInv' /\ \A i \in 1 .. c + n : e_buf'[Slot(r, i)] =
                  IF i <= c THEN e_buf[Slot(r, i)] ELSE data[i - c]
  <2>1. /\ e_buf' \in [0 .. EarlySize - 1 -> Cells]
        /\ \A q \in 0 .. EarlySize - 1 :
            e_buf'[q] = IF w <= q /\ q < w + n THEN data[q - w + 1] ELSE e_buf[q]
    <3>1. w \in Nat
      BY <1>0, <1>1
    <3>2. /\ CopyIn(e_buf, w, data) \in [0 .. EarlySize - 1 -> Cells]
          /\ \A q \in 0 .. EarlySize - 1 :
                CopyIn(e_buf, w, data)[q] = IF w <= q /\ q < w + Len(data)
                                            THEN data[q - w + 1] ELSE e_buf[q]
      BY <3>1, <1>1, <1>2, CopyInCells
    <3> QED
      BY <3>2, <1>2, <1>6, <1>9
  <2>2. w + n \in 0 .. EarlySize
    BY <1>0, <1>1, <1>3, <1>4, <1>7, <1>9
  <2>3. RingInv'
    <3>1. e_write_idx' = w + n
      BY <1>6, <1>9
    <3> QED
      BY <3>1, <2>1, <2>2, <1>0, <1>1, <1>3 DEF RingInv, r
  <2>4. ASSUME NEW i \in 1 .. c + n
        PROVE  e_buf'[Slot(r, i)] = IF i <= c THEN e_buf[Slot(r, i)] ELSE data[i - c]
    <3>1. Slot(r, i) \in 0 .. EarlySize - 1
      BY <1>1, <1>8, SlotIsMod
    <3>2. CASE i <= c
      <4>1. ~(w <= Slot(r, i) /\ Slot(r, i) < w + n)
        BY <3>1, <3>2, <2>2, <1>0, <1>1, <1>3 DEF Slot
      <4> QED
        BY <4>1, <3>1, <3>2, <2>1
    <3>3. CASE ~(i <= c)
      <4>1. Slot(r, i) = w + (i - c) - 1
        BY <3>1, <3>3, <2>2, <1>0, <1>1, <1>3 DEF Slot
      <4>2. w <= Slot(r, i) /\ Slot(r, i) < w + n /\ Slot(r, i) - w + 1 = i - c
        BY <4>1, <3>3, <1>0, <1>1, <1>3
      <4>3. e_buf'[Slot(r, i)] = data[Slot(r, i) - w + 1]
        BY <4>2, <3>1, <2>1
      <4> QED
        BY <4>2, <4>3, <3>3
    <3> QED
      BY <3>2, <3>3
  <2> QED
    BY <2>3, <2>4
<1>10. ASSUME is_write_loop(n)
       PROVE  RingInv' /\ \A i \in 1 .. c + n : e_buf'[Slot(r, i)] =
                   IF i <= c THEN e_buf[Slot(r, i)] ELSE data[i - c]
  <2>0. s < n /\ r + c = w /\ s \in Nat /\ n - s \in Nat /\ n - s <= r /\ r <= w
    BY <1>0, <1>1, <1>3, <1>4, <1>7, <1>10
  <2> DEFINE d1 == SubSeq(data, 1, s)
             d2 == SubSeq(data, s + 1, n)
             b1 == CopyIn(e_buf, w, d1)
  <2>1. /\ d1 \in Seq(Cells) /\ Len(d1) = s
        /\ \A k \in 1 .. s : d1[k] = data[k]
    <3>1. \A k \in 1 .. s : data[k] \in Cells
      BY <2>0, <1>2 DEF Cells
    <3>2. 1 \in Int /\ s \in Int
      BY <2>0
    <3>3. /\ d1 \in Seq(Cells) /\ Len(d1) = (IF 1 <= s THEN s - 1 + 1 ELSE 0)
          /\ \A k \in 1 .. s - 1 + 1 : d1[k] = data[1 + k - 1]
      BY <3>1, <3>2, SubSeqProperties
    <3> HIDE DEF d1
    <3> QED
      BY <3>3, <2>0
  <2>2. /\ d2 \in Seq(Cells) /\ Len(d2) = n - s
        /\ \A k \in 1 .. n - s : d2[k] = data[s + k]
    <3>1. \A k \in s + 1 .. n : data[k] \in Cells
      BY <2>0, <1>2 DEF Cells
    <3>2. s + 1 \in Int /\ n \in Int
      BY <2>0
    <3>3. /\ d2 \in Seq(Cells) /\ Len(d2) = (IF s + 1 <= n THEN n - (s + 1) + 1 ELSE 0)
          /\ \A k \in 1 .. n - (s + 1) + 1 : d2[k] = data[s + 1 + k - 1]
      BY <3>1, <3>2, SubSeqProperties
    <3> HIDE DEF d2
    <3>4. s + 1 <= n /\ n - (s + 1) + 1 = n - s /\ \A k \in 1 .. n - s : s + 1 + k - 1 = s + k
      BY <2>0, <3>2
    <3>5. ASSUME NEW k \in 1 .. n - s PROVE d2[k] = data[s + k]
      BY <3>3, <3>4
    <3> QED
      BY <3>3, <3>4, <3>5
  <2>3. e_buf' = CopyIn(b1, 0, d2) /\ e_write_idx' = n - s
    BY <1>5, <1>10
  <2> HIDE DEF d1, d2
  <2>4. /\ b1 \in [0 .. EarlySize - 1 -> Cells]
        /\ \A q \in 0 .. EarlySize - 1 :
            b1[q] = IF w <= q /\ q < w + s THEN d1[q - w + 1] ELSE e_buf[q]
    <3>1. w \in Nat
      BY <1>0, <1>1
    <3>2. /\ CopyIn(e_buf, w, d1) \in [0 .. EarlySize - 1 -> Cells]
          /\ \A q \in 0 .. EarlySize - 1 :
                CopyIn(e_buf, w, d1)[q] = IF w <= q /\ q < w + Len(d1)
                                          THEN d1[q - w + 1] ELSE e_buf[q]
      BY <3>1, <2>1, <1>1, CopyInCells
    <3> QED
      BY <3>2, <2>1
  <2> HIDE DEF b1
  <2>5. /\ e_buf' \in [0 .. EarlySize - 1 -> Cells]
        /\ \A q \in 0 .. EarlySize - 1 :
            e_buf'[q] = IF q < n - s THEN d2[q + 1] ELSE b1[q]
    <3>1. /\ CopyIn(b1, 0, d2) \in [0 .. EarlySize - 1 -> Cells]
          /\ \A q \in 0 .. EarlySize - 1 :
            CopyIn(b1, 0, d2)[q] = IF 0 <= q /\ q < 0 + Len(d2) THEN d2[q - 0 + 1] ELSE b1[q]
      <4>1. 0 \in Nat
        OBVIOUS
      <4> QED
        BY <4>1, <2>2, <2>4, CopyInCells
    <3>2. \A q \in 0 .. EarlySize - 1 :
            CopyIn(b1, 0, d2)[q] = IF q < n - s THEN d2[q + 1] ELSE b1[q]
      <4> TAKE q \in 0 .. EarlySize - 1
      <4>1. 0 <= q /\ q - 0 + 1 = q + 1 /\ 0 + Len(d2) = n - s
        BY <2>0, <2>2, <1>0
      <4> QED
        BY <4>1, <3>1
    <3> QED
      BY <3>1, <3>2, <2>3
  <2>6. RingInv'
    <3>1. n - s \in 0 .. EarlySize /\ r + (c + n) = (n - s) + EarlySize /\ c + n \in 0 .. EarlySize
      BY <2>0, <1>0, <1>1, <1>3, <1>7
    <3> QED
      BY <3>1, <2>3, <2>5, <1>1, <1>3 DEF RingInv, r
  <2>7. ASSUME NEW i \in 1 .. c + n
        PROVE  e_buf'[Slot(r, i)] = IF i <= c THEN e_buf[Slot(r, i)] ELSE data[i - c]
    <3>1. Slot(r, i) \in 0 .. EarlySize - 1
      BY <1>1, <1>8, SlotIsMod
    <3>2. CASE i <= c
      <4>1. Slot(r, i) = r + i - 1 /\ ~(Slot(r, i) < n - s) /\ ~(w <= Slot(r, i))
        BY <3>2, <2>0, <1>0, <1>1 DEF Slot
      <4> QED
        BY <4>1, <3>1, <3>2, <2>4, <2>5
    <3>3. CASE ~(i <= c) /\ i - c <= s
      <4>1. Slot(r, i) = w + (i - c) - 1
        BY <3>3, <2>0, <1>0, <1>1, <1>7 DEF Slot
      <4>2. /\ ~(Slot(r, i) < n - s) /\ w <= Slot(r, i) /\ Slot(r, i) < w + s
            /\ Slot(r, i) - w + 1 = i - c /\ i - c \in 1 .. s
        BY <4>1, <3>3, <2>0, <1>0, <1>1
      <4>3. e_buf'[Slot(r, i)] = d1[i - c]
        BY <4>2, <3>1, <2>4, <2>5
      <4> QED
        BY <4>2, <4>3, <3>3, <2>1
    <3>4. CASE ~(i <= c) /\ ~(i - c <= s)
      <4>1. Slot(r, i) = (i - c) - s - 1
        BY <3>4, <2>0, <1>0, <1>1, <1>7 DEF Slot
      <4>2. Slot(r, i) < n - s /\ Slot(r, i) + 1 \in 1 .. n - s /\ s + (Slot(r, i) + 1) = i - c
        BY <4>1, <3>4, <2>0, <1>0, <1>1
      <4>3. e_buf'[Slot(r, i)] = d2[Slot(r, i) + 1]
        BY <4>2, <3>1, <2>5
      <4> QED
        BY <4>2, <4>3, <3>4, <2>2
    <3> QED
      BY <3>2, <3>3, <3>4
  <2> QED
    BY <2>6, <2>7
<1>11. RingInv' /\ \A i \in 1 .. c + n : e_buf'[Slot(r, i)] =
                       IF i <= c THEN e_buf[Slot(r, i)] ELSE data[i - c]
  BY <1>9, <1>10
<1>12. /\ Stored' \in Seq(Cells) /\ Len(Stored') = c + n
       /\ \A i \in 1 .. c + n : Stored'[i] = e_buf'[Slot(r, i)]
  BY <1>3, <1>11, StoredBytes
<1>13. /\ Stored \in Seq(Cells) /\ Len(Stored) = c
       /\ \A i \in 1 .. c : Stored[i] = e_buf[Slot(r, i)]
  BY StoredBytes DEF r, c
<1>14. /\ Stored \o data \in Seq(Cells) /\ Len(Stored \o data) = c + n
       /\ \A i \in 1 .. c + n : (Stored \o data)[i] = IF i <= c THEN Stored[i] ELSE data[i - c]
  BY <1>2, <1>13, ConcatProperties
<1>15. \A i \in 1 .. c + n : Stored'[i] = (Stored \o data)[i]
  <2> TAKE i \in 1 .. c + n
  <2>1. i <= c => i \in 1 .. c
    BY <1>0, <1>1
  <2> HIDE DEF c
  <2> QED
    BY <2>1, <1>11, <1>12, <1>13, <1>14
<1>16. Stored' = Stored \o data
  BY <1>12, <1>14, <1>15, SeqEqual
<1> QED
  BY <1>2, <1>11, <1>16

(* A read returns the oldest bytes, in order, and leaves the others, wherever
   the ring wraps (pisces_early_ringbuf_read).                             *)
LEMMA ReadStep ==
    ASSUME RingInv, NEW n \in Nat, pisces_early_ringbuf_read(n)
    PROVE  /\ RingInv' /\ n \in 0 .. Len(Stored)
           /\ e_data' = SubSeq(Stored, 1, n)
           /\ Stored' = SubSeq(Stored, n + 1, Len(Stored))
<1> DEFINE r == e_read_idx
           w == e_write_idx
           c == e_cur_len
           s == EarlySize - e_read_idx
<1>0. EarlySize \in Nat \ {0}
  BY EarlyAssumption
<1>1. /\ r \in 0 .. EarlySize /\ w \in 0 .. EarlySize /\ c \in 0 .. EarlySize
      /\ r + c = w \/ r + c = w + EarlySize
      /\ e_buf \in [0 .. EarlySize - 1 -> Cells]
  BY DEF RingInv
<1>2. n <= c /\ e_cur_len' = c - n /\ e_write_idx' = w /\ e_buf' = e_buf
  BY DEF pisces_early_ringbuf_read
<1>3. is_read_loop(n) <=> r >= w /\ c > 0 /\ s < n
  BY DEF is_read_loop
<1>4. is_read_loop(n) => /\ e_data' = CopyOut(r, s) \o CopyOut(0, n - s)
                         /\ e_read_idx' = n - s
  BY DEF pisces_early_ringbuf_read
<1>5. ~is_read_loop(n) => e_data' = CopyOut(r, n) /\ e_read_idx' = r + n
  BY DEF pisces_early_ringbuf_read
<1>6. s = EarlySize - r
  OBVIOUS
<1>7. /\ Stored \in Seq(Cells) /\ Len(Stored) = c
      /\ \A i \in 1 .. c : Stored[i] = e_buf[Slot(r, i)]
  BY StoredBytes
<1> HIDE DEF r, w, c, s
<1>8. \A i \in 1 .. c : Slot(r, i) \in 0 .. EarlySize - 1 /\ e_buf[Slot(r, i)] \in Cells
  <2> TAKE i \in 1 .. c
  <2>1. i \in 1 .. EarlySize
    BY <1>0, <1>1
  <2>2. Slot(r, i) \in 0 .. EarlySize - 1
    BY <2>1, <1>1, SlotIsMod
  <2> QED
    BY <2>2, <1>1
<1>9. ASSUME NEW at \in Nat, NEW k \in Nat, at + k <= EarlySize
      PROVE  /\ CopyOut(at, k) \in Seq(Cells) /\ Len(CopyOut(at, k)) = k
             /\ \A i \in 1 .. k : CopyOut(at, k)[i] = e_buf[at + i - 1]
  <2>1. \A i \in 1 .. k : at + i - 1 < EarlySize /\ at + i - 1 \in 0 .. EarlySize - 1
    BY <1>0, <1>9
  <2>2. \A i \in 1 .. k : e_buf[at + i - 1] \in Cells
    BY <2>1, <1>1
  <2>3. \A i \in 1 .. k : CopyOut(at, k)[i] = e_buf[at + i - 1]
    BY <2>1 DEF CopyOut
  <2>4. CopyOut(at, k) \in [1 .. k -> Cells]
    BY <2>1, <2>2 DEF CopyOut
  <2> QED
    BY <2>3, <2>4
<1>10. ASSUME ~is_read_loop(n)
       PROVE  /\ RingInv' /\ e_data' \in Seq(Cells) /\ Len(e_data') = n
              /\ \A i \in 1 .. n : e_data'[i] = e_buf[Slot(r, i)]
              /\ \A i \in 1 .. c - n : Slot(e_read_idx', i) = Slot(r, n + i)
  <2>1. r + n <= EarlySize /\ r \in Nat
    BY <1>0, <1>1, <1>2, <1>3, <1>6, <1>10
  <2>2. /\ e_data' \in Seq(Cells) /\ Len(e_data') = n
        /\ \A i \in 1 .. n : e_data'[i] = e_buf[r + i - 1]
    BY <2>1, <1>5, <1>9, <1>10
  <2>3. \A i \in 1 .. n : Slot(r, i) = r + i - 1
    BY <2>1, <1>0 DEF Slot
  <2>4. e_read_idx' = r + n
    BY <1>5, <1>10
  <2>5. RingInv'
    <3>1. r + n \in 0 .. EarlySize /\ c - n \in 0 .. EarlySize /\ (r + n) + (c - n) = r + c
      BY <2>1, <1>0, <1>1, <1>2
    <3> QED
      BY <3>1, <2>4, <1>1, <1>2 DEF RingInv
  <2>6. \A i \in 1 .. c - n : Slot(r + n, i) = Slot(r, n + i)
    BY <2>1, <1>0, <1>1 DEF Slot
  <2> QED
    BY <2>2, <2>3, <2>4, <2>5, <2>6
<1>11. ASSUME is_read_loop(n)
       PROVE  /\ RingInv' /\ e_data' \in Seq(Cells) /\ Len(e_data') = n
              /\ \A i \in 1 .. n : e_data'[i] = e_buf[Slot(r, i)]
              /\ \A i \in 1 .. c - n : Slot(e_read_idx', i) = Slot(r, n + i)
  <2>1. /\ r + c = w + EarlySize /\ s \in Nat /\ n - s \in Nat /\ r \in Nat
        /\ r + s <= EarlySize /\ 0 + (n - s) <= EarlySize /\ s < n
    BY <1>0, <1>1, <1>2, <1>3, <1>6, <1>11
  <2> DEFINE d1 == CopyOut(r, s)
             d2 == CopyOut(0, n - s)
  <2>2. /\ d1 \in Seq(Cells) /\ Len(d1) = s
        /\ \A i \in 1 .. s : d1[i] = e_buf[r + i - 1]
    BY <2>1, <1>9
  <2>3. /\ d2 \in Seq(Cells) /\ Len(d2) = n - s
        /\ \A i \in 1 .. n - s : d2[i] = e_buf[0 + i - 1]
    BY <2>1, <1>9
  <2>4. e_data' = d1 \o d2 /\ e_read_idx' = n - s
    BY <1>4, <1>11
  <2> HIDE DEF d1, d2
  <2>5. /\ d1 \o d2 \in Seq(Cells) /\ Len(d1 \o d2) = n
        /\ \A i \in 1 .. n : (d1 \o d2)[i] = IF i <= s THEN d1[i] ELSE d2[i - s]
    <3>1. /\ d1 \o d2 \in Seq(Cells) /\ Len(d1 \o d2) = Len(d1) + Len(d2)
          /\ \A i \in 1 .. Len(d1) + Len(d2) :
                (d1 \o d2)[i] = IF i <= Len(d1) THEN d1[i] ELSE d2[i - Len(d1)]
      BY <2>2, <2>3, ConcatProperties
    <3>2. Len(d1) + Len(d2) = n
      BY <2>1, <2>2, <2>3
    <3> QED
      BY <3>1, <3>2, <2>2
  <2>6. \A i \in 1 .. n : (d1 \o d2)[i] = e_buf[Slot(r, i)]
    <3> TAKE i \in 1 .. n
    <3>1. CASE i <= s
      <4>1. i \in 1 .. s /\ Slot(r, i) = r + i - 1
        BY <3>1, <2>1, <1>0, <1>6 DEF Slot
      <4> QED
        BY <4>1, <3>1, <2>2, <2>5
    <3>2. CASE ~(i <= s)
      <4>1. i - s \in 1 .. n - s /\ Slot(r, i) = 0 + (i - s) - 1
        BY <3>2, <2>1, <1>0, <1>6 DEF Slot
      <4> QED
        BY <4>1, <3>2, <2>3, <2>5
    <3> QED
      BY <3>1, <3>2
  <2>7. RingInv'
    <3>1. n - s \in 0 .. EarlySize /\ c - n \in 0 .. EarlySize /\ (n - s) + (c - n) = w
      BY <2>1, <1>0, <1>1, <1>2, <1>6
    <3> QED
      BY <3>1, <2>4, <1>1, <1>2 DEF RingInv
  <2>8. \A i \in 1 .. c - n : Slot(n - s, i) = Slot(r, n + i)
    BY <2>1, <1>0, <1>1, <1>2, <1>6 DEF Slot
  <2> QED
    BY <2>4, <2>5, <2>6, <2>7, <2>8
<1>12. /\ RingInv' /\ e_data' \in Seq(Cells) /\ Len(e_data') = n
       /\ \A i \in 1 .. n : e_data'[i] = e_buf[Slot(r, i)]
       /\ \A i \in 1 .. c - n : Slot(e_read_idx', i) = Slot(r, n + i)
  BY <1>10, <1>11
<1>13. n \in 0 .. c /\ c \in Nat /\ \A i \in 1 .. n : i \in 1 .. c
  BY <1>0, <1>1, <1>2
<1>14. e_data' = SubSeq(Stored, 1, n)
  <2>1. \A i \in 1 .. n : Stored[i] \in Cells
    BY <1>7, <1>8, <1>13
  <2>2. 1 \in Int /\ n \in Int
    OBVIOUS
  <2>3. /\ SubSeq(Stored, 1, n) \in Seq(Cells)
        /\ Len(SubSeq(Stored, 1, n)) = (IF 1 <= n THEN n - 1 + 1 ELSE 0)
        /\ \A i \in 1 .. n - 1 + 1 : SubSeq(Stored, 1, n)[i] = Stored[1 + i - 1]
    BY <2>1, <2>2, SubSeqProperties
  <2>4. Len(SubSeq(Stored, 1, n)) = n /\ \A i \in 1 .. n : SubSeq(Stored, 1, n)[i] = Stored[i]
    BY <2>3
  <2>5. \A i \in 1 .. n : e_data'[i] = SubSeq(Stored, 1, n)[i]
    BY <2>4, <1>7, <1>12, <1>13
  <2> QED
    BY <2>3, <2>4, <2>5, <1>12, SeqEqual
<1>15. Stored' = SubSeq(Stored, n + 1, c)
  <2>0. \A i \in 1 .. c - n : n + i \in 1 .. c /\ n + 1 + i - 1 = n + i
    BY <1>13
  <2>1. \A i \in n + 1 .. c : Stored[i] \in Cells
    <3> TAKE i \in n + 1 .. c
    <3>1. i \in 1 .. c
      BY <1>13
    <3> QED
      BY <3>1, <1>7, <1>8
  <2>2. n + 1 \in Int /\ c \in Int
    BY <1>13
  <2>3. /\ SubSeq(Stored, n + 1, c) \in Seq(Cells)
        /\ Len(SubSeq(Stored, n + 1, c)) = (IF n + 1 <= c THEN c - (n + 1) + 1 ELSE 0)
        /\ \A i \in 1 .. c - (n + 1) + 1 : SubSeq(Stored, n + 1, c)[i] = Stored[n + 1 + i - 1]
    BY <2>1, <2>2, SubSeqProperties
  <2>4. c - (n + 1) + 1 = c - n /\ (IF n + 1 <= c THEN c - (n + 1) + 1 ELSE 0) = c - n
    BY <1>13
  <2>5. /\ Len(SubSeq(Stored, n + 1, c)) = c - n
        /\ \A i \in 1 .. c - n : SubSeq(Stored, n + 1, c)[i] = Stored[n + i]
    BY <2>0, <2>3, <2>4
  <2>6. /\ Stored' \in Seq(Cells) /\ Len(Stored') = c - n
        /\ \A i \in 1 .. c - n : Stored'[i] = e_buf[Slot(e_read_idx', i)]
    BY <1>2, <1>12, StoredBytes
  <2>7. \A i \in 1 .. c - n : Stored'[i] = SubSeq(Stored, n + 1, c)[i]
    BY <2>0, <2>5, <2>6, <1>7, <1>12
  <2> QED
    BY <2>3, <2>5, <2>6, <2>7, SeqEqual
<1> QED
  BY <1>7, <1>12, <1>13, <1>14, <1>15

(* The ring's invariant holds of every sequence of writes and reads.       *)
THEOREM RingAlways == ESpec => []RingInv
<1>1. EInit => RingInv
  BY EarlyAssumption DEF EInit, RingInv, Cells
<1>2. RingInv /\ [ENext]_evars => RingInv'
  <2> SUFFICES ASSUME RingInv, [ENext]_evars PROVE RingInv'
    OBVIOUS
  <2>1. ASSUME NEW n \in 0 .. MaxLen, NEW data \in [1 .. n -> Bytes],
               pisces_early_ringbuf_write(data)
        PROVE  RingInv'
    <3>1. n \in Nat
      BY EarlyAssumption
    <3> QED
      BY <2>1, <3>1, WriteStep
  <2>2. ASSUME NEW n \in 0 .. MaxLen, pisces_early_ringbuf_read(n) PROVE RingInv'
    <3>1. n \in Nat
      BY EarlyAssumption
    <3> QED
      BY <2>2, <3>1, ReadStep
  <2>3. CASE UNCHANGED evars
    BY <2>3 DEF evars, RingInv
  <2> QED
    BY <2>1, <2>2, <2>3 DEF ENext
<1> QED
  BY <1>1, <1>2, PTL DEF ESpec

(* Every step of the ring is one of a bounded first-in first-out buffer: a
   write adds after what is there, a read takes from its front
   (pisces_early_ringbuf_write, pisces_early_ringbuf_read).                *)
LEMMA RingRefines ==
    ASSUME RingInv, [ENext]_evars
    PROVE  [EFifo!Put \/ EFifo!Get]_<<Stored, e_data>>
<1>0. EarlySize \in Nat \ {0}
  BY EarlyAssumption
<1>1. ASSUME NEW n \in 0 .. MaxLen, NEW data \in [1 .. n -> Bytes],
             pisces_early_ringbuf_write(data)
      PROVE  EFifo!Put \/ UNCHANGED <<Stored, e_data>>
  <2>1. n \in Nat
    BY EarlyAssumption
  <2>2. RingInv' /\ Stored' = Stored \o data /\ Len(data) = n
    BY <2>1, <1>1, WriteStep
  <2>3. e_data' = e_data
    BY <1>1 DEF pisces_early_ringbuf_write
  <2>4. /\ Stored \in Seq(Cells) /\ Stored' \in Seq(Cells) /\ Len(Stored) \in Nat
        /\ Len(Stored') \in 0 .. EarlySize /\ data \in Seq(Cells)
    <3>1. data \in Seq(Cells)
      BY <2>1 DEF Cells
    <3>2. /\ Stored \in Seq(Cells) /\ Stored' \in Seq(Cells)
          /\ Len(Stored) = e_cur_len /\ Len(Stored') = e_cur_len'
      BY <2>2, StoredBytes
    <3>3. e_cur_len \in 0 .. EarlySize /\ e_cur_len' \in 0 .. EarlySize
      BY <2>2 DEF RingInv
    <3> QED
      BY <3>1, <3>2, <3>3, <1>0
  <2>5. /\ Len(Stored') = Len(Stored) + n
        /\ \A i \in 1 .. Len(Stored) + n :
            Stored'[i] = IF i <= Len(Stored) THEN Stored[i] ELSE data[i - Len(Stored)]
    BY <2>2, <2>4, ConcatProperties
  <2>6. CASE n = 0
    <3>1. data = <<>>
      BY <2>2, <2>4, <2>6, EmptySeq
    <3>2. Stored' = Stored
      BY <3>1, <2>2, <2>4, ConcatEmptySeq
    <3> QED
      BY <3>2, <2>3
  <2>7. CASE n > 0
    <3>1. Len(Stored') \in Len(Stored) + 1 .. EarlySize
      BY <2>1, <2>4, <2>5, <2>7, <1>0
    <3> DEFINE k == Len(Stored)
    <3>2. \A i \in 1 .. k : Stored'[i] \in Cells /\ Stored'[i] = Stored[i]
      <4> TAKE i \in 1 .. k
      <4>1. i \in 1 .. Len(Stored) + n /\ i <= Len(Stored)
        BY <2>1, <2>4
      <4>2. Stored[i] \in Cells
        BY <2>4, ElementOfSeq
      <4> QED
        BY <4>1, <4>2, <2>5
    <3>3. 1 \in Int /\ k \in Int
      BY <2>4
    <3>4. /\ SubSeq(Stored', 1, k) \in Seq(Cells)
          /\ Len(SubSeq(Stored', 1, k)) = (IF 1 <= k THEN k - 1 + 1 ELSE 0)
          /\ \A i \in 1 .. k - 1 + 1 : SubSeq(Stored', 1, k)[i] = Stored'[1 + i - 1]
      BY <3>2, <3>3, SubSeqProperties
    <3>5. k \in Nat
      BY <2>4
    <3>6. k = Len(Stored)
      OBVIOUS
    <3> HIDE DEF k
    <3>7. /\ Len(SubSeq(Stored', 1, k)) = k
          /\ \A i \in 1 .. k : SubSeq(Stored', 1, k)[i] = Stored[i]
      BY <3>2, <3>4, <3>5
    <3>8. SubSeq(Stored', 1, k) = Stored
      BY <3>4, <3>6, <3>7, <2>4, SeqEqual
    <3> QED
      BY <3>1, <3>6, <3>8, <2>3 DEF EFifo!Put
  <2> QED
    BY <2>1, <2>6, <2>7
<1>2. ASSUME NEW n \in 0 .. MaxLen, pisces_early_ringbuf_read(n) PROVE EFifo!Get
  <2>1. n \in Nat
    BY EarlyAssumption
  <2> QED
    BY <2>1, <1>2, ReadStep DEF EFifo!Get
<1>3. CASE UNCHANGED evars
  BY <1>3 DEF evars, Stored
<1> QED
  BY <1>1, <1>2, <1>3 DEF ENext

(* The early ring buffer is a first-in first-out buffer of EARLY_RINGBUF_SIZE
   bytes, although its indices run one too far (pisces_ringbuf.c).         *)
THEOREM RingImplements == ESpec => RingbufIsFifo
<1>1. EInit => EFifo!FifoInit
  <2> SUFFICES ASSUME EInit PROVE EFifo!FifoInit
    OBVIOUS
  <2>1. Stored = <<>>
    BY DEF EInit, Stored
  <2> QED
    BY <2>1 DEF EInit, EFifo!FifoInit
<1>2. RingInv /\ [ENext]_evars => [EFifo!Put \/ EFifo!Get]_<<Stored, e_data>>
  BY RingRefines
<1> QED
  BY <1>1, <1>2, RingAlways, PTL DEF ESpec, RingbufIsFifo, EFifo!FifoSpec

(* A write stores exactly its bytes, and none if they do not all fit
   (pisces_early_ringbuf_write).                                           *)
THEOREM RingStores ==
    ESpec => [][\A n \in 0 .. MaxLen : \A data \in [1 .. n -> Bytes] :
                    pisces_early_ringbuf_write(data) => Stored' = Stored \o data]_evars
<1>1. RingInv /\ [ENext]_evars =>
        [\A n \in 0 .. MaxLen : \A data \in [1 .. n -> Bytes] :
            pisces_early_ringbuf_write(data) => Stored' = Stored \o data]_evars
  <2> SUFFICES ASSUME RingInv, NEW n \in 0 .. MaxLen, NEW data \in [1 .. n -> Bytes],
                      pisces_early_ringbuf_write(data)
               PROVE  Stored' = Stored \o data
    OBVIOUS
  <2>1. n \in Nat
    BY EarlyAssumption
  <2> QED
    BY <2>1, WriteStep
<1> QED
  BY <1>1, RingAlways, PTL DEF ESpec

-----------------------------------------------------------------------------
(* The boot memory (BootParams).                                           *)

\* The first k bytes of area n are at their place.
Holds(m, n, at, k) ==
    \A i \in 0 .. k - 1 : at + i \in DOMAIN m /\ m[at + i] = <<Areas[n], i>>

Loading == b_step \in {6, 7} /\ b_area[b_step] # Nowhere

BootType ==
    /\ b_step \in {0} \cup (2 .. 8)
    /\ b_offset \in Nat /\ b_read \in Nat
    /\ b_area \in [1 .. 7 -> [at : Nat, size : Nat]]
    /\ b_len \in [kernel : ImageLens, initrd : ImageLens, header : HeaderSizes]
    /\ b_fail \in {"no", "setup", "read"}

(* An area that has been set up is whole, on a 4KB boundary and below the
   offset where the next one goes (setup_boot_params).                     *)
PlacedInv ==
    \A n \in 1 .. 7 : n < b_step =>
        /\ b_area[n].at % Page4KB = 0
        /\ b_area[n].at + b_area[n].size <= b_offset
        /\ Holds(b_mem, n, b_area[n].at, b_area[n].size)

(* An image that is being read goes after what is there, and what was read of
   it is at its place (load_kernel, load_initrd).                          *)
LoadInv ==
    Loading =>
        /\ b_area[b_step].at >= b_offset
        /\ b_area[b_step].at % Page2MB = 0
        /\ b_step = 6 => b_area[6].at = Page2MB
        /\ b_read <= b_area[b_step].size
        /\ Holds(b_mem, b_step, b_area[b_step].at, b_read)

(* The boot memory holds nothing but the areas, which come one after the other
   (setup_boot_params clears it first).                                    *)
CoverInv ==
    /\ \A n \in 1 .. 7 : n > b_step => b_area[n] = Nowhere
    /\ \A a \in DOMAIN b_mem :
        \/ \E n \in 1 .. 7 : /\ n < b_step
                             /\ a \in b_area[n].at .. b_area[n].at + b_area[n].size - 1
        \/ Loading /\ a \in b_area[b_step].at .. b_area[b_step].at + b_read - 1

(* The kernel is at 2MB, and the initrd past its BSS (load_kernel).        *)
KernelInv ==
    /\ b_step > 6 => b_area[6].at = Page2MB
    /\ b_step = 7 => b_offset = b_area[6].at + b_area[6].size + BssPages * Page2MB
    /\ b_step = 8 => /\ b_area[7].at % Page2MB = 0
                     /\ b_area[7].at >= b_area[6].at + b_area[6].size + BssPages * Page2MB

(* The invariant of the boot memory, through launches that fail and RESETs that
   run the setup again (setup_boot_params).                                *)
BootIInv ==
    /\ BootType
    /\ b_step < 8 => b_fail = "no"
    /\ b_fail # "read" => b_open = Images
    /\ ~Loading => b_read = 0
    /\ b_step > 0 /\ b_fail = "no" => PlacedInv /\ LoadInv /\ CoverInv /\ KernelInv

(* A number without a rest is so many pages.                               *)
LEMMA Multiple ==
    ASSUME NEW a \in Nat \ {0}, NEW x \in Int, x % a = 0
    PROVE  \E k \in Int : x = k * a
<1>1. x \div a \in Int
  OBVIOUS
<1>2. x = (x \div a) * a
  OBVIOUS
<1> QED
  BY <1>1, <1>2

(* So many pages leave no rest.                                            *)
LEMMA MultipleMod ==
    ASSUME NEW a \in Nat \ {0}, NEW k \in Int
    PROVE  (k * a) % a = 0
OBVIOUS

(* A 2MB boundary is a 4KB boundary.                                       *)
LEMMA MultipleOfMultiple ==
    ASSUME NEW a \in Nat \ {0}, NEW b \in Nat \ {0}, NEW x \in Int, b % a = 0, x % b = 0
    PROVE  x % a = 0
<1>0. b \in Int
  OBVIOUS
<1>1. PICK k \in Int : x = k * b
  BY Multiple
<1>2. PICK l \in Int : b = l * a
  BY <1>0, Multiple
<1>3. x = (k * l) * a
  BY <1>1, <1>2
<1>4. k * l \in Int
  OBVIOUS
<1>5. ((k * l) * a) % a = 0
  BY <1>4, MultipleMod
<1> QED
  BY <1>3, <1>5

(* The next boundary of a page is a boundary, and not before where it was
   looked for (ALIGN).                                                     *)
LEMMA AlignUp ==
    ASSUME NEW x \in Nat, NEW a \in Nat \ {0}
    PROVE  ALIGN(x, a) \in Nat /\ ALIGN(x, a) >= x /\ ALIGN(x, a) % a = 0
<1> DEFINE q == (x + a - 1) \div a
<1>1. q \in Int
  OBVIOUS
<1>2. q * a >= x /\ q * a \in Nat
  OBVIOUS
<1>3. (q * a) % a = 0
  <2> HIDE DEF q
  <2> QED
    BY <1>1, MultipleMod
<1> QED
  BY <1>2, <1>3 DEF ALIGN

(* Writing more of an area keeps what is before it and adds what was written
   (the memcpy and file_read of pisces_boot_params.c).                     *)
LEMMA WriteArea ==
    ASSUME NEW m, NEW n, NEW at \in Nat, NEW pos \in Nat, NEW len \in Nat
    PROVE  /\ \A a : a \in DOMAIN Write(m, n, at, pos, len) <=>
                        a \in DOMAIN m \/ a \in at + pos .. at + pos + len - 1
           /\ Holds(m, n, at, pos) => Holds(Write(m, n, at, pos, len), n, at, pos + len)
           /\ \A k, from, size : from \in Nat /\ size \in Nat /\ from + size <= at + pos
                                   /\ Holds(m, k, from, size)
                => Holds(Write(m, n, at, pos, len), k, from, size)
<1> DEFINE w == Write(m, n, at, pos, len)
<1>1. /\ DOMAIN w = DOMAIN m \cup at + pos .. at + pos + len - 1
      /\ \A a \in DOMAIN w : w[a] = IF a \in at + pos .. at + pos + len - 1
                                    THEN <<Areas[n], a - at>> ELSE m[a]
  BY DEF Write
<1> HIDE DEF w
<1>2. ASSUME Holds(m, n, at, pos) PROVE Holds(w, n, at, pos + len)
  <2> SUFFICES ASSUME NEW i \in 0 .. pos + len - 1
               PROVE  at + i \in DOMAIN w /\ w[at + i] = <<Areas[n], i>>
    BY DEF Holds
  <2>1. CASE i < pos
    <3>1. i \in 0 .. pos - 1 /\ at + i \notin at + pos .. at + pos + len - 1
      BY <2>1
    <3>2. at + i \in DOMAIN m /\ m[at + i] = <<Areas[n], i>>
      BY <3>1, <1>2 DEF Holds
    <3> QED
      BY <3>1, <3>2, <1>1
  <2>2. CASE ~(i < pos)
    <3>1. at + i \in at + pos .. at + pos + len - 1 /\ (at + i) - at = i
      BY <2>2
    <3> QED
      BY <3>1, <1>1
  <2> QED
    BY <2>1, <2>2
<1>3. ASSUME NEW k, NEW from \in Nat, NEW size \in Nat, from + size <= at + pos,
             Holds(m, k, from, size)
      PROVE  Holds(w, k, from, size)
  <2> SUFFICES ASSUME NEW i \in 0 .. size - 1
               PROVE  from + i \in DOMAIN w /\ w[from + i] = <<Areas[k], i>>
    BY DEF Holds
  <2>1. from + i \in DOMAIN m /\ m[from + i] = <<Areas[k], i>>
    BY <1>3 DEF Holds
  <2>2. from + i \notin at + pos .. at + pos + len - 1
    BY <1>3
  <2> QED
    BY <2>1, <2>2, <1>1
<1> QED
  BY <1>1, <1>2, <1>3 DEF w

(* The same for an area that is written whole.                             *)
LEMMA WriteNew ==
    ASSUME NEW m, NEW n, NEW at \in Nat, NEW len \in Nat
    PROVE  /\ \A a : a \in DOMAIN Write(m, n, at, 0, len) <=>
                        a \in DOMAIN m \/ a \in at .. at + len - 1
           /\ Holds(Write(m, n, at, 0, len), n, at, len)
           /\ \A k, from, size : from \in Nat /\ size \in Nat /\ from + size <= at
                                   /\ Holds(m, k, from, size)
                => Holds(Write(m, n, at, 0, len), k, from, size)
<1>1. 0 \in Nat /\ at + 0 = at /\ 0 + len = len /\ at + 0 + len - 1 = at + len - 1
  OBVIOUS
<1>2. Holds(m, n, at, 0)
  BY DEF Holds
<1> DEFINE w == Write(m, n, at, 0, len)
<1>3. /\ \A a : a \in DOMAIN w <=> a \in DOMAIN m \/ a \in at + 0 .. at + 0 + len - 1
      /\ Holds(m, n, at, 0) => Holds(w, n, at, 0 + len)
      /\ \A k, from, size : from \in Nat /\ size \in Nat /\ from + size <= at + 0
                              /\ Holds(m, k, from, size)
            => Holds(w, k, from, size)
  <2>1. \A pos \in Nat :
          /\ \A a : a \in DOMAIN Write(m, n, at, pos, len) <=>
                        a \in DOMAIN m \/ a \in at + pos .. at + pos + len - 1
          /\ Holds(m, n, at, pos) => Holds(Write(m, n, at, pos, len), n, at, pos + len)
          /\ \A k, from, size : from \in Nat /\ size \in Nat /\ from + size <= at + pos
                                  /\ Holds(m, k, from, size)
               => Holds(Write(m, n, at, pos, len), k, from, size)
    BY WriteArea
  <2> QED
    BY <2>1, <1>1, Zenon
<1> HIDE DEF w
<1>4. Holds(w, n, at, len)
  BY <1>1, <1>2, <1>3
<1>5. \A a : a \in DOMAIN w <=> a \in DOMAIN m \/ a \in at .. at + len - 1
  BY <1>1, <1>3
<1>6. \A k, from, size : from \in Nat /\ size \in Nat /\ from + size <= at
                          /\ Holds(m, k, from, size)
        => Holds(w, k, from, size)
  BY <1>1, <1>3
<1> QED
  BY <1>4, <1>5, <1>6 DEF w

(* LAUNCH or RESET begins with cleared memory and the header at its start, what
   ever the last setup left (setup_boot_params).                           *)
LEMMA BeginStep ==
    ASSUME BootIInv, ~Stubborn, BootBegin
    PROVE  BootIInv'
<1> DEFINE h == b_len.header
<1>0. Page4KB \in Nat \ {0} /\ h \in Nat /\ BootType
  BY BootParamsAssumption DEF BootIInv, BootType
<1>1. /\ b_step \in {0, 8} /\ b_fail # "read" /\ b_step' = 2 /\ b_fail' = "no"
      /\ b_offset' = h /\ b_read' = b_read /\ b_open' = b_open /\ b_len' = b_len
      /\ b_mem' = Write(Zeroes, 1, 0, 0, h)
      /\ b_area' = [n \in 1 .. 7 |-> IF n = 1 THEN [at |-> 0, size |-> h] ELSE Nowhere]
  BY DEF BootBegin
<1>2. b_open' = Images /\ b_read' = 0 /\ ~Loading'
  BY <1>1 DEF BootIInv, Loading
<1>3. /\ b_area'[1] = [at |-> 0, size |-> h]
      /\ \A n \in 2 .. 7 : b_area'[n] = Nowhere
  BY <1>1
<1> HIDE DEF h
<1>4. BootType'
  <2>1. b_area' \in [1 .. 7 -> [at : Nat, size : Nat]]
    BY <1>0, <1>1 DEF Nowhere
  <2> QED
    BY <2>1, <1>0, <1>1, <1>2 DEF BootType
<1>5. \A n \in 1 .. 7 : n < 2 => n = 1
  OBVIOUS
<1>6. Holds(b_mem', 1, 0, h)
  <2>1. Holds(Zeroes, 1, 0, 0)
    BY DEF Holds
  <2>2. Holds(Write(Zeroes, 1, 0, 0, h), 1, 0, 0 + h)
    BY <2>1, <1>0, WriteArea
  <2> QED
    BY <2>2, <1>0, <1>1
<1>7. PlacedInv'
  <2>1. b_area'[1].at = 0 /\ b_area'[1].size = h /\ 0 % Page4KB = 0 /\ 0 + h <= b_offset'
    BY <1>0, <1>1, <1>3
  <2> QED
    BY <2>1, <1>1, <1>5, <1>6 DEF PlacedInv
<1>8. CoverInv'
  <2>1. \A a \in DOMAIN b_mem' : a \in 0 .. 0 + h - 1
    <3>1. \A a : a \notin DOMAIN Zeroes
      BY DEF Zeroes
    <3>2. \A a \in DOMAIN b_mem' : a \in 0 + 0 .. 0 + 0 + h - 1
      BY <3>1, <1>0, <1>1, WriteArea
    <3> QED
      BY <3>2, <1>0
  <2>2. 1 \in 1 .. 7 /\ 1 < b_step' /\ b_area'[1].at = 0 /\ b_area'[1].size = h
    BY <1>1, <1>3
  <2>3. \A n \in 1 .. 7 : n > 2 => n \in 2 .. 7
    OBVIOUS
  <2> QED
    BY <2>1, <2>2, <2>3, <1>1, <1>3 DEF CoverInv
<1>9. LoadInv' /\ KernelInv'
  BY <1>1, <1>2 DEF LoadInv, KernelInv
<1> QED
  BY <1>1, <1>2, <1>4, <1>7, <1>8, <1>9 DEF BootIInv

(* The console and each channel go to the next 4KB boundary, after all that is
   there (setup_boot_params).                                              *)
LEMMA SetupStep ==
    ASSUME BootIInv, NEW n \in 2 .. 5, b_step = n, NEW size \in Nat,
           SetupArea(n, ALIGN(b_offset, Page4KB), size)
    PROVE  BootIInv'
<1> DEFINE at == ALIGN(b_offset, Page4KB)
<1>0. Page4KB \in Nat \ {0} /\ BootType
  BY BootParamsAssumption DEF BootIInv
<1>1. /\ b_step' = n + 1 /\ b_offset' = at + size /\ b_mem' = Write(b_mem, n, at, 0, size)
      /\ b_area' = [b_area EXCEPT ![n] = [at |-> at, size |-> size]]
      /\ b_read' = b_read /\ b_open' = b_open /\ b_len' = b_len /\ b_fail' = b_fail
  BY DEF SetupArea
<1>2. at \in Nat /\ at >= b_offset /\ at % Page4KB = 0
  BY <1>0, AlignUp DEF BootType
<1> HIDE DEF at
<1>3. /\ b_fail = "no" /\ b_open = Images /\ ~Loading /\ b_read = 0 /\ b_offset \in Nat
      /\ PlacedInv /\ CoverInv
  <2>1. b_step < 8 /\ b_step > 0 /\ b_step \notin {6, 7}
    OBVIOUS
  <2> QED
    BY <2>1 DEF BootIInv, Loading, BootType
<1>4. /\ b_area'[n].at = at /\ b_area'[n].size = size
      /\ \A k \in 1 .. 7 : k # n => b_area'[k] = b_area[k]
  <2>1. n \in 1 .. 7
    OBVIOUS
  <2> QED
    BY <2>1, <1>0, <1>1 DEF BootType
<1>5. BootType'
  <2>1. b_area' \in [1 .. 7 -> [at : Nat, size : Nat]]
    BY <1>0, <1>1, <1>2 DEF BootType
  <2> QED
    BY <2>1, <1>0, <1>1, <1>2 DEF BootType
<1>6. ~Loading'
  <2>1. \A k \in 1 .. 7 : k > n => b_area'[k] = Nowhere
    BY <1>3, <1>4 DEF CoverInv
  <2>2. n + 1 \in {6, 7} => n + 1 = 6 /\ 6 \in 1 .. 7 /\ 6 > n
    OBVIOUS
  <2> QED
    BY <2>1, <2>2, <1>1 DEF Loading
<1>7. PlacedInv'
  <2> SUFFICES ASSUME NEW k \in 1 .. 7, k < n + 1
               PROVE  /\ b_area'[k].at % Page4KB = 0
                      /\ b_area'[k].at + b_area'[k].size <= b_offset'
                      /\ Holds(b_mem', k, b_area'[k].at, b_area'[k].size)
    BY <1>1 DEF PlacedInv
  <2>1. CASE k = n
    <3>2. Holds(Write(b_mem, n, at, 0, size), n, at, size)
      BY <1>2, WriteNew
    <3> QED
      BY <3>2, <2>1, <1>1, <1>2, <1>4
  <2>2. CASE k # n
    <3> DEFINE f == b_area[k].at
               z == b_area[k].size
    <3>1. f \in Nat /\ z \in Nat /\ b_area'[k].at = f /\ b_area'[k].size = z
      BY <2>2, <1>0, <1>4 DEF BootType
    <3>2. f % Page4KB = 0 /\ f + z <= b_offset /\ Holds(b_mem, k, f, z)
      BY <2>2, <1>3 DEF PlacedInv
    <3> HIDE DEF f, z
    <3>3. f + z <= at /\ f + z <= at + size
      BY <3>1, <3>2, <1>2, <1>3
    <3>4. Holds(Write(b_mem, n, at, 0, size), k, f, z)
      BY <3>1, <3>2, <3>3, <1>2, WriteNew
    <3> QED
      BY <3>1, <3>2, <3>3, <3>4, <1>1
  <2> QED
    BY <2>1, <2>2
<1>8. CoverInv'
  <2>1. ASSUME NEW k \in 1 .. 7, k > n + 1 PROVE b_area'[k] = Nowhere
    BY <2>1, <1>3, <1>4 DEF CoverInv
  <2>2. ASSUME NEW a \in DOMAIN b_mem'
        PROVE  \E k \in 1 .. 7 : /\ k < n + 1
                                 /\ a \in b_area'[k].at .. b_area'[k].at + b_area'[k].size - 1
    <3>1. a \in DOMAIN b_mem \/ a \in at .. at + size - 1
      BY <1>1, <1>2, WriteNew
    <3>2. CASE a \in DOMAIN b_mem
      <4>1. PICK k \in 1 .. 7 : k < n /\ a \in b_area[k].at .. b_area[k].at + b_area[k].size - 1
        BY <3>2, <1>3 DEF CoverInv
      <4>2. k < n + 1 /\ k # n
        BY <4>1
      <4> QED
        BY <4>1, <4>2, <1>4
    <3>3. CASE a \in at .. at + size - 1
      <4>1. n \in 1 .. 7 /\ n < n + 1 /\ a \in at .. at + size - 1
        BY <3>3, <1>2
      <4> QED
        BY <4>1, <1>4
    <3> QED
      BY <3>1, <3>2, <3>3
  <2> QED
    BY <2>1, <2>2, <1>1 DEF CoverInv
<1>9. LoadInv' /\ KernelInv'
  BY <1>1, <1>6 DEF LoadInv, KernelInv
<1> QED
  BY <1>1, <1>3, <1>5, <1>6, <1>7, <1>8, <1>9 DEF BootIInv

(* The images are the sixth and the seventh area.                          *)
LEMMA ImageIs ==
    ASSUME BootType, b_step \in {6, 7}
    PROVE  Image \in Images /\ b_len[Image] \in Nat
<1>1. b_step = 6 => Image = "kernel"
  BY DEF Image, Areas
<1>2. b_step = 7 => Image = "initrd"
  BY DEF Image, Areas
<1>3. b_len["kernel"] \in ImageLens /\ b_len["initrd"] \in ImageLens
  BY DEF BootType
<1>4. ImageLens \subseteq Nat
  BY BootParamsAssumption
<1> QED
  BY <1>1, <1>2, <1>3, <1>4 DEF Images

(* A setup that is given up leaves the images open (setup_boot_params).    *)
LEMMA FailStep ==
    ASSUME BootIInv, SetupFails
    PROVE  BootIInv'
<1>1. /\ b_step \in 4 .. 7 /\ b_area[b_step] = Nowhere /\ b_step' = 8 /\ b_fail' = "setup"
      /\ UNCHANGED <<b_offset, b_area, b_read, b_mem, b_open, b_len>>
  BY DEF SetupFails
<1>2. b_step < 8 /\ ~Loading /\ ~Loading'
  BY <1>1 DEF Loading
<1>3. b_fail = "no" /\ b_open = Images /\ b_read = 0 /\ BootType
  BY <1>2 DEF BootIInv
<1>4. BootType'
  BY <1>1, <1>3 DEF BootType
<1> QED
  BY <1>1, <1>2, <1>3, <1>4 DEF BootIInv

(* An image that cannot be read is closed, and the setup given up (load_kernel,
   load_initrd).                                                           *)
LEMMA LoadFailStep ==
    ASSUME BootIInv, LoadFails
    PROVE  BootIInv'
<1>1. /\ b_step' = 8 /\ b_fail' = "read" /\ b_read' = 0
      /\ UNCHANGED <<b_offset, b_area, b_mem, b_len>>
  BY DEF LoadFails
<1>2. BootType'
  BY <1>1 DEF BootIInv, BootType
<1> QED
  BY <1>1, <1>2 DEF BootIInv

(* An image goes to the next 2MB boundary, the kernel only if that is the first
   (load_kernel, load_initrd).                                             *)
LEMMA LoadBeginStep ==
    ASSUME BootIInv, LoadBegin
    PROVE  BootIInv'
<1> DEFINE at == ALIGN(b_offset, Page2MB)
<1>0. Page2MB \in Nat \ {0} /\ BootType
  BY BootParamsAssumption DEF BootIInv
<1>1. /\ b_step \in {6, 7} /\ b_area[b_step] = Nowhere /\ (b_step = 6 => at = Page2MB)
      /\ UNCHANGED <<b_step, b_offset, b_read, b_mem, b_open, b_len, b_fail>>
  BY DEF LoadBegin
<1>2. PICK size \in {b_len[Image], b_len[Image] + Page2MB} :
        b_area' = [b_area EXCEPT ![b_step] = [at |-> at, size |-> size]]
  BY DEF LoadBegin
<1>3. size \in Nat
  BY <1>0, <1>1, ImageIs
<1>4. at \in Nat /\ at >= b_offset /\ at % Page2MB = 0
  BY <1>0, AlignUp DEF BootType
<1> HIDE DEF at
<1>5. /\ b_area'[b_step].at = at /\ b_area'[b_step].size = size
      /\ \A k \in 1 .. 7 : k # b_step => b_area'[k] = b_area[k]
  <2>1. b_step \in 1 .. 7
    BY <1>1
  <2> QED
    BY <2>1, <1>0, <1>2 DEF BootType
<1>6. ~Loading /\ b_read = 0 /\ b_fail = "no" /\ b_open = Images
  <2>1. ~Loading /\ b_step < 8
    BY <1>1 DEF Loading
  <2> QED
    BY <2>1 DEF BootIInv
<1>7. PlacedInv /\ CoverInv /\ KernelInv
  BY <1>1, <1>6 DEF BootIInv
<1>8. BootType'
  <2>1. b_area' \in [1 .. 7 -> [at : Nat, size : Nat]]
    BY <1>0, <1>2, <1>3, <1>4 DEF BootType
  <2> QED
    BY <2>1, <1>0, <1>1 DEF BootType
<1>9. \A k \in 1 .. 7 : k < b_step \/ k > b_step => k # b_step
  BY <1>1
<1>10. PlacedInv'
  BY <1>1, <1>5, <1>7, <1>9 DEF PlacedInv
<1>11. LoadInv'
  <2>1. Holds(b_mem', b_step, at, 0)
    BY DEF Holds
  <2>2. b_step = 6 => b_area'[6].at = Page2MB
    BY <1>1, <1>5
  <2>3. b_read' = 0 /\ 0 <= size
    BY <1>1, <1>3, <1>6
  <2> QED
    BY <2>1, <2>2, <2>3, <1>1, <1>4, <1>5 DEF LoadInv
<1>12. CoverInv'
  <2>1. \A k \in 1 .. 7 : k > b_step' => b_area'[k] = Nowhere
    BY <1>1, <1>5, <1>7, <1>9 DEF CoverInv
  <2>2. ASSUME NEW a \in DOMAIN b_mem'
        PROVE  \E n \in 1 .. 7 : /\ n < b_step'
                                 /\ a \in b_area'[n].at .. b_area'[n].at + b_area'[n].size - 1
    <3>1. PICK n \in 1 .. 7 : n < b_step /\ a \in b_area[n].at .. b_area[n].at + b_area[n].size - 1
      BY <1>1, <1>6, <1>7 DEF CoverInv
    <3>2. b_area'[n] = b_area[n]
      BY <3>1, <1>5, <1>9
    <3> QED
      BY <3>1, <3>2, <1>1
  <2> QED
    BY <2>1, <2>2 DEF CoverInv
<1>13. KernelInv'
  <2>1. b_step = 6 \/ b_step = 7
    BY <1>1
  <2>2. CASE b_step = 6
    BY <2>2, <1>1 DEF KernelInv
  <2>3. CASE b_step = 7
    <3>1. b_area'[6] = b_area[6]
      BY <2>3, <1>5
    <3> QED
      BY <3>1, <2>3, <1>1, <1>7 DEF KernelInv
  <2> QED
    BY <2>1, <2>2, <2>3
<1>14. (~Loading => b_read = 0)' /\ (b_fail # "read" => b_open = Images)'
       /\ (b_step < 8 => b_fail = "no")'
  BY <1>1, <1>6
<1> QED
  BY <1>8, <1>10, <1>11, <1>12, <1>13, <1>14 DEF BootIInv

(* A round of the loop adds what it read after what was there, and disturbs no
   other area (file_read in load_kernel, load_initrd).                     *)
LEMMA ReadRoundStep ==
    ASSUME BootIInv, NEW got \in 1 .. Page2MB, LoadRead(got)
    PROVE  BootIInv'
<1> DEFINE at == b_area[b_step].at
           size == b_area[b_step].size
<1>0. Page2MB \in Nat \ {0} /\ BootType /\ got \in Nat
  BY BootParamsAssumption DEF BootIInv
<1>1. /\ b_step \in {6, 7} /\ b_area[b_step] # Nowhere
      /\ b_read + got <= size /\ b_read' = b_read + got
      /\ b_mem' = Write(b_mem, b_step, at, b_read, got)
      /\ UNCHANGED <<b_step, b_offset, b_area, b_open, b_len, b_fail>>
  BY DEF LoadRead
<1>2. Loading /\ Loading'
  BY <1>1 DEF Loading
<1>3. b_fail = "no" /\ b_open = Images /\ b_read \in Nat
  <2>1. b_step < 8
    BY <1>1
  <2> QED
    BY <2>1, <1>0 DEF BootIInv, BootType
<1>4. PlacedInv /\ LoadInv /\ CoverInv /\ KernelInv
  BY <1>1, <1>3 DEF BootIInv
<1>5. at \in Nat /\ size \in Nat
  <2>1. b_step \in 1 .. 7
    BY <1>1
  <2> QED
    BY <2>1, <1>0 DEF BootType
<1>6. at >= b_offset /\ Holds(b_mem, b_step, at, b_read) /\ b_offset \in Nat
  BY <1>0, <1>2, <1>4 DEF LoadInv, BootType
<1> HIDE DEF at, size
<1>7. BootType'
  BY <1>0, <1>1, <1>3 DEF BootType
<1>8. PlacedInv'
  <2> SUFFICES ASSUME NEW k \in 1 .. 7, k < b_step
               PROVE  /\ b_area[k].at % Page4KB = 0
                      /\ b_area[k].at + b_area[k].size <= b_offset
                      /\ Holds(b_mem', k, b_area[k].at, b_area[k].size)
    BY <1>1 DEF PlacedInv
  <2> DEFINE f == b_area[k].at
             z == b_area[k].size
  <2>1. f \in Nat /\ z \in Nat
    BY <1>0 DEF BootType
  <2>2. f % Page4KB = 0 /\ f + z <= b_offset /\ Holds(b_mem, k, f, z)
    BY <1>4 DEF PlacedInv
  <2> HIDE DEF f, z
  <2>3. f + z <= at + b_read
    BY <2>1, <2>2, <1>3, <1>5, <1>6
  <2>4. Holds(Write(b_mem, b_step, at, b_read, got), k, f, z)
    BY <2>1, <2>2, <2>3, <1>0, <1>3, <1>5, WriteArea
  <2> QED
    BY <2>2, <2>4, <1>1 DEF f, z
<1>9. LoadInv'
  <2>1. Holds(Write(b_mem, b_step, at, b_read, got), b_step, at, b_read + got)
    BY <1>0, <1>3, <1>5, <1>6, WriteArea
  <2>2. at >= b_offset /\ at % Page2MB = 0 /\ (b_step = 6 => b_area[6].at = Page2MB)
    BY <1>2, <1>4 DEF LoadInv, at
  <2> QED
    BY <2>1, <2>2, <1>1 DEF LoadInv, at, size
<1>10. CoverInv'
  <2>1. \A k \in 1 .. 7 : k > b_step' => b_area'[k] = Nowhere
    BY <1>1, <1>4 DEF CoverInv
  <2>2. ASSUME NEW a \in DOMAIN b_mem'
        PROVE  \/ \E n \in 1 .. 7 : /\ n < b_step
                                    /\ a \in b_area[n].at .. b_area[n].at + b_area[n].size - 1
               \/ a \in at .. at + (b_read + got) - 1
    <3>1. a \in DOMAIN b_mem \/ a \in at + b_read .. at + b_read + got - 1
      BY <1>0, <1>1, <1>3, <1>5, WriteArea
    <3>2. CASE a \in DOMAIN b_mem
      <4>1. \/ \E n \in 1 .. 7 : /\ n < b_step
                                 /\ a \in b_area[n].at .. b_area[n].at + b_area[n].size - 1
            \/ a \in at .. at + b_read - 1
        BY <3>2, <1>4 DEF CoverInv, at
      <4>2. a \in at .. at + b_read - 1 => a \in at .. at + (b_read + got) - 1
        BY <1>0, <1>3, <1>5
      <4> QED
        BY <4>1, <4>2
    <3>3. CASE a \in at + b_read .. at + b_read + got - 1
      BY <3>3, <1>0, <1>3, <1>5
    <3> QED
      BY <3>1, <3>2, <3>3
  <2> QED
    BY <2>1, <2>2, <1>1, <1>2 DEF CoverInv, at
<1>11. KernelInv'
  BY <1>1, <1>4 DEF KernelInv
<1> QED
  BY <1>1, <1>2, <1>3, <1>7, <1>8, <1>9, <1>10, <1>11 DEF BootIInv

(* An image that has been read whole is set up; after the kernel comes the room
   for its BSS (load_kernel, load_initrd).                                 *)
LEMMA LoadDoneStep ==
    ASSUME BootIInv, LoadDone
    PROVE  BootIInv'
<1> DEFINE at == b_area[b_step].at
           size == b_area[b_step].size
           bss == BssPages * Page2MB
           gap == IF b_step = 6 THEN bss ELSE 0
<1>0. /\ Page2MB \in Nat \ {0} /\ Page4KB \in Nat \ {0} /\ Page2MB % Page4KB = 0
      /\ bss \in Nat /\ BootType
  BY BootParamsAssumption DEF BootIInv
<1>1. /\ b_step \in {6, 7} /\ b_area[b_step] # Nowhere
      /\ b_read = size /\ b_read' = 0 /\ b_step' = b_step + 1
      /\ b_offset' = at + b_read + gap
      /\ UNCHANGED <<b_area, b_mem, b_open, b_len, b_fail>>
  BY DEF LoadDone
<1>2. Loading /\ b_step < 8
  BY <1>1 DEF Loading
<1>3. b_fail = "no" /\ b_open = Images
  BY <1>2 DEF BootIInv
<1>4. PlacedInv /\ LoadInv /\ CoverInv /\ KernelInv
  BY <1>1, <1>3 DEF BootIInv
<1>5. at \in Nat /\ size \in Nat /\ b_offset \in Nat
  <2>1. b_step \in 1 .. 7
    BY <1>1
  <2> QED
    BY <2>1, <1>0 DEF BootType
<1>6. /\ at >= b_offset /\ at % Page2MB = 0 /\ (b_step = 6 => at = Page2MB)
      /\ Holds(b_mem, b_step, at, size)
  BY <1>1, <1>2, <1>4 DEF LoadInv
<1>7. gap \in Nat
  BY <1>0
<1>8. (b_step = 6 => gap = bss) /\ (b_step = 7 => gap = 0)
  OBVIOUS
<1>9. bss = BssPages * Page2MB
  OBVIOUS
<1> HIDE DEF at, size, bss, gap
<1>10. b_offset' \in Nat /\ at + size <= b_offset' /\ b_offset <= b_offset'
  BY <1>1, <1>5, <1>6, <1>7
<1>11. BootType'
  BY <1>0, <1>1, <1>10 DEF BootType
<1>12. ~Loading'
  <2>1. b_step = 6 => b_area[7] = Nowhere
    BY <1>4 DEF CoverInv
  <2> QED
    BY <2>1, <1>1 DEF Loading
<1>13. at % Page4KB = 0
  <2>1. at \in Int
    BY <1>5
  <2> QED
    BY <2>1, <1>0, <1>6, MultipleOfMultiple
<1>14. PlacedInv'
  <2> SUFFICES ASSUME NEW k \in 1 .. 7, k < b_step + 1
               PROVE  /\ b_area[k].at % Page4KB = 0
                      /\ b_area[k].at + b_area[k].size <= b_offset'
                      /\ Holds(b_mem, k, b_area[k].at, b_area[k].size)
    BY <1>1 DEF PlacedInv
  <2>1. k = b_step \/ k < b_step
    BY <1>1
  <2>2. CASE k = b_step
    BY <2>2, <1>6, <1>10, <1>13 DEF at, size
  <2>3. CASE k < b_step
    <3> DEFINE e == b_area[k].at + b_area[k].size
    <3>1. e \in Nat
      BY <1>0 DEF BootType
    <3>2. /\ b_area[k].at % Page4KB = 0 /\ e <= b_offset
          /\ Holds(b_mem, k, b_area[k].at, b_area[k].size)
      BY <2>3, <1>4 DEF PlacedInv
    <3> HIDE DEF e
    <3>3. e <= b_offset'
      BY <3>1, <3>2, <1>5, <1>10
    <3> QED
      BY <3>2, <3>3 DEF e
  <2> QED
    BY <2>1, <2>2, <2>3
<1>15. CoverInv'
  <2>1. \A k \in 1 .. 7 : k > b_step + 1 => b_area[k] = Nowhere
    <3> TAKE k \in 1 .. 7
    <3>1. k > b_step + 1 => k > b_step
      BY <1>1
    <3> QED
      BY <3>1, <1>4 DEF CoverInv
  <2>2. ASSUME NEW a \in DOMAIN b_mem
        PROVE  \E n \in 1 .. 7 : /\ n < b_step + 1
                                 /\ a \in b_area[n].at .. b_area[n].at + b_area[n].size - 1
    <3>1. \/ \E n \in 1 .. 7 : /\ n < b_step
                               /\ a \in b_area[n].at .. b_area[n].at + b_area[n].size - 1
          \/ a \in at .. at + size - 1
      BY <1>1, <1>4 DEF CoverInv, at
    <3>2. b_step \in 1 .. 7 /\ b_step < b_step + 1 /\ \A n \in 1 .. 7 : n < b_step => n < b_step + 1
      BY <1>1
    <3> QED
      BY <3>1, <3>2 DEF at, size
  <2> QED
    BY <2>1, <2>2, <1>1 DEF CoverInv
<1>16. KernelInv'
  <2>1. CASE b_step = 6
    <3>1. b_step' = 7 /\ b_offset' = at + size + bss /\ at = Page2MB
      BY <2>1, <1>1, <1>6, <1>8
    <3>2. b_area'[6].at = at /\ b_area'[6].size = size
      BY <2>1, <1>1 DEF at, size
    <3> QED
      BY <3>1, <3>2, <1>9 DEF KernelInv
  <2>2. CASE b_step = 7
    <3>1. b_step' = 8 /\ b_area' = b_area
      BY <2>2, <1>1
    <3>2. b_area[6].at = Page2MB /\ b_offset = b_area[6].at + b_area[6].size + BssPages * Page2MB
      BY <2>2, <1>4 DEF KernelInv
    <3>3. b_area[7].at % Page2MB = 0 /\ b_area[7].at >= b_offset
      BY <2>2, <1>6 DEF at
    <3> QED
      BY <3>1, <3>2, <3>3 DEF KernelInv
  <2> QED
    BY <2>1, <2>2, <1>1
<1>17. LoadInv'
  BY <1>12 DEF LoadInv
<1>18. b_fail' = "no" /\ b_open' = Images /\ b_read' = 0
  BY <1>1, <1>3
<1> QED
  BY <1>11, <1>12, <1>14, <1>15, <1>16, <1>17, <1>18 DEF BootIInv

(* The boot memory's invariant holds of every sequence of launches and RESETs,
   if nobody launches again after an image could not be read: LOAD must supply
   it again first (setup_boot_params, load_kernel, load_initrd).           *)
THEOREM BootAlways ==
    ASSUME ~Stubborn
    PROVE  BSpec => []BootIInv
<1>1. BInit => BootIInv
  <2> SUFFICES ASSUME BInit PROVE BootIInv
    OBVIOUS
  <2>1. BootType
    BY DEF BInit, BootType, Nowhere
  <2>2. ~Loading
    BY DEF BInit, Loading
  <2> QED
    BY <2>1, <2>2 DEF BInit, BootIInv
<1>2. BootIInv /\ [BNext]_bvars => BootIInv'
  <2> SUFFICES ASSUME BootIInv, [BNext]_bvars PROVE BootIInv'
    OBVIOUS
  <2>1. CASE BootBegin
    BY <2>1, BeginStep
  <2>2. CASE SetupConsole
    <3>1. b_step = 2 /\ SetupArea(2, ALIGN(b_offset, Page4KB), ConsSize) /\ ConsSize \in Nat
      BY <2>2, BootParamsAssumption DEF SetupConsole
    <3>2. 2 \in 2 .. 5
      OBVIOUS
    <3> QED
      BY <3>1, <3>2, SetupStep
  <2>3. CASE SetupChannel
    <3>1. b_step \in 3 .. 5 /\ SetupArea(b_step, ALIGN(b_offset, Page4KB), Page4KB)
          /\ Page4KB \in Nat
      BY <2>3, BootParamsAssumption DEF SetupChannel
    <3>2. PICK n \in 3 .. 5 : n = b_step
      BY <3>1
    <3>3. n \in 2 .. 5
      OBVIOUS
    <3> QED
      BY <3>1, <3>2, <3>3, SetupStep
  <2>4. CASE SetupFails
    BY <2>4, FailStep
  <2>5. CASE LoadBegin
    BY <2>5, LoadBeginStep
  <2>6. CASE LoadFails
    BY <2>6, LoadFailStep
  <2>7. CASE LoadDone
    BY <2>7, LoadDoneStep
  <2>8. ASSUME NEW got \in 1 .. Page2MB, LoadRead(got) PROVE BootIInv'
    BY <2>8, ReadRoundStep
  <2>9. CASE UNCHANGED bvars
    <3>1. UNCHANGED <<b_step, b_offset, b_area, b_read, b_mem, b_open, b_len, b_fail>>
      BY <2>9 DEF bvars
    <3> QED
      BY <3>1 DEF BootIInv, BootType, Loading, PlacedInv, LoadInv, CoverInv, KernelInv
  <2> QED
    BY <2>1, <2>2, <2>3, <2>4, <2>5, <2>6, <2>7, <2>8, <2>9 DEF BNext
<1> QED
  BY <1>1, <1>2, PTL DEF BSpec

(* The boot memory of every launch that comes through: whole areas that do not
   overlap, in the layout the enclave expects, from images that were open
   (setup_boot_params, load_kernel, load_initrd).                          *)
THEOREM BootCorrect ==
    ASSUME ~Stubborn
    PROVE  BSpec => []BootInv
<1>1. BootIInv => BootInv
  <2> SUFFICES ASSUME BootIInv PROVE BootInv
    OBVIOUS
  <2>0. BootType /\ (b_fail = "no" /\ b_step > 0 => PlacedInv /\ CoverInv /\ KernelInv)
    BY DEF BootIInv
  <2>1. ASSUME NEW n \in 1 .. 7, Past(n)
        PROVE  PlacedInv /\ CoverInv /\ KernelInv /\ n < b_step
    <3>1. b_step > n /\ b_fail = "no" /\ b_step \in Int
      BY <2>0, <2>1 DEF Past, BootType
    <3> QED
      BY <3>1, <2>0
  <2>2. AreasIntact
    BY <2>1 DEF AreasIntact, PlacedInv, Holds
  <2>3. LayoutKept
    <3>1. \A n \in 1 .. 7 : Past(n) => b_area[n].at % Page4KB = 0
      BY <2>1 DEF PlacedInv
    <3>2. Past(6) => b_area[6].at = Page2MB
      BY <2>1 DEF KernelInv
    <3>3. ASSUME Past(7)
          PROVE  /\ b_area[7].at % Page2MB = 0
                 /\ b_area[7].at >= b_area[6].at + b_area[6].size + BssPages * Page2MB
                 /\ \A a \in DOMAIN b_mem : \E n \in 1 .. 7 :
                        a \in b_area[n].at .. b_area[n].at + b_area[n].size - 1
      <4>1. b_step = 8 /\ CoverInv /\ KernelInv
        BY <2>0, <2>1, <3>3 DEF BootType
      <4>2. ~Loading
        BY <4>1 DEF Loading
      <4> QED
        BY <4>1, <4>2 DEF CoverInv, KernelInv
    <3> QED
      BY <3>1, <3>2, <3>3 DEF LayoutKept
  <2>4. ImageOpen
    <3> SUFFICES ASSUME b_step \in {6, 7} PROVE Image \in b_open
      BY DEF ImageOpen
    <3>1. b_open = Images
      BY DEF BootIInv
    <3> QED
      BY <3>1, <2>0, ImageIs
  <2> QED
    BY <2>2, <2>3, <2>4 DEF BootInv
<1>2. BSpec => []BootIInv
  BY BootAlways
<1> QED
  BY <1>1, <1>2, PTL

-----------------------------------------------------------------------------
(* The loops over IOMMU pages (IommuRegion).                               *)

\* The page a loop cuts when n bytes are left.
Cut(n) == IF n < BigPage THEN SmallPage ELSE BigPage

\* A page, or a region, has the address x.
PageAt(p, x) == p.gpa <= x /\ x < p.gpa + p.size
In(r, x)     == r[1] <= x /\ x < r[1] + r[3]

\* The regions that are mapped and the one that is being mapped.
Claimed == i_regions \cup (IF i_job.op = "map" THEN {i_job.region} ELSE {})

IommuType ==
    /\ WholePages
    /\ i_domain \subseteq [gpa : Nat, hpa : Nat, size : {SmallPage, BigPage}]
    /\ i_regions \subseteq Nat \X Nat \X RegionLens
    /\ i_job \in [op : {"none", "map", "unmap"}, gpa : Nat, hpa : Nat, size : Nat,
                  page : {SmallPage, BigPage}, region : Nat \X Nat \X Nat]
    /\ i_rest \subseteq Nat \X Nat

(* A loop stands at a page of its region, with whole pages left before the end;
   it uses small pages only when no big one fits (the while loops of
   enclave_pci_iommu_map and enclave_pci_iommu_unmap).                     *)
JobInv ==
    i_job.op # "none" =>
        /\ i_job.size > 0 /\ i_job.size % SmallPage = 0 /\ i_job.size < SizeWord
        /\ i_job.region[1] <= i_job.gpa
        /\ i_job.gpa + i_job.size = i_job.region[1] + i_job.region[3]
        /\ i_job.page = BigPage \/ i_job.size < BigPage
        /\ i_job.op = "map" => /\ i_job.hpa = i_job.region[2] + (i_job.gpa - i_job.region[1])
                               /\ i_job.region \in (Nat \X Nat \X RegionLens) \ i_regions

(* Regions do not overlap, nor what a failed call left; a call unmaps a region
   that is mapped, or one of which nothing is.                             *)
ApartInv ==
    /\ \A r, q \in Claimed : \A x \in Nat : In(r, x) /\ In(q, x) => r = q
    /\ \A b \in i_rest, r \in Claimed : ~In(r, b[1])
    /\ i_job.op = "unmap" =>
        \/ \E r \in i_regions : r[1] = i_job.region[1] /\ r[3] = i_job.region[3]
        \/ /\ i_job.gpa = i_job.region[1]
           /\ \A b \in Mapped : ~In(i_job.region, b[1])

(* Pages do not overlap, and those of a region are cut where the loops cut it. *)
PageInv ==
    /\ \A p, q \in i_domain : \A x \in Nat : PageAt(p, x) /\ PageAt(q, x) => p = q
    /\ \A r \in Claimed, p \in i_domain : \A x \in Nat : In(r, x) /\ PageAt(p, x) =>
        /\ p.gpa >= r[1]
        /\ p.size = Cut(r[1] + r[3] - p.gpa)
        /\ p.hpa = r[2] + (p.gpa - r[1])

(* The invariant of the loops.                                             *)
IommuIInv == IommuType /\ JobInv /\ ApartInv /\ PageInv /\ MappedExact

(* A run of addresses, byte by byte (the ranges the loops walk).           *)
LEMMA SpanPairs ==
    ASSUME NEW g \in Int, NEW h \in Int, NEW n \in Int
    PROVE  /\ \A b \in Span(g, h, n) : /\ b[1] \in Int /\ g <= b[1] /\ b[1] < g + n
                                       /\ b = <<b[1], h + (b[1] - g)>>
           /\ \A x \in Int : g <= x /\ x < g + n => <<x, h + (x - g)>> \in Span(g, h, n)
<1>1. ASSUME NEW b \in Span(g, h, n)
      PROVE  /\ b[1] \in Int /\ g <= b[1] /\ b[1] < g + n
             /\ b = <<b[1], h + (b[1] - g)>>
  <2>1. PICK k \in 0 .. n - 1 : b = <<g + k, h + k>>
    BY DEF Span
  <2> QED
    BY <2>1
<1>2. ASSUME NEW x \in Int, g <= x, x < g + n
      PROVE  <<x, h + (x - g)>> \in Span(g, h, n)
  <2>1. x - g \in 0 .. n - 1 /\ x = g + (x - g)
    BY <1>2
  <2>2. <<g + (x - g), h + (x - g)>> \in Span(g, h, n)
    BY <2>1 DEF Span
  <2> QED
    BY <2>1, <2>2
<1> QED
  BY <1>1, <1>2

(* A run that is cut in two is the two runs.                               *)
LEMMA SpanJoin ==
    ASSUME NEW g \in Int, NEW h \in Int, NEW m \in Nat, NEW n \in Nat
    PROVE  /\ Span(g, h, m + n) = Span(g, h, m) \cup Span(g + m, h + m, n)
           /\ Span(g, h, m) \cap Span(g + m, h + m, n) = {}
           /\ Span(g, h, 0) = {}
<1>1. Span(g, h, m + n) \subseteq Span(g, h, m) \cup Span(g + m, h + m, n)
  <2> SUFFICES ASSUME NEW k \in 0 .. m + n - 1
               PROVE  <<g + k, h + k>> \in Span(g, h, m) \cup Span(g + m, h + m, n)
    BY DEF Span
  <2>1. CASE k < m
    <3>1. k \in 0 .. m - 1
      BY <2>1
    <3> QED
      BY <3>1 DEF Span
  <2>2. CASE k >= m
    <3>1. k - m \in 0 .. n - 1 /\ g + k = (g + m) + (k - m) /\ h + k = (h + m) + (k - m)
      BY <2>2
    <3> QED
      BY <3>1 DEF Span
  <2> QED
    BY <2>1, <2>2
<1>2. Span(g, h, m) \subseteq Span(g, h, m + n)
  <2>1. \A k \in 0 .. m - 1 : k \in 0 .. m + n - 1
    OBVIOUS
  <2> QED
    BY <2>1 DEF Span
<1>3. Span(g + m, h + m, n) \subseteq Span(g, h, m + n)
  <2> SUFFICES ASSUME NEW k \in 0 .. n - 1
               PROVE  <<(g + m) + k, (h + m) + k>> \in Span(g, h, m + n)
    BY DEF Span
  <2>1. m + k \in 0 .. m + n - 1 /\ (g + m) + k = g + (m + k) /\ (h + m) + k = h + (m + k)
    OBVIOUS
  <2> QED
    BY <2>1 DEF Span
<1>4. Span(g, h, m) \cap Span(g + m, h + m, n) = {}
  <2>1. \A b \in Span(g, h, m) : b[1] \in Int /\ b[1] < g + m
    BY SpanPairs
  <2>2. g + m \in Int /\ h + m \in Int
    OBVIOUS
  <2>3. \A b \in Span(g + m, h + m, n) : g + m <= b[1]
    BY <2>2, SpanPairs
  <2> QED
    BY <2>1, <2>2, <2>3
<1>5. Span(g, h, 0) = {}
  <2>1. 0 .. 0 - 1 = {}
    OBVIOUS
  <2> QED
    BY <2>1 DEF Span
<1> QED
  BY <1>1, <1>2, <1>3, <1>4, <1>5

(* The page that is cut fits in what is left, whole pages are left after it, and
   the unsigned size does not wrap (size -= page_size in both loops).      *)
LEMMA CutFits ==
    ASSUME NEW n \in Nat \ {0}, n % SmallPage = 0, n < SizeWord
    PROVE  /\ Cut(n) \in {SmallPage, BigPage} /\ Cut(n) \in Nat \ {0}
           /\ n - Cut(n) \in Nat /\ n - Cut(n) < SizeWord
           /\ (n - Cut(n)) % SmallPage = 0
           /\ (n - Cut(n)) % SizeWord = n - Cut(n)
           /\ Cut(n) = BigPage \/ n - Cut(n) < BigPage
<1>0. /\ SmallPage \in Nat \ {0} /\ BigPage \in Nat \ {0} /\ BigPage % SmallPage = 0
      /\ SizeWord \in Nat
  BY IommuAssumption
<1>1. Cut(n) \in {SmallPage, BigPage} /\ Cut(n) \in Nat \ {0}
  BY <1>0 DEF Cut
<1>2. n >= SmallPage
  <2>1. n < SmallPage => n % SmallPage = n
    BY <1>0
  <2> QED
    BY <2>1, <1>0
<1>3. n - Cut(n) \in Nat /\ n - Cut(n) < SizeWord
  BY <1>0, <1>2 DEF Cut
<1>4. (n - Cut(n)) % SmallPage = 0
  <2>1. Cut(n) % SmallPage = 0
    <3>1. SmallPage % SmallPage = 0
      BY <1>0
    <3> QED
      BY <3>1, <1>0, <1>1
  <2>2. n \in Int /\ Cut(n) \in Int
    BY <1>1
  <2>3. PICK j \in Int : n = j * SmallPage
    BY <1>0, <2>2, Multiple
  <2>4. PICK k \in Int : Cut(n) = k * SmallPage
    BY <1>0, <2>1, <2>2, Multiple
  <2>5. n - Cut(n) = (j - k) * SmallPage /\ j - k \in Int
    BY <2>3, <2>4, <1>0
  <2>6. ((j - k) * SmallPage) % SmallPage = 0
    BY <2>5, <1>0, MultipleMod
  <2> QED
    BY <2>5, <2>6
<1>5. (n - Cut(n)) % SizeWord = n - Cut(n)
  BY <1>0, <1>3
<1>6. Cut(n) = BigPage \/ n - Cut(n) < BigPage
  BY <1>0 DEF Cut
<1> QED
  BY <1>1, <1>3, <1>4, <1>5, <1>6

(* What the types say of a page, of a region and of the call.              *)
LEMMA IommuTypes ==
    ASSUME IommuType
    PROVE  /\ \A p \in i_domain : /\ p.gpa \in Nat /\ p.hpa \in Nat
                                  /\ p.size \in Nat \ {0}
                                  /\ p = [gpa |-> p.gpa, hpa |-> p.hpa, size |-> p.size]
           /\ \A r \in i_regions : /\ r[1] \in Nat /\ r[2] \in Nat
                                   /\ r[3] \in RegionLens /\ r[3] \in Nat \ {0}
                                   /\ r[3] % SmallPage = 0 /\ r[3] < SizeWord
                                   /\ r = <<r[1], r[2], r[3]>>
           /\ \A b \in i_rest : b[1] \in Nat
           /\ i_job.gpa \in Nat /\ i_job.hpa \in Nat /\ i_job.size \in Nat
           /\ i_job.page \in {SmallPage, BigPage}
           /\ i_job.op \in {"none", "map", "unmap"}
           /\ i_job.region[1] \in Nat /\ i_job.region[2] \in Nat /\ i_job.region[3] \in Nat
           /\ i_job.region = <<i_job.region[1], i_job.region[2], i_job.region[3]>>
           /\ i_job = [op |-> i_job.op, gpa |-> i_job.gpa, hpa |-> i_job.hpa,
                       size |-> i_job.size, page |-> i_job.page, region |-> i_job.region]
<1>1. SmallPage \in Nat \ {0} /\ BigPage \in Nat \ {0}
  BY IommuAssumption
<1>2. \A n \in RegionLens : n \in Nat \ {0} /\ n % SmallPage = 0 /\ n < SizeWord
  BY IommuAssumption DEF IommuType, WholePages
<1>3. \A p \in i_domain : p \in [gpa : Nat, hpa : Nat, size : {SmallPage, BigPage}]
  BY DEF IommuType
<1>4. \A r \in i_regions : r \in Nat \X Nat \X RegionLens
  BY DEF IommuType
<1>5. \A b \in i_rest : b \in Nat \X Nat
  BY DEF IommuType
<1>6. i_job \in [op : {"none", "map", "unmap"}, gpa : Nat, hpa : Nat, size : Nat,
                 page : {SmallPage, BigPage}, region : Nat \X Nat \X Nat]
  BY DEF IommuType
<1>7. \A p \in i_domain : /\ p.gpa \in Nat /\ p.hpa \in Nat
                          /\ p.size \in Nat \ {0}
                          /\ p = [gpa |-> p.gpa, hpa |-> p.hpa, size |-> p.size]
  BY <1>1, <1>3
<1>8. \A r \in i_regions : /\ r[1] \in Nat /\ r[2] \in Nat
                           /\ r[3] \in RegionLens /\ r[3] \in Nat \ {0}
                           /\ r[3] % SmallPage = 0 /\ r[3] < SizeWord
                           /\ r = <<r[1], r[2], r[3]>>
  BY <1>2, <1>4
<1>9. \A b \in i_rest : b[1] \in Nat
  BY <1>5
<1>10. /\ i_job.gpa \in Nat /\ i_job.hpa \in Nat /\ i_job.size \in Nat
       /\ i_job.page \in {SmallPage, BigPage}
       /\ i_job.op \in {"none", "map", "unmap"}
  BY <1>6
<1>11. i_job.region \in Nat \X Nat \X Nat
  BY <1>6
<1>12. /\ i_job.region[1] \in Nat /\ i_job.region[2] \in Nat /\ i_job.region[3] \in Nat
       /\ i_job.region = <<i_job.region[1], i_job.region[2], i_job.region[3]>>
  BY <1>11
<1>13. i_job = [op |-> i_job.op, gpa |-> i_job.gpa, hpa |-> i_job.hpa,
                size |-> i_job.size, page |-> i_job.page, region |-> i_job.region]
  BY <1>6
<1> QED
  BY <1>7, <1>8, <1>9, <1>10, <1>12, <1>13

(* The round of a loop works on the page that is cut from what is left: the
   page size it carries is the one it would choose afresh.                 *)
LEMMA RoundPage ==
    ASSUME IommuType, JobInv, i_job.op # "none"
    PROVE  /\ PageSize(i_job.size, i_job.page) = Cut(i_job.size)
           /\ i_job.size \in Nat \ {0} /\ i_job.size % SmallPage = 0 /\ i_job.size < SizeWord
<1>1. /\ i_job.size > 0 /\ i_job.size % SmallPage = 0 /\ i_job.size < SizeWord
      /\ i_job.page = BigPage \/ i_job.size < BigPage
  BY DEF JobInv
<1>2. i_job.size \in Nat \ {0} /\ i_job.page \in {SmallPage, BigPage}
  BY <1>1, IommuTypes
<1>3. SmallPage \in Nat \ {0} /\ BigPage \in Nat \ {0}
  BY IommuAssumption
<1>4. i_job.size >= SmallPage
  <2>1. i_job.size < SmallPage => i_job.size % SmallPage = i_job.size
    BY <1>2, <1>3
  <2> QED
    BY <2>1, <1>1, <1>2, <1>3
<1> QED
  BY <1>1, <1>2, <1>3, <1>4 DEF PageSize, Cut

(* Pages and the bytes they map, both ways (iommu_map).                    *)
LEMMA MappedBytes ==
    ASSUME IommuType
    PROVE  /\ \A p \in i_domain : \A x \in Nat :
                PageAt(p, x) => <<x, p.hpa + (x - p.gpa)>> \in Mapped
           /\ \A b \in Mapped : /\ b[1] \in Nat
                                /\ \E p \in i_domain : /\ PageAt(p, b[1])
                                                       /\ b \in Span(p.gpa, p.hpa, p.size)
<1>1. \A p \in i_domain : p.gpa \in Nat /\ p.hpa \in Nat /\ p.size \in Nat
  BY IommuTypes
<1>2. ASSUME NEW p \in i_domain, NEW x \in Nat, PageAt(p, x)
      PROVE  <<x, p.hpa + (x - p.gpa)>> \in Mapped
  <2>1. x \in Int /\ p.gpa \in Int /\ p.hpa \in Int /\ p.size \in Int
    BY <1>1
  <2>2. <<x, p.hpa + (x - p.gpa)>> \in Span(p.gpa, p.hpa, p.size)
    BY <2>1, <1>2, SpanPairs DEF PageAt
  <2> QED
    BY <2>2 DEF Mapped
<1>3. ASSUME NEW b \in Mapped
      PROVE  /\ b[1] \in Nat
             /\ \E p \in i_domain : PageAt(p, b[1]) /\ b \in Span(p.gpa, p.hpa, p.size)
  <2>1. PICK p \in i_domain : b \in Span(p.gpa, p.hpa, p.size)
    BY DEF Mapped
  <2>2. p.gpa \in Int /\ p.hpa \in Int /\ p.size \in Int /\ p.gpa >= 0
    BY <1>1
  <2>3. b[1] \in Int /\ p.gpa <= b[1] /\ b[1] < p.gpa + p.size
    BY <2>1, <2>2, SpanPairs
  <2> QED
    BY <2>1, <2>2, <2>3 DEF PageAt
<1> QED
  BY <1>2, <1>3

(* The bytes of a region that are mapped are in it, and the rest of a region
   that is being unmapped begins where the loop stands
   (enclave_pci_iommu_unmap).                                              *)
LEMMA KeptBytes ==
    ASSUME IommuIInv, NEW r \in i_regions
    PROVE  /\ i_job.op = "unmap" /\ r[1] = i_job.region[1] =>
                /\ r[3] = i_job.region[3]
                /\ Kept(r) = Span(i_job.gpa, r[2] + (i_job.gpa - r[1]), i_job.size)
           /\ ~(i_job.op = "unmap" /\ r[1] = i_job.region[1]) => Kept(r) = Span(r[1], r[2], r[3])
           /\ \A b \in Kept(r) :
                /\ b[1] \in Nat /\ In(r, b[1])
                /\ i_job.op = "unmap" /\ r[1] = i_job.region[1] => i_job.gpa <= b[1]
           /\ \A x \in Nat :
                In(r, x) /\ (i_job.op = "unmap" /\ r[1] = i_job.region[1] => i_job.gpa <= x)
                    => \E b \in Mapped : b[1] = x
<1> DEFINE open == i_job.op = "unmap" /\ r[1] = i_job.region[1]
<1>0. IommuType /\ JobInv /\ ApartInv /\ MappedExact
  BY DEF IommuIInv
<1>1. /\ r[1] \in Nat /\ r[2] \in Nat /\ r[3] \in Nat \ {0}
      /\ i_job.gpa \in Nat /\ i_job.size \in Nat
      /\ i_job.region[1] \in Nat /\ i_job.region[3] \in Nat
  BY <1>0, IommuTypes
<1>2. Kept(r) \subseteq Mapped
  BY <1>0 DEF MappedExact
<1>3. open => Kept(r) = Span(i_job.gpa, r[2] + (i_job.gpa - r[1]), i_job.size)
  BY DEF Kept
<1>4. ~open => Kept(r) = Span(r[1], r[2], r[3])
  BY DEF Kept
<1>5. open => /\ i_job.size > 0 /\ r[1] <= i_job.gpa
              /\ i_job.gpa + i_job.size = r[1] + i_job.region[3]
  BY <1>0 DEF JobInv
<1>6. r[2] + (i_job.gpa - r[1]) \in Int /\ i_job.gpa \in Int /\ i_job.size \in Int
      /\ r[1] \in Int /\ r[2] \in Int /\ r[3] \in Int
  BY <1>1
<1>7. ASSUME open PROVE r[3] = i_job.region[3]
  <2>1. CASE \E q \in i_regions : q[1] = i_job.region[1] /\ q[3] = i_job.region[3]
    <3>1. PICK q \in i_regions : q[1] = i_job.region[1] /\ q[3] = i_job.region[3]
      BY <2>1
    <3>2. q[1] \in Nat /\ q[3] \in Nat \ {0}
      BY <1>0, IommuTypes
    <3>3. In(r, r[1]) /\ In(q, r[1])
      BY <3>1, <3>2, <1>1, <1>7 DEF In
    <3>4. r \in Claimed /\ q \in Claimed
      BY DEF Claimed
    <3>5. r = q
      BY <3>3, <3>4, <1>0, <1>1 DEF ApartInv
    <3> QED
      BY <3>1, <3>5
  <2>2. CASE i_job.gpa = i_job.region[1] /\ \A b \in Mapped : ~In(i_job.region, b[1])
    <3>1. PICK x \in Int : x = i_job.gpa
      BY <1>6
    <3>2. x >= i_job.gpa /\ x < i_job.gpa + i_job.size
      BY <3>1, <1>1, <1>5, <1>7
    <3>3. <<x, (r[2] + (i_job.gpa - r[1])) + (x - i_job.gpa)>> \in Kept(r)
      BY <3>2, <1>3, <1>6, <1>7, SpanPairs
    <3>4. \E b \in Mapped : b[1] = i_job.gpa
      BY <3>1, <3>3, <1>2
    <3>5. In(i_job.region, i_job.gpa)
      BY <2>2, <1>1, <1>5, <1>7 DEF In
    <3> QED
      BY <3>4, <3>5, <2>2
  <2> QED
    BY <2>1, <2>2, <1>0, <1>7 DEF ApartInv
<1>8. ASSUME NEW b \in Kept(r)
      PROVE  b[1] \in Nat /\ In(r, b[1]) /\ (open => i_job.gpa <= b[1])
  <2>1. CASE open
    <3>1. b[1] \in Int /\ i_job.gpa <= b[1] /\ b[1] < i_job.gpa + i_job.size
      BY <2>1, <1>3, <1>6, SpanPairs
    <3> QED
      BY <3>1, <2>1, <1>1, <1>5, <1>7 DEF In
  <2>2. CASE ~open
    <3>1. b[1] \in Int /\ r[1] <= b[1] /\ b[1] < r[1] + r[3]
      BY <2>2, <1>4, <1>6, SpanPairs
    <3> QED
      BY <3>1, <2>2, <1>1 DEF In
  <2> QED
    BY <2>1, <2>2
<1>9. ASSUME NEW x \in Nat, In(r, x), open => i_job.gpa <= x
      PROVE  \E b \in Mapped : b[1] = x
  <2>1. CASE open
    <3>1. i_job.gpa <= x /\ x < i_job.gpa + i_job.size
      BY <2>1, <1>1, <1>5, <1>7, <1>9 DEF In
    <3>2. <<x, (r[2] + (i_job.gpa - r[1])) + (x - i_job.gpa)>> \in Kept(r)
      BY <3>1, <2>1, <1>3, <1>6, SpanPairs
    <3> QED
      BY <3>2, <1>2
  <2>2. CASE ~open
    <3>1. <<x, r[2] + (x - r[1])>> \in Kept(r)
      BY <2>2, <1>4, <1>6, <1>9, SpanPairs DEF In
    <3> QED
      BY <3>1, <1>2
  <2> QED
    BY <2>1, <2>2
<1> QED
  BY <1>3, <1>4, <1>7, <1>8, <1>9

(* An address that a page maps is one of a region, or of what the call has
   mapped so far, or of what a failed call left.                           *)
LEMMA PageWhere ==
    ASSUME IommuIInv, NEW p \in i_domain, NEW x \in Nat, PageAt(p, x)
    PROVE  \/ \E r \in i_regions :
                /\ In(r, x)
                /\ i_job.op = "unmap" /\ r[1] = i_job.region[1] => i_job.gpa <= x
           \/ i_job.op = "map" /\ In(i_job.region, x) /\ x < i_job.gpa
           \/ \E b \in i_rest : b[1] = x
<1>0. IommuType /\ JobInv /\ MappedExact
  BY DEF IommuIInv
<1>1. PICK b \in Mapped : b[1] = x
  <2>1. <<x, p.hpa + (x - p.gpa)>> \in Mapped
    BY <1>0, MappedBytes
  <2> QED
    BY <2>1
<1>2. CASE \E r \in i_regions : b \in Kept(r)
  BY <1>1, <1>2, KeptBytes
<1>3. CASE b \in Done(i_job.region)
  <2>1. i_job.op = "map" /\ b \in Span(i_job.region[1], i_job.region[2],
                                       i_job.gpa - i_job.region[1])
    BY <1>3 DEF Done
  <2>2. /\ i_job.region[1] \in Int /\ i_job.region[2] \in Int /\ i_job.region[3] \in Int
        /\ i_job.gpa \in Int /\ i_job.size \in Int /\ i_job.gpa - i_job.region[1] \in Int
    BY <1>0, IommuTypes
  <2>3. /\ i_job.region[1] <= x
        /\ x < i_job.region[1] + (i_job.gpa - i_job.region[1])
    BY <2>1, <2>2, <1>1, SpanPairs
  <2>4. i_job.size > 0 /\ i_job.gpa + i_job.size = i_job.region[1] + i_job.region[3]
    BY <2>1, <1>0 DEF JobInv
  <2> QED
    BY <2>1, <2>2, <2>3, <2>4 DEF In
<1>4. CASE b \in i_rest
  BY <1>1, <1>4
<1>5. (\E r \in i_regions : b \in Kept(r)) \/ b \in Done(i_job.region) \/ b \in i_rest
  BY <1>0, <1>1 DEF MappedExact
<1> QED
  BY <1>2, <1>3, <1>4, <1>5

(* Without a call the regions are mapped whole.                            *)
LEMMA RegionsWhole ==
    ASSUME IommuIInv, i_job = NoJob
    PROVE  /\ \A r \in i_regions : Kept(r) = Span(r[1], r[2], r[3])
           /\ Mapped = (UNION {Kept(r) : r \in i_regions}) \cup i_rest
           /\ Claimed = i_regions
           /\ \A r \in i_regions : \A x \in Nat : In(r, x) => \E b \in Mapped : b[1] = x
<1>1. i_job.op = "none"
  BY DEF NoJob
<1>2. \A r \in i_regions : Kept(r) = Span(r[1], r[2], r[3])
  BY <1>1 DEF Kept
<1>3. Done(i_job.region) = {} /\ Claimed = i_regions
  BY <1>1 DEF Done, Claimed
<1>4. Mapped = (UNION {Kept(r) : r \in i_regions}) \cup i_rest
  BY <1>3 DEF IommuIInv, MappedExact
<1>5. \A r \in i_regions : \A x \in Nat : In(r, x) => \E b \in Mapped : b[1] = x
  BY <1>1, KeptBytes
<1> QED
  BY <1>2, <1>3, <1>4, <1>5

(* The region a call begins with is apart from all that is mapped
   (enclave_pci_iommu_map).                                                *)
LEMMA MapBeginStep ==
    ASSUME IommuIInv, NEW gpa \in Gpas, NEW hpa \in Hpas, NEW n \in RegionLens,
           MapBegin(gpa, hpa, n)
    PROVE  IommuIInv'
<1> DEFINE new == <<gpa, hpa, n>>
<1>0. IommuType /\ JobInv /\ ApartInv /\ PageInv /\ MappedExact
  BY DEF IommuIInv
<1>1. /\ gpa \in Nat /\ hpa \in Nat /\ n \in Nat \ {0} /\ n % SmallPage = 0 /\ n < SizeWord
      /\ BigPage \in Nat
  BY <1>0, IommuAssumption DEF IommuType, WholePages
<1>2. /\ i_job = NoJob /\ Apart(gpa, n)
      /\ i_job' = [op |-> "map", gpa |-> gpa, hpa |-> hpa, size |-> n, page |-> BigPage,
                   region |-> new]
      /\ UNCHANGED <<i_domain, i_regions, i_rest>>
  BY DEF MapBegin, NoJob
<1>3. Mapped' = Mapped /\ Claimed' = i_regions \cup {new}
  BY <1>2 DEF Mapped, Claimed
<1>4. /\ Mapped = (UNION {Kept(r) : r \in i_regions}) \cup i_rest
      /\ Claimed = i_regions
      /\ \A r \in i_regions : Kept(r) = Span(r[1], r[2], r[3])
  BY <1>2, RegionsWhole
<1>5. new[1] = gpa /\ new[2] = hpa /\ new[3] = n
  OBVIOUS
<1>6. \A x \in Nat : In(new, x) => x \in gpa .. gpa + n - 1
  BY <1>1, <1>5 DEF In
<1> HIDE DEF new
<1>7. \A b \in Mapped : ~In(new, b[1])
  BY <1>0, <1>2, <1>6, MappedBytes DEF Apart
<1>8. \A b \in i_rest : ~In(new, b[1])
  BY <1>0, <1>2, <1>6, IommuTypes DEF Apart
<1>9. \A r \in i_regions : \A x \in Nat : ~(In(r, x) /\ In(new, x))
  BY <1>2, <1>7, RegionsWhole
<1>10. new \notin i_regions
  <2>1. In(new, gpa)
    BY <1>1, <1>5 DEF In
  <2> QED
    BY <2>1, <1>1, <1>9
<1>11. IommuType'
  <2>1. i_job' \in [op : {"none", "map", "unmap"}, gpa : Nat, hpa : Nat, size : Nat,
                    page : {SmallPage, BigPage}, region : Nat \X Nat \X Nat]
    BY <1>1, <1>2 DEF new
  <2> QED
    BY <2>1, <1>0, <1>2 DEF IommuType
<1>12. JobInv'
  <2>1. new \in Nat \X Nat \X RegionLens
    BY <1>1 DEF new
  <2>2. /\ i_job'.op = "map" /\ i_job'.gpa = gpa /\ i_job'.hpa = hpa /\ i_job'.size = n
        /\ i_job'.page = BigPage /\ i_job'.region = new /\ i_regions' = i_regions
    BY <1>2
  <2> QED
    BY <2>1, <2>2, <1>1, <1>5, <1>10 DEF JobInv
<1>13. ApartInv'
  <2>1. \A r, q \in i_regions : \A x \in Nat : In(r, x) /\ In(q, x) => r = q
    BY <1>0, <1>4 DEF ApartInv
  <2>2. \A r, q \in Claimed' : \A x \in Nat : In(r, x) /\ In(q, x) => r = q
    BY <2>1, <1>3, <1>9
  <2>3. \A b \in i_rest, r \in Claimed' : ~In(r, b[1])
    BY <1>0, <1>3, <1>4, <1>8 DEF ApartInv
  <2>4. i_job'.op # "unmap" /\ i_rest' = i_rest
    BY <1>2
  <2> QED
    BY <2>2, <2>3, <2>4 DEF ApartInv
<1>14. PageInv'
  <2>1. \A p \in i_domain : \A x \in Nat : ~(In(new, x) /\ PageAt(p, x))
    <3> TAKE p \in i_domain
    <3> TAKE x \in Nat
    <3>1. PageAt(p, x) => \E b \in Mapped : b[1] = x
      <4>1. PageAt(p, x) => <<x, p.hpa + (x - p.gpa)>> \in Mapped
        BY <1>0, MappedBytes
      <4> QED
        BY <4>1
    <3> QED
      BY <3>1, <1>7
  <2>2. i_domain' = i_domain
    BY <1>2
  <2>3. \A r \in Claimed' : r \in Claimed \/ r = new
    BY <1>3, <1>4
  <2> QED
    BY <2>1, <2>2, <2>3, <1>0 DEF PageInv
<1>15. MappedExact'
  <2>1. \A r \in i_regions : Kept(r)' = Span(r[1], r[2], r[3])
    BY <1>2 DEF Kept
  <2>2. {Kept(r)' : r \in i_regions} = {Kept(r) : r \in i_regions}
    BY <2>1, <1>4
  <2>3. Done(i_job.region)' = {}
    <3>1. gpa \in Int /\ hpa \in Int /\ 0 \in Nat /\ gpa - gpa = 0
      BY <1>1
    <3>2. Span(gpa, hpa, 0) = {}
      BY <3>1, SpanJoin
    <3>3. Done(i_job.region)' = Span(new[1], new[2], gpa - new[1])
      BY <1>2 DEF Done
    <3> QED
      BY <3>1, <3>2, <3>3, <1>5
  <2> QED
    BY <2>2, <2>3, <1>2, <1>3, <1>4 DEF MappedExact
<1> QED
  BY <1>11, <1>12, <1>13, <1>14, <1>15 DEF IommuIInv

(* A call unmaps a region that is mapped, from its start, or one of which
   nothing is mapped (enclave_pci_iommu_unmap).                            *)
LEMMA UnmapBeginStep ==
    ASSUME IommuIInv, NEW gpa \in Gpas, NEW n \in RegionLens, UnmapBegin(gpa, n)
    PROVE  IommuIInv'
<1> DEFINE new == <<gpa, 0, n>>
<1>0. IommuType /\ JobInv /\ ApartInv /\ PageInv /\ MappedExact
  BY DEF IommuIInv
<1>1. /\ gpa \in Nat /\ n \in Nat \ {0} /\ n % SmallPage = 0 /\ n < SizeWord
      /\ BigPage \in Nat
  BY <1>0, IommuAssumption DEF IommuType, WholePages
<1>2. /\ i_job = NoJob
      /\ (\E hpa \in Hpas : <<gpa, hpa, n>> \in i_regions) \/ Apart(gpa, n)
      /\ i_job' = [op |-> "unmap", gpa |-> gpa, hpa |-> 0, size |-> n, page |-> BigPage,
                   region |-> new]
      /\ UNCHANGED <<i_domain, i_regions, i_rest>>
  BY DEF UnmapBegin, NoJob
<1>3. Mapped' = Mapped /\ Claimed' = i_regions
  BY <1>2 DEF Mapped, Claimed
<1>4. /\ Mapped = (UNION {Kept(r) : r \in i_regions}) \cup i_rest
      /\ Claimed = i_regions
      /\ \A r \in i_regions : Kept(r) = Span(r[1], r[2], r[3])
  BY <1>2, RegionsWhole
<1>5. new[1] = gpa /\ new[3] = n
  OBVIOUS
<1>6. \A x \in Nat : In(new, x) => x \in gpa .. gpa + n - 1
  BY <1>1, <1>5 DEF In
<1>7. In(new, gpa)
  BY <1>1, <1>5 DEF In
<1>8. \/ \E r \in i_regions : r[1] = gpa /\ r[3] = n
      \/ \A b \in Mapped : ~In(new, b[1])
  <2>1. CASE \E hpa \in Hpas : <<gpa, hpa, n>> \in i_regions
    BY <2>1
  <2>2. CASE Apart(gpa, n)
    BY <2>2, <1>0, <1>6, MappedBytes DEF Apart
  <2> QED
    BY <2>1, <2>2, <1>2
<1>9. /\ i_job'.op = "unmap" /\ i_job'.gpa = gpa /\ i_job'.size = n
      /\ i_job'.page = BigPage /\ i_job'.region = new
      /\ i_domain' = i_domain /\ i_regions' = i_regions /\ i_rest' = i_rest
  BY <1>2
<1>10. i_job' \in [op : {"none", "map", "unmap"}, gpa : Nat, hpa : Nat, size : Nat,
                   page : {SmallPage, BigPage}, region : Nat \X Nat \X Nat]
  BY <1>1, <1>2
<1> HIDE DEF new
<1>11. ASSUME NEW r \in i_regions, r[1] = gpa PROVE r[3] = n
  <2>0. r[1] \in Nat /\ r[3] \in Nat \ {0}
    BY <1>0, IommuTypes
  <2>1. In(r, gpa)
    BY <2>0, <1>11 DEF In
  <2>2. CASE \E q \in i_regions : q[1] = gpa /\ q[3] = n
    <3>1. PICK q \in i_regions : q[1] = gpa /\ q[3] = n
      BY <2>2
    <3>2. In(q, gpa)
      BY <3>1, <1>1 DEF In
    <3>3. r = q
      BY <3>2, <2>1, <1>0, <1>1, <1>4 DEF ApartInv
    <3> QED
      BY <3>1, <3>3
  <2>3. CASE \A b \in Mapped : ~In(new, b[1])
    <3>1. \E b \in Mapped : b[1] = gpa
      BY <2>1, <1>1, <1>2, RegionsWhole
    <3> QED
      BY <3>1, <2>3, <1>7
  <2> QED
    BY <2>2, <2>3, <1>8
<1>12. IommuType'
  BY <1>0, <1>9, <1>10 DEF IommuType
<1>13. JobInv'
  BY <1>1, <1>5, <1>9 DEF JobInv
<1>14. ApartInv'
  <2>1. /\ \A r, q \in i_regions : \A x \in Nat : In(r, x) /\ In(q, x) => r = q
        /\ \A b \in i_rest, r \in i_regions : ~In(r, b[1])
    BY <1>0, <1>4 DEF ApartInv
  <2> QED
    BY <2>1, <1>3, <1>5, <1>8, <1>9 DEF ApartInv
<1>15. PageInv'
  BY <1>0, <1>3, <1>4, <1>9 DEF PageInv
<1>16. MappedExact'
  <2>1. ASSUME NEW r \in i_regions PROVE Kept(r)' = Kept(r)
    <3>1. CASE r[1] = gpa
      <4>1. Kept(r)' = Span(gpa, r[2] + (gpa - r[1]), n)
        BY <3>1, <1>5, <1>9 DEF Kept
      <4>2. r[2] + (gpa - r[1]) = r[2]
        <5>1. r[1] \in Nat /\ r[2] \in Nat
          BY <1>0, IommuTypes
        <5> QED
          BY <5>1, <3>1
      <4> QED
        BY <4>1, <4>2, <3>1, <1>4, <1>11
    <3>2. CASE r[1] # gpa
      BY <3>2, <1>4, <1>5, <1>9 DEF Kept
    <3> QED
      BY <3>1, <3>2
  <2>2. {Kept(r)' : r \in i_regions} = {Kept(r) : r \in i_regions}
    BY <2>1
  <2>3. Done(i_job.region)' = {}
    BY <1>9 DEF Done
  <2> QED
    BY <2>2, <2>3, <1>3, <1>4, <1>9 DEF MappedExact
<1> QED
  BY <1>12, <1>13, <1>14, <1>15, <1>16 DEF IommuIInv

(* A call that fails leaves the pages it has mapped, which are apart from every
   region (the error path of enclave_pci_iommu_map).                       *)
LEMMA MapFailsStep ==
    ASSUME IommuIInv, MapFails
    PROVE  IommuIInv'
<1> DEFINE left == Span(i_job.region[1], i_job.region[2], i_job.gpa - i_job.region[1])
<1>0. IommuType /\ JobInv /\ ApartInv /\ PageInv /\ MappedExact
  BY DEF IommuIInv
<1>1. /\ i_job.op = "map" /\ i_rest' = i_rest \cup left
      /\ i_job' = NoJob /\ UNCHANGED <<i_domain, i_regions>>
  BY DEF MapFails
<1>2. /\ i_job.region[1] \in Nat /\ i_job.region[2] \in Nat /\ i_job.region[3] \in Nat
      /\ i_job.gpa \in Nat /\ i_job.size \in Nat
  BY <1>0, IommuTypes
<1>3. /\ i_job.size > 0 /\ i_job.region[1] <= i_job.gpa
      /\ i_job.gpa + i_job.size = i_job.region[1] + i_job.region[3]
      /\ i_job.region \notin i_regions
  BY <1>0, <1>1 DEF JobInv
<1>4. \A b \in left : b \in Nat \X Nat /\ b[1] \in Nat /\ In(i_job.region, b[1])
  <2> TAKE b \in left
  <2>1. i_job.region[1] \in Int /\ i_job.region[2] \in Int /\ i_job.gpa - i_job.region[1] \in Int
    BY <1>2
  <2>2. /\ b[1] \in Int /\ i_job.region[1] <= b[1]
        /\ b[1] < i_job.region[1] + (i_job.gpa - i_job.region[1])
        /\ b = <<b[1], i_job.region[2] + (b[1] - i_job.region[1])>>
    BY <2>1, SpanPairs
  <2>3. b[1] \in Nat /\ i_job.region[2] + (b[1] - i_job.region[1]) \in Nat
    BY <2>2, <1>2
  <2>4. In(i_job.region, b[1])
    BY <2>2, <1>2, <1>3 DEF In
  <2> QED
    BY <2>2, <2>3, <2>4
<1>5. left = Done(i_job.region)
  BY <1>1 DEF Done
<1> HIDE DEF left
<1>6. Claimed' = i_regions /\ Claimed = i_regions \cup {i_job.region} /\ Mapped' = Mapped
  BY <1>1 DEF Claimed, NoJob, Mapped
<1>7. i_job'.op = "none"
  BY <1>1 DEF NoJob
<1>8. IommuType'
  <2>1. NoJob \in [op : {"none", "map", "unmap"}, gpa : Nat, hpa : Nat, size : Nat,
                   page : {SmallPage, BigPage}, region : Nat \X Nat \X Nat]
    BY DEF NoJob
  <2>2. i_rest' \subseteq Nat \X Nat
    BY <1>0, <1>1, <1>4 DEF IommuType
  <2> QED
    BY <2>1, <2>2, <1>0, <1>1 DEF IommuType
<1>9. JobInv'
  BY <1>7 DEF JobInv
<1>10. ApartInv'
  <2>1. \A r, q \in i_regions : \A x \in Nat : In(r, x) /\ In(q, x) => r = q
    BY <1>0, <1>6 DEF ApartInv
  <2>2. \A b \in left, r \in i_regions : ~In(r, b[1])
    BY <1>0, <1>3, <1>4, <1>6 DEF ApartInv
  <2>3. \A b \in i_rest, r \in i_regions : ~In(r, b[1])
    BY <1>0, <1>6 DEF ApartInv
  <2>4. \A b \in i_rest', r \in i_regions : ~In(r, b[1])
    BY <2>2, <2>3, <1>1
  <2> QED
    BY <2>1, <2>4, <1>6, <1>7 DEF ApartInv
<1>11. PageInv'
  <2>1. Claimed' \subseteq Claimed /\ i_domain' = i_domain
    BY <1>1, <1>6
  <2> QED
    BY <2>1, <1>0 DEF PageInv
<1>12. MappedExact'
  <2>1. \A r \in i_regions : Kept(r)' = Kept(r)
    BY <1>1, <1>7 DEF Kept
  <2>2. {Kept(r)' : r \in i_regions} = {Kept(r) : r \in i_regions}
    BY <2>1
  <2>3. Done(i_job.region)' = {}
    BY <1>7 DEF Done
  <2>4. Mapped = (UNION {Kept(r) : r \in i_regions}) \cup left \cup i_rest
    BY <1>0, <1>5 DEF MappedExact
  <2> QED
    BY <2>2, <2>3, <2>4, <1>1, <1>6 DEF MappedExact
<1> QED
  BY <1>8, <1>9, <1>10, <1>11, <1>12 DEF IommuIInv

(* A round maps the next page of the region, where nothing was mapped; the last
   one ends at the region's end (the while loop of enclave_pci_iommu_map). *)
LEMMA MapRoundStep ==
    ASSUME IommuIInv, MapRound
    PROVE  IommuIInv'
<1> DEFINE page == Cut(i_job.size)
           left == i_job.size - page
           new == [gpa |-> i_job.gpa, hpa |-> i_job.hpa, size |-> page]
           reg == i_job.region
<1>0. IommuType /\ JobInv /\ ApartInv /\ PageInv /\ MappedExact
  BY DEF IommuIInv
<1>1. i_job.op = "map"
  BY DEF MapRound
<1>2. /\ PageSize(i_job.size, i_job.page) = page
      /\ i_job.size \in Nat \ {0} /\ i_job.size % SmallPage = 0 /\ i_job.size < SizeWord
  BY <1>0, <1>1, RoundPage
<1>3. /\ page \in {SmallPage, BigPage} /\ page \in Nat \ {0}
      /\ left \in Nat /\ left < SizeWord /\ left % SmallPage = 0
      /\ left % SizeWord = left
      /\ page = BigPage \/ left < BigPage
  BY <1>2, CutFits
<1>4. /\ i_job.gpa \in Nat /\ i_job.hpa \in Nat
      /\ reg[1] \in Nat /\ reg[2] \in Nat /\ reg[3] \in Nat /\ reg \in Nat \X Nat \X Nat
      /\ i_job.op \in {"none", "map", "unmap"}
      /\ i_job = [op |-> i_job.op, gpa |-> i_job.gpa, hpa |-> i_job.hpa,
                  size |-> i_job.size, page |-> i_job.page, region |-> i_job.region]
  BY <1>0, IommuTypes
<1>5. /\ reg[1] <= i_job.gpa /\ i_job.gpa + i_job.size = reg[1] + reg[3]
      /\ i_job.hpa = reg[2] + (i_job.gpa - reg[1])
      /\ reg \in (Nat \X Nat \X RegionLens) \ i_regions
  BY <1>0, <1>1 DEF JobInv
<1>6. i_domain' = i_domain \cup {new} /\ i_rest' = i_rest
  BY <1>2 DEF MapRound
<1>7. left > 0 =>
        /\ i_job' = [op |-> "map", gpa |-> i_job.gpa + page, hpa |-> i_job.hpa + page,
                     size |-> left, page |-> page, region |-> reg]
        /\ i_regions' = i_regions
  BY <1>1, <1>2, <1>3, <1>4 DEF MapRound
<1>8. left = 0 => i_job' = NoJob /\ i_regions' = i_regions \cup {reg}
  BY <1>2, <1>3 DEF MapRound
<1>9. left = i_job.size - page
  OBVIOUS
<1>10. new.gpa = i_job.gpa /\ new.hpa = i_job.hpa /\ new.size = page
  OBVIOUS
<1>11. new \in [gpa : Nat, hpa : Nat, size : {SmallPage, BigPage}]
  BY <1>3, <1>4
<1>12. page = Cut(i_job.size) /\ reg = i_job.region
  OBVIOUS
<1> HIDE DEF page, left, new, reg
<1>13. left > 0 \/ left = 0
  BY <1>3
<1>14. /\ left > 0 => /\ i_job'.op = "map" /\ i_job'.gpa = i_job.gpa + page
                      /\ i_job'.hpa = i_job.hpa + page /\ i_job'.size = left
                      /\ i_job'.page = page /\ i_job'.region = reg
       /\ left = 0 => i_job'.op = "none"
  BY <1>7, <1>8 DEF NoJob
<1>15. Claimed = i_regions \cup {reg} /\ Claimed' = Claimed
  <2>1. Claimed = i_regions \cup {reg}
    BY <1>1, <1>12 DEF Claimed
  <2>2. CASE left > 0
    BY <2>1, <2>2, <1>7, <1>14 DEF Claimed
  <2>3. CASE left = 0
    BY <2>1, <2>3, <1>8, <1>14 DEF Claimed
  <2> QED
    BY <2>1, <2>2, <2>3, <1>13
<1>16. \A x \in Nat : PageAt(new, x) => In(reg, x) /\ i_job.gpa <= x
  BY <1>2, <1>3, <1>4, <1>5, <1>9, <1>10 DEF PageAt, In
<1>17. \A p \in i_domain : \A x \in Nat : ~(PageAt(p, x) /\ PageAt(new, x))
  <2> SUFFICES ASSUME NEW p \in i_domain, NEW x \in Nat, PageAt(p, x), PageAt(new, x)
               PROVE  FALSE
    OBVIOUS
  <2>1. In(reg, x) /\ i_job.gpa <= x
    BY <1>16
  <2>2. ~\E r \in i_regions : In(r, x)
    BY <2>1, <1>0, <1>5, <1>15 DEF ApartInv
  <2>3. ~(x < i_job.gpa)
    BY <2>1, <1>4
  <2>4. ~\E b \in i_rest : b[1] = x
    BY <2>1, <1>0, <1>15 DEF ApartInv
  <2> QED
    BY <2>2, <2>3, <2>4, PageWhere
<1>18. IommuType'
  <2>1. i_domain' \subseteq [gpa : Nat, hpa : Nat, size : {SmallPage, BigPage}]
    BY <1>0, <1>6, <1>11 DEF IommuType
  <2>2. i_regions' \subseteq Nat \X Nat \X RegionLens
    BY <1>0, <1>5, <1>7, <1>8, <1>13 DEF IommuType
  <2>3. i_job' \in [op : {"none", "map", "unmap"}, gpa : Nat, hpa : Nat, size : Nat,
                    page : {SmallPage, BigPage}, region : Nat \X Nat \X Nat]
    <3>1. CASE left > 0
      <4>1. i_job.gpa + page \in Nat /\ i_job.hpa + page \in Nat
        BY <1>3, <1>4
      <4> QED
        BY <3>1, <4>1, <1>3, <1>4, <1>7
    <3>2. CASE left = 0
      BY <3>2, <1>8 DEF NoJob
    <3> QED
      BY <3>1, <3>2, <1>13
  <2> QED
    BY <2>1, <2>2, <2>3, <1>0, <1>6 DEF IommuType
<1>19. JobInv'
  <2>1. CASE left > 0
    <3>1. reg[1] <= i_job.gpa + page /\ (i_job.gpa + page) + left = reg[1] + reg[3]
      BY <1>2, <1>3, <1>4, <1>5, <1>9
    <3>2. i_job.hpa + page = reg[2] + ((i_job.gpa + page) - reg[1])
      BY <1>3, <1>4, <1>5
    <3>3. i_regions' = i_regions
      BY <2>1, <1>7
    <3> QED
      BY <3>1, <3>2, <3>3, <2>1, <1>3, <1>5, <1>14 DEF JobInv
  <2>2. CASE left = 0
    BY <2>2, <1>14 DEF JobInv
  <2> QED
    BY <2>1, <2>2, <1>13
<1>20. ApartInv'
  <2>1. i_job'.op # "unmap"
    BY <1>13, <1>14
  <2> QED
    BY <2>1, <1>0, <1>6, <1>15 DEF ApartInv
<1>21. PageInv'
  <2>1. \A p, q \in i_domain' : \A x \in Nat : PageAt(p, x) /\ PageAt(q, x) => p = q
    BY <1>0, <1>6, <1>17 DEF PageInv
  <2>2. ASSUME NEW r \in Claimed, NEW x \in Nat, In(r, x), PageAt(new, x)
        PROVE  /\ new.gpa >= r[1]
               /\ new.size = Cut(r[1] + r[3] - new.gpa)
               /\ new.hpa = r[2] + (new.gpa - r[1])
    <3>1. r = reg
      BY <2>2, <1>0, <1>15, <1>16 DEF ApartInv
    <3>2. r[1] + r[3] - new.gpa = i_job.size
      BY <3>1, <1>2, <1>4, <1>5, <1>10
    <3> QED
      BY <3>1, <3>2, <1>5, <1>10, <1>12
  <2>3. \A p \in i_domain' : p \in i_domain \/ p = new
    BY <1>6
  <2> QED
    BY <2>1, <2>2, <2>3, <1>0, <1>15 DEF PageInv
<1>22. MappedExact'
  <2> DEFINE m == i_job.gpa - reg[1]
             old == UNION {Kept(r) : r \in i_regions}
  <2>1. Mapped' = Mapped \cup Span(i_job.gpa, i_job.hpa, page)
    BY <1>6, <1>10 DEF Mapped
  <2>2. m \in Nat /\ reg[1] + m = i_job.gpa /\ reg[2] + m = i_job.hpa
        /\ reg[1] \in Int /\ reg[2] \in Int /\ page \in Nat
    BY <1>3, <1>4, <1>5
  <2>3. Span(reg[1], reg[2], m + page)
            = Span(reg[1], reg[2], m) \cup Span(i_job.gpa, i_job.hpa, page)
    <3> HIDE DEF m
    <3>1. PICK g \in Int, h \in Int, k \in Nat, l \in Nat :
            g = reg[1] /\ h = reg[2] /\ k = m /\ l = page
      BY <2>2
    <3>2. Span(g, h, k + l) = Span(g, h, k) \cup Span(g + k, h + k, l)
      BY SpanJoin
    <3> QED
      BY <3>1, <3>2, <2>2
  <2>4. Done(i_job.region) = Span(reg[1], reg[2], m)
    BY <1>1, <1>12 DEF Done
  <2>5. \A r \in i_regions : Kept(r)' = Kept(r)
    BY <1>1, <1>13, <1>14 DEF Kept
  <2>6. Mapped' = old \cup Span(reg[1], reg[2], m + page) \cup i_rest
    BY <2>1, <2>3, <2>4, <1>0 DEF MappedExact
  <2>7. CASE left > 0
    <3>1. UNION {Kept(r)' : r \in i_regions'} = old
      BY <2>5, <2>7, <1>7
    <3>2. Done(i_job.region)' = Span(reg[1], reg[2], m + page)
      <4>1. Done(i_job.region)' = Span(reg[1], reg[2], (i_job.gpa + page) - reg[1])
        BY <2>7, <1>14 DEF Done
      <4>2. (i_job.gpa + page) - reg[1] = m + page
        BY <1>3, <1>4
      <4> QED
        BY <4>1, <4>2
    <3> QED
      BY <3>1, <3>2, <2>6, <1>6 DEF MappedExact
  <2>8. CASE left = 0
    <3>1. m + page = reg[3]
      BY <2>8, <1>2, <1>3, <1>4, <1>5, <1>9
    <3>2. PICK w : w = reg
      OBVIOUS
    <3>3. Kept(w)' = Span(reg[1], reg[2], m + page)
      BY <3>1, <3>2, <2>8, <1>14 DEF Kept
    <3>4. UNION {Kept(r)' : r \in i_regions'} = old \cup Span(reg[1], reg[2], m + page)
      <4>1. \A r \in i_regions' : r \in i_regions \/ r = w
        BY <3>2, <2>8, <1>8
      <4>2. w \in i_regions' /\ i_regions \subseteq i_regions'
        BY <3>2, <2>8, <1>8
      <4> QED
        BY <4>1, <4>2, <3>3, <2>5
    <3>5. Done(i_job.region)' = {}
      BY <2>8, <1>14 DEF Done
    <3> QED
      BY <3>4, <3>5, <2>6, <1>6 DEF MappedExact
  <2> QED
    BY <2>7, <2>8, <1>13
<1> QED
  BY <1>18, <1>19, <1>20, <1>21, <1>22 DEF IommuIInv

(* The page at the loop's address is the next one of the region that is being
   unmapped: the region was mapped with the pages that are cut now
   (enclave_pci_iommu_unmap).                                              *)
LEMMA UnmapPage ==
    ASSUME IommuIInv, i_job.op = "unmap",
           NEW r \in i_regions, r[1] = i_job.region[1]
    PROVE  \E p \in i_domain :
              /\ {q \in i_domain : q.gpa = i_job.gpa} = {p}
              /\ p.gpa = i_job.gpa /\ p.size = Cut(i_job.size)
              /\ p.hpa = r[2] + (i_job.gpa - r[1])
              /\ \A x \in Nat : PageAt(p, x) => In(r, x)
<1>0. IommuType /\ JobInv /\ ApartInv /\ PageInv
  BY DEF IommuIInv
<1>1. r \in Claimed /\ i_regions \subseteq Claimed
  BY DEF Claimed
<1>2. /\ r[1] \in Nat /\ r[2] \in Nat /\ r[3] \in Nat
      /\ i_job.gpa \in Nat /\ i_job.size \in Nat
  BY <1>0, IommuTypes
<1>3. /\ i_job.size > 0 /\ r[1] <= i_job.gpa
      /\ i_job.gpa + i_job.size = r[1] + r[3]
  BY <1>0, KeptBytes DEF JobInv
<1>4. In(r, i_job.gpa)
  BY <1>2, <1>3 DEF In
<1>5. PICK b \in Mapped : b[1] = i_job.gpa
  <2>1. i_job.gpa <= i_job.gpa
    BY <1>2
  <2> QED
    BY <2>1, <1>2, <1>4, KeptBytes
<1>6. PICK p \in i_domain : PageAt(p, i_job.gpa)
  BY <1>0, <1>5, MappedBytes
<1>7. p.gpa \in Nat /\ p.size \in Nat \ {0}
  BY <1>0, IommuTypes
<1>8. /\ p.gpa >= r[1] /\ p.size = Cut(r[1] + r[3] - p.gpa)
      /\ p.hpa = r[2] + (p.gpa - r[1])
  BY <1>0, <1>1, <1>2, <1>4, <1>6 DEF PageInv
<1>9. p.gpa = i_job.gpa
  <2> SUFFICES ASSUME p.gpa # i_job.gpa PROVE FALSE
    OBVIOUS
  <2>1. p.gpa < i_job.gpa /\ In(r, p.gpa) /\ PageAt(p, p.gpa)
    BY <1>2, <1>3, <1>6, <1>7, <1>8 DEF PageAt, In
  <2>2. ~\E c \in i_rest : c[1] = p.gpa
    BY <2>1, <1>0, <1>1 DEF ApartInv
  <2>3. PICK q \in i_regions : /\ In(q, p.gpa)
                               /\ q[1] = i_job.region[1] => i_job.gpa <= p.gpa
    BY <2>1, <2>2, <1>7, PageWhere
  <2>4. q = r
    BY <2>1, <2>3, <1>0, <1>1, <1>7 DEF ApartInv
  <2> QED
    BY <2>1, <2>3, <2>4, <1>2, <1>7
<1>10. r[1] + r[3] - p.gpa = i_job.size
  BY <1>2, <1>3, <1>9
<1>11. {q \in i_domain : q.gpa = i_job.gpa} = {p}
  <2>1. ASSUME NEW q \in i_domain, q.gpa = i_job.gpa PROVE q = p
    <3>1. q.size \in Nat \ {0}
      BY <1>0, IommuTypes
    <3>2. PageAt(q, i_job.gpa)
      BY <3>1, <2>1, <1>2 DEF PageAt
    <3> QED
      BY <3>2, <1>0, <1>2, <1>6 DEF PageInv
  <2> QED
    BY <2>1, <1>9
<1>12. p.size <= i_job.size
  <2>1. i_job.size \in Nat \ {0} /\ i_job.size % SmallPage = 0 /\ i_job.size < SizeWord
    BY <1>0, RoundPage
  <2>2. Cut(i_job.size) \in Nat /\ i_job.size - Cut(i_job.size) \in Nat
    BY <2>1, CutFits
  <2> QED
    BY <2>2, <1>2, <1>8, <1>10
<1>13. \A x \in Nat : PageAt(p, x) => In(r, x)
  BY <1>2, <1>3, <1>7, <1>9, <1>12 DEF PageAt, In
<1> QED
  BY <1>8, <1>9, <1>10, <1>11, <1>13

(* Removing a page removes its bytes and no others (iommu_unmap).          *)
LEMMA PageRemoved ==
    ASSUME IommuType, PageInv, NEW p \in i_domain, i_domain' = i_domain \ {p}
    PROVE  Mapped' = Mapped \ Span(p.gpa, p.hpa, p.size)
<1>1. \A q \in i_domain : q.gpa \in Int /\ q.hpa \in Int /\ q.size \in Int /\ q.gpa >= 0
  BY IommuTypes
<1>2. ASSUME NEW q \in i_domain, q # p
      PROVE  Span(q.gpa, q.hpa, q.size) \cap Span(p.gpa, p.hpa, p.size) = {}
  <2> SUFFICES ASSUME NEW b \in Span(q.gpa, q.hpa, q.size), b \in Span(p.gpa, p.hpa, p.size)
               PROVE  FALSE
    OBVIOUS
  <2>1. b[1] \in Int /\ q.gpa <= b[1] /\ b[1] < q.gpa + q.size
    BY <1>1, SpanPairs
  <2>2. p.gpa <= b[1] /\ b[1] < p.gpa + p.size
    BY <1>1, SpanPairs
  <2>3. b[1] \in Nat /\ PageAt(q, b[1]) /\ PageAt(p, b[1])
    BY <2>1, <2>2, <1>1 DEF PageAt
  <2> QED
    BY <2>3, <1>2 DEF PageInv
<1> DEFINE S(q) == Span(q.gpa, q.hpa, q.size)
<1>3. \A q \in i_domain : q # p => S(q) \cap S(p) = {}
  BY <1>2
<1>4. Mapped = UNION {S(q) : q \in i_domain} /\ Mapped' = UNION {S(q) : q \in i_domain \ {p}}
  BY DEF Mapped
<1> HIDE DEF S
<1>5. Mapped' = Mapped \ S(p)
  BY <1>3, <1>4
<1> QED
  BY <1>5 DEF S

(* A round that finds a page takes the next page of its region away; the last
   one ends at the region's end.  A call for a region of which nothing is mapped
   ends at its first round (the while loop of enclave_pci_iommu_unmap).    *)
LEMMA UnmapRoundStep ==
    ASSUME IommuIInv, UnmapRound
    PROVE  IommuIInv'
<1> DEFINE page == Cut(i_job.size)
           left == i_job.size - page
           found == {p \in i_domain : p.gpa = i_job.gpa}
           reg == i_job.region
<1>0. IommuType /\ JobInv /\ ApartInv /\ PageInv /\ MappedExact
  BY DEF IommuIInv
<1>1. i_job.op = "unmap"
  BY DEF UnmapRound
<1>2. /\ PageSize(i_job.size, i_job.page) = page
      /\ i_job.size \in Nat \ {0} /\ i_job.size % SmallPage = 0 /\ i_job.size < SizeWord
  BY <1>0, <1>1, RoundPage
<1>3. /\ page \in {SmallPage, BigPage} /\ page \in Nat \ {0}
      /\ left \in Nat /\ left < SizeWord /\ left % SmallPage = 0
      /\ left % SizeWord = left
      /\ page = BigPage \/ left < BigPage
  BY <1>2, CutFits
<1>4. /\ i_job.gpa \in Nat /\ i_job.hpa \in Nat
      /\ reg[1] \in Nat /\ reg[3] \in Nat /\ reg \in Nat \X Nat \X Nat
      /\ i_job = [op |-> i_job.op, gpa |-> i_job.gpa, hpa |-> i_job.hpa,
                  size |-> i_job.size, page |-> i_job.page, region |-> i_job.region]
  BY <1>0, IommuTypes
<1>5. reg[1] <= i_job.gpa /\ i_job.gpa + i_job.size = reg[1] + reg[3]
  BY <1>0, <1>1 DEF JobInv
<1>6. i_domain' = i_domain \ found /\ i_rest' = i_rest
  BY DEF UnmapRound
<1>7. (\E p \in found : p.size = page) /\ left > 0 =>
        /\ i_job' = [op |-> "unmap", gpa |-> i_job.gpa + page, hpa |-> i_job.hpa,
                     size |-> left, page |-> page, region |-> reg]
        /\ i_regions' = i_regions
  <2>1. (\E p \in found : p.size = page) /\ left > 0 =>
          /\ i_job' = [i_job EXCEPT !.gpa = @ + page, !.size = left, !.page = page]
          /\ i_regions' = i_regions
    BY <1>2, <1>3 DEF UnmapRound
  <2> QED
    BY <2>1, <1>1, <1>4
<1>8. ~((\E p \in found : p.size = page) /\ left > 0) =>
        i_job' = NoJob /\ i_regions' = {r \in i_regions : r[1] # reg[1]}
  BY <1>2, <1>3 DEF UnmapRound
<1>9. left = i_job.size - page /\ page = Cut(i_job.size) /\ reg = i_job.region
  OBVIOUS
<1>10. \A p \in i_domain : p \in found <=> p.gpa = i_job.gpa
  OBVIOUS
<1>11. found = {p \in i_domain : p.gpa = i_job.gpa}
  OBVIOUS
<1> HIDE DEF page, left, found, reg
<1> DEFINE goes == (\E p \in found : p.size = page) /\ left > 0
<1>12. /\ goes => /\ i_job'.op = "unmap" /\ i_job'.gpa = i_job.gpa + page
                  /\ i_job'.size = left /\ i_job'.page = page /\ i_job'.region = reg
                  /\ i_regions' = i_regions
       /\ ~goes => i_job'.op = "none" /\ i_regions' = {r \in i_regions : r[1] # reg[1]}
  BY <1>7, <1>8 DEF NoJob
<1>13. Claimed = i_regions /\ Claimed' = i_regions' /\ i_regions' \subseteq i_regions
  BY <1>1, <1>12 DEF Claimed
<1>14. IommuType'
  <2>1. i_job' \in [op : {"none", "map", "unmap"}, gpa : Nat, hpa : Nat, size : Nat,
                    page : {SmallPage, BigPage}, region : Nat \X Nat \X Nat]
    <3>1. CASE goes
      <4>1. i_job.gpa + page \in Nat
        BY <1>3, <1>4
      <4> QED
        BY <3>1, <4>1, <1>3, <1>4, <1>7
    <3>2. CASE ~goes
      BY <3>2, <1>8 DEF NoJob
    <3> QED
      BY <3>1, <3>2
  <2> QED
    BY <2>1, <1>0, <1>6, <1>13 DEF IommuType
<1>15. JobInv'
  <2>1. CASE goes
    <3>1. reg[1] <= i_job.gpa + page /\ (i_job.gpa + page) + left = reg[1] + reg[3]
      BY <1>2, <1>3, <1>4, <1>5, <1>9
    <3> QED
      BY <3>1, <2>1, <1>3, <1>12 DEF JobInv
  <2>2. CASE ~goes
    BY <2>2, <1>12 DEF JobInv
  <2> QED
    BY <2>1, <2>2
<1>16. PageInv'
  <2>1. i_domain' \subseteq i_domain /\ Claimed' \subseteq Claimed
    BY <1>6, <1>13
  <2> QED
    BY <2>1, <1>0 DEF PageInv
<1>17. /\ \A r, q \in Claimed' : \A x \in Nat : In(r, x) /\ In(q, x) => r = q
       /\ \A b \in i_rest', r \in Claimed' : ~In(r, b[1])
  BY <1>0, <1>6, <1>13 DEF ApartInv
<1>18. Mapped = (UNION {Kept(r) : r \in i_regions}) \cup i_rest
  <2>1. Done(i_job.region) = {}
    BY <1>1 DEF Done
  <2> QED
    BY <2>1, <1>0 DEF MappedExact
<1>19. Done(i_job.region)' = {}
  BY <1>12 DEF Done
<1>20. CASE \E r \in i_regions : r[1] = reg[1]
  <2>1. PICK r \in i_regions : r[1] = reg[1]
    BY <1>20
  <2>2. PICK p \in i_domain :
          /\ {q \in i_domain : q.gpa = i_job.gpa} = {p}
          /\ p.gpa = i_job.gpa /\ p.size = Cut(i_job.size)
          /\ p.hpa = r[2] + (i_job.gpa - r[1])
          /\ \A x \in Nat : PageAt(p, x) => In(r, x)
    BY <2>1, <1>1, <1>9, UnmapPage
  <2>3. found = {p} /\ p.size = page /\ i_domain' = i_domain \ {p}
    BY <2>2, <1>6, <1>9, <1>11
  <2>4. goes <=> left > 0
    BY <2>3
  <2>5. r[1] \in Nat /\ r[2] \in Nat /\ r[3] \in Nat \ {0} /\ r[3] = reg[3]
    BY <2>1, <1>0, <1>1, <1>9, IommuTypes, KeptBytes
  <2>6. \A q \in i_regions : q[1] = reg[1] => q = r
    <3> TAKE q \in i_regions
    <3> HAVE q[1] = reg[1]
    <3>1. q[1] \in Nat /\ q[3] \in Nat \ {0}
      BY <1>0, IommuTypes
    <3>2. In(q, r[1]) /\ In(r, r[1])
      BY <3>1, <2>1, <2>5 DEF In
    <3> QED
      BY <3>2, <2>5, <1>0, <1>13 DEF ApartInv
  <2> DEFINE gone == Span(p.gpa, p.hpa, p.size)
             h == r[2] + (i_job.gpa - r[1])
  <2>7. Mapped' = Mapped \ gone
    BY <2>3, <1>0, PageRemoved
  <2>8. gone = Span(i_job.gpa, h, page)
    BY <2>2, <2>3
  <2>9. i_job.gpa \in Int /\ h \in Int /\ page \in Nat /\ left \in Nat /\ page + left = i_job.size
    BY <2>5, <1>2, <1>3, <1>4, <1>9
  <2>10. Kept(r) = Span(i_job.gpa, h, i_job.size)
    BY <2>1, <1>1, <1>9 DEF Kept
  <2>11. \A b \in gone : b[1] \in Nat /\ In(r, b[1])
    <3> TAKE b \in gone
    <3>1. p.gpa \in Int /\ p.hpa \in Int /\ p.size \in Int /\ p.gpa >= 0
      BY <1>0, IommuTypes
    <3>2. b[1] \in Int /\ p.gpa <= b[1] /\ b[1] < p.gpa + p.size
      BY <3>1, SpanPairs
    <3>3. b[1] \in Nat /\ PageAt(p, b[1])
      BY <3>1, <3>2 DEF PageAt
    <3> QED
      BY <3>3, <2>2
  <2> HIDE DEF gone, h
  <2>12. Kept(r) = gone \cup Span(i_job.gpa + page, h + page, left)
         /\ gone \cap Span(i_job.gpa + page, h + page, left) = {}
         /\ Span(i_job.gpa + page, h + page, 0) = {}
    <3>1. PICK a \in Int, c \in Int, k \in Nat, l \in Nat :
            a = i_job.gpa /\ c = h /\ k = page /\ l = left
      BY <2>9
    <3>2. Span(a, c, k + l) = Span(a, c, k) \cup Span(a + k, c + k, l)
          /\ Span(a, c, k) \cap Span(a + k, c + k, l) = {}
      BY ONLY SpanJoin, k \in Nat, l \in Nat, a \in Int, c \in Int
    <3>3. a + k \in Int /\ c + k \in Int
      OBVIOUS
    <3>4. Span(a + k, c + k, 0) = {}
      BY <3>3, SpanJoin
    <3> QED
      BY <3>1, <3>2, <3>4, <2>8, <2>9, <2>10
  <2>13. \A q \in i_regions : q # r => Kept(q) \cap gone = {}
    <3> SUFFICES ASSUME NEW q \in i_regions, q # r, NEW b \in Kept(q), b \in gone
                 PROVE  FALSE
      OBVIOUS
    <3>1. b[1] \in Nat /\ In(q, b[1])
      BY KeptBytes
    <3> QED
      BY <3>1, <2>11, <1>0, <1>13 DEF ApartInv
  <2>14. i_rest \cap gone = {}
    BY <2>11, <1>0, <1>13 DEF ApartInv
  <2>15. \A q \in i_regions : q # r => Kept(q)' = Kept(q)
    <3>1. \A q \in i_regions : q # r => q[1] # i_job.region[1]
      BY <2>6, <1>9
    <3> QED
      BY <3>1, <1>9, <1>12 DEF Kept
  <2> DEFINE rest == Span(i_job.gpa + page, h + page, left)
             others == UNION {Kept(q) : q \in i_regions \ {r}}
  <2>16. Mapped = others \cup Kept(r) \cup i_rest
    BY <1>18
  <2>17. Mapped' = others \cup rest \cup i_rest
    <3> HIDE DEF rest
    <3>1. Kept(r) = gone \cup rest /\ gone \cap rest = {}
      BY <2>12 DEF rest
    <3>2. others \cap gone = {}
      BY <2>13
    <3> HIDE DEF others
    <3> QED
      BY <3>1, <3>2, <2>7, <2>14, <2>16
  <2>18. MappedExact'
    <3>1. CASE left > 0
      <4>1. Kept(r)' = rest
        <5>1. Kept(r)' = Span(i_job.gpa + page, r[2] + ((i_job.gpa + page) - r[1]), left)
          BY <3>1, <2>1, <2>4, <1>12 DEF Kept
        <5>2. r[2] + ((i_job.gpa + page) - r[1]) = h + page
          BY <2>5, <1>3, <1>4 DEF h
        <5> QED
          BY <5>1, <5>2
      <4>2. i_regions' = i_regions
        BY <3>1, <2>4, <1>12
      <4>3. UNION {Kept(q)' : q \in i_regions'} = others \cup rest
        <5> HIDE DEF rest
        <5> QED
          BY <4>1, <4>2, <2>15
      <4> HIDE DEF rest, others
      <4> QED
        BY <4>3, <2>17, <1>6, <1>19 DEF MappedExact
    <3>2. CASE left = 0
      <4>1. rest = {}
        BY <3>2, <2>12
      <4>2. i_regions' = i_regions \ {r}
        BY <3>2, <2>1, <2>4, <2>6, <1>12
      <4>3. UNION {Kept(q)' : q \in i_regions'} = others
        BY <4>2, <2>15
      <4> HIDE DEF rest, others
      <4> QED
        BY <4>1, <4>3, <2>17, <1>6, <1>19 DEF MappedExact
    <3> QED
      BY <3>1, <3>2, <1>3
  <2>19. ApartInv'
    <3>1. goes => \E q \in i_regions' : q[1] = i_job'.region[1] /\ q[3] = i_job'.region[3]
      BY <2>1, <2>5, <1>12
    <3> QED
      BY <3>1, <1>12, <1>17 DEF ApartInv
  <2> QED
    BY <2>18, <2>19, <1>14, <1>15, <1>16 DEF IommuIInv
<1>21. CASE ~\E r \in i_regions : r[1] = reg[1]
  <2>1. i_job.gpa = reg[1] /\ \A b \in Mapped : ~In(reg, b[1])
    BY <1>0, <1>1, <1>9, <1>21 DEF ApartInv
  <2>2. found = {}
    <3> SUFFICES ASSUME NEW p \in i_domain, p.gpa = i_job.gpa PROVE FALSE
      BY <1>11
    <3>1. p.size \in Nat \ {0}
      BY <1>0, IommuTypes
    <3>2. PageAt(p, i_job.gpa)
      BY <3>1, <1>4 DEF PageAt
    <3>3. <<i_job.gpa, p.hpa + (i_job.gpa - p.gpa)>> \in Mapped
      BY <3>2, <1>0, <1>4, MappedBytes
    <3>4. \E b \in Mapped : b[1] = i_job.gpa
      BY <3>3
    <3>5. In(reg, i_job.gpa)
      BY <2>1, <1>2, <1>4, <1>5 DEF In
    <3> QED
      BY <3>4, <3>5, <2>1
  <2>3. ~goes
    BY <2>2
  <2>4. i_regions' = i_regions /\ i_domain' = i_domain
    BY <2>2, <2>3, <1>6, <1>12, <1>21
  <2>5. \A r \in i_regions : Kept(r)' = Kept(r)
    BY <2>3, <1>9, <1>12, <1>21 DEF Kept
  <2>6. Mapped' = Mapped
    BY <2>4 DEF Mapped
  <2>7. MappedExact'
    BY <2>4, <2>5, <2>6, <1>6, <1>18, <1>19 DEF MappedExact
  <2>8. ApartInv'
    BY <2>3, <1>12, <1>17 DEF ApartInv
  <2> QED
    BY <2>7, <2>8, <1>14, <1>15, <1>16 DEF IommuIInv
<1> QED
  BY <1>20, <1>21

(* The loops keep the domain's pages and the regions together, at every round
   and for every page size, when the regions are whole pages and not empty: in
   particular an unmap finds the pages a map has made (enclave_pci_iommu_map,
   enclave_pci_iommu_unmap).                                               *)
THEOREM IommuAlways ==
    ASSUME WholePages
    PROVE  ISpec => []IommuIInv
<1>1. IInit => IommuIInv
  <2> SUFFICES ASSUME IInit PROVE IommuIInv
    OBVIOUS
  <2>1. i_domain = {} /\ i_job = NoJob /\ i_regions = {} /\ i_rest = {} /\ i_job.op = "none"
    BY DEF IInit, NoJob
  <2>2. NoJob \in [op : {"none", "map", "unmap"}, gpa : Nat, hpa : Nat, size : Nat,
                   page : {SmallPage, BigPage}, region : Nat \X Nat \X Nat]
    BY DEF NoJob
  <2>3. IommuType
    BY <2>1, <2>2 DEF IommuType
  <2>4. JobInv /\ ApartInv /\ PageInv
    BY <2>1 DEF JobInv, ApartInv, PageInv, Claimed
  <2>5. MappedExact
    BY <2>1 DEF MappedExact, Mapped, Done
  <2> QED
    BY <2>3, <2>4, <2>5 DEF IommuIInv
<1>2. IommuIInv /\ [INext]_ivars => IommuIInv'
  <2> SUFFICES ASSUME IommuIInv, [INext]_ivars PROVE IommuIInv'
    OBVIOUS
  <2>1. ASSUME NEW gpa \in Gpas, NEW n \in RegionLens, UnmapBegin(gpa, n) PROVE IommuIInv'
    BY <2>1, UnmapBeginStep
  <2>2. ASSUME NEW gpa \in Gpas, NEW n \in RegionLens, NEW hpa \in Hpas, MapBegin(gpa, hpa, n)
        PROVE  IommuIInv'
    BY <2>2, MapBeginStep
  <2>3. CASE MapRound
    BY <2>3, MapRoundStep
  <2>4. CASE MapFails
    BY <2>4, MapFailsStep
  <2>5. CASE UnmapRound
    BY <2>5, UnmapRoundStep
  <2>6. CASE UNCHANGED ivars
    <3>1. UNCHANGED <<i_domain, i_job, i_regions, i_rest>>
      BY <2>6 DEF ivars
    <3> QED
      BY <3>1 DEF IommuIInv, IommuType, JobInv, ApartInv, PageInv, MappedExact, Mapped, Kept,
                  Done, Claimed
  <2> QED
    BY <2>1, <2>2, <2>3, <2>4, <2>5, <2>6 DEF INext
<1> QED
  BY <1>1, <1>2, PTL DEF ISpec

(* The device reaches exactly the regions that are mapped, at every round of the
   loops, for every size of the pages and of the size word and for all regions
   of whole pages, when a region is unmapped as it was mapped
   (enclave_pci_iommu_map, enclave_pci_iommu_unmap).  A region of part of a page,
   or an empty one, wraps the size and is not in it.                       *)
THEOREM MappedCorrect ==
    ASSUME WholePages
    PROVE  ISpec => []MappedExact
<1>1. IommuIInv => MappedExact
  BY DEF IommuIInv
<1> QED
  BY <1>1, IommuAlways, PTL
=============================================================================
