--------------------------- MODULE ConsolesProofs ---------------------------
(***************************************************************************)
(* Proofs about the two consoles, for rings of any size and any number of  *)
(* readers.  The enclave's console is proved when nobody launches or       *)
(* resets under an open console (Rude is FALSE; the code does not look,    *)
(* and pisces_cons_init would then free a lock in use).                    *)
(***************************************************************************)
EXTENDS Console, V3Console, FiniteSetTheorems, TLAPS

(* An index that has gone round a ring once at most.                       *)
LEMMA ModOnce ==
    ASSUME NEW R \in Nat \ {0}
    PROVE  \A a \in 0 .. R - 1, i \in 0 .. R :
              /\ (a + i) % R = IF a + i < R THEN a + i ELSE a + i - R
              /\ (a + i) % R \in 0 .. R - 1
<1> TAKE a \in 0 .. R - 1, i \in 0 .. R
<1>1. CASE a + i < R
  BY <1>1
<1>2. CASE a + i >= R
  BY <1>2
<1> QED  BY <1>1, <1>2

-----------------------------------------------------------------------------
(***************************************************************************)
(* The enclave's console.                                                  *)
(***************************************************************************)

ReadPcs == {"idle", "lock", "first", "second", "unlock", "ret"}

ReadCalls == [pc : ReadPcs, length : Nat, left : Nat, ubuf : Seq(Nat), start : Nat,
              parts : 0 .. 2]

(* A read goes on only while a console file is open; an enclave inside the *)
(* lock runs.                                                              *)
OpenInv ==
    /\ cons_fds = {} \/ \E f \in Files : cons_fds = {f}
    /\ cons_fds # {} => connected = 1
    /\ \A t \in Readers : rd[t].pc # "idle" => cons_fds # {}
    /\ writer => up

(* What a reader inside the lock has done so far.  While it is at "first"  *)
(* it has taken nothing; at "second", what is left to take does not go     *)
(* round the end of the ring.                                              *)
ReadInv(t) ==
    /\ rd[t].pc = "lock" => rd[t].ubuf = <<>> /\ rd[t].parts = 0
    /\ rd[t].pc = "first" => /\ rd[t].left = rd[t].length /\ rd[t].left <= cur_len
                             /\ rd[t].ubuf = <<>> /\ rd[t].start = taken
                             /\ rd[t].parts = 0
    /\ rd[t].pc = "second" =>
          /\ rd[t].parts <= 1
          /\ rd[t].left <= cur_len
          /\ rd[t].left > 0 => read_idx < write_idx
    /\ rd[t].pc = "second" /\ rd[t].parts = 0 =>
          /\ rd[t].left = rd[t].length
          /\ rd[t].ubuf = <<>> /\ rd[t].start = taken
    /\ rd[t].pc = "second" /\ rd[t].parts = 1 /\ rd[t].left = 0 =>
          rd[t].ubuf = [i \in 1 .. rd[t].length |-> rd[t].start + i]
    /\ rd[t].pc \in {"unlock", "ret"} => rd[t].left = 0
    /\ rd[t].pc \in {"unlock", "ret"} /\ rd[t].parts <= 1 =>
          rd[t].ubuf = [i \in 1 .. rd[t].length |-> rd[t].start + i]

(* The console's inductive invariant.                                      *)
ConsoleIInv ==
    /\ CTypeOK
    /\ OpenInv
    /\ RingExclusive
    /\ LockHasOwner
    /\ UnreadIntact
    /\ \A t \in Readers : ReadInv(t)

LEMMA RingWrap ==
    ASSUME NEW a \in 0 .. RingSize - 1, NEW i \in 0 .. RingSize
    PROVE  /\ (a + i) % RingSize = IF a + i < RingSize THEN a + i ELSE a + i - RingSize
           /\ (a + i) % RingSize \in 0 .. RingSize - 1
BY ConsoleAssumption, ModOnce

(* The ring's index a character of the unread part is at.                  *)
LEMMA RingIndex ==
    ASSUME CTypeOK
    PROVE  \A i \in 0 .. RingSize :
              /\ (read_idx + i) % RingSize =
                    IF read_idx + i < RingSize THEN read_idx + i ELSE read_idx + i - RingSize
              /\ (read_idx + i) % RingSize \in 0 .. RingSize - 1
<1>1. RingSize \in Nat \ {0} /\ read_idx \in 0 .. RingSize - 1
  BY ConsoleAssumption DEF CTypeOK
<1> QED  BY <1>1, RingWrap

(* What is copied from the ring is the next part of the stream.            *)
LEMMA FromRingIsStream ==
    ASSUME CTypeOK, UnreadIntact, NEW n \in Nat, n <= cur_len, n <= RingSize - read_idx
    PROVE  /\ FromRing(n) = [i \in 1 .. n |-> taken + i]
           /\ FromRing(n) \in Seq(Nat)
           /\ Len(FromRing(n)) = n
<1>1. RingSize \in Nat \ {0} /\ read_idx \in 0 .. RingSize - 1 /\ cur_len \in 0 .. RingSize
      /\ taken \in Nat
  BY ConsoleAssumption DEF CTypeOK
<1>2. ASSUME NEW i \in 1 .. n
      PROVE  buf[read_idx + i - 1] = taken + i
  <2>1. i - 1 \in 0 .. cur_len - 1 /\ i - 1 \in 0 .. RingSize
    BY <1>1
  <2>2. (read_idx + (i - 1)) % RingSize = read_idx + (i - 1)
    BY <2>1, <1>1, RingIndex
  <2>3. buf[(read_idx + (i - 1)) % RingSize] = taken + (i - 1) + 1
    BY <2>1 DEF UnreadIntact
  <2>4. read_idx + (i - 1) = read_idx + i - 1 /\ taken + (i - 1) + 1 = taken + i
    BY <1>1
  <2> QED  BY <2>2, <2>3, <2>4
<1>3. FromRing(n) = [i \in 1 .. n |-> taken + i]
  BY <1>2 DEF FromRing
<1>4. [i \in 1 .. n |-> taken + i] \in Seq(Nat)
  BY <1>1
<1>5. Len([i \in 1 .. n |-> taken + i]) = n
  BY <1>1
<1> QED  BY <1>3, <1>4, <1>5

LEMMA CopyToUserType ==
    ASSUME NEW u \in Seq(Nat), NEW c \in Seq(Nat)
    PROVE  CopyToUser(u, c) \in Seq(Nat)
<1> DEFINE m == IF Len(c) > Len(u) THEN Len(c) ELSE Len(u)
<1>1. m \in Nat
  OBVIOUS
<1>2. \A i \in 1 .. m : (IF i <= Len(c) THEN c[i] ELSE u[i]) \in Nat
  OBVIOUS
<1>3. [i \in 1 .. m |-> IF i <= Len(c) THEN c[i] ELSE u[i]] \in Seq(Nat)
  BY <1>1, <1>2
<1> QED  BY <1>3 DEF CopyToUser

LEMMA CopyToEmpty ==
    ASSUME NEW c \in Seq(Nat)
    PROVE  CopyToUser(<<>>, c) = [i \in 1 .. Len(c) |-> c[i]]
<1>1. (IF Len(c) > Len(<<>>) THEN Len(c) ELSE Len(<<>>)) = Len(c)
  OBVIOUS
<1> QED  BY <1>1 DEF CopyToUser

(* A part that is taken leaves the rest of the stream in the ring.         *)
LEMMA TakeKeepsStream ==
    ASSUME CTypeOK, UnreadIntact, NEW t \in Readers, NEW n \in Nat, n <= cur_len,
           NEW next, Take(t, n, next), UNCHANGED written
    PROVE  UnreadIntact' /\ read_idx' \in 0 .. RingSize - 1 /\ cur_len' \in 0 .. RingSize
           /\ taken' \in Nat
<1>1. /\ RingSize \in Nat \ {0} /\ read_idx \in 0 .. RingSize - 1 /\ cur_len \in 0 .. RingSize
      /\ taken \in Nat /\ written \in Nat /\ write_idx \in 0 .. RingSize - 1
  BY ConsoleAssumption DEF CTypeOK
<1>2. /\ read_idx' = (read_idx + n) % RingSize /\ cur_len' = cur_len - n
      /\ taken' = taken + n /\ write_idx' = write_idx /\ buf' = buf /\ written' = written
  BY DEF Take
<1>3. read_idx' = IF read_idx + n < RingSize THEN read_idx + n ELSE read_idx + n - RingSize
  BY <1>1, <1>2, RingIndex
<1>4. read_idx' \in 0 .. RingSize - 1 /\ cur_len' \in 0 .. RingSize /\ taken' \in Nat
  BY <1>1, <1>2, <1>3
<1>5. ASSUME NEW i \in 0 .. cur_len - n
      PROVE  (read_idx' + i) % RingSize = (read_idx + (n + i)) % RingSize
  <2>1. n + i \in 0 .. RingSize
    BY <1>1
  <2>2. (read_idx + (n + i)) % RingSize = IF read_idx + (n + i) < RingSize
           THEN read_idx + (n + i) ELSE read_idx + (n + i) - RingSize
    BY <2>1, RingIndex
  <2>3. i \in 0 .. RingSize
    BY <1>1
  <2>4. (read_idx' + i) % RingSize = IF read_idx' + i < RingSize THEN read_idx' + i
           ELSE read_idx' + i - RingSize
    BY <1>4, <2>3, RingWrap
  <2> QED  BY <2>2, <2>4, <1>3, <1>1
<1>6. taken' + cur_len' = written'
  BY <1>1, <1>2 DEF UnreadIntact
<1>7. write_idx' = (read_idx' + cur_len') % RingSize
  <2>1. (read_idx' + (cur_len - n)) % RingSize = (read_idx + (n + (cur_len - n))) % RingSize
    BY <1>5, <1>1
  <2>2. n + (cur_len - n) = cur_len
    BY <1>1
  <2> QED  BY <2>1, <2>2, <1>2 DEF UnreadIntact
<1>8. ASSUME NEW i \in 0 .. cur_len' - 1
      PROVE  buf'[(read_idx' + i) % RingSize] = taken' + i + 1
  <2>1. i \in 0 .. cur_len - n /\ n + i \in 0 .. cur_len - 1
    BY <1>1, <1>2
  <2>2. buf[(read_idx + (n + i)) % RingSize] = taken + (n + i) + 1
    BY <2>1 DEF UnreadIntact
  <2>3. taken + (n + i) + 1 = taken' + i + 1
    BY <1>1, <1>2, <2>1
  <2> QED  BY <2>1, <2>2, <2>3, <1>5, <1>2
<1> QED  BY <1>4, <1>6, <1>7, <1>8 DEF UnreadIntact

(* The enclave's character goes behind the unread part.                    *)
LEMMA PutKeepsStream ==
    ASSUME CTypeOK, UnreadIntact, WritePut
    PROVE  UnreadIntact' /\ write_idx' \in 0 .. RingSize - 1 /\ cur_len' \in 0 .. RingSize
           /\ written' \in Nat /\ buf' \in [0 .. RingSize - 1 -> Nat] /\ read_idx' = read_idx
<1>1. /\ RingSize \in Nat \ {0} /\ read_idx \in 0 .. RingSize - 1 /\ cur_len \in 0 .. RingSize
      /\ taken \in Nat /\ written \in Nat /\ write_idx \in 0 .. RingSize - 1
      /\ buf \in [0 .. RingSize - 1 -> Nat]
  BY ConsoleAssumption DEF CTypeOK
<1>2. CASE ~(cur_len < RingSize)
  <2>1. UNCHANGED <<ring, written, taken>>
    BY <1>2 DEF WritePut
  <2> QED  BY <2>1, <1>1 DEF UnreadIntact, ring
<1>3. CASE cur_len < RingSize
  <2>1. /\ buf' = [buf EXCEPT ![write_idx] = written + 1]
        /\ write_idx' = (write_idx + 1) % RingSize /\ cur_len' = cur_len + 1
        /\ written' = written + 1 /\ read_idx' = read_idx /\ taken' = taken
    BY <1>3 DEF WritePut
  <2>2. write_idx' = (IF write_idx + 1 < RingSize THEN write_idx + 1 ELSE write_idx + 1 - RingSize)
        /\ write_idx' \in 0 .. RingSize - 1
    <3>1. 1 \in 0 .. RingSize
      BY <1>1
    <3> QED  BY <2>1, <1>1, <3>1, RingWrap
  <2>3. write_idx = IF read_idx + cur_len < RingSize THEN read_idx + cur_len
                    ELSE read_idx + cur_len - RingSize
    BY <1>1, RingIndex DEF UnreadIntact
  <2>4. (read_idx + cur_len') % RingSize = IF read_idx + cur_len' < RingSize
           THEN read_idx + cur_len' ELSE read_idx + cur_len' - RingSize
    <3>1. cur_len' \in 0 .. RingSize
      BY <2>1, <1>1, <1>3
    <3> QED  BY <3>1, RingIndex
  <2>5. write_idx' = (read_idx' + cur_len') % RingSize
    BY <2>1, <2>2, <2>3, <2>4, <1>1
  <2>6. taken' + cur_len' = written'
    BY <2>1, <1>1 DEF UnreadIntact
  <2>7. ASSUME NEW i \in 0 .. cur_len' - 1
        PROVE  buf'[(read_idx' + i) % RingSize] = taken' + i + 1
    <3>1. i \in 0 .. RingSize /\ i \in 0 .. cur_len
      BY <1>1, <2>1
    <3>2. (read_idx + i) % RingSize = (IF read_idx + i < RingSize THEN read_idx + i
              ELSE read_idx + i - RingSize) /\ (read_idx + i) % RingSize \in 0 .. RingSize - 1
      BY <3>1, RingIndex
    <3>3. CASE i = cur_len
      <4>1. (read_idx + i) % RingSize = write_idx
        BY <3>3 DEF UnreadIntact
      <4>2. taken + i + 1 = written + 1
        BY <3>3, <1>1 DEF UnreadIntact
      <4> QED  BY <4>1, <4>2, <2>1, <1>1
    <3>4. CASE i # cur_len
      <4>1. i \in 0 .. cur_len - 1
        BY <3>1, <3>4, <1>1
      <4>2. (read_idx + i) % RingSize # write_idx
        <5>1. i < cur_len /\ i \in Nat /\ cur_len \in Nat /\ cur_len < RingSize
              /\ read_idx \in Nat /\ RingSize \in Nat
          BY <4>1, <1>1, <1>3
        <5> QED  BY <3>2, <2>3, <5>1
      <4>3. buf[(read_idx + i) % RingSize] = taken + i + 1
        BY <4>1 DEF UnreadIntact
      <4> QED  BY <4>2, <4>3, <3>2, <2>1, <1>1
    <3> QED  BY <3>3, <3>4
  <2>8. buf' \in [0 .. RingSize - 1 -> Nat] /\ cur_len' \in 0 .. RingSize /\ written' \in Nat
    BY <2>1, <1>1, <1>3
  <2> QED  BY <2>1, <2>2, <2>5, <2>6, <2>7, <2>8 DEF UnreadIntact
<1> QED  BY <1>2, <1>3
-----------------------------------------------------------------------------
(* A step of reader t leaves the other readers where they are.             *)
Reads(t) ==
    /\ rd' \in [Readers -> ReadCalls]
    /\ \A s \in Readers : s # t => rd'[s] = rd[s]

LEMMA ReadKept ==
    ASSUME NEW s \in Readers, ReadInv(s), rd'[s] = rd[s],
           \/ UNCHANGED <<read_idx, write_idx, cur_len, taken>>
           \/ rd[s].pc \notin {"first", "second"}
    PROVE  ReadInv(s)'
<1>1. CASE UNCHANGED <<read_idx, write_idx, cur_len, taken>>
  BY <1>1 DEF ReadInv
<1>2. CASE rd[s].pc \notin {"first", "second"}
  BY <1>2 DEF ReadInv
<1> QED  BY <1>1, <1>2

LEMMA RingTypes ==
    ASSUME CTypeOK
    PROVE  rd \in [Readers -> ReadCalls]
BY DEF CTypeOK, ReadCalls, ReadPcs

LEMMA ConsoleInit ==
    ASSUME CInit
    PROVE  ConsoleIInv
<1>1. RingSize \in Nat \ {0}
  BY ConsoleAssumption
<1>2. CTypeOK
  <2>1. Idle \in ReadCalls
    BY DEF Idle, ReadCalls, ReadPcs
  <2>2. rd \in [Readers -> ReadCalls]
    BY <2>1 DEF CInit
  <2>3. buf \in [0 .. RingSize - 1 -> Nat] /\ 0 \in 0 .. RingSize - 1 /\ 0 \in 0 .. RingSize
    BY <1>1 DEF CInit, Stale
  <2> QED  BY <2>2, <2>3 DEF CInit, CTypeOK, ReadCalls, ReadPcs
<1>3. \A t \in Readers : rd[t].pc = "idle"
  BY DEF CInit, Idle
<1>4. OpenInv /\ RingExclusive /\ LockHasOwner
  BY <1>3 DEF CInit, OpenInv, RingExclusive, LockHasOwner, InLock
<1>5. UnreadIntact
  <2>1. (read_idx + cur_len) % RingSize = 0
    BY <1>1 DEF CInit
  <2> QED  BY <2>1 DEF CInit, UnreadIntact
<1>6. \A t \in Readers : ReadInv(t)
  BY <1>3 DEF ReadInv
<1> QED  BY <1>2, <1>4, <1>5, <1>6 DEF ConsoleIInv

(* A step of reader t that stays outside the lock, or inside it, and leaves *)
(* the ring and everybody else alone.                                      *)
LEMMA ReadSame ==
    ASSUME ConsoleIInv, NEW t \in Readers, Reads(t),
           UNCHANGED <<raw_lock, ring, connected, cons_fds, writer, up, written, taken>>,
           InLock(t)' = InLock(t), rd[t].pc = "idle" => cons_fds # {}, ReadInv(t)'
    PROVE  ConsoleIInv'
<1>1. CTypeOK'
  BY DEF ConsoleIInv, CTypeOK, Reads, ReadCalls, ReadPcs, ring
<1>2. OpenInv'
  BY DEF ConsoleIInv, OpenInv, Reads
<1>3. RingExclusive' /\ LockHasOwner'
  BY DEF ConsoleIInv, RingExclusive, LockHasOwner, InLock, Reads
<1>4. UnreadIntact'
  BY DEF ConsoleIInv, UnreadIntact, ring
<1>5. ASSUME NEW s \in Readers PROVE ReadInv(s)'
  BY ReadKept DEF ConsoleIInv, Reads, ring
<1> QED  BY <1>1, <1>2, <1>3, <1>4, <1>5 DEF ConsoleIInv

LEMMA ReadBeginKeeps ==
    ASSUME ConsoleIInv, NEW t \in Readers, NEW f, NEW n \in Lengths, ReadBegin(t, f, n)
    PROVE  ConsoleIInv'
<1> DEFINE r == [Idle EXCEPT !.pc = "lock", !.length = n]
<1>1. rd \in [Readers -> ReadCalls]
  BY RingTypes DEF ConsoleIInv
<1>2. r \in ReadCalls /\ r.pc = "lock"
  <2>1. Idle \in ReadCalls
    BY DEF Idle, ReadCalls, ReadPcs
  <2>2. n \in Nat
    BY ConsoleAssumption
  <2> QED  BY <2>1, <2>2 DEF ReadCalls, ReadPcs
<1>a. r.ubuf = <<>> /\ r.parts = 0
  BY DEF Idle
<1> HIDE DEF r
<1>3. rd' = [rd EXCEPT ![t] = r]
  BY DEF ReadBegin, r
<1>4. Reads(t) /\ rd'[t].pc = "lock" /\ rd'[t].ubuf = <<>> /\ rd'[t].parts = 0
  BY <1>1, <1>2, <1>3, <1>a DEF Reads
<1>5. cons_fds # {} /\ rd[t].pc = "idle"
  BY DEF ReadBegin
<1>6. InLock(t)' = InLock(t)
  BY <1>4, <1>5 DEF InLock
<1>7. ReadInv(t)'
  BY <1>4 DEF ReadInv
<1> QED  BY <1>4, <1>5, <1>6, <1>7, ReadSame DEF ReadBegin

LEMMA ReadReturnKeeps ==
    ASSUME ConsoleIInv, NEW t \in Readers, ReadReturn(t)
    PROVE  ConsoleIInv'
<1>1. rd \in [Readers -> ReadCalls]
  BY RingTypes DEF ConsoleIInv
<1>2. Idle \in ReadCalls /\ Idle.pc = "idle"
  BY DEF Idle, ReadCalls, ReadPcs
<1>3. rd' = [rd EXCEPT ![t] = Idle]
  BY DEF ReadReturn
<1>4. Reads(t) /\ rd'[t].pc = "idle"
  BY <1>1, <1>2, <1>3 DEF Reads
<1>5. rd[t].pc = "ret"
  BY DEF ReadReturn
<1>6. InLock(t)' = InLock(t)
  BY <1>4, <1>5 DEF InLock
<1>7. ReadInv(t)'
  BY <1>4 DEF ReadInv
<1> QED  BY <1>4, <1>5, <1>6, <1>7, ReadSame DEF ReadReturn

LEMMA ReadLockKeeps ==
    ASSUME ConsoleIInv, NEW t \in Readers, ReadLock(t)
    PROVE  ConsoleIInv'
<1> DEFINE n == IF rd[t].length > cur_len THEN cur_len ELSE rd[t].length
<1>1. rd \in [Readers -> ReadCalls]
  BY RingTypes DEF ConsoleIInv
<1>a. cur_len \in Nat /\ taken \in Nat /\ rd[t].length \in Nat
  BY <1>1, ConsoleAssumption DEF ConsoleIInv, CTypeOK, ReadCalls
<1>2. n \in Nat /\ n <= cur_len
  BY <1>a
<1>b. rd' = [rd EXCEPT ![t].pc = "first", ![t].length = n, ![t].left = n, ![t].start = taken]
  BY DEF ReadLock
<1> HIDE DEF n
<1>3. Reads(t)
  <2> DEFINE r == [rd[t] EXCEPT !.pc = "first", !.length = n, !.left = n, !.start = taken]
  <2>1. r \in ReadCalls
    BY <1>1, <1>2, <1>a DEF ReadCalls, ReadPcs
  <2>2. rd' = [rd EXCEPT ![t] = r]
    BY <1>1, <1>b
  <2> HIDE DEF r
  <2> QED  BY <2>1, <2>2, <1>1 DEF Reads
<1>4. rd'[t].pc = "first" /\ rd'[t].length = n /\ rd'[t].left = n /\ rd'[t].start = taken
      /\ rd'[t].ubuf = rd[t].ubuf /\ rd'[t].parts = rd[t].parts
  BY <1>1, <1>b DEF ReadCalls
<1>5. /\ rd[t].pc = "lock" /\ raw_lock = 0 /\ raw_lock' = 1
      /\ UNCHANGED <<ring, connected, cons_fds, writer, up, written, taken>>
  BY DEF ReadLock, pisces_spin_lock
<1>6. ~writer /\ \A s \in Readers : ~InLock(s)
  BY <1>5 DEF ConsoleIInv, RingExclusive
<1>7. CTypeOK'
  BY <1>3, <1>5 DEF ConsoleIInv, CTypeOK, Reads, ReadCalls, ReadPcs, ring
<1>8. OpenInv'
  BY <1>3, <1>5 DEF ConsoleIInv, OpenInv, Reads
<1>9. RingExclusive' /\ LockHasOwner'
  BY <1>3, <1>4, <1>5, <1>6 DEF RingExclusive, LockHasOwner, InLock, Reads
<1>10. UnreadIntact'
  BY <1>5 DEF ConsoleIInv, UnreadIntact, ring
<1>11. ASSUME NEW s \in Readers PROVE ReadInv(s)'
  <2>1. CASE s = t
    BY <2>1, <1>2, <1>4, <1>5 DEF ConsoleIInv, ReadInv, ring
  <2>2. CASE s # t
    BY <2>2, <1>3, <1>5, ReadKept DEF ConsoleIInv, Reads, ring
  <2> QED  BY <2>1, <2>2
<1> QED  BY <1>7, <1>8, <1>9, <1>10, <1>11 DEF ConsoleIInv

(* Reader t lets the lock go: at the end, or after a fault.                *)
LEMMA ReadLeaves ==
    ASSUME ConsoleIInv, NEW t \in Readers, InLock(t), Reads(t), ~InLock(t)', raw_lock' = 0,
           UNCHANGED <<ring, connected, cons_fds, writer, up, written, taken>>, ReadInv(t)'
    PROVE  ConsoleIInv'
<1>1. rd[t].pc # "idle"
  BY DEF InLock
<1>2. ~writer /\ \A s \in Readers : s # t => ~InLock(s)
  BY DEF ConsoleIInv, RingExclusive
<1>3. CTypeOK'
  BY DEF ConsoleIInv, CTypeOK, Reads, ReadCalls, ReadPcs, ring
<1>4. OpenInv'
  BY <1>1 DEF ConsoleIInv, OpenInv, Reads
<1>5. RingExclusive' /\ LockHasOwner'
  BY <1>2 DEF RingExclusive, LockHasOwner, InLock, Reads
<1>6. UnreadIntact'
  BY DEF ConsoleIInv, UnreadIntact, ring
<1>7. ASSUME NEW s \in Readers PROVE ReadInv(s)'
  BY ReadKept DEF ConsoleIInv, Reads, ring
<1> QED  BY <1>3, <1>4, <1>5, <1>6, <1>7 DEF ConsoleIInv

LEMMA ReadUnlockKeeps ==
    ASSUME ConsoleIInv, NEW t \in Readers, ReadUnlock(t)
    PROVE  ConsoleIInv'
<1>1. rd \in [Readers -> ReadCalls]
  BY RingTypes DEF ConsoleIInv
<1>2. /\ rd[t].pc = "unlock" /\ raw_lock' = 0 /\ rd' = [rd EXCEPT ![t].pc = "ret"]
      /\ UNCHANGED <<ring, connected, cons_fds, writer, up, written, taken>>
  BY DEF ReadUnlock, pisces_spin_unlock
<1>3. Reads(t)
  BY <1>1, <1>2 DEF Reads, ReadCalls, ReadPcs
<1>4. /\ rd'[t].pc = "ret" /\ rd'[t].parts = rd[t].parts /\ rd'[t].left = rd[t].left
      /\ rd'[t].ubuf = rd[t].ubuf /\ rd'[t].length = rd[t].length /\ rd'[t].start = rd[t].start
  BY <1>1, <1>2 DEF ReadCalls
<1>5. InLock(t) /\ ~InLock(t)'
  BY <1>2, <1>4 DEF InLock
<1>6. ReadInv(t)'
  BY <1>2, <1>4 DEF ConsoleIInv, ReadInv
<1> QED  BY <1>2, <1>3, <1>5, <1>6, ReadLeaves

LEMMA ReadFaultKeeps ==
    ASSUME ConsoleIInv, NEW t \in Readers, InLock(t), ReadFault(t),
           UNCHANGED <<connected, cons_fds, writer, up, written>>
    PROVE  ConsoleIInv'
<1>1. rd \in [Readers -> ReadCalls]
  BY RingTypes DEF ConsoleIInv
<1>2. Idle \in ReadCalls /\ Idle.pc = "idle"
  BY DEF Idle, ReadCalls, ReadPcs
<1>3. raw_lock' = 0 /\ rd' = [rd EXCEPT ![t] = Idle] /\ UNCHANGED <<ring, taken>>
  BY DEF ReadFault, pisces_spin_unlock
<1>4. Reads(t) /\ rd'[t].pc = "idle"
  BY <1>1, <1>2, <1>3 DEF Reads
<1>5. ~InLock(t)' /\ ReadInv(t)'
  BY <1>4 DEF InLock, ReadInv
<1> QED  BY <1>3, <1>4, <1>5, ReadLeaves

(* What the reader has after it took a part.                               *)
LEMMA TakeResult ==
    ASSUME ConsoleIInv, NEW t \in Readers, NEW n \in Nat, n <= cur_len, n <= rd[t].left,
           n <= RingSize - read_idx, rd[t].parts <= 1, NEW next \in ReadPcs, Take(t, n, next)
    PROVE  /\ Reads(t)
           /\ rd'[t].pc = next /\ rd'[t].left = rd[t].left - n
           /\ rd'[t].parts = rd[t].parts + 1
           /\ rd'[t].length = rd[t].length /\ rd'[t].start = rd[t].start
           /\ rd[t].ubuf = <<>> => rd'[t].ubuf = [i \in 1 .. n |-> taken + i]
<1>1. rd \in [Readers -> ReadCalls]
  BY RingTypes DEF ConsoleIInv
<1>2. /\ rd[t] \in ReadCalls /\ rd[t].left \in Nat /\ rd[t].parts \in 0 .. 2
      /\ rd[t].ubuf \in Seq(Nat)
  BY <1>1 DEF ReadCalls
<1> DEFINE c == FromRing(n)
           u == CopyToUser(rd[t].ubuf, c)
           r == [rd[t] EXCEPT !.pc = next, !.left = rd[t].left - n,
                              !.parts = rd[t].parts + 1, !.ubuf = u]
<1>3. c = [i \in 1 .. n |-> taken + i] /\ c \in Seq(Nat) /\ Len(c) = n
  BY FromRingIsStream DEF ConsoleIInv
<1>4. u \in Seq(Nat)
  BY <1>2, <1>3, CopyToUserType
<1>5. rd' = [rd EXCEPT ![t] = r]
  BY <1>1 DEF Take
<1>6. rd[t].ubuf = <<>> => u = c
  <2>1. rd[t].ubuf = <<>> => u = [i \in 1 .. Len(c) |-> c[i]]
    BY <1>3, CopyToEmpty
  <2> HIDE DEF c, u
  <2>2. [i \in 1 .. Len(c) |-> c[i]] = c
    BY <1>3
  <2> QED  BY <2>1, <2>2
<1> HIDE DEF c, u
<1>7. rd[t].left - n \in Nat /\ rd[t].parts + 1 \in 0 .. 2
  BY <1>2
<1>8. r \in ReadCalls
  BY <1>2, <1>4, <1>7 DEF ReadCalls
<1>9. /\ r.pc = next /\ r.left = rd[t].left - n /\ r.parts = rd[t].parts + 1
      /\ r.length = rd[t].length /\ r.start = rd[t].start /\ r.ubuf = u
  BY <1>2 DEF ReadCalls
<1> HIDE DEF r
<1>10. Reads(t) /\ rd'[t] = r
  BY <1>1, <1>5, <1>8 DEF Reads
<1> QED  BY <1>3, <1>6, <1>9, <1>10

LEMMA TakeKeeps ==
    ASSUME ConsoleIInv, NEW t \in Readers, NEW n \in Nat, n <= cur_len,
           NEW next \in {"second", "unlock"}, Take(t, n, next), InLock(t),
           UNCHANGED <<connected, cons_fds, writer, up, written>>,
           Reads(t), rd'[t].pc = next, ReadInv(t)'
    PROVE  ConsoleIInv'
<1>1. rd[t].pc # "idle" /\ InLock(t)'
  BY DEF InLock
<1>2. ~writer /\ \A s \in Readers : s # t => ~InLock(s)
  BY DEF ConsoleIInv, RingExclusive
<1>3. UNCHANGED <<raw_lock, write_idx, buf>>
  BY DEF Take
<1>4. UnreadIntact' /\ read_idx' \in 0 .. RingSize - 1 /\ cur_len' \in 0 .. RingSize
      /\ taken' \in Nat
  BY TakeKeepsStream DEF ConsoleIInv
<1>5. CTypeOK'
  BY <1>3, <1>4 DEF ConsoleIInv, CTypeOK, Reads, ReadCalls, ReadPcs
<1>6. OpenInv'
  BY <1>1 DEF ConsoleIInv, OpenInv, Reads
<1>7. RingExclusive' /\ LockHasOwner'
  BY <1>1, <1>2, <1>3 DEF ConsoleIInv, RingExclusive, LockHasOwner, InLock, Reads
<1>8. ASSUME NEW s \in Readers PROVE ReadInv(s)'
  <2>1. CASE s # t
    <3>1. rd[s].pc \notin {"first", "second"}
      BY <1>2, <2>1 DEF InLock
    <3> QED  BY <3>1, <2>1, ReadKept DEF ConsoleIInv, Reads
  <2> QED  BY <2>1
<1> QED  BY <1>4, <1>5, <1>6, <1>7, <1>8 DEF ConsoleIInv

(* Where the unread part ends.                                             *)
LEMMA WriteIndex ==
    ASSUME ConsoleIInv
    PROVE  /\ write_idx \in 0 .. RingSize - 1 /\ read_idx \in 0 .. RingSize - 1
           /\ cur_len \in 0 .. RingSize /\ RingSize \in Nat \ {0} /\ taken \in Nat
           /\ write_idx = IF read_idx + cur_len < RingSize THEN read_idx + cur_len
                          ELSE read_idx + cur_len - RingSize
<1>1. /\ write_idx \in 0 .. RingSize - 1 /\ read_idx \in 0 .. RingSize - 1
      /\ cur_len \in 0 .. RingSize /\ RingSize \in Nat \ {0} /\ taken \in Nat
  BY ConsoleAssumption DEF ConsoleIInv, CTypeOK
<1> QED  BY <1>1, RingIndex DEF ConsoleIInv, UnreadIntact

(* A part that is not needed is skipped.                                   *)
LEMMA ReadSkips ==
    ASSUME ConsoleIInv, NEW t \in Readers, NEW next \in {"second", "unlock"}, InLock(t),
           rd' = [rd EXCEPT ![t].pc = next],
           UNCHANGED <<raw_lock, ring, connected, cons_fds, writer, up, written, taken>>,
           rd[t].pc = "first" => next = "second" /\ (rd[t].left > 0 => read_idx < write_idx),
           rd[t].pc = "second" => next = "unlock" /\ rd[t].left = 0,
           rd[t].pc # "unlock"
    PROVE  ConsoleIInv'
<1>1. rd \in [Readers -> ReadCalls]
  BY RingTypes DEF ConsoleIInv
<1>2. Reads(t)
  BY <1>1 DEF Reads, ReadCalls, ReadPcs
<1>3. /\ rd'[t].pc = next /\ rd'[t].parts = rd[t].parts /\ rd'[t].left = rd[t].left
      /\ rd'[t].ubuf = rd[t].ubuf /\ rd'[t].length = rd[t].length /\ rd'[t].start = rd[t].start
  BY <1>1 DEF ReadCalls
<1>4. InLock(t)' = InLock(t)
  BY <1>3 DEF InLock
<1>5. rd[t].pc \in {"first", "second"} /\ rd[t].pc # "idle"
  BY DEF InLock
<1>6. ReadInv(t)'
  <2>1. CASE rd[t].pc = "first"
    BY <2>1, <1>3 DEF ConsoleIInv, ReadInv, ring
  <2>2. CASE rd[t].pc = "second"
    <3>1. rd'[t].pc = "unlock" /\ rd'[t].left = 0 /\ rd[t].left = 0
      BY <2>2, <1>3
    <3>2. rd[t].parts \in 0 .. 2
      BY <1>1 DEF ReadCalls
    <3>3. CASE rd[t].parts = 0
      <4>1. rd[t].length = 0 /\ rd[t].ubuf = <<>>
        BY <3>1, <3>3, <2>2 DEF ConsoleIInv, ReadInv
      <4>2. <<>> = [i \in 1 .. 0 |-> rd[t].start + i]
        OBVIOUS
      <4>3. rd'[t].ubuf = [i \in 1 .. rd'[t].length |-> rd'[t].start + i]
        BY <4>1, <4>2, <1>3
      <4> QED  BY <3>1, <4>3 DEF ReadInv
    <3>4. CASE rd[t].parts = 1
      BY <3>1, <3>4, <2>2, <1>3 DEF ConsoleIInv, ReadInv
    <3>5. rd[t].parts <= 1
      BY <2>2 DEF ConsoleIInv, ReadInv
    <3> QED  BY <3>2, <3>3, <3>4, <3>5
  <2> QED  BY <1>5, <2>1, <2>2
<1> QED  BY <1>2, <1>4, <1>5, <1>6, ReadSame DEF ConsoleIInv, OpenInv

LEMMA ReadFirstKeeps ==
    ASSUME ConsoleIInv, NEW t \in Readers, ReadFirst(t)
    PROVE  ConsoleIInv'
<1> DEFINE toEnd == RingSize - read_idx
           n     == IF toEnd > rd[t].left THEN rd[t].left ELSE toEnd
<1>1. rd[t].pc = "first" /\ UNCHANGED <<connected, cons_fds, writer, up, written>> /\ InLock(t)
  BY DEF ReadFirst, InLock
<1>2. /\ rd[t].left = rd[t].length /\ rd[t].left <= cur_len /\ rd[t].ubuf = <<>>
      /\ rd[t].start = taken /\ rd[t].parts = 0
  BY <1>1 DEF ConsoleIInv, ReadInv
<1>3. rd[t].left \in Nat /\ rd[t].length \in Nat
  BY RingTypes DEF ConsoleIInv, ReadCalls
<1>4. CASE ~(rd[t].left > 0 /\ read_idx >= write_idx)
  <2>1. rd' = [rd EXCEPT ![t].pc = "second"] /\ UNCHANGED <<raw_lock, ring, taken>>
    BY <1>4 DEF ReadFirst
  <2>2. rd[t].left > 0 => read_idx < write_idx
    BY <1>4, WriteIndex
  <2> QED  BY <2>1, <2>2, <1>1, ReadSkips
<1>5. CASE rd[t].left > 0 /\ read_idx >= write_idx
  <2>1. CASE ReadFault(t)
    BY <2>1, <1>1, ReadFaultKeeps
  <2>2. CASE Take(t, n, "second")
    <3>1. n \in Nat /\ n <= rd[t].left /\ n <= cur_len /\ n <= RingSize - read_idx
      BY <1>2, <1>3, WriteIndex
    <3>2. rd[t].left - n > 0 => n = RingSize - read_idx
      BY <1>3, WriteIndex
    <3>3. rd[t].left - n = 0 => n = rd[t].length
      BY <1>2, <1>3, <3>1
    <3> HIDE DEF n
    <3>4. /\ Reads(t) /\ rd'[t].pc = "second" /\ rd'[t].left = rd[t].left - n
          /\ rd'[t].parts = 1 /\ rd'[t].length = rd[t].length /\ rd'[t].start = taken
          /\ rd'[t].ubuf = [i \in 1 .. n |-> taken + i]
      <4>1. "second" \in ReadPcs /\ rd[t].parts <= 1 /\ 0 + 1 = 1
        BY <1>2 DEF ReadPcs
      <4>2. PICK m \in Nat : m = n
        BY <3>1
      <4>3. m <= cur_len /\ m <= rd[t].left /\ m <= RingSize - read_idx /\ Take(t, m, "second")
        BY <4>2, <3>1, <2>2
      <4>4. /\ Reads(t)
            /\ rd'[t].pc = "second" /\ rd'[t].left = rd[t].left - m
            /\ rd'[t].parts = rd[t].parts + 1
            /\ rd'[t].length = rd[t].length /\ rd'[t].start = rd[t].start
            /\ rd[t].ubuf = <<>> => rd'[t].ubuf = [i \in 1 .. m |-> taken + i]
        BY <4>1, <4>3, TakeResult
      <4> HIDE <4>3
      <4> QED  BY ONLY <4>1, <4>2, <4>4, <1>2
    <3>5. rd'[t].left <= cur_len'
      <4>1. cur_len' = cur_len - n
        BY <2>2 DEF Take
      <4>2. cur_len \in Nat
        BY WriteIndex
      <4> QED  BY ONLY <4>1, <4>2, <3>1, <3>4, <1>2, <1>3
    <3>6. rd'[t].left > 0 => read_idx' < write_idx'
      <4>1. SUFFICES ASSUME rd[t].left - n > 0
                     PROVE  read_idx' < write_idx
        BY <3>4, <2>2 DEF Take
      <4>2. read_idx + n = RingSize
        BY <4>1, <3>2, WriteIndex
      <4>3. read_idx' = 0
        BY <4>2, <2>2, WriteIndex DEF Take
      <4>4. cur_len > RingSize - read_idx
        BY <4>1, <3>2, <1>2, <1>3, <3>1, WriteIndex
      <4>5. write_idx = read_idx + cur_len - RingSize
        BY <4>4, WriteIndex
      <4> QED  BY <4>3, <4>4, <4>5, WriteIndex
    <3>7. ReadInv(t)'
      BY <3>3, <3>4, <3>5, <3>6 DEF ReadInv
    <3> QED  BY <3>1, <3>4, <3>7, <2>2, <1>1, TakeKeeps
  <2> QED  BY <1>5, <2>1, <2>2 DEF ReadFirst
<1> QED  BY <1>4, <1>5

LEMMA ReadSecondKeeps ==
    ASSUME ConsoleIInv, NEW t \in Readers, ReadSecond(t)
    PROVE  ConsoleIInv'
<1> DEFINE toWrite == write_idx - read_idx
           n       == IF toWrite < 0 \/ toWrite > rd[t].left THEN rd[t].left ELSE toWrite
<1>1. rd[t].pc = "second" /\ UNCHANGED <<connected, cons_fds, writer, up, written>> /\ InLock(t)
  BY DEF ReadSecond, InLock
<1>2. rd[t].left \in Nat /\ rd[t].length \in Nat /\ rd[t].parts \in 0 .. 2
  BY RingTypes DEF ConsoleIInv, ReadCalls
<1>3. /\ rd[t].left <= cur_len /\ rd[t].parts <= 1
      /\ rd[t].left > 0 => read_idx < write_idx
  BY <1>1 DEF ConsoleIInv, ReadInv
<1>4. CASE ~(rd[t].left > 0)
  <2>1. rd' = [rd EXCEPT ![t].pc = "unlock"] /\ UNCHANGED <<raw_lock, ring, taken>>
    BY <1>4 DEF ReadSecond
  <2>2. rd[t].left = 0
    BY <1>4, <1>2
  <2> QED  BY <2>1, <2>2, <1>1, ReadSkips
<1>5. CASE rd[t].left > 0
  <2>1. CASE ReadFault(t)
    BY <2>1, <1>1, ReadFaultKeeps
  <2>2. CASE Take(t, n, "unlock")
    <3>1. write_idx - read_idx = cur_len
      BY <1>3, <1>5, WriteIndex
    <3>2. n = rd[t].left
      BY <3>1, <1>2, <1>3, <1>5, WriteIndex
    <3>3. Take(t, rd[t].left, "unlock")
      BY <2>2, <3>2
    <3>4. rd[t].left <= RingSize - read_idx
      BY <3>1, <1>2, <1>3, WriteIndex
    <3>5. /\ Reads(t) /\ rd'[t].pc = "unlock" /\ rd'[t].left = 0
          /\ rd'[t].parts = rd[t].parts + 1 /\ rd'[t].length = rd[t].length
          /\ rd'[t].start = rd[t].start
          /\ rd[t].ubuf = <<>> => rd'[t].ubuf = [i \in 1 .. rd[t].left |-> taken + i]
      <4>1. rd[t].left - rd[t].left = 0
        BY <1>2
      <4> QED  BY <3>3, <3>4, <1>2, <1>3, <4>1, TakeResult DEF ReadPcs
    <3>6. ReadInv(t)'
      <4>1. CASE rd[t].parts = 0
        <5>1. rd[t].ubuf = <<>> /\ rd[t].left = rd[t].length /\ rd[t].start = taken
          BY <4>1, <1>1 DEF ConsoleIInv, ReadInv
        <5> QED  BY <5>1, <3>5 DEF ReadInv
      <4>2. CASE rd[t].parts = 1
        <5>1. rd'[t].parts = 2
          BY <4>2, <3>5
        <5> QED  BY <5>1, <3>5 DEF ReadInv
      <4> QED  BY <4>1, <4>2, <1>2, <1>3
    <3> QED  BY <3>3, <3>5, <3>6, <1>1, <1>2, <1>3, TakeKeeps
  <2> QED  BY <1>5, <2>1, <2>2 DEF ReadSecond
<1> QED  BY <1>4, <1>5

-----------------------------------------------------------------------------
LEMMA ConnectKeeps ==
    ASSUME ConsoleIInv, NEW f \in Files, pisces_cons_connect(f)
    PROVE  ConsoleIInv'
<1>1. /\ connected = 0 /\ connected' = 1 /\ (cons_fds' = cons_fds \cup {f} \/ cons_fds' = cons_fds)
      /\ UNCHANGED <<raw_lock, ring, rd, writer, up, written, taken>>
  BY DEF pisces_cons_connect
<1>2. cons_fds = {}
  BY <1>1 DEF ConsoleIInv, OpenInv
<1>3. cons_fds' = {f} \/ cons_fds' = {}
  BY <1>1, <1>2
<1>4. CTypeOK'
  BY <1>1, <1>3 DEF ConsoleIInv, CTypeOK, ring
<1>5. OpenInv'
  BY <1>1, <1>2, <1>3 DEF ConsoleIInv, OpenInv
<1>6. RingExclusive' /\ LockHasOwner' /\ UnreadIntact' /\ \A t \in Readers : ReadInv(t)'
  BY <1>1 DEF ConsoleIInv, RingExclusive, LockHasOwner, UnreadIntact, ReadInv, InLock, ring
<1> QED  BY <1>4, <1>5, <1>6 DEF ConsoleIInv

LEMMA ReleaseKeeps ==
    ASSUME ConsoleIInv, NEW f \in Files, console_release(f)
    PROVE  ConsoleIInv'
<1>1. /\ f \in cons_fds /\ cons_fds' = cons_fds \ {f} /\ connected' = 0
      /\ \A t \in Readers : rd[t].pc = "idle"
      /\ UNCHANGED <<raw_lock, ring, rd, writer, up, written, taken>>
  BY DEF console_release
<1>2. cons_fds' = {}
  BY <1>1 DEF ConsoleIInv, OpenInv
<1>3. CTypeOK'
  BY <1>1, <1>2 DEF ConsoleIInv, CTypeOK, ring
<1>4. OpenInv'
  BY <1>1, <1>2 DEF ConsoleIInv, OpenInv
<1>5. RingExclusive' /\ LockHasOwner' /\ UnreadIntact' /\ \A t \in Readers : ReadInv(t)'
  BY <1>1 DEF ConsoleIInv, RingExclusive, LockHasOwner, UnreadIntact, ReadInv, InLock, ring
<1> QED  BY <1>3, <1>4, <1>5 DEF ConsoleIInv

LEMMA WriteLockKeeps ==
    ASSUME ConsoleIInv, WriteLock
    PROVE  ConsoleIInv'
<1>1. /\ up /\ raw_lock = 0 /\ raw_lock' = 1 /\ writer' = TRUE
      /\ UNCHANGED <<ring, connected, cons_fds, rd, up, written, taken>>
  BY DEF WriteLock, pisces_spin_lock
<1>2. \A s \in Readers : ~InLock(s)
  BY <1>1 DEF ConsoleIInv, RingExclusive
<1>3. CTypeOK'
  BY <1>1 DEF ConsoleIInv, CTypeOK, ring
<1>4. OpenInv'
  BY <1>1 DEF ConsoleIInv, OpenInv
<1>5. RingExclusive' /\ LockHasOwner'
  BY <1>1, <1>2 DEF RingExclusive, LockHasOwner, InLock
<1>6. UnreadIntact' /\ \A t \in Readers : ReadInv(t)'
  BY <1>1 DEF ConsoleIInv, UnreadIntact, ReadInv, ring
<1> QED  BY <1>3, <1>4, <1>5, <1>6 DEF ConsoleIInv

LEMMA WritePutKeeps ==
    ASSUME ConsoleIInv, WritePut
    PROVE  ConsoleIInv'
<1>1. /\ writer /\ raw_lock' = 0 /\ writer' = FALSE
      /\ UNCHANGED <<connected, cons_fds, rd, up, taken>>
  BY DEF WritePut, pisces_spin_unlock
<1>2. \A s \in Readers : ~InLock(s)
  BY <1>1 DEF ConsoleIInv, RingExclusive
<1>3. UnreadIntact' /\ write_idx' \in 0 .. RingSize - 1 /\ cur_len' \in 0 .. RingSize
      /\ written' \in Nat /\ buf' \in [0 .. RingSize - 1 -> Nat] /\ read_idx' = read_idx
  BY PutKeepsStream DEF ConsoleIInv
<1>4. CTypeOK'
  BY <1>1, <1>3 DEF ConsoleIInv, CTypeOK
<1>5. OpenInv'
  BY <1>1 DEF ConsoleIInv, OpenInv
<1>6. RingExclusive' /\ LockHasOwner'
  BY <1>1, <1>2 DEF RingExclusive, LockHasOwner, InLock
<1>7. ASSUME NEW t \in Readers PROVE ReadInv(t)'
  <2>1. rd[t].pc \notin {"first", "second"}
    BY <1>2 DEF InLock
  <2> QED  BY <2>1, <1>1, ReadKept DEF ConsoleIInv
<1> QED  BY <1>3, <1>4, <1>5, <1>6, <1>7 DEF ConsoleIInv

LEMMA StopKeeps ==
    ASSUME ConsoleIInv, Stop
    PROVE  ConsoleIInv'
<1>1. /\ up' = FALSE /\ writer' = FALSE
      /\ UNCHANGED <<raw_lock, ring, connected, cons_fds, rd, written, taken>>
  BY DEF Stop
<1>2. CTypeOK'
  BY <1>1 DEF ConsoleIInv, CTypeOK, ring
<1>3. OpenInv'
  BY <1>1 DEF ConsoleIInv, OpenInv
<1>4. RingExclusive' /\ LockHasOwner'
  BY <1>1 DEF ConsoleIInv, RingExclusive, LockHasOwner, InLock
<1>5. UnreadIntact' /\ \A t \in Readers : ReadInv(t)'
  BY <1>1 DEF ConsoleIInv, UnreadIntact, ReadInv, ring
<1> QED  BY <1>2, <1>3, <1>4, <1>5 DEF ConsoleIInv

LEMMA LaunchKeeps ==
    ASSUME ConsoleIInv, ~Rude, pisces_cons_init
    PROVE  ConsoleIInv'
<1>1. /\ ~up /\ cons_fds = {} /\ raw_lock' = 0 /\ read_idx' = 0 /\ write_idx' = 0 /\ cur_len' = 0
      /\ buf' = [i \in 0 .. RingSize - 1 |-> Stale] /\ connected' = 0 /\ up' = TRUE
      /\ written' = 0 /\ taken' = 0 /\ UNCHANGED <<cons_fds, rd, writer>>
  BY DEF pisces_cons_init, pisces_lock_init
<1>2. cons_fds = {} /\ ~writer /\ \A t \in Readers : rd[t].pc = "idle"
  BY <1>1 DEF ConsoleIInv, OpenInv
<1>3. RingSize \in Nat \ {0}
  BY ConsoleAssumption
<1>4. CTypeOK'
  <2>1. buf' \in [0 .. RingSize - 1 -> Nat] /\ 0 \in 0 .. RingSize - 1 /\ 0 \in 0 .. RingSize
    BY <1>1, <1>3 DEF Stale
  <2> QED  BY <2>1, <1>1 DEF ConsoleIInv, CTypeOK
<1>5. OpenInv' /\ RingExclusive' /\ LockHasOwner'
  BY <1>1, <1>2 DEF OpenInv, RingExclusive, LockHasOwner, InLock
<1>6. UnreadIntact'
  <2>1. (0 + 0) % RingSize = 0
    BY <1>3
  <2> QED  BY <2>1, <1>1 DEF UnreadIntact
<1>7. \A t \in Readers : ReadInv(t)'
  BY <1>1, <1>2 DEF ReadInv
<1> QED  BY <1>4, <1>5, <1>6, <1>7 DEF ConsoleIInv

LEMMA ConsoleStep ==
    ASSUME ConsoleIInv, ~Rude, [CNext]_cvars
    PROVE  ConsoleIInv'
<1>1. CASE UNCHANGED cvars
  <2> USE DEF cvars, ring
  <2>1. CTypeOK'
    BY <1>1 DEF ConsoleIInv, CTypeOK
  <2>2. OpenInv' /\ RingExclusive' /\ LockHasOwner' /\ UnreadIntact'
    BY <1>1 DEF ConsoleIInv, OpenInv, RingExclusive, LockHasOwner, UnreadIntact, InLock
  <2>3. \A t \in Readers : ReadInv(t)'
    BY <1>1 DEF ConsoleIInv, ReadInv
  <2> QED  BY <2>1, <2>2, <2>3 DEF ConsoleIInv
<1>2. ASSUME NEW t \in Readers, NEW f \in Files, NEW n \in Lengths, ReadBegin(t, f, n)
      PROVE  ConsoleIInv'
  BY <1>2, ReadBeginKeeps
<1>3. ASSUME NEW t \in Readers, ReadStep(t)
      PROVE  ConsoleIInv'
  BY <1>3, ReadLockKeeps, ReadFirstKeeps, ReadSecondKeeps, ReadUnlockKeeps, ReadReturnKeeps
     DEF ReadStep
<1>4. ASSUME NEW f \in Files, pisces_cons_connect(f) \/ console_release(f)
      PROVE  ConsoleIInv'
  BY <1>4, ConnectKeeps, ReleaseKeeps
<1>5. CASE WriteLock \/ WritePut \/ Stop \/ pisces_cons_init
  BY <1>5, WriteLockKeeps, WritePutKeeps, StopKeeps, LaunchKeeps
<1> QED  BY <1>1, <1>2, <1>3, <1>4, <1>5 DEF CNext

(* The console's inductive invariant holds for any ring, any readers and any *)
(* lengths, when no console is open over a LAUNCH or a RESET.              *)
THEOREM ConsoleAlways ==
    ASSUME ~Rude
    PROVE  CSpec => []ConsoleIInv
<1>1. CInit => ConsoleIInv
  BY ConsoleInit
<1>2. ConsoleIInv /\ [CNext]_cvars => ConsoleIInv'
  BY ConsoleStep
<1> QED  BY <1>1, <1>2, PTL DEF CSpec

(* The two kernels and the readers exclude each other, the lock of a running *)
(* enclave has an owner who lets it go, and one console file is open at a  *)
(* time (console_read, pisces_cons_init, pisces_cons_connect), when no     *)
(* console is open over a LAUNCH or a RESET.                               *)
THEOREM ConsoleCorrect ==
    ASSUME ~Rude
    PROVE  CSpec => []ConsoleInv
<1>1. ConsoleIInv => ConsoleInv
  <2> SUFFICES ASSUME ConsoleIInv PROVE ConsoleInv
    OBVIOUS
  <2>1. Cardinality(cons_fds) <= 1
    <3>1. CASE cons_fds = {}
      BY <3>1, FS_EmptySet
    <3>2. ASSUME NEW f \in Files, cons_fds = {f}
          PROVE  Cardinality(cons_fds) <= 1
      <4>1. Cardinality({f}) = 1
        BY FS_Singleton
      <4> QED  BY <3>2, <4>1
    <3> QED  BY <3>1, <3>2 DEF ConsoleIInv, OpenInv
  <2> QED  BY <2>1 DEF ConsoleIInv, OpenInv, ConsoleInv, OneConsole, SingleConsole
<1>2. CSpec => []ConsoleIInv
  BY ConsoleAlways
<1> QED  BY <1>1, <1>2, PTL

(* The ring loses, repeats and moves no unread character, and a read that  *)
(* copies in one part returns the next characters, when no console is open *)
(* over a LAUNCH or a RESET.  What a read in two parts returns is not in   *)
(* it: the code copies its second part over the first.                     *)
THEOREM StreamCorrect ==
    ASSUME ~Rude
    PROVE  CSpec => []StreamIntact
<1>1. ConsoleIInv => StreamIntact
  BY DEF ConsoleIInv, StreamIntact, ReadExact, ReadInv
<1>2. CSpec => []ConsoleIInv
  BY ConsoleAlways
<1> QED  BY <1>1, <1>2, PTL

-----------------------------------------------------------------------------
(***************************************************************************)
(* The VM's console.                                                       *)
(***************************************************************************)

HasIrq == {"vec", "file", "open", "leaked", "free_irq"}

(* A console has a vector exactly while it is registered for it, and its   *)
(* wait queue is initialised once it has a file; a thread is in a call of  *)
(* an open console only.                                                   *)
HandlerInv ==
    /\ \A c \in Conns : conn[c] \in HasIrq <=> irq[c] # NoVec
    /\ \A c \in Conns : irq[c] # NoVec => handler[irq[c]] = c
    /\ \A v \in Vectors : handler[v] # NoCons => irq[handler[v]] = v
    /\ \A c \in Conns : conn[c] \in {"open", "leaked", "free_irq"} => ready[c]
    /\ \A t \in Threads : IF th[t].c = NoCons THEN th[t].pc = "idle"
                          ELSE conn[th[t].c] = "open"

(* Where the messages begin and end.                                       *)
MsgInv == MessagesIntact /\ w_idx = (r_idx + cur_entries) % TotalEntries

(* The inductive invariant of the VM's ring, when a VM has one console.    *)
VmRingIInv == VTypeOK /\ HandlerInv /\ MsgInv /\ SleeperHasKick

ThCalls == [pc : {"idle", "check", "sleep", "lock", "dequeue", "plock", "pin", "psleep"},
            c : Conns \cup {NoCons}]

LEMMA EntryWrap ==
    ASSUME NEW a \in 0 .. TotalEntries - 1, NEW i \in 0 .. TotalEntries
    PROVE  /\ (a + i) % TotalEntries = IF a + i < TotalEntries THEN a + i
                                       ELSE a + i - TotalEntries
           /\ (a + i) % TotalEntries \in 0 .. TotalEntries - 1
BY V3Assumption, ModOnce

LEMMA EntryNext ==
    ASSUME NEW a \in 0 .. TotalEntries - 1
    PROVE  /\ (a + 1) % TotalEntries = IF a + 1 < TotalEntries THEN a + 1
                                       ELSE a + 1 - TotalEntries
           /\ (a + 1) % TotalEntries \in 0 .. TotalEntries - 1
<1>1. 1 \in 0 .. TotalEntries
  BY V3Assumption
<1> QED  BY <1>1, EntryWrap

(* The threads' calls after the steps that move one of them.               *)
LEMMA ThreadTypes ==
    ASSUME VTypeOK, VNext
    PROVE  th' \in [Threads -> ThCalls]
<1>1. th \in [Threads -> ThCalls]
  BY DEF VTypeOK, ThCalls
<1>2. NoCall \in ThCalls
  BY DEF NoCall, ThCalls
<1>3. CASE UNCHANGED th
  BY <1>1, <1>3
<1>4. ASSUME NEW v \in Vectors, cons_kick(v) PROVE th' \in [Threads -> ThCalls]
  <2>1. ASSUME NEW c, Wake(c) PROVE th' \in [Threads -> ThCalls]
    BY <1>1, <2>1 DEF Wake, ThCalls
  <2> QED  BY <1>1, <1>4, <2>1 DEF cons_kick
<1>5. ASSUME NEW t \in Threads, NEW c \in Conns, CallBegin(t, c)
      PROVE  th' \in [Threads -> ThCalls]
  BY <1>1, <1>5 DEF CallBegin, ThCalls
<1>6. ASSUME NEW t \in Threads, WaitEvent(t) \/ Signal(t) \/ TakeLock(t)
      PROVE  th' \in [Threads -> ThCalls]
  BY <1>1, <1>6 DEF WaitEvent, Signal, TakeLock, Goto, ThCalls
<1>7. ASSUME NEW t \in Threads, cons_dequeue(t) \/ PollGivesUp(t)
      PROVE  th' \in [Threads -> ThCalls]
  BY <1>1, <1>2, <1>7 DEF cons_dequeue, PollGivesUp
<1>8. ASSUME NEW t \in Threads, console_poll(t)
      PROVE  th' \in [Threads -> ThCalls]
  <2>1. [th[t] EXCEPT !.pc = "psleep"] \in ThCalls
    BY <1>1 DEF ThCalls
  <2> QED  BY <1>1, <1>2, <1>8, <2>1 DEF console_poll
<1>9. ASSUME NEW c \in Conns,
             \/ ConnectBegin(c) \/ ReleaseBegin(c) \/ pisces_request_irq(c) \/ SetVector(c)
             \/ ConnectFile(c) \/ pisces_release_irq(c) \/ ReleaseFree(c)
      PROVE  UNCHANGED th
  BY <1>9 DEF ConnectBegin, ReleaseBegin, pisces_request_irq, SetVector, ConnectFile,
              pisces_release_irq, ReleaseFree
<1>10. CASE VmmLock \/ VmmPut \/ VmmKick
  BY <1>10, <1>3 DEF VmmLock, VmmPut, VmmKick
<1> QED  BY <1>3, <1>4, <1>5, <1>6, <1>7, <1>8, <1>9, <1>10 DEF VNext, ConnectStep

(* The ring and its numbers.                                               *)
RingTypeOK ==
    /\ ring_lock \in {0, 1}
    /\ r_idx \in 0 .. TotalEntries - 1 /\ w_idx \in 0 .. TotalEntries - 1
    /\ cur_entries \in 0 .. TotalEntries
    /\ msgs \in [0 .. TotalEntries - 1 -> Nat]
    /\ sent \in Nat /\ recvd \in Nat

LEMMA RingNumbers ==
    ASSUME VTypeOK, VNext
    PROVE  RingTypeOK'
<1>1. RingTypeOK /\ TotalEntries \in Nat \ {0}
  BY V3Assumption DEF VTypeOK, RingTypeOK
<1>2. CASE UNCHANGED <<r_idx, w_idx, cur_entries, msgs, sent, recvd>> /\ ring_lock' \in {0, ring_lock, 1}
  BY <1>1, <1>2 DEF RingTypeOK
<1>3. ASSUME NEW t \in Threads, cons_dequeue(t) PROVE RingTypeOK'
  <2>1. UNCHANGED <<w_idx, msgs, sent>> /\ ring_lock' = 0
    BY <1>3 DEF cons_dequeue
  <2>2. CASE cur_entries > 0
    <3>1. cur_entries' = cur_entries - 1 /\ r_idx' = (r_idx + 1) % TotalEntries /\ recvd' = recvd + 1
      BY <2>2, <1>3 DEF cons_dequeue
    <3>2. r_idx' \in 0 .. TotalEntries - 1
      BY <3>1, <1>1, EntryNext DEF RingTypeOK
    <3> QED  BY <3>1, <3>2, <2>1, <2>2, <1>1 DEF RingTypeOK
  <2>3. CASE ~(cur_entries > 0)
    BY <2>1, <2>3, <1>1, <1>3 DEF cons_dequeue, RingTypeOK
  <2> QED  BY <2>2, <2>3
<1>4. CASE VmmPut
  <2>1. UNCHANGED <<r_idx, recvd>> /\ ring_lock' = 0
    BY <1>4 DEF VmmPut
  <2>2. CASE cur_entries < TotalEntries
    <3>1. /\ cur_entries' = cur_entries + 1 /\ w_idx' = (w_idx + 1) % TotalEntries
          /\ sent' = sent + 1 /\ msgs' = [msgs EXCEPT ![w_idx] = sent + 1]
      BY <2>2, <1>4 DEF VmmPut
    <3>2. w_idx' \in 0 .. TotalEntries - 1
      BY <3>1, <1>1, EntryNext DEF RingTypeOK
    <3> QED  BY <3>1, <3>2, <2>1, <2>2, <1>1 DEF RingTypeOK
  <2>3. CASE ~(cur_entries < TotalEntries)
    BY <2>1, <2>3, <1>1, <1>4 DEF VmmPut, RingTypeOK
  <2> QED  BY <2>2, <2>3
<1>5. ASSUME NEW c \in Conns,
             \/ ConnectBegin(c) \/ ReleaseBegin(c) \/ pisces_request_irq(c) \/ SetVector(c)
             \/ ConnectFile(c) \/ pisces_release_irq(c) \/ ReleaseFree(c)
      PROVE  UNCHANGED <<vring, sent, recvd>>
  BY <1>5 DEF ConnectBegin, ReleaseBegin, pisces_request_irq, SetVector, ConnectFile,
              pisces_release_irq, ReleaseFree
<1>6. ASSUME NEW v \in Vectors, cons_kick(v) PROVE UNCHANGED <<vring, sent, recvd>>
  BY <1>6 DEF cons_kick
<1>7. ASSUME NEW t \in Threads, NEW c \in Conns, CallBegin(t, c)
      PROVE  UNCHANGED <<vring, sent, recvd>>
  BY <1>7 DEF CallBegin
<1>8. ASSUME NEW t \in Threads, WaitEvent(t) \/ Signal(t) \/ PollGivesUp(t)
      PROVE  UNCHANGED <<vring, sent, recvd>>
  BY <1>8 DEF WaitEvent, Signal, PollGivesUp
<1>9. ASSUME NEW t \in Threads, TakeLock(t) \/ console_poll(t)
      PROVE  UNCHANGED <<r_idx, w_idx, cur_entries, msgs, sent, recvd>> /\ ring_lock' \in {0, 1}
  BY <1>9 DEF TakeLock, console_poll
<1>10. ASSUME VmmLock
       PROVE  UNCHANGED <<r_idx, w_idx, cur_entries, msgs, sent, recvd>> /\ ring_lock' \in {0, 1}
  BY <1>10 DEF VmmLock
<1>11. CASE VmmKick
  BY <1>11, <1>2 DEF VmmKick, vring
<1>12. CASE UNCHANGED <<vring, sent, recvd>>
  BY <1>12, <1>2 DEF vring
<1>13. CASE /\ UNCHANGED <<r_idx, w_idx, cur_entries, msgs, sent, recvd>>
            /\ ring_lock' \in {0, 1}
  BY <1>13, <1>2
<1> QED  BY <1>3, <1>4, <1>5, <1>6, <1>7, <1>8, <1>9, <1>10, <1>11, <1>12, <1>13
         DEF VNext, ConnectStep

(* The consoles and the vectors.                                           *)
RegTypeOK ==
    /\ kick_ipi_vec \in Vectors \cup {NoVec}
    /\ conn \in [Conns -> {"none", "irq", "vec", "file", "open", "leaked", "free_irq", "kfree"}]
    /\ irq \in [Conns -> Vectors \cup {NoVec}]
    /\ ready \in [Conns -> BOOLEAN]
    /\ handler \in [Vectors -> Conns \cup {NoCons}]
    /\ pend \subseteq Vectors
    /\ vmm \in [pc : {"idle", "in", "kick"}, client : BOOLEAN]

LEMMA TypeParts == VTypeOK <=> RegTypeOK /\ RingTypeOK /\ th \in [Threads -> ThCalls]
BY DEF VTypeOK, RegTypeOK, RingTypeOK, ThCalls

LEMMA RegNumbers ==
    ASSUME VTypeOK, VNext
    PROVE  RegTypeOK'
<1>1. RegTypeOK
  BY TypeParts
<1>2. ASSUME NEW c \in Conns, ConnectBegin(c) PROVE RegTypeOK'
  BY <1>1, <1>2 DEF ConnectBegin, RegTypeOK
<1>3. ASSUME NEW c \in Conns, ReleaseBegin(c) PROVE RegTypeOK'
  BY <1>1, <1>3 DEF ReleaseBegin, RegTypeOK
<1>4. ASSUME NEW c \in Conns, pisces_request_irq(c) PROVE RegTypeOK'
  BY <1>1, <1>4 DEF pisces_request_irq, RegTypeOK
<1>5. ASSUME NEW c \in Conns, SetVector(c) PROVE RegTypeOK'
  BY <1>1, <1>5 DEF SetVector, RegTypeOK
<1>6. ASSUME NEW c \in Conns, ConnectFile(c) PROVE RegTypeOK'
  BY <1>1, <1>6 DEF ConnectFile, RegTypeOK
<1>7. ASSUME NEW c \in Conns, pisces_release_irq(c) PROVE RegTypeOK'
  BY <1>1, <1>7 DEF pisces_release_irq, RegTypeOK
<1>8. ASSUME NEW c \in Conns, ReleaseFree(c) PROVE RegTypeOK'
  BY <1>1, <1>8 DEF ReleaseFree, RegTypeOK
<1>9. ASSUME NEW v \in Vectors, cons_kick(v) PROVE RegTypeOK'
  BY <1>1, <1>9 DEF cons_kick, RegTypeOK
<1>10. ASSUME NEW t \in Threads,
              \/ \E c \in Conns : CallBegin(t, c)
              \/ WaitEvent(t) \/ Signal(t) \/ TakeLock(t) \/ cons_dequeue(t)
              \/ console_poll(t) \/ PollGivesUp(t)
       PROVE  RegTypeOK'
  BY <1>1, <1>10 DEF CallBegin, WaitEvent, Signal, TakeLock, cons_dequeue, console_poll,
                     PollGivesUp, RegTypeOK
<1>11. CASE VmmLock
  BY <1>1, <1>11 DEF VmmLock, RegTypeOK
<1>12. CASE VmmPut
  BY <1>1, <1>12 DEF VmmPut, RegTypeOK
<1>13. CASE VmmKick
  BY <1>1, <1>13 DEF VmmKick, RegTypeOK
<1> QED  BY <1>2, <1>3, <1>4, <1>5, <1>6, <1>7, <1>8, <1>9, <1>10, <1>11, <1>12, <1>13
         DEF VNext, ConnectStep

LEMMA VTypeStep ==
    ASSUME VTypeOK, [VNext]_vvars
    PROVE  VTypeOK'
<1>1. CASE UNCHANGED vvars
  BY <1>1 DEF VTypeOK, vvars, vring
<1>2. CASE VNext
  <2>1. RegTypeOK' /\ RingTypeOK' /\ th' \in [Threads -> ThCalls]
    BY <1>2, RegNumbers, RingNumbers, ThreadTypes
  <2> QED  BY <2>1 DEF VTypeOK, RegTypeOK, RingTypeOK, ThCalls
<1> QED  BY <1>1, <1>2

-----------------------------------------------------------------------------
(* The threads' part of HandlerInv.                                        *)
InOpen == \A t \in Threads : IF th[t].c = NoCons THEN th[t].pc = "idle"
                             ELSE conn[th[t].c] = "open"

(* And the consoles'.                                                      *)
Registered ==
    /\ \A c \in Conns : conn[c] \in HasIrq <=> irq[c] # NoVec
    /\ \A c \in Conns : irq[c] # NoVec => handler[irq[c]] = c
    /\ \A v \in Vectors : handler[v] # NoCons => irq[handler[v]] = v
    /\ \A c \in Conns : conn[c] \in {"open", "leaked", "free_irq"} => ready[c]

LEMMA HandlerParts == HandlerInv <=> InOpen /\ Registered
BY DEF HandlerInv, InOpen, Registered

(* What a step does to the place of one console.                           *)
LEMMA OpenKept ==
    ASSUME VTypeOK, InOpen, NEW c \in Conns, UNCHANGED th, NEW s,
           conn' = [conn EXCEPT ![c] = s],
           conn[c] = "open" => \A t \in Threads : th[t].c # c
    PROVE  InOpen'
<1>1. \A t \in Threads : th[t].c \in Conns \cup {NoCons}
  BY DEF VTypeOK
<1>2. \A d \in Conns : d # c => conn'[d] = conn[d]
  BY DEF VTypeOK
<1>3. ASSUME NEW t \in Threads PROVE th[t].c # c
  <2>1. CASE conn[c] = "open"
    BY <2>1
  <2>2. CASE conn[c] # "open"
    <3>1. c # NoCons
      BY V3Assumption
    <3> QED  BY <2>2, <3>1 DEF InOpen
  <2> QED  BY <2>1, <2>2
<1> QED  BY <1>1, <1>2, <1>3 DEF InOpen

LEMMA InOpenStep ==
    ASSUME VTypeOK, InOpen, VNext
    PROVE  InOpen'
<1>1. th \in [Threads -> ThCalls] /\ NoCons \notin Conns
  BY V3Assumption DEF VTypeOK, ThCalls
<1>2. ASSUME NEW c \in Conns, ConnectBegin(c) PROVE InOpen'
  BY <1>2, OpenKept DEF ConnectBegin
<1>3. ASSUME NEW c \in Conns, ReleaseBegin(c) PROVE InOpen'
  BY <1>3, OpenKept DEF ReleaseBegin
<1>4. ASSUME NEW c \in Conns, pisces_request_irq(c) PROVE InOpen'
  BY <1>4, OpenKept DEF pisces_request_irq
<1>5. ASSUME NEW c \in Conns, SetVector(c) PROVE InOpen'
  BY <1>5, OpenKept DEF SetVector
<1>6. ASSUME NEW c \in Conns, ConnectFile(c) PROVE InOpen'
  BY <1>6, OpenKept DEF ConnectFile
<1>7. ASSUME NEW c \in Conns, pisces_release_irq(c) PROVE InOpen'
  BY <1>7, OpenKept DEF pisces_release_irq
<1>8. ASSUME NEW c \in Conns, ReleaseFree(c) PROVE InOpen'
  BY <1>8, OpenKept DEF ReleaseFree
<1>9. ASSUME NEW v \in Vectors, cons_kick(v) PROVE InOpen'
  <2>1. conn' = conn
    BY <1>9 DEF cons_kick
  <2>2. ASSUME NEW c, Wake(c), NEW t \in Threads
        PROVE  th'[t].c = th[t].c /\ (th[t].pc = "idle" => th'[t].pc = "idle")
    BY <1>1, <2>2 DEF Wake, ThCalls
  <2>3. CASE UNCHANGED th
    BY <2>1, <2>3 DEF InOpen
  <2>4. ASSUME NEW c, Wake(c) PROVE InOpen'
    BY <2>1, <2>2, <2>4 DEF InOpen
  <2> QED  BY <1>9, <2>3, <2>4 DEF cons_kick
<1>10. ASSUME NEW t \in Threads, NEW c \in Conns, CallBegin(t, c) PROVE InOpen'
  BY <1>1, <1>10 DEF CallBegin, InOpen
<1>11. ASSUME NEW t \in Threads, NEW label, Goto(t, label), th[t].pc # "idle", UNCHANGED conn
       PROVE  InOpen'
  <2>1. th'[t].c = th[t].c /\ \A s \in Threads : s # t => th'[s] = th[s]
    BY <1>1, <1>11 DEF Goto, ThCalls
  <2>2. th[t].c # NoCons
    BY <1>11 DEF InOpen
  <2> QED  BY <1>11, <2>1, <2>2 DEF InOpen
<1>12. ASSUME NEW t \in Threads, WaitEvent(t) \/ Signal(t) \/ TakeLock(t) PROVE InOpen'
  BY <1>11, <1>12 DEF WaitEvent, Signal, TakeLock
<1>13. ASSUME NEW t \in Threads, cons_dequeue(t) \/ PollGivesUp(t) PROVE InOpen'
  BY <1>1, <1>13 DEF cons_dequeue, PollGivesUp, InOpen, NoCall
<1>14. ASSUME NEW t \in Threads, console_poll(t) PROVE InOpen'
  <2>1. conn' = conn /\ th[t].pc = "pin"
    BY <1>14 DEF console_poll
  <2>2. CASE cur_entries > 0
    BY <1>1, <1>14, <2>1, <2>2 DEF console_poll, InOpen, NoCall
  <2>3. CASE ~(cur_entries > 0)
    <3>1. Goto(t, "psleep")
      BY <1>1, <1>14, <2>3 DEF console_poll, Goto
    <3> QED  BY <1>11, <2>1, <3>1
  <2> QED  BY <2>2, <2>3
<1>15. CASE VmmLock \/ VmmPut \/ VmmKick
  BY <1>15 DEF VmmLock, VmmPut, VmmKick, InOpen
<1> QED  BY <1>2, <1>3, <1>4, <1>5, <1>6, <1>7, <1>8, <1>9, <1>10, <1>12, <1>13, <1>14, <1>15
         DEF VNext, ConnectStep

LEMMA RegisteredStep ==
    ASSUME VTypeOK, Registered, VNext
    PROVE  Registered'
<1>1. /\ conn \in [Conns -> {"none", "irq", "vec", "file", "open", "leaked", "free_irq", "kfree"}]
      /\ irq \in [Conns -> Vectors \cup {NoVec}] /\ ready \in [Conns -> BOOLEAN]
      /\ handler \in [Vectors -> Conns \cup {NoCons}]
      /\ NoVec \notin Vectors /\ NoCons \notin Conns
  BY V3Assumption DEF VTypeOK
<1>2. ASSUME NEW c \in Conns, ConnectBegin(c) PROVE Registered'
  BY <1>1, <1>2 DEF ConnectBegin, Registered, HasIrq
<1>3. ASSUME NEW c \in Conns, ReleaseBegin(c) PROVE Registered'
  BY <1>1, <1>3 DEF ReleaseBegin, Registered, HasIrq
<1>4. ASSUME NEW c \in Conns, pisces_request_irq(c) PROVE Registered'
  <2>1. conn[c] = "irq" /\ irq[c] = NoVec /\ UNCHANGED ready
    BY <1>4 DEF pisces_request_irq, Registered, HasIrq
  <2>2. CASE conn' = [conn EXCEPT ![c] = "none"] /\ UNCHANGED <<handler, irq>>
    BY <1>1, <2>1, <2>2 DEF Registered, HasIrq
  <2>3. ASSUME NEW v \in Vectors, handler[v] = NoCons, handler' = [handler EXCEPT ![v] = c],
               irq' = [irq EXCEPT ![c] = v], conn' = [conn EXCEPT ![c] = "vec"]
        PROVE  Registered'
    <3>1. \A d \in Conns : irq[d] # v
      BY <1>1, <2>3 DEF Registered
    <3>2. \A w \in Vectors : handler[w] # c
      BY <1>1, <2>1 DEF Registered
    <3> QED  BY <1>1, <2>1, <2>3, <3>1, <3>2 DEF Registered, HasIrq
  <2> QED  BY <1>4, <2>2, <2>3 DEF pisces_request_irq
<1>5. ASSUME NEW c \in Conns, SetVector(c) PROVE Registered'
  BY <1>1, <1>5 DEF SetVector, Registered, HasIrq
<1>6. ASSUME NEW c \in Conns, ConnectFile(c) PROVE Registered'
  BY <1>1, <1>6 DEF ConnectFile, Registered, HasIrq
<1>7. ASSUME NEW c \in Conns, pisces_release_irq(c) PROVE Registered'
  <2>1. /\ conn[c] = "free_irq" /\ handler' = [handler EXCEPT ![irq[c]] = NoCons]
        /\ irq' = [irq EXCEPT ![c] = NoVec] /\ conn' = [conn EXCEPT ![c] = "kfree"]
        /\ UNCHANGED ready
    BY <1>7 DEF pisces_release_irq
  <2>2. PICK v \in Vectors : v = irq[c]
    BY <1>1, <2>1 DEF Registered, HasIrq
  <2>3. handler[v] = c /\ \A d \in Conns : irq[d] = v => d = c
    BY <1>1, <2>2 DEF Registered
  <2>4. \A w \in Vectors : handler[w] = c => w = v
    BY <1>1, <2>2 DEF Registered
  <2> QED  BY <1>1, <2>1, <2>2, <2>3, <2>4 DEF Registered, HasIrq
<1>8. ASSUME NEW c \in Conns, ReleaseFree(c) PROVE Registered'
  BY <1>1, <1>8 DEF ReleaseFree, Registered, HasIrq
<1>9. ASSUME NEW v \in Vectors, cons_kick(v) PROVE UNCHANGED <<conn, irq, ready, handler>>
  BY <1>9 DEF cons_kick
<1>10. ASSUME NEW t \in Threads,
              \/ \E c \in Conns : CallBegin(t, c)
              \/ WaitEvent(t) \/ Signal(t) \/ TakeLock(t) \/ cons_dequeue(t)
              \/ console_poll(t) \/ PollGivesUp(t)
       PROVE  UNCHANGED <<conn, irq, ready, handler>>
  BY <1>10 DEF CallBegin, WaitEvent, Signal, TakeLock, cons_dequeue, console_poll, PollGivesUp
<1>11. ASSUME VmmLock \/ VmmPut \/ VmmKick PROVE UNCHANGED <<conn, irq, ready, handler>>
  BY <1>11 DEF VmmLock, VmmPut, VmmKick
<1>12. CASE UNCHANGED <<conn, irq, ready, handler>>
  BY <1>12 DEF Registered
<1> QED  BY <1>2, <1>3, <1>4, <1>5, <1>6, <1>7, <1>8, <1>9, <1>10, <1>11, <1>12
         DEF VNext, ConnectStep

LEMMA HandlerStep ==
    ASSUME VTypeOK, HandlerInv, [VNext]_vvars
    PROVE  HandlerInv'
<1>1. CASE UNCHANGED vvars
  BY <1>1 DEF HandlerInv, vvars
<1>2. CASE VNext
  <2>1. InOpen' /\ Registered'
    BY <1>2, HandlerParts, InOpenStep, RegisteredStep
  <2> QED  BY <2>1 DEF HandlerInv, InOpen, Registered
<1> QED  BY <1>1, <1>2

-----------------------------------------------------------------------------
(* Messages.                                                               *)
MsgKept == UNCHANGED <<r_idx, w_idx, cur_entries, msgs, sent, recvd>>

LEMMA MessageStep ==
    ASSUME VTypeOK, MsgInv, [VNext]_vvars
    PROVE  MsgInv'
<1>1. /\ TotalEntries \in Nat \ {0} /\ r_idx \in 0 .. TotalEntries - 1
      /\ w_idx \in 0 .. TotalEntries - 1 /\ cur_entries \in 0 .. TotalEntries
      /\ msgs \in [0 .. TotalEntries - 1 -> Nat] /\ sent \in Nat /\ recvd \in Nat
  BY V3Assumption DEF VTypeOK
<1>2. ASSUME NEW i \in 0 .. TotalEntries
      PROVE  /\ (r_idx + i) % TotalEntries = IF r_idx + i < TotalEntries THEN r_idx + i
                                             ELSE r_idx + i - TotalEntries
             /\ (r_idx + i) % TotalEntries \in 0 .. TotalEntries - 1
  BY <1>1, EntryWrap
<1>3. CASE MsgKept
  BY <1>3 DEF MsgKept, MsgInv, MessagesIntact
<1>4. ASSUME NEW t \in Threads, cons_dequeue(t) PROVE MsgInv'
  <2>1. CASE ~(cur_entries > 0)
    BY <1>3, <1>4, <2>1 DEF cons_dequeue, MsgKept
  <2>2. CASE cur_entries > 0
    <3>1. /\ cur_entries' = cur_entries - 1 /\ r_idx' = (r_idx + 1) % TotalEntries
          /\ recvd' = recvd + 1 /\ UNCHANGED <<w_idx, msgs, sent>>
      BY <1>4, <2>2 DEF cons_dequeue
    <3>2. /\ r_idx' = IF r_idx + 1 < TotalEntries THEN r_idx + 1 ELSE r_idx + 1 - TotalEntries
          /\ r_idx' \in 0 .. TotalEntries - 1
      BY <1>1, <3>1, EntryNext
    <3>3. ASSUME NEW i \in 0 .. cur_entries - 1
          PROVE  (r_idx' + i) % TotalEntries = (r_idx + (i + 1)) % TotalEntries
      <4>1. i + 1 \in 0 .. TotalEntries /\ i \in 0 .. TotalEntries
        BY <1>1
      <4>2. (r_idx' + i) % TotalEntries = IF r_idx' + i < TotalEntries THEN r_idx' + i
                                          ELSE r_idx' + i - TotalEntries
        BY <3>2, <4>1, EntryWrap
      <4>3. (r_idx + (i + 1)) % TotalEntries = IF r_idx + (i + 1) < TotalEntries
               THEN r_idx + (i + 1) ELSE r_idx + (i + 1) - TotalEntries
        BY <4>1, <1>2
      <4> QED  BY <3>2, <4>1, <4>2, <4>3, <1>1
    <3>4. w_idx' = (r_idx' + cur_entries') % TotalEntries
      <4>1. cur_entries - 1 \in 0 .. cur_entries - 1 /\ (cur_entries - 1) + 1 = cur_entries
        BY <1>1, <2>2
      <4>2. (r_idx' + (cur_entries - 1)) % TotalEntries = (r_idx + cur_entries) % TotalEntries
        BY <4>1, <3>3
      <4> QED  BY <4>2, <3>1 DEF MsgInv
    <3>5. recvd' + cur_entries' = sent'
      BY <3>1, <1>1, <2>2 DEF MsgInv, MessagesIntact
    <3>6. ASSUME NEW i \in 0 .. cur_entries' - 1
          PROVE  msgs'[(r_idx' + i) % TotalEntries] = recvd' + i + 1
      <4>1. i \in 0 .. cur_entries - 1 /\ i + 1 \in 0 .. cur_entries - 1
        BY <3>1, <1>1
      <4>2. msgs[(r_idx + (i + 1)) % TotalEntries] = recvd + (i + 1) + 1
        BY <4>1 DEF MsgInv, MessagesIntact
      <4>3. recvd + (i + 1) + 1 = recvd' + i + 1
        BY <3>1, <1>1, <4>1
      <4> QED  BY <4>1, <4>2, <4>3, <3>1, <3>3
    <3> QED  BY <3>4, <3>5, <3>6 DEF MsgInv, MessagesIntact
  <2> QED  BY <2>1, <2>2
<1>5. CASE VmmPut
  <2>1. CASE ~(cur_entries < TotalEntries)
    BY <1>3, <1>5, <2>1 DEF VmmPut, MsgKept
  <2>2. CASE cur_entries < TotalEntries
    <3>1. /\ cur_entries' = cur_entries + 1 /\ w_idx' = (w_idx + 1) % TotalEntries
          /\ sent' = sent + 1 /\ msgs' = [msgs EXCEPT ![w_idx] = sent + 1]
          /\ UNCHANGED <<r_idx, recvd>>
      BY <1>5, <2>2 DEF VmmPut
    <3>2. w_idx' = IF w_idx + 1 < TotalEntries THEN w_idx + 1 ELSE w_idx + 1 - TotalEntries
      BY <1>1, <3>1, EntryNext
    <3>3. w_idx = IF r_idx + cur_entries < TotalEntries THEN r_idx + cur_entries
                  ELSE r_idx + cur_entries - TotalEntries
      BY <1>1, <1>2 DEF MsgInv
    <3>4. w_idx' = (r_idx' + cur_entries') % TotalEntries
      <4>1. cur_entries' \in 0 .. TotalEntries
        BY <1>1, <2>2, <3>1
      <4>2. (r_idx + cur_entries') % TotalEntries = IF r_idx + cur_entries' < TotalEntries
               THEN r_idx + cur_entries' ELSE r_idx + cur_entries' - TotalEntries
        BY <4>1, <1>1, EntryWrap
      <4> QED  BY <4>2, <3>1, <3>2, <3>3, <1>1
    <3>5. recvd' + cur_entries' = sent'
      BY <3>1, <1>1 DEF MsgInv, MessagesIntact
    <3>6. ASSUME NEW i \in 0 .. cur_entries' - 1
          PROVE  msgs'[(r_idx' + i) % TotalEntries] = recvd' + i + 1
      <4>1. i \in 0 .. TotalEntries /\ i \in 0 .. cur_entries
        BY <3>1, <1>1
      <4>2. CASE i = cur_entries
        <5>1. (r_idx + i) % TotalEntries = w_idx
          BY <4>2 DEF MsgInv
        <5>2. recvd + i + 1 = sent + 1
          BY <4>2, <1>1 DEF MsgInv, MessagesIntact
        <5> QED  BY <5>1, <5>2, <3>1, <1>1
      <4>3. CASE i # cur_entries
        <5>1. i \in 0 .. cur_entries - 1 /\ i < cur_entries /\ i \in Nat
          BY <4>1, <4>3, <1>1
        <5>2. (r_idx + i) % TotalEntries # w_idx
          <6>1. (r_idx + i) % TotalEntries = IF r_idx + i < TotalEntries THEN r_idx + i
                                             ELSE r_idx + i - TotalEntries
            BY <4>1, <1>2
          <6>2. cur_entries \in Nat /\ cur_entries < TotalEntries /\ r_idx \in Nat
                /\ TotalEntries \in Nat
            BY <1>1, <2>2
          <6> QED  BY <6>1, <6>2, <5>1, <3>3
        <5>3. msgs[(r_idx + i) % TotalEntries] = recvd + i + 1
          BY <5>1 DEF MsgInv, MessagesIntact
        <5> QED  BY <5>2, <5>3, <4>1, <3>1, <1>1, <1>2
      <4> QED  BY <4>2, <4>3
    <3> QED  BY <3>4, <3>5, <3>6 DEF MsgInv, MessagesIntact
  <2> QED  BY <2>1, <2>2
<1>6. ASSUME NEW c \in Conns,
             \/ ConnectBegin(c) \/ ReleaseBegin(c) \/ pisces_request_irq(c) \/ SetVector(c)
             \/ ConnectFile(c) \/ pisces_release_irq(c) \/ ReleaseFree(c)
      PROVE  MsgKept
  BY <1>6 DEF ConnectBegin, ReleaseBegin, pisces_request_irq, SetVector, ConnectFile,
              pisces_release_irq, ReleaseFree, MsgKept, vring
<1>7. ASSUME NEW v \in Vectors, cons_kick(v) PROVE MsgKept
  BY <1>7 DEF cons_kick, MsgKept, vring
<1>8. ASSUME NEW t \in Threads,
             \/ \E c \in Conns : CallBegin(t, c)
             \/ WaitEvent(t) \/ Signal(t) \/ TakeLock(t) \/ console_poll(t) \/ PollGivesUp(t)
      PROVE  MsgKept
  BY <1>8 DEF CallBegin, WaitEvent, Signal, TakeLock, console_poll, PollGivesUp, MsgKept, vring
<1>9. ASSUME VmmLock \/ VmmKick \/ UNCHANGED vvars PROVE MsgKept
  BY <1>9 DEF VmmLock, VmmKick, vvars, MsgKept, vring
<1> QED  BY <1>3, <1>4, <1>5, <1>6, <1>7, <1>8, <1>9 DEF VNext, ConnectStep

-----------------------------------------------------------------------------
(* Sleepers.                                                               *)
HasKick(t) ==
    Sleeping(t) /\ cur_entries > 0 /\ Kicked(th[t].c) => irq[th[t].c] \in pend \/ vmm.pc = "kick"

(* A thread that does not move keeps its kick when nobody takes it away.   *)
LEMMA KickKept ==
    ASSUME VTypeOK, NEW t \in Threads, HasKick(t), th'[t] = th[t] \/ ~Sleeping(t)',
           cur_entries' > 0 => cur_entries > 0,
           Sleeping(t) => irq'[th[t].c] = irq[th[t].c],
           vmm'.client => vmm.client, kick_ipi_vec' = kick_ipi_vec,
           pend \subseteq pend', vmm.pc = "kick" => vmm'.pc = "kick"
    PROVE  HasKick(t)'
BY DEF HasKick, Sleeping, Kicked

LEMMA SleeperStep ==
    ASSUME VTypeOK, HandlerInv, SleeperHasKick, ~Shared, [VNext]_vvars
    PROVE  SleeperHasKick'
<1>1. /\ conn \in [Conns -> {"none", "irq", "vec", "file", "open", "leaked", "free_irq", "kfree"}]
      /\ irq \in [Conns -> Vectors \cup {NoVec}] /\ cur_entries \in Nat
      /\ th \in [Threads -> ThCalls] /\ NoVec \notin Vectors /\ NoCons \notin Conns
      /\ vmm \in [pc : {"idle", "in", "kick"}, client : BOOLEAN]
  BY V3Assumption DEF VTypeOK, ThCalls
<1>2. \A t \in Threads : HasKick(t)
  BY DEF SleeperHasKick, HasKick
<1>3. \A t \in Threads : Sleeping(t) => th[t].c \in Conns /\ conn[th[t].c] = "open"
                                        /\ irq[th[t].c] \in Vectors
  <2>1. ASSUME NEW t \in Threads, Sleeping(t)
        PROVE  th[t].c \in Conns /\ conn[th[t].c] = "open" /\ irq[th[t].c] \in Vectors
    <3>1. th[t].c # NoCons /\ th[t].c \in Conns \cup {NoCons}
      BY <1>1, <2>1 DEF HandlerInv, Sleeping, ThCalls
    <3>2. conn[th[t].c] = "open"
      BY <3>1 DEF HandlerInv
    <3> QED  BY <1>1, <3>1, <3>2 DEF HandlerInv, HasIrq
  <2> QED  BY <2>1
<1>4. SUFFICES ASSUME NEW t \in Threads PROVE HasKick(t)'
  BY DEF SleeperHasKick, HasKick
<1>5. HasKick(t)
  BY <1>2
<1>6. ASSUME NEW c \in Conns, ConnectBegin(c) PROVE HasKick(t)'
  <2>1. \A d \in Conns : conn[d] # "open"
    BY <1>6 DEF ConnectBegin
  <2>2. ~Sleeping(t) /\ th' = th
    BY <1>3, <1>6, <2>1 DEF ConnectBegin
  <2> QED  BY <2>2 DEF HasKick, Sleeping
<1>7. ASSUME NEW c \in Conns, ReleaseBegin(c) PROVE HasKick(t)'
  <2>1. /\ UNCHANGED <<cur_entries, kick_ipi_vec, irq, pend, th>>
        /\ (vmm' = [vmm EXCEPT !.client = FALSE] \/ vmm' = [vmm EXCEPT !.client = vmm.client])
    BY <1>7 DEF ReleaseBegin, vring
  <2>2. (vmm'.client => vmm.client) /\ vmm'.pc = vmm.pc
    BY <1>1, <2>1
  <2> QED  BY <1>5, <2>1, <2>2, KickKept
<1>8. ASSUME NEW c \in Conns, pisces_request_irq(c) PROVE HasKick(t)'
  <2>1. /\ conn[c] = "irq" /\ UNCHANGED <<cur_entries, kick_ipi_vec, pend, th, vmm>>
        /\ \A d \in Conns : d # c => irq'[d] = irq[d]
    BY <1>1, <1>8 DEF pisces_request_irq, vring
  <2>2. Sleeping(t) => irq'[th[t].c] = irq[th[t].c]
    BY <1>3, <2>1
  <2> QED  BY <1>5, <2>1, <2>2, KickKept
<1>9. ASSUME NEW c \in Conns, SetVector(c) PROVE HasKick(t)'
  <2>1. /\ conn[c] = "vec" /\ UNCHANGED <<cur_entries, irq, pend, th, vmm>>
        /\ kick_ipi_vec' \in {irq[c], NoVec}
    BY <1>9 DEF SetVector, vring
  <2>2. Sleeping(t) => irq[th[t].c] # irq[c]
    BY <1>1, <1>3, <2>1 DEF HandlerInv
  <2> QED  BY <2>1, <2>2, <1>3 DEF HasKick, Kicked, Sleeping
<1>10. ASSUME NEW c \in Conns, pisces_release_irq(c) PROVE HasKick(t)'
  <2>1. /\ conn[c] = "free_irq" /\ UNCHANGED <<cur_entries, kick_ipi_vec, pend, th, vmm>>
        /\ \A d \in Conns : d # c => irq'[d] = irq[d]
    BY <1>1, <1>10 DEF pisces_release_irq, vring
  <2>2. Sleeping(t) => irq'[th[t].c] = irq[th[t].c]
    BY <1>3, <2>1
  <2> QED  BY <1>5, <2>1, <2>2, KickKept
<1>11. ASSUME NEW c \in Conns, ConnectFile(c) \/ ReleaseFree(c) PROVE HasKick(t)'
  <2>1. UNCHANGED <<cur_entries, kick_ipi_vec, irq, pend, th, vmm>>
    BY <1>11 DEF ConnectFile, ReleaseFree, vring
  <2> QED  BY <1>5, <2>1, KickKept
<1>12. ASSUME NEW v \in Vectors, cons_kick(v) PROVE HasKick(t)'
  <2>1. /\ pend' = pend \ {v} /\ UNCHANGED <<cur_entries, kick_ipi_vec, irq, vmm>>
        /\ (UNCHANGED th /\ ~(handler[v] # NoCons /\ cur_entries > 0)) \/ Wake(handler[v])
    BY <1>12 DEF cons_kick, vring
  <2>2. CASE UNCHANGED th /\ ~(handler[v] # NoCons /\ cur_entries > 0)
    <3>1. ASSUME Sleeping(t), cur_entries > 0, irq[th[t].c] = v PROVE FALSE
      <4>1. handler[v] = th[t].c
        BY <1>1, <1>3, <3>1 DEF HandlerInv
      <4> QED  BY <1>1, <1>3, <2>2, <3>1, <4>1
    <3> QED  BY <1>5, <2>1, <2>2, <3>1 DEF HasKick, Sleeping, Kicked
  <2>3. CASE Wake(handler[v])
    <3>1. th'[t] = th[t] \/ ~Sleeping(t)'
      BY <1>1, <2>3 DEF Wake, Sleeping, ThCalls
    <3>2. th'[t] = th[t] /\ Sleeping(t) => th[t].c # handler[v]
      BY <1>1, <2>3 DEF Wake, Sleeping, ThCalls
    <3>3. th'[t] = th[t] /\ Sleeping(t) => irq[th[t].c] # v
      BY <1>1, <1>3, <3>2 DEF HandlerInv
    <3>4. CASE th'[t] = th[t]
      BY <1>5, <2>1, <3>3, <3>4 DEF HasKick, Sleeping, Kicked
    <3>5. CASE ~Sleeping(t)'
      BY <3>5 DEF HasKick
    <3> QED  BY <3>1, <3>4, <3>5
  <2> QED  BY <2>1, <2>2, <2>3
<1>13. ASSUME NEW s \in Threads, th'[t] = th[t] \/ ~Sleeping(t)',
              UNCHANGED <<irq, kick_ipi_vec, vmm, pend>>, cur_entries' > 0 => cur_entries > 0
       PROVE  HasKick(t)'
  BY <1>5, <1>13, KickKept
<1>14. ASSUME NEW s \in Threads,
              \/ \E c \in Conns : CallBegin(s, c)
              \/ Signal(s) \/ TakeLock(s) \/ PollGivesUp(s)
       PROVE  HasKick(t)'
  <2>1. UNCHANGED <<irq, kick_ipi_vec, vmm, pend, cur_entries>>
    BY <1>14 DEF CallBegin, Signal, TakeLock, PollGivesUp, vring
  <2>2. th'[t] = th[t] \/ ~Sleeping(t)'
    BY <1>1, <1>14 DEF CallBegin, Signal, TakeLock, PollGivesUp, Goto, NoCall, Sleeping, ThCalls
  <2> QED  BY <1>13, <2>1, <2>2
<1>15. ASSUME NEW s \in Threads, cons_dequeue(s) PROVE HasKick(t)'
  <2>1. UNCHANGED <<irq, kick_ipi_vec, vmm, pend>> /\ (cur_entries' > 0 => cur_entries > 0)
    BY <1>1, <1>15 DEF cons_dequeue
  <2>2. th'[t] = th[t] \/ ~Sleeping(t)'
    BY <1>1, <1>15 DEF cons_dequeue, NoCall, Sleeping
  <2> QED  BY <1>13, <2>1, <2>2
<1>16. ASSUME NEW s \in Threads, WaitEvent(s) \/ console_poll(s) PROVE HasKick(t)'
  <2>1. UNCHANGED <<irq, kick_ipi_vec, vmm, pend, cur_entries>>
    BY <1>16 DEF WaitEvent, console_poll, vring
  <2>2. th'[t] = th[t] \/ ~Sleeping(t)' \/ ~(cur_entries > 0)
    <3>1. CASE WaitEvent(s)
      BY <1>1, <3>1 DEF WaitEvent, Goto, Sleeping, ThCalls
    <3>2. CASE console_poll(s)
      BY <1>1, <3>2 DEF console_poll, NoCall, Sleeping, ThCalls
    <3> QED  BY <1>16, <3>1, <3>2
  <2>3. CASE ~(cur_entries > 0)
    BY <2>1, <2>3 DEF HasKick
  <2> QED  BY <1>13, <2>1, <2>2, <2>3
<1>17. CASE VmmLock
  <2>1. UNCHANGED <<irq, kick_ipi_vec, pend, cur_entries, th>> /\ vmm.pc = "idle"
        /\ vmm'.client = vmm.client
    BY <1>1, <1>17 DEF VmmLock
  <2> QED  BY <1>5, <2>1, KickKept
<1>18. CASE VmmPut
  <2>1. CASE cur_entries < TotalEntries
    <3>1. vmm'.pc = "kick"
      BY <1>1, <1>18, <2>1 DEF VmmPut
    <3> QED  BY <3>1 DEF HasKick
  <2>2. CASE ~(cur_entries < TotalEntries)
    <3>1. UNCHANGED <<irq, kick_ipi_vec, pend, cur_entries, th>> /\ vmm.pc = "in"
          /\ vmm'.client = vmm.client
      BY <1>1, <1>18, <2>2 DEF VmmPut
    <3> QED  BY <1>5, <3>1, KickKept
  <2> QED  BY <2>1, <2>2
<1>19. CASE VmmKick
  <2>1. /\ UNCHANGED <<irq, kick_ipi_vec, cur_entries, th>> /\ vmm'.client = vmm.client
        /\ pend' = IF vmm.client /\ kick_ipi_vec # NoVec THEN pend \cup {kick_ipi_vec} ELSE pend
    BY <1>1, <1>19 DEF VmmKick, vring
  <2> QED  BY <2>1 DEF HasKick, Kicked, Sleeping
<1>20. CASE UNCHANGED vvars
  BY <1>5, <1>20 DEF HasKick, Kicked, Sleeping, vvars, vring
<1> QED  BY <1>6, <1>7, <1>8, <1>9, <1>10, <1>11, <1>12, <1>14, <1>15, <1>16, <1>17, <1>18,
            <1>19, <1>20 DEF VNext, ConnectStep

-----------------------------------------------------------------------------
LEMMA VmInit ==
    ASSUME VInit
    PROVE  VTypeOK /\ HandlerInv /\ MsgInv /\ SleeperHasKick
<1>1. TotalEntries \in Nat \ {0}
  BY V3Assumption
<1>2. \A t \in Threads : th[t].pc = "idle" /\ th[t].c = NoCons
  BY DEF VInit, NoCall
<1>3. VTypeOK
  <2>1. msgs \in [0 .. TotalEntries - 1 -> Nat] /\ 0 \in 0 .. TotalEntries - 1
        /\ 0 \in 0 .. TotalEntries
    BY <1>1 DEF VInit
  <2>2. th \in [Threads -> ThCalls]
    BY DEF VInit, NoCall, ThCalls
  <2> QED  BY <2>1, <2>2 DEF VInit, VTypeOK, ThCalls
<1>4. HandlerInv /\ SleeperHasKick
  BY <1>2 DEF VInit, HandlerInv, HasIrq, SleeperHasKick, Sleeping
<1>5. MsgInv
  <2>1. (0 + 0) % TotalEntries = 0
    BY <1>1
  <2> QED  BY <2>1 DEF VInit, MsgInv, MessagesIntact
<1> QED  BY <1>3, <1>4, <1>5

(* The VM's ring loses, doubles and reorders no message, and a sleeper on the *)
(* console that the VMM kicks has a kick coming, when the VM has one console *)
(* at a time (cons_dequeue, console_read, console_poll).                   *)
THEOREM VmRingCorrect ==
    ASSUME ~Shared
    PROVE  VSpec => []VmRingInv
<1>1. VInit => VmRingIInv
  BY VmInit DEF VmRingIInv
<1>2. VmRingIInv /\ [VNext]_vvars => VmRingIInv'
  BY VTypeStep, HandlerStep, MessageStep, SleeperStep DEF VmRingIInv
<1>3. VmRingIInv => VmRingInv
  BY DEF VmRingIInv, MsgInv, VmRingInv
<1> QED  BY <1>1, <1>2, <1>3, PTL DEF VSpec

(* An interrupt, whenever it comes, finds the console its handler was      *)
(* registered for allocated, and with its wait queue initialised unless    *)
(* v3_console_connect is still between pisces_request_irq and              *)
(* init_waitqueue_head; with any number of consoles, releases and VMM      *)
(* writes beside them.                                                     *)
THEOREM KickCorrect == VSpec => []KickSafe
<1>1. VInit => VTypeOK /\ HandlerInv
  BY VmInit
<1>2. VTypeOK /\ HandlerInv /\ [VNext]_vvars => (VTypeOK /\ HandlerInv)'
  BY VTypeStep, HandlerStep
<1>3. VTypeOK /\ HandlerInv => KickSafe
  <2> SUFFICES ASSUME VTypeOK, HandlerInv PROVE KickSafe
    OBVIOUS
  <2>1. handler \in [Vectors -> Conns \cup {NoCons}] /\ NoVec \notin Vectors
    BY V3Assumption DEF VTypeOK
  <2>2. \A v \in Vectors : handler[v] # NoCons =>
            handler[v] \in Conns /\ irq[handler[v]] = v /\ conn[handler[v]] \in HasIrq
    BY <2>1 DEF HandlerInv
  <2>3. HandlerAlive
    BY <2>2 DEF HandlerAlive, HasIrq
  <2>4. QueueReady
    BY <2>1, <2>2 DEF QueueReady, HandlerInv, HasIrq
  <2> QED  BY <2>3, <2>4 DEF KickSafe
<1> QED  BY <1>1, <1>2, <1>3, PTL DEF VSpec
=============================================================================
