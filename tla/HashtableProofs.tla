-------------------------- MODULE HashtableProofs --------------------------
(***************************************************************************)
(* Theorems about Hashtable: whatever its length, its chains, its growth   *)
(* and the allocations that fail, the table is the bag of pairs of HashMap. *)
(***************************************************************************)
EXTENDS Hashtable, FiniteSetTheorems, SequenceTheorems, WellFoundedInduction, TLAPS

-----------------------------------------------------------------------------
(* Induction over a range of numbers, for the facts about loops over lists: by
   the least number that is not in the set.                                *)

(* A set of numbers has a least one.                                       *)
LEMMA LeastNat ==
    ASSUME NEW T, T \subseteq Nat, T # {}
    PROVE  \E n \in T : \A m \in T : n <= m
<1>1. IsWellFoundedOn(OpToRel(<, Nat), Nat)
  BY NatLessThanWellFounded, Zenon
<1>2. PICK x \in T : \A y \in T : ~ (<<y, x>> \in OpToRel(<, Nat))
  BY <1>1, WFMin, Zenon
<1>3. \A y \in T : ~ (y < x)
  BY <1>2 DEF OpToRel
<1>4. QED
  BY <1>3

(* A set with 0, and with the successor of each of its numbers below N, has all
   numbers up to N.                                                        *)
LEMMA UpTo ==
    ASSUME NEW N \in Nat, NEW S, 0 \in S, \A n \in 0 .. N - 1 : n \in S => n + 1 \in S
    PROVE  0 .. N \subseteq S
<1>1. SUFFICES ASSUME (0 .. N) \ S # {} PROVE FALSE
  OBVIOUS
<1>2. PICK n \in (0 .. N) \ S : \A m \in (0 .. N) \ S : n <= m
  <2> DEFINE T == (0 .. N) \ S
  <2>1. T \subseteq Nat /\ T # {}
    BY <1>1
  <2> HIDE DEF T
  <2>2. \E n \in T : \A m \in T : n <= m
    BY <2>1, LeastNat
  <2> QED
    BY <2>2 DEF T
<1>3. n \in Nat /\ n # 0 /\ n - 1 \in 0 .. N - 1 /\ n - 1 \in S
  BY <1>2
<1>4. QED
  BY <1>2, <1>3

(* The greatest element of a set of numbers.                               *)
LEMMA MaxIs ==
    ASSUME NEW u, u \subseteq Nat, NEW x \in u, \A y \in u : y <= x
    PROVE  Max(u) = x
<1>1. \A z \in u : (\A y \in u : z >= y) => z = x
  OBVIOUS
<1>2. \A y \in u : x >= y
  OBVIOUS
<1> QED
  BY <1>1, <1>2 DEF Max

(* The numbers up to n, as a set from which the greatest is taken.         *)
LEMMA RangeMax ==
    ASSUME NEW N \in Nat, NEW n \in 1 .. N
    PROVE  /\ 1 .. n \in SUBSET (1 .. N) /\ 1 .. n # {}
           /\ Max(1 .. n) = n /\ (1 .. n) \ {Max(1 .. n)} = 1 .. n - 1
<1>0. n \in Nat /\ 1 <= n /\ n <= N
  OBVIOUS
<1>1. 1 .. n \subseteq 1 .. N /\ n \in 1 .. n
  BY ONLY <1>0, N \in Nat
<1>2. Max(1 .. n) = n
  <2>1. 1 .. n \subseteq Nat /\ \A y \in 1 .. n : y <= n
    BY <1>0
  <2> QED
    BY <2>1, <1>1, MaxIs
<1>3. (1 .. n) \ {n} = 1 .. n - 1
  BY <1>0
<1> QED
  BY <1>1, <1>2, <1>3

(* The least element of a set of numbers.                                  *)
LEMMA MinIs ==
    ASSUME NEW T, T \subseteq Nat, T # {}
    PROVE  Min(T) \in T
<1>1. PICK n \in T : \A m \in T : n <= m
  BY LeastNat
<1>2. \E x \in T : \A y \in T : x =< y
  BY <1>1
<1> QED
  BY <1>2 DEF Min

(* A sequence without its k-th element.                                    *)
LEMMA RemoveAtIs ==
    ASSUME NEW S, NEW s \in Seq(S), NEW k \in 1 .. Len(s)
    PROVE  /\ RemoveAt(s, k) \in Seq(S)
           /\ Len(RemoveAt(s, k)) = Len(s) - 1
           /\ \A i \in 1 .. Len(s) - 1 : RemoveAt(s, k)[i] = IF i < k THEN s[i] ELSE s[i + 1]
<1> DEFINE a == SubSeq(s, 1, k - 1)
           b == SubSeq(s, k + 1, Len(s))
<1>6. /\ a \in Seq(S) /\ Len(a) = k - 1
      /\ \A i \in 1 .. k - 1 : a[i] = s[i]
  BY SubSeqProperties
<1>7. /\ b \in Seq(S) /\ Len(b) = Len(s) - k
      /\ \A i \in 1 .. Len(s) - k : b[i] = s[k + i]
  BY SubSeqProperties
<1>8. /\ a \o b \in Seq(S) /\ Len(a \o b) = Len(a) + Len(b)
      /\ \A i \in 1 .. Len(a) + Len(b) :
            (a \o b)[i] = IF i <= Len(a) THEN a[i] ELSE b[i - Len(a)]
  BY <1>6, <1>7, ConcatProperties
<1>9. Len(s) \in Nat /\ k \in Nat /\ k >= 1 /\ k <= Len(s)
  OBVIOUS
<1> HIDE DEF a, b
<1>10. Len(a) + Len(b) = Len(s) - 1
  BY <1>6, <1>7, <1>9
<1>11. ASSUME NEW i \in 1 .. Len(s) - 1
       PROVE  (a \o b)[i] = IF i < k THEN s[i] ELSE s[i + 1]
  <2>1. (a \o b)[i] = IF i <= k - 1 THEN a[i] ELSE b[i - (k - 1)]
    BY <1>6, <1>8, <1>10
  <2>2. CASE i < k
    BY <2>1, <2>2, <1>6, <1>9
  <2>3. CASE ~(i < k)
    <3>1. i - (k - 1) \in 1 .. Len(s) - k /\ k + (i - (k - 1)) = i + 1
      BY <2>3, <1>9
    <3>2. b[i - (k - 1)] = s[k + (i - (k - 1))]
      BY <3>1, <1>7
    <3> QED
      BY <2>1, <2>3, <3>1, <3>2, <1>9
  <2> QED
    BY <2>2, <2>3
<1>12. RemoveAt(s, k) = a \o b
  BY DEF a, b, RemoveAt
<1> QED
  BY <1>8, <1>10, <1>11, <1>12

(* A set that a function maps to another one without loss has as many elements. *)
LEMMA SameSize ==
    ASSUME NEW S, NEW T, IsFiniteSet(S), NEW f \in [S -> T],
           \A x, y \in S : f[x] = f[y] => x = y,
           \A y \in T : \E x \in S : f[x] = y
    PROVE  IsFiniteSet(T) /\ Cardinality(T) = Cardinality(S)
<1>1. f \in Bijection(S, T)
  BY DEF Bijection, Injection, Surjection, IsInjective
<1>2. ExistsBijection(S, T)
  BY <1>1 DEF ExistsBijection
<1> QED
  BY <1>2, FS_Bijection

(* A function that differs from another one at one argument.               *)
LEMMA ExceptIs ==
    ASSUME NEW P, NEW A, NEW B, NEW q \in P, NEW x,
           A = [p \in P |-> A[p]], B = [p \in P |-> B[p]],
           \A p \in P : B[p] = IF p = q THEN x ELSE A[p]
    PROVE  B = [A EXCEPT ![q] = x]
<1> DEFINE F == [A EXCEPT ![q] = x]
<1>1. DOMAIN A = P
  OBVIOUS
<1>2. F = [p \in P |-> IF p = q THEN x ELSE A[p]]
  BY <1>1
<1> HIDE DEF F
<1>3. B = F
  BY <1>2
<1> QED
  BY <1>3 DEF F

\* An entry has the hash of its key.
HashEntries == {e \in [hash : Nat, key : Keys, value : 0 .. Word - 1] : e.hash = do_hash(e.key)}

HashTables(length) == [0 .. length - 1 -> Seq(HashEntries)]

\* The places of a table that hold an entry of E.
Where(t, E) == {p \in (DOMAIN t) \X Nat : p[2] \in DOMAIN t[p[1]] /\ t[p[1]][p[2]] \in E}

\* The places up to n of a chain that hold an entry of E.
Hits(chain, E, n) == {i \in 1 .. n : chain[i] \in E}

\* Every entry is in the chain that its hash selects.
Sorted(t, length) == \A b \in DOMAIN t : \A i \in DOMAIN t[b] : indexFor(length, t[b][i].hash) = b

(* A chain with an entry at its head.                                      *)
LEMMA PushChain ==
    ASSUME NEW S, NEW c \in Seq(S), NEW e \in S
    PROVE  /\ <<e>> \o c \in Seq(S)
           /\ DOMAIN (<<e>> \o c) = 1 .. Len(c) + 1 /\ DOMAIN c = 1 .. Len(c) /\ Len(c) \in Nat
           /\ (<<e>> \o c)[1] = e
           /\ \A i \in 1 .. Len(c) : (<<e>> \o c)[i + 1] = c[i]
<1>1. <<e>> \in Seq(S) /\ Len(<<e>>) = 1 /\ <<e>>[1] = e
  OBVIOUS
<1>2. Len(c) \in Nat /\ DOMAIN c = 1 .. Len(c)
  OBVIOUS
<1>3. /\ <<e>> \o c \in Seq(S)
      /\ Len(<<e>> \o c) = Len(<<e>>) + Len(c)
      /\ \A i \in 1 .. Len(<<e>>) + Len(c) : (<<e>> \o c)[i] =
                     IF i <= Len(<<e>>) THEN <<e>>[i] ELSE c[i - Len(<<e>>)]
  BY <1>1, ConcatProperties
<1> DEFINE d == <<e>> \o c
           one == <<e>>
<1>4. d \in Seq(S) /\ Len(d) = 1 + Len(c) /\ one[1] = e
      /\ \A i \in 1 .. 1 + Len(c) : d[i] = IF i <= 1 THEN one[i] ELSE c[i - 1]
  BY <1>1, <1>3
<1> HIDE DEF d, one
<1>5. DOMAIN d = 1 .. Len(c) + 1
  BY <1>2, <1>4
<1>6. d[1] = e
  <2>1. 1 \in 1 .. 1 + Len(c) /\ 1 <= 1
    BY <1>2
  <2> QED
    BY <2>1, <1>4
<1>7. ASSUME NEW i \in 1 .. Len(c) PROVE d[i + 1] = c[i]
  <2>1. i + 1 \in 1 .. 1 + Len(c) /\ ~(i + 1 <= 1) /\ i + 1 - 1 = i
    BY <1>2
  <2> QED
    BY <2>1, <1>4
<1> QED
  BY <1>2, <1>4, <1>5, <1>6, <1>7 DEF d

\* u has the places of t with an entry of E, and one more if e is such an entry.
OneMore(t, u, e, E) ==
    /\ IsFiniteSet(Where(u, E))
    /\ Cardinality(Where(u, E)) = Cardinality(Where(t, E)) + (IF e \in E THEN 1 ELSE 0)

(* An entry that goes to the head of a chain shifts the others of the chain, and
   adds one place (htable_insert, hashtable_expand).                       *)
LEMMA PushCount ==
    ASSUME NEW length, NEW t \in HashTables(length), NEW b \in 0 .. length - 1,
           NEW e \in HashEntries, NEW E, IsFiniteSet(Where(t, E)),
           NEW u, u = [t EXCEPT ![b] = <<e>> \o t[b]]
    PROVE  u \in HashTables(length) /\ OneMore(t, u, e, E)
<1> DEFINE c == t[b]
           d == <<e>> \o c
           D == 0 .. length - 1
<1>1. c \in Seq(HashEntries) /\ t \in [D -> Seq(HashEntries)] /\ b \in D
  BY DEF HashTables
<1>2. /\ d \in Seq(HashEntries)
      /\ DOMAIN d = 1 .. Len(c) + 1 /\ DOMAIN c = 1 .. Len(c) /\ Len(c) \in Nat
      /\ d[1] = e
      /\ \A i \in 1 .. Len(c) : d[i + 1] = c[i]
  BY <1>1, PushChain
<1>3. u = [t EXCEPT ![b] = d]
  OBVIOUS
<1>4. u \in [D -> Seq(HashEntries)] /\ u[b] = d /\ \A a \in D : a # b => u[a] = t[a]
  <2> HIDE DEF d, D
  <2> QED
    BY <1>1, <1>2, <1>3
<1>5. DOMAIN u = D /\ DOMAIN t = D
  BY <1>1, <1>4
<1> HIDE DEF c, d, D
<1>50. t[b] = c
  BY DEF c
<1> DEFINE W == Where(t, E)
           X == Where(u, E) \ {<<b, 1>>}
           f == [p \in W |-> IF p[1] = b THEN <<b, p[2] + 1>> ELSE p]
<1>6. \A a, i : <<a, i>> \in W <=> a \in D /\ i \in Nat /\ i \in DOMAIN t[a] /\ t[a][i] \in E
  BY <1>5 DEF Where
<1>7. \A a, i : <<a, i>> \in Where(u, E) <=> a \in D /\ i \in Nat /\ i \in DOMAIN u[a] /\ u[a][i] \in E
  BY <1>5 DEF Where
<1>8. \A p \in W : p = <<p[1], p[2]>>
  BY DEF Where
<1>9. \A p \in Where(u, E) : p = <<p[1], p[2]>>
  BY DEF Where
<1>10. \A i : <<b, i>> \in W <=> i \in 1 .. Len(c) /\ c[i] \in E
  BY <1>6, <1>1, <1>2, <1>50
<1>11. \A i : <<b, i>> \in Where(u, E) <=> i \in 1 .. Len(c) + 1 /\ d[i] \in E
  <2>1. DOMAIN u[b] = 1 .. Len(c) + 1 /\ b \in D /\ u[b] = d
    BY <1>1, <1>2, <1>4
  <2>2. \A i \in 1 .. Len(c) + 1 : i \in Nat
    BY <1>2
  <2>3. \A i : <<b, i>> \in Where(u, E) <=> i \in Nat /\ i \in 1 .. Len(c) + 1 /\ d[i] \in E
    BY <2>1, <1>7
  <2> QED
    BY <2>2, <2>3
<1>12. \A a, i : a # b => (<<a, i>> \in W <=> <<a, i>> \in Where(u, E))
  BY <1>6, <1>7, <1>4
<1> HIDE DEF W
<1>13. ASSUME NEW p \in W PROVE f[p] \in X
  <2>1. CASE p[1] = b
    <3>1. p = <<b, p[2]>> /\ p[2] \in 1 .. Len(c) /\ c[p[2]] \in E
      BY <2>1, <1>8, <1>10
    <3>2. p[2] + 1 \in 1 .. Len(c) + 1 /\ d[p[2] + 1] \in E /\ p[2] + 1 # 1
      BY <3>1, <1>2
    <3>3. <<b, p[2] + 1>> \in Where(u, E)
      BY <3>2, <1>11
    <3> QED
      BY <2>1, <3>2, <3>3
  <2>2. CASE p[1] # b
    <3>1. p = <<p[1], p[2]>> /\ p \in Where(u, E)
      BY <2>2, <1>8, <1>12
    <3>2. p # <<b, 1>> /\ f[p] = p
      BY <2>2, <3>1
    <3> QED
      BY <3>1, <3>2
  <2> QED
    BY <2>1, <2>2
<1>14. ASSUME NEW p \in W, NEW q \in W, f[p] = f[q] PROVE p = q
  <2>1. p = <<p[1], p[2]>> /\ q = <<q[1], q[2]>>
    BY <1>8
  <2>2. CASE p[1] = b /\ q[1] = b
    <3>1. p[2] + 1 = q[2] + 1
      BY <2>2, <1>14
    <3>2. p[2] \in Nat /\ q[2] \in Nat
      BY <1>10, <2>1, <2>2, <1>2
    <3> QED
      BY <3>1, <3>2, <2>1, <2>2
  <2>3. CASE ~(p[1] = b /\ q[1] = b)
    <3>1. f[p][1] = p[1] /\ f[q][1] = q[1]
      BY <2>1
    <3>2. p[1] # b /\ q[1] # b
      BY <3>1, <2>3, <1>14
    <3> QED
      BY <3>2, <1>14
  <2> QED
    BY <2>2, <2>3
<1>15. ASSUME NEW q \in X PROVE \E p \in W : f[p] = q
  <2>1. q = <<q[1], q[2]>> /\ q \in Where(u, E) /\ q # <<b, 1>>
    BY <1>9
  <2>2. CASE q[1] = b
    <3> DEFINE j == q[2] - 1
    <3>1. q[2] \in 1 .. Len(c) + 1 /\ d[q[2]] \in E /\ q[2] # 1
      BY <2>1, <2>2, <1>11
    <3>2. j \in 1 .. Len(c) /\ j + 1 = q[2]
      BY <3>1, <1>2
    <3>3. c[j] \in E
      BY <3>1, <3>2, <1>2
    <3>4. <<b, j>> \in W
      BY <3>2, <3>3, <1>10
    <3> HIDE DEF j
    <3>5. f[<<b, j>>] = <<b, j + 1>>
      BY <3>4
    <3> QED
      BY <2>1, <2>2, <3>2, <3>4, <3>5
  <2>3. CASE q[1] # b
    <3>1. q \in W
      BY <2>1, <2>3, <1>12
    <3> QED
      BY <3>1, <2>3
  <2> QED
    BY <2>2, <2>3
<1>16. f \in [W -> X]
  BY <1>13
<1> HIDE DEF f, X
<1>17. IsFiniteSet(X) /\ Cardinality(X) = Cardinality(W)
  <2>1. IsFiniteSet(W)
    BY DEF W
  <2> QED
    BY <2>1, <1>14, <1>15, <1>16, SameSize
<1>18. <<b, 1>> \in Where(u, E) <=> e \in E
  <2>1. 1 \in 1 .. Len(c) + 1
    BY <1>2
  <2> QED
    BY <2>1, <1>2, <1>11
<1>19. CASE e \in E
  <2>1. Where(u, E) = X \cup {<<b, 1>>} /\ <<b, 1>> \notin X
    BY <1>18, <1>19 DEF X
  <2>2. IsFiniteSet(X \cup {<<b, 1>>}) /\ Cardinality(X \cup {<<b, 1>>}) = Cardinality(X) + 1
    BY <2>1, <1>17, FS_AddElement
  <2> QED
    BY <2>1, <2>2, <1>4, <1>17, <1>19 DEF W, HashTables, D, OneMore
<1>20. CASE e \notin E
  <2>1. Where(u, E) = X
    BY <1>18, <1>20 DEF X
  <2>2. Cardinality(W) \in Nat
    BY FS_CardinalityType DEF W
  <2> QED
    BY <2>1, <2>2, <1>4, <1>17, <1>20 DEF W, HashTables, D, OneMore
<1> QED
  BY <1>19, <1>20

\* An entry goes to the head of the chain that its hash selects.
PushAt(t, length, e) == [t EXCEPT ![indexFor(length, e.hash)] = <<e>> \o @]

(* A hash selects a chain of the table.                                    *)
LEMMA IndexInTable ==
    ASSUME NEW length \in Nat \ {0}, NEW h \in Nat
    PROVE  indexFor(length, h) \in 0 .. length - 1
<1>1. h % length \in 0 .. length - 1
  OBVIOUS
<1> QED
  BY <1>1 DEF indexFor

(* A pushed entry is in the right chain, and the others still are.         *)
LEMMA PushSorted ==
    ASSUME NEW length \in Nat \ {0}, NEW t \in HashTables(length), NEW e \in HashEntries,
           Sorted(t, length)
    PROVE  Sorted(PushAt(t, length, e), length) /\ PushAt(t, length, e) \in HashTables(length)
<1> DEFINE b == indexFor(length, e.hash)
           c == t[b]
           d == <<e>> \o c
           u == PushAt(t, length, e)
<1>1. b \in 0 .. length - 1
  BY IndexInTable DEF HashEntries
<1>2. c \in Seq(HashEntries) /\ t \in [0 .. length - 1 -> Seq(HashEntries)]
  BY <1>1 DEF HashTables
<1>3. /\ d \in Seq(HashEntries)
      /\ DOMAIN d = 1 .. Len(c) + 1 /\ DOMAIN c = 1 .. Len(c) /\ Len(c) \in Nat
      /\ d[1] = e
      /\ \A i \in 1 .. Len(c) : d[i + 1] = c[i]
  BY <1>2, PushChain
<1>4. u = [t EXCEPT ![b] = d]
  BY DEF PushAt
<1>5. indexFor(length, e.hash) = b /\ t[b] = c
  OBVIOUS
<1> HIDE DEF b, c, d, u
<1>6. /\ u \in [0 .. length - 1 -> Seq(HashEntries)] /\ u[b] = d
      /\ \A a \in 0 .. length - 1 : a # b => u[a] = t[a]
  BY <1>1, <1>2, <1>3, <1>4
<1>7. ASSUME NEW a \in 0 .. length - 1, NEW i \in DOMAIN u[a]
      PROVE  indexFor(length, u[a][i].hash) = a
  <2>1. CASE a # b
    BY <2>1, <1>2, <1>6, <1>7 DEF Sorted
  <2>2. CASE a = b
    <3>1. i \in 1 .. Len(c) + 1 /\ u[a][i] = d[i]
      BY <2>2, <1>3, <1>6, <1>7
    <3>2. CASE i = 1
      BY <3>1, <3>2, <2>2, <1>3, <1>5
    <3>3. CASE i # 1
      <4> DEFINE j == i - 1
      <4>1. j \in 1 .. Len(c) /\ j + 1 = i
        BY <3>1, <3>3, <1>3
      <4> HIDE DEF j
      <4>2. d[i] = c[j] /\ j \in DOMAIN c
        BY <4>1, <1>3
      <4>3. indexFor(length, c[j].hash) = b
        BY <4>2, <1>1, <1>2, <1>5 DEF Sorted
      <4> QED
        BY <4>2, <4>3, <3>1, <2>2
    <3> QED
      BY <3>2, <3>3
  <2> QED
    BY <2>1, <2>2
<1> QED
  BY <1>6, <1>7 DEF Sorted, HashTables, u

\* The equation of the fold over a chain.
IsMove(it, new, chain, length, n) ==
    it = [w \in SUBSET (1 .. n) |->
            IF w = {} THEN new ELSE PushAt(it[w \ {Max(w)}], length, chain[Max(w)])]

(* MoveChain is the fold that its equation describes.                      *)
LEMMA MoveIs ==
    ASSUME NEW new, NEW length, NEW S, NEW chain \in Seq(S)
    PROVE  MoveChain(new, chain, length)
                = (CHOOSE it : IsMove(it, new, chain, length, Len(chain)))[1 .. Len(chain)]
<1>1. DOMAIN chain = 1 .. Len(chain)
  OBVIOUS
<1> QED
  BY <1>1 DEF MoveChain, FoldLeft, MapThenFoldSet, IsMove, PushAt

(* The entries of a chain can be moved one after the other.                *)
LEMMA MoveExists ==
    ASSUME NEW new, NEW length, NEW chain, NEW N \in Nat
    PROVE  \E it : IsMove(it, new, chain, length, N)
<1> DEFINE S == {n \in 0 .. N : \E it : IsMove(it, new, chain, length, n)}
<1>1. 0 \in S
  <2> DEFINE it == [w \in SUBSET (1 .. 0) |-> new]
  <2>1. \A w \in SUBSET (1 .. 0) : w = {}
    OBVIOUS
  <2>2. IsMove(it, new, chain, length, 0)
    BY <2>1 DEF IsMove
  <2> QED
    BY <2>2
<1>2. ASSUME NEW n \in 0 .. N - 1, n \in S PROVE n + 1 \in S
  <2>1. PICK g : IsMove(g, new, chain, length, n)
    BY <1>2
  <2> DEFINE h == [w \in SUBSET (1 .. n + 1) |->
                    IF n + 1 \in w THEN PushAt(g[w \ {n + 1}], length, chain[n + 1]) ELSE g[w]]
  <2>2. ASSUME NEW w \in SUBSET (1 .. n + 1)
        PROVE  h[w] = IF w = {} THEN new ELSE PushAt(h[w \ {Max(w)}], length, chain[Max(w)])
    <3>1. CASE n + 1 \in w
      <4>1. Max(w) = n + 1
        <5>1. w \subseteq Nat /\ \A y \in w : y <= n + 1
          OBVIOUS
        <5> QED
          BY <5>1, <3>1, MaxIs
      <4>2. w \ {n + 1} \in SUBSET (1 .. n + 1) /\ n + 1 \notin w \ {n + 1}
        OBVIOUS
      <4>3. h[w \ {n + 1}] = g[w \ {n + 1}]
        BY <4>2
      <4>4. h[w] = PushAt(g[w \ {n + 1}], length, chain[n + 1])
        BY <3>1
      <4> HIDE DEF h
      <4> QED
        BY <3>1, <4>1, <4>3, <4>4
    <3>2. CASE n + 1 \notin w
      <4>1. w \in SUBSET (1 .. n)
        BY <3>2
      <4>2. h[w] = g[w]
        BY <3>2
      <4>3. g[w] = IF w = {} THEN new ELSE PushAt(g[w \ {Max(w)}], length, chain[Max(w)])
        BY <4>1, <2>1 DEF IsMove
      <4>4. w \ {Max(w)} \in SUBSET (1 .. n + 1) /\ n + 1 \notin w \ {Max(w)}
        BY <3>2
      <4>5. h[w \ {Max(w)}] = g[w \ {Max(w)}]
        BY <4>4
      <4> HIDE DEF h
      <4> QED
        BY <4>2, <4>3, <4>5
    <3> QED
      BY <3>1, <3>2
  <2>3. h = [w \in SUBSET (1 .. n + 1) |-> h[w]]
    OBVIOUS
  <2> HIDE DEF h
  <2>4. IsMove(h, new, chain, length, n + 1)
    BY <2>2, <2>3 DEF IsMove
  <2> QED
    BY <2>4
<1> HIDE DEF S
<1>3. 0 .. N \subseteq S
  BY <1>1, <1>2, UpTo
<1>4. N \in S
  BY <1>3
<1> QED
  BY <1>4 DEF S

(* What moving a chain does, entry by entry.                               *)
LEMMA MoveSteps ==
    ASSUME NEW new, NEW length, NEW S, NEW chain \in Seq(S)
    PROVE  \E it : /\ MoveChain(new, chain, length) = it[1 .. Len(chain)]
                   /\ it[1 .. 0] = new
                   /\ \A n \in 1 .. Len(chain) : it[1 .. n] = PushAt(it[1 .. n - 1], length, chain[n])
<1> DEFINE it == CHOOSE i : IsMove(i, new, chain, length, Len(chain))
<1>1. Len(chain) \in Nat
  OBVIOUS
<1>2. IsMove(it, new, chain, length, Len(chain))
  BY <1>1, MoveExists
<1>3. MoveChain(new, chain, length) = it[1 .. Len(chain)]
  BY MoveIs
<1> HIDE DEF it
<1>4. \A w \in SUBSET (1 .. Len(chain)) :
        it[w] = IF w = {} THEN new ELSE PushAt(it[w \ {Max(w)}], length, chain[Max(w)])
  BY <1>2 DEF IsMove
<1>5. it[1 .. 0] = new
  <2>1. 1 .. 0 = {} /\ {} \in SUBSET (1 .. Len(chain))
    OBVIOUS
  <2> QED
    BY <2>1, <1>4
<1>6. ASSUME NEW n \in 1 .. Len(chain) PROVE it[1 .. n] = PushAt(it[1 .. n - 1], length, chain[n])
  <2>1. /\ 1 .. n \in SUBSET (1 .. Len(chain)) /\ 1 .. n # {}
        /\ Max(1 .. n) = n /\ (1 .. n) \ {Max(1 .. n)} = 1 .. n - 1
    BY <1>1, RangeMax
  <2>2. it[1 .. n] = PushAt(it[(1 .. n) \ {Max(1 .. n)}], length, chain[Max(1 .. n)])
    BY <2>1, <1>4
  <2> QED
    BY <2>1, <2>2
<1> QED
  BY <1>3, <1>5, <1>6

(* The places of a chain, one more.                                        *)
LEMMA HitsNext ==
    ASSUME NEW chain, NEW E, NEW n \in Nat
    PROVE  /\ IsFiniteSet(Hits(chain, E, n)) /\ Cardinality(Hits(chain, E, n)) \in Nat
           /\ Cardinality(Hits(chain, E, n + 1))
                = Cardinality(Hits(chain, E, n)) + (IF chain[n + 1] \in E THEN 1 ELSE 0)
           /\ Hits(chain, E, 0) = {}
<1>1. IsFiniteSet(1 .. n)
  <2>1. 1 \in Int /\ n \in Int
    OBVIOUS
  <2> QED
    BY <2>1, FS_Interval
<1>2. IsFiniteSet(Hits(chain, E, n)) /\ Cardinality(Hits(chain, E, n)) \in Nat
  <2>1. Hits(chain, E, n) \in SUBSET (1 .. n)
    BY DEF Hits
  <2> QED
    BY <2>1, <1>1, FS_Subset, FS_CardinalityType
<1>3. 1 .. n + 1 = (1 .. n) \cup {n + 1} /\ n + 1 \notin 1 .. n
  OBVIOUS
<1>4. ASSUME chain[n + 1] \in E
      PROVE  Cardinality(Hits(chain, E, n + 1)) = Cardinality(Hits(chain, E, n)) + 1
  <2> DEFINE H == Hits(chain, E, n)
  <2>1. Hits(chain, E, n + 1) = H \cup {n + 1} /\ n + 1 \notin H
    BY <1>3, <1>4 DEF Hits
  <2> HIDE DEF H
  <2>2. Cardinality(H \cup {n + 1}) = Cardinality(H) + 1
    BY <2>1, <1>2, FS_AddElement DEF H
  <2> QED
    BY <2>1, <2>2 DEF H
<1>5. ASSUME chain[n + 1] \notin E
      PROVE  Cardinality(Hits(chain, E, n + 1)) = Cardinality(Hits(chain, E, n)) + 0
  <2>1. Hits(chain, E, n + 1) = Hits(chain, E, n)
    BY <1>3, <1>5 DEF Hits
  <2> QED
    BY <2>1, <1>2
<1>6. Hits(chain, E, 0) = {}
  BY DEF Hits
<1> QED
  BY <1>2, <1>4, <1>5, <1>6

(* Moving a chain leaves every entry in the chain its hash selects, and adds as
   many places with an entry of E as the chain had (the inner loop of
   hashtable_expand).                                                      *)
LEMMA MoveCount ==
    ASSUME NEW length \in Nat \ {0}, NEW new \in HashTables(length), Sorted(new, length),
           NEW chain \in Seq(HashEntries), NEW E, IsFiniteSet(Where(new, E))
    PROVE  /\ MoveChain(new, chain, length) \in HashTables(length)
           /\ Sorted(MoveChain(new, chain, length), length)
           /\ IsFiniteSet(Where(MoveChain(new, chain, length), E))
           /\ Cardinality(Where(MoveChain(new, chain, length), E))
                = Cardinality(Where(new, E)) + Cardinality(Hits(chain, E, Len(chain)))
<1>0. Len(chain) \in Nat
  OBVIOUS
<1>1. PICK it : /\ MoveChain(new, chain, length) = it[1 .. Len(chain)]
                /\ it[1 .. 0] = new
                /\ \A n \in 1 .. Len(chain) : it[1 .. n] = PushAt(it[1 .. n - 1], length, chain[n])
  BY MoveSteps
<1> DEFINE Good(n) == /\ it[1 .. n] \in HashTables(length) /\ Sorted(it[1 .. n], length)
                      /\ IsFiniteSet(Where(it[1 .. n], E))
                      /\ Cardinality(Where(it[1 .. n], E))
                            = Cardinality(Where(new, E)) + Cardinality(Hits(chain, E, n))
           S == {n \in 0 .. Len(chain) : Good(n)}
<1>2. Cardinality(Where(new, E)) \in Nat
  BY FS_CardinalityType
<1>3. 0 \in S
  <2>1. Cardinality(Hits(chain, E, 0)) = 0
    BY HitsNext, FS_EmptySet
  <2> QED
    BY <2>1, <1>0, <1>1, <1>2
<1>4. ASSUME NEW n \in 0 .. Len(chain) - 1, n \in S PROVE n + 1 \in S
  <2> DEFINE t == it[1 .. n]
             u == it[1 .. n + 1]
             e == chain[n + 1]
             b == indexFor(length, e.hash)
  <2>1. n + 1 \in 1 .. Len(chain) /\ n + 1 - 1 = n /\ n \in Nat /\ n + 1 \in 0 .. Len(chain)
    BY <1>0
  <2>2. it[1 .. n + 1] = PushAt(it[1 .. n + 1 - 1], length, chain[n + 1])
    BY <2>1, <1>1
  <2>3. u = PushAt(t, length, e)
    BY <2>1, <2>2
  <2>4. e \in HashEntries
    BY <2>1
  <2>5. /\ t \in HashTables(length) /\ Sorted(t, length) /\ IsFiniteSet(Where(t, E))
        /\ Cardinality(Where(t, E)) = Cardinality(Where(new, E)) + Cardinality(Hits(chain, E, n))
    BY <1>4
  <2> HIDE DEF t, u, e, b
  <2>6. b \in 0 .. length - 1
    BY <2>4, IndexInTable DEF HashEntries, b
  <2>7. u = [t EXCEPT ![b] = <<e>> \o t[b]]
    BY <2>3 DEF PushAt, b
  <2>8. /\ u \in HashTables(length) /\ IsFiniteSet(Where(u, E))
        /\ Cardinality(Where(u, E)) = Cardinality(Where(t, E)) + (IF e \in E THEN 1 ELSE 0)
    <3>1. u \in HashTables(length) /\ OneMore(t, u, e, E)
      BY <2>4, <2>5, <2>6, <2>7, PushCount
    <3> QED
      BY <3>1 DEF OneMore
  <2>9. Sorted(u, length)
    BY <2>3, <2>4, <2>5, PushSorted
  <2>10. /\ Cardinality(Hits(chain, E, n)) \in Nat
         /\ Cardinality(Hits(chain, E, n + 1))
                = Cardinality(Hits(chain, E, n)) + (IF e \in E THEN 1 ELSE 0)
    BY <2>1, HitsNext DEF e
  <2>11. Cardinality(Where(u, E)) = Cardinality(Where(new, E)) + Cardinality(Hits(chain, E, n + 1))
    BY <2>5, <2>8, <2>10, <1>2
  <2> QED
    BY <2>1, <2>8, <2>9, <2>11 DEF u
<1> HIDE DEF S
<1>5. 0 .. Len(chain) \subseteq S
  BY <1>0, <1>3, <1>4, UpTo
<1>6. Len(chain) \in S
  BY <1>0, <1>5
<1>7. Good(Len(chain))
  BY <1>6 DEF S
<1> QED
  BY <1>1, <1>7

\* The equation of the fold over the old chains.
IsRehash(it, base, chains, length, n) ==
    it = [w \in SUBSET (1 .. n) |->
            IF w = {} THEN base ELSE MoveChain(it[w \ {Max(w)}], chains[Max(w)], length)]

(* So is Rehashed.                                                         *)
LEMMA RehashIs ==
    ASSUME NEW t, NEW length, table_length \in Nat
    PROVE  Rehashed(t, length)
                = (CHOOSE it : IsRehash(it, [b \in 0 .. length - 1 |-> <<>>],
                                        [i \in 1 .. table_length |-> t[i - 1]], length,
                                        table_length))[1 .. table_length]
<1>1. DOMAIN [i \in 1 .. table_length |-> t[i - 1]] = 1 .. table_length
  OBVIOUS
<1> QED
  BY <1>1 DEF Rehashed, FoldLeft, MapThenFoldSet, IsRehash

(* The chains can be moved one after the other.                            *)
LEMMA RehashExists ==
    ASSUME NEW base, NEW length, NEW chains, NEW N \in Nat
    PROVE  \E it : IsRehash(it, base, chains, length, N)
<1> DEFINE S == {n \in 0 .. N : \E it : IsRehash(it, base, chains, length, n)}
<1>1. 0 \in S
  <2> DEFINE it == [w \in SUBSET (1 .. 0) |-> base]
  <2>1. \A w \in SUBSET (1 .. 0) : w = {}
    OBVIOUS
  <2>2. IsRehash(it, base, chains, length, 0)
    BY <2>1 DEF IsRehash
  <2> QED
    BY <2>2
<1>2. ASSUME NEW n \in 0 .. N - 1, n \in S PROVE n + 1 \in S
  <2>1. PICK g : IsRehash(g, base, chains, length, n)
    BY <1>2
  <2> DEFINE h == [w \in SUBSET (1 .. n + 1) |->
                    IF n + 1 \in w THEN MoveChain(g[w \ {n + 1}], chains[n + 1], length) ELSE g[w]]
  <2>2. ASSUME NEW w \in SUBSET (1 .. n + 1)
        PROVE  h[w] = IF w = {} THEN base ELSE MoveChain(h[w \ {Max(w)}], chains[Max(w)], length)
    <3>1. CASE n + 1 \in w
      <4>1. Max(w) = n + 1
        <5>1. w \subseteq Nat /\ \A y \in w : y <= n + 1
          OBVIOUS
        <5> QED
          BY <5>1, <3>1, MaxIs
      <4>2. w \ {n + 1} \in SUBSET (1 .. n + 1) /\ n + 1 \notin w \ {n + 1}
        OBVIOUS
      <4>3. h[w \ {n + 1}] = g[w \ {n + 1}]
        BY <4>2
      <4>4. h[w] = MoveChain(g[w \ {n + 1}], chains[n + 1], length)
        BY <3>1
      <4> HIDE DEF h
      <4> QED
        BY <3>1, <4>1, <4>3, <4>4
    <3>2. CASE n + 1 \notin w
      <4>1. w \in SUBSET (1 .. n)
        BY <3>2
      <4>2. h[w] = g[w]
        BY <3>2
      <4>3. g[w] = IF w = {} THEN base ELSE MoveChain(g[w \ {Max(w)}], chains[Max(w)], length)
        BY <4>1, <2>1 DEF IsRehash
      <4>4. w \ {Max(w)} \in SUBSET (1 .. n + 1) /\ n + 1 \notin w \ {Max(w)}
        BY <3>2
      <4>5. h[w \ {Max(w)}] = g[w \ {Max(w)}]
        BY <4>4
      <4> HIDE DEF h
      <4> QED
        BY <4>2, <4>3, <4>5
    <3> QED
      BY <3>1, <3>2
  <2>3. h = [w \in SUBSET (1 .. n + 1) |-> h[w]]
    OBVIOUS
  <2> HIDE DEF h
  <2>4. IsRehash(h, base, chains, length, n + 1)
    BY <2>2, <2>3 DEF IsRehash
  <2> QED
    BY <2>4
<1> HIDE DEF S
<1>3. 0 .. N \subseteq S
  BY <1>1, <1>2, UpTo
<1>4. N \in S
  BY <1>3
<1> QED
  BY <1>4 DEF S

(* What growing the table does, chain by chain.                            *)
LEMMA RehashSteps ==
    ASSUME NEW t, NEW length, table_length \in Nat
    PROVE  \E it : /\ Rehashed(t, length) = it[1 .. table_length]
                   /\ it[1 .. 0] = [b \in 0 .. length - 1 |-> <<>>]
                   /\ \A n \in 1 .. table_length :
                        it[1 .. n] = MoveChain(it[1 .. n - 1], t[n - 1], length)
<1> DEFINE chains == [i \in 1 .. table_length |-> t[i - 1]]
           base == [b \in 0 .. length - 1 |-> <<>>]
           it == CHOOSE i : IsRehash(i, base, chains, length, table_length)
<1>1. \A n \in 1 .. table_length : chains[n] = t[n - 1]
  OBVIOUS
<1>2. IsRehash(it, base, chains, length, table_length)
  <2> HIDE DEF chains, base
  <2> QED
    BY RehashExists
<1>3. Rehashed(t, length) = it[1 .. table_length]
  BY RehashIs
<1>4. base = [b \in 0 .. length - 1 |-> <<>>]
  OBVIOUS
<1> HIDE DEF it, chains, base
<1>5. \A w \in SUBSET (1 .. table_length) :
        it[w] = IF w = {} THEN base ELSE MoveChain(it[w \ {Max(w)}], chains[Max(w)], length)
  BY <1>2 DEF IsRehash
<1>6. it[1 .. 0] = base
  <2>1. 1 .. 0 = {} /\ {} \in SUBSET (1 .. table_length)
    OBVIOUS
  <2> QED
    BY <2>1, <1>5
<1>7. ASSUME NEW n \in 1 .. table_length
      PROVE  it[1 .. n] = MoveChain(it[1 .. n - 1], t[n - 1], length)
  <2>1. /\ 1 .. n \in SUBSET (1 .. table_length) /\ 1 .. n # {}
        /\ Max(1 .. n) = n /\ (1 .. n) \ {Max(1 .. n)} = 1 .. n - 1
    BY RangeMax
  <2>2. it[1 .. n] = MoveChain(it[(1 .. n) \ {Max(1 .. n)}], chains[Max(1 .. n)], length)
    BY <2>1, <1>5
  <2> QED
    BY <2>1, <2>2, <1>1
<1> QED
  BY <1>3, <1>4, <1>6, <1>7

(* Growing the table leaves every entry in the chain its hash selects, and as
   many places with an entry of E as before (hashtable_expand).            *)
LEMMA RehashCount ==
    ASSUME NEW length \in Nat \ {0}, table_length \in Nat, NEW t \in HashTables(table_length),
           NEW E, IsFiniteSet(Where(t, E))
    PROVE  /\ Rehashed(t, length) \in HashTables(length)
           /\ Sorted(Rehashed(t, length), length)
           /\ IsFiniteSet(Where(Rehashed(t, length), E))
           /\ Cardinality(Where(Rehashed(t, length), E)) = Cardinality(Where(t, E))
<1>1. PICK it : /\ Rehashed(t, length) = it[1 .. table_length]
                /\ it[1 .. 0] = [b \in 0 .. length - 1 |-> <<>>]
                /\ \A n \in 1 .. table_length :
                        it[1 .. n] = MoveChain(it[1 .. n - 1], t[n - 1], length)
  BY RehashSteps
<1> DEFINE Before(n) == {p \in Where(t, E) : p[1] < n}
           Good(n) == /\ it[1 .. n] \in HashTables(length) /\ Sorted(it[1 .. n], length)
                      /\ IsFiniteSet(Where(it[1 .. n], E))
                      /\ Cardinality(Where(it[1 .. n], E)) = Cardinality(Before(n))
           S == {n \in 0 .. table_length : Good(n)}
<1>2. t \in [0 .. table_length - 1 -> Seq(HashEntries)] /\ DOMAIN t = 0 .. table_length - 1
  BY DEF HashTables
<1>3. \A n \in 0 .. table_length : IsFiniteSet(Before(n)) /\ Cardinality(Before(n)) \in Nat
  <2> TAKE n \in 0 .. table_length
  <2>1. Before(n) \in SUBSET Where(t, E)
    OBVIOUS
  <2> QED
    BY <2>1, FS_Subset, FS_CardinalityType
<1>4. \A p \in Where(t, E) : p = <<p[1], p[2]>> /\ p[1] \in 0 .. table_length - 1
  BY <1>2 DEF Where
<1>5. 0 \in S
  <2> DEFINE base == [b \in 0 .. length - 1 |-> <<>>]
  <2>1. base \in HashTables(length) /\ \A b \in 0 .. length - 1 : DOMAIN base[b] = {}
    BY DEF HashTables
  <2>2. DOMAIN base = 0 .. length - 1
    OBVIOUS
  <2> HIDE DEF base
  <2>3. Sorted(base, length) /\ Where(base, E) = {}
    BY <2>1, <2>2 DEF Sorted, Where
  <2>4. Before(0) = {}
    BY <1>4
  <2> HIDE DEF Before
  <2>5. it[1 .. 0] = base
    BY <1>1 DEF base
  <2>6. IsFiniteSet(Where(it[1 .. 0], E)) /\ Where(it[1 .. 0], E) = Before(0)
    BY <2>3, <2>4, <2>5, FS_EmptySet
  <2>7. Good(0)
    BY <2>1, <2>3, <2>5, <2>6
  <2>8. 0 \in 0 .. table_length
    OBVIOUS
  <2> QED
    BY <2>7, <2>8
<1>6. ASSUME NEW n \in 0 .. table_length - 1, n \in S PROVE n + 1 \in S
  <2> DEFINE new == it[1 .. n]
             chain == t[n]
  <2>1. n + 1 \in 1 .. table_length /\ n + 1 - 1 = n /\ n \in Nat /\ n + 1 \in 0 .. table_length
    OBVIOUS
  <2>2. it[1 .. n + 1] = MoveChain(it[1 .. n + 1 - 1], t[n + 1 - 1], length)
    BY <2>1, <1>1
  <2>3. it[1 .. n + 1] = MoveChain(new, chain, length)
    BY <2>1, <2>2
  <2>4. /\ new \in HashTables(length) /\ Sorted(new, length) /\ IsFiniteSet(Where(new, E))
        /\ Cardinality(Where(new, E)) = Cardinality(Before(n))
    BY <1>6
  <2>5. chain \in Seq(HashEntries) /\ t[n] = chain
    BY <1>2
  <2> HIDE DEF new, chain
  <2>6. Len(chain) \in Nat /\ DOMAIN chain = 1 .. Len(chain)
    BY <2>5
  <2>7. /\ MoveChain(new, chain, length) \in HashTables(length)
        /\ Sorted(MoveChain(new, chain, length), length)
        /\ IsFiniteSet(Where(MoveChain(new, chain, length), E))
        /\ Cardinality(Where(MoveChain(new, chain, length), E))
                = Cardinality(Where(new, E)) + Cardinality(Hits(chain, E, Len(chain)))
    BY <2>4, <2>5, MoveCount
  <2> DEFINE H == Hits(chain, E, Len(chain))
             X == {p \in Where(t, E) : p[1] = n}
             f == [i \in H |-> <<n, i>>]
  <2>8. IsFiniteSet(H) /\ Cardinality(H) \in Nat
    BY <2>6, HitsNext
  <2>9. \A i : <<n, i>> \in Where(t, E) <=> i \in 1 .. Len(chain) /\ chain[i] \in E
    <3>1. \A i : <<n, i>> \in Where(t, E) <=> i \in Nat /\ i \in DOMAIN t[n] /\ t[n][i] \in E
      BY <1>2 DEF Where
    <3>2. \A i \in 1 .. Len(chain) : i \in Nat
      BY <2>6
    <3> QED
      BY <3>1, <3>2, <2>5, <2>6
  <2>10. \A i : i \in H <=> i \in 1 .. Len(chain) /\ chain[i] \in E
    BY DEF Hits
  <2>11. IsFiniteSet(X) /\ Cardinality(X) = Cardinality(H)
    <3>1. f \in [H -> X]
      BY <2>9, <2>10
    <3>2. \A i, j \in H : f[i] = f[j] => i = j
      OBVIOUS
    <3>3. \A q \in X : \E i \in H : f[i] = q
      <4> TAKE q \in X
      <4>1. q = <<n, q[2]>> /\ q \in Where(t, E)
        BY <1>4
      <4>2. q[2] \in H
        BY <4>1, <2>9, <2>10
      <4> QED
        BY <4>1, <4>2
    <3> HIDE DEF f, X, H
    <3> QED
      BY <3>1, <3>2, <3>3, <2>8, SameSize
  <2>12. Before(n + 1) = Before(n) \cup X /\ Before(n) \cap X = {}
    BY <1>4, <2>1
  <2>13. Cardinality(Before(n + 1)) = Cardinality(Before(n)) + Cardinality(X)
    <3>1. n \in 0 .. table_length
      OBVIOUS
    <3>2. IsFiniteSet(Before(n)) /\ Cardinality(Before(n)) \in Nat
      BY <3>1, <1>3
    <3> DEFINE B == Before(n)
    <3>6. Cardinality(Before(n + 1)) = Cardinality(B \cup X) /\ B \cap X = {}
      BY <2>12
    <3> HIDE DEF X, Before, B
    <3>3. Cardinality(B \cup X) = Cardinality(B) + Cardinality(X) - Cardinality(B \cap X)
      BY <3>2, <2>11, FS_Union DEF B
    <3>4. Cardinality(B \cap X) = 0
      BY <3>6, FS_EmptySet
    <3>5. Cardinality(X) \in Nat
      BY <2>8, <2>11
    <3> QED
      BY <3>2, <3>3, <3>4, <3>5, <3>6 DEF B
  <2> HIDE DEF X, Before
  <2>14. Cardinality(Where(it[1 .. n + 1], E)) = Cardinality(Before(n + 1))
    BY <2>3, <2>4, <2>7, <2>11, <2>13
  <2> QED
    BY <2>1, <2>3, <2>7, <2>14
<1> HIDE DEF S
<1>7. 0 .. table_length \subseteq S
  BY <1>5, <1>6, UpTo
<1>8. table_length \in S
  BY <1>7
<1>9. Good(table_length)
  BY <1>8 DEF S
<1>10. Before(table_length) = Where(t, E)
  BY <1>4
<1> QED
  BY <1>1, <1>9, <1>10

(* The places of a table, as pairs of a chain and a place in it.           *)
LEMMA WhereIs ==
    ASSUME NEW length, NEW t \in HashTables(length), NEW E
    PROVE  /\ \A a, i : <<a, i>> \in Where(t, E) <=>
                a \in 0 .. length - 1 /\ i \in 1 .. Len(t[a]) /\ t[a][i] \in E
           /\ \A p \in Where(t, E) : p = <<p[1], p[2]>>
<1>1. t \in [0 .. length - 1 -> Seq(HashEntries)]
  BY DEF HashTables
<1>2. \A a \in 0 .. length - 1 : t[a] \in Seq(HashEntries)
  BY <1>1
<1>3. \A a \in 0 .. length - 1 : DOMAIN t[a] = 1 .. Len(t[a]) /\ 1 .. Len(t[a]) \subseteq Nat
  <2> TAKE a \in 0 .. length - 1
  <2> DEFINE c == t[a]
  <2>1. c \in Seq(HashEntries)
    BY <1>2
  <2> HIDE DEF c
  <2>2. DOMAIN c = 1 .. Len(c) /\ Len(c) \in Nat
    BY <2>1
  <2> QED
    BY <2>2 DEF c
<1>4. \A a, i : <<a, i>> \in Where(t, E) <=>
                a \in 0 .. length - 1 /\ i \in Nat /\ i \in DOMAIN t[a] /\ t[a][i] \in E
  BY <1>1 DEF Where
<1>5. \A p \in Where(t, E) : p = <<p[1], p[2]>>
  BY DEF Where
<1> QED
  BY <1>3, <1>4, <1>5

(* An entry that leaves its chain closes the gap, and takes one place away
   (htable_remove).                                                        *)
LEMMA RemoveCount ==
    ASSUME NEW length, NEW t \in HashTables(length), NEW b \in 0 .. length - 1,
           NEW j \in 1 .. Len(t[b]), NEW E, IsFiniteSet(Where(t, E)),
           NEW u, u = [t EXCEPT ![b] = RemoveAt(t[b], j)]
    PROVE  /\ u \in HashTables(length) /\ IsFiniteSet(Where(u, E))
           /\ OneMore(u, t, t[b][j], E)
<1> DEFINE c == t[b]
           d == RemoveAt(c, j)
           D == 0 .. length - 1
<1>1. c \in Seq(HashEntries) /\ t \in [D -> Seq(HashEntries)] /\ b \in D /\ j \in 1 .. Len(c)
  BY DEF HashTables
<1>2. /\ d \in Seq(HashEntries) /\ Len(c) \in Nat /\ Len(d) = Len(c) - 1
      /\ \A i \in 1 .. Len(c) - 1 : d[i] = IF i < j THEN c[i] ELSE c[i + 1]
  <2> HIDE DEF c, D
  <2>1. /\ RemoveAt(c, j) \in Seq(HashEntries) /\ Len(RemoveAt(c, j)) = Len(c) - 1
        /\ \A i \in 1 .. Len(c) - 1 : RemoveAt(c, j)[i] = IF i < j THEN c[i] ELSE c[i + 1]
    BY ONLY <1>1, RemoveAtIs
  <2> QED
    BY <2>1, <1>1
<1>3. u = [t EXCEPT ![b] = d] /\ t[b] = c /\ j \in 1 .. Len(c)
  OBVIOUS
<1> HIDE DEF c, d
<1>4. u \in [D -> Seq(HashEntries)] /\ u[b] = d /\ \A a \in D : a # b => u[a] = t[a]
  <2> HIDE DEF D
  <2> QED
    BY <1>1, <1>2, <1>3
<1>5. u \in HashTables(length)
  BY <1>4 DEF HashTables
<1>6. /\ \A a, i : <<a, i>> \in Where(t, E) <=> a \in D /\ i \in 1 .. Len(t[a]) /\ t[a][i] \in E
      /\ \A p \in Where(t, E) : p = <<p[1], p[2]>>
  BY WhereIs
<1>7. /\ \A a, i : <<a, i>> \in Where(u, E) <=> a \in D /\ i \in 1 .. Len(u[a]) /\ u[a][i] \in E
      /\ \A p \in Where(u, E) : p = <<p[1], p[2]>>
  BY ONLY <1>5, WhereIs DEF D
<1> HIDE DEF D
<1> DEFINE X == Where(t, E) \ {<<b, j>>}
           W == Where(u, E)
           f == [p \in X |-> IF p[1] = b /\ p[2] > j THEN <<b, p[2] - 1>> ELSE p]
<1>8. \A i : <<b, i>> \in Where(t, E) <=> i \in 1 .. Len(c) /\ c[i] \in E
  BY <1>6, <1>1, <1>3
<1>9. \A i : <<b, i>> \in W <=> i \in 1 .. Len(c) - 1 /\ d[i] \in E
  BY <1>7, <1>1, <1>2, <1>4
<1>10. ASSUME NEW a, NEW i, a # b PROVE <<a, i>> \in X <=> <<a, i>> \in W
  <2>1. <<a, i>> # <<b, j>>
    BY <1>10
  <2>2. <<a, i>> \in Where(t, E) <=> a \in D /\ i \in 1 .. Len(t[a]) /\ t[a][i] \in E
    BY <1>6
  <2>3. <<a, i>> \in Where(u, E) <=> a \in D /\ i \in 1 .. Len(u[a]) /\ u[a][i] \in E
    BY <1>7
  <2>4. a \in D => u[a] = t[a]
    BY <1>4, <1>10
  <2>5. <<a, i>> \in Where(t, E) <=> <<a, i>> \in Where(u, E)
    BY ONLY <2>2, <2>3, <2>4
  <2> QED
    BY <2>1, <2>5
<1>11. \A p \in X : p = <<p[1], p[2]>>
  BY <1>6
<1>12. \A i : <<b, i>> \in X <=> i \in 1 .. Len(c) /\ i # j /\ c[i] \in E
  BY <1>8
<1>13. \A p \in W : p = <<p[1], p[2]>>
  BY <1>7
<1> HIDE DEF X, W
<1>14. ASSUME NEW p \in X PROVE f[p] \in W
  <2>1. CASE p[1] = b
    <3>1. p = <<b, p[2]>> /\ p[2] \in 1 .. Len(c) /\ p[2] # j /\ c[p[2]] \in E
      BY <2>1, <1>11, <1>12
    <3>2. CASE p[2] > j
      <4> DEFINE i == p[2] - 1
      <4>1. i \in 1 .. Len(c) - 1 /\ ~(i < j) /\ i + 1 = p[2]
        BY <3>1, <3>2, <1>2, <1>3
      <4>2. d[i] \in E
        BY <4>1, <3>1, <1>2
      <4>3. <<b, i>> \in W
        BY <4>1, <4>2, <1>9
      <4> QED
        BY <4>3, <3>2, <2>1
    <3>3. CASE ~(p[2] > j)
      <4>1. p[2] \in 1 .. Len(c) - 1 /\ p[2] < j
        BY <3>1, <3>3, <1>2, <1>3
      <4>2. <<b, p[2]>> \in W
        BY <4>1, <3>1, <1>2, <1>9
      <4> QED
        BY <4>2, <3>1, <3>3
    <3> QED
      BY <3>2, <3>3
  <2>2. CASE p[1] # b
    <3>1. p \in W
      BY <2>2, <1>10, <1>11
    <3> QED
      BY <3>1, <2>2
  <2> QED
    BY <2>1, <2>2
<1>15. ASSUME NEW p \in X, NEW q \in X, f[p] = f[q] PROVE p = q
  <2>1. p = <<p[1], p[2]>> /\ q = <<q[1], q[2]>>
    BY <1>11
  <2>2. CASE p[1] = b /\ q[1] = b
    <3>1. p[2] \in 1 .. Len(c) /\ p[2] # j /\ q[2] \in 1 .. Len(c) /\ q[2] # j
      BY <2>1, <2>2, <1>12
    <3>2. f[p][2] = (IF p[2] > j THEN p[2] - 1 ELSE p[2])
      BY <2>1, <2>2
    <3>3. f[q][2] = (IF q[2] > j THEN q[2] - 1 ELSE q[2])
      BY <2>1, <2>2
    <3>4. p[2] = q[2]
      BY <3>1, <3>2, <3>3, <1>2, <1>3, <1>15
    <3> QED
      BY <3>4, <2>1, <2>2
  <2>3. CASE ~(p[1] = b /\ q[1] = b)
    <3>1. f[p][1] = p[1] /\ f[q][1] = q[1]
      BY <2>1
    <3>2. p[1] # b /\ q[1] # b
      BY <3>1, <2>3, <1>15
    <3> QED
      BY <3>2, <1>15
  <2> QED
    BY <2>2, <2>3
<1>16. ASSUME NEW q \in W PROVE \E p \in X : f[p] = q
  <2>1. q = <<q[1], q[2]>>
    BY <1>13
  <2>2. CASE q[1] = b
    <3>1. q[2] \in 1 .. Len(c) - 1 /\ d[q[2]] \in E
      BY <2>1, <2>2, <1>9
    <3>2. CASE q[2] < j
      <4>0. d[q[2]] = c[q[2]]
        BY <3>1, <3>2, <1>2
      <4>1. q[2] \in 1 .. Len(c) /\ c[q[2]] \in E /\ q[2] # j /\ ~(q[2] > j)
        BY <4>0, <3>1, <3>2, <1>2, <1>3
      <4>2. q \in X
        BY <4>1, <2>1, <2>2, <1>12
      <4> QED
        BY <4>1, <4>2
    <3>3. CASE ~(q[2] < j)
      <4> DEFINE i == q[2] + 1
      <4>1. i \in 1 .. Len(c) /\ i # j /\ i > j /\ i - 1 = q[2] /\ c[i] \in E
        BY <3>1, <3>3, <1>2, <1>3
      <4>2. <<b, i>> \in X
        BY <4>1, <1>12
      <4> HIDE DEF i
      <4>3. f[<<b, i>>] = <<b, i - 1>>
        BY <4>1, <4>2
      <4> QED
        BY <4>1, <4>2, <4>3, <2>1, <2>2
    <3> QED
      BY <3>2, <3>3
  <2>3. CASE q[1] # b
    <3>1. q \in X
      BY <2>1, <2>3, <1>10
    <3> QED
      BY <3>1, <2>3
  <2> QED
    BY <2>2, <2>3
<1>17. f \in [X -> W]
  BY <1>14
<1> HIDE DEF f
<1>18. IsFiniteSet(X) /\ Cardinality(X) = (IF c[j] \in E THEN Cardinality(Where(t, E)) - 1
                                           ELSE Cardinality(Where(t, E)))
  <2>1. <<b, j>> \in Where(t, E) <=> c[j] \in E
    BY <1>3, <1>8
  <2> DEFINE A == Where(t, E)
             x == <<b, j>>
  <2> HIDE DEF A, x
  <2>2. IsFiniteSet(A) /\ X = A \ {x} /\ (x \in A <=> c[j] \in E)
    BY <2>1 DEF A, x, X
  <2>3. /\ IsFiniteSet(A \ {x})
        /\ Cardinality(A \ {x}) = IF x \in A THEN Cardinality(A) - 1 ELSE Cardinality(A)
    BY <2>2, FS_RemoveElement
  <2> QED
    BY <2>2, <2>3 DEF A
<1>19. IsFiniteSet(W) /\ Cardinality(W) = Cardinality(X)
  BY <1>15, <1>16, <1>17, <1>18, SameSize
<1>20. Cardinality(Where(t, E)) \in Nat
  BY FS_CardinalityType
<1>21. Cardinality(Where(t, E)) = Cardinality(W) + (IF c[j] \in E THEN 1 ELSE 0)
  BY <1>18, <1>19, <1>20
<1> QED
  BY <1>3, <1>5, <1>19, <1>21 DEF OneMore, W

\* In u an entry of t, the old one, is replaced by the new one.
Exchanged(t, u, old, new, E) ==
    /\ IsFiniteSet(Where(u, E))
    /\ Cardinality(Where(u, E)) + (IF old \in E THEN 1 ELSE 0)
            = Cardinality(Where(t, E)) + (IF new \in E THEN 1 ELSE 0)

(* An entry that is replaced keeps its place (htable_change, htable_inc,
   htable_dec).                                                            *)
LEMMA ChangeCount ==
    ASSUME NEW length, NEW t \in HashTables(length), NEW b \in 0 .. length - 1,
           NEW j \in 1 .. Len(t[b]), NEW e \in HashEntries, NEW E, IsFiniteSet(Where(t, E)),
           NEW u, u = [t EXCEPT ![b] = [t[b] EXCEPT ![j] = e]]
    PROVE  u \in HashTables(length) /\ Exchanged(t, u, t[b][j], e, E)
<1> DEFINE c == t[b]
           d == [c EXCEPT ![j] = e]
           D == 0 .. length - 1
<1>1. c \in Seq(HashEntries) /\ t \in [D -> Seq(HashEntries)] /\ b \in D /\ j \in 1 .. Len(c)
  BY DEF HashTables
<1>2. /\ d \in Seq(HashEntries) /\ Len(d) = Len(c)
      /\ \A i \in 1 .. Len(c) : d[i] = IF i = j THEN e ELSE c[i]
  BY <1>1, ExceptSeq
<1>3. u = [t EXCEPT ![b] = d] /\ t[b] = c
  OBVIOUS
<1> HIDE DEF c, d
<1>4. u \in [D -> Seq(HashEntries)] /\ u[b] = d /\ \A a \in D : a # b => u[a] = t[a]
  <2> HIDE DEF D
  <2> QED
    BY <1>1, <1>2, <1>3
<1>5. u \in HashTables(length)
  BY <1>4 DEF HashTables
<1>6. /\ \A a, i : <<a, i>> \in Where(t, E) <=> a \in D /\ i \in 1 .. Len(t[a]) /\ t[a][i] \in E
      /\ \A p \in Where(t, E) : p = <<p[1], p[2]>>
  BY ONLY t \in HashTables(length), WhereIs DEF D
<1>7. /\ \A a, i : <<a, i>> \in Where(u, E) <=> a \in D /\ i \in 1 .. Len(u[a]) /\ u[a][i] \in E
      /\ \A p \in Where(u, E) : p = <<p[1], p[2]>>
  BY ONLY <1>5, WhereIs DEF D
<1> HIDE DEF D
<1> DEFINE x == <<b, j>>
           A == Where(t, E)
           B == Where(u, E)
<1>8. ASSUME NEW a, NEW i, <<a, i>> # x PROVE <<a, i>> \in A <=> <<a, i>> \in B
  <2>1. <<a, i>> \in A <=> a \in D /\ i \in 1 .. Len(t[a]) /\ t[a][i] \in E
    BY <1>6
  <2>2. <<a, i>> \in B <=> a \in D /\ i \in 1 .. Len(u[a]) /\ u[a][i] \in E
    BY <1>7
  <2>3. CASE a = b
    <3>1. i # j
      BY <1>8, <2>3
    <3>2. u[a] = d /\ t[a] = c /\ Len(d) = Len(c)
      BY <2>3, <1>2, <1>3, <1>4
    <3>3. i \in 1 .. Len(c) => d[i] = c[i]
      BY <3>1, <1>2
    <3> QED
      BY ONLY <3>2, <3>3, <2>1, <2>2
  <2>4. CASE a # b
    <3>1. a \in D => u[a] = t[a]
      BY <2>4, <1>4
    <3> QED
      BY ONLY <3>1, <2>1, <2>2
  <2> QED
    BY <2>3, <2>4
<1>9. (x \in A <=> c[j] \in E) /\ (x \in B <=> e \in E)
  <2>1. x \in A <=> b \in D /\ j \in 1 .. Len(t[b]) /\ t[b][j] \in E
    BY <1>6
  <2>2. x \in B <=> b \in D /\ j \in 1 .. Len(u[b]) /\ u[b][j] \in E
    BY <1>7
  <2>3. u[b] = d /\ d[j] = e
    BY <1>1, <1>2, <1>4
  <2> QED
    BY <2>1, <2>2, <2>3, <1>1, <1>2, <1>3
<1>10. \A p \in A \cup B : p = <<p[1], p[2]>>
  BY <1>6, <1>7
<1>11. IsFiniteSet(A)
  OBVIOUS
<1> HIDE DEF x, A, B
<1>12. A \ {x} = B \ {x}
  <2>1. \A p \in A \cup B : p # x => (p \in A <=> p \in B)
    BY <1>8, <1>10
  <2> QED
    BY <2>1
<1> DEFINE C == A \ {x}
<1>13. IsFiniteSet(C) /\ C \cup {x} = A \cup {x} /\ C \cup {x} = B \cup {x} /\ x \notin C
  BY <1>11, <1>12, FS_RemoveElement
<1>14. A = (IF c[j] \in E THEN C \cup {x} ELSE C) /\ B = (IF e \in E THEN C \cup {x} ELSE C)
  BY <1>9, <1>12
<1> HIDE DEF C
<1>15. IsFiniteSet(C \cup {x}) /\ Cardinality(C \cup {x}) = Cardinality(C) + 1
  BY <1>13, FS_AddElement
<1>16. Cardinality(C) \in Nat
  BY <1>13, FS_CardinalityType
<1>17. IsFiniteSet(B)
  BY <1>13, <1>14, <1>15
<1>18. Cardinality(A) = Cardinality(C) + (IF c[j] \in E THEN 1 ELSE 0)
  <2>1. CASE c[j] \in E
    BY <2>1, <1>14, <1>15
  <2>2. CASE c[j] \notin E
    BY <2>2, <1>14, <1>16
  <2> QED
    BY <2>1, <2>2
<1>19. Cardinality(B) = Cardinality(C) + (IF e \in E THEN 1 ELSE 0)
  <2>1. CASE e \in E
    BY <2>1, <1>14, <1>15
  <2>2. CASE e \notin E
    BY <2>2, <1>14, <1>16
  <2> QED
    BY <2>1, <2>2
<1>20. Cardinality(B) + (IF c[j] \in E THEN 1 ELSE 0) = Cardinality(A) + (IF e \in E THEN 1 ELSE 0)
  BY <1>16, <1>18, <1>19
<1> QED
  BY <1>3, <1>5, <1>17, <1>20 DEF A, B, Exchanged

(* A removed entry leaves the others in their chains.                      *)
LEMMA RemoveSorted ==
    ASSUME NEW length, NEW t \in HashTables(length), NEW b \in 0 .. length - 1,
           NEW j \in 1 .. Len(t[b]), Sorted(t, length),
           NEW u, u = [t EXCEPT ![b] = RemoveAt(t[b], j)]
    PROVE  Sorted(u, length)
<1> DEFINE c == t[b]
           d == RemoveAt(c, j)
           D == 0 .. length - 1
<1>1. c \in Seq(HashEntries) /\ t \in [D -> Seq(HashEntries)] /\ b \in D /\ j \in 1 .. Len(c)
  BY DEF HashTables
<1>2. /\ d \in Seq(HashEntries) /\ Len(c) \in Nat /\ Len(d) = Len(c) - 1
      /\ \A i \in 1 .. Len(c) - 1 : d[i] = IF i < j THEN c[i] ELSE c[i + 1]
  <2> HIDE DEF c, D
  <2>1. /\ RemoveAt(c, j) \in Seq(HashEntries) /\ Len(RemoveAt(c, j)) = Len(c) - 1
        /\ \A i \in 1 .. Len(c) - 1 : RemoveAt(c, j)[i] = IF i < j THEN c[i] ELSE c[i + 1]
    BY ONLY <1>1, RemoveAtIs
  <2> QED
    BY <2>1, <1>1
<1>3. u = [t EXCEPT ![b] = d] /\ t[b] = c /\ j \in 1 .. Len(c)
  OBVIOUS
<1> HIDE DEF c, d, D
<1>4. DOMAIN u = D /\ DOMAIN t = D /\ u[b] = d /\ \A a \in D : a # b => u[a] = t[a]
  BY <1>1, <1>2, <1>3
<1>5. \A a \in D : \A i \in DOMAIN t[a] : indexFor(length, t[a][i].hash) = a
  BY <1>4 DEF Sorted
<1>6. ASSUME NEW i \in DOMAIN d PROVE indexFor(length, d[i].hash) = b
  <2>1. DOMAIN d = 1 .. Len(c) - 1 /\ DOMAIN c = 1 .. Len(c)
    BY <1>1, <1>2
  <2>2. i \in 1 .. Len(c) - 1
    BY <2>1
  <2>3. i \in DOMAIN c /\ i + 1 \in DOMAIN c
    BY <2>1, <2>2, <1>2
  <2>4. d[i] = c[i] \/ d[i] = c[i + 1]
    BY <2>2, <1>2
  <2>5. indexFor(length, c[i].hash) = b /\ indexFor(length, c[i + 1].hash) = b
    BY <2>3, <1>1, <1>3, <1>5
  <2> QED
    BY <2>4, <2>5
<1>7. \A a \in D : \A i \in DOMAIN u[a] : indexFor(length, u[a][i].hash) = a
  BY <1>4, <1>5, <1>6
<1> QED
  BY <1>4, <1>7 DEF Sorted

(* An entry that is replaced by one of the same hash stays in its chain.   *)
LEMMA ChangeSorted ==
    ASSUME NEW length, NEW t \in HashTables(length), NEW b \in 0 .. length - 1,
           NEW j \in 1 .. Len(t[b]), NEW e \in HashEntries, e.hash = t[b][j].hash,
           Sorted(t, length), NEW u, u = [t EXCEPT ![b] = [t[b] EXCEPT ![j] = e]]
    PROVE  Sorted(u, length)
<1> DEFINE c == t[b]
           d == [c EXCEPT ![j] = e]
           D == 0 .. length - 1
<1>1. c \in Seq(HashEntries) /\ t \in [D -> Seq(HashEntries)] /\ b \in D /\ j \in 1 .. Len(c)
  BY DEF HashTables
<1>2. /\ d \in Seq(HashEntries) /\ Len(d) = Len(c)
      /\ \A i \in 1 .. Len(c) : d[i] = IF i = j THEN e ELSE c[i]
  BY <1>1, ExceptSeq
<1>3. u = [t EXCEPT ![b] = d] /\ t[b] = c /\ e.hash = c[j].hash
  OBVIOUS
<1> HIDE DEF c, d, D
<1>4. DOMAIN u = D /\ DOMAIN t = D /\ u[b] = d /\ \A a \in D : a # b => u[a] = t[a]
  BY <1>1, <1>2, <1>3
<1>5. \A a \in D : \A i \in DOMAIN t[a] : indexFor(length, t[a][i].hash) = a
  BY <1>4 DEF Sorted
<1>6. ASSUME NEW i \in DOMAIN d PROVE indexFor(length, d[i].hash) = b
  <2>1. DOMAIN d = 1 .. Len(c) /\ DOMAIN c = 1 .. Len(c)
    BY <1>1, <1>2
  <2>2. d[i].hash = c[i].hash
    BY <2>1, <1>2, <1>3
  <2> QED
    BY <2>1, <2>2, <1>1, <1>3, <1>5
<1>7. \A a \in D : \A i \in DOMAIN u[a] : indexFor(length, u[a][i].hash) = a
  BY <1>4, <1>5, <1>6
<1> QED
  BY <1>4, <1>7 DEF Sorted

\* The entries of a pair.
EntriesOf(k, v) == {e \in HashEntries : e.key = k /\ e.value = v}

\* The bag of pairs that a table holds.
ContentsOf(t) == [p \in Keys \X (0 .. Word - 1) |-> Cardinality(Where(t, EntriesOf(p[1], p[2])))]

(* A table of n entries, each in the chain that its hash selects.          *)
Filled(t, length, n) ==
    /\ t \in HashTables(length) /\ Sorted(t, length)
    /\ IsFiniteSet(Where(t, HashEntries)) /\ Cardinality(Where(t, HashEntries)) = n

(* The places of some of the entries are finite too.                       *)
LEMMA SomeFinite ==
    ASSUME NEW length, NEW n, NEW t, Filled(t, length, n), NEW E, E \subseteq HashEntries
    PROVE  IsFiniteSet(Where(t, E)) /\ Cardinality(Where(t, E)) \in Nat /\ n \in Nat
<1>1. Where(t, E) \in SUBSET Where(t, HashEntries)
  BY DEF Where
<1>2. IsFiniteSet(Where(t, HashEntries)) /\ Cardinality(Where(t, HashEntries)) = n
  BY DEF Filled
<1> QED
  BY <1>1, <1>2, FS_Subset, FS_CardinalityType

(* The entries of a pair are entries.                                      *)
LEMMA PairEntries ==
    ASSUME NEW k, NEW v
    PROVE  EntriesOf(k, v) \subseteq HashEntries /\ HashEntries \subseteq HashEntries
BY DEF EntriesOf

(* No chain is longer than the number of entries.                          *)
LEMMA ChainBound ==
    ASSUME NEW length, NEW n, NEW t, Filled(t, length, n), NEW b \in 0 .. length - 1
    PROVE  Len(t[b]) \in Nat /\ Len(t[b]) <= n /\ n \in Nat
<1> DEFINE c == t[b]
           m == Len(c)
           W == Where(t, HashEntries)
           f == [i \in 1 .. m |-> <<b, i>>]
<1>1. t \in HashTables(length) /\ IsFiniteSet(W) /\ Cardinality(W) = n
  BY DEF Filled
<1>2. c \in Seq(HashEntries)
  BY <1>1 DEF HashTables
<1>3. m \in Nat /\ \A i \in 1 .. m : c[i] \in HashEntries
  <2> HIDE DEF c
  <2> QED
    BY <1>2
<1>4. \A i \in 1 .. m : <<b, i>> \in W
  BY <1>1, <1>3, WhereIs
<1> HIDE DEF W, m
<1>5. f \in [1 .. m -> W] /\ \A i, j \in 1 .. m : f[i] = f[j] => i = j
  BY <1>4
<1>6. f \in Injection(1 .. m, W)
  <2> HIDE DEF f
  <2> QED
    BY <1>5 DEF Injection, IsInjective
<1> HIDE DEF f
<1>7. Cardinality(1 .. m) <= Cardinality(W)
  BY <1>1, <1>6, FS_Injection
<1>8. Cardinality(1 .. m) = m
  <2>1. 1 \in Int /\ m \in Int
    BY <1>3
  <2>2. Cardinality(1 .. m) = IF 1 > m THEN 0 ELSE m - 1 + 1
    BY <2>1, FS_Interval
  <2> QED
    BY <2>2, <1>3
<1>9. Cardinality(W) \in Nat
  BY <1>1, FS_CardinalityType
<1> QED
  BY <1>1, <1>3, <1>7, <1>8, <1>9 DEF m

(* Contents counts the places of a pair that are in the table: its bound on the
   places leaves none out.                                                 *)
LEMMA HeldPlaces ==
    ASSUME NEW length \in Nat, NEW n, NEW t, Filled(t, length, n), NEW k, NEW v
    PROVE  {p \in (0 .. length - 1) \X (1 .. n) :
                /\ p[2] \in DOMAIN t[p[1]]
                /\ t[p[1]][p[2]].key = k /\ t[p[1]][p[2]].value = v}
            = Where(t, EntriesOf(k, v))
<1> DEFINE E == EntriesOf(k, v)
           H == {p \in (0 .. length - 1) \X (1 .. n) :
                    /\ p[2] \in DOMAIN t[p[1]]
                    /\ t[p[1]][p[2]].key = k /\ t[p[1]][p[2]].value = v}
<1>1. t \in HashTables(length)
  BY DEF Filled
<1>2. \A b \in 0 .. length - 1 : t[b] \in Seq(HashEntries)
  BY <1>1 DEF HashTables
<1>3. \A b \in 0 .. length - 1 : DOMAIN t[b] = 1 .. Len(t[b])
  BY <1>2
<1>4. \A b \in 0 .. length - 1 : \A i \in 1 .. Len(t[b]) : i \in 1 .. n
  <2> TAKE b \in 0 .. length - 1
  <2>1. Len(t[b]) \in Nat /\ Len(t[b]) <= n /\ n \in Nat
    BY ChainBound
  <2> QED
    BY <2>1
<1>5. \A b \in 0 .. length - 1 : \A i \in 1 .. Len(t[b]) : t[b][i] \in HashEntries
  BY <1>2, ElementOfSeq
<1>6. /\ \A a, i : <<a, i>> \in Where(t, E) <=>
                a \in 0 .. length - 1 /\ i \in 1 .. Len(t[a]) /\ t[a][i] \in E
      /\ \A p \in Where(t, E) : p = <<p[1], p[2]>>
  BY <1>1, WhereIs
<1>7. \A a, i : <<a, i>> \in H <=>
                /\ a \in 0 .. length - 1 /\ i \in 1 .. n /\ i \in DOMAIN t[a]
                /\ t[a][i].key = k /\ t[a][i].value = v
  OBVIOUS
<1>8. \A p \in H : p = <<p[1], p[2]>>
  OBVIOUS
<1>9. \A x : x \in E <=> x \in HashEntries /\ x.key = k /\ x.value = v
  BY DEF EntriesOf
<1> HIDE DEF H, E
<1>10. ASSUME NEW a, NEW i PROVE <<a, i>> \in H <=> <<a, i>> \in Where(t, E)
  <2>1. CASE a \in 0 .. length - 1 /\ i \in 1 .. Len(t[a])
    <3>1. t[a][i] \in HashEntries /\ i \in 1 .. n /\ i \in DOMAIN t[a]
      BY <2>1, <1>3, <1>4, <1>5
    <3>2. t[a][i] \in E <=> t[a][i].key = k /\ t[a][i].value = v
      BY <3>1, <1>9
    <3> QED
      BY <3>1, <3>2, <2>1, <1>6, <1>7
  <2>2. CASE ~(a \in 0 .. length - 1 /\ i \in 1 .. Len(t[a]))
    <3>1. ~(a \in 0 .. length - 1 /\ i \in DOMAIN t[a])
      BY <2>2, <1>3
    <3> QED
      BY <3>1, <2>2, <1>6, <1>7
  <2> QED
    BY <2>1, <2>2
<1>11. H = Where(t, E)
  BY <1>6, <1>8, <1>10
<1> QED
  BY <1>11 DEF H, E

(* The bag that the table stands for, before and after a step.             *)
LEMMA ContentsIs ==
    /\ table_length \in Nat /\ Filled(table, table_length, entry_count)
            => Contents = ContentsOf(table)
    /\ table_length' \in Nat /\ Filled(table', table_length', entry_count')
            => Contents' = ContentsOf(table')
<1>1. ASSUME table_length \in Nat, Filled(table, table_length, entry_count)
      PROVE  Contents = ContentsOf(table)
  <2>1. \A k, v : Holding(k, v) = Where(table, EntriesOf(k, v))
    BY <1>1, HeldPlaces DEF Holding
  <2> QED
    BY <2>1 DEF Contents, ContentsOf
<1>2. ASSUME table_length' \in Nat, Filled(table', table_length', entry_count')
      PROVE  Contents' = ContentsOf(table')
  <2>1. \A k, v : Holding(k, v)' = Where(table', EntriesOf(k, v))
    BY <1>2, HeldPlaces DEF Holding
  <2> QED
    BY <2>1 DEF Contents, ContentsOf
<1> QED
  BY <1>1, <1>2

(* The entries of a pair are the ones with its key and its value.          *)
LEMMA EntryOfPair ==
    ASSUME NEW e \in HashEntries
    PROVE  /\ <<e.key, e.value>> \in Keys \X (0 .. Word - 1)
           /\ \A p \in Keys \X (0 .. Word - 1) :
                e \in EntriesOf(p[1], p[2]) <=> p = <<e.key, e.value>>
<1>1. e.key \in Keys /\ e.value \in 0 .. Word - 1
  BY DEF HashEntries
<1>2. \A p \in Keys \X (0 .. Word - 1) : p = <<p[1], p[2]>>
  OBVIOUS
<1>3. \A p \in Keys \X (0 .. Word - 1) :
        e \in EntriesOf(p[1], p[2]) <=> e.key = p[1] /\ e.value = p[2]
  BY DEF EntriesOf
<1> QED
  BY <1>1, <1>2, <1>3

(* A table with one more place for the entries of e's pair holds that pair once
   more.                                                                   *)
LEMMA OneMorePair ==
    ASSUME NEW t, NEW u, NEW e \in HashEntries,
           \A k, v : OneMore(t, u, e, EntriesOf(k, v)) /\ Cardinality(Where(t, EntriesOf(k, v))) \in Nat
    PROVE  ContentsOf(u) = Map!With(ContentsOf(t), e.key, e.value)
<1> DEFINE P == Keys \X (0 .. Word - 1)
           q == <<e.key, e.value>>
           A == ContentsOf(t)
           B == ContentsOf(u)
<1>1. /\ A = [p \in P |-> Cardinality(Where(t, EntriesOf(p[1], p[2])))]
      /\ B = [p \in P |-> Cardinality(Where(u, EntriesOf(p[1], p[2])))]
  BY DEF ContentsOf
<1>2. q \in P /\ \A p \in P : e \in EntriesOf(p[1], p[2]) <=> p = q
  BY EntryOfPair
<1>3. Map!With(A, e.key, e.value) = [A EXCEPT ![q] = A[q] + 1]
  BY DEF Map!With
<1>4. \A p \in P : Cardinality(Where(u, EntriesOf(p[1], p[2])))
                    = Cardinality(Where(t, EntriesOf(p[1], p[2])))
                        + (IF e \in EntriesOf(p[1], p[2]) THEN 1 ELSE 0)
  BY DEF OneMore
<1>5. \A p \in P : A[p] \in Nat
  BY <1>1
<1>6. \A p \in P : B[p] = A[p] + (IF p = q THEN 1 ELSE 0)
  BY <1>1, <1>2, <1>4
<1>7. A = [p \in P |-> A[p]] /\ B = [p \in P |-> B[p]]
  BY <1>1
<1> HIDE DEF A, B, P, q
<1>8. B = [A EXCEPT ![q] = A[q] + 1]
  <2>1. \A p \in P : B[p] = IF p = q THEN A[q] + 1 ELSE A[p]
    BY <1>5, <1>6
  <2> QED
    BY <2>1, <1>2, <1>7, ExceptIs
<1> QED
  BY <1>3, <1>8 DEF A, B

(* An entry that is pushed (htable_insert).                                *)
LEMMA PushFilled ==
    ASSUME NEW length \in Nat \ {0}, NEW n, NEW t, Filled(t, length, n), NEW e \in HashEntries
    PROVE  /\ Filled(PushAt(t, length, e), length, n + 1)
           /\ ContentsOf(PushAt(t, length, e)) = Map!With(ContentsOf(t), e.key, e.value)
<1> DEFINE b == indexFor(length, e.hash)
           u == PushAt(t, length, e)
<1>1. t \in HashTables(length) /\ Sorted(t, length)
  BY DEF Filled
<1>2. b \in 0 .. length - 1
  BY IndexInTable DEF HashEntries
<1>3. u = [t EXCEPT ![b] = <<e>> \o t[b]]
  BY DEF PushAt
<1>4. u \in HashTables(length) /\ Sorted(u, length)
  BY <1>1, PushSorted
<1> HIDE DEF b, u
<1>5. ASSUME NEW E, E \subseteq HashEntries
      PROVE  OneMore(t, u, e, E) /\ Cardinality(Where(t, E)) \in Nat
  <2>1. IsFiniteSet(Where(t, E)) /\ Cardinality(Where(t, E)) \in Nat
    BY <1>5, SomeFinite
  <2> QED
    BY <2>1, <1>1, <1>2, <1>3, PushCount
<1>6. OneMore(t, u, e, HashEntries)
  BY <1>5, PairEntries
<1>7. IsFiniteSet(Where(u, HashEntries)) /\ Cardinality(Where(u, HashEntries)) = n + 1
  BY <1>6 DEF OneMore, Filled
<1>8. \A k, v : OneMore(t, u, e, EntriesOf(k, v)) /\ Cardinality(Where(t, EntriesOf(k, v))) \in Nat
  BY <1>5, PairEntries
<1>9. ContentsOf(u) = Map!With(ContentsOf(t), e.key, e.value)
  BY <1>8, OneMorePair
<1> QED
  BY <1>4, <1>7, <1>9 DEF Filled, u

(* A table that grows holds what it held (hashtable_expand).               *)
LEMMA RehashFilled ==
    ASSUME NEW length \in Nat \ {0}, table_length \in Nat, NEW n, NEW t,
           Filled(t, table_length, n)
    PROVE  /\ Filled(Rehashed(t, length), length, n)
           /\ ContentsOf(Rehashed(t, length)) = ContentsOf(t)
<1> DEFINE u == Rehashed(t, length)
<1>1. ASSUME NEW E, E \subseteq HashEntries
      PROVE  /\ u \in HashTables(length) /\ Sorted(u, length) /\ IsFiniteSet(Where(u, E))
             /\ Cardinality(Where(u, E)) = Cardinality(Where(t, E))
  <2>1. IsFiniteSet(Where(t, E)) /\ t \in HashTables(table_length)
    BY <1>1, SomeFinite DEF Filled
  <2> QED
    BY <2>1, RehashCount
<1> HIDE DEF u
<1>2. Filled(u, length, n)
  BY <1>1, PairEntries DEF Filled
<1>3. \A k, v : Cardinality(Where(u, EntriesOf(k, v))) = Cardinality(Where(t, EntriesOf(k, v)))
  BY <1>1, PairEntries
<1>4. ContentsOf(u) = ContentsOf(t)
  BY <1>3 DEF ContentsOf
<1> QED
  BY <1>2, <1>4 DEF u

\* The table without the entry of a place.
Dropped(t, b, j) == [t EXCEPT ![b] = RemoveAt(t[b], j)]

(* An entry that is removed (htable_remove).                               *)
LEMMA RemoveFilled ==
    ASSUME NEW length \in Nat, NEW n, NEW t, Filled(t, length, n), NEW b \in 0 .. length - 1,
           NEW j \in 1 .. Len(t[b])
    PROVE  /\ Filled(Dropped(t, b, j), length, n - 1)
           /\ ContentsOf(Dropped(t, b, j))
                    = Map!Without(ContentsOf(t), t[b][j].key, t[b][j].value)
<1> DEFINE e == t[b][j]
           u == Dropped(t, b, j)
<1>0. u = [t EXCEPT ![b] = RemoveAt(t[b], j)]
  BY DEF Dropped
<1> HIDE DEF u
<1>1. t \in HashTables(length) /\ Sorted(t, length)
  BY DEF Filled
<1>2. e \in HashEntries
  BY <1>1, ElementOfSeq DEF HashTables
<1>3. Sorted(u, length)
  BY <1>0, <1>1, RemoveSorted
<1>4. ASSUME NEW E, E \subseteq HashEntries
      PROVE  /\ u \in HashTables(length) /\ OneMore(u, t, e, E)
             /\ IsFiniteSet(Where(u, E)) /\ Cardinality(Where(u, E)) \in Nat
  <2>1. IsFiniteSet(Where(t, E)) /\ Cardinality(Where(t, E)) \in Nat
    BY <1>4, SomeFinite
  <2>2. /\ u \in HashTables(length) /\ IsFiniteSet(Where(u, E))
        /\ OneMore(u, t, t[b][j], E)
    BY <2>1, <1>0, <1>1, RemoveCount
  <2> QED
    BY <2>2, FS_CardinalityType
<1>5. t[b][j] = e
  OBVIOUS
<1> HIDE DEF e
<1>6. u \in HashTables(length) /\ OneMore(u, t, e, HashEntries)
      /\ IsFiniteSet(Where(u, HashEntries)) /\ Cardinality(Where(u, HashEntries)) \in Nat
  BY <1>4, PairEntries
<1>7. Cardinality(Where(u, HashEntries)) = n - 1
  BY <1>2, <1>6 DEF OneMore, Filled
<1>8. \A k, v : OneMore(u, t, e, EntriesOf(k, v)) /\ Cardinality(Where(u, EntriesOf(k, v))) \in Nat
  BY <1>4, PairEntries
<1>9. ContentsOf(t) = Map!With(ContentsOf(u), e.key, e.value)
  BY <1>2, <1>8, OneMorePair
<1> DEFINE P == Keys \X (0 .. Word - 1)
           q == <<e.key, e.value>>
           A == ContentsOf(t)
           B == ContentsOf(u)
<1>10. DOMAIN B = P /\ q \in P /\ (\A p \in P : B[p] \in Nat) /\ B = [p \in P |-> B[p]]
  BY <1>2, <1>8, EntryOfPair DEF ContentsOf
<1>11. A = [B EXCEPT ![q] = B[q] + 1]
  BY <1>9 DEF Map!With
<1>12. Map!Without(A, e.key, e.value) = [A EXCEPT ![q] = A[q] - 1]
  BY DEF Map!Without
<1> HIDE DEF A, B, P, q
<1>13. B = [A EXCEPT ![q] = A[q] - 1]
  BY <1>10, <1>11
<1> QED
  BY <1>3, <1>5, <1>6, <1>7, <1>12, <1>13 DEF Filled, A, B, u

\* The table with another entry in a place.
Replaced(t, b, j, e) == [t EXCEPT ![b] = [t[b] EXCEPT ![j] = e]]

\* The bag with another value in place of an old one of the key.
Rewritten(m, k, old, v) == Map!With(Map!Without(m, k, old), k, v)

(* An entry that gets another value (htable_change, htable_inc, htable_dec). *)
LEMMA ChangeFilled ==
    ASSUME NEW length \in Nat, NEW n, NEW t, Filled(t, length, n), NEW b \in 0 .. length - 1,
           NEW j \in 1 .. Len(t[b]), NEW e \in HashEntries, e.key = t[b][j].key
    PROVE  /\ Filled(Replaced(t, b, j, e), length, n)
           /\ ContentsOf(Replaced(t, b, j, e))
                    = Rewritten(ContentsOf(t), e.key, t[b][j].value, e.value)
<1> DEFINE o == t[b][j]
           u == Replaced(t, b, j, e)
<1>0. u = [t EXCEPT ![b] = [t[b] EXCEPT ![j] = e]]
  BY DEF Replaced
<1> HIDE DEF u
<1>1. t \in HashTables(length) /\ Sorted(t, length)
  BY DEF Filled
<1>2. o \in HashEntries
  BY <1>1, ElementOfSeq DEF HashTables
<1>3. Sorted(u, length)
  <2>1. e.hash = t[b][j].hash
    BY <1>2 DEF HashEntries
  <2> QED
    BY <2>1, <1>0, <1>1, ChangeSorted
<1>4. ASSUME NEW E, E \subseteq HashEntries
      PROVE  /\ u \in HashTables(length) /\ IsFiniteSet(Where(u, E)) 
             /\ Cardinality(Where(u, E)) \in Nat /\ Cardinality(Where(t, E)) \in Nat
             /\ Cardinality(Where(u, E)) + (IF o \in E THEN 1 ELSE 0)
                    = Cardinality(Where(t, E)) + (IF e \in E THEN 1 ELSE 0)
  <2>1. IsFiniteSet(Where(t, E)) /\ Cardinality(Where(t, E)) \in Nat
    BY <1>4, SomeFinite
  <2>2. u \in HashTables(length) /\ Exchanged(t, u, t[b][j], e, E)
    BY <2>1, <1>0, <1>1, ChangeCount
  <2> QED
    BY <2>1, <2>2, FS_CardinalityType DEF Exchanged
<1>5. t[b][j] = o /\ e.key = o.key
  OBVIOUS
<1> HIDE DEF o
<1>6. /\ u \in HashTables(length) /\ IsFiniteSet(Where(u, HashEntries)) 
      /\ Cardinality(Where(u, HashEntries)) \in Nat /\ Cardinality(Where(t, HashEntries)) \in Nat
      /\ Cardinality(Where(u, HashEntries)) + (IF o \in HashEntries THEN 1 ELSE 0)
            = Cardinality(Where(t, HashEntries)) + (IF e \in HashEntries THEN 1 ELSE 0)
  BY <1>4, PairEntries
<1>7. Cardinality(Where(u, HashEntries)) = n
  BY <1>2, <1>6 DEF Filled
<1> DEFINE P == Keys \X (0 .. Word - 1)
           q == <<e.key, e.value>>
           r == <<e.key, o.value>>
           A == ContentsOf(t)
           B == ContentsOf(u)
<1>8. \A p \in P : /\ Cardinality(Where(u, EntriesOf(p[1], p[2]))) \in Nat
                   /\ Cardinality(Where(t, EntriesOf(p[1], p[2]))) \in Nat
                   /\ Cardinality(Where(u, EntriesOf(p[1], p[2])))
                            + (IF o \in EntriesOf(p[1], p[2]) THEN 1 ELSE 0)
                        = Cardinality(Where(t, EntriesOf(p[1], p[2])))
                            + (IF e \in EntriesOf(p[1], p[2]) THEN 1 ELSE 0)
  BY <1>4, PairEntries
<1>9. q \in P /\ r \in P /\ \A p \in P : /\ e \in EntriesOf(p[1], p[2]) <=> p = q
                                         /\ o \in EntriesOf(p[1], p[2]) <=> p = r
  BY <1>2, <1>5, EntryOfPair
<1>10. /\ A = [p \in P |-> Cardinality(Where(t, EntriesOf(p[1], p[2])))]
       /\ B = [p \in P |-> Cardinality(Where(u, EntriesOf(p[1], p[2])))]
  BY DEF ContentsOf
<1>11. ASSUME NEW p \in P
       PROVE  /\ A[p] \in Nat /\ B[p] \in Nat
              /\ B[p] + (IF p = r THEN 1 ELSE 0) = A[p] + (IF p = q THEN 1 ELSE 0)
  <2> DEFINE E == EntriesOf(p[1], p[2])
             x == Cardinality(Where(u, E))
             y == Cardinality(Where(t, E))
  <2>1. A[p] = y /\ B[p] = x
    BY <1>10
  <2>2. x \in Nat /\ y \in Nat /\ x + (IF o \in E THEN 1 ELSE 0) = y + (IF e \in E THEN 1 ELSE 0)
    BY <1>8
  <2>3. (e \in E <=> p = q) /\ (o \in E <=> p = r)
    BY <1>9
  <2> HIDE DEF A, B, P, E, x, y, q, r
  <2> QED
    BY ONLY <2>1, <2>2, <2>3
<1>12. DOMAIN A = P /\ DOMAIN B = P /\ B = [p \in P |-> B[p]] /\ A = [p \in P |-> A[p]]
  BY <1>10
<1> DEFINE C == Map!Without(A, e.key, o.value)
<1>13. C = [A EXCEPT ![r] = A[r] - 1] /\ Map!With(C, e.key, e.value) = [C EXCEPT ![q] = C[q] + 1]
  BY DEF Map!Without, Map!With
<1> HIDE DEF A, B, C, P, q, r
<1>14. B = [C EXCEPT ![q] = C[q] + 1]
  <2>1. DOMAIN C = P /\ \A p \in P : C[p] = A[p] - (IF p = r THEN 1 ELSE 0)
    <3>1. DOMAIN A = P /\ DOMAIN C = P
      BY <1>12, <1>13
    <3>2. \A p \in P : C[p] = IF p = r THEN A[r] - 1 ELSE A[p]
      BY ONLY <3>1, <1>13
    <3>3. \A p \in P : A[p] \in Nat
      BY <1>11
    <3> QED
      BY ONLY <3>1, <3>2, <3>3
  <2>2. \A p \in P : [C EXCEPT ![q] = C[q] + 1][p] = C[p] + (IF p = q THEN 1 ELSE 0)
    BY <2>1, <1>9, <1>11
  <2>3. \A p \in P : B[p] = C[p] + (IF p = q THEN 1 ELSE 0)
    BY <2>1, <1>11
  <2>4. DOMAIN [C EXCEPT ![q] = C[q] + 1] = P
    BY <2>1
  <2> DEFINE F == [C EXCEPT ![q] = C[q] + 1]
  <2>5. F = [p \in P |-> F[p]]
    BY <2>1
  <2> HIDE DEF F
  <2> QED
    BY <2>2, <2>3, <2>5, <1>12 DEF F
<1> QED
  BY <1>3, <1>5, <1>6, <1>7, <1>13, <1>14 DEF Filled, A, B, C, u, Rewritten

(* htable_search, htable_remove and Update look in one chain only, and find a
   pair of the key if the table has one: the chain that the key's hash selects
   has every entry of the key, and an entry's hash is the one of its key.  *)
LEMMA PlaceIs ==
    ASSUME table_length \in Nat \ {0}, Filled(table, table_length, entry_count), NEW k \in Keys
    PROVE  /\ Bucket(k) \in 0 .. table_length - 1
           /\ Place(k) # 0 => /\ Place(k) \in 1 .. Len(table[Bucket(k)])
                              /\ table[Bucket(k)][Place(k)] \in HashEntries
                              /\ table[Bucket(k)][Place(k)].key = k
           /\ Place(k) = 0 => \A v : Where(table, EntriesOf(k, v)) = {}
<1> DEFINE b == Bucket(k)
           c == table[b]
           h == do_hash(k)
           T == {i \in 1 .. Len(c) : c[i].hash = h /\ c[i].key = k}
<1>1. h \in Nat
  BY HashtableAssumption DEF do_hash
<1>2. b \in 0 .. table_length - 1 /\ b = indexFor(table_length, h)
  BY <1>1, IndexInTable DEF Bucket
<1>3. Place(k) = IF T # {} THEN Min(T) ELSE 0
  BY DEF Place, SelectInSeq
<1>4. table \in HashTables(table_length) /\ Sorted(table, table_length)
  BY DEF Filled
<1>5. c \in Seq(HashEntries)
  BY <1>2, <1>4 DEF HashTables
<1>6. c = table[b]
  OBVIOUS
<1> HIDE DEF b, c
<1>7. T \subseteq Nat /\ \A i \in T : i \in 1 .. Len(c) /\ c[i] \in HashEntries /\ c[i].key = k
  BY <1>5, ElementOfSeq
<1>8. T # {} => Min(T) \in T /\ Min(T) # 0
  <2>1. 0 \notin T
    OBVIOUS
  <2> HIDE DEF T
  <2> QED
    BY <2>1, <1>7, MinIs
<1>9. ASSUME T = {}, NEW v PROVE Where(table, EntriesOf(k, v)) = {}
  <2>1. SUFFICES ASSUME NEW p \in Where(table, EntriesOf(k, v)) PROVE FALSE
    OBVIOUS
  <2> DEFINE a == p[1]
             i == p[2]
             e == table[a][i]
  <2>2. /\ p = <<a, i>> /\ a \in 0 .. table_length - 1
        /\ i \in 1 .. Len(table[a]) /\ e \in EntriesOf(k, v)
    BY <1>4, WhereIs
  <2>3. e \in HashEntries /\ e.key = k /\ e.hash = h
    BY <2>2 DEF EntriesOf, HashEntries
  <2>4. indexFor(table_length, e.hash) = a
    <3>1. a \in DOMAIN table /\ i \in DOMAIN table[a]
      BY <2>2, <1>4 DEF HashTables
    <3> QED
      BY <3>1, <1>4 DEF Sorted
  <2>5. a = b
    BY <2>3, <2>4, <1>2
  <2>6. i \in T
    BY <2>2, <2>3, <2>5, <1>6
  <2> QED
    BY <2>6, <1>9
<1> HIDE DEF T
<1>10. Place(k) # 0 => Place(k) \in 1 .. Len(c) /\ c[Place(k)] \in HashEntries /\ c[Place(k)].key = k
  BY <1>3, <1>7, <1>8
<1>11. Place(k) = 0 => T = {}
  BY <1>3, <1>8
<1> QED
  BY <1>2, <1>6, <1>9, <1>10, <1>11 DEF b

(* So a lookup finds a value of the key if there is one, and says so if there is
   none.                                                                   *)
LEMMA PlaceFinds ==
    ASSUME table_length \in Nat \ {0}, Filled(table, table_length, entry_count), NEW k \in Keys
    PROVE  /\ Place(k) # 0 => table[Bucket(k)][Place(k)].value \in Map!Values(ContentsOf(table), k)
           /\ Place(k) = 0 => Map!Values(ContentsOf(table), k) = {}
<1> DEFINE Count(v) == Cardinality(Where(table, EntriesOf(k, v)))
<1>1. \A v \in 0 .. Word - 1 : ContentsOf(table)[<<k, v>>] = Count(v)
  BY DEF ContentsOf
<1>2. \A v : IsFiniteSet(Where(table, EntriesOf(k, v))) /\ Count(v) \in Nat
  BY PairEntries, SomeFinite
<1>3. \A v : Count(v) = 0 <=> Where(table, EntriesOf(k, v)) = {}
  BY <1>2, FS_EmptySet
<1>4. ASSUME Place(k) = 0 PROVE Map!Values(ContentsOf(table), k) = {}
  <2>1. \A v : Where(table, EntriesOf(k, v)) = {}
    BY <1>4, PlaceIs
  <2>2. \A v \in 0 .. Word - 1 : ~(ContentsOf(table)[<<k, v>>] > 0)
    BY <2>1, <1>1, <1>3
  <2> QED
    BY <2>2 DEF Map!Values
<1>5. ASSUME Place(k) # 0
      PROVE  table[Bucket(k)][Place(k)].value \in Map!Values(ContentsOf(table), k)
  <2> DEFINE b == Bucket(k)
             j == Place(k)
             e == table[b][j]
  <2>1. /\ b \in 0 .. table_length - 1 /\ j \in 1 .. Len(table[b])
        /\ e \in HashEntries /\ e.key = k
    BY <1>5, PlaceIs
  <2>2. e \in EntriesOf(k, e.value) /\ e.value \in 0 .. Word - 1
    BY <2>1 DEF EntriesOf, HashEntries
  <2>3. table \in HashTables(table_length)
    BY DEF Filled
  <2> HIDE DEF b, j
  <2>4. <<b, j>> \in Where(table, EntriesOf(k, e.value))
    BY <2>1, <2>2, <2>3, WhereIs
  <2> HIDE DEF e
  <2>5. Count(e.value) # 0 /\ Count(e.value) \in Nat
    BY <2>4, <1>2, <1>3
  <2> HIDE DEF Count
  <2>6. ContentsOf(table)[<<k, e.value>>] > 0
    BY <2>2, <2>5, <1>1
  <2>7. e.value \in Map!Values(ContentsOf(table), k)
    BY <2>2, <2>6 DEF Map!Values
  <2> QED
    BY <2>7 DEF e, b, j
<1> QED
  BY <1>4, <1>5

(* A new table is empty.                                                   *)
LEMMA EmptyFilled ==
    ASSUME NEW length \in Nat
    PROVE  /\ Filled([b \in 0 .. length - 1 |-> <<>>], length, 0)
           /\ ContentsOf([b \in 0 .. length - 1 |-> <<>>]) = Map!Empty
<1> DEFINE t == [b \in 0 .. length - 1 |-> <<>>]
<1>1. t \in HashTables(length) /\ DOMAIN t = 0 .. length - 1 /\ \A b \in 0 .. length - 1 : DOMAIN t[b] = {}
  BY DEF HashTables
<1> HIDE DEF t
<1>2. Sorted(t, length) /\ \A E : Where(t, E) = {}
  BY <1>1 DEF Sorted, Where
<1>3. \A E : IsFiniteSet(Where(t, E)) /\ Cardinality(Where(t, E)) = 0
  BY <1>2, FS_EmptySet
<1>4. Filled(t, length, 0)
  BY <1>1, <1>2, <1>3 DEF Filled
<1>5. ContentsOf(t) = Map!Empty
  BY <1>3 DEF ContentsOf, Map!Empty, Map!Pairs
<1> QED
  BY <1>4, <1>5 DEF t

(* No table is an empty one.                                               *)
LEMMA NoTableFilled == Filled(NoTable, 0, 0) /\ ContentsOf(NoTable) = Map!Empty
<1>1. NoTable = [b \in 0 .. 0 - 1 |-> <<>>]
  BY DEF NoTable
<1> QED
  BY <1>1, EmptyFilled

\* The inductive invariant: the table has entry_count entries in its chains, and
\* its length and its limit are those of its place in the list of primes.
HashInv ==
    /\ status \in {"none", "up"}
    /\ table_length \in Nat
    /\ Filled(table, table_length, entry_count)
    /\ status = "none" => table = NoTable /\ table_length = 0 /\ entry_count = 0
    /\ status # "none" => /\ prime_index \in DOMAIN primes
                          /\ table_length = primes[prime_index]
                          /\ load_limit = load_factors[prime_index]

\* A step of the table, as the bag of pairs sees it.
MapStep == [Map!MapNext \/ Map!MapFree]_<<Contents, ret>>

(* The lengths that a table can have.                                      *)
LEMMA PrimesAre ==
    ASSUME NEW i \in DOMAIN primes
    PROVE  primes[i] \in Nat \ {0} /\ i \in 1 .. Len(primes) /\ Len(primes) \in Nat
BY HashtableAssumption

(* What HashMap lets an insertion do, in terms of the table.               *)
LEMMA MapInserts ==
    ASSUME NEW k \in Keys, NEW v \in 0 .. Word - 1,
           \/ Contents' = Map!With(Contents, k, v) /\ ret' = <<"insert", k, -1>>
           \/ Contents' = Contents /\ ret' = <<"insert", k, 0>>
    PROVE  MapStep
BY DEF MapStep, Map!MapNext, Map!MapInsert

(* What HashMap lets a search do.                                          *)
LEMMA MapLooks ==
    ASSUME NEW k \in Keys, Contents' = Contents,
           \/ \E v \in Map!Values(Contents, k) : ret' = <<"search", k, v>>
           \/ Map!Values(Contents, k) = {} /\ ret' = <<"search", k, 0>>
    PROVE  MapStep
BY DEF MapStep, Map!MapNext, Map!MapSearch

(* What HashMap lets a removal do.                                         *)
LEMMA MapRemoves ==
    ASSUME NEW k \in Keys,
           \/ \E v \in Map!Values(Contents, k) :
                Contents' = Map!Without(Contents, k, v) /\ ret' = <<"remove", k, v>>
           \/ Map!Values(Contents, k) = {} /\ ret' = <<"remove", k, 0>> /\ Contents' = Contents
    PROVE  MapStep
BY DEF MapStep, Map!MapNext, Map!MapRemove

(* What HashMap lets a change of a value do.                               *)
LEMMA MapChanges ==
    ASSUME NEW k \in Keys, NEW v \in 0 .. Word - 1,
           \/ \E old \in Map!Values(Contents, k) :
                Contents' = Map!With(Map!Without(Contents, k, old), k, v) /\ ret' = <<"update", k, -1>>
           \/ Map!Values(Contents, k) = {} /\ ret' = <<"update", k, 0>> /\ Contents' = Contents
    PROVE  MapStep
BY DEF MapStep, Map!MapNext, Map!MapUpdate

(* What HashMap lets an addition to a value do.                            *)
LEMMA MapAdds ==
    ASSUME NEW k \in Keys, NEW v \in 0 .. Word - 1,
           \/ \E old \in Map!Values(Contents, k) :
                /\ Contents' = Map!With(Map!Without(Contents, k, old), k, (old + v) % Word)
                /\ ret' = <<"update", k, -1>>
           \/ Map!Values(Contents, k) = {} /\ ret' = <<"update", k, 0>> /\ Contents' = Contents
    PROVE  MapStep
BY DEF MapStep, Map!MapNext, Map!MapUpdate

(* A table that is empty after a step is a new one to HashMap.             *)
LEMMA MapFrees ==
    ASSUME Contents' = Map!Empty, ret' = ret
    PROVE  MapStep
BY DEF MapStep, Map!MapFree

(* The length that create_htable picks: the first that is longer than asked. *)
LEMMA PrimeFound ==
    ASSUME NEW m \in MinSizes
    PROVE  \E j \in DOMAIN primes : primes[j] > m /\ \A n \in 1 .. j - 1 : primes[n] <= m
<1> DEFINE T == {j \in DOMAIN primes : primes[j] > m}
<1>1. DOMAIN primes = 1 .. Len(primes) /\ Len(primes) \in Nat /\ Len(primes) > 0
      /\ m \in Nat /\ m < primes[Len(primes)] /\ \A j \in 1 .. Len(primes) : primes[j] \in Nat
  BY HashtableAssumption
<1>2. T \subseteq Nat /\ Len(primes) \in T
  BY <1>1
<1>3. PICK j \in T : \A i \in T : j <= i
  <2> HIDE DEF T
  <2> QED
    BY <1>2, LeastNat
<1>4. ASSUME NEW n \in 1 .. j - 1 PROVE primes[n] <= m
  <2>1. n \notin T /\ n \in DOMAIN primes
    BY <1>1, <1>3
  <2> QED
    BY <2>1, <1>1
<1> QED
  BY <1>3, <1>4

(* create_htable: the bag is empty before and after.                       *)
LEMMA CreateStep ==
    ASSUME HashInv, NEW m \in MinSizes, create_htable(m)
    PROVE  HashInv' /\ MapStep
<1> DEFINE i == CHOOSE j \in DOMAIN primes : primes[j] > m /\ \A n \in 1 .. j - 1 : primes[n] <= m
<1>1. i \in DOMAIN primes
  BY PrimeFound
<1>2. /\ status = "none" /\ status' = "up"
      /\ table' = [b \in 0 .. primes[i] - 1 |-> <<>>] /\ table_length' = primes[i]
      /\ prime_index' = i /\ load_limit' = load_factors[i] /\ entry_count' = 0 /\ ret' = ret
  BY DEF create_htable
<1> HIDE DEF i
<1>3. primes[i] \in Nat
  BY <1>1, PrimesAre
<1>4. Filled(table', table_length', entry_count') /\ ContentsOf(table') = Map!Empty
  BY <1>2, <1>3, EmptyFilled
<1>5. HashInv'
  BY <1>1, <1>2, <1>3, <1>4 DEF HashInv
<1>6. Contents' = Map!Empty
  BY <1>2, <1>3, <1>4, ContentsIs
<1> QED
  BY <1>2, <1>5, <1>6, MapFrees

(* free_htable.                                                            *)
LEMMA FreeStep ==
    ASSUME HashInv, free_htable
    PROVE  HashInv' /\ MapStep
<1>1. /\ status' = "none" /\ table' = NoTable /\ table_length' = 0
      /\ entry_count' = 0 /\ ret' = ret
  BY DEF free_htable
<1>2. Filled(table', table_length', entry_count') /\ ContentsOf(table') = Map!Empty
  BY <1>1, NoTableFilled
<1>3. HashInv'
  BY <1>1, <1>2 DEF HashInv
<1>4. Contents' = Map!Empty
  BY <1>1, <1>2, ContentsIs
<1> QED
  BY <1>1, <1>3, <1>4, MapFrees

(* What holds while the table is up.                                       *)
LEMMA UpIs ==
    ASSUME HashInv, status = "up"
    PROVE  /\ table_length \in Nat \ {0} /\ Filled(table, table_length, entry_count)
           /\ prime_index \in DOMAIN primes /\ table_length = primes[prime_index]
           /\ load_limit = load_factors[prime_index]
           /\ Contents = ContentsOf(table)
<1>1. /\ prime_index \in DOMAIN primes /\ table_length = primes[prime_index]
      /\ load_limit = load_factors[prime_index]
      /\ table_length \in Nat /\ Filled(table, table_length, entry_count)
  BY DEF HashInv
<1>2. table_length \in Nat \ {0}
  BY <1>1, PrimesAre
<1> QED
  BY <1>1, <1>2, ContentsIs

\* What htable_insert may find in place of the table after hashtable_expand.
Outcomes == IF entry_count + 1 > load_limit THEN hashtable_expand(table)
           ELSE {[index |-> prime_index, table |-> table]}

(* The table that an insertion goes into holds what the table held, whether it has
   grown or not.                                                           *)
LEMMA ChoiceFilled ==
    ASSUME HashInv, ~PlanB, status = "up", NEW new \in Outcomes
    PROVE  /\ new.index \in DOMAIN primes /\ primes[new.index] \in Nat \ {0}
           /\ Filled(new.table, primes[new.index], entry_count)
           /\ ContentsOf(new.table) = ContentsOf(table)
<1>1. /\ table_length \in Nat \ {0} /\ Filled(table, table_length, entry_count)
      /\ prime_index \in DOMAIN primes /\ table_length = primes[prime_index]
  BY UpIs
<1> DEFINE same == [index |-> prime_index, table |-> table]
           next == [index |-> prime_index + 1, table |-> Rehashed(table, primes[prime_index + 1])]
<1>2. new = same \/ (new = next /\ prime_index < Len(primes))
  BY DEF Outcomes, hashtable_expand
<1>3. CASE new = same
  <2>1. new.index = prime_index /\ new.table = table
    BY <1>3
  <2> QED
    BY <2>1, <1>1
<1>4. CASE new = next /\ prime_index < Len(primes)
  <2> DEFINE length == primes[prime_index + 1]
  <2>1. new.index = prime_index + 1 /\ new.table = Rehashed(table, length)
    BY <1>4
  <2>2. prime_index + 1 \in DOMAIN primes
    BY <1>1, <1>4, HashtableAssumption
  <2>3. length \in Nat \ {0}
    BY <2>2, PrimesAre
  <2>4. primes[new.index] = length
    BY <2>1
  <2> HIDE DEF length
  <2>5. /\ Filled(Rehashed(table, length), length, entry_count)
        /\ ContentsOf(Rehashed(table, length)) = ContentsOf(table)
    BY <1>1, <2>3, RehashFilled
  <2> QED
    BY <2>1, <2>2, <2>3, <2>4, <2>5
<1> QED
  BY <1>2, <1>3, <1>4

(* htable_insert.                                                          *)
LEMMA InsertStep ==
    ASSUME HashInv, ~PlanB, NEW k \in Keys, NEW v \in 0 .. Word - 1, htable_insert(k, v)
    PROVE  HashInv' /\ MapStep
<1> DEFINE e == [hash |-> do_hash(k), key |-> k, value |-> v]
<1>1. status = "up" /\ status' = status
  BY DEF htable_insert
<1>2. PICK new \in Outcomes :
        /\ prime_index' = new.index
        /\ table_length' = primes[new.index]
        /\ load_limit' = load_factors[new.index]
        /\ \/ /\ entry_count' = entry_count + 1
              /\ ret' = <<"insert", k, -1>>
              /\ table' = [new.table EXCEPT ![indexFor(primes[new.index], do_hash(k))] = <<e>> \o @]
           \/ /\ ret' = <<"insert", k, 0>>
              /\ table' = new.table
              /\ entry_count' = entry_count
  BY DEF htable_insert, Outcomes
<1> DEFINE length == primes[new.index]
           t == new.table
<1>3. /\ new.index \in DOMAIN primes /\ length \in Nat \ {0}
      /\ Filled(t, length, entry_count) /\ ContentsOf(t) = ContentsOf(table)
  BY <1>1, ChoiceFilled
<1>4. e \in HashEntries /\ e.hash = do_hash(k) /\ e.key = k /\ e.value = v
  BY HashtableAssumption DEF HashEntries, do_hash
<1>5. Contents = ContentsOf(table)
  BY <1>1, UpIs
<1>6. CASE /\ entry_count' = entry_count + 1 /\ ret' = <<"insert", k, -1>>
           /\ table' = [t EXCEPT ![indexFor(length, do_hash(k))] = <<e>> \o @]
  <2> HIDE DEF e, length, t
  <2>1. table' = PushAt(t, length, e)
    BY <1>4, <1>6 DEF PushAt
  <2>2. /\ Filled(PushAt(t, length, e), length, entry_count + 1)
        /\ ContentsOf(PushAt(t, length, e)) = Map!With(ContentsOf(t), e.key, e.value)
    BY <1>3, <1>4, PushFilled
  <2>3. table_length' = length
    BY <1>2 DEF length
  <2>4. Filled(table', table_length', entry_count')
    BY <2>1, <2>2, <2>3, <1>6
  <2>5. HashInv'
    BY <2>3, <2>4, <1>1, <1>2, <1>3 DEF HashInv
  <2>6. Contents' = ContentsOf(table')
    BY <2>3, <2>4, <1>3, ContentsIs
  <2>7. Contents' = Map!With(Contents, k, v)
    BY <2>1, <2>2, <2>6, <1>3, <1>4, <1>5
  <2> QED
    BY <2>5, <2>7, <1>6, MapInserts
<1>7. CASE ret' = <<"insert", k, 0>> /\ table' = t /\ entry_count' = entry_count
  <2> HIDE DEF e, length, t
  <2>1. table_length' = length
    BY <1>2 DEF length
  <2>2. Filled(table', table_length', entry_count')
    BY <2>1, <1>3, <1>7
  <2>3. HashInv'
    BY <2>1, <2>2, <1>1, <1>2, <1>3 DEF HashInv
  <2>4. Contents' = ContentsOf(table')
    BY <2>1, <2>2, <1>3, ContentsIs
  <2>5. Contents' = Contents
    BY <2>4, <1>3, <1>5, <1>7
  <2> QED
    BY <2>3, <2>5, <1>7, MapInserts
<1> QED
  BY <1>2, <1>6, <1>7

(* htable_search.                                                          *)
LEMMA SearchStep ==
    ASSUME HashInv, NEW k \in Keys, htable_search(k)
    PROVE  HashInv' /\ MapStep
<1> DEFINE x == table[Bucket(k)][Place(k)].value
<1>1. status = "up" /\ status' = status
      /\ ret' = <<"search", k, IF Place(k) # 0 THEN x ELSE 0>>
      /\ UNCHANGED <<table, table_length, prime_index, load_limit, entry_count, status>>
  BY DEF htable_search
<1>2. HashInv'
  BY <1>1 DEF HashInv
<1>3. Contents = ContentsOf(table) /\ Contents' = Contents
  <2>1. table_length' \in Nat /\ Filled(table', table_length', entry_count')
    BY <1>2 DEF HashInv
  <2>2. Contents' = ContentsOf(table')
    BY <2>1, ContentsIs
  <2> QED
    BY <2>2, <1>1, UpIs
<1>4. /\ Place(k) # 0 => x \in Map!Values(Contents, k)
      /\ Place(k) = 0 => Map!Values(Contents, k) = {}
  BY <1>1, <1>3, UpIs, PlaceFinds
<1> HIDE DEF x
<1>5. \/ \E v \in Map!Values(Contents, k) : ret' = <<"search", k, v>>
      \/ Map!Values(Contents, k) = {} /\ ret' = <<"search", k, 0>>
  BY <1>1, <1>4
<1> QED
  BY <1>2, <1>3, <1>5, MapLooks

(* htable_remove.                                                          *)
LEMMA RemoveStep ==
    ASSUME HashInv, NEW k \in Keys, htable_remove(k)
    PROVE  HashInv' /\ MapStep
<1> DEFINE b == Bucket(k)
           j == Place(k)
           e == table[b][j]
<1>1. /\ status = "up" /\ status' = status /\ table_length' = table_length
      /\ prime_index' = prime_index /\ load_limit' = load_limit
  BY DEF htable_remove
<1>2. /\ table_length \in Nat \ {0} /\ Filled(table, table_length, entry_count)
      /\ prime_index \in DOMAIN primes /\ table_length = primes[prime_index]
      /\ load_limit = load_factors[prime_index] /\ Contents = ContentsOf(table)
  BY <1>1, UpIs
<1>3. CASE j # 0
  <2>1. /\ ret' = <<"remove", k, e.value>> /\ entry_count' = entry_count - 1
        /\ table' = Dropped(table, b, j)
    BY <1>3 DEF htable_remove, Dropped
  <2>2. b \in 0 .. table_length - 1 /\ j \in 1 .. Len(table[b]) /\ e.key = k
    BY <1>2, <1>3, PlaceIs
  <2>3. e.value \in Map!Values(Contents, k)
    BY <1>2, <1>3, PlaceFinds
  <2> HIDE DEF b, j, e
  <2>4. /\ Filled(table', table_length, entry_count - 1)
        /\ ContentsOf(table') = Map!Without(ContentsOf(table), e.key, e.value)
    <3>1. table_length \in Nat /\ table[b][j] = e
      BY <1>2 DEF e
    <3>2. /\ Filled(Dropped(table, b, j), table_length, entry_count - 1)
          /\ ContentsOf(Dropped(table, b, j))
                = Map!Without(ContentsOf(table), table[b][j].key, table[b][j].value)
      BY ONLY <3>1, <2>2, <1>2, RemoveFilled
    <3> QED
      BY <3>1, <3>2, <2>1
  <2>5. Filled(table', table_length', entry_count')
    BY <2>1, <2>4, <1>1
  <2>6. HashInv'
    BY <2>5, <1>1, <1>2 DEF HashInv
  <2>7. Contents' = Map!Without(Contents, k, e.value)
    BY <2>2, <2>4, <2>5, <1>1, <1>2, ContentsIs
  <2> QED
    BY <2>1, <2>3, <2>6, <2>7, MapRemoves
<1>4. CASE j = 0
  <2>1. ret' = <<"remove", k, 0>> /\ table' = table /\ entry_count' = entry_count
    BY <1>4 DEF htable_remove
  <2>2. Map!Values(Contents, k) = {}
    BY <1>2, <1>4, PlaceFinds
  <2>3. Filled(table', table_length', entry_count')
    BY <2>1, <1>1, <1>2
  <2>4. HashInv'
    BY <2>3, <1>1, <1>2 DEF HashInv
  <2>5. Contents' = Contents
    BY <2>1, <2>3, <1>1, <1>2, ContentsIs
  <2> QED
    BY <2>1, <2>2, <2>4, <2>5, MapRemoves
<1> QED
  BY <1>3, <1>4

(* Update: the first entry of the key gets the new value, and keeps its key. *)
LEMMA UpdateStep ==
    ASSUME HashInv, NEW k \in Keys, NEW new \in [0 .. Word - 1 -> 0 .. Word - 1], Update(k, new)
    PROVE  /\ HashInv'
           /\ \/ \E old \in Map!Values(Contents, k) :
                    /\ Contents' = Map!With(Map!Without(Contents, k, old), k, new[old])
                    /\ ret' = <<"update", k, -1>>
              \/ Map!Values(Contents, k) = {} /\ ret' = <<"update", k, 0>> /\ Contents' = Contents
<1> DEFINE b == Bucket(k)
           j == Place(k)
           o == table[b][j]
           e == [o EXCEPT !.value = new[o.value]]
<1>1. /\ status = "up" /\ status' = status /\ table_length' = table_length
      /\ prime_index' = prime_index /\ load_limit' = load_limit /\ entry_count' = entry_count
  BY DEF Update
<1>2. /\ table_length \in Nat \ {0} /\ Filled(table, table_length, entry_count)
      /\ prime_index \in DOMAIN primes /\ table_length = primes[prime_index]
      /\ load_limit = load_factors[prime_index] /\ Contents = ContentsOf(table)
  BY <1>1, UpIs
<1>3. CASE j # 0
  <2>1. /\ ret' = <<"update", k, -1>>
        /\ table' = Replaced(table, b, j, e)
    BY <1>3 DEF Update, Replaced
  <2>2. /\ b \in 0 .. table_length - 1 /\ j \in 1 .. Len(table[b])
        /\ o \in HashEntries /\ o.key = k
    BY <1>2, <1>3, PlaceIs
  <2>3. o.value \in Map!Values(Contents, k)
    BY <1>2, <1>3, PlaceFinds
  <2>4. table[b][j] = o /\ e = [o EXCEPT !.value = new[o.value]]
    OBVIOUS
  <2> HIDE DEF b, j, o, e
  <2>5. e \in HashEntries /\ e.key = o.key /\ e.value = new[o.value]
    BY <2>2, <2>4 DEF HashEntries
  <2>6. /\ Filled(table', table_length, entry_count)
        /\ ContentsOf(table')
                = Rewritten(ContentsOf(table), e.key, table[b][j].value, e.value)
    <3>1. /\ table_length \in Nat /\ Filled(table, table_length, entry_count)
          /\ b \in 0 .. table_length - 1 /\ j \in 1 .. Len(table[b])
          /\ e \in HashEntries /\ e.key = table[b][j].key
      BY <2>2, <2>4, <2>5, <1>2
    <3>2. /\ Filled(Replaced(table, b, j, e), table_length, entry_count)
          /\ ContentsOf(Replaced(table, b, j, e))
                = Rewritten(ContentsOf(table), e.key, table[b][j].value, e.value)
      BY ONLY <3>1, ChangeFilled, Zenon
    <3> QED
      BY <3>2, <2>1
  <2>7. Filled(table', table_length', entry_count')
    BY <2>6, <1>1
  <2>8. HashInv'
    BY <2>7, <1>1, <1>2 DEF HashInv
  <2>9. Contents' = Map!With(Map!Without(Contents, k, o.value), k, new[o.value])
    BY <2>2, <2>4, <2>5, <2>6, <2>7, <1>1, <1>2, ContentsIs DEF Rewritten
  <2> QED
    BY <2>1, <2>3, <2>8, <2>9
<1>4. CASE j = 0
  <2>1. ret' = <<"update", k, 0>> /\ table' = table
    BY <1>4 DEF Update
  <2>2. Map!Values(Contents, k) = {}
    BY <1>2, <1>4, PlaceFinds
  <2>3. Filled(table', table_length', entry_count')
    BY <2>1, <1>1, <1>2
  <2>4. HashInv'
    BY <2>3, <1>1, <1>2 DEF HashInv
  <2>5. Contents' = Contents
    BY <2>1, <2>3, <1>1, <1>2, ContentsIs
  <2> QED
    BY <2>1, <2>2, <2>4, <2>5
<1> QED
  BY <1>3, <1>4

(* htable_change.                                                          *)
LEMMA ChangeStep ==
    ASSUME HashInv, NEW k \in Keys, NEW v \in 0 .. Word - 1, htable_change(k, v)
    PROVE  HashInv' /\ MapStep
<1> DEFINE new == [old \in 0 .. Word - 1 |-> v]
<1>1. new \in [0 .. Word - 1 -> 0 .. Word - 1] /\ Update(k, new)
      /\ \A old \in 0 .. Word - 1 : new[old] = v
  BY DEF htable_change
<1>2. \A old \in Map!Values(Contents, k) : old \in 0 .. Word - 1
  BY DEF Map!Values
<1> HIDE DEF new
<1>3. /\ HashInv'
      /\ \/ \E old \in Map!Values(Contents, k) :
                /\ Contents' = Map!With(Map!Without(Contents, k, old), k, new[old])
                /\ ret' = <<"update", k, -1>>
         \/ Map!Values(Contents, k) = {} /\ ret' = <<"update", k, 0>> /\ Contents' = Contents
  BY <1>1, UpdateStep
<1>4. \/ \E old \in Map!Values(Contents, k) :
            Contents' = Map!With(Map!Without(Contents, k, old), k, v) /\ ret' = <<"update", k, -1>>
      \/ Map!Values(Contents, k) = {} /\ ret' = <<"update", k, 0>> /\ Contents' = Contents
  BY <1>1, <1>2, <1>3
<1> QED
  BY <1>3, <1>4, MapChanges

(* htable_inc, and htable_dec, which adds the complement.                  *)
LEMMA AddStep ==
    ASSUME HashInv, NEW k \in Keys, NEW v \in 0 .. Word - 1, NEW new,
           new = [old \in 0 .. Word - 1 |-> (old + v) % Word], Update(k, new)
    PROVE  HashInv' /\ MapStep
<1>1. Word \in Nat \ {0}
  BY HashtableAssumption
<1>2. new \in [0 .. Word - 1 -> 0 .. Word - 1]
  <2>1. \A old \in 0 .. Word - 1 : (old + v) % Word \in 0 .. Word - 1
    BY <1>1
  <2> QED
    BY <2>1
<1>3. \A old \in 0 .. Word - 1 : new[old] = (old + v) % Word
  OBVIOUS
<1>4. \A old \in Map!Values(Contents, k) : old \in 0 .. Word - 1
  BY DEF Map!Values
<1>5. /\ HashInv'
      /\ \/ \E old \in Map!Values(Contents, k) :
                /\ Contents' = Map!With(Map!Without(Contents, k, old), k, new[old])
                /\ ret' = <<"update", k, -1>>
         \/ Map!Values(Contents, k) = {} /\ ret' = <<"update", k, 0>> /\ Contents' = Contents
  BY <1>2, UpdateStep
<1>6. \/ \E old \in Map!Values(Contents, k) :
            /\ Contents' = Map!With(Map!Without(Contents, k, old), k, (old + v) % Word)
            /\ ret' = <<"update", k, -1>>
      \/ Map!Values(Contents, k) = {} /\ ret' = <<"update", k, 0>> /\ Contents' = Contents
  BY <1>3, <1>4, <1>5
<1> QED
  BY <1>5, <1>6, MapAdds

(* Taking v away is adding the rest of the word: the number wraps.         *)
LEMMA Complement ==
    ASSUME NEW v \in 0 .. Word - 1
    PROVE  \E w \in 0 .. Word - 1 :
             \A old \in 0 .. Word - 1 : (old - v) % Word = (old + w) % Word
<1>1. Word \in Nat \ {0}
  BY HashtableAssumption
<1>2. CASE v = 0
  BY <1>1, <1>2
<1>3. CASE v # 0
  <2>1. Word - v \in 0 .. Word - 1
    BY <1>1, <1>3
  <2>2. ASSUME NEW old \in 0 .. Word - 1 PROVE (old - v) % Word = (old + (Word - v)) % Word
    <3>1. CASE old >= v
      <4>1. (old - v) % Word = old - v
        BY <3>1, <1>1
      <4>2. old + (Word - v) = Word + (old - v)
        BY <1>1
      <4>3. (Word + (old - v)) % Word = old - v
        BY <3>1, <1>1
      <4> QED
        BY <4>1, <4>2, <4>3
    <3>2. CASE old < v
      <4>1. (old - v) % Word = old - v + Word
        BY <3>2, <1>1
      <4>2. (old + (Word - v)) % Word = old - v + Word
        BY <3>2, <1>1
      <4> QED
        BY <4>1, <4>2
    <3> QED
      BY <3>1, <3>2, <1>1
  <2> QED
    BY <2>1, <2>2
<1> QED
  BY <1>2, <1>3

(* Every step keeps the invariant, and is a step of the map.               *)
LEMMA HashStep ==
    ASSUME HashInv, ~PlanB, [HNext]_hvars
    PROVE  HashInv' /\ MapStep
<1>1. CASE UNCHANGED hvars
  <2>1. UNCHANGED <<table, table_length, prime_index, load_limit, entry_count, status, ret>>
    BY <1>1 DEF hvars
  <2>2. HashInv'
    BY <2>1 DEF HashInv
  <2>3. Contents' = Contents
    BY <2>1, <2>2, ContentsIs DEF HashInv
  <2> QED
    BY <2>1, <2>2, <2>3 DEF MapStep
<1>2. ASSUME NEW n \in MinSizes, create_htable(n) PROVE HashInv' /\ MapStep
  BY <1>2, CreateStep
<1>3. CASE free_htable
  BY <1>3, FreeStep
<1>5. ASSUME NEW k \in Keys, htable_search(k) PROVE HashInv' /\ MapStep
  BY <1>5, SearchStep
<1>6. ASSUME NEW k \in Keys, htable_remove(k) PROVE HashInv' /\ MapStep
  BY <1>6, RemoveStep
<1>7. ASSUME NEW k \in Keys, NEW v \in 0 .. Word - 1, htable_insert(k, v)
      PROVE  HashInv' /\ MapStep
  BY <1>7, InsertStep
<1>8. ASSUME NEW k \in Keys, NEW v \in 0 .. Word - 1, htable_change(k, v)
      PROVE  HashInv' /\ MapStep
  BY <1>8, ChangeStep
<1>9. ASSUME NEW k \in Keys, NEW v \in 0 .. Word - 1, htable_inc(k, v)
      PROVE  HashInv' /\ MapStep
  BY <1>9, AddStep DEF htable_inc
<1>10. ASSUME NEW k \in Keys, NEW v \in 0 .. Word - 1, htable_dec(k, v)
       PROVE  HashInv' /\ MapStep
  <2>1. PICK w \in 0 .. Word - 1 :
            \A old \in 0 .. Word - 1 : (old - v) % Word = (old + w) % Word
    BY Complement
  <2> DEFINE new == [old \in 0 .. Word - 1 |-> (old - v) % Word]
  <2>2. Update(k, new) /\ new = [old \in 0 .. Word - 1 |-> (old + w) % Word]
    BY <2>1, <1>10 DEF htable_dec
  <2> HIDE DEF new
  <2> QED
    BY <2>2, AddStep
<1> QED
  BY <1>1, <1>2, <1>3, <1>5, <1>6, <1>7, <1>8, <1>9, <1>10 DEF HNext

(* At every moment the table has entry_count entries, each in the chain that the
   hash of its key selects, and its length and its limit are those of its place
   in the list of primes, when hashtable_expand never gets to its Plan B
   (util-hashtable.c).                                                     *)
THEOREM HashAlways ==
    ASSUME ~PlanB
    PROVE  HSpec => []HashInv
<1>1. HInit => HashInv
  <2>1. SUFFICES ASSUME HInit PROVE HashInv
    OBVIOUS
  <2>2. /\ table = NoTable /\ table_length = 0 /\ entry_count = 0 /\ status = "none"
    BY <2>1 DEF HInit
  <2>3. Filled(table, table_length, entry_count)
    BY <2>2, NoTableFilled
  <2> QED
    BY <2>2, <2>3 DEF HashInv
<1>2. HashInv /\ [HNext]_hvars => HashInv'
  BY HashStep
<1> QED
  BY <1>1, <1>2, PTL DEF HSpec

(* The hash table is a bag of pairs: what it holds changes as HashMap says and
   every call answers what HashMap says, whatever the length of the table, the
   order in its chains, its growth and the allocations that fail, except the one
   that is refused once and then given to Plan B, which loses chains
   (htable_insert, htable_search, htable_remove, htable_change, htable_inc and
   htable_dec of util-hashtable.c).                                        *)
THEOREM HashImplements ==
    ASSUME ~PlanB
    PROVE  HSpec => IsMap
<1>1. HInit => Map!MapInit
  <2>1. SUFFICES ASSUME HInit PROVE Map!MapInit
    OBVIOUS
  <2>2. /\ table = NoTable /\ table_length = 0 /\ entry_count = 0 /\ ret = <<"none", 0, 0>>
    BY <2>1 DEF HInit
  <2>3. Contents = Map!Empty
    BY <2>2, NoTableFilled, ContentsIs
  <2> QED
    BY <2>2, <2>3 DEF Map!MapInit
<1>2. HashInv /\ [HNext]_hvars => [Map!MapNext \/ Map!MapFree]_<<Contents, ret>>
  BY HashStep DEF MapStep
<1> QED
  BY <1>1, <1>2, HashAlways, PTL DEF HSpec, IsMap, Map!MapSpec
=============================================================================
