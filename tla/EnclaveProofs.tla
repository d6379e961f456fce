--------------------------- MODULE EnclaveProofs ---------------------------
(***************************************************************************)
(* Theorems about Enclave, for any number of objects, slots and threads.   *)
(* Each of them names the faults that must not happen; what it does not    *)
(* name may.                                                               *)
(***************************************************************************)
EXTENDS Enclave, FiniteSetTheorems, TLAPS

-----------------------------------------------------------------------------
(* The inductive invariant.                                                *)

LoadPcs   == {"claim", "register"}
FreePcs   == {"f_dev", "f_proc", "f_fs", "f_lcall", "f_put"}
CtrlPcs   == {"c_lock", "c_send"}
ResetPcs  == {"setup", "boot", "r_ctrl", "r_lcall"}

\* A thread is at one of these places, on this object.
In(e, places) == \E t \in Threads : th[t].e = e /\ th[t].pc \in places

\* The threads in open(2) of a device, before they have the reference.
Getters(e) == {u \in Threads : At(u, "get") /\ th[u].e = e}

(* A thread that does something does it to an object, and every call on a
   file has its file: opens under way fit below MaxFiles, and a control file
   is not closed under a command.                                          *)
CallInv ==
    /\ \A t \in Threads : th[t].pc = "none" <=> th[t].e = None
    /\ \A e \in Objects : files[e]["dev"] + Cardinality(Getters(e)) <= MaxFiles
    /\ \A e \in Objects : Cardinality(Users(e, "ctrl")) <= files[e]["ctrl"]

(* LOAD has its object for itself, FREE shares it with commands only, and
   op_lock admits one.                                                     *)
AloneInv ==
    \A t, u \in Threads : t # u /\ th[t].e = th[u].e /\ th[t].e # None =>
        /\ th[t].pc \notin LoadPcs
        /\ th[t].pc \in FreePcs => th[u].pc \in CtrlPcs
        /\ th[t].pc \in ResetPcs => th[u].pc \notin ResetPcs

(* What the places of the threads say about the object: it is allocated, and
   dead exactly in LOAD and FREE, whichever operations overlap.            *)
LifeInv ==
    /\ \A t \in Threads : th[t].e # None => mem[th[t].e]
    /\ \A t \in Threads : th[t].pc \in LoadPcs \cup FreePcs => state[th[t].e] = "dead"
    /\ \A t \in Threads : th[t].pc \in ResetPcs \cup {"get"} => state[th[t].e] # "dead"
    /\ \A e \in Objects : state[e] # "dead" => mem[e]

(* References, counted.                                                    *)
CountOf(e) ==
    /\ mem[e] /\ ~In(e, LoadPcs) =>
         /\ refcount[e] = RefFiles(e) + (IF Owned(e) THEN 1 ELSE 0)
         /\ refcount[e] > 0
    /\ ~mem[e] \/ In(e, LoadPcs) => RefFiles(e) = 0

CountInv == \A e \in Objects : CountOf(e)

(* What a dead enclave still has, it has until the step of FREE that takes
   it down.                                                                *)
PartsOf(e) ==
    /\ dev[e] => state[e] # "dead" \/ In(e, {"f_dev"})
    /\ lcall[e] # "none" => state[e] # "dead" \/ In(e, {"f_dev", "f_proc", "f_fs", "f_lcall"})
    /\ fs[e] => state[e] # "dead" \/ In(e, {"f_dev", "f_proc", "f_fs"})
    /\ desc[e] = "live" => state[e] # "dead" \/ In(e, {"f_dev"})

PartsInv == \A e \in Objects : PartsOf(e)

(* A slot holds an enclave from LOAD's claim to FREE's release of it.      *)
MapOf(i, e) ==
    \/ id[e] = i /\ (state[e] # "dead" \/ In(e, {"f_dev", "f_proc"}))
    \/ \E t \in Threads : th[t].e = e /\ th[t].pc = "register" /\ th[t].slot = i

MapInv == \A i \in Slots, e \in Objects : enclave_map[i] = e => MapOf(i, e)

BaseInv == AloneInv /\ LifeInv /\ CountInv /\ PartsInv /\ MapInv

(* An open console belongs to an enclave that is not dead.                 *)
ConsInv == \A e \in Objects : files[e]["cons"] > 0 => state[e] # "dead"

(* One LOAD at a time claims a free slot and keeps it until FREE.          *)
SlotInv ==
    /\ \A t, u \in Threads : th[t].pc \in LoadPcs /\ th[u].pc \in LoadPcs => t = u
    /\ \A t \in Threads : th[t].pc = "claim" => enclave_map[th[t].slot] = None
    /\ \A t \in Threads : th[t].pc = "register" => enclave_map[th[t].slot] = th[t].e
    /\ \A e \in Objects : state[e] # "dead" \/ In(e, {"f_dev", "f_proc"})
                             => enclave_map[id[e]] = e

(* The enclave has one reference to its image.                             *)
ImageInv ==
    \A e \in Objects : images[e] = IF mem[e] /\ ~In(e, LoadPcs) THEN 1 ELSE 0
-----------------------------------------------------------------------------
(* How threads move.                                                       *)

Descs == {"null", "live", "freed"}

\* Thread t comes to `place` on object e; the others stay where they are.
Moves(t, place, e) ==
    /\ th' \in [Threads -> Calls]
    /\ th'[t].pc = place /\ th'[t].e = e
    /\ \A u \in Threads \ {t} :
         th'[u].pc = th[u].pc /\ th'[u].e = th[u].e /\ th'[u].slot = th[u].slot

\* The others keep their descriptors too.
Keeps(t) == \A u \in Threads \ {t} : th'[u].xbuf = th[u].xbuf

LEMMA CallRecord ==
  ASSUME NEW l \in Pcs, NEW e \in Objects \cup {None}, NEW i \in Slots, NEW d \in Descs
  PROVE  [pc |-> l, e |-> e, slot |-> i, xbuf |-> d] \in Calls
  BY DEF Calls, Descs

LEMMA CallFields ==
  ASSUME NEW r \in Calls
  PROVE  r.pc \in Pcs /\ r.e \in Objects \cup {None} /\ r.slot \in Slots /\ r.xbuf \in Descs
  BY DEF Calls, Descs

LEMMA ZeroSlot == 0 \in Slots
  BY EnclaveAssumption DEF Slots

LEMMA FreeCall == Free0 \in Calls
<1>1. "none" \in Pcs /\ "null" \in Descs  BY DEF Pcs, Descs
<1>2. QED  BY <1>1, ZeroSlot, CallRecord DEF Free0

\* A thread begins an operation.
LEMMA CallMoves ==
  ASSUME th \in [Threads -> Calls], NEW t \in Threads, NEW q \in Calls,
         th' = [th EXCEPT ![t] = q]
  PROVE  Moves(t, q.pc, q.e) /\ Keeps(t) /\ th'[t] = q
<1>1. th' \in [Threads -> Calls]  OBVIOUS
<1>2. th'[t] = q /\ \A u \in Threads \ {t} : th'[u] = th[u]  OBVIOUS
<1>3. QED  BY <1>1, <1>2 DEF Moves, Keeps

LEMMA BeginMoves ==
  ASSUME th \in [Threads -> Calls], NEW t \in Threads, NEW l \in Pcs, NEW e \in Objects,
         th' = [th EXCEPT ![t] = [Free0 EXCEPT !.pc = l, !.e = e]]
  PROVE  Moves(t, l, e) /\ Keeps(t)
<1> DEFINE q == [Free0 EXCEPT !.pc = l, !.e = e]
<1>1. q \in Calls /\ q.pc = l /\ q.e = e  BY FreeCall DEF Calls
<1>2. th' = [th EXCEPT ![t] = q]  OBVIOUS
<1> HIDE DEF q
<1>3. QED  BY <1>1, <1>2, CallMoves

LEMMA BeginSlotMoves ==
  ASSUME th \in [Threads -> Calls], NEW t \in Threads, NEW l \in Pcs, NEW e \in Objects,
         NEW i \in Slots,
         th' = [th EXCEPT ![t] = [Free0 EXCEPT !.pc = l, !.e = e, !.slot = i]]
  PROVE  Moves(t, l, e) /\ Keeps(t) /\ th'[t].slot = i
<1> DEFINE q == [Free0 EXCEPT !.pc = l, !.e = e, !.slot = i]
<1>1. q \in Calls /\ q.pc = l /\ q.e = e /\ q.slot = i
  BY FreeCall DEF Calls
<1>2. th' = [th EXCEPT ![t] = q]  OBVIOUS
<1> HIDE DEF q
<1>3. QED  BY <1>1, <1>2, CallMoves

LEMMA BeginDescMoves ==
  ASSUME th \in [Threads -> Calls], NEW t \in Threads, NEW l \in Pcs, NEW e \in Objects,
         NEW d \in Descs,
         th' = [th EXCEPT ![t] = [Free0 EXCEPT !.pc = l, !.e = e, !.xbuf = d]]
  PROVE  Moves(t, l, e) /\ Keeps(t) /\ th'[t].xbuf = d
<1> DEFINE q == [Free0 EXCEPT !.pc = l, !.e = e, !.xbuf = d]
<1>1. q \in Calls /\ q.pc = l /\ q.e = e /\ q.xbuf = d
  BY FreeCall DEF Calls, Descs
<1>2. th' = [th EXCEPT ![t] = q]  OBVIOUS
<1> HIDE DEF q
<1>3. QED  BY <1>1, <1>2, CallMoves

LEMMA GotoMoves ==
  ASSUME th \in [Threads -> Calls], NEW t \in Threads, NEW place \in Pcs, Goto(t, place)
  PROVE  Moves(t, place, th[t].e) /\ Keeps(t) /\ th'[t].slot = th[t].slot
         /\ th'[t].xbuf = th[t].xbuf
  BY DEF Calls, Goto, Moves, Keeps

LEMMA ReturnMoves ==
  ASSUME th \in [Threads -> Calls], NEW t \in Threads, Return(t)
  PROVE  Moves(t, "none", None) /\ Keeps(t)
<1>1. th'[t] = Free0 /\ \A u \in Threads \ {t} : th'[u] = th[u]  BY DEF Return
<1>2. th' \in [Threads -> Calls]  BY FreeCall DEF Return
<1>3. Free0.pc = "none" /\ Free0.e = None  BY DEF Free0
<1>4. QED  BY <1>1, <1>2, <1>3 DEF Moves, Keeps

\* The others may lose their descriptor and nothing else.
LEMMA DeinitMoves ==
  ASSUME th \in [Threads -> Calls], NEW t \in Threads, NEW place \in Pcs,
         pisces_ctrl_deinit(t, place)
  PROVE  /\ Moves(t, place, th[t].e) /\ th'[t].slot = th[t].slot
         /\ \A u \in Threads : th[u].e # th[t].e => th'[u].xbuf = th[u].xbuf
  BY DEF Calls, pisces_ctrl_deinit, Moves
-----------------------------------------------------------------------------
(* Counting.                                                               *)

LEMMA FinSets ==
  ASSUME NEW e
  PROVE  /\ IsFiniteSet(Getters(e)) /\ Cardinality(Getters(e)) \in Nat
         /\ \A k : IsFiniteSet(Users(e, k)) /\ Cardinality(Users(e, k)) \in Nat
<1>1. Getters(e) \subseteq Threads /\ \A k : Users(e, k) \subseteq Threads
  BY DEF Getters, Users
<1>2. QED  BY <1>1, EnclaveAssumption, FS_Subset, FS_CardinalityType

LEMMA CardAdd ==
  ASSUME NEW S, IsFiniteSet(S), NEW x, NEW T, T \subseteq S \cup {x}
  PROVE  Cardinality(T) <= Cardinality(S) + 1 /\ Cardinality(T) \in Nat
<1>1. Cardinality(S) \in Nat  BY FS_CardinalityType
<1>2. /\ IsFiniteSet(S \cup {x})
      /\ Cardinality(S \cup {x}) = IF x \in S THEN Cardinality(S) ELSE Cardinality(S) + 1
  BY FS_AddElement
<1>3. Cardinality(T) \in Nat /\ Cardinality(T) <= Cardinality(S \cup {x})
  BY <1>2, FS_Subset, FS_CardinalityType
<1>4. QED  BY <1>1, <1>2, <1>3

LEMMA GetterCount ==
  ASSUME NEW t \in Threads, At(t, "get")
  PROVE  Cardinality(Getters(th[t].e)) > 0
<1>1. t \in Getters(th[t].e)  BY DEF Getters
<1>2. QED  BY <1>1, FinSets, FS_EmptySet

\* What a step may do to the files of an object.
LEMMA FileType ==
  ASSUME files \in [Objects -> [Kinds -> 0 .. MaxFiles]], NEW e \in Objects, NEW k \in Kinds,
         NEW n \in 0 .. MaxFiles, files' = [files EXCEPT ![e][k] = n]
  PROVE  /\ files' \in [Objects -> [Kinds -> 0 .. MaxFiles]]
         /\ files'[e][k] = n
         /\ \A j \in Kinds \ {k} : files'[e][j] = files[e][j]
         /\ \A x \in Objects \ {e} : files'[x] = files[x]
  OBVIOUS
\* The threads in open(2) and in commands, after one has moved.
LEMMA MovedSets ==
  ASSUME NEW t \in Threads, NEW place, NEW x, Moves(t, place, x), NEW e
  PROVE  /\ place # "get" \/ x # e => Getters(e)' \subseteq Getters(e)
         /\ place # "get" \/ x # e => Getters(e)' \subseteq Getters(e) \ {t}
         /\ Getters(e)' \subseteq Getters(e) \cup {t}
         /\ place \notin CtrlPcs \/ x # e => Users(e, "ctrl")' \subseteq Users(e, "ctrl")
         /\ th[t].pc \in CtrlPcs /\ x = th[t].e => Users(e, "ctrl")' \subseteq Users(e, "ctrl")
         /\ Users(e, "ctrl")' \subseteq Users(e, "ctrl") \cup {t}
<1>1. Getters(e)' = {u \in Threads : th'[u].pc = "get" /\ th'[u].e = e}
  BY DEF Getters, At
<1>2. Getters(e) = {u \in Threads : th[u].pc = "get" /\ th[u].e = e}
  BY DEF Getters, At
<1>3. Users(e, "ctrl")' = {u \in Threads : th'[u].e = e /\ th'[u].pc \in CtrlPcs}
  BY DEF Users, InCtrl, CtrlPcs
<1>4. Users(e, "ctrl") = {u \in Threads : th[u].e = e /\ th[u].pc \in CtrlPcs}
  BY DEF Users, InCtrl, CtrlPcs
<1>5. \A u \in Threads : u # t => th'[u].pc = th[u].pc /\ th'[u].e = th[u].e
  BY DEF Moves
<1>6. th'[t].pc = place /\ th'[t].e = x  BY DEF Moves
<1>7. QED  BY <1>1, <1>2, <1>3, <1>4, <1>5, <1>6

\* The counts of CallInv hold on if files and threads move the right way.
FileInv(e) ==
    /\ files[e]["dev"] + Cardinality(Getters(e)) <= MaxFiles
    /\ Cardinality(Users(e, "ctrl")) <= files[e]["ctrl"]

LEMMA CallKept ==
  ASSUME TypeOK, TypeOK', NEW e \in Objects, FileInv(e),
         Getters(e)' \subseteq Getters(e), Users(e, "ctrl")' \subseteq Users(e, "ctrl"),
         files'[e]["dev"] <= files[e]["dev"], files'[e]["ctrl"] >= files[e]["ctrl"]
  PROVE  FileInv(e)'
<1>1. Cardinality(Getters(e)') <= Cardinality(Getters(e))
      /\ Cardinality(Users(e, "ctrl")') <= Cardinality(Users(e, "ctrl"))
  BY FinSets, FS_Subset
<1>2. /\ Cardinality(Getters(e)') \in Nat /\ Cardinality(Users(e, "ctrl")') \in Nat
      /\ Cardinality(Getters(e)) \in Nat /\ Cardinality(Users(e, "ctrl")) \in Nat
  BY FinSets, FS_Subset, FS_CardinalityType
<1>3. \A k \in {"dev", "ctrl"} : files[e][k] \in Nat /\ files'[e][k] \in Nat
  BY EnclaveAssumption DEF TypeOK, Kinds, RefKinds
<1>4. QED  BY <1>1, <1>2, <1>3, EnclaveAssumption DEF FileInv

-----------------------------------------------------------------------------
(* Types.                                                                  *)

\* A thread that is somewhere is on an object.
LEMMA OnObject ==
  ASSUME TypeOK, CallInv, NEW t \in Threads, th[t].pc # "none"
  PROVE  th[t].e \in Objects /\ th[t].slot \in Slots /\ th[t] \in Calls
<1>1. th[t] \in Calls  BY DEF TypeOK
<1>2. th[t].e \in Objects \cup {None} /\ th[t].slot \in Slots  BY <1>1, CallFields
<1>3. QED  BY <1>1, <1>2 DEF CallInv

LEMMA PutType ==
  ASSUME TypeOK, NEW e \in Objects, enclave_put(e)
  PROVE  /\ refcount' \in [Objects -> Int] /\ refcount'[e] = refcount[e] - 1
         /\ \A x \in Objects \ {e} : refcount'[x] = refcount[x]
         /\ mem' \in [Objects -> BOOLEAN] /\ images' \in [Objects -> Int]
         /\ \A x \in Objects \ {e} : mem'[x] = mem[x] /\ images'[x] = images[x]
         /\ refcount[e] = 1 => ~mem'[e] /\ images'[e] = images[e] - 1
         /\ refcount[e] # 1 => mem'[e] = mem[e] /\ images'[e] = images[e]
<1>1. refcount' \in [Objects -> Int] /\ refcount'[e] = refcount[e] - 1
      /\ \A x \in Objects \ {e} : refcount'[x] = refcount[x]
  BY DEF TypeOK, enclave_put
<1>2. CASE refcount[e] = 1
  <2>1. mem' = [mem EXCEPT ![e] = FALSE]  BY <1>2 DEF enclave_put
  <2>2. mem' \in [Objects -> BOOLEAN] /\ ~mem'[e]
        /\ \A x \in Objects \ {e} : mem'[x] = mem[x]
    BY <2>1 DEF TypeOK
  <2>3. images' \in [Objects -> Int] /\ images'[e] = images[e] - 1
        /\ \A x \in Objects \ {e} : images'[x] = images[x]
    BY <1>2 DEF TypeOK, enclave_put
  <2>4. QED  BY <1>1, <1>2, <2>2, <2>3
<1>3. CASE refcount[e] # 1
  <2>1. mem' = mem /\ images' = images  BY <1>3 DEF enclave_put
  <2>2. QED  BY <1>1, <1>3, <2>1 DEF TypeOK
<1>4. QED  BY <1>2, <1>3

LEMMA TypeStep ==
  ASSUME TypeOK, CallInv, Next
  PROVE  TypeOK'
<1> USE DEF At
<1>p. Pcs = {"none", "claim", "register", "get", "setup", "boot", "r_ctrl", "r_lcall",
          "c_lock", "c_send", "f_dev", "f_proc", "f_fs", "f_lcall", "f_put"}
  BY DEF Pcs
<1>k. "dev" \in Kinds /\ "ctrl" \in Kinds /\ "proc" \in Kinds /\ "cons" \in Kinds
  BY DEF Kinds, RefKinds
<1>f. MaxFiles \in Nat  BY EnclaveAssumption
<1>t. th \in [Threads -> Calls]  BY DEF TypeOK
<1>1. ASSUME NEW t \in Threads, NEW e \in Objects, alloc_enclave_index(t, e)
      PROVE  TypeOK'
  <2>1. PICK i \in Slots :
          th' = [th EXCEPT ![t] = [Free0 EXCEPT !.pc = "claim", !.e = e, !.slot = i]]
    BY <1>1 DEF alloc_enclave_index
  <2>2. th' \in [Threads -> Calls]  BY <1>p, <1>t, <2>1, BeginSlotMoves DEF Moves
  <2>3. QED  BY <1>1, <2>2 DEF TypeOK, alloc_enclave_index, parts
<1>2. ASSUME NEW t \in Threads, NEW e \in Objects, Launch(t, e)
      PROVE  TypeOK'
  <2>1. th' \in [Threads -> Calls]  BY <1>2, <1>p, <1>t, BeginMoves DEF Launch, Moves
  <2>2. QED  BY <1>2, <2>1 DEF TypeOK, Launch, parts
<1>3. ASSUME NEW t \in Threads, NEW e \in Objects, Reset(t, e)
      PROVE  TypeOK'
  <2>1. th' \in [Threads -> Calls]  BY <1>3, <1>p, <1>t, BeginMoves DEF Reset, Moves
  <2>2. QED  BY <1>3, <2>1 DEF TypeOK, Reset, parts
<1>4. ASSUME NEW t \in Threads, NEW e \in Objects, OpenFind(t, e)
      PROVE  TypeOK'
  <2>1. th' \in [Threads -> Calls]  BY <1>4, <1>p, <1>t, BeginMoves DEF OpenFind, Moves
  <2>2. QED  BY <1>4, <2>1 DEF TypeOK, OpenFind, parts
<1>5. ASSUME NEW t \in Threads, NEW e \in Objects, CtrlBegin(t, e)
      PROVE  TypeOK'
  <2>1. desc[e] \in Descs  BY DEF TypeOK, Descs
  <2>2. th' \in [Threads -> Calls]
    BY <1>5, <1>p, <1>t, <2>1, BeginDescMoves DEF CtrlBegin, Moves
  <2>3. QED  BY <1>5, <2>2 DEF TypeOK, CtrlBegin, parts
<1>6. ASSUME NEW t \in Threads, Claim(t)
      PROVE  TypeOK'
  <2>1. th[t].e \in Objects /\ th[t].slot \in Slots  BY <1>6, OnObject DEF Claim
  <2>2. th' \in [Threads -> Calls]  BY <1>6, <1>p, <1>t, GotoMoves DEF Claim, Moves
  <2>3. QED  BY <1>6, <2>1, <2>2 DEF TypeOK, Claim, parts
<1>7. ASSUME NEW t \in Threads, ResetLcall(t)
      PROVE  TypeOK'
  <2>1. th[t].e \in Objects /\ th[t].slot \in Slots  BY <1>7, OnObject DEF ResetLcall
  <2>2. th' \in [Threads -> Calls]  BY <1>7, <1>p, <1>t, GotoMoves DEF ResetLcall, Moves
  <2>3. QED  BY <1>7, <2>1, <2>2 DEF TypeOK, ResetLcall, parts
<1>8. ASSUME NEW t \in Threads, FreeFs(t)
      PROVE  TypeOK'
  <2>1. th[t].e \in Objects /\ th[t].slot \in Slots  BY <1>8, OnObject DEF FreeFs
  <2>2. th' \in [Threads -> Calls]  BY <1>8, <1>p, <1>t, GotoMoves DEF FreeFs, Moves
  <2>3. QED  BY <1>8, <2>1, <2>2 DEF TypeOK, FreeFs, parts
<1>9. ASSUME NEW t \in Threads, FreeLcall(t)
      PROVE  TypeOK'
  <2>1. th[t].e \in Objects /\ th[t].slot \in Slots  BY <1>9, OnObject DEF FreeLcall
  <2>2. th' \in [Threads -> Calls]  BY <1>9, <1>p, <1>t, GotoMoves DEF FreeLcall, Moves
  <2>3. QED  BY <1>9, <2>1, <2>2 DEF TypeOK, FreeLcall, parts
<1>10. ASSUME NEW t \in Threads, pisces_enclave_create(t)
      PROVE  TypeOK'
  <2>1. th[t].e \in Objects /\ th[t].slot \in Slots  BY <1>10, OnObject DEF pisces_enclave_create
  <2>2. th' \in [Threads -> Calls]  BY <1>10, <1>t, ReturnMoves DEF pisces_enclave_create, Moves
  <2>3. dev' \in [Objects -> BOOLEAN] /\ mem' \in [Objects -> BOOLEAN]
    <3>1. PICK ok \in BOOLEAN : /\ dev' = [dev EXCEPT ![th[t].e] = ok]
                                /\ mem' = [mem EXCEPT ![th[t].e] = ok]
      BY <1>10 DEF pisces_enclave_create
    <3>2. QED  BY <3>1 DEF TypeOK
  <2>4. QED  BY <1>10, <2>1, <2>2, <2>3 DEF TypeOK, pisces_enclave_create
<1>11. ASSUME NEW t \in Threads, enclave_open(t)
      PROVE  TypeOK'
  <2>1. th[t].e \in Objects /\ th[t].slot \in Slots  BY <1>11, OnObject DEF enclave_open
  <2>2. th' \in [Threads -> Calls]  BY <1>11, <1>t, ReturnMoves DEF enclave_open, Moves
  <2>3. files[th[t].e]["dev"] + 1 \in 0 .. MaxFiles
    BY <1>11, <1>k, <1>f, <2>1, GetterCount, FinSets DEF TypeOK, CallInv, enclave_open
  <2>4. files' \in [Objects -> [Kinds -> 0 .. MaxFiles]]
    BY <1>11, <1>k, <2>1, <2>3 DEF TypeOK, enclave_open
  <2>5. QED  BY <1>11, <2>1, <2>2, <2>4 DEF TypeOK, enclave_open, enclave_get, parts
<1>12. ASSUME NEW t \in Threads, setup_boot_params(t)
      PROVE  TypeOK'
  <2>1. th[t].e \in Objects /\ th[t].slot \in Slots  BY <1>12, OnObject DEF setup_boot_params
  <2>2. th' \in [Threads -> Calls]
    BY <1>12, <1>p, <1>t, GotoMoves, ReturnMoves DEF setup_boot_params, Moves
  <2>3. images' \in [Objects -> Int]  BY <1>12, <2>1 DEF TypeOK, setup_boot_params
  <2>4. lcall' \in [Objects -> {"none", "idle", "busy"}]
    BY <1>12, <2>1 DEF TypeOK, setup_boot_params
  <2>5. QED  BY <1>12, <2>1, <2>2, <2>3, <2>4 DEF TypeOK, setup_boot_params
<1>13. ASSUME NEW t \in Threads, boot_enclave(t)
      PROVE  TypeOK'
  <2>1. th[t].e \in Objects /\ th[t].slot \in Slots  BY <1>13, OnObject DEF boot_enclave
  <2>2. th' \in [Threads -> Calls]  BY <1>13, <1>t, ReturnMoves DEF boot_enclave, Moves
  <2>3. QED  BY <1>13, <2>1, <2>2 DEF TypeOK, boot_enclave
<1>14. ASSUME NEW t \in Threads, ResetCtrl(t)
      PROVE  TypeOK'
  <2>1. th[t].e \in Objects /\ th[t].slot \in Slots  BY <1>14, OnObject DEF ResetCtrl
  <2>2. th' \in [Threads -> Calls]  BY <1>14, <1>p, <1>t, DeinitMoves DEF ResetCtrl, Moves
  <2>3. QED  BY <1>14, <2>1, <2>2 DEF TypeOK, ResetCtrl, pisces_ctrl_deinit
<1>15. ASSUME NEW t \in Threads, FreeDev(t)
      PROVE  TypeOK'
  <2>1. th[t].e \in Objects /\ th[t].slot \in Slots  BY <1>15, OnObject DEF FreeDev
  <2>2. th' \in [Threads -> Calls]  BY <1>15, <1>p, <1>t, DeinitMoves DEF FreeDev, Moves
  <2>3. QED  BY <1>15, <2>1, <2>2 DEF TypeOK, FreeDev, pisces_ctrl_deinit
<1>16. ASSUME NEW t \in Threads, CtrlLock(t)
      PROVE  TypeOK'
  <2>1. th' \in [Threads -> Calls]
    BY <1>16, <1>p, <1>t, GotoMoves, ReturnMoves DEF CtrlLock, Moves
  <2>2. QED  BY <1>16, <2>1 DEF TypeOK, CtrlLock, parts
<1>17. ASSUME NEW t \in Threads, CtrlSend(t)
      PROVE  TypeOK'
  <2>1. th[t].e \in Objects /\ th[t].slot \in Slots  BY <1>17, OnObject DEF CtrlSend
  <2>2. th' \in [Threads -> Calls]  BY <1>17, <1>t, ReturnMoves DEF CtrlSend, Moves
  <2>3. QED  BY <1>17, <2>1, <2>2 DEF TypeOK, CtrlSend
<1>18. ASSUME NEW t \in Threads, FreeProc(t)
      PROVE  TypeOK'
  <2>1. th[t].e \in Objects /\ th[t].slot \in Slots  BY <1>18, OnObject DEF FreeProc
  <2>2. th' \in [Threads -> Calls]  BY <1>18, <1>p, <1>t, GotoMoves DEF FreeProc, Moves
  <2>3. files' \in [Objects -> [Kinds -> 0 .. MaxFiles]]
    BY <1>18, <1>k, <1>f, <2>1 DEF TypeOK, FreeProc
  <2>4. refcount' \in [Objects -> Int]  BY <1>18, <1>k, <1>f, <2>1 DEF TypeOK, FreeProc
  <2>5. QED  BY <1>18, <2>1, <2>2, <2>3, <2>4 DEF TypeOK, FreeProc, parts
<1>19. ASSUME NEW t \in Threads, FreePut(t)
      PROVE  TypeOK'
  <2>1. th[t].e \in Objects /\ th[t].slot \in Slots  BY <1>19, OnObject DEF FreePut
  <2>2. th' \in [Threads -> Calls]  BY <1>19, <1>t, ReturnMoves DEF FreePut, Moves
  <2>3. QED  BY <1>19, <2>1, <2>2, PutType DEF TypeOK, FreePut
<1>20. ASSUME NEW t \in Threads, NEW i \in Slots, pisces_enclave_free(t, i)
      PROVE  TypeOK'
  <2>1. enclave_map[i] \in Objects  BY <1>20 DEF TypeOK, pisces_enclave_free
  <2>2. th' \in [Threads -> Calls]
    BY <1>20, <1>p, <1>t, <2>1, BeginMoves DEF pisces_enclave_free, Moves
  <2>3. QED  BY <1>20, <2>1, <2>2 DEF TypeOK, pisces_enclave_free, parts
<1>21. ASSUME NEW e \in Objects, proc_open(e)
      PROVE  TypeOK'
  <2>1. files' \in [Objects -> [Kinds -> 0 .. MaxFiles]]
    BY <1>21, <1>k, <1>f DEF TypeOK, proc_open
  <2>2. QED  BY <1>21, <2>1 DEF TypeOK, proc_open, enclave_get, parts
<1>22. ASSUME NEW e \in Objects, pisces_ctrl_connect(e)
      PROVE  TypeOK'
  <2>1. files' \in [Objects -> [Kinds -> 0 .. MaxFiles]]
    <3>1. files[e]["ctrl"] + 1 \in 0 .. MaxFiles
      BY <1>22, <1>k, <1>f DEF TypeOK, pisces_ctrl_connect
    <3>2. CASE files' = files  BY <3>2 DEF TypeOK
    <3>3. CASE files' = [files EXCEPT ![e]["ctrl"] = files[e]["ctrl"] + 1]
      BY <1>k, <3>1, <3>3 DEF TypeOK
    <3>4. QED  BY <1>22, <3>2, <3>3 DEF pisces_ctrl_connect
  <2>2. QED  BY <1>22, <2>1 DEF TypeOK, pisces_ctrl_connect, enclave_get, parts
<1>23. ASSUME NEW e \in Objects, pisces_cons_connect(e)
      PROVE  TypeOK'
  <2>1. files' \in [Objects -> [Kinds -> 0 .. MaxFiles]]
    BY <1>23, <1>k, <1>f DEF TypeOK, pisces_cons_connect
  <2>2. QED  BY <1>23, <2>1 DEF TypeOK, pisces_cons_connect, enclave_get, parts
<1>24. ASSUME NEW e \in Objects, ReleaseCons(e)
      PROVE  TypeOK'
  <2>1. files' \in [Objects -> [Kinds -> 0 .. MaxFiles]]
    BY <1>24, <1>k, <1>f DEF TypeOK, ReleaseCons
  <2>2. QED  BY <1>24, <2>1 DEF TypeOK, ReleaseCons, parts
<1>25. ASSUME NEW e \in Objects, LcallBegin(e)
      PROVE  TypeOK'
  BY <1>25 DEF TypeOK, LcallBegin
<1>26. ASSUME NEW e \in Objects, LcallEnd(e)
      PROVE  TypeOK'
  BY <1>26 DEF TypeOK, LcallEnd
<1>27. ASSUME NEW e \in Objects, NEW kind \in RefKinds, ReleaseRef(e, kind)
      PROVE  TypeOK'
  <2>1. kind \in Kinds  BY DEF Kinds
  <2>2. files[e][kind] - 1 \in 0 .. MaxFiles
    <3>1. files[e][kind] \in 0 .. MaxFiles  BY <2>1 DEF TypeOK
    <3>2. files[e][kind] > Cardinality(Users(e, kind))  BY <1>27 DEF ReleaseRef
    <3>3. Cardinality(Users(e, kind)) \in Nat  BY FinSets
    <3>4. QED  BY <1>f, <3>1, <3>2, <3>3
  <2>3. files' \in [Objects -> [Kinds -> 0 .. MaxFiles]]
    BY <1>27, <2>1, <2>2 DEF TypeOK, ReleaseRef
  <2>4. QED  BY <1>27, <2>3, PutType DEF TypeOK, ReleaseRef
<1>28. QED  BY <1>1, <1>2, <1>3, <1>4, <1>5, <1>6, <1>7, <1>8, <1>9, <1>10, <1>11, <1>12, <1>13, <1>14, <1>15, <1>16, <1>17, <1>18, <1>19, <1>20, <1>21, <1>22, <1>23, <1>24, <1>25, <1>26, <1>27 DEF Next

LEMMA CallStep ==
  ASSUME TypeOK, CallInv, Next
  PROVE  CallInv'
<1> USE DEF At
<1>p. Pcs = {"none", "claim", "register", "get", "setup", "boot", "r_ctrl", "r_lcall",
          "c_lock", "c_send", "f_dev", "f_proc", "f_fs", "f_lcall", "f_put"}
  BY DEF Pcs
<1>c. CtrlPcs = {"c_lock", "c_send"}  BY DEF CtrlPcs
<1>f. MaxFiles \in Nat /\ None \notin Objects  BY EnclaveAssumption
<1>t. th \in [Threads -> Calls]  BY DEF TypeOK
<1>v. \A x \in Objects : FileInv(x)  BY DEF CallInv, FileInv
<1>y. TypeOK'  BY TypeStep
<1>n. \A u \in Threads : th[u].pc = "none" <=> th[u].e = None  BY DEF CallInv
<1> DEFINE Goal == /\ \A u \in Threads : th'[u].pc = "none" <=> th'[u].e = None
                   /\ \A x \in Objects : FileInv(x)'
<1>s. \A x \in Objects : /\ files[x] \in [Kinds -> Nat] /\ files'[x] \in [Kinds -> Nat]
                         /\ files[x]["dev"] \in Nat /\ files[x]["ctrl"] \in Nat
  BY <1>y, <1>f DEF TypeOK, Kinds, RefKinds
<1>1. ASSUME NEW t \in Threads, NEW e \in Objects, alloc_enclave_index(t, e)
      PROVE  Goal
  <2>1. Moves(t, "claim", e)  BY <1>1, <1>p, <1>t, BeginSlotMoves DEF alloc_enclave_index
  <2>2. \A u \in Threads : th'[u].pc = "none" <=> th'[u].e = None
    BY <1>1, <1>f, <1>n, <2>1 DEF alloc_enclave_index, Moves
  <2>3. \A x \in Objects : files'[x]["dev"] <= files[x]["dev"] /\ files'[x]["ctrl"] >= files[x]["ctrl"]
    BY <1>1, <1>s DEF alloc_enclave_index
  <2>4. \A x : Getters(x)' \subseteq Getters(x) /\ Users(x, "ctrl")' \subseteq Users(x, "ctrl")
    BY <1>1, <1>c, <2>1, MovedSets DEF alloc_enclave_index
  <2>5. QED  BY <1>v, <1>y, <2>2, <2>3, <2>4, CallKept
<1>2. ASSUME NEW t \in Threads, NEW e \in Objects, OpenFind(t, e)
      PROVE  Goal
  <2>1. Moves(t, "get", e)  BY <1>2, <1>p, <1>t, BeginMoves DEF OpenFind
  <2>2. \A u \in Threads : th'[u].pc = "none" <=> th'[u].e = None
    BY <1>2, <1>f, <1>n, <2>1 DEF OpenFind, Moves
  <2>3. files' = files /\ files[e]["dev"] + Cardinality(Getters(e)) < MaxFiles
    BY <1>2 DEF OpenFind, Getters
  <2>4. \A x : Users(x, "ctrl")' \subseteq Users(x, "ctrl")  BY <1>c, <2>1, MovedSets
  <2>5. \A x : x # e => Getters(x)' \subseteq Getters(x)  BY <2>1, MovedSets
  <2>6. FileInv(e)'
    <3>1. Getters(e)' \subseteq Getters(e) \cup {t}  BY <2>1, MovedSets
    <3>3. Cardinality(Getters(e)') <= Cardinality(Getters(e)) + 1
          /\ Cardinality(Getters(e)') \in Nat
      BY <3>1, FinSets, CardAdd
    <3>4. Cardinality(Users(e, "ctrl")') <= Cardinality(Users(e, "ctrl"))
          /\ Cardinality(Users(e, "ctrl")') \in Nat
      BY <2>4, FinSets, FS_Subset, FS_CardinalityType
    <3>5. QED  BY <1>v, <1>s, <1>f, <2>3, <3>3, <3>4, FinSets DEF FileInv
  <2>7. \A x \in Objects : x # e => FileInv(x)'
    <3>1. SUFFICES ASSUME NEW x \in Objects, x # e  PROVE FileInv(x)'  OBVIOUS
    <3>2. files'[x]["dev"] <= files[x]["dev"] /\ files'[x]["ctrl"] >= files[x]["ctrl"]
      BY <1>s, <2>3
    <3>3. QED  BY <1>v, <1>y, <2>4, <2>5, <3>1, <3>2, CallKept
  <2>9. QED  BY <2>2, <2>6, <2>7
<1>3. ASSUME NEW t \in Threads, NEW e \in Objects, Launch(t, e)
      PROVE  Goal
  <2>1. Moves(t, "setup", e)  BY <1>3, <1>p, <1>t, BeginMoves DEF Launch
  <2>2. \A u \in Threads : th'[u].pc = "none" <=> th'[u].e = None
    BY <1>3, <1>f, <1>n, <2>1 DEF Launch, Moves
  <2>3. \A x \in Objects : files'[x]["dev"] <= files[x]["dev"] /\ files'[x]["ctrl"] >= files[x]["ctrl"]
    BY <1>3, <1>s DEF Launch
  <2>4. \A x : Getters(x)' \subseteq Getters(x) /\ Users(x, "ctrl")' \subseteq Users(x, "ctrl")
    BY <1>3, <1>c, <2>1, MovedSets DEF Launch
  <2>5. QED  BY <1>v, <1>y, <2>2, <2>3, <2>4, CallKept
<1>4. ASSUME NEW t \in Threads, NEW e \in Objects, Reset(t, e)
      PROVE  Goal
  <2>1. Moves(t, "r_ctrl", e)  BY <1>4, <1>p, <1>t, BeginMoves DEF Reset
  <2>2. \A u \in Threads : th'[u].pc = "none" <=> th'[u].e = None
    BY <1>4, <1>f, <1>n, <2>1 DEF Reset, Moves
  <2>3. \A x \in Objects : files'[x]["dev"] <= files[x]["dev"] /\ files'[x]["ctrl"] >= files[x]["ctrl"]
    BY <1>4, <1>s DEF Reset
  <2>4. \A x : Getters(x)' \subseteq Getters(x) /\ Users(x, "ctrl")' \subseteq Users(x, "ctrl")
    BY <1>4, <1>c, <2>1, MovedSets DEF Reset
  <2>5. QED  BY <1>v, <1>y, <2>2, <2>3, <2>4, CallKept
<1>5. ASSUME NEW t \in Threads, NEW e \in Objects, CtrlBegin(t, e)
      PROVE  Goal
  <2>1. Moves(t, "c_lock", e)  BY <1>5, <1>p, <1>t, BeginDescMoves DEF CtrlBegin, TypeOK, Descs
  <2>2. \A u \in Threads : th'[u].pc = "none" <=> th'[u].e = None
    BY <1>5, <1>f, <1>n, <2>1 DEF CtrlBegin, Moves
  <2>3. files' = files /\ files[e]["ctrl"] > Cardinality(Users(e, "ctrl"))
    BY <1>5 DEF CtrlBegin
  <2>4. \A x : Getters(x)' \subseteq Getters(x)  BY <2>1, MovedSets
  <2>5. \A x : x # e => Users(x, "ctrl")' \subseteq Users(x, "ctrl")  BY <2>1, MovedSets
  <2>6. FileInv(e)'
    <3>1. Users(e, "ctrl")' \subseteq Users(e, "ctrl") \cup {t}  BY <2>1, MovedSets
    <3>2. IsFiniteSet(Users(e, "ctrl"))  BY FinSets
    <3>3. Cardinality(Users(e, "ctrl")') <= Cardinality(Users(e, "ctrl")) + 1
          /\ Cardinality(Users(e, "ctrl")') \in Nat
      BY <3>1, <3>2, CardAdd
    <3>4. Cardinality(Getters(e)') <= Cardinality(Getters(e))
          /\ Cardinality(Getters(e)') \in Nat
      BY <2>4, FinSets, FS_Subset, FS_CardinalityType
    <3>5. QED  BY <1>v, <1>s, <1>f, <2>3, <3>3, <3>4, FinSets DEF FileInv
  <2>7. \A x \in Objects : x # e => FileInv(x)'
    <3>1. SUFFICES ASSUME NEW x \in Objects, x # e  PROVE FileInv(x)'  OBVIOUS
    <3>2. files'[x]["dev"] <= files[x]["dev"] /\ files'[x]["ctrl"] >= files[x]["ctrl"]
      BY <1>s, <2>3
    <3>3. QED  BY <1>v, <1>y, <2>4, <2>5, <3>1, <3>2, CallKept
  <2>9. QED  BY <2>2, <2>6, <2>7
<1>6. ASSUME NEW t \in Threads, Claim(t)
      PROVE  Goal
  <2>1. Moves(t, "register", th[t].e)  BY <1>6, <1>p, <1>t, GotoMoves DEF Claim
  <2>2. \A u \in Threads : th'[u].pc = "none" <=> th'[u].e = None
    BY <1>6, <1>f, <1>n, <2>1 DEF Claim, Moves
  <2>3. \A x \in Objects : files'[x]["dev"] <= files[x]["dev"] /\ files'[x]["ctrl"] >= files[x]["ctrl"]
    BY <1>6, <1>s DEF Claim
  <2>4. \A x : Getters(x)' \subseteq Getters(x) /\ Users(x, "ctrl")' \subseteq Users(x, "ctrl")
    BY <1>6, <1>c, <2>1, MovedSets DEF Claim
  <2>5. QED  BY <1>v, <1>y, <2>2, <2>3, <2>4, CallKept
<1>7. ASSUME NEW t \in Threads, pisces_enclave_create(t)
      PROVE  Goal
  <2>1. Moves(t, "none", None)  BY <1>7, <1>t, ReturnMoves DEF pisces_enclave_create
  <2>2. \A u \in Threads : th'[u].pc = "none" <=> th'[u].e = None
    BY <1>7, <1>f, <1>n, <2>1 DEF pisces_enclave_create, Moves
  <2>3. \A x \in Objects : files'[x]["dev"] <= files[x]["dev"] /\ files'[x]["ctrl"] >= files[x]["ctrl"]
    BY <1>7, <1>s DEF pisces_enclave_create
  <2>4. \A x : Getters(x)' \subseteq Getters(x) /\ Users(x, "ctrl")' \subseteq Users(x, "ctrl")
    BY <1>7, <1>c, <2>1, MovedSets DEF pisces_enclave_create
  <2>5. QED  BY <1>v, <1>y, <2>2, <2>3, <2>4, CallKept
<1>8. ASSUME NEW t \in Threads, enclave_open(t)
      PROVE  Goal
  <2>1. Moves(t, "none", None)  BY <1>8, <1>t, ReturnMoves DEF enclave_open
  <2>2. \A u \in Threads : th'[u].pc = "none" <=> th'[u].e = None
    BY <1>8, <1>f, <1>n, <2>1 DEF enclave_open, Moves
  <2>0. PICK e \in Objects : e = th[t].e  BY <1>8, OnObject DEF enclave_open
  <2>3. t \in Getters(e)  BY <1>8, <2>0 DEF enclave_open, Getters
  <2>4. /\ files'[e]["dev"] = files[e]["dev"] + 1
        /\ files'[e]["ctrl"] = files[e]["ctrl"]
        /\ \A x \in Objects : x # e => files'[x] = files[x]
    BY <1>8, <2>0 DEF enclave_open, TypeOK, Kinds, RefKinds
  <2>5. \A x : Getters(x)' \subseteq Getters(x) \ {t}  BY <2>1, MovedSets
  <2>6. \A x : Users(x, "ctrl")' \subseteq Users(x, "ctrl")  BY <1>c, <2>1, MovedSets
  <2>7. FileInv(e)'
    <3>1. Cardinality(Getters(e) \ {t}) = Cardinality(Getters(e)) - 1
          /\ IsFiniteSet(Getters(e) \ {t})
      BY <2>3, FinSets, FS_RemoveElement
    <3>2. Cardinality(Getters(e)') <= Cardinality(Getters(e)) - 1
          /\ Cardinality(Getters(e)') \in Nat
      BY <2>5, <3>1, FS_Subset, FS_CardinalityType, FinSets
    <3>3. Cardinality(Users(e, "ctrl")') <= Cardinality(Users(e, "ctrl"))
          /\ Cardinality(Users(e, "ctrl")') \in Nat
      BY <2>6, FinSets, FS_Subset, FS_CardinalityType
    <3>4. QED  BY <1>v, <1>s, <1>f, <2>3, <2>4, <3>2, <3>3, FinSets DEF FileInv
  <2>8. \A x \in Objects : x # e => FileInv(x)'
    <3>1. SUFFICES ASSUME NEW x \in Objects, x # e  PROVE FileInv(x)'  OBVIOUS
    <3>2. files'[x]["dev"] <= files[x]["dev"] /\ files'[x]["ctrl"] >= files[x]["ctrl"]
      BY <1>s, <2>4, <3>1
    <3>3. Getters(x)' \subseteq Getters(x)  BY <2>5
    <3>4. QED  BY <1>v, <1>y, <2>6, <3>1, <3>2, <3>3, CallKept
  <2>9. QED  BY <2>2, <2>7, <2>8
<1>9. ASSUME NEW t \in Threads, setup_boot_params(t)
      PROVE  Goal
  <2>1. Moves(t, "none", None) \/ Moves(t, "boot", th[t].e)
    BY <1>9, <1>p, <1>t, GotoMoves, ReturnMoves DEF setup_boot_params
  <2>2. \A u \in Threads : th'[u].pc = "none" <=> th'[u].e = None
    BY <1>9, <1>f, <1>n, <2>1 DEF setup_boot_params, Moves
  <2>3. \A x \in Objects : files'[x]["dev"] <= files[x]["dev"] /\ files'[x]["ctrl"] >= files[x]["ctrl"]
    BY <1>9, <1>s DEF setup_boot_params
  <2>4. \A x : Getters(x)' \subseteq Getters(x) /\ Users(x, "ctrl")' \subseteq Users(x, "ctrl")
    BY <1>9, <1>c, <2>1, MovedSets DEF setup_boot_params
  <2>5. QED  BY <1>v, <1>y, <2>2, <2>3, <2>4, CallKept
<1>10. ASSUME NEW t \in Threads, boot_enclave(t)
      PROVE  Goal
  <2>1. Moves(t, "none", None)  BY <1>10, <1>t, ReturnMoves DEF boot_enclave
  <2>2. \A u \in Threads : th'[u].pc = "none" <=> th'[u].e = None
    BY <1>10, <1>f, <1>n, <2>1 DEF boot_enclave, Moves
  <2>3. \A x \in Objects : files'[x]["dev"] <= files[x]["dev"] /\ files'[x]["ctrl"] >= files[x]["ctrl"]
    BY <1>10, <1>s DEF boot_enclave
  <2>4. \A x : Getters(x)' \subseteq Getters(x) /\ Users(x, "ctrl")' \subseteq Users(x, "ctrl")
    BY <1>10, <1>c, <2>1, MovedSets DEF boot_enclave
  <2>5. QED  BY <1>v, <1>y, <2>2, <2>3, <2>4, CallKept
<1>11. ASSUME NEW t \in Threads, ResetCtrl(t)
      PROVE  Goal
  <2>1. Moves(t, "r_lcall", th[t].e)  BY <1>11, <1>p, <1>t, DeinitMoves DEF ResetCtrl
  <2>2. \A u \in Threads : th'[u].pc = "none" <=> th'[u].e = None
    BY <1>11, <1>f, <1>n, <2>1 DEF ResetCtrl, Moves
  <2>3. \A x \in Objects : files'[x]["dev"] <= files[x]["dev"] /\ files'[x]["ctrl"] >= files[x]["ctrl"]
    BY <1>11, <1>s DEF ResetCtrl
  <2>4. \A x : Getters(x)' \subseteq Getters(x) /\ Users(x, "ctrl")' \subseteq Users(x, "ctrl")
    BY <1>11, <1>c, <2>1, MovedSets DEF ResetCtrl
  <2>5. QED  BY <1>v, <1>y, <2>2, <2>3, <2>4, CallKept
<1>12. ASSUME NEW t \in Threads, ResetLcall(t)
      PROVE  Goal
  <2>1. Moves(t, "setup", th[t].e)  BY <1>12, <1>p, <1>t, GotoMoves DEF ResetLcall
  <2>2. \A u \in Threads : th'[u].pc = "none" <=> th'[u].e = None
    BY <1>12, <1>f, <1>n, <2>1 DEF ResetLcall, Moves
  <2>3. \A x \in Objects : files'[x]["dev"] <= files[x]["dev"] /\ files'[x]["ctrl"] >= files[x]["ctrl"]
    BY <1>12, <1>s DEF ResetLcall
  <2>4. \A x : Getters(x)' \subseteq Getters(x) /\ Users(x, "ctrl")' \subseteq Users(x, "ctrl")
    BY <1>12, <1>c, <2>1, MovedSets DEF ResetLcall
  <2>5. QED  BY <1>v, <1>y, <2>2, <2>3, <2>4, CallKept
<1>13. ASSUME NEW t \in Threads, CtrlLock(t)
      PROVE  Goal
  <2>1. Moves(t, "none", None) \/ Moves(t, "c_send", th[t].e)
    BY <1>13, <1>p, <1>t, GotoMoves, ReturnMoves DEF CtrlLock
  <2>2. \A u \in Threads : th'[u].pc = "none" <=> th'[u].e = None
    BY <1>13, <1>f, <1>n, <2>1 DEF CtrlLock, Moves
  <2>3. \A x \in Objects : files'[x]["dev"] <= files[x]["dev"] /\ files'[x]["ctrl"] >= files[x]["ctrl"]
    BY <1>13, <1>s DEF CtrlLock
  <2>4. \A x : Getters(x)' \subseteq Getters(x) /\ Users(x, "ctrl")' \subseteq Users(x, "ctrl")
    BY <1>13, <1>c, <2>1, MovedSets DEF CtrlLock
  <2>5. QED  BY <1>v, <1>y, <2>2, <2>3, <2>4, CallKept
<1>14. ASSUME NEW t \in Threads, CtrlSend(t)
      PROVE  Goal
  <2>1. Moves(t, "none", None)  BY <1>14, <1>t, ReturnMoves DEF CtrlSend
  <2>2. \A u \in Threads : th'[u].pc = "none" <=> th'[u].e = None
    BY <1>14, <1>f, <1>n, <2>1 DEF CtrlSend, Moves
  <2>3. \A x \in Objects : files'[x]["dev"] <= files[x]["dev"] /\ files'[x]["ctrl"] >= files[x]["ctrl"]
    BY <1>14, <1>s DEF CtrlSend
  <2>4. \A x : Getters(x)' \subseteq Getters(x) /\ Users(x, "ctrl")' \subseteq Users(x, "ctrl")
    BY <1>14, <1>c, <2>1, MovedSets DEF CtrlSend
  <2>5. QED  BY <1>v, <1>y, <2>2, <2>3, <2>4, CallKept
<1>15. ASSUME NEW t \in Threads, FreeDev(t)
      PROVE  Goal
  <2>1. Moves(t, "f_proc", th[t].e)  BY <1>15, <1>p, <1>t, DeinitMoves DEF FreeDev
  <2>2. \A u \in Threads : th'[u].pc = "none" <=> th'[u].e = None
    BY <1>15, <1>f, <1>n, <2>1 DEF FreeDev, Moves
  <2>3. \A x \in Objects : files'[x]["dev"] <= files[x]["dev"] /\ files'[x]["ctrl"] >= files[x]["ctrl"]
    BY <1>15, <1>s DEF FreeDev
  <2>4. \A x : Getters(x)' \subseteq Getters(x) /\ Users(x, "ctrl")' \subseteq Users(x, "ctrl")
    BY <1>15, <1>c, <2>1, MovedSets DEF FreeDev
  <2>5. QED  BY <1>v, <1>y, <2>2, <2>3, <2>4, CallKept
<1>16. ASSUME NEW t \in Threads, FreeProc(t)
      PROVE  Goal
  <2>1. Moves(t, "f_fs", th[t].e)  BY <1>16, <1>p, <1>t, GotoMoves DEF FreeProc
  <2>2. \A u \in Threads : th'[u].pc = "none" <=> th'[u].e = None
    BY <1>16, <1>f, <1>n, <2>1 DEF FreeProc, Moves
  <2>3. \A x \in Objects : files'[x]["dev"] <= files[x]["dev"] /\ files'[x]["ctrl"] >= files[x]["ctrl"]
    BY <1>16, <1>s DEF FreeProc, TypeOK, Kinds, RefKinds
  <2>4. \A x : Getters(x)' \subseteq Getters(x) /\ Users(x, "ctrl")' \subseteq Users(x, "ctrl")
    BY <1>16, <1>c, <2>1, MovedSets DEF FreeProc
  <2>5. QED  BY <1>v, <1>y, <2>2, <2>3, <2>4, CallKept
<1>17. ASSUME NEW t \in Threads, FreeFs(t)
      PROVE  Goal
  <2>1. Moves(t, "f_lcall", th[t].e)  BY <1>17, <1>p, <1>t, GotoMoves DEF FreeFs
  <2>2. \A u \in Threads : th'[u].pc = "none" <=> th'[u].e = None
    BY <1>17, <1>f, <1>n, <2>1 DEF FreeFs, Moves
  <2>3. \A x \in Objects : files'[x]["dev"] <= files[x]["dev"] /\ files'[x]["ctrl"] >= files[x]["ctrl"]
    BY <1>17, <1>s DEF FreeFs
  <2>4. \A x : Getters(x)' \subseteq Getters(x) /\ Users(x, "ctrl")' \subseteq Users(x, "ctrl")
    BY <1>17, <1>c, <2>1, MovedSets DEF FreeFs
  <2>5. QED  BY <1>v, <1>y, <2>2, <2>3, <2>4, CallKept
<1>18. ASSUME NEW t \in Threads, FreeLcall(t)
      PROVE  Goal
  <2>1. Moves(t, "f_put", th[t].e)  BY <1>18, <1>p, <1>t, GotoMoves DEF FreeLcall
  <2>2. \A u \in Threads : th'[u].pc = "none" <=> th'[u].e = None
    BY <1>18, <1>f, <1>n, <2>1 DEF FreeLcall, Moves
  <2>3. \A x \in Objects : files'[x]["dev"] <= files[x]["dev"] /\ files'[x]["ctrl"] >= files[x]["ctrl"]
    BY <1>18, <1>s DEF FreeLcall
  <2>4. \A x : Getters(x)' \subseteq Getters(x) /\ Users(x, "ctrl")' \subseteq Users(x, "ctrl")
    BY <1>18, <1>c, <2>1, MovedSets DEF FreeLcall
  <2>5. QED  BY <1>v, <1>y, <2>2, <2>3, <2>4, CallKept
<1>19. ASSUME NEW t \in Threads, FreePut(t)
      PROVE  Goal
  <2>1. Moves(t, "none", None)  BY <1>19, <1>t, ReturnMoves DEF FreePut
  <2>2. \A u \in Threads : th'[u].pc = "none" <=> th'[u].e = None
    BY <1>19, <1>f, <1>n, <2>1 DEF FreePut, Moves
  <2>3. \A x \in Objects : files'[x]["dev"] <= files[x]["dev"] /\ files'[x]["ctrl"] >= files[x]["ctrl"]
    BY <1>19, <1>s DEF FreePut
  <2>4. \A x : Getters(x)' \subseteq Getters(x) /\ Users(x, "ctrl")' \subseteq Users(x, "ctrl")
    BY <1>19, <1>c, <2>1, MovedSets DEF FreePut
  <2>5. QED  BY <1>v, <1>y, <2>2, <2>3, <2>4, CallKept
<1>20. ASSUME NEW t \in Threads, NEW i \in Slots, pisces_enclave_free(t, i)
      PROVE  Goal
  <2>1. enclave_map[i] \in Objects  BY <1>20 DEF TypeOK, pisces_enclave_free
  <2>2. Moves(t, "f_dev", enclave_map[i])  BY <1>20, <1>p, <1>t, <2>1, BeginMoves DEF pisces_enclave_free
  <2>3. \A u \in Threads : th'[u].pc = "none" <=> th'[u].e = None
    BY <1>20, <1>f, <1>n, <2>1, <2>2 DEF pisces_enclave_free, Moves
  <2>4. \A x \in Objects : files'[x]["dev"] <= files[x]["dev"] /\ files'[x]["ctrl"] >= files[x]["ctrl"]
    BY <1>20, <1>s DEF pisces_enclave_free
  <2>5. \A x : Getters(x)' \subseteq Getters(x) /\ Users(x, "ctrl")' \subseteq Users(x, "ctrl")
    BY <1>20, <1>c, <2>2, MovedSets DEF pisces_enclave_free
  <2>6. QED  BY <1>v, <1>y, <2>3, <2>4, <2>5, CallKept
<1>21. ASSUME NEW e \in Objects, proc_open(e)
      PROVE  Goal
  <2>1. th' = th  BY <1>21 DEF proc_open
  <2>3. \A x \in Objects : files'[x]["dev"] <= files[x]["dev"] /\ files'[x]["ctrl"] >= files[x]["ctrl"]
    BY <1>21, <1>s DEF proc_open, TypeOK, Kinds, RefKinds
  <2>4. \A x : Getters(x)' = Getters(x) /\ Users(x, "ctrl")' = Users(x, "ctrl")
    BY <2>1 DEF Getters, Users, InCtrl, InReset
  <2>5. QED  BY <1>v, <1>y, <1>n, <2>1, <2>3, <2>4, CallKept
<1>22. ASSUME NEW e \in Objects, pisces_ctrl_connect(e)
      PROVE  Goal
  <2>1. th' = th  BY <1>22 DEF pisces_ctrl_connect
  <2>2. files' = files \/ files' = [files EXCEPT ![e]["ctrl"] = @ + 1]
    BY <1>22 DEF pisces_ctrl_connect
  <2>3. \A x \in Objects : files'[x]["dev"] <= files[x]["dev"] /\ files'[x]["ctrl"] >= files[x]["ctrl"]
    <3>1. CASE files' = files  BY <1>s, <3>1
    <3>2. CASE files' = [files EXCEPT ![e]["ctrl"] = @ + 1]
      BY <1>s, <3>2 DEF TypeOK, Kinds, RefKinds
    <3>3. QED  BY <2>2, <3>1, <3>2
  <2>4. \A x : Getters(x)' = Getters(x) /\ Users(x, "ctrl")' = Users(x, "ctrl")
    BY <2>1 DEF Getters, Users, InCtrl, InReset
  <2>5. QED  BY <1>v, <1>y, <1>n, <2>1, <2>3, <2>4, CallKept
<1>23. ASSUME NEW e \in Objects, pisces_cons_connect(e)
      PROVE  Goal
  <2>1. th' = th  BY <1>23 DEF pisces_cons_connect
  <2>3. \A x \in Objects : files'[x]["dev"] <= files[x]["dev"] /\ files'[x]["ctrl"] >= files[x]["ctrl"]
    BY <1>23, <1>s DEF pisces_cons_connect, TypeOK, Kinds, RefKinds
  <2>4. \A x : Getters(x)' = Getters(x) /\ Users(x, "ctrl")' = Users(x, "ctrl")
    BY <2>1 DEF Getters, Users, InCtrl, InReset
  <2>5. QED  BY <1>v, <1>y, <1>n, <2>1, <2>3, <2>4, CallKept
<1>24. ASSUME NEW e \in Objects, ReleaseCons(e)
      PROVE  Goal
  <2>1. th' = th  BY <1>24 DEF ReleaseCons
  <2>3. \A x \in Objects : files'[x]["dev"] <= files[x]["dev"] /\ files'[x]["ctrl"] >= files[x]["ctrl"]
    BY <1>24, <1>s DEF ReleaseCons, TypeOK, Kinds, RefKinds
  <2>4. \A x : Getters(x)' = Getters(x) /\ Users(x, "ctrl")' = Users(x, "ctrl")
    BY <2>1 DEF Getters, Users, InCtrl, InReset
  <2>5. QED  BY <1>v, <1>y, <1>n, <2>1, <2>3, <2>4, CallKept
<1>25. ASSUME NEW e \in Objects, LcallBegin(e)
      PROVE  Goal
  <2>1. th' = th  BY <1>25 DEF LcallBegin
  <2>2. files' = files  BY <1>25 DEF LcallBegin
  <2>3. \A x \in Objects : files'[x]["dev"] <= files[x]["dev"] /\ files'[x]["ctrl"] >= files[x]["ctrl"]
    BY <1>25, <1>s DEF LcallBegin, TypeOK, Kinds, RefKinds
  <2>4. \A x : Getters(x)' = Getters(x) /\ Users(x, "ctrl")' = Users(x, "ctrl")
    BY <2>1 DEF Getters, Users, InCtrl, InReset
  <2>5. QED  BY <1>v, <1>y, <1>n, <2>1, <2>3, <2>4, CallKept
<1>26. ASSUME NEW e \in Objects, LcallEnd(e)
      PROVE  Goal
  <2>1. th' = th  BY <1>26 DEF LcallEnd
  <2>2. files' = files  BY <1>26 DEF LcallEnd
  <2>3. \A x \in Objects : files'[x]["dev"] <= files[x]["dev"] /\ files'[x]["ctrl"] >= files[x]["ctrl"]
    BY <1>26, <1>s DEF LcallEnd, TypeOK, Kinds, RefKinds
  <2>4. \A x : Getters(x)' = Getters(x) /\ Users(x, "ctrl")' = Users(x, "ctrl")
    BY <2>1 DEF Getters, Users, InCtrl, InReset
  <2>5. QED  BY <1>v, <1>y, <1>n, <2>1, <2>3, <2>4, CallKept
<1>27. ASSUME NEW e \in Objects, NEW kind \in RefKinds, ReleaseRef(e, kind)
      PROVE  Goal
  <2>1. th' = th  BY <1>27 DEF ReleaseRef
  <2>2. \A x : Getters(x)' = Getters(x) /\ Users(x, "ctrl")' = Users(x, "ctrl")
    BY <2>1 DEF Getters, Users, InCtrl, InReset
  <2>3. kind \in Kinds /\ Kinds = {"dev", "ctrl", "proc", "cons"}  BY DEF Kinds, RefKinds
  <2>4. /\ files'[e][kind] = files[e][kind] - 1
        /\ \A k \in Kinds : k # kind => files'[e][k] = files[e][k]
        /\ \A x \in Objects : x # e => files'[x] = files[x]
    BY <1>27, <2>3 DEF ReleaseRef, TypeOK
  <2>5. files[e][kind] > Cardinality(Users(e, kind))  BY <1>27 DEF ReleaseRef
  <2>6. \A x \in Objects : x # e => FileInv(x)'
    <3>1. SUFFICES ASSUME NEW x \in Objects, x # e  PROVE FileInv(x)'  OBVIOUS
    <3>2. files'[x]["dev"] <= files[x]["dev"] /\ files'[x]["ctrl"] >= files[x]["ctrl"]
      BY <1>s, <2>4, <3>1
    <3>3. QED  BY <1>v, <1>y, <2>2, <3>1, <3>2, CallKept
  <2>7. FileInv(e)'
    <3>1. CASE kind = "ctrl"
      <4>1. files'[e]["dev"] = files[e]["dev"] /\ files'[e]["ctrl"] = files[e]["ctrl"] - 1
        BY <2>3, <2>4, <3>1
      <4>2. files[e]["ctrl"] > Cardinality(Users(e, "ctrl"))  BY <2>5, <3>1
      <4>3. Cardinality(Users(e, "ctrl")) \in Nat  BY FinSets
      <4>4. QED  BY <1>v, <1>s, <2>2, <4>1, <4>2, <4>3 DEF FileInv
    <3>2. CASE kind # "ctrl"
      <4>1. files'[e]["dev"] <= files[e]["dev"] /\ files'[e]["ctrl"] >= files[e]["ctrl"]
        BY <1>s, <2>3, <2>4, <3>2
      <4>2. QED  BY <1>v, <1>y, <2>2, <4>1, CallKept
    <3>3. QED  BY <3>1, <3>2
  <2>8. QED  BY <1>n, <2>1, <2>6, <2>7
<1>28. QED
  <2>1. Goal  BY <1>1, <1>2, <1>3, <1>4, <1>5, <1>6, <1>7, <1>8, <1>9, <1>10, <1>11, <1>12, <1>13, <1>14, <1>15, <1>16, <1>17, <1>18, <1>19, <1>20, <1>21, <1>22, <1>23, <1>24, <1>25, <1>26, <1>27 DEF Next
  <2>2. QED  BY <2>1 DEF CallInv, FileInv

-----------------------------------------------------------------------------
(* The life of an object.                                                  *)

\* Who is on an object, said with the places.
LEMMA Places ==
  /\ \A e : Owned(e) <=> state[e] # "dead" \/ In(e, FreePcs)
  /\ \A e : OpLockFree(e) <=> ~In(e, ResetPcs)
  /\ \A e : Users(e, "ctrl") = {} <=> ~In(e, CtrlPcs)
  BY DEF Owned, InFree, In, FreePcs, OpLockFree, InReset, ResetPcs, Users, InCtrl, CtrlPcs

LEMMA InMoved ==
  ASSUME NEW t \in Threads, NEW place, NEW x, Moves(t, place, x), NEW e, NEW P
  PROVE  /\ In(e, P)' <=> \/ x = e /\ place \in P
                          \/ \E u \in Threads \ {t} : th[u].e = e /\ th[u].pc \in P
         /\ In(e, P) <=> \/ th[t].e = e /\ th[t].pc \in P
                         \/ \E u \in Threads \ {t} : th[u].e = e /\ th[u].pc \in P
  BY DEF In, Moves

\* Nobody comes to or leaves a place of LOAD or FREE on e.
SamePlaces(e) ==
    /\ In(e, LoadPcs)' <=> In(e, LoadPcs)
    /\ In(e, FreePcs)' <=> In(e, FreePcs)
    /\ In(e, {"f_dev", "f_proc", "f_fs", "f_lcall"})' <=> In(e, {"f_dev", "f_proc", "f_fs", "f_lcall"})
    /\ In(e, {"f_dev", "f_proc", "f_fs"})' <=> In(e, {"f_dev", "f_proc", "f_fs"})
    /\ In(e, {"f_dev", "f_proc"})' <=> In(e, {"f_dev", "f_proc"})
    /\ In(e, {"f_dev"})' <=> In(e, {"f_dev"})
    /\ \A u \in Threads : th[u].e = e /\ th[u].pc = "register" =>
         th'[u].e = e /\ th'[u].pc = "register" /\ th'[u].slot = th[u].slot

LEMMA SamePlacesMoved ==
  ASSUME NEW t \in Threads, NEW place, NEW x, Moves(t, place, x), NEW e,
         \/ x # e /\ th[t].e # e
         \/ th[t].pc \notin LoadPcs \cup FreePcs /\ place \notin LoadPcs \cup FreePcs
  PROVE  SamePlaces(e)
<1>1. \A P : (x = e /\ place \in P <=> th[t].e = e /\ th[t].pc \in P) => (In(e, P)' <=> In(e, P))
  <2> SUFFICES ASSUME NEW P, x = e /\ place \in P <=> th[t].e = e /\ th[t].pc \in P
               PROVE  In(e, P)' <=> In(e, P)
    OBVIOUS
  <2>1. QED  BY InMoved
<1>2. \A u \in Threads : th[u].e = e /\ th[u].pc = "register" =>
         th'[u].e = e /\ th'[u].pc = "register" /\ th'[u].slot = th[u].slot
  BY DEF Moves, LoadPcs
<1>3. QED  BY <1>1, <1>2 DEF SamePlaces, LoadPcs, FreePcs

LEMMA SamePlacesStill ==
  ASSUME th' = th, NEW e
  PROVE  SamePlaces(e)
  BY DEF SamePlaces, In

\* What an object's step leaves alone, it leaves as it is for the others.
LEMMA CountKept ==
  ASSUME NEW e, CountOf(e), SamePlaces(e),
         mem'[e] <=> mem[e], refcount'[e] = refcount[e],
         RefFiles(e)' = RefFiles(e), state'[e] = "dead" <=> state[e] = "dead"
  PROVE  CountOf(e)'
<1>1. Owned(e)' <=> Owned(e)
  <2>1. Owned(e) <=> state[e] # "dead" \/ In(e, FreePcs)  BY Places
  <2>2. Owned(e)' <=> state'[e] # "dead" \/ In(e, FreePcs)'
    BY DEF Owned, InFree, In, FreePcs
  <2>3. QED  BY <2>1, <2>2 DEF SamePlaces
<1>2. QED  BY <1>1 DEF CountOf, SamePlaces

LEMMA PartsKept ==
  ASSUME NEW e, PartsOf(e), SamePlaces(e),
         dev'[e] => dev[e], fs'[e] => fs[e],
         lcall'[e] # "none" => lcall[e] # "none" \/ state[e] # "dead",
         desc'[e] = "live" => desc[e] = "live" \/ state[e] # "dead",
         state'[e] = "dead" <=> state[e] = "dead"
  PROVE  PartsOf(e)'
  BY DEF PartsOf, SamePlaces

LEMMA MapKept ==
  ASSUME NEW e, NEW i, MapOf(i, e), SamePlaces(e), id'[e] = id[e],
         state'[e] = "dead" <=> state[e] = "dead"
  PROVE  MapOf(i, e)'
  BY DEF MapOf, SamePlaces

\* Threads that go on with what they do, or return.
LEMMA AloneKept ==
  ASSUME AloneInv, NEW t \in Threads, NEW place, NEW x, Moves(t, place, x),
         \/ place = "none" /\ x = None
         \/ /\ x = th[t].e
            /\ \/ place \in LoadPcs /\ th[t].pc \in LoadPcs
               \/ place \in FreePcs /\ th[t].pc \in FreePcs
               \/ place \in CtrlPcs /\ th[t].pc \in CtrlPcs
               \/ place \in ResetPcs /\ th[t].pc \in ResetPcs
  PROVE  AloneInv'
  BY DEF AloneInv, Moves, LoadPcs, FreePcs, CtrlPcs, ResetPcs

LEMMA LifeKept ==
  ASSUME TypeOK, CallInv, LifeInv, NEW t \in Threads, NEW place, NEW x, Moves(t, place, x),
         \/ place = "none" /\ x = None
         \/ /\ x = th[t].e
            /\ \/ place \in LoadPcs /\ th[t].pc \in LoadPcs
               \/ place \in FreePcs /\ th[t].pc \in FreePcs
               \/ place \in CtrlPcs /\ th[t].pc \in CtrlPcs
               \/ place \in ResetPcs /\ th[t].pc \in ResetPcs,
         mem' = mem,
         \A e \in Objects : state'[e] = "dead" <=> state[e] = "dead"
  PROVE  LifeInv'
<1>1. \A u \in Threads : th[u].pc # "none" => th[u].e \in Objects  BY OnObject
<1>2. \A u \in Threads : th'[u].e # None => mem'[th'[u].e]
  BY DEF LifeInv, Moves
<1>3. \A u \in Threads : th'[u].pc # "none" => th'[u].e = th[u].e /\ th[u].pc # "none"
  BY DEF Moves, LoadPcs, FreePcs, CtrlPcs, ResetPcs
<1>4. \A u \in Threads :
        /\ th'[u].pc \in LoadPcs \cup FreePcs => th[u].pc \in LoadPcs \cup FreePcs
        /\ th'[u].pc \in ResetPcs \cup {"get"} => th[u].pc \in ResetPcs \cup {"get"}
  BY DEF Moves, LoadPcs, FreePcs, CtrlPcs, ResetPcs
<1>5. "none" \notin LoadPcs \cup FreePcs /\ "none" \notin ResetPcs \cup {"get"}
  BY DEF LoadPcs, FreePcs, ResetPcs
<1>6. QED  BY <1>1, <1>2, <1>3, <1>4, <1>5 DEF LifeInv

\* A thread begins an operation on e.
LEMMA AloneBegin ==
  ASSUME AloneInv, NEW t \in Threads, NEW place, NEW e, Moves(t, place, e),
         \A u \in Threads \ {t} : th[u].e = e =>
            /\ th[u].pc \notin LoadPcs /\ place \notin LoadPcs
            /\ place \in FreePcs => th[u].pc \in CtrlPcs
            /\ th[u].pc \in FreePcs => place \in CtrlPcs
            /\ ~(place \in ResetPcs /\ th[u].pc \in ResetPcs)
  PROVE  AloneInv'
<1>1. th'[t].pc = place /\ th'[t].e = e  BY DEF Moves
<1>2. \A u \in Threads : u # t => th'[u].pc = th[u].pc /\ th'[u].e = th[u].e  BY DEF Moves
<1>3. QED  BY <1>1, <1>2 DEF AloneInv

LEMMA LifeBegin ==
  ASSUME LifeInv, NEW t \in Threads, NEW place, NEW e \in Objects, Moves(t, place, e),
         mem[e], place \notin LoadPcs \cup FreePcs,
         place \in ResetPcs \cup {"get"} => state[e] # "dead",
         mem' = mem, state' = state
  PROVE  LifeInv'
<1>1. th'[t].pc = place /\ th'[t].e = e  BY DEF Moves
<1>2. \A u \in Threads : u # t => th'[u].pc = th[u].pc /\ th'[u].e = th[u].e  BY DEF Moves
<1>3. QED  BY <1>1, <1>2 DEF LifeInv

\* LOAD and FREE are not at work on an enclave that lives.
LEMMA Living ==
  ASSUME LifeInv, NEW e \in Objects, state[e] # "dead"
  PROVE  /\ mem[e] /\ ~In(e, LoadPcs) /\ ~In(e, FreePcs)
         /\ \A u \in Threads : th[u].e = e => th[u].pc \notin LoadPcs \cup FreePcs
  BY DEF LifeInv, In

\* Steps that are not about an object's life.
LEMMA QuietKept ==
  ASSUME CountInv, PartsInv, MapInv, TypeOK, TypeOK', \A e \in Objects : SamePlaces(e),
         mem' = mem, refcount' = refcount, id' = id, enclave_map' = enclave_map,
         dev' = dev, fs' = fs,
         \A e \in Objects :
            /\ RefFiles(e)' = RefFiles(e)
            /\ state'[e] = "dead" <=> state[e] = "dead"
            /\ lcall'[e] # "none" => lcall[e] # "none" \/ state[e] # "dead"
            /\ desc'[e] = "live" => desc[e] = "live" \/ state[e] # "dead"
  PROVE  CountInv' /\ PartsInv' /\ MapInv'
<1>1. ASSUME NEW e \in Objects  PROVE CountOf(e)'
  BY CountKept DEF CountInv
<1>2. ASSUME NEW e \in Objects  PROVE PartsOf(e)'
  BY PartsKept DEF PartsInv
<1>3. ASSUME NEW i \in Slots, NEW e \in Objects, enclave_map'[i] = e  PROVE MapOf(i, e)'
  BY <1>3, MapKept DEF MapInv
<1>4. QED  BY <1>1, <1>2, <1>3 DEF CountInv, PartsInv, MapInv

LEMMA QuietStep ==
  ASSUME "free" \notin Faults, "cdev" \notin Faults,
         TypeOK, CallInv, BaseInv,
         \/ \E t \in Threads, e \in Objects :
              OpenFind(t, e) \/ Launch(t, e) \/ Reset(t, e) \/ CtrlBegin(t, e)
         \/ \E t \in Threads : \/ setup_boot_params(t) \/ boot_enclave(t) \/ ResetCtrl(t)
                               \/ ResetLcall(t) \/ CtrlLock(t) \/ CtrlSend(t)
         \/ \E e \in Objects : \/ pisces_cons_connect(e) \/ ReleaseCons(e)
                               \/ LcallBegin(e) \/ LcallEnd(e)
  PROVE  BaseInv'
<1> USE DEF At
<1>p. Pcs = {"none", "claim", "register", "get", "setup", "boot", "r_ctrl", "r_lcall",
          "c_lock", "c_send", "f_dev", "f_proc", "f_fs", "f_lcall", "f_put"}
  BY DEF Pcs
<1>c. /\ LoadPcs = {"claim", "register"}
      /\ FreePcs = {"f_dev", "f_proc", "f_fs", "f_lcall", "f_put"}
      /\ CtrlPcs = {"c_lock", "c_send"}
      /\ ResetPcs = {"setup", "boot", "r_ctrl", "r_lcall"}
  BY DEF CtrlPcs, LoadPcs, FreePcs, ResetPcs
<1>t. th \in [Threads -> Calls]  BY DEF TypeOK
<1>y. TypeOK'  BY TypeStep DEF Next
<1>i. AloneInv /\ LifeInv /\ CountInv /\ PartsInv /\ MapInv  BY DEF BaseInv
<1>q. ASSUME AloneInv', LifeInv', \A e \in Objects : SamePlaces(e),
             mem' = mem, refcount' = refcount, id' = id, enclave_map' = enclave_map,
             dev' = dev, fs' = fs,
             \A e \in Objects :
                /\ RefFiles(e)' = RefFiles(e)
                /\ state'[e] = "dead" <=> state[e] = "dead"
                /\ lcall'[e] # "none" => lcall[e] # "none" \/ state[e] # "dead"
                /\ desc'[e] = "live" => desc[e] = "live" \/ state[e] # "dead"
      PROVE  BaseInv'
  BY <1>i, <1>y, <1>q, QuietKept DEF BaseInv
<1>1. ASSUME NEW t \in Threads, NEW e \in Objects, OpenFind(t, e)
      PROVE  BaseInv'
  <2>1. Moves(t, "get", e)  BY <1>1, <1>p, <1>t, BeginMoves DEF OpenFind
  <2>a. state[e] # "dead"
    <3>1. dev[e] /\ \A u \in Threads : ~(InFree(u) /\ th[u].e = e)  BY <1>1 DEF OpenFind
    <3>2. ~In(e, {"f_dev"})  BY <3>1 DEF In, InFree
    <3>3. PartsOf(e)  BY <1>i DEF PartsInv
    <3>4. QED  BY <3>1, <3>2, <3>3 DEF PartsOf
  <2>b. mem[e] /\ \A u \in Threads : th[u].e = e => th[u].pc \notin LoadPcs \cup FreePcs
    BY <2>a, <1>i, Living
  <2>e. th[t].pc = "none" /\ mem' = mem /\ state' = state  BY <1>1 DEF OpenFind
  <2>2. AloneInv'
    BY <1>c, <1>i, <2>1, <2>a, <2>b, AloneBegin DEF In
  <2>c. LifeInv'
    BY <1>c, <1>i, <2>1, <2>a, <2>b, <2>e, LifeBegin
  <2>3. \A x \in Objects : SamePlaces(x)  BY <1>c, <2>1, <2>e, SamePlacesMoved
  <2>4. \A x \in Objects : RefFiles(x)' = RefFiles(x)  BY <1>1 DEF OpenFind, RefFiles
  <2>5. \A x \in Objects :
          /\ state'[x] = "dead" <=> state[x] = "dead"
          /\ lcall'[x] # "none" => lcall[x] # "none" \/ state[x] # "dead"
          /\ desc'[x] = "live" => desc[x] = "live" \/ state[x] # "dead"
    BY <1>1 DEF OpenFind, parts
  <2>6. QED  BY <1>1, <1>q, <2>2, <2>c, <2>3, <2>4, <2>5 DEF OpenFind, parts
<1>2. ASSUME NEW t \in Threads, NEW e \in Objects, Launch(t, e)
      PROVE  BaseInv'
  <2>1. Moves(t, "setup", e)  BY <1>2, <1>p, <1>t, BeginMoves DEF Launch
  <2>a. state[e] # "dead" /\ ~In(e, ResetPcs)
    BY <1>2, Places DEF Launch
  <2>b. mem[e] /\ \A u \in Threads : th[u].e = e => th[u].pc \notin LoadPcs \cup FreePcs
    BY <2>a, <1>i, Living
  <2>e. th[t].pc = "none" /\ mem' = mem /\ state' = state  BY <1>2 DEF Launch
  <2>2. AloneInv'
    BY <1>c, <1>i, <2>1, <2>a, <2>b, AloneBegin DEF In
  <2>c. LifeInv'
    BY <1>c, <1>i, <2>1, <2>a, <2>b, <2>e, LifeBegin
  <2>3. \A x \in Objects : SamePlaces(x)  BY <1>c, <2>1, <2>e, SamePlacesMoved
  <2>4. \A x \in Objects : RefFiles(x)' = RefFiles(x)  BY <1>2 DEF Launch, RefFiles
  <2>5. \A x \in Objects :
          /\ state'[x] = "dead" <=> state[x] = "dead"
          /\ lcall'[x] # "none" => lcall[x] # "none" \/ state[x] # "dead"
          /\ desc'[x] = "live" => desc[x] = "live" \/ state[x] # "dead"
    BY <1>2 DEF Launch, parts
  <2>6. QED  BY <1>2, <1>q, <2>2, <2>c, <2>3, <2>4, <2>5 DEF Launch, parts
<1>3. ASSUME NEW t \in Threads, NEW e \in Objects, Reset(t, e)
      PROVE  BaseInv'
  <2>1. Moves(t, "r_ctrl", e)  BY <1>3, <1>p, <1>t, BeginMoves DEF Reset
  <2>a. state[e] # "dead" /\ ~In(e, ResetPcs)
    BY <1>3, Places DEF Reset
  <2>b. mem[e] /\ \A u \in Threads : th[u].e = e => th[u].pc \notin LoadPcs \cup FreePcs
    BY <2>a, <1>i, Living
  <2>e. th[t].pc = "none" /\ mem' = mem /\ state' = state  BY <1>3 DEF Reset
  <2>2. AloneInv'
    BY <1>c, <1>i, <2>1, <2>a, <2>b, AloneBegin DEF In
  <2>c. LifeInv'
    BY <1>c, <1>i, <2>1, <2>a, <2>b, <2>e, LifeBegin
  <2>3. \A x \in Objects : SamePlaces(x)  BY <1>c, <2>1, <2>e, SamePlacesMoved
  <2>4. \A x \in Objects : RefFiles(x)' = RefFiles(x)  BY <1>3 DEF Reset, RefFiles
  <2>5. \A x \in Objects :
          /\ state'[x] = "dead" <=> state[x] = "dead"
          /\ lcall'[x] # "none" => lcall[x] # "none" \/ state[x] # "dead"
          /\ desc'[x] = "live" => desc[x] = "live" \/ state[x] # "dead"
    BY <1>3 DEF Reset, parts
  <2>6. QED  BY <1>3, <1>q, <2>2, <2>c, <2>3, <2>4, <2>5 DEF Reset, parts
<1>4. ASSUME NEW t \in Threads, NEW e \in Objects, CtrlBegin(t, e)
      PROVE  BaseInv'
  <2>0. desc[e] \in Descs  BY DEF TypeOK, Descs
  <2>1. Moves(t, "c_lock", e)  BY <1>4, <1>p, <1>t, <2>0, BeginDescMoves DEF CtrlBegin
  <2>a. RefFiles(e) # 0
    <3>1. files[e]["ctrl"] > Cardinality(Users(e, "ctrl"))  BY <1>4 DEF CtrlBegin
    <3>2. Cardinality(Users(e, "ctrl")) \in Nat  BY FinSets
    <3>3. \A k \in RefKinds : files[e][k] \in Nat
      BY EnclaveAssumption DEF TypeOK, Kinds
    <3>4. QED  BY <3>1, <3>2, <3>3 DEF RefFiles, RefKinds
  <2>b. mem[e] /\ \A u \in Threads : th[u].e = e => th[u].pc \notin LoadPcs
    BY <1>i, <2>a DEF CountInv, CountOf, In
  <2>e. th[t].pc = "none" /\ mem' = mem /\ state' = state  BY <1>4 DEF CtrlBegin
  <2>2. AloneInv'
    BY <1>c, <1>i, <2>1, <2>b, AloneBegin DEF In
  <2>c. LifeInv'
    BY <1>c, <1>i, <2>1, <2>b, <2>e, LifeBegin
  <2>3. \A x \in Objects : SamePlaces(x)  BY <1>c, <2>1, <2>e, SamePlacesMoved
  <2>4. \A x \in Objects : RefFiles(x)' = RefFiles(x)  BY <1>4 DEF CtrlBegin, RefFiles
  <2>5. \A x \in Objects :
          /\ state'[x] = "dead" <=> state[x] = "dead"
          /\ lcall'[x] # "none" => lcall[x] # "none" \/ state[x] # "dead"
          /\ desc'[x] = "live" => desc[x] = "live" \/ state[x] # "dead"
    BY <1>4 DEF CtrlBegin, parts
  <2>6. QED  BY <1>4, <1>q, <2>2, <2>c, <2>3, <2>4, <2>5 DEF CtrlBegin, parts
<1>5. ASSUME NEW t \in Threads, setup_boot_params(t)
      PROVE  BaseInv'
  <2>1. Moves(t, "none", None) \/ Moves(t, "boot", th[t].e)
    BY <1>5, <1>p, <1>t, GotoMoves, ReturnMoves DEF setup_boot_params
  <2>o. th[t].e \in Objects  BY <1>5, OnObject DEF setup_boot_params
  <2>a. state[th[t].e] # "dead"  BY <1>5, <1>c, <1>i DEF setup_boot_params, LifeInv
  <2>2. AloneInv'  BY <1>5, <1>c, <1>i, <2>1, AloneKept DEF setup_boot_params
  <2>d. \A x \in Objects : state'[x] = "dead" <=> state[x] = "dead"
    BY <1>5 DEF setup_boot_params
  <2>c. LifeInv'  BY <1>5, <1>c, <1>i, <2>1, <2>d, LifeKept DEF setup_boot_params, parts
  <2>3. \A x \in Objects : SamePlaces(x)  BY <1>5, <1>c, <2>1, SamePlacesMoved DEF setup_boot_params
  <2>4. \A x \in Objects : RefFiles(x)' = RefFiles(x)  BY <1>5 DEF setup_boot_params, RefFiles
  <2>5. \A x \in Objects :
          /\ state'[x] = "dead" <=> state[x] = "dead"
          /\ lcall'[x] # "none" => lcall[x] # "none" \/ state[x] # "dead"
          /\ desc'[x] = "live" => desc[x] = "live" \/ state[x] # "dead"
    BY <1>5, <2>o, <2>d, <2>a DEF setup_boot_params, parts, TypeOK
  <2>6. QED  BY <1>5, <1>q, <2>2, <2>c, <2>3, <2>4, <2>5 DEF setup_boot_params, parts
<1>6. ASSUME NEW t \in Threads, boot_enclave(t)
      PROVE  BaseInv'
  <2>1. Moves(t, "none", None)  BY <1>6, <1>t, ReturnMoves DEF boot_enclave
  <2>o. th[t].e \in Objects  BY <1>6, OnObject DEF boot_enclave
  <2>a. state[th[t].e] # "dead"  BY <1>6, <1>c, <1>i DEF boot_enclave, LifeInv
  <2>2. AloneInv'  BY <1>6, <1>c, <1>i, <2>1, AloneKept DEF boot_enclave
  <2>d. \A x \in Objects : state'[x] = "dead" <=> state[x] = "dead"
    BY <1>6, <2>a, <2>o DEF boot_enclave, TypeOK
  <2>c. LifeInv'  BY <1>6, <1>c, <1>i, <2>1, <2>d, LifeKept DEF boot_enclave, parts
  <2>3. \A x \in Objects : SamePlaces(x)  BY <1>6, <1>c, <2>1, SamePlacesMoved DEF boot_enclave
  <2>4. \A x \in Objects : RefFiles(x)' = RefFiles(x)  BY <1>6 DEF boot_enclave, RefFiles
  <2>5. \A x \in Objects :
          /\ state'[x] = "dead" <=> state[x] = "dead"
          /\ lcall'[x] # "none" => lcall[x] # "none" \/ state[x] # "dead"
          /\ desc'[x] = "live" => desc[x] = "live" \/ state[x] # "dead"
    BY <1>6, <2>o, <2>d, <2>a DEF boot_enclave, parts, TypeOK
  <2>6. QED  BY <1>6, <1>q, <2>2, <2>c, <2>3, <2>4, <2>5 DEF boot_enclave, parts
<1>7. ASSUME NEW t \in Threads, ResetCtrl(t)
      PROVE  BaseInv'
  <2>1. Moves(t, "r_lcall", th[t].e)  BY <1>7, <1>p, <1>t, DeinitMoves DEF ResetCtrl
  <2>o. th[t].e \in Objects  BY <1>7, OnObject DEF ResetCtrl
  <2>a. state[th[t].e] # "dead"  BY <1>7, <1>c, <1>i DEF ResetCtrl, LifeInv
  <2>2. AloneInv'  BY <1>7, <1>c, <1>i, <2>1, AloneKept DEF ResetCtrl
  <2>d. \A x \in Objects : state'[x] = "dead" <=> state[x] = "dead"
    BY <1>7 DEF ResetCtrl
  <2>c. LifeInv'  BY <1>7, <1>c, <1>i, <2>1, <2>d, LifeKept DEF ResetCtrl, parts
  <2>3. \A x \in Objects : SamePlaces(x)  BY <1>7, <1>c, <2>1, SamePlacesMoved DEF ResetCtrl
  <2>4. \A x \in Objects : RefFiles(x)' = RefFiles(x)  BY <1>7 DEF ResetCtrl, RefFiles
  <2>5. \A x \in Objects :
          /\ state'[x] = "dead" <=> state[x] = "dead"
          /\ lcall'[x] # "none" => lcall[x] # "none" \/ state[x] # "dead"
          /\ desc'[x] = "live" => desc[x] = "live" \/ state[x] # "dead"
    BY <1>7, <2>o, <2>d, <2>a DEF ResetCtrl, parts, TypeOK, pisces_ctrl_deinit
  <2>6. QED  BY <1>7, <1>q, <2>2, <2>c, <2>3, <2>4, <2>5 DEF ResetCtrl, parts
<1>8. ASSUME NEW t \in Threads, ResetLcall(t)
      PROVE  BaseInv'
  <2>1. Moves(t, "setup", th[t].e)  BY <1>8, <1>p, <1>t, GotoMoves DEF ResetLcall
  <2>o. th[t].e \in Objects  BY <1>8, OnObject DEF ResetLcall
  <2>a. state[th[t].e] # "dead"  BY <1>8, <1>c, <1>i DEF ResetLcall, LifeInv
  <2>2. AloneInv'  BY <1>8, <1>c, <1>i, <2>1, AloneKept DEF ResetLcall
  <2>d. \A x \in Objects : state'[x] = "dead" <=> state[x] = "dead"
    BY <1>8 DEF ResetLcall
  <2>c. LifeInv'  BY <1>8, <1>c, <1>i, <2>1, <2>d, LifeKept DEF ResetLcall, parts
  <2>3. \A x \in Objects : SamePlaces(x)  BY <1>8, <1>c, <2>1, SamePlacesMoved DEF ResetLcall
  <2>4. \A x \in Objects : RefFiles(x)' = RefFiles(x)  BY <1>8 DEF ResetLcall, RefFiles
  <2>5. \A x \in Objects :
          /\ state'[x] = "dead" <=> state[x] = "dead"
          /\ lcall'[x] # "none" => lcall[x] # "none" \/ state[x] # "dead"
          /\ desc'[x] = "live" => desc[x] = "live" \/ state[x] # "dead"
    BY <1>8, <2>o, <2>d, <2>a DEF ResetLcall, parts, TypeOK
  <2>6. QED  BY <1>8, <1>q, <2>2, <2>c, <2>3, <2>4, <2>5 DEF ResetLcall, parts
<1>9. ASSUME NEW t \in Threads, CtrlLock(t)
      PROVE  BaseInv'
  <2>1. Moves(t, "none", None) \/ Moves(t, "c_send", th[t].e)
    BY <1>9, <1>p, <1>t, GotoMoves, ReturnMoves DEF CtrlLock
  <2>o. th[t].e \in Objects  BY <1>9, OnObject DEF CtrlLock
  <2>2. AloneInv'  BY <1>9, <1>c, <1>i, <2>1, AloneKept DEF CtrlLock
  <2>d. \A x \in Objects : state'[x] = "dead" <=> state[x] = "dead"
    BY <1>9 DEF CtrlLock
  <2>c. LifeInv'  BY <1>9, <1>c, <1>i, <2>1, <2>d, LifeKept DEF CtrlLock, parts
  <2>3. \A x \in Objects : SamePlaces(x)  BY <1>9, <1>c, <2>1, SamePlacesMoved DEF CtrlLock
  <2>4. \A x \in Objects : RefFiles(x)' = RefFiles(x)  BY <1>9 DEF CtrlLock, RefFiles
  <2>5. \A x \in Objects :
          /\ state'[x] = "dead" <=> state[x] = "dead"
          /\ lcall'[x] # "none" => lcall[x] # "none" \/ state[x] # "dead"
          /\ desc'[x] = "live" => desc[x] = "live" \/ state[x] # "dead"
    BY <1>9, <2>o, <2>d DEF CtrlLock, parts
  <2>6. QED  BY <1>9, <1>q, <2>2, <2>c, <2>3, <2>4, <2>5 DEF CtrlLock, parts
<1>10. ASSUME NEW t \in Threads, CtrlSend(t)
      PROVE  BaseInv'
  <2>1. Moves(t, "none", None)  BY <1>10, <1>t, ReturnMoves DEF CtrlSend
  <2>o. th[t].e \in Objects  BY <1>10, OnObject DEF CtrlSend
  <2>2. AloneInv'  BY <1>10, <1>c, <1>i, <2>1, AloneKept DEF CtrlSend
  <2>d. \A x \in Objects : state'[x] = "dead" <=> state[x] = "dead"
    BY <1>10 DEF CtrlSend
  <2>c. LifeInv'  BY <1>10, <1>c, <1>i, <2>1, <2>d, LifeKept DEF CtrlSend, parts
  <2>3. \A x \in Objects : SamePlaces(x)  BY <1>10, <1>c, <2>1, SamePlacesMoved DEF CtrlSend
  <2>4. \A x \in Objects : RefFiles(x)' = RefFiles(x)  BY <1>10 DEF CtrlSend, RefFiles
  <2>5. \A x \in Objects :
          /\ state'[x] = "dead" <=> state[x] = "dead"
          /\ lcall'[x] # "none" => lcall[x] # "none" \/ state[x] # "dead"
          /\ desc'[x] = "live" => desc[x] = "live" \/ state[x] # "dead"
    BY <1>10, <2>o, <2>d DEF CtrlSend, parts
  <2>6. QED  BY <1>10, <1>q, <2>2, <2>c, <2>3, <2>4, <2>5 DEF CtrlSend, parts
<1>11. ASSUME NEW e \in Objects, pisces_cons_connect(e)
      PROVE  BaseInv'
  <2>1. th' = th  BY <1>11 DEF pisces_cons_connect
  <2>2. AloneInv' /\ LifeInv'  BY <1>11, <1>i, <2>1 DEF pisces_cons_connect, AloneInv, LifeInv, parts
  <2>3. \A x \in Objects : SamePlaces(x)  BY <2>1, SamePlacesStill
  <2>4. \A x \in Objects : RefFiles(x)' = RefFiles(x)  BY <1>11 DEF pisces_cons_connect, RefFiles, Kinds, RefKinds, TypeOK
  <2>5. \A x \in Objects :
          /\ state'[x] = "dead" <=> state[x] = "dead"
          /\ lcall'[x] # "none" => lcall[x] # "none" \/ state[x] # "dead"
          /\ desc'[x] = "live" => desc[x] = "live" \/ state[x] # "dead"
    BY <1>11 DEF pisces_cons_connect, parts
  <2>6. QED  BY <1>11, <1>q, <2>2, <2>3, <2>4, <2>5 DEF pisces_cons_connect, parts
<1>12. ASSUME NEW e \in Objects, ReleaseCons(e)
      PROVE  BaseInv'
  <2>1. th' = th  BY <1>12 DEF ReleaseCons
  <2>2. AloneInv' /\ LifeInv'  BY <1>12, <1>i, <2>1 DEF ReleaseCons, AloneInv, LifeInv, parts
  <2>3. \A x \in Objects : SamePlaces(x)  BY <2>1, SamePlacesStill
  <2>4. \A x \in Objects : RefFiles(x)' = RefFiles(x)  BY <1>12 DEF ReleaseCons, RefFiles, Kinds, RefKinds, TypeOK
  <2>5. \A x \in Objects :
          /\ state'[x] = "dead" <=> state[x] = "dead"
          /\ lcall'[x] # "none" => lcall[x] # "none" \/ state[x] # "dead"
          /\ desc'[x] = "live" => desc[x] = "live" \/ state[x] # "dead"
    BY <1>12 DEF ReleaseCons, parts
  <2>6. QED  BY <1>12, <1>q, <2>2, <2>3, <2>4, <2>5 DEF ReleaseCons, parts
<1>13. ASSUME NEW e \in Objects, LcallBegin(e)
      PROVE  BaseInv'
  <2>1. th' = th  BY <1>13 DEF LcallBegin
  <2>2. AloneInv' /\ LifeInv'  BY <1>13, <1>i, <2>1 DEF LcallBegin, AloneInv, LifeInv, parts
  <2>3. \A x \in Objects : SamePlaces(x)  BY <2>1, SamePlacesStill
  <2>4. \A x \in Objects : RefFiles(x)' = RefFiles(x)  BY <1>13 DEF LcallBegin, RefFiles
  <2>5. \A x \in Objects :
          /\ state'[x] = "dead" <=> state[x] = "dead"
          /\ lcall'[x] # "none" => lcall[x] # "none" \/ state[x] # "dead"
          /\ desc'[x] = "live" => desc[x] = "live" \/ state[x] # "dead"
    BY <1>13 DEF LcallBegin, parts, TypeOK
  <2>6. QED  BY <1>13, <1>q, <2>2, <2>3, <2>4, <2>5 DEF LcallBegin, parts
<1>14. ASSUME NEW e \in Objects, LcallEnd(e)
      PROVE  BaseInv'
  <2>1. th' = th  BY <1>14 DEF LcallEnd
  <2>2. AloneInv' /\ LifeInv'  BY <1>14, <1>i, <2>1 DEF LcallEnd, AloneInv, LifeInv, parts
  <2>3. \A x \in Objects : SamePlaces(x)  BY <2>1, SamePlacesStill
  <2>4. \A x \in Objects : RefFiles(x)' = RefFiles(x)  BY <1>14 DEF LcallEnd, RefFiles
  <2>5. \A x \in Objects :
          /\ state'[x] = "dead" <=> state[x] = "dead"
          /\ lcall'[x] # "none" => lcall[x] # "none" \/ state[x] # "dead"
          /\ desc'[x] = "live" => desc[x] = "live" \/ state[x] # "dead"
    BY <1>14 DEF LcallEnd, parts, TypeOK
  <2>6. QED  BY <1>14, <1>q, <2>2, <2>3, <2>4, <2>5 DEF LcallEnd, parts
<1>15. QED  BY <1>1, <1>2, <1>3, <1>4, <1>5, <1>6, <1>7, <1>8, <1>9, <1>10, <1>11, <1>12, <1>13, <1>14

-----------------------------------------------------------------------------
(* References are taken and given back.                                    *)

LEMMA RefFilesType ==
  ASSUME TypeOK, NEW e \in Objects
  PROVE  RefFiles(e) \in Nat /\ \A k \in Kinds : files[e][k] \in Nat
  BY EnclaveAssumption DEF TypeOK, RefFiles, Kinds, RefKinds

LEMMA OwnedKept ==
  ASSUME NEW e, SamePlaces(e), state'[e] = "dead" <=> state[e] = "dead"
  PROVE  Owned(e)' <=> Owned(e)
<1>1. Owned(e) <=> state[e] # "dead" \/ In(e, FreePcs)  BY Places
<1>2. Owned(e)' <=> state'[e] # "dead" \/ In(e, FreePcs)'
  BY DEF Owned, InFree, In, FreePcs
<1>3. QED  BY <1>1, <1>2 DEF SamePlaces

LEMMA CountOpened ==
  ASSUME TypeOK, NEW e \in Objects, CountOf(e), SamePlaces(e), mem[e], ~In(e, LoadPcs),
         mem'[e] <=> mem[e], refcount'[e] = refcount[e] + 1,
         RefFiles(e)' = RefFiles(e) + 1, state'[e] = "dead" <=> state[e] = "dead"
  PROVE  CountOf(e)'
<1>1. Owned(e)' <=> Owned(e)  BY OwnedKept
<1>2. RefFiles(e) \in Nat /\ refcount[e] \in Int  BY RefFilesType DEF TypeOK
<1>3. QED  BY <1>1, <1>2 DEF CountOf, SamePlaces

\* An object with a file is allocated, and LOAD has left it.
LEMMA HasFile ==
  ASSUME TypeOK, CountInv, NEW e \in Objects, NEW k \in RefKinds, files[e][k] > 0
  PROVE  mem[e] /\ ~In(e, LoadPcs)
<1>1. RefFiles(e) # 0
  <2>1. \A j \in RefKinds : files[e][j] \in Nat  BY RefFilesType DEF Kinds
  <2>2. QED  BY <2>1 DEF RefFiles, RefKinds
<1>2. QED  BY <1>1 DEF CountInv, CountOf

\* The new file of an object and the rest of the files.
LEMMA NewFile ==
  ASSUME TypeOK, NEW e \in Objects, NEW k \in RefKinds,
         files' = [files EXCEPT ![e][k] = @ + 1]
  PROVE  /\ RefFiles(e)' = RefFiles(e) + 1
         /\ \A x \in Objects \ {e} : RefFiles(x)' = RefFiles(x)
<1>1. /\ files'[e][k] = files[e][k] + 1
      /\ \A j \in Kinds \ {k} : files'[e][j] = files[e][j]
      /\ \A x \in Objects \ {e} : files'[x] = files[x]
  BY DEF TypeOK, Kinds
<1>2. \A j \in RefKinds : files[e][j] \in Nat /\ j \in Kinds  BY RefFilesType DEF Kinds
<1>3. k = "dev" \/ k = "ctrl" \/ k = "proc"  BY DEF RefKinds
<1>4. QED  BY <1>1, <1>2, <1>3 DEF RefFiles, RefKinds

LEMMA OpenKept ==
  ASSUME TypeOK, TypeOK', CountInv, PartsInv, MapInv, \A x \in Objects : SamePlaces(x),
         NEW e \in Objects, mem[e], ~In(e, LoadPcs),
         NEW k \in RefKinds, files' = [files EXCEPT ![e][k] = @ + 1],
         enclave_get(e),
         UNCHANGED <<enclave_map, mem, id, state, dev, desc, lcall, fs>>
  PROVE  CountInv' /\ PartsInv' /\ MapInv'
<1>1. refcount'[e] = refcount[e] + 1 /\ \A x \in Objects \ {e} : refcount'[x] = refcount[x]
  BY DEF enclave_get, TypeOK
<1>2. CountOf(e)'  BY <1>1, NewFile, CountOpened DEF CountInv
<1>3. ASSUME NEW x \in Objects, x # e  PROVE CountOf(x)'
  BY <1>1, <1>3, NewFile, CountKept DEF CountInv
<1>4. ASSUME NEW x \in Objects  PROVE PartsOf(x)'  BY PartsKept DEF PartsInv
<1>5. ASSUME NEW i \in Slots, NEW x \in Objects, enclave_map'[i] = x  PROVE MapOf(i, x)'
  BY <1>5, MapKept DEF MapInv
<1>6. QED  BY <1>2, <1>3, <1>4, <1>5 DEF CountInv, PartsInv, MapInv

LEMMA OpenStep ==
  ASSUME TypeOK, CallInv, BaseInv,
         \/ \E t \in Threads : enclave_open(t)
         \/ \E e \in Objects : proc_open(e) \/ pisces_ctrl_connect(e)
  PROVE  BaseInv'
<1> USE DEF At
<1>p. Pcs = {"none", "claim", "register", "get", "setup", "boot", "r_ctrl", "r_lcall",
          "c_lock", "c_send", "f_dev", "f_proc", "f_fs", "f_lcall", "f_put"}
  BY DEF Pcs
<1>c. /\ LoadPcs = {"claim", "register"}
      /\ FreePcs = {"f_dev", "f_proc", "f_fs", "f_lcall", "f_put"}
      /\ CtrlPcs = {"c_lock", "c_send"}
      /\ ResetPcs = {"setup", "boot", "r_ctrl", "r_lcall"}
  BY DEF CtrlPcs, LoadPcs, FreePcs, ResetPcs
<1>t. th \in [Threads -> Calls]  BY DEF TypeOK
<1>y. TypeOK'  BY TypeStep DEF Next
<1>i. AloneInv /\ LifeInv /\ CountInv /\ PartsInv /\ MapInv  BY DEF BaseInv
<1>k. "dev" \in RefKinds /\ "ctrl" \in RefKinds /\ "proc" \in RefKinds  BY DEF RefKinds
<1>1. ASSUME NEW t \in Threads, enclave_open(t)
      PROVE  BaseInv'
  <2>1. Moves(t, "none", None)  BY <1>1, <1>t, ReturnMoves DEF enclave_open
  <2>2. PICK e \in Objects : e = th[t].e  BY <1>1, OnObject DEF enclave_open
  <2>3. mem[e] /\ ~In(e, LoadPcs)
    <3>1. state[e] # "dead"  BY <1>1, <1>i, <2>2 DEF enclave_open, LifeInv
    <3>2. QED  BY <3>1, <1>i, Living
  <2>4. AloneInv'  BY <1>i, <2>1, AloneKept
  <2>5. mem' = mem /\ state' = state  BY <1>1 DEF enclave_open
  <2>6. LifeInv'  BY <1>i, <2>1, <2>5, LifeKept
  <2>7. \A x \in Objects : SamePlaces(x)
    BY <1>1, <1>c, <2>1, SamePlacesMoved DEF enclave_open
  <2>8. CountInv' /\ PartsInv' /\ MapInv'
    <3>1. files' = [files EXCEPT ![e]["dev"] = @ + 1] /\ enclave_get(e)
          /\ UNCHANGED <<enclave_map, mem, id, state, dev, desc, lcall, fs>>
      BY <1>1, <2>2 DEF enclave_open, parts
    <3>2. QED  BY <1>i, <1>y, <1>k, <2>3, <2>7, <3>1, OpenKept
  <2>9. QED  BY <2>4, <2>6, <2>8 DEF BaseInv
<1>2. ASSUME NEW e \in Objects, proc_open(e)
      PROVE  BaseInv'
  <2>1. th' = th  BY <1>2 DEF proc_open
  <2>2. AloneInv' /\ LifeInv'  BY <1>2, <1>i, <2>1 DEF proc_open, AloneInv, LifeInv
  <2>3. \A x \in Objects : SamePlaces(x)  BY <2>1, SamePlacesStill
  <2>4. mem[e] /\ ~In(e, LoadPcs)
    <3>1. state[e] # "dead" \/ In(e, {"f_dev", "f_proc"})
      BY <1>2, <1>i DEF proc_open, PartsInv, PartsOf, In
    <3>2. CASE state[e] # "dead"  BY <1>i, <3>2, Living
    <3>3. CASE In(e, {"f_dev", "f_proc"})
      <4>1. PICK u \in Threads : th[u].e = e /\ th[u].pc \in FreePcs  BY <1>c, <3>3 DEF In
      <4>2. e # None  BY EnclaveAssumption
      <4>3. mem[e]  BY <1>i, <4>1, <4>2 DEF LifeInv
      <4>4. \A w \in Threads : th[w].e = e => th[w].pc \notin LoadPcs
        BY <1>c, <1>i, <4>1, <4>2 DEF AloneInv
      <4>5. QED  BY <4>3, <4>4 DEF In
    <3>4. QED  BY <3>1, <3>2, <3>3
  <2>5. CountInv' /\ PartsInv' /\ MapInv'
    <3>1. files' = [files EXCEPT ![e]["proc"] = @ + 1] /\ enclave_get(e)
          /\ UNCHANGED <<enclave_map, mem, id, state, dev, desc, lcall, fs>>
      BY <1>2 DEF proc_open, parts
    <3>2. QED  BY <1>i, <1>y, <1>k, <2>3, <2>4, <3>1, OpenKept
  <2>6. QED  BY <2>2, <2>5 DEF BaseInv
<1>3. ASSUME NEW e \in Objects, pisces_ctrl_connect(e)
      PROVE  BaseInv'
  <2>1. th' = th  BY <1>3 DEF pisces_ctrl_connect
  <2>2. AloneInv' /\ LifeInv'  BY <1>3, <1>i, <2>1 DEF pisces_ctrl_connect, AloneInv, LifeInv
  <2>3. \A x \in Objects : SamePlaces(x)  BY <2>1, SamePlacesStill
  <2>4. mem[e] /\ ~In(e, LoadPcs)
    BY <1>3, <1>i, <1>k, HasFile DEF pisces_ctrl_connect
  <2>5. UNCHANGED <<enclave_map, mem, id, state, dev, desc, lcall, fs>>
    BY <1>3 DEF pisces_ctrl_connect, parts
  <2>6. CountInv' /\ PartsInv' /\ MapInv'
    <3>1. CASE enclave_get(e) /\ files' = [files EXCEPT ![e]["ctrl"] = @ + 1]
      BY <1>i, <1>y, <1>k, <2>3, <2>4, <2>5, <3>1, OpenKept
    <3>2. CASE UNCHANGED <<refcount, files>>
      <4>1. \A x \in Objects : RefFiles(x)' = RefFiles(x)  BY <3>2 DEF RefFiles
      <4>2. QED  BY <1>i, <1>y, <2>3, <2>5, <3>2, <4>1, QuietKept
    <3>3. QED  BY <1>3, <3>1, <3>2 DEF pisces_ctrl_connect
  <2>7. QED  BY <2>2, <2>6 DEF BaseInv
<1>4. QED  BY <1>1, <1>2, <1>3

\* A command that is under way has its control file.
LEMMA CommandHasFile ==
  ASSUME TypeOK, CallInv, NEW t \in Threads, NEW e \in Objects,
         th[t].e = e, th[t].pc \in CtrlPcs
  PROVE  Cardinality(Users(e, "ctrl")) > 0 /\ files[e]["ctrl"] > 0
<1>1. t \in Users(e, "ctrl")  BY DEF Users, InCtrl, CtrlPcs
<1>2. IsFiniteSet(Users(e, "ctrl"))  BY FinSets
<1>3. Cardinality(Users(e, "ctrl")) # 0  BY <1>1, <1>2, FS_EmptySet
<1>4. Cardinality(Users(e, "ctrl")) \in Nat  BY FinSets
<1>5. files[e]["ctrl"] \in Nat  BY RefFilesType DEF Kinds, RefKinds
<1>6. Cardinality(Users(e, "ctrl")) <= files[e]["ctrl"]  BY DEF CallInv
<1>7. QED  BY <1>3, <1>4, <1>5, <1>6

\* The file that goes and the rest of the files.
LEMMA LessFile ==
  ASSUME TypeOK, NEW e \in Objects, NEW k \in RefKinds,
         files' = [files EXCEPT ![e][k] = @ - 1]
  PROVE  /\ RefFiles(e)' = RefFiles(e) - 1
         /\ \A x \in Objects \ {e} : RefFiles(x)' = RefFiles(x)
<1>1. /\ files'[e][k] = files[e][k] - 1
      /\ \A j \in Kinds \ {k} : files'[e][j] = files[e][j]
      /\ \A x \in Objects \ {e} : files'[x] = files[x]
  BY DEF TypeOK, Kinds
<1>2. \A j \in RefKinds : files[e][j] \in Nat /\ j \in Kinds  BY RefFilesType DEF Kinds
<1>3. k = "dev" \/ k = "ctrl" \/ k = "proc"  BY DEF RefKinds
<1>4. QED  BY <1>1, <1>2, <1>3 DEF RefFiles, RefKinds

\* When the last file goes nobody is on the object.
LEMMA LastFile ==
  ASSUME TypeOK, CallInv, BaseInv, NEW e \in Objects, NEW kind \in RefKinds,
         ReleaseRef(e, kind), refcount[e] = 1
  PROVE  /\ state[e] = "dead" /\ RefFiles(e) = 1
         /\ \A u \in Threads : th[u].e # e
<1>i. AloneInv /\ LifeInv /\ CountInv /\ PartsInv /\ MapInv  BY DEF BaseInv
<1>1. files[e][kind] > Cardinality(Users(e, kind))  BY DEF ReleaseRef
<1>2. Cardinality(Users(e, kind)) \in Nat  BY FinSets
<1>3. \A k \in RefKinds : files[e][k] \in Nat  BY RefFilesType DEF Kinds
<1>4. files[e][kind] > 0  BY <1>1, <1>2, <1>3
<1>5. mem[e] /\ ~In(e, LoadPcs)  BY <1>i, <1>4, HasFile
<1>6. RefFiles(e) >= files[e][kind] /\ RefFiles(e) \in Nat
  BY <1>3 DEF RefFiles, RefKinds
<1>7. refcount[e] = RefFiles(e) + (IF Owned(e) THEN 1 ELSE 0)
  BY <1>5, <1>i DEF CountInv, CountOf
<1>8. ~Owned(e) /\ RefFiles(e) = 1  BY <1>3, <1>4, <1>6, <1>7
<1>9. state[e] = "dead" /\ ~In(e, FreePcs)  BY <1>8, Places
<1>10. ASSUME NEW u \in Threads, th[u].e = e  PROVE FALSE
  <2>1. th[u].pc \in CtrlPcs
    <3>1. th[u].pc \in Pcs  BY CallFields DEF TypeOK
    <3>2. th[u].pc # "none"  BY <1>10, EnclaveAssumption DEF CallInv
    <3>3. th[u].pc \notin ResetPcs \cup {"get"}  BY <1>9, <1>10, <1>i DEF LifeInv
    <3>4. th[u].pc \notin LoadPcs \cup FreePcs  BY <1>5, <1>9, <1>10 DEF In
    <3>5. QED  BY <3>1, <3>2, <3>3, <3>4 DEF Pcs, ResetPcs, LoadPcs, FreePcs, CtrlPcs
  <2>2. Cardinality(Users(e, "ctrl")) > 0 /\ files[e]["ctrl"] > 0
    BY <1>10, <2>1, CommandHasFile
  <2>3. Cardinality(Users(e, "ctrl")) \in Nat  BY FinSets
  <2>4. kind = "ctrl"  BY <1>3, <1>4, <1>8, <2>2 DEF RefFiles, RefKinds
  <2>5. files[e]["ctrl"] > 1  BY <1>1, <1>3, <2>2, <2>3, <2>4
  <2>6. QED  BY <1>3, <1>8, <2>5 DEF RefFiles, RefKinds
<1>11. QED  BY <1>8, <1>9, <1>10

LEMMA ReleaseStep ==
  ASSUME TypeOK, CallInv, BaseInv, NEW e \in Objects, NEW kind \in RefKinds,
         ReleaseRef(e, kind)
  PROVE  BaseInv'
<1>y. TypeOK'  BY TypeStep DEF Next
<1>i. AloneInv /\ LifeInv /\ CountInv /\ PartsInv /\ MapInv  BY DEF BaseInv
<1>1. th' = th /\ state' = state  BY DEF ReleaseRef
<1>2. \A x \in Objects : SamePlaces(x)  BY <1>1, SamePlacesStill
<1>3. enclave_put(e)  BY DEF ReleaseRef
<1>4. AloneInv'  BY <1>1, <1>i DEF AloneInv
<1>5. LifeInv'
  <2>1. CASE refcount[e] = 1
    <3>1. state[e] = "dead" /\ \A u \in Threads : th[u].e # e  BY <2>1, LastFile
    <3>2. \A x \in Objects : x # e => mem'[x] = mem[x]  BY <1>3, PutType
    <3>3. \A u \in Threads : th[u].e \in Objects \cup {None}  BY CallFields DEF TypeOK
    <3>4. QED  BY <1>1, <1>i, <3>1, <3>2, <3>3 DEF LifeInv
  <2>2. CASE refcount[e] # 1
    <3>1. mem' = mem  BY <1>3, <2>2 DEF enclave_put
    <3>2. QED  BY <1>1, <1>i, <3>1 DEF LifeInv
  <2>3. QED  BY <2>1, <2>2
<1>6. CountInv'
  <2>0. files' = [files EXCEPT ![e][kind] = @ - 1]  BY DEF ReleaseRef
  <2>1. ASSUME NEW x \in Objects, x # e  PROVE CountOf(x)'
    BY <1>1, <1>2, <1>3, <1>i, <2>0, <2>1, PutType, LessFile, CountKept DEF CountInv
  <2>2. CountOf(e)'
    <3>1. files[e][kind] > 0
      <4>1. Cardinality(Users(e, kind)) \in Nat  BY FinSets
      <4>2. files[e][kind] \in Nat  BY RefFilesType DEF Kinds
      <4>3. QED  BY <4>1, <4>2 DEF ReleaseRef
    <3>2. mem[e] /\ ~In(e, LoadPcs)  BY <1>i, <3>1, HasFile
    <3>3. RefFiles(e)' = RefFiles(e) - 1 /\ RefFiles(e) \in Nat
      BY <2>0, LessFile, RefFilesType
    <3>4. refcount'[e] = refcount[e] - 1 /\ refcount[e] \in Int  BY <1>3, PutType DEF TypeOK
    <3>5. Owned(e)' <=> Owned(e)  BY <1>1, <1>2, OwnedKept
    <3>6. refcount[e] = RefFiles(e) + (IF Owned(e) THEN 1 ELSE 0) /\ refcount[e] > 0
      BY <1>i, <3>2 DEF CountInv, CountOf
    <3>7. ~In(e, LoadPcs)'  BY <1>2, <3>2 DEF SamePlaces
    <3>8. CASE refcount[e] = 1
      <4>1. ~mem'[e]  BY <1>3, <3>8, PutType
      <4>2. RefFiles(e) = 1  BY <3>8, LastFile
      <4>3. QED  BY <3>3, <4>1, <4>2 DEF CountOf
    <3>9. CASE refcount[e] # 1
      <4>1. mem'[e]  BY <1>3, <3>2, <3>9, PutType
      <4>2. QED  BY <3>3, <3>4, <3>5, <3>6, <3>7, <3>9, <4>1 DEF CountOf
    <3>10. QED  BY <3>8, <3>9
  <2>3. QED  BY <2>1, <2>2 DEF CountInv
<1>7. UNCHANGED <<enclave_map, id, dev, desc, lcall, fs>>  BY DEF ReleaseRef
<1>8. ASSUME NEW x \in Objects  PROVE PartsOf(x)'
  BY <1>1, <1>2, <1>7, <1>i, PartsKept DEF PartsInv
<1>9. ASSUME NEW i \in Slots, NEW x \in Objects, enclave_map'[i] = x  PROVE MapOf(i, x)'
  BY <1>1, <1>2, <1>7, <1>9, <1>i, MapKept DEF MapInv
<1>10. QED  BY <1>4, <1>5, <1>6, <1>8, <1>9 DEF BaseInv, PartsInv, MapInv

-----------------------------------------------------------------------------
(* LOAD and FREE.                                                          *)

\* The other objects, when a step is about e.
LEMMA OthersKept ==
  ASSUME TypeOK, TypeOK', CountInv, PartsInv, MapInv, NEW e \in Objects,
         NEW t \in Threads, NEW place, NEW x, Moves(t, place, x),
         x \in {e, None}, th[t].e \in {e, None},
         \A y \in Objects \ {e} :
            /\ mem'[y] <=> mem[y]
            /\ refcount'[y] = refcount[y] /\ RefFiles(y)' = RefFiles(y)
            /\ state'[y] = state[y] /\ id'[y] = id[y]
            /\ dev'[y] => dev[y]
            /\ fs'[y] => fs[y]
            /\ lcall'[y] = lcall[y] /\ desc'[y] = desc[y]
  PROVE  \A y \in Objects \ {e} :
            CountOf(y)' /\ PartsOf(y)' /\ \A i \in Slots : enclave_map[i] = y => MapOf(i, y)'
<1> SUFFICES ASSUME NEW y \in Objects, y # e
             PROVE  CountOf(y)' /\ PartsOf(y)' /\ \A i \in Slots : enclave_map[i] = y => MapOf(i, y)'
  OBVIOUS
<1>1. SamePlaces(y)  BY SamePlacesMoved, EnclaveAssumption
<1>2. CountOf(y) /\ PartsOf(y) /\ \A i \in Slots : enclave_map[i] = y => MapOf(i, y)
  BY DEF CountInv, PartsInv, MapInv
<1>3. CountOf(y)'  BY <1>1, <1>2, CountKept
<1>4. PartsOf(y)'  BY <1>1, <1>2, PartsKept
<1>5. \A i \in Slots : enclave_map[i] = y => MapOf(i, y)'  BY <1>1, <1>2, MapKept
<1>6. QED  BY <1>3, <1>4, <1>5

\* LOAD's object.
LEMMA Loader ==
  ASSUME AloneInv, LifeInv, NEW t \in Threads, NEW e \in Objects,
         th[t].e = e, th[t].pc \in LoadPcs
  PROVE  /\ state[e] = "dead" /\ mem[e]
         /\ \A u \in Threads \ {t} : th[u].e # e
         /\ \A P : In(e, P) <=> th[t].pc \in P
<1>1. state[e] = "dead" /\ mem[e] /\ e # None  BY EnclaveAssumption DEF LifeInv
<1>2. \A u \in Threads \ {t} : th[u].e # e  BY <1>1 DEF AloneInv
<1>3. QED  BY <1>1, <1>2 DEF In

LEMMA LoadStep ==
  ASSUME "cdev" \notin Faults, TypeOK, CallInv, BaseInv,
         \/ \E t \in Threads, e \in Objects : alloc_enclave_index(t, e)
         \/ \E t \in Threads : Claim(t) \/ pisces_enclave_create(t)
  PROVE  BaseInv'
<1> USE DEF At
<1>p. Pcs = {"none", "claim", "register", "get", "setup", "boot", "r_ctrl", "r_lcall",
          "c_lock", "c_send", "f_dev", "f_proc", "f_fs", "f_lcall", "f_put"}
  BY DEF Pcs
<1>c. /\ LoadPcs = {"claim", "register"}
      /\ FreePcs = {"f_dev", "f_proc", "f_fs", "f_lcall", "f_put"}
      /\ CtrlPcs = {"c_lock", "c_send"}
      /\ ResetPcs = {"setup", "boot", "r_ctrl", "r_lcall"}
  BY DEF CtrlPcs, LoadPcs, FreePcs, ResetPcs
<1>t. th \in [Threads -> Calls]  BY DEF TypeOK
<1>y. TypeOK'  BY TypeStep DEF Next
<1>i. AloneInv /\ LifeInv /\ CountInv /\ PartsInv /\ MapInv  BY DEF BaseInv
<1>n. None \notin Objects  BY EnclaveAssumption
<1>l. ASSUME NEW y \in Objects, files' = files  PROVE RefFiles(y)' = RefFiles(y)
  BY <1>l DEF RefFiles
<1>1. ASSUME NEW t \in Threads, NEW e \in Objects, alloc_enclave_index(t, e)
      PROVE  BaseInv'
  <2>1. Moves(t, "claim", e)  BY <1>1, <1>p, <1>t, BeginSlotMoves DEF alloc_enclave_index
  <2>2. th[t].pc = "none" /\ ~mem[e] /\ \A u \in Threads : th[u].e # e
    BY <1>1 DEF alloc_enclave_index
  <2>3. /\ mem' = [mem EXCEPT ![e] = TRUE]
        /\ UNCHANGED <<enclave_map, id, refcount, state, dev, files, parts>>
    BY <1>1 DEF alloc_enclave_index
  <2>4. mem'[e] /\ \A y \in Objects \ {e} : mem'[y] <=> mem[y]  BY <2>3 DEF TypeOK
  <2>5. th[t].e = None  BY <2>2 DEF CallInv
  <2>6. state[e] = "dead" /\ \A P : ~In(e, P)  BY <1>i, <2>2 DEF LifeInv, In
  <2>7. AloneInv'  BY <1>i, <2>1, <2>2, AloneBegin
  <2>8. LifeInv'
    <3>1. \A u \in Threads : th[u].e # None => th[u].e \in Objects /\ th[u].e # e
      BY <2>2, CallFields DEF TypeOK
    <3>2. th'[t].pc = "claim" /\ th'[t].e = e
          /\ \A u \in Threads : u # t => th'[u].pc = th[u].pc /\ th'[u].e = th[u].e
      BY <2>1 DEF Moves
    <3>3. QED  BY <1>c, <1>i, <2>3, <2>4, <2>6, <3>1, <3>2 DEF LifeInv
  <2>9. \A y \in Objects \ {e} :
            CountOf(y)' /\ PartsOf(y)' /\ \A i \in Slots : enclave_map[i] = y => MapOf(i, y)'
    BY <1>i, <1>y, <1>l, <2>1, <2>3, <2>4, <2>5, OthersKept DEF parts
  <2>10. CountOf(e)'
    <3>1. RefFiles(e)' = 0  BY <1>i, <1>l, <2>2, <2>3 DEF CountInv, CountOf
    <3>2. In(e, LoadPcs)'  BY <1>c, <2>1, InMoved
    <3>3. QED  BY <3>1, <3>2 DEF CountOf
  <2>11. PartsOf(e)'
    <3>1. ~dev[e] /\ lcall[e] = "none" /\ ~fs[e] /\ desc[e] # "live"
      BY <1>i, <2>6 DEF PartsInv, PartsOf
    <3>2. QED  BY <2>3, <3>1 DEF PartsOf, parts
  <2>12. \A i \in Slots : enclave_map[i] # e
    BY <1>i, <2>2, <2>6 DEF MapInv, MapOf
  <2>13. CountInv' /\ PartsInv' /\ MapInv'
    BY <2>3, <2>9, <2>10, <2>11, <2>12 DEF CountInv, PartsInv, MapInv
  <2>14. QED  BY <2>7, <2>8, <2>13 DEF BaseInv
<1>2. ASSUME NEW t \in Threads, Claim(t)
      PROVE  BaseInv'
  <2>1. Moves(t, "register", th[t].e) /\ th'[t].slot = th[t].slot
    BY <1>2, <1>p, <1>t, GotoMoves DEF Claim
  <2>2. PICK e \in Objects, s \in Slots : e = th[t].e /\ s = th[t].slot
    BY <1>2, OnObject DEF Claim
  <2>3. th[t].pc = "claim" /\ UNCHANGED <<mem, id, refcount, state, dev, files, parts>>
    BY <1>2 DEF Claim
  <2>4. enclave_map' = [enclave_map EXCEPT ![s] = e]  BY <1>2, <2>2 DEF Claim
  <2>5. Moves(t, "register", e)  BY <2>1, <2>2
  <2>6. /\ state[e] = "dead" /\ mem[e]
        /\ \A u \in Threads \ {t} : th[u].e # e
        /\ \A P : In(e, P) <=> "claim" \in P
    BY <1>c, <1>i, <2>2, <2>3, Loader
  <2>7. AloneInv'  BY <1>c, <1>i, <2>1, <2>3, AloneKept
  <2>8. LifeInv'  BY <1>c, <1>i, <2>1, <2>3, LifeKept
  <2>9. \A y \in Objects \ {e} :
            CountOf(y)' /\ PartsOf(y)' /\ \A i \in Slots : enclave_map[i] = y => MapOf(i, y)'
    BY <1>i, <1>y, <1>l, <2>2, <2>3, <2>5, OthersKept DEF parts
  <2>10. CountOf(e)'
    <3>1. RefFiles(e)' = 0  BY <1>c, <1>i, <1>l, <2>3, <2>6 DEF CountInv, CountOf
    <3>2. In(e, LoadPcs)'  BY <1>c, <2>5, InMoved
    <3>3. QED  BY <3>1, <3>2 DEF CountOf
  <2>11. PartsOf(e)'
    <3>1. ~dev[e] /\ lcall[e] = "none" /\ ~fs[e] /\ desc[e] # "live"
      BY <1>i, <2>6 DEF PartsInv, PartsOf
    <3>2. QED  BY <2>3, <3>1 DEF PartsOf, parts
  <2>12. MapInv'
    <3>1. \A i \in Slots : enclave_map[i] # e
      BY <1>i, <2>2, <2>3, <2>6 DEF MapInv, MapOf
    <3>2. MapOf(s, e)'
      <4>1. th'[t].e = e /\ th'[t].pc = "register" /\ th'[t].slot = s
        BY <2>1, <2>2, <2>5 DEF Moves
      <4>2. QED  BY <4>1 DEF MapOf
    <3>3. enclave_map'[s] = e /\ \A i \in Slots : i # s => enclave_map'[i] = enclave_map[i]
      BY <2>4 DEF TypeOK
    <3>4. QED  BY <2>9, <3>1, <3>2, <3>3 DEF MapInv
  <2>13. CountInv' /\ PartsInv'  BY <2>9, <2>10, <2>11 DEF CountInv, PartsInv
  <2>14. QED  BY <2>7, <2>8, <2>12, <2>13 DEF BaseInv
<1>3. ASSUME NEW t \in Threads, pisces_enclave_create(t)
      PROVE  BaseInv'
  <2>1. Moves(t, "none", None)  BY <1>3, <1>t, ReturnMoves DEF pisces_enclave_create
  <2>2. PICK e \in Objects, s \in Slots : e = th[t].e /\ s = th[t].slot
    BY <1>3, OnObject DEF pisces_enclave_create
  <2>3. /\ th[t].pc = "register"
        /\ id' = [id EXCEPT ![e] = s]
        /\ refcount' = [refcount EXCEPT ![e] = 1]
        /\ state' = [state EXCEPT ![e] = "loaded"]
        /\ fs' = [fs EXCEPT ![e] = TRUE]
        /\ desc' = [desc EXCEPT ![e] = "null"]
        /\ lcall' = [lcall EXCEPT ![e] = "none"]
        /\ dev' = [dev EXCEPT ![e] = TRUE]
        /\ mem' = [mem EXCEPT ![e] = TRUE]
        /\ UNCHANGED <<enclave_map, files>>
    BY <1>3, <2>2 DEF pisces_enclave_create
  <2>4. /\ mem'[e] /\ state'[e] = "loaded" /\ refcount'[e] = 1 /\ id'[e] = s
        /\ \A y \in Objects \ {e} :
            /\ mem'[y] <=> mem[y]
            /\ refcount'[y] = refcount[y]
            /\ state'[y] = state[y] /\ id'[y] = id[y]
            /\ dev'[y] => dev[y]
            /\ fs'[y] => fs[y]
            /\ lcall'[y] = lcall[y] /\ desc'[y] = desc[y]
    BY <2>3 DEF TypeOK
  <2>5. /\ state[e] = "dead" /\ mem[e]
        /\ \A u \in Threads \ {t} : th[u].e # e
        /\ \A P : In(e, P) <=> "register" \in P
    BY <1>c, <1>i, <2>2, <2>3, Loader
  <2>6. AloneInv'  BY <1>i, <2>1, AloneKept
  <2>7. LifeInv'
    <3>1. \A u \in Threads : th[u].e # None => th[u].e \in Objects
      BY CallFields DEF TypeOK
    <3>2. th'[t].pc = "none" /\ th'[t].e = None
          /\ \A u \in Threads : u # t =>
               th'[u].pc = th[u].pc /\ th'[u].e = th[u].e /\ th[u].e # e
      BY <2>1, <2>5 DEF Moves
    <3>3. \A u \in Threads : th[u].pc # "none" => th[u].e # None  BY DEF CallInv
    <3>4. QED  BY <1>c, <1>i, <2>4, <3>1, <3>2, <3>3 DEF LifeInv
  <2>8. \A y \in Objects : RefFiles(y)' = RefFiles(y)  BY <1>l, <2>3
  <2>9. \A y \in Objects \ {e} :
            CountOf(y)' /\ PartsOf(y)' /\ \A i \in Slots : enclave_map[i] = y => MapOf(i, y)'
    BY <1>i, <1>y, <2>1, <2>2, <2>4, <2>8, OthersKept
  <2>10. CountOf(e)'
    <3>1. RefFiles(e)' = 0  BY <1>c, <1>i, <2>5, <2>8 DEF CountInv, CountOf
    <3>2. Owned(e)'  BY <2>4 DEF Owned
    <3>3. ~In(e, LoadPcs)'  BY <1>c, <1>n, <2>1, <2>5, InMoved
    <3>4. QED  BY <2>4, <3>1, <3>2, <3>3 DEF CountOf
  <2>11. PartsOf(e)'  BY <2>4 DEF PartsOf
  <2>12. MapInv'
    <3>1. ASSUME NEW i \in Slots, enclave_map[i] = e  PROVE i = s
      BY <1>i, <2>2, <2>5, <3>1 DEF MapInv, MapOf
    <3>2. MapOf(s, e)'  BY <2>4 DEF MapOf
    <3>3. QED  BY <2>3, <2>9, <3>1, <3>2 DEF MapInv
  <2>13. CountInv' /\ PartsInv'  BY <2>9, <2>10, <2>11 DEF CountInv, PartsInv
  <2>14. QED  BY <2>6, <2>7, <2>12, <2>13 DEF BaseInv
<1>4. QED  BY <1>1, <1>2, <1>3

\* FREE's object: besides FREE there are commands on it only.
LEMMA Freer ==
  ASSUME AloneInv, LifeInv, NEW t \in Threads, NEW e \in Objects,
         th[t].e = e, th[t].pc \in FreePcs
  PROVE  /\ state[e] = "dead" /\ mem[e] /\ ~In(e, LoadPcs)
         /\ \A u \in Threads \ {t} : th[u].e = e => th[u].pc \in CtrlPcs
         /\ \A P \in SUBSET FreePcs : In(e, P) <=> th[t].pc \in P
<1>1. state[e] = "dead" /\ mem[e] /\ e # None  BY EnclaveAssumption DEF LifeInv
<1>2. \A u \in Threads \ {t} : th[u].e = e => th[u].pc \in CtrlPcs  BY <1>1 DEF AloneInv
<1>3. CtrlPcs \cap FreePcs = {} /\ CtrlPcs \cap LoadPcs = {} /\ FreePcs \cap LoadPcs = {}
  BY DEF CtrlPcs, FreePcs, LoadPcs
<1>4. QED  BY <1>1, <1>2, <1>3 DEF In

LEMMA FreerGoes ==
  ASSUME AloneInv, LifeInv, NEW t \in Threads, NEW e \in Objects,
         th[t].e = e, th[t].pc \in FreePcs, NEW place \in FreePcs, Moves(t, place, e)
  PROVE  ~In(e, LoadPcs)' /\ \A P \in SUBSET FreePcs : In(e, P)' <=> place \in P
<1>1. \A u \in Threads \ {t} : th[u].e = e => th[u].pc \in CtrlPcs  BY Freer
<1>2. CtrlPcs \cap FreePcs = {} /\ CtrlPcs \cap LoadPcs = {} /\ FreePcs \cap LoadPcs = {}
  BY DEF CtrlPcs, FreePcs, LoadPcs
<1>3. \A P : In(e, P)' <=> \/ place \in P
                           \/ \E u \in Threads \ {t} : th[u].e = e /\ th[u].pc \in P
  BY InMoved
<1>4. QED  BY <1>1, <1>2, <1>3

LEMMA Owner ==
  ASSUME NEW e
  PROVE  /\ In(e, FreePcs) => Owned(e)
         /\ In(e, FreePcs)' => Owned(e)'
  BY DEF Owned, In, InFree, FreePcs

LEMMA FreeStep ==
  ASSUME "free" \notin Faults, TypeOK, CallInv, BaseInv,
         \/ \E t \in Threads, i \in Slots : pisces_enclave_free(t, i)
         \/ \E t \in Threads : \/ FreeDev(t) \/ FreeProc(t) \/ FreeFs(t) \/ FreeLcall(t)
                               \/ FreePut(t)
  PROVE  BaseInv'
<1> USE DEF At
<1>p. Pcs = {"none", "claim", "register", "get", "setup", "boot", "r_ctrl", "r_lcall",
          "c_lock", "c_send", "f_dev", "f_proc", "f_fs", "f_lcall", "f_put"}
  BY DEF Pcs
<1>c. /\ LoadPcs = {"claim", "register"}
      /\ FreePcs = {"f_dev", "f_proc", "f_fs", "f_lcall", "f_put"}
      /\ CtrlPcs = {"c_lock", "c_send"}
      /\ ResetPcs = {"setup", "boot", "r_ctrl", "r_lcall"}
  BY DEF CtrlPcs, LoadPcs, FreePcs, ResetPcs
<1>t. th \in [Threads -> Calls]  BY DEF TypeOK
<1>y. TypeOK'  BY TypeStep DEF Next
<1>i. AloneInv /\ LifeInv /\ CountInv /\ PartsInv /\ MapInv  BY DEF BaseInv
<1>n. None \notin Objects  BY EnclaveAssumption
<1>l. ASSUME NEW y \in Objects, files' = files  PROVE RefFiles(y)' = RefFiles(y)
  BY <1>l DEF RefFiles
<1>1. ASSUME NEW t \in Threads, NEW i \in Slots, pisces_enclave_free(t, i)
      PROVE  BaseInv'
  <2>1. PICK e \in Objects : e = enclave_map[i]  BY <1>1 DEF TypeOK, pisces_enclave_free
  <2>2. Moves(t, "f_dev", e)  BY <1>1, <1>p, <1>t, <2>1, BeginMoves DEF pisces_enclave_free
  <2>3. /\ th[t].pc = "none"
        /\ state' = [state EXCEPT ![e] = "dead"]
        /\ UNCHANGED <<enclave_map, mem, id, refcount, dev, files, parts>>
    BY <1>1, <2>1 DEF pisces_enclave_free
  <2>4. \A u \in Threads : th[u].e = e => th[u].pc \in CtrlPcs
    BY <1>1, <1>c, <2>1 DEF pisces_enclave_free, Orderly, InCtrl
  <2>5. \A P \in SUBSET FreePcs : ~In(e, P)  BY <1>c, <2>4 DEF In
  <2>6. id[e] = i /\ state[e] # "dead"
    <3>1. MapOf(i, e)  BY <1>i, <2>1 DEF MapInv
    <3>2. ~In(e, {"f_dev", "f_proc"})  BY <1>c, <2>5
    <3>3. QED  BY <1>c, <2>4, <3>1, <3>2 DEF MapOf
  <2>7. mem[e] /\ ~In(e, LoadPcs)  BY <1>i, <2>6, Living
  <2>8. th[t].e = None  BY <2>3 DEF CallInv
  <2>9. AloneInv'  BY <1>c, <1>i, <2>2, <2>4, AloneBegin
  <2>10. state'[e] = "dead" /\ \A y \in Objects \ {e} : state'[y] = state[y]
    BY <2>3 DEF TypeOK
  <2>11. LifeInv'
    <3>1. \A u \in Threads : th[u].e # None => th[u].e \in Objects
      BY CallFields DEF TypeOK
    <3>2. th'[t].pc = "f_dev" /\ th'[t].e = e
          /\ \A u \in Threads : u # t => th'[u].pc = th[u].pc /\ th'[u].e = th[u].e
      BY <2>2 DEF Moves
    <3>3. \A u \in Threads : th[u].pc # "none" => th[u].e # None  BY DEF CallInv
    <3>4. \A u \in Threads : th'[u].e # None => mem'[th'[u].e]
      BY <1>i, <2>3, <2>7, <3>2 DEF LifeInv
    <3>5. \A u \in Threads : th'[u].pc \in LoadPcs \cup FreePcs => state'[th'[u].e] = "dead"
      BY <1>c, <1>i, <2>4, <2>10, <3>1, <3>2, <3>3 DEF LifeInv
    <3>6. \A u \in Threads : th'[u].pc \in ResetPcs \cup {"get"} => state'[th'[u].e] # "dead"
      BY <1>c, <1>i, <2>4, <2>10, <3>1, <3>2, <3>3 DEF LifeInv
    <3>7. QED  BY <1>i, <2>3, <2>10, <3>4, <3>5, <3>6 DEF LifeInv
  <2>12. \A y \in Objects \ {e} :
            CountOf(y)' /\ PartsOf(y)' /\ \A j \in Slots : enclave_map[j] = y => MapOf(j, y)'
    BY <1>i, <1>y, <1>l, <2>2, <2>3, <2>8, <2>10, OthersKept DEF parts
  <2>13. \A P \in SUBSET FreePcs : In(e, P)' <=> "f_dev" \in P
    BY <2>2, <2>5, <2>8, <1>n, InMoved
  <2>14. CountOf(e)'
    <3>1. Owned(e)'  BY <1>c, <2>13, Owner
    <3>2. Owned(e)  BY <2>6 DEF Owned
    <3>3. RefFiles(e)' = RefFiles(e)  BY <1>l, <2>3
    <3>4. ~In(e, LoadPcs)'  BY <1>c, <2>2, <2>4, InMoved
    <3>5. QED  BY <1>i, <2>3, <2>7, <3>1, <3>2, <3>3, <3>4 DEF CountInv, CountOf
  <2>15. PartsOf(e)'  BY <1>c, <2>13 DEF PartsOf
  <2>16. \A j \in Slots : enclave_map[j] = e => MapOf(j, e)'
    <3>1. ASSUME NEW j \in Slots, enclave_map[j] = e  PROVE id[e] = j
      BY <1>c, <1>i, <2>4, <3>1 DEF MapInv, MapOf
    <3>2. QED  BY <1>c, <2>3, <2>13, <3>1 DEF MapOf
  <2>17. CountInv' /\ PartsInv' /\ MapInv'
    BY <2>3, <2>12, <2>14, <2>15, <2>16 DEF CountInv, PartsInv, MapInv
  <2>18. QED  BY <2>9, <2>11, <2>17 DEF BaseInv
<1>2. ASSUME NEW t \in Threads, FreeDev(t)
      PROVE  BaseInv'
  <2>1. Moves(t, "f_proc", th[t].e)  BY <1>2, <1>p, <1>t, DeinitMoves DEF FreeDev
  <2>2. PICK e \in Objects : e = th[t].e  BY <1>2, OnObject DEF FreeDev
  <2>3. th[t].pc = "f_dev" /\ Moves(t, "f_proc", e)  BY <1>2, <2>1, <2>2 DEF FreeDev
  <2>4. state[e] = "dead" /\ mem[e] /\ ~In(e, LoadPcs)
        /\ \A P \in SUBSET FreePcs : In(e, P) <=> "f_dev" \in P
    BY <1>c, <1>i, <2>2, <2>3, Freer
  <2>5. ~In(e, LoadPcs)' /\ \A P \in SUBSET FreePcs : In(e, P)' <=> "f_proc" \in P
    BY <1>c, <1>i, <2>2, <2>3, FreerGoes
  <2>6. AloneInv'  BY <1>c, <1>i, <2>1, <2>3, AloneKept
  <2>7. mem' = mem /\ state' = state  BY <1>2 DEF FreeDev, parts
  <2>8. LifeInv'  BY <1>c, <1>i, <2>1, <2>3, <2>7, LifeKept
  <2>9. /\ dev' = [dev EXCEPT ![e] = FALSE]
        /\ desc' = [desc EXCEPT ![e] = IF @ = "null" THEN @ ELSE "freed"]
        /\ UNCHANGED <<enclave_map, id, refcount, files, lcall, fs>>
    BY <1>2, <2>2 DEF FreeDev, pisces_ctrl_deinit
  <2>10. /\ ~dev'[e] /\ desc'[e] # "live"
         /\ \A y \in Objects \ {e} : dev'[y] = dev[y] /\ desc'[y] = desc[y]
    BY <2>9 DEF TypeOK
  <2>11. \A y \in Objects \ {e} :
            CountOf(y)' /\ PartsOf(y)' /\ \A i \in Slots : enclave_map[i] = y => MapOf(i, y)'
    BY <1>i, <1>y, <1>l, <2>2, <2>3, <2>7, <2>9, <2>10, OthersKept
  <2>12. CountOf(e)'
    <3>o. Owned(e) /\ Owned(e)'
      BY <1>c, <2>4, <2>5, Owner
    <3>1. QED  BY <1>i, <1>l, <2>4, <2>5, <2>7, <2>9, <3>o DEF CountInv, CountOf
  <2>13. PartsOf(e)'  BY <1>c, <2>5, <2>10 DEF PartsOf
  <2>14. \A j \in Slots : enclave_map[j] = e => MapOf(j, e)'
    <3>1. ASSUME NEW j \in Slots, enclave_map[j] = e  PROVE id[e] = j
      BY <1>c, <1>i, <2>4, <3>1 DEF MapInv, MapOf, In
    <3>2. QED  BY <1>c, <2>5, <2>9, <3>1 DEF MapOf
  <2>15. CountInv' /\ PartsInv' /\ MapInv'
    BY <2>9, <2>11, <2>12, <2>13, <2>14 DEF CountInv, PartsInv, MapInv
  <2>16. QED  BY <2>6, <2>8, <2>15 DEF BaseInv
<1>3. ASSUME NEW t \in Threads, FreeProc(t)
      PROVE  BaseInv'
  <2>1. Moves(t, "f_fs", th[t].e)  BY <1>3, <1>p, <1>t, GotoMoves DEF FreeProc
  <2>2. PICK e \in Objects : e = th[t].e  BY <1>3, OnObject DEF FreeProc
  <2>3. th[t].pc = "f_proc" /\ Moves(t, "f_fs", e)  BY <1>3, <2>1, <2>2 DEF FreeProc
  <2>4. state[e] = "dead" /\ mem[e] /\ ~In(e, LoadPcs)
        /\ \A P \in SUBSET FreePcs : In(e, P) <=> "f_proc" \in P
    BY <1>c, <1>i, <2>2, <2>3, Freer
  <2>5. ~In(e, LoadPcs)' /\ \A P \in SUBSET FreePcs : In(e, P)' <=> "f_fs" \in P
    BY <1>c, <1>i, <2>2, <2>3, FreerGoes
  <2>6. AloneInv'  BY <1>c, <1>i, <2>1, <2>3, AloneKept
  <2>7. mem' = mem /\ state' = state  BY <1>3 DEF FreeProc, parts
  <2>8. LifeInv'  BY <1>c, <1>i, <2>1, <2>3, <2>7, LifeKept
  <2>9. /\ files' = [files EXCEPT ![e]["proc"] = 0]
        /\ refcount' = [refcount EXCEPT ![e] = @ - files[e]["proc"]]
        /\ enclave_map' = [enclave_map EXCEPT ![id[e]] = None]
        /\ UNCHANGED <<id, dev, desc, lcall, fs>>
    BY <1>3, <2>2 DEF FreeProc, parts
  <2>10. /\ refcount'[e] = refcount[e] - files[e]["proc"]
         /\ \A y \in Objects \ {e} : refcount'[y] = refcount[y]
    BY <2>9 DEF TypeOK
  <2>11. /\ RefFiles(e)' = RefFiles(e) - files[e]["proc"]
         /\ \A y \in Objects \ {e} : RefFiles(y)' = RefFiles(y)
         /\ RefFiles(e) \in Nat /\ files[e]["proc"] \in Nat /\ RefFiles(e)' \in Nat
    <3>1. /\ files'[e]["proc"] = 0 /\ files'[e]["dev"] = files[e]["dev"]
          /\ files'[e]["ctrl"] = files[e]["ctrl"]
          /\ \A y \in Objects \ {e} : files'[y] = files[y]
      BY <2>9 DEF TypeOK, Kinds, RefKinds
    <3>2. \A k \in RefKinds : files[e][k] \in Nat  BY RefFilesType DEF Kinds
    <3>3. QED  BY <3>1, <3>2 DEF RefFiles, RefKinds
  <2>12. \A y \in Objects \ {e} :
            CountOf(y)' /\ PartsOf(y)' /\ \A i \in Slots : enclave_map[i] = y => MapOf(i, y)'
    BY <1>i, <1>y, <2>2, <2>3, <2>7, <2>9, <2>10, <2>11, OthersKept
  <2>13. CountOf(e)'
    <3>o. Owned(e) /\ Owned(e)'
      BY <1>c, <2>4, <2>5, Owner
    <3>1. refcount[e] = RefFiles(e) + 1  BY <1>i, <2>4, <3>o DEF CountInv, CountOf
    <3>2. QED  BY <2>4, <2>5, <2>7, <2>10, <2>11, <3>o, <3>1 DEF CountOf
  <2>14. PartsOf(e)'
    <3>1. ~dev[e] /\ desc[e] # "live"  BY <1>c, <1>i, <2>4 DEF PartsInv, PartsOf
    <3>2. QED  BY <1>c, <2>5, <2>9, <3>1 DEF PartsOf
  <2>15. MapInv'
    <3>1. \A j \in Slots : enclave_map[j] = e => id[e] = j
      BY <1>c, <1>i, <2>4 DEF MapInv, MapOf, In
    <3>2. enclave_map'[id[e]] = None /\ id[e] \in Slots
          /\ \A j \in Slots : j # id[e] => enclave_map'[j] = enclave_map[j]
      BY <2>9 DEF TypeOK
    <3>3. QED  BY <1>n, <2>12, <3>1, <3>2 DEF MapInv
  <2>16. CountInv' /\ PartsInv'  BY <2>12, <2>13, <2>14 DEF CountInv, PartsInv
  <2>17. QED  BY <2>6, <2>8, <2>15, <2>16 DEF BaseInv
<1>4. ASSUME NEW t \in Threads, FreeFs(t)
      PROVE  BaseInv'
  <2>1. Moves(t, "f_lcall", th[t].e)  BY <1>4, <1>p, <1>t, GotoMoves DEF FreeFs
  <2>2. PICK e \in Objects : e = th[t].e  BY <1>4, OnObject DEF FreeFs
  <2>3. th[t].pc = "f_fs" /\ Moves(t, "f_lcall", e)  BY <1>4, <2>1, <2>2 DEF FreeFs
  <2>4. state[e] = "dead" /\ mem[e] /\ ~In(e, LoadPcs)
        /\ \A P \in SUBSET FreePcs : In(e, P) <=> "f_fs" \in P
    BY <1>c, <1>i, <2>2, <2>3, Freer
  <2>5. ~In(e, LoadPcs)' /\ \A P \in SUBSET FreePcs : In(e, P)' <=> "f_lcall" \in P
    BY <1>c, <1>i, <2>2, <2>3, FreerGoes
  <2>6. AloneInv'  BY <1>c, <1>i, <2>1, <2>3, AloneKept
  <2>7. mem' = mem /\ state' = state  BY <1>4 DEF FreeFs, parts
  <2>8. LifeInv'  BY <1>c, <1>i, <2>1, <2>3, <2>7, LifeKept
  <2>n. \A j \in Slots : enclave_map[j] # e
    <3>1. ~In(e, {"f_dev", "f_proc"})  BY <1>c, <2>4
    <3>2. \A u \in Threads : th[u].e = e => th[u].pc # "register"  BY <1>c, <2>4 DEF In
    <3>3. QED  BY <1>i, <2>4, <3>1, <3>2 DEF MapInv, MapOf
  <2>9. /\ fs' = [fs EXCEPT ![e] = FALSE]
        /\ UNCHANGED <<enclave_map, id, refcount, files, dev, desc, lcall>>
    BY <1>4, <2>2 DEF FreeFs
  <2>10. ~fs'[e] /\ \A y \in Objects \ {e} : fs'[y] = fs[y]
    BY <2>9 DEF TypeOK
  <2>11. \A y \in Objects \ {e} :
            CountOf(y)' /\ PartsOf(y)' /\ \A i \in Slots : enclave_map[i] = y => MapOf(i, y)'
    BY <1>i, <1>y, <1>l, <2>2, <2>3, <2>7, <2>9, <2>10, OthersKept
  <2>12. CountOf(e)'
    <3>o. Owned(e) /\ Owned(e)'
      BY <1>c, <2>4, <2>5, Owner
    <3>1. QED  BY <1>i, <1>l, <2>4, <2>5, <2>7, <2>9, <3>o DEF CountInv, CountOf
  <2>13. PartsOf(e)'
    <3>1. ~dev[e] /\ desc[e] # "live" 
      BY <1>c, <1>i, <2>4 DEF PartsInv, PartsOf
    <3>2. QED  BY <1>c, <2>5, <2>9, <2>10, <3>1 DEF PartsOf
  <2>14. CountInv' /\ PartsInv' /\ MapInv'
    BY <2>n, <2>9, <2>11, <2>12, <2>13 DEF CountInv, PartsInv, MapInv
  <2>15. QED  BY <2>6, <2>8, <2>14 DEF BaseInv
<1>5. ASSUME NEW t \in Threads, FreeLcall(t)
      PROVE  BaseInv'
  <2>1. Moves(t, "f_put", th[t].e)  BY <1>5, <1>p, <1>t, GotoMoves DEF FreeLcall
  <2>2. PICK e \in Objects : e = th[t].e  BY <1>5, OnObject DEF FreeLcall
  <2>3. th[t].pc = "f_lcall" /\ Moves(t, "f_put", e)  BY <1>5, <2>1, <2>2 DEF FreeLcall
  <2>4. state[e] = "dead" /\ mem[e] /\ ~In(e, LoadPcs)
        /\ \A P \in SUBSET FreePcs : In(e, P) <=> "f_lcall" \in P
    BY <1>c, <1>i, <2>2, <2>3, Freer
  <2>5. ~In(e, LoadPcs)' /\ \A P \in SUBSET FreePcs : In(e, P)' <=> "f_put" \in P
    BY <1>c, <1>i, <2>2, <2>3, FreerGoes
  <2>6. AloneInv'  BY <1>c, <1>i, <2>1, <2>3, AloneKept
  <2>7. mem' = mem /\ state' = state  BY <1>5 DEF FreeLcall, parts
  <2>8. LifeInv'  BY <1>c, <1>i, <2>1, <2>3, <2>7, LifeKept
  <2>n. \A j \in Slots : enclave_map[j] # e
    <3>1. ~In(e, {"f_dev", "f_proc"})  BY <1>c, <2>4
    <3>2. \A u \in Threads : th[u].e = e => th[u].pc # "register"  BY <1>c, <2>4 DEF In
    <3>3. QED  BY <1>i, <2>4, <3>1, <3>2 DEF MapInv, MapOf
  <2>9. /\ lcall' = [lcall EXCEPT ![e] = "none"]
        /\ UNCHANGED <<enclave_map, id, refcount, files, dev, desc, fs>>
    BY <1>5, <2>2 DEF FreeLcall
  <2>10. lcall'[e] = "none" /\ \A y \in Objects \ {e} : lcall'[y] = lcall[y]
    BY <2>9 DEF TypeOK
  <2>11. \A y \in Objects \ {e} :
            CountOf(y)' /\ PartsOf(y)' /\ \A i \in Slots : enclave_map[i] = y => MapOf(i, y)'
    BY <1>i, <1>y, <1>l, <2>2, <2>3, <2>7, <2>9, <2>10, OthersKept
  <2>12. CountOf(e)'
    <3>o. Owned(e) /\ Owned(e)'
      BY <1>c, <2>4, <2>5, Owner
    <3>1. QED  BY <1>i, <1>l, <2>4, <2>5, <2>7, <2>9, <3>o DEF CountInv, CountOf
  <2>13. PartsOf(e)'
    <3>1. ~dev[e] /\ desc[e] # "live" /\ ~fs[e]
      BY <1>c, <1>i, <2>4 DEF PartsInv, PartsOf
    <3>2. QED  BY <1>c, <2>5, <2>9, <2>10, <3>1 DEF PartsOf
  <2>14. CountInv' /\ PartsInv' /\ MapInv'
    BY <2>n, <2>9, <2>11, <2>12, <2>13 DEF CountInv, PartsInv, MapInv
  <2>15. QED  BY <2>6, <2>8, <2>14 DEF BaseInv
<1>6. ASSUME NEW t \in Threads, FreePut(t)
      PROVE  BaseInv'
  <2>1. Moves(t, "none", None)  BY <1>6, <1>t, ReturnMoves DEF FreePut
  <2>2. PICK e \in Objects : e = th[t].e  BY <1>6, OnObject DEF FreePut
  <2>3. th[t].pc = "f_put" /\ enclave_put(e)  BY <1>6, <2>2 DEF FreePut
  <2>4. /\ state[e] = "dead" /\ mem[e] /\ ~In(e, LoadPcs)
        /\ \A P \in SUBSET FreePcs : In(e, P) <=> "f_put" \in P
        /\ \A u \in Threads \ {t} : th[u].e = e => th[u].pc \in CtrlPcs
    BY <1>c, <1>i, <2>2, <2>3, Freer
  <2>5. ~In(e, LoadPcs)' /\ ~In(e, FreePcs)'
    BY <1>c, <1>n, <2>1, <2>4, InMoved
  <2>6. AloneInv'  BY <1>i, <2>1, AloneKept
  <2>7. UNCHANGED <<enclave_map, id, state, dev, files, desc, lcall, fs>>
    BY <1>6 DEF FreePut
  <2>8. /\ refcount'[e] = refcount[e] - 1 /\ refcount[e] \in Int
        /\ \A y \in Objects \ {e} : refcount'[y] = refcount[y] /\ (mem'[y] <=> mem[y])
        /\ refcount[e] = 1 => ~mem'[e]
        /\ refcount[e] # 1 => (mem'[e] <=> mem[e])
    BY <2>3, PutType DEF TypeOK
  <2>9. refcount[e] = RefFiles(e) + 1 /\ RefFiles(e) \in Nat
    <3>1. Owned(e)  BY <1>c, <2>4, Owner
    <3>2. QED  BY <1>i, <2>4, <3>1, RefFilesType DEF CountInv, CountOf
  <2>10. LifeInv'
    <3>1. ASSUME NEW u \in Threads, u # t, th[u].e = e  PROVE refcount[e] # 1
      <4>1. files[e]["ctrl"] > 0  BY <2>4, <3>1, CommandHasFile
      <4>2. \A k \in RefKinds : files[e][k] \in Nat  BY RefFilesType DEF Kinds
      <4>3. QED  BY <2>9, <4>1, <4>2 DEF RefFiles, RefKinds
    <3>2. th'[t].pc = "none" /\ th'[t].e = None
          /\ \A u \in Threads : u # t => th'[u].pc = th[u].pc /\ th'[u].e = th[u].e
      BY <2>1 DEF Moves
    <3>3. \A u \in Threads : th[u].e # None => th[u].e \in Objects
      BY CallFields DEF TypeOK
    <3>4. \A u \in Threads : th'[u].e # None => mem'[th'[u].e]
      BY <1>i, <2>8, <3>1, <3>2, <3>3 DEF LifeInv
    <3>5. \A y \in Objects : state'[y] # "dead" => mem'[y]
      BY <1>i, <2>4, <2>7, <2>8 DEF LifeInv
    <3>6. QED  BY <1>c, <1>i, <2>7, <3>2, <3>4, <3>5 DEF LifeInv
  <2>11. \A y \in Objects \ {e} :
            CountOf(y)' /\ PartsOf(y)' /\ \A i \in Slots : enclave_map[i] = y => MapOf(i, y)'
    BY <1>i, <1>y, <1>l, <2>1, <2>2, <2>7, <2>8, OthersKept
  <2>12. CountOf(e)'
    <3>1. ~Owned(e)'  BY <2>4, <2>5, <2>7 DEF Owned, In, InFree, FreePcs
    <3>2. RefFiles(e)' = RefFiles(e)  BY <1>l, <2>7
    <3>3. QED  BY <2>4, <2>5, <2>8, <2>9, <3>1, <3>2 DEF CountOf
  <2>13. PartsOf(e)'
    <3>1. ~dev[e] /\ desc[e] # "live" /\ ~fs[e] /\ lcall[e] = "none"
      BY <1>c, <1>i, <2>4 DEF PartsInv, PartsOf
    <3>2. QED  BY <2>7, <3>1 DEF PartsOf
  <2>n. \A j \in Slots : enclave_map[j] # e
    <3>1. ~In(e, {"f_dev", "f_proc"})  BY <1>c, <2>4
    <3>2. \A u \in Threads : th[u].e = e => th[u].pc # "register"  BY <1>c, <2>4 DEF In
    <3>3. QED  BY <1>i, <2>4, <3>1, <3>2 DEF MapInv, MapOf
  <2>14. CountInv' /\ PartsInv' /\ MapInv'
    BY <2>n, <2>7, <2>11, <2>12, <2>13 DEF CountInv, PartsInv, MapInv
  <2>15. QED  BY <2>6, <2>10, <2>14 DEF BaseInv
<1>7. QED  BY <1>1, <1>2, <1>3, <1>4, <1>5, <1>6

LEMMA BaseStep ==
  ASSUME "free" \notin Faults, "cdev" \notin Faults,
         TypeOK, CallInv, BaseInv, Next
  PROVE  BaseInv'
  BY QuietStep, OpenStep, ReleaseStep, LoadStep, FreeStep DEF Next

-----------------------------------------------------------------------------
(* The first theorems.                                                     *)

LEMMA TypeInit == Init => TypeOK /\ CallInv
<1> SUFFICES ASSUME Init  PROVE TypeOK /\ CallInv  OBVIOUS
<1>1. TypeOK
  <2>1. th \in [Threads -> Calls]  BY FreeCall DEF Init
  <2>2. id \in [Objects -> Slots]  BY ZeroSlot DEF Init
  <2>3. files \in [Objects -> [Kinds -> 0 .. MaxFiles]]  BY EnclaveAssumption DEF Init
  <2>4. QED  BY <2>1, <2>2, <2>3 DEF Init, TypeOK
<1>2. \A t \in Threads : th[t].pc = "none" /\ th[t].e = None  BY DEF Init, Free0
<1>3. \A e \in Objects : Getters(e) = {} /\ Users(e, "ctrl") = {}
  BY <1>2, EnclaveAssumption DEF Getters, Users, At
<1>4. \A e \in Objects : files[e]["dev"] = 0 /\ files[e]["ctrl"] = 0
  BY DEF Init, Kinds, RefKinds
<1>5. Cardinality({}) = 0  BY FS_EmptySet
<1>6. \A e \in Objects : Cardinality(Getters(e)) = 0 /\ Cardinality(Users(e, "ctrl")) = 0
  BY <1>3, <1>5
<1>7. \A t \in Threads : th[t].pc = "none" <=> th[t].e = None  BY <1>2
<1>8. MaxFiles \in Nat  BY EnclaveAssumption
<1>9. QED  BY <1>1, <1>4, <1>6, <1>7, <1>8 DEF CallInv

LEMMA TypeNext ==
  ASSUME TypeOK, CallInv, [Next]_vars
  PROVE  TypeOK' /\ CallInv'
<1>1. CASE Next  BY <1>1, TypeStep, CallStep
<1>2. CASE UNCHANGED vars
  <2>1. TypeOK'  BY <1>2 DEF vars, TypeOK
  <2>2. \A e : Getters(e)' = Getters(e) /\ Users(e, "ctrl")' = Users(e, "ctrl")
    BY <1>2 DEF vars, Getters, Users, At, InReset, InCtrl
  <2>3. QED  BY <1>2, <2>1, <2>2 DEF vars, CallInv
<1>3. QED  BY <1>1, <1>2

(* Whatever the administrator does, no step of LOAD, FREE, LAUNCH, RESET, the
   files or the commands leaves the types, a thread that works works on an
   object, and the files of an object stay within the bound of the model.  *)
THEOREM TypeCorrect == Spec => []TypeOK
<1>1. Init => TypeOK /\ CallInv  BY TypeInit
<1>2. TypeOK /\ CallInv /\ [Next]_vars => (TypeOK /\ CallInv)'  BY TypeNext
<1>3. QED  BY <1>1, <1>2, PTL DEF Spec

LEMMA BaseInit == Init => BaseInv
<1> SUFFICES ASSUME Init  PROVE BaseInv  OBVIOUS
<1>1. \A t \in Threads : th[t].pc = "none" /\ th[t].e = None  BY DEF Init, Free0
<1>2. AloneInv /\ LifeInv
  BY <1>1 DEF AloneInv, LifeInv, LoadPcs, FreePcs, ResetPcs, Init
<1>3. \A e \in Objects : RefFiles(e) = 0  BY DEF Init, RefFiles, Kinds, RefKinds
<1>4. CountInv  BY <1>3 DEF CountInv, CountOf, Init
<1>5. PartsInv  BY DEF PartsInv, PartsOf, Init
<1>6. MapInv  BY EnclaveAssumption DEF MapInv, Init
<1>7. QED  BY <1>2, <1>4, <1>5, <1>6 DEF BaseInv

LEMMA BaseNext ==
  ASSUME "free" \notin Faults, "cdev" \notin Faults,
         TypeOK, CallInv, BaseInv, [Next]_vars
  PROVE  BaseInv'
<1>1. CASE Next  BY <1>1, BaseStep
<1>2. CASE UNCHANGED vars
  <2>1. \A e, P : In(e, P)' <=> In(e, P)  BY <1>2 DEF vars, In
  <2>2. AloneInv' /\ LifeInv'  BY <1>2 DEF vars, BaseInv, AloneInv, LifeInv
  <2>3. \A e : RefFiles(e)' = RefFiles(e) /\ (Owned(e)' <=> Owned(e))
    BY <1>2 DEF vars, RefFiles, Owned, InFree
  <2>4. CountInv'  BY <1>2, <2>1, <2>3 DEF vars, BaseInv, CountInv, CountOf
  <2>5. PartsInv'  BY <1>2, <2>1 DEF vars, BaseInv, PartsInv, PartsOf
  <2>6. MapInv'  BY <1>2, <2>1 DEF vars, BaseInv, MapInv, MapOf
  <2>7. QED  BY <2>2, <2>4, <2>5, <2>6 DEF BaseInv
<1>3. QED  BY <1>1, <1>2
-----------------------------------------------------------------------------
(* References.                                                             *)

LEMMA ConsStep ==
  ASSUME "console" \notin Faults, TypeOK, CallInv, ConsInv, [Next]_vars
  PROVE  ConsInv'
<1>k. Kinds = {"dev", "ctrl", "proc", "cons"} /\ MaxFiles \in Nat
  BY EnclaveAssumption DEF Kinds, RefKinds
<1>a. ASSUME \A x \in Objects : /\ files'[x]["cons"] > 0 => files[x]["cons"] > 0
                                /\ state'[x] = "dead" => state[x] = "dead"
      PROVE  ConsInv'
  BY <1>a DEF ConsInv
<1>u. ASSUME files' = files, state' = state  PROVE ConsInv'  BY <1>u, <1>a
<1>1. ASSUME NEW t \in Threads, NEW e \in Objects, alloc_enclave_index(t, e)
      PROVE  ConsInv'
  BY <1>1, <1>u DEF alloc_enclave_index
<1>2. ASSUME NEW t \in Threads, NEW e \in Objects, OpenFind(t, e)
      PROVE  ConsInv'
  BY <1>2, <1>u DEF OpenFind
<1>3. ASSUME NEW t \in Threads, NEW e \in Objects, Launch(t, e)
      PROVE  ConsInv'
  BY <1>3, <1>u DEF Launch
<1>4. ASSUME NEW t \in Threads, NEW e \in Objects, Reset(t, e)
      PROVE  ConsInv'
  BY <1>4, <1>u DEF Reset
<1>5. ASSUME NEW t \in Threads, NEW e \in Objects, CtrlBegin(t, e)
      PROVE  ConsInv'
  BY <1>5, <1>u DEF CtrlBegin
<1>6. ASSUME NEW t \in Threads, Claim(t)
      PROVE  ConsInv'
  BY <1>6, <1>u DEF Claim
<1>7. ASSUME NEW t \in Threads, pisces_enclave_create(t)
      PROVE  ConsInv'
  <2>1. th[t].e \in Objects  BY <1>7, OnObject DEF pisces_enclave_create, At
  <2>2. files' = files  BY <1>7 DEF pisces_enclave_create
  <2>3. \A x \in Objects : state'[x] = "dead" => state[x] = "dead"
    BY <1>7, <2>1 DEF pisces_enclave_create, TypeOK
  <2>4. QED  BY <1>a, <2>2, <2>3
<1>8. ASSUME NEW t \in Threads, enclave_open(t)
      PROVE  ConsInv'
  <2>1. th[t].e \in Objects  BY <1>8, OnObject DEF enclave_open, At
  <2>2. \A x \in Objects : files'[x]["cons"] = files[x]["cons"]
    BY <1>8, <1>k, <2>1 DEF enclave_open, TypeOK
  <2>3. QED  BY <1>8, <1>a, <2>2 DEF enclave_open
<1>9. ASSUME NEW t \in Threads, setup_boot_params(t)
      PROVE  ConsInv'
  BY <1>9, <1>u DEF setup_boot_params
<1>10. ASSUME NEW t \in Threads, boot_enclave(t)
      PROVE  ConsInv'
  <2>1. th[t].e \in Objects  BY <1>10, OnObject DEF boot_enclave, At
  <2>2. files' = files  BY <1>10 DEF boot_enclave
  <2>3. \A x \in Objects : state'[x] = "dead" => state[x] = "dead"
    BY <1>10, <2>1 DEF boot_enclave, TypeOK
  <2>4. QED  BY <1>a, <2>2, <2>3
<1>11. ASSUME NEW t \in Threads, ResetCtrl(t)
      PROVE  ConsInv'
  BY <1>11, <1>u DEF ResetCtrl
<1>12. ASSUME NEW t \in Threads, ResetLcall(t)
      PROVE  ConsInv'
  BY <1>12, <1>u DEF ResetLcall
<1>13. ASSUME NEW t \in Threads, CtrlLock(t)
      PROVE  ConsInv'
  BY <1>13, <1>u DEF CtrlLock
<1>14. ASSUME NEW t \in Threads, CtrlSend(t)
      PROVE  ConsInv'
  BY <1>14, <1>u DEF CtrlSend
<1>15. ASSUME NEW t \in Threads, FreeDev(t)
      PROVE  ConsInv'
  BY <1>15, <1>u DEF FreeDev
<1>16. ASSUME NEW t \in Threads, FreeProc(t)
      PROVE  ConsInv'
  <2>1. th[t].e \in Objects  BY <1>16, OnObject DEF FreeProc, At
  <2>2. \A x \in Objects : files'[x]["cons"] = files[x]["cons"]
    BY <1>16, <1>k, <2>1 DEF FreeProc, TypeOK
  <2>3. QED  BY <1>16, <1>a, <2>2 DEF FreeProc
<1>17. ASSUME NEW t \in Threads, FreeFs(t)
      PROVE  ConsInv'
  BY <1>17, <1>u DEF FreeFs
<1>18. ASSUME NEW t \in Threads, FreeLcall(t)
      PROVE  ConsInv'
  BY <1>18, <1>u DEF FreeLcall
<1>19. ASSUME NEW t \in Threads, FreePut(t)
      PROVE  ConsInv'
  BY <1>19, <1>u DEF FreePut
<1>20. ASSUME NEW t \in Threads, NEW i \in Slots, pisces_enclave_free(t, i)
      PROVE  ConsInv'
  <2>1. PICK e \in Objects : e = enclave_map[i]  BY <1>20 DEF TypeOK, pisces_enclave_free
  <2>2. files' = files /\ files[e]["cons"] = 0  BY <1>20, <2>1 DEF pisces_enclave_free, Orderly
  <2>3. \A x \in Objects : x # e => state'[x] = state[x]  BY <1>20, <2>1 DEF pisces_enclave_free, TypeOK
  <2>4. QED  BY <2>2, <2>3 DEF ConsInv
<1>21. ASSUME NEW e \in Objects, proc_open(e)
      PROVE  ConsInv'
  <2>1. \A x \in Objects : files'[x]["cons"] > 0 => files[x]["cons"] > 0
    BY <1>21, <1>k DEF proc_open, TypeOK
  <2>2. QED  BY <1>21, <1>a, <2>1 DEF proc_open
<1>22. ASSUME NEW e \in Objects, pisces_ctrl_connect(e)
      PROVE  ConsInv'
  <2>1. CASE files' = files  BY <1>22, <1>u, <2>1 DEF pisces_ctrl_connect
  <2>2. CASE files' = [files EXCEPT ![e]["ctrl"] = @ + 1]
    <3>1. \A x \in Objects : files'[x]["cons"] = files[x]["cons"]  BY <1>k, <2>2 DEF TypeOK
    <3>2. QED  BY <1>22, <1>a, <3>1 DEF pisces_ctrl_connect
  <2>3. QED  BY <1>22, <2>1, <2>2 DEF pisces_ctrl_connect
<1>23. ASSUME NEW e \in Objects, pisces_cons_connect(e)
      PROVE  ConsInv'
  <2>1. \A x \in Objects : x # e => files'[x]["cons"] = files[x]["cons"]
    BY <1>23, <1>k DEF pisces_cons_connect, TypeOK
  <2>2. state[e] # "dead" /\ state' = state  BY <1>23 DEF pisces_cons_connect
  <2>3. QED  BY <2>1, <2>2 DEF ConsInv
<1>24. ASSUME NEW e \in Objects, ReleaseCons(e)
      PROVE  ConsInv'
  <2>1. \A x \in Objects : files'[x]["cons"] > 0 => files[x]["cons"] > 0
    BY <1>24, <1>k DEF ReleaseCons, TypeOK
  <2>2. QED  BY <1>24, <1>a, <2>1 DEF ReleaseCons
<1>25. ASSUME NEW e \in Objects, LcallBegin(e)
      PROVE  ConsInv'
  BY <1>25, <1>u DEF LcallBegin
<1>26. ASSUME NEW e \in Objects, LcallEnd(e)
      PROVE  ConsInv'
  BY <1>26, <1>u DEF LcallEnd
<1>27. ASSUME NEW e \in Objects, NEW kind \in RefKinds, ReleaseRef(e, kind)
      PROVE  ConsInv'
  <2>1. kind \in Kinds /\ kind # "cons"  BY <1>k DEF RefKinds
  <2>2. files' = [files EXCEPT ![e][kind] = @ - 1] /\ state' = state  BY <1>27 DEF ReleaseRef
  <2>3. \A x \in Objects : files'[x]["cons"] = files[x]["cons"]
    BY <1>k, <2>1, <2>2 DEF TypeOK
  <2>4. QED  BY <1>a, <2>2, <2>3
<1>28. CASE UNCHANGED vars  BY <1>28, <1>u DEF vars
<1>29. QED  BY <1>1, <1>2, <1>3, <1>4, <1>5, <1>6, <1>7, <1>8, <1>9, <1>10, <1>11, <1>12, <1>13, <1>14, <1>15, <1>16, <1>17, <1>18, <1>19, <1>20, <1>21, <1>22, <1>23, <1>24, <1>25, <1>26, <1>27, <1>28 DEF Next

(* The reference count of enclave.c is right for every number of enclaves,
   threads and files, as long as FREE races no open, LAUNCH, RESET or
   FREE, the console is closed and the device can be made: whatever opens,
   connects, closes, commands, launches and resets come before it, and whatever
   connects, closes and commands interleave with it, the count is the number of files and one for the enclave, and the object is
   freed when it gets to 0 and not before.                                 *)
THEOREM RefsCorrect ==
  ASSUME Faults \cap {"free", "cdev", "console"} = {}
  PROVE  Spec => []RefsInv
<1>1. Init => TypeOK /\ CallInv /\ BaseInv /\ ConsInv
  <2>1. Init => ConsInv  BY DEF Init, ConsInv, Kinds
  <2>2. QED  BY <2>1, TypeInit, BaseInit
<1>2. TypeOK /\ CallInv /\ BaseInv /\ ConsInv /\ [Next]_vars
        => (TypeOK /\ CallInv /\ BaseInv /\ ConsInv)'
  BY TypeNext, BaseNext, ConsStep
<1>3. TypeOK /\ BaseInv /\ ConsInv => RefsInv
  <2> SUFFICES ASSUME TypeOK, BaseInv, ConsInv  PROVE RefsCounted  BY DEF RefsInv
  <2>1. \A e : ~In(e, LoadPcs) <=> \A t \in Threads : th[t].e = e => ~InLoad(t)
    BY DEF In, InLoad, LoadPcs
  <2>2. ASSUME NEW e \in Objects, ~mem[e]  PROVE files[e]["cons"] = 0
    <3>1. state[e] = "dead"  BY <2>2 DEF BaseInv, LifeInv
    <3>2. files[e]["cons"] \in Nat  BY RefFilesType DEF Kinds
    <3>3. QED  BY <3>1, <3>2 DEF ConsInv
  <2>3. QED  BY <2>1, <2>2 DEF RefsCounted, BaseInv, CountInv, CountOf
<1>4. QED  BY <1>1, <1>2, <1>3, PTL DEF Spec

\* Places that nobody comes to or leaves.
LEMMA InKept ==
  ASSUME NEW t \in Threads, NEW place, NEW x, Moves(t, place, x), NEW P,
         th[t].pc \notin P, place \notin P
  PROVE  \A e : In(e, P)' <=> In(e, P)
  BY InMoved

LEMMA InStill ==
  ASSUME th' = th
  PROVE  \A e, P : In(e, P)' <=> In(e, P)
  BY DEF In
-----------------------------------------------------------------------------
(* The image.                                                              *)

LEMMA ImageStep ==
  ASSUME "free" \notin Faults, "cdev" \notin Faults,
         "image" \notin Faults, TypeOK, CallInv, BaseInv, ImageInv, Next
  PROVE  ImageInv'
<1> USE DEF At
<1>p. Pcs = {"none", "claim", "register", "get", "setup", "boot", "r_ctrl", "r_lcall",
          "c_lock", "c_send", "f_dev", "f_proc", "f_fs", "f_lcall", "f_put"}
  BY DEF Pcs
<1>c. /\ LoadPcs = {"claim", "register"}
      /\ FreePcs = {"f_dev", "f_proc", "f_fs", "f_lcall", "f_put"}
      /\ CtrlPcs = {"c_lock", "c_send"}
      /\ ResetPcs = {"setup", "boot", "r_ctrl", "r_lcall"}
  BY DEF CtrlPcs, LoadPcs, FreePcs, ResetPcs
<1>t. th \in [Threads -> Calls]  BY DEF TypeOK
<1>y. TypeOK'  BY TypeStep
<1>i. AloneInv /\ LifeInv /\ CountInv /\ PartsInv /\ MapInv  BY DEF BaseInv
<1>a. ASSUME mem' = mem, images' = images, \A e : In(e, LoadPcs)' <=> In(e, LoadPcs)
      PROVE  ImageInv'
  BY <1>a DEF ImageInv
<1>n. None \notin Objects  BY EnclaveAssumption
\* The last reference.
<1>r. ASSUME NEW e \in Objects, enclave_put(e), mem[e], ~In(e, LoadPcs),
             \A x : In(x, LoadPcs)' <=> In(x, LoadPcs)
      PROVE  ImageInv'
  <2>1. images[e] = 1 /\ images[e] \in Int  BY <1>r DEF ImageInv, TypeOK
  <2>2. \A x \in Objects \ {e} : (mem'[x] <=> mem[x]) /\ images'[x] = images[x]
    BY <1>r, PutType
  <2>3. refcount[e] = 1 => ~mem'[e] /\ images'[e] = 0  BY <1>r, <2>1, PutType
  <2>4. refcount[e] # 1 => (mem'[e] <=> mem[e]) /\ images'[e] = 1  BY <1>r, <2>1, PutType
  <2>5. QED  BY <1>r, <2>2, <2>3, <2>4 DEF ImageInv
<1>1. ASSUME NEW t \in Threads, NEW e \in Objects, alloc_enclave_index(t, e)
      PROVE  ImageInv'
  <2>1. Moves(t, "claim", e)  BY <1>1, <1>p, <1>t, BeginSlotMoves DEF alloc_enclave_index
  <2>2. /\ th[t].e = None /\ ~mem[e] /\ images' = images
        /\ mem' = [mem EXCEPT ![e] = TRUE]
    BY <1>1 DEF alloc_enclave_index, parts, CallInv
  <2>3. \A x \in Objects \ {e} : mem'[x] <=> mem[x]  BY <2>2 DEF TypeOK
  <2>4. In(e, LoadPcs)' /\ \A x \in Objects \ {e} : In(x, LoadPcs)' <=> In(x, LoadPcs)
    BY <1>c, <1>n, <2>1, <2>2, InMoved
  <2>5. QED  BY <2>2, <2>3, <2>4 DEF ImageInv
<1>2. ASSUME NEW t \in Threads, NEW e \in Objects, OpenFind(t, e)
      PROVE  ImageInv'
  <2>1. Moves(t, "get", e)  BY <1>2, <1>p, <1>t, BeginMoves DEF OpenFind
  <2>2. th[t].pc \notin LoadPcs /\ "get" \notin LoadPcs  BY <1>2 DEF OpenFind, LoadPcs
  <2>3. \A x : In(x, LoadPcs)' <=> In(x, LoadPcs)  BY <2>1, <2>2, InKept
  <2>4. QED  BY <1>2, <1>a, <2>3 DEF OpenFind, parts
<1>3. ASSUME NEW t \in Threads, NEW e \in Objects, Launch(t, e)
      PROVE  ImageInv'
  <2>1. Moves(t, "setup", e)  BY <1>3, <1>p, <1>t, BeginMoves DEF Launch
  <2>2. th[t].pc = "none"  BY <1>3 DEF Launch
  <2>3. \A x : In(x, LoadPcs)' <=> In(x, LoadPcs)  BY <1>c, <2>1, <2>2, InKept
  <2>4. QED  BY <1>3, <1>a, <2>3 DEF Launch, parts
<1>4. ASSUME NEW t \in Threads, NEW e \in Objects, Reset(t, e)
      PROVE  ImageInv'
  <2>1. Moves(t, "r_ctrl", e)  BY <1>4, <1>p, <1>t, BeginMoves DEF Reset
  <2>2. th[t].pc = "none"  BY <1>4 DEF Reset
  <2>3. \A x : In(x, LoadPcs)' <=> In(x, LoadPcs)  BY <1>c, <2>1, <2>2, InKept
  <2>4. QED  BY <1>4, <1>a, <2>3 DEF Reset, parts
<1>5. ASSUME NEW t \in Threads, NEW e \in Objects, CtrlBegin(t, e)
      PROVE  ImageInv'
  <2>0. desc[e] \in Descs  BY DEF TypeOK, Descs
  <2>1. Moves(t, "c_lock", e)  BY <1>5, <1>p, <1>t, <2>0, BeginDescMoves DEF CtrlBegin
  <2>2. th[t].pc = "none"  BY <1>5 DEF CtrlBegin
  <2>3. \A x : In(x, LoadPcs)' <=> In(x, LoadPcs)  BY <1>c, <2>1, <2>2, InKept
  <2>4. QED  BY <1>5, <1>a, <2>3 DEF CtrlBegin, parts
<1>6. ASSUME NEW t \in Threads, Claim(t)
      PROVE  ImageInv'
  <2>1. Moves(t, "register", th[t].e)  BY <1>6, <1>p, <1>t, GotoMoves DEF Claim
  <2>2. \A x : In(x, LoadPcs)' <=> In(x, LoadPcs)  BY <1>6, <1>c, <2>1, InMoved DEF Claim
  <2>3. QED  BY <1>6, <1>a, <2>2 DEF Claim, parts
<1>7. ASSUME NEW t \in Threads, pisces_enclave_create(t)
      PROVE  ImageInv'
  <2>1. Moves(t, "none", None)  BY <1>7, <1>t, ReturnMoves DEF pisces_enclave_create
  <2>2. PICK e \in Objects : e = th[t].e  BY <1>7, OnObject DEF pisces_enclave_create
  <2>3. /\ th[t].pc = "register"
        /\ images' = [images EXCEPT ![e] = 1]
        /\ mem' = [mem EXCEPT ![e] = TRUE]
    BY <1>7, <2>2 DEF pisces_enclave_create
  <2>4. /\ mem'[e] /\ images'[e] = 1
        /\ \A x \in Objects \ {e} : (mem'[x] <=> mem[x]) /\ images'[x] = images[x]
    BY <2>3 DEF TypeOK
  <2>5. \A u \in Threads \ {t} : th[u].e # e  BY <1>c, <1>i, <2>2, <2>3, Loader
  <2>6. ~In(e, LoadPcs)' /\ \A x \in Objects \ {e} : In(x, LoadPcs)' <=> In(x, LoadPcs)
    BY <1>c, <1>n, <2>1, <2>2, <2>5, InMoved
  <2>7. QED  BY <2>4, <2>6 DEF ImageInv
<1>8. ASSUME NEW t \in Threads, enclave_open(t)
      PROVE  ImageInv'
  <2>1. Moves(t, "none", None)  BY <1>8, <1>t, ReturnMoves DEF enclave_open
  <2>2. th[t].pc = "get"  BY <1>8 DEF enclave_open
  <2>3. \A x : In(x, LoadPcs)' <=> In(x, LoadPcs)  BY <1>c, <2>1, <2>2, InKept
  <2>4. QED  BY <1>8, <1>a, <2>3 DEF enclave_open, parts
<1>9. ASSUME NEW t \in Threads, setup_boot_params(t)
      PROVE  ImageInv'
  <2>1. Moves(t, "none", None) \/ Moves(t, "boot", th[t].e)
    BY <1>9, <1>p, <1>t, GotoMoves, ReturnMoves DEF setup_boot_params
  <2>2. th[t].pc = "setup"  BY <1>9 DEF setup_boot_params
  <2>3. \A x : In(x, LoadPcs)' <=> In(x, LoadPcs)  BY <1>c, <2>1, <2>2, InKept
  <2>4. QED  BY <1>9, <1>a, <2>3 DEF setup_boot_params, parts
<1>10. ASSUME NEW t \in Threads, boot_enclave(t)
      PROVE  ImageInv'
  <2>1. Moves(t, "none", None)  BY <1>10, <1>t, ReturnMoves DEF boot_enclave
  <2>2. th[t].pc = "boot"  BY <1>10 DEF boot_enclave
  <2>3. \A x : In(x, LoadPcs)' <=> In(x, LoadPcs)  BY <1>c, <2>1, <2>2, InKept
  <2>4. QED  BY <1>10, <1>a, <2>3 DEF boot_enclave, parts
<1>11. ASSUME NEW t \in Threads, ResetCtrl(t)
      PROVE  ImageInv'
  <2>1. Moves(t, "r_lcall", th[t].e)  BY <1>11, <1>p, <1>t, DeinitMoves DEF ResetCtrl
  <2>2. th[t].pc = "r_ctrl"  BY <1>11 DEF ResetCtrl
  <2>3. \A x : In(x, LoadPcs)' <=> In(x, LoadPcs)  BY <1>c, <2>1, <2>2, InKept
  <2>4. QED  BY <1>11, <1>a, <2>3 DEF ResetCtrl, parts
<1>12. ASSUME NEW t \in Threads, ResetLcall(t)
      PROVE  ImageInv'
  <2>1. Moves(t, "setup", th[t].e)  BY <1>12, <1>p, <1>t, GotoMoves DEF ResetLcall
  <2>2. th[t].pc = "r_lcall"  BY <1>12 DEF ResetLcall
  <2>3. \A x : In(x, LoadPcs)' <=> In(x, LoadPcs)  BY <1>c, <2>1, <2>2, InKept
  <2>4. QED  BY <1>12, <1>a, <2>3 DEF ResetLcall, parts
<1>13. ASSUME NEW t \in Threads, CtrlLock(t)
      PROVE  ImageInv'
  <2>1. Moves(t, "none", None) \/ Moves(t, "c_send", th[t].e)
    BY <1>13, <1>p, <1>t, GotoMoves, ReturnMoves DEF CtrlLock
  <2>2. th[t].pc \notin LoadPcs /\ "none" \notin LoadPcs /\ "c_send" \notin LoadPcs
    BY <1>13 DEF CtrlLock, LoadPcs
  <2>3. \A x : In(x, LoadPcs)' <=> In(x, LoadPcs)  BY <2>1, <2>2, InKept
  <2>4. QED  BY <1>13, <1>a, <2>3 DEF CtrlLock, parts
<1>14. ASSUME NEW t \in Threads, CtrlSend(t)
      PROVE  ImageInv'
  <2>1. Moves(t, "none", None)  BY <1>14, <1>t, ReturnMoves DEF CtrlSend
  <2>2. th[t].pc = "c_send"  BY <1>14 DEF CtrlSend
  <2>3. \A x : In(x, LoadPcs)' <=> In(x, LoadPcs)  BY <1>c, <2>1, <2>2, InKept
  <2>4. QED  BY <1>14, <1>a, <2>3 DEF CtrlSend, parts
<1>15. ASSUME NEW t \in Threads, FreeDev(t)
      PROVE  ImageInv'
  <2>1. Moves(t, "f_proc", th[t].e)  BY <1>15, <1>p, <1>t, DeinitMoves DEF FreeDev
  <2>2. th[t].pc = "f_dev"  BY <1>15 DEF FreeDev
  <2>3. \A x : In(x, LoadPcs)' <=> In(x, LoadPcs)  BY <1>c, <2>1, <2>2, InKept
  <2>4. QED  BY <1>15, <1>a, <2>3 DEF FreeDev, parts
<1>16. ASSUME NEW t \in Threads, FreeProc(t)
      PROVE  ImageInv'
  <2>1. Moves(t, "f_fs", th[t].e)  BY <1>16, <1>p, <1>t, GotoMoves DEF FreeProc
  <2>2. th[t].pc = "f_proc"  BY <1>16 DEF FreeProc
  <2>3. \A x : In(x, LoadPcs)' <=> In(x, LoadPcs)  BY <1>c, <2>1, <2>2, InKept
  <2>4. QED  BY <1>16, <1>a, <2>3 DEF FreeProc, parts
<1>17. ASSUME NEW t \in Threads, FreeFs(t)
      PROVE  ImageInv'
  <2>1. Moves(t, "f_lcall", th[t].e)  BY <1>17, <1>p, <1>t, GotoMoves DEF FreeFs
  <2>2. th[t].pc = "f_fs"  BY <1>17 DEF FreeFs
  <2>3. \A x : In(x, LoadPcs)' <=> In(x, LoadPcs)  BY <1>c, <2>1, <2>2, InKept
  <2>4. QED  BY <1>17, <1>a, <2>3 DEF FreeFs, parts
<1>18. ASSUME NEW t \in Threads, FreeLcall(t)
      PROVE  ImageInv'
  <2>1. Moves(t, "f_put", th[t].e)  BY <1>18, <1>p, <1>t, GotoMoves DEF FreeLcall
  <2>2. th[t].pc = "f_lcall"  BY <1>18 DEF FreeLcall
  <2>3. \A x : In(x, LoadPcs)' <=> In(x, LoadPcs)  BY <1>c, <2>1, <2>2, InKept
  <2>4. QED  BY <1>18, <1>a, <2>3 DEF FreeLcall, parts
<1>19. ASSUME NEW t \in Threads, FreePut(t)
      PROVE  ImageInv'
  <2>1. Moves(t, "none", None)  BY <1>19, <1>t, ReturnMoves DEF FreePut
  <2>2. PICK e \in Objects : e = th[t].e  BY <1>19, OnObject DEF FreePut
  <2>3. th[t].pc = "f_put" /\ enclave_put(e)  BY <1>19, <2>2 DEF FreePut
  <2>4. mem[e] /\ ~In(e, LoadPcs)  BY <1>c, <1>i, <2>2, <2>3, Freer
  <2>5. \A x : In(x, LoadPcs)' <=> In(x, LoadPcs)  BY <1>c, <2>1, <2>3, InKept
  <2>6. QED  BY <1>r, <2>3, <2>4, <2>5
<1>20. ASSUME NEW t \in Threads, NEW i \in Slots, pisces_enclave_free(t, i)
      PROVE  ImageInv'
  <2>0. PICK e \in Objects : e = enclave_map[i]  BY <1>20 DEF TypeOK, pisces_enclave_free
  <2>1. Moves(t, "f_dev", e)  BY <1>20, <1>p, <1>t, <2>0, BeginMoves DEF pisces_enclave_free
  <2>2. th[t].pc = "none"  BY <1>20 DEF pisces_enclave_free
  <2>3. \A x : In(x, LoadPcs)' <=> In(x, LoadPcs)  BY <1>c, <2>1, <2>2, InKept
  <2>4. QED  BY <1>20, <1>a, <2>3 DEF pisces_enclave_free, parts
<1>21. ASSUME NEW e \in Objects, proc_open(e)
      PROVE  ImageInv'
  <2>1. th' = th  BY <1>21 DEF proc_open
  <2>2. QED  BY <1>21, <1>a, <2>1, InStill DEF proc_open, parts
<1>22. ASSUME NEW e \in Objects, pisces_ctrl_connect(e)
      PROVE  ImageInv'
  <2>1. th' = th  BY <1>22 DEF pisces_ctrl_connect
  <2>2. QED  BY <1>22, <1>a, <2>1, InStill DEF pisces_ctrl_connect, parts
<1>23. ASSUME NEW e \in Objects, pisces_cons_connect(e)
      PROVE  ImageInv'
  <2>1. th' = th  BY <1>23 DEF pisces_cons_connect
  <2>2. QED  BY <1>23, <1>a, <2>1, InStill DEF pisces_cons_connect, parts
<1>24. ASSUME NEW e \in Objects, ReleaseCons(e)
      PROVE  ImageInv'
  <2>1. th' = th  BY <1>24 DEF ReleaseCons
  <2>2. QED  BY <1>24, <1>a, <2>1, InStill DEF ReleaseCons, parts
<1>25. ASSUME NEW e \in Objects, LcallBegin(e)
      PROVE  ImageInv'
  <2>1. th' = th  BY <1>25 DEF LcallBegin
  <2>2. QED  BY <1>25, <1>a, <2>1, InStill DEF LcallBegin, parts
<1>26. ASSUME NEW e \in Objects, LcallEnd(e)
      PROVE  ImageInv'
  <2>1. th' = th  BY <1>26 DEF LcallEnd
  <2>2. QED  BY <1>26, <1>a, <2>1, InStill DEF LcallEnd, parts
<1>27. ASSUME NEW e \in Objects, NEW kind \in RefKinds, ReleaseRef(e, kind)
      PROVE  ImageInv'
  <2>1. th' = th  BY <1>27 DEF ReleaseRef
  <2>2. files[e][kind] > 0
    <3>1. Cardinality(Users(e, kind)) \in Nat  BY FinSets
    <3>2. files[e][kind] \in Nat  BY RefFilesType DEF Kinds
    <3>3. QED  BY <1>27, <3>1, <3>2 DEF ReleaseRef
  <2>3. mem[e] /\ ~In(e, LoadPcs)  BY <1>i, <2>2, HasFile
  <2>4. QED  BY <1>27, <1>r, <2>1, <2>3, InStill DEF ReleaseRef
<1>28. QED  BY <1>1, <1>2, <1>3, <1>4, <1>5, <1>6, <1>7, <1>8, <1>9, <1>10, <1>11, <1>12, <1>13, <1>14, <1>15, <1>16, <1>17, <1>18, <1>19, <1>20, <1>21, <1>22, <1>23, <1>24, <1>25, <1>26, <1>27 DEF Next

(* An object that is freed leaves nothing behind that its fields name, for every
   number of enclaves, threads and files: the image was put once, the long-call
   thread, the descriptor, the file service and the device are gone, and no slot
   of the map points at it, however the last close and FREE fall together and
   however often it was launched; as long as FREE races no open, LAUNCH, RESET
   or FREE, the device can be made and the image read.  A thread or descriptor
   that a second LAUNCH replaced (src/pisces_lcall.c:163-169) is not named any
   more and is left.                                                       *)
THEOREM FreedCorrect ==
  ASSUME Faults \cap {"free", "cdev", "image"} = {}
  PROVE  Spec => []FreedClean
<1>1. Init => TypeOK /\ CallInv /\ BaseInv /\ ImageInv
  <2>1. Init => ImageInv  BY DEF Init, ImageInv
  <2>2. QED  BY <2>1, TypeInit, BaseInit
<1>2. TypeOK /\ CallInv /\ BaseInv /\ ImageInv /\ [Next]_vars
        => (TypeOK /\ CallInv /\ BaseInv /\ ImageInv)'
  <2>1. ImageInv /\ UNCHANGED vars => ImageInv'
    BY InStill DEF ImageInv, vars
  <2>2. QED  BY <2>1, TypeNext, BaseNext, ImageStep
<1>3. TypeOK /\ CallInv /\ BaseInv /\ ImageInv => FreedClean
  <2> SUFFICES ASSUME TypeOK, CallInv, BaseInv, ImageInv, NEW e \in Objects, ~mem[e]
               PROVE  /\ images[e] = 0 /\ lcall[e] = "none" /\ desc[e] # "live"
                      /\ ~fs[e] /\ ~dev[e]
                      /\ \A i \in Slots : enclave_map[i] # e
    BY DEF FreedClean
  <2>1. state[e] = "dead" /\ \A t \in Threads : th[t].e # e
    BY EnclaveAssumption DEF BaseInv, LifeInv
  <2>2. \A P : ~In(e, P)  BY <2>1 DEF In
  <2>3. lcall[e] = "none" /\ desc[e] # "live" /\ ~fs[e] /\ ~dev[e]
    BY <2>1, <2>2 DEF BaseInv, PartsInv, PartsOf
  <2>4. \A i \in Slots : enclave_map[i] # e  BY <2>1, <2>2 DEF BaseInv, MapInv, MapOf
  <2>5. images[e] = 0  BY DEF ImageInv
  <2>6. QED  BY <2>3, <2>4, <2>5
<1>4. QED  BY <1>1, <1>2, <1>3, PTL DEF Spec

-----------------------------------------------------------------------------
(* The map.                                                                *)

LEMMA SlotStep ==
  ASSUME "free" \notin Faults, "cdev" \notin Faults,
         "load" \notin Faults, TypeOK, CallInv, BaseInv, SlotInv, Next
  PROVE  SlotInv'
<1> USE DEF At
<1>p. Pcs = {"none", "claim", "register", "get", "setup", "boot", "r_ctrl", "r_lcall",
          "c_lock", "c_send", "f_dev", "f_proc", "f_fs", "f_lcall", "f_put"}
  BY DEF Pcs
<1>c. /\ LoadPcs = {"claim", "register"}
      /\ FreePcs = {"f_dev", "f_proc", "f_fs", "f_lcall", "f_put"}
      /\ CtrlPcs = {"c_lock", "c_send"}
      /\ ResetPcs = {"setup", "boot", "r_ctrl", "r_lcall"}
  BY DEF CtrlPcs, LoadPcs, FreePcs, ResetPcs
<1>t. th \in [Threads -> Calls]  BY DEF TypeOK
<1>y. TypeOK'  BY TypeStep
<1>i. AloneInv /\ LifeInv /\ CountInv /\ PartsInv /\ MapInv  BY DEF BaseInv
<1>n. None \notin Objects  BY EnclaveAssumption
<1>o. \A u \in Threads : th[u].pc # "none" => th[u].e \in Objects /\ th[u].slot \in Slots
  BY OnObject
<1> DEFINE Held(e) == state[e] # "dead" \/ In(e, {"f_dev", "f_proc"})
\* Steps that leave LOAD, FREE's first half and the map alone.
<1>a. ASSUME enclave_map' = enclave_map, id' = id,
             \A u \in Threads : th'[u].pc \in LoadPcs \/ th[u].pc \in LoadPcs =>
                th'[u].pc = th[u].pc /\ th'[u].e = th[u].e /\ th'[u].slot = th[u].slot,
             \A e \in Objects : Held(e)' => Held(e)
      PROVE  SlotInv'
  <2>1. \A t, u \in Threads : th'[t].pc \in LoadPcs /\ th'[u].pc \in LoadPcs => t = u
    BY <1>a DEF SlotInv
  <2>2. \A t \in Threads : /\ th'[t].pc = "claim" => enclave_map'[th'[t].slot] = None
                           /\ th'[t].pc = "register" => enclave_map'[th'[t].slot] = th'[t].e
    BY <1>a, <1>c DEF SlotInv
  <2>3. QED  BY <1>a, <2>1, <2>2 DEF SlotInv
<1>s. ASSUME th' = th, enclave_map' = enclave_map, id' = id, state' = state  PROVE SlotInv'
  BY <1>a, <1>s, InStill
<1>m. ASSUME NEW t \in Threads, NEW place, NEW x, Moves(t, place, x),
             th[t].pc \notin LoadPcs \cup {"f_dev", "f_proc"},
             place \notin LoadPcs \cup {"f_dev", "f_proc"},
             \A e \in Objects : state'[e] # "dead" => state[e] # "dead",
             enclave_map' = enclave_map, id' = id
      PROVE  SlotInv'
  <2>1. \A u \in Threads : th'[u].pc \in LoadPcs \/ th[u].pc \in LoadPcs =>
          th'[u].pc = th[u].pc /\ th'[u].e = th[u].e /\ th'[u].slot = th[u].slot
    BY <1>m DEF Moves
  <2>2. \A e : In(e, {"f_dev", "f_proc"})' <=> In(e, {"f_dev", "f_proc"})  BY <1>m, InKept
  <2>3. QED  BY <1>a, <1>m, <2>1, <2>2
<1>1. ASSUME NEW t \in Threads, NEW e \in Objects, alloc_enclave_index(t, e)
      PROVE  SlotInv'
  <2>0. PICK i \in Slots :
          /\ enclave_map[i] = None
          /\ th' = [th EXCEPT ![t] = [Free0 EXCEPT !.pc = "claim", !.e = e, !.slot = i]]
    BY <1>1 DEF alloc_enclave_index
  <2>1. Moves(t, "claim", e) /\ th'[t].slot = i  BY <1>p, <1>t, <2>0, BeginSlotMoves
  <2>2. /\ th[t].pc = "none" /\ ~mem[e] /\ \A u \in Threads : th[u].pc \notin LoadPcs
        /\ UNCHANGED <<enclave_map, id, state>>
    BY <1>1, <1>c DEF alloc_enclave_index, InLoad
  <2>3. \A x : In(x, {"f_dev", "f_proc"})' <=> In(x, {"f_dev", "f_proc"})
    <3>1. PICK P : P = {"f_dev", "f_proc"}
      OBVIOUS
    <3>2. th[t].pc \notin P /\ "claim" \notin P
      BY <2>2, <3>1
    <3>3. \A x : In(x, P)' <=> In(x, P)
      BY <2>1, <3>2, InKept
    <3>4. QED  BY <3>1, <3>3
  <2>4. th'[t].pc = "claim" /\ \A u \in Threads : u # t => th'[u].pc = th[u].pc
    BY <2>1 DEF Moves
  <2>5. QED  BY <1>c, <2>0, <2>1, <2>2, <2>3, <2>4 DEF SlotInv
<1>2. ASSUME NEW t \in Threads, NEW e \in Objects, OpenFind(t, e)
      PROVE  SlotInv'
  <2>1. Moves(t, "get", e)  BY <1>2, <1>p, <1>t, BeginMoves DEF OpenFind
  <2>2. th[t].pc = "none" /\ UNCHANGED <<enclave_map, id, state>>  BY <1>2 DEF OpenFind
  <2>3. QED  BY <1>c, <1>m, <2>1, <2>2
<1>3. ASSUME NEW t \in Threads, NEW e \in Objects, Launch(t, e)
      PROVE  SlotInv'
  <2>1. Moves(t, "setup", e)  BY <1>3, <1>p, <1>t, BeginMoves DEF Launch
  <2>2. th[t].pc = "none" /\ UNCHANGED <<enclave_map, id, state>>  BY <1>3 DEF Launch
  <2>3. QED  BY <1>c, <1>m, <2>1, <2>2
<1>4. ASSUME NEW t \in Threads, NEW e \in Objects, Reset(t, e)
      PROVE  SlotInv'
  <2>1. Moves(t, "r_ctrl", e)  BY <1>4, <1>p, <1>t, BeginMoves DEF Reset
  <2>2. th[t].pc = "none" /\ UNCHANGED <<enclave_map, id, state>>  BY <1>4 DEF Reset
  <2>3. QED  BY <1>c, <1>m, <2>1, <2>2
<1>5. ASSUME NEW t \in Threads, NEW e \in Objects, CtrlBegin(t, e)
      PROVE  SlotInv'
  <2>0. desc[e] \in Descs  BY DEF TypeOK, Descs
  <2>1. Moves(t, "c_lock", e)  BY <1>5, <1>p, <1>t, <2>0, BeginDescMoves DEF CtrlBegin
  <2>2. th[t].pc = "none" /\ UNCHANGED <<enclave_map, id, state>>  BY <1>5 DEF CtrlBegin
  <2>3. QED  BY <1>c, <1>m, <2>1, <2>2
<1>6. ASSUME NEW t \in Threads, Claim(t)
      PROVE  SlotInv'
  <2>1. Moves(t, "register", th[t].e)  BY <1>6, <1>p, <1>t, GotoMoves DEF Claim
  <2>2. PICK e \in Objects, s \in Slots : e = th[t].e /\ s = th[t].slot
    BY <1>6, OnObject DEF Claim
  <2>3. /\ th[t].pc = "claim" /\ enclave_map' = [enclave_map EXCEPT ![s] = e]
        /\ UNCHANGED <<id, state>>
    BY <1>6, <2>2 DEF Claim
  <2>4. th'[t].slot = s  BY <1>6, <1>p, <1>t, <2>2, GotoMoves DEF Claim
  <2>5. /\ th'[t].pc = "register" /\ th'[t].e = e
        /\ \A u \in Threads : u # t => th'[u].pc = th[u].pc
    BY <2>1, <2>2 DEF Moves
  <2>6. enclave_map[s] = None  BY <2>2, <2>3 DEF SlotInv
  <2>7. enclave_map'[s] = e /\ \A j \in Slots : j # s => enclave_map'[j] = enclave_map[j]
    BY <2>3 DEF TypeOK
  <2>8. \A x : In(x, {"f_dev", "f_proc"})' <=> In(x, {"f_dev", "f_proc"})
    <3>1. th[t].pc \notin {"f_dev", "f_proc"} /\ "register" \notin {"f_dev", "f_proc"}  BY <2>3
    <3>2. QED  BY <2>1, <3>1, InKept
  <2>9. \A u \in Threads : u # t => th'[u].pc \notin LoadPcs
    BY <1>c, <2>3, <2>5 DEF SlotInv
  <2>10. \A x \in Objects : state'[x] # "dead" \/ In(x, {"f_dev", "f_proc"})'
             => enclave_map'[id'[x]] = x
    <3>1. \A x \in Objects : id[x] \in Slots  BY DEF TypeOK
    <3>2. QED  BY <1>n, <2>3, <2>6, <2>7, <2>8, <3>1 DEF SlotInv
  <2>11. QED  BY <1>c, <2>4, <2>5, <2>7, <2>9, <2>10 DEF SlotInv
<1>7. ASSUME NEW t \in Threads, pisces_enclave_create(t)
      PROVE  SlotInv'
  <2>1. Moves(t, "none", None)  BY <1>7, <1>t, ReturnMoves DEF pisces_enclave_create
  <2>2. PICK e \in Objects, s \in Slots : e = th[t].e /\ s = th[t].slot
    BY <1>7, OnObject DEF pisces_enclave_create
  <2>3. /\ th[t].pc = "register" /\ id' = [id EXCEPT ![e] = s]
        /\ state' = [state EXCEPT ![e] = "loaded"] /\ enclave_map' = enclave_map
    BY <1>7, <2>2 DEF pisces_enclave_create
  <2>4. /\ id'[e] = s
        /\ \A x \in Objects : x # e => id'[x] = id[x] /\ state'[x] = state[x]
    BY <2>3 DEF TypeOK
  <2>5. enclave_map[s] = e  BY <2>2, <2>3 DEF SlotInv
  <2>6. th'[t].pc = "none" /\ \A u \in Threads : u # t => th'[u].pc = th[u].pc
    BY <2>1 DEF Moves
  <2>7. \A u \in Threads : th'[u].pc \notin LoadPcs
    BY <1>c, <2>3, <2>6 DEF SlotInv
  <2>8. \A x : In(x, {"f_dev", "f_proc"})' <=> In(x, {"f_dev", "f_proc"})
    <3>1. th[t].pc \notin {"f_dev", "f_proc"} /\ "none" \notin {"f_dev", "f_proc"}  BY <2>3
    <3>2. QED  BY <2>1, <3>1, InKept
  <2>9. QED  BY <1>c, <2>3, <2>4, <2>5, <2>7, <2>8 DEF SlotInv
<1>8. ASSUME NEW t \in Threads, enclave_open(t)
      PROVE  SlotInv'
  <2>1. Moves(t, "none", None)  BY <1>8, <1>t, ReturnMoves DEF enclave_open
  <2>2. th[t].pc = "get" /\ UNCHANGED <<enclave_map, id, state>>  BY <1>8 DEF enclave_open
  <2>3. QED  BY <1>c, <1>m, <2>1, <2>2
<1>9. ASSUME NEW t \in Threads, setup_boot_params(t)
      PROVE  SlotInv'
  <2>1. Moves(t, "none", None) \/ Moves(t, "boot", th[t].e)
    BY <1>9, <1>p, <1>t, GotoMoves, ReturnMoves DEF setup_boot_params
  <2>2. th[t].pc = "setup" /\ UNCHANGED <<enclave_map, id, state>>  BY <1>9 DEF setup_boot_params
  <2>3. QED  BY <1>c, <1>m, <2>1, <2>2
<1>10. ASSUME NEW t \in Threads, boot_enclave(t)
      PROVE  SlotInv'
  <2>1. Moves(t, "none", None)  BY <1>10, <1>t, ReturnMoves DEF boot_enclave
  <2>2. th[t].pc = "boot" /\ enclave_map' = enclave_map /\ id' = id  BY <1>10 DEF boot_enclave
  <2>3. th[t].e \in Objects /\ state[th[t].e] # "dead"
    BY <1>c, <1>i, <1>o, <2>2 DEF LifeInv
  <2>4. \A x \in Objects : state'[x] # "dead" => state[x] # "dead"
    BY <1>10, <2>3 DEF boot_enclave, TypeOK
  <2>5. QED  BY <1>c, <1>m, <2>1, <2>2, <2>4
<1>11. ASSUME NEW t \in Threads, ResetCtrl(t)
      PROVE  SlotInv'
  <2>1. Moves(t, "r_lcall", th[t].e)  BY <1>11, <1>p, <1>t, DeinitMoves DEF ResetCtrl
  <2>2. th[t].pc = "r_ctrl" /\ UNCHANGED <<enclave_map, id, state>>  BY <1>11 DEF ResetCtrl
  <2>3. QED  BY <1>c, <1>m, <2>1, <2>2
<1>12. ASSUME NEW t \in Threads, ResetLcall(t)
      PROVE  SlotInv'
  <2>1. Moves(t, "setup", th[t].e)  BY <1>12, <1>p, <1>t, GotoMoves DEF ResetLcall
  <2>2. th[t].pc = "r_lcall" /\ UNCHANGED <<enclave_map, id, state>>  BY <1>12 DEF ResetLcall
  <2>3. QED  BY <1>c, <1>m, <2>1, <2>2
<1>13. ASSUME NEW t \in Threads, CtrlLock(t)
      PROVE  SlotInv'
  <2>1. Moves(t, "none", None) \/ Moves(t, "c_send", th[t].e)
    BY <1>13, <1>p, <1>t, GotoMoves, ReturnMoves DEF CtrlLock
  <2>2. th[t].pc = "c_lock" /\ UNCHANGED <<enclave_map, id, state>>  BY <1>13 DEF CtrlLock
  <2>3. QED  BY <1>c, <1>m, <2>1, <2>2
<1>14. ASSUME NEW t \in Threads, CtrlSend(t)
      PROVE  SlotInv'
  <2>1. Moves(t, "none", None)  BY <1>14, <1>t, ReturnMoves DEF CtrlSend
  <2>2. th[t].pc = "c_send" /\ UNCHANGED <<enclave_map, id, state>>  BY <1>14 DEF CtrlSend
  <2>3. QED  BY <1>c, <1>m, <2>1, <2>2
<1>15. ASSUME NEW t \in Threads, FreeDev(t)
      PROVE  SlotInv'
  <2>1. Moves(t, "f_proc", th[t].e)  BY <1>15, <1>p, <1>t, DeinitMoves DEF FreeDev
  <2>2. th[t].pc = "f_dev" /\ UNCHANGED <<enclave_map, id, state>>  BY <1>15 DEF FreeDev
  <2>3. \A x : In(x, {"f_dev", "f_proc"})' <=> In(x, {"f_dev", "f_proc"})
    BY <2>1, <2>2, InMoved
  <2>4. \A u \in Threads : th'[u].pc \in LoadPcs \/ th[u].pc \in LoadPcs =>
          th'[u].pc = th[u].pc /\ th'[u].e = th[u].e /\ th'[u].slot = th[u].slot
    BY <1>c, <2>1, <2>2 DEF Moves
  <2>5. QED  BY <1>a, <2>2, <2>3, <2>4
<1>16. ASSUME NEW t \in Threads, FreeProc(t)
      PROVE  SlotInv'
  <2>1. Moves(t, "f_fs", th[t].e)  BY <1>16, <1>p, <1>t, GotoMoves DEF FreeProc
  <2>2. PICK e \in Objects : e = th[t].e  BY <1>16, OnObject DEF FreeProc
  <2>3. /\ th[t].pc = "f_proc" /\ enclave_map' = [enclave_map EXCEPT ![id[e]] = None]
        /\ UNCHANGED <<id, state>>
    BY <1>16, <2>2 DEF FreeProc
  <2>4. enclave_map'[id[e]] = None /\ \A j \in Slots : j # id[e] => enclave_map'[j] = enclave_map[j]
    BY <2>3 DEF TypeOK
  <2>5. enclave_map[id[e]] = e
    <3>1. In(e, {"f_dev", "f_proc"})  BY <2>2, <2>3 DEF In
    <3>2. QED  BY <3>1 DEF SlotInv
  <2>6. /\ state[e] = "dead"
        /\ \A u \in Threads \ {t} : th[u].e = e => th[u].pc \in CtrlPcs
    BY <1>c, <1>i, <2>2, <2>3, Freer
  <2>7. ~In(e, {"f_dev", "f_proc"})'  BY <1>c, <2>1, <2>6, InMoved
  <2>8. \A x \in Objects : x # e => (In(x, {"f_dev", "f_proc"})' => In(x, {"f_dev", "f_proc"}))
    BY <2>1, InMoved
  <2>9. \A x \in Objects : state'[x] # "dead" \/ In(x, {"f_dev", "f_proc"})'
             => enclave_map'[id'[x]] = x
    <3>1. \A x \in Objects : id[x] \in Slots  BY DEF TypeOK
    <3>2. QED  BY <2>3, <2>4, <2>5, <2>6, <2>7, <2>8, <3>1 DEF SlotInv
  <2>10. /\ th'[t].pc = "f_fs"
        /\ \A u \in Threads : u # t =>
             th'[u].pc = th[u].pc /\ th'[u].e = th[u].e /\ th'[u].slot = th[u].slot
    BY <2>1 DEF Moves
  <2>11. \A u \in Threads : th'[u].pc = "claim" => enclave_map'[th'[u].slot] = None
    BY <1>o, <2>4, <2>10 DEF SlotInv
  <2>12. \A u \in Threads : th'[u].pc = "register" => enclave_map'[th'[u].slot] = th'[u].e
    BY <1>c, <1>o, <2>4, <2>5, <2>6, <2>10 DEF SlotInv
  <2>13. \A u, w \in Threads : th'[u].pc \in LoadPcs /\ th'[w].pc \in LoadPcs => u = w
    BY <1>c, <2>10 DEF SlotInv
  <2>14. QED  BY <2>9, <2>11, <2>12, <2>13 DEF SlotInv
<1>17. ASSUME NEW t \in Threads, FreeFs(t)
      PROVE  SlotInv'
  <2>1. Moves(t, "f_lcall", th[t].e)  BY <1>17, <1>p, <1>t, GotoMoves DEF FreeFs
  <2>2. th[t].pc = "f_fs" /\ UNCHANGED <<enclave_map, id, state>>  BY <1>17 DEF FreeFs
  <2>3. QED  BY <1>c, <1>m, <2>1, <2>2
<1>18. ASSUME NEW t \in Threads, FreeLcall(t)
      PROVE  SlotInv'
  <2>1. Moves(t, "f_put", th[t].e)  BY <1>18, <1>p, <1>t, GotoMoves DEF FreeLcall
  <2>2. th[t].pc = "f_lcall" /\ UNCHANGED <<enclave_map, id, state>>  BY <1>18 DEF FreeLcall
  <2>3. QED  BY <1>c, <1>m, <2>1, <2>2
<1>19. ASSUME NEW t \in Threads, FreePut(t)
      PROVE  SlotInv'
  <2>1. Moves(t, "none", None)  BY <1>19, <1>t, ReturnMoves DEF FreePut
  <2>2. th[t].pc = "f_put" /\ UNCHANGED <<enclave_map, id, state>>  BY <1>19 DEF FreePut
  <2>3. QED  BY <1>c, <1>m, <2>1, <2>2
<1>20. ASSUME NEW t \in Threads, NEW i \in Slots, pisces_enclave_free(t, i)
      PROVE  SlotInv'
  <2>0. PICK e \in Objects : e = enclave_map[i]  BY <1>20 DEF TypeOK, pisces_enclave_free
  <2>1. Moves(t, "f_dev", e)  BY <1>20, <1>p, <1>t, <2>0, BeginMoves DEF pisces_enclave_free
  <2>2. /\ th[t].pc = "none" /\ UNCHANGED <<enclave_map, id>>
        /\ state' = [state EXCEPT ![e] = "dead"]
        /\ \A u \in Threads : th[u].e = e => th[u].pc \in CtrlPcs
    BY <1>20, <1>c, <2>0 DEF pisces_enclave_free, Orderly, InCtrl
  <2>3. \A x \in Objects : x # e => state'[x] = state[x]  BY <2>2 DEF TypeOK
  <2>4. enclave_map[id[e]] = e
    <3>1. MapOf(i, e)  BY <1>i, <2>0 DEF MapInv
    <3>2. \A u \in Threads : th[u].e = e => th[u].pc # "register"  BY <1>c, <2>2
    <3>3. QED  BY <2>0, <3>1, <3>2 DEF MapOf
  <2>5. \A x \in Objects : x # e => (In(x, {"f_dev", "f_proc"})' => In(x, {"f_dev", "f_proc"}))
    BY <2>1, InMoved
  <2>6. /\ th'[t].pc = "f_dev"
        /\ \A u \in Threads : u # t =>
             th'[u].pc = th[u].pc /\ th'[u].e = th[u].e /\ th'[u].slot = th[u].slot
    BY <2>1 DEF Moves
  <2>7. \A x \in Objects : state'[x] # "dead" \/ In(x, {"f_dev", "f_proc"})'
             => enclave_map'[id'[x]] = x
    BY <2>2, <2>3, <2>4, <2>5 DEF SlotInv
  <2>8. QED  BY <1>c, <2>2, <2>6, <2>7 DEF SlotInv
<1>21. ASSUME NEW e \in Objects, proc_open(e)
      PROVE  SlotInv'
  BY <1>21, <1>s DEF proc_open
<1>22. ASSUME NEW e \in Objects, pisces_ctrl_connect(e)
      PROVE  SlotInv'
  BY <1>22, <1>s DEF pisces_ctrl_connect
<1>23. ASSUME NEW e \in Objects, pisces_cons_connect(e)
      PROVE  SlotInv'
  BY <1>23, <1>s DEF pisces_cons_connect
<1>24. ASSUME NEW e \in Objects, ReleaseCons(e)
      PROVE  SlotInv'
  BY <1>24, <1>s DEF ReleaseCons
<1>25. ASSUME NEW e \in Objects, LcallBegin(e)
      PROVE  SlotInv'
  BY <1>25, <1>s DEF LcallBegin
<1>26. ASSUME NEW e \in Objects, LcallEnd(e)
      PROVE  SlotInv'
  BY <1>26, <1>s DEF LcallEnd
<1>27. ASSUME NEW e \in Objects, NEW kind \in RefKinds, ReleaseRef(e, kind)
      PROVE  SlotInv'
  BY <1>27, <1>s DEF ReleaseRef
<1>28. QED  BY <1>1, <1>2, <1>3, <1>4, <1>5, <1>6, <1>7, <1>8, <1>9, <1>10, <1>11, <1>12, <1>13, <1>14, <1>15, <1>16, <1>17, <1>18, <1>19, <1>20, <1>21, <1>22, <1>23, <1>24, <1>25, <1>26, <1>27 DEF Next

(* An enclave that lives is in the map in the slot that is its id, for every
   number of slots, threads and enclaves, although alloc_enclave_index searches
   and claims without a lock; as long as LOADs come one at a time, FREE runs
   alone and the device can be made.                                       *)
THEOREM ReachableCorrect ==
  ASSUME Faults \cap {"free", "cdev", "load"} = {}
  PROVE  Spec => []Reachable
<1>1. Init => TypeOK /\ CallInv /\ BaseInv /\ SlotInv
  <2>1. ASSUME Init  PROVE SlotInv
    <3>1. \A t \in Threads : th[t].pc = "none" /\ th[t].e = None  BY <2>1 DEF Init, Free0
    <3>2. \A e \in Objects : ~In(e, {"f_dev", "f_proc"})  BY <3>1 DEF In
    <3>3. QED  BY <2>1, <3>1, <3>2 DEF Init, SlotInv, LoadPcs
  <2>2. QED  BY <2>1, TypeInit, BaseInit
<1>2. TypeOK /\ CallInv /\ BaseInv /\ SlotInv /\ [Next]_vars
        => (TypeOK /\ CallInv /\ BaseInv /\ SlotInv)'
  <2>1. SlotInv /\ UNCHANGED vars => SlotInv'  BY InStill DEF SlotInv, vars
  <2>2. QED  BY <2>1, TypeNext, BaseNext, SlotStep
<1>3. SlotInv => Reachable  BY DEF SlotInv, Reachable
<1>4. QED  BY <1>1, <1>2, <1>3, PTL DEF Spec

(* What is referred to is there, for every number of enclaves and threads: no
   thread, the map or the long-call thread FREE will stop refers to an object
   that was freed.  FREE may meet commands and come while the enclave runs, and
   enclaves may be launched and reset in any order, fail and be launched again;
   it must not race a FREE, an open, a LAUNCH or a RESET, and the device can be
   made (src/enclave.c:627-690).                                           *)
THEOREM DanglingCorrect ==
  ASSUME Faults \cap {"free", "cdev"} = {}
  PROVE  Spec => []NoDangling
<1>1. Init => TypeOK /\ CallInv /\ BaseInv  BY TypeInit, BaseInit
<1>2. TypeOK /\ CallInv /\ BaseInv /\ [Next]_vars => (TypeOK /\ CallInv /\ BaseInv)'
  BY TypeNext, BaseNext
<1>3. TypeOK /\ BaseInv => NoDangling
  <2> SUFFICES ASSUME TypeOK, BaseInv  PROVE NoDangling
    OBVIOUS
  <2>1. \A e \in Objects, P \in SUBSET FreePcs : In(e, P) => mem[e]
    BY EnclaveAssumption DEF BaseInv, LifeInv, In
  <2>2. \A e \in Objects : lcall[e] # "none" => mem[e]
    <3>1. {"f_dev", "f_proc", "f_fs", "f_lcall"} \in SUBSET FreePcs  BY DEF FreePcs
    <3>2. QED  BY <2>1, <3>1 DEF BaseInv, PartsInv, PartsOf, LifeInv
  <2>3. ASSUME NEW i \in Slots, NEW e \in Objects, enclave_map[i] = e
        PROVE  mem[e] /\ (id[e] = i \/ \E t \in Threads : th[t].e = e /\ InLoad(t))
    <3>1. {"f_dev", "f_proc"} \in SUBSET FreePcs  BY DEF FreePcs
    <3>2. MapOf(i, e)  BY <2>3 DEF BaseInv, MapInv
    <3>3. CASE id[e] = i /\ (state[e] # "dead" \/ In(e, {"f_dev", "f_proc"}))
      BY <2>1, <3>1, <3>3 DEF BaseInv, LifeInv
    <3>4. CASE \E t \in Threads : th[t].e = e /\ th[t].pc = "register" /\ th[t].slot = i
      BY <3>4, EnclaveAssumption DEF BaseInv, LifeInv, InLoad
    <3>5. QED  BY <3>2, <3>3, <3>4 DEF MapOf
  <2>4. \A t \in Threads : th[t].e # None => mem[th[t].e]  BY DEF BaseInv, LifeInv
  <2>5. \A i \in Slots : enclave_map[i] \in Objects \cup {None}  BY DEF TypeOK
  <2>6. QED  BY <2>2, <2>3, <2>4, <2>5 DEF NoDangling
<1>4. QED  BY <1>1, <1>2, <1>3, PTL DEF Spec
=============================================================================
