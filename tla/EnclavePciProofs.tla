-------------------------- MODULE EnclavePciProofs --------------------------
(***************************************************************************)
(* Proofs about the PCI devices of an enclave, for any devices and any     *)
(* number of them, in three layers that ask for more and more:             *)
(*                                                                         *)
(*   DomainInv  whose the hardware is, when user space is orderly;         *)
(*   IntxInv    the interrupts, when the enclave's driver is tidy as well; *)
(*   UseInv     what the threads have in their hands, when moreover a      *)
(*              device can always be attached to its domain, and after     *)
(*              RESET be initialised again and is not refused.             *)
(*                                                                         *)
(* In the first two layers attaching may fail, and the enclave may refuse  *)
(* devices after RESET.                                                    *)
(***************************************************************************)
EXTENDS EnclavePci, TLAPS

(* Who behaves.                                                            *)
Calm == "disorderly" \notin Faults
Tidy == Calm /\ "untidy" \notin Faults
Tame == Tidy /\ Faults \cap {"reinit", "refused", "attach"} = {}

(* Where a command adds a device, and where a long call has an object in   *)
(* its hands, one it found assigned or assigned itself.                    *)
Adds    == {"name", "init", "del"}
LcHolds == CallOps \union {"request", "unassign"}
Keeping == {"attach", "request", "map", "detach", "unassign"}

-----------------------------------------------------------------------------
(* First layer.  An object is ready while it is on the list and has the    *)
(* device's regions; only a listed one is assigned, and FREE may find one  *)
(* that it has freed already.                                              *)
ObjInv ==
  /\ \A o \in Objs :
       /\ obj[o].mem = "none" =>
            o \notin dev_list /\ obj[o].name = "" /\ ~obj[o].ready /\ ~obj[o].assigned
       /\ obj[o].ready => o \in dev_list /\ obj[o].name # "" /\ Live(o)
       /\ obj[o].assigned => o \in dev_list
  /\ \A o \in dev_list :
       /\ Live(o) \/ top.pc \in {"deinit", "oops"}
       /\ obj[o].name = "" => ctl.obj = o /\ ctl.pc = "name"
  /\ \A o, p \in dev_list : obj[o].name = obj[p].name => o = p

(* The command that holds ctrl->lock.                                      *)
CtlInv ==
  /\ ctl.pc # "idle" => ctl.dev \in Devs /\ top.pc = "idle"
  /\ ctl.pc \in Adds =>
       /\ ctl.obj \in dev_list /\ ~obj[ctl.obj].ready /\ ~obj[ctl.obj].assigned
       /\ obj[ctl.obj].name = IF ctl.pc = "name" THEN "" ELSE ctl.dev
  /\ ctl.pc = "name" => \A o \in dev_list : obj[o].name # ctl.dev
  /\ ctl.pc = "deinit" => /\ ctl.obj \in Objs \ dev_list
                          /\ Live(ctl.obj) /\ ~obj[ctl.obj].ready
                          /\ ~obj[ctl.obj].assigned

(* The long call: the assignment keeps its object.                         *)
AssignInv ==
  /\ lc.pc # "idle" => lc.dev \in Devs
  /\ lc.pc = "find" => lc.op \in CallOps
  /\ lc.pc \in LcHolds => lc.obj \in Objs
  /\ lc.pc \in Keeping => obj[lc.obj].name = lc.dev /\ obj[lc.obj].assigned
  /\ lc.pc = "attach" => obj[lc.obj].ready
  /\ lc.pc = "unassign" => \A d \in Devs : attached[d] # lc.obj

(* The hardware and the objects agree.                                     *)
HwInv ==
  /\ \A d \in Devs :
       /\ regions[d] # Null =>
            /\ obj[regions[d]].name = d
            /\ obj[regions[d]].ready \/ (ctl.pc = "deinit" /\ ctl.obj = regions[d])
       /\ attached[d] # Null => /\ obj[attached[d]].name = d
                                /\ obj[attached[d]].assigned /\ obj[attached[d]].ready
  /\ \A o \in Objs : obj[o].ready => regions[obj[o].name] = o

(* RESET and FREE find no device attached and no call under way; the       *)
(* devices RESET has still to tell the enclave of are on the list.         *)
QuietInv ==
  /\ top.pc \in {"reset", "deinit"} => lc.pc = "idle" /\ \A d \in Devs : attached[d] = Null
  /\ top.pc = "readd" => top.todo \subseteq dev_list

DomainInv == TypeOK /\ ObjInv /\ CtlInv /\ AssignInv /\ HwInv /\ QuietInv

-----------------------------------------------------------------------------
(* Types.                                                                  *)
DevObj == [mem : {"none", "live", "freed"}, name : Devs \union {""},
           bound : BOOLEAN, ready : BOOLEAN, assigned : BOOLEAN,
           vector : BOOLEAN, intx_disabled : BOOLEAN]

TopType == [pc : {"idle", "reset", "readd", "deinit", "gone", "oops"}, todo : SUBSET Objs]

Places == {"idle", "name", "init", "del", "tell", "answer", "unlink", "deinit",
           "find", "request", "unassign", "resp"} \union CallOps

LEMMA NullIsNone == Null \notin Objs /\ "" \notin Devs
<1>1. Null \notin Objs
  BY BoundAssumption DEF Null, Objs
<1>2. "" \notin Devs
  BY DevsAssumption
<1> QED  BY <1>1, <1>2

LEMMA TypeFacts ==
  ASSUME TypeOK
  PROVE  /\ dev_list \subseteq Objs /\ dev_cnt \in Int /\ obj \in [Objs -> DevObj]
         /\ regions \in Owner /\ attached \in Owner /\ handler \in Owner
         /\ masked \in [Devs -> BOOLEAN] /\ owed \in [Devs -> BOOLEAN] /\ known \subseteq Devs
         /\ pending \in BOOLEAN /\ ctl \in Thread /\ lc \in Thread /\ top \in TopType
BY DEF TypeOK, DevObj, TopType

LEMMA TypeParts ==
  ASSUME dev_list \subseteq Objs, dev_cnt \in Int, obj \in [Objs -> DevObj],
         regions \in Owner, attached \in Owner, handler \in Owner,
         masked \in [Devs -> BOOLEAN], owed \in [Devs -> BOOLEAN], known \subseteq Devs,
         pending \in BOOLEAN, ctl \in Thread, lc \in Thread, top \in TopType
  PROVE  TypeOK
BY DEF TypeOK, DevObj, TopType

LEMMA TypeNext ==
  ASSUME dev_list' \subseteq Objs, dev_cnt' \in Int, obj' \in [Objs -> DevObj],
         regions' \in Owner, attached' \in Owner, handler' \in Owner,
         masked' \in [Devs -> BOOLEAN], owed' \in [Devs -> BOOLEAN], known' \subseteq Devs,
         pending' \in BOOLEAN, ctl' \in Thread, lc' \in Thread, top' \in TopType
  PROVE  TypeOK'
BY DEF TypeOK, DevObj, TopType

LEMMA OwnerFacts ==
  ASSUME TypeOK
  PROVE  \A d \in Devs : /\ regions[d] \in Objs \union {Null}
                         /\ attached[d] \in Objs \union {Null}
                         /\ handler[d] \in Objs \union {Null}
BY TypeFacts DEF Owner

LEMMA NameFacts ==
  ASSUME TypeOK
  PROVE  \A o \in Objs : obj[o].name \in Devs \union {""} /\ obj[o].ready \in BOOLEAN
                         /\ obj[o].assigned \in BOOLEAN
BY TypeFacts DEF DevObj

LEMMA IdleThread == Idle \in Thread /\ Idle.pc = "idle" /\ Idle.op = "none"
BY DEF Idle, Thread, Null

(* A thread that goes to another place, with the object it has or another. *)
LEMMA Goes ==
  ASSUME NEW t \in Thread, NEW p \in Places
  PROVE  /\ [t EXCEPT !.pc = p] \in Thread
         /\ [t EXCEPT !.pc = p].pc = p /\ [t EXCEPT !.pc = p].op = t.op
         /\ [t EXCEPT !.pc = p].dev = t.dev /\ [t EXCEPT !.pc = p].obj = t.obj
BY DEF Thread, Places

LEMMA TopGoes ==
  ASSUME top \in TopType, NEW p \in {"idle", "reset", "readd", "deinit", "gone", "oops"}, Top(p)
  PROVE  top' \in TopType /\ top'.pc = p /\ top'.todo = top.todo
BY DEF TopType, Top

LEMMA TopTells ==
  ASSUME top \in TopType, NEW o, top' = [top EXCEPT !.todo = @ \ {o}]
  PROVE  top' \in TopType /\ top'.pc = top.pc /\ top'.todo = top.todo \ {o}
BY DEF TopType

(* What find_dev_by_name finds.                                            *)
LEMMA FoundDev ==
  ASSUME NEW d, TypeOK
  PROVE  \/ /\ find_dev_by_name(d) = Null
            /\ \A o \in dev_list : obj[o].name # d
         \/ /\ find_dev_by_name(d) \in dev_list /\ find_dev_by_name(d) # Null
            /\ find_dev_by_name(d) \in Objs
            /\ obj[find_dev_by_name(d)].name = d
<1>1. CASE \E o \in dev_list : obj[o].name = d
  <2>1. find_dev_by_name(d) = CHOOSE o \in dev_list : obj[o].name = d
    BY <1>1 DEF find_dev_by_name
  <2>2. find_dev_by_name(d) \in dev_list /\ obj[find_dev_by_name(d)].name = d
    BY <1>1, <2>1
  <2> QED  BY <2>2, NullIsNone, TypeFacts
<1>2. CASE ~\E o \in dev_list : obj[o].name = d
  BY <1>2 DEF find_dev_by_name
<1> QED  BY <1>1, <1>2

(* Hardware given back by the object p.                                    *)
LEMMA WithoutOne ==
  ASSUME NEW f \in Owner, NEW S
  PROVE  /\ Without(f, S) \in Owner
         /\ \A d \in Devs : Without(f, S)[d] = IF f[d] \in S THEN Null ELSE f[d]
BY DEF Without, Owner

-----------------------------------------------------------------------------
(* What a step does to the objects: all but p stay as they are.            *)
Rest(p) == \A o \in Objs : o # p => obj'[o] = obj[o]

(* What the layers read of an object.                                      *)
Same(o) == /\ obj'[o].mem = obj[o].mem /\ obj'[o].name = obj[o].name
           /\ obj'[o].ready = obj[o].ready /\ obj'[o].assigned = obj[o].assigned

KeepList == dev_list' = dev_list /\ \A o \in Objs : Same(o)
KeepIntx == \A o \in Objs : obj'[o].intx_disabled = obj[o].intx_disabled

LEMMA ObjsSame ==
  ASSUME UNCHANGED <<dev_list, obj>>
  PROVE  KeepList /\ KeepIntx
BY DEF KeepList, KeepIntx, Same

LEMMA OneObj ==
  ASSUME TypeOK, NEW p \in Objs, NEW r \in DevObj, obj' = [obj EXCEPT ![p] = r]
  PROVE  obj' \in [Objs -> DevObj] /\ obj'[p] = r /\ Rest(p)
BY TypeFacts DEF Rest

(* The vector of a device, which only its interrupt handler reads.         *)
LEMMA VectorOnly ==
  ASSUME TypeOK, NEW p \in Objs, NEW v \in BOOLEAN, UNCHANGED dev_list,
         obj' = [obj EXCEPT ![p].vector = v]
  PROVE  obj' \in [Objs -> DevObj] /\ KeepList /\ KeepIntx
<1> DEFINE r == [obj[p] EXCEPT !.vector = v]
<1>1. obj[p] \in DevObj
  BY TypeFacts
<1>2. /\ r \in DevObj /\ r.mem = obj[p].mem /\ r.name = obj[p].name /\ r.ready = obj[p].ready
      /\ r.assigned = obj[p].assigned /\ r.intx_disabled = obj[p].intx_disabled
  BY <1>1 DEF DevObj
<1>3. obj' = [obj EXCEPT ![p] = r]
  OBVIOUS
<1> HIDE DEF r
<1>4. obj' \in [Objs -> DevObj] /\ obj'[p] = r /\ Rest(p)
  BY <1>2, <1>3, OneObj
<1> QED  BY <1>2, <1>4 DEF KeepList, KeepIntx, Same, Rest

(* INTx of a device that a call has in its hands.                          *)
LEMMA IntxOnly ==
  ASSUME TypeOK, NEW p \in Objs, NEW v \in BOOLEAN, UNCHANGED dev_list,
         obj' = [obj EXCEPT ![p].intx_disabled = v]
  PROVE  /\ obj' \in [Objs -> DevObj] /\ KeepList /\ Rest(p)
         /\ obj'[p].intx_disabled = v
<1> DEFINE r == [obj[p] EXCEPT !.intx_disabled = v]
<1>1. obj[p] \in DevObj
  BY TypeFacts
<1>2. /\ r \in DevObj /\ r.mem = obj[p].mem /\ r.name = obj[p].name /\ r.ready = obj[p].ready
      /\ r.assigned = obj[p].assigned /\ r.intx_disabled = v
  BY <1>1 DEF DevObj
<1>3. obj' = [obj EXCEPT ![p] = r]
  OBVIOUS
<1> HIDE DEF r
<1>4. obj' \in [Objs -> DevObj] /\ obj'[p] = r /\ Rest(p)
  BY <1>2, <1>3, OneObj
<1> QED  BY <1>2, <1>4 DEF KeepList, Same, Rest

(* Allocated or freed.                                                     *)
LEMMA SetMem ==
  ASSUME TypeOK, NEW p \in Objs, NEW m \in {"live", "freed"}, obj' = [obj EXCEPT ![p].mem = m]
  PROVE  /\ obj' \in [Objs -> DevObj] /\ Rest(p) /\ KeepIntx
         /\ obj'[p].mem = m /\ obj'[p].name = obj[p].name
         /\ obj'[p].ready = obj[p].ready /\ obj'[p].assigned = obj[p].assigned
<1> DEFINE r == [obj[p] EXCEPT !.mem = m]
<1>1. obj[p] \in DevObj
  BY TypeFacts
<1>2. /\ r \in DevObj /\ r.mem = m /\ r.name = obj[p].name /\ r.ready = obj[p].ready
      /\ r.assigned = obj[p].assigned /\ r.intx_disabled = obj[p].intx_disabled
  BY <1>1 DEF DevObj
<1>3. obj' = [obj EXCEPT ![p] = r]
  OBVIOUS
<1> HIDE DEF r
<1>4. obj' \in [Objs -> DevObj] /\ obj'[p] = r /\ Rest(p)
  BY <1>2, <1>3, OneObj
<1> QED  BY <1>2, <1>4 DEF KeepIntx, Rest

LEMMA SetReady ==
  ASSUME TypeOK, NEW p \in Objs, NEW v \in BOOLEAN, obj' = [obj EXCEPT ![p].ready = v]
  PROVE  /\ obj' \in [Objs -> DevObj] /\ Rest(p) /\ KeepIntx
         /\ obj'[p].mem = obj[p].mem /\ obj'[p].name = obj[p].name
         /\ obj'[p].ready = v /\ obj'[p].assigned = obj[p].assigned
<1> DEFINE r == [obj[p] EXCEPT !.ready = v]
<1>1. obj[p] \in DevObj
  BY TypeFacts
<1>2. /\ r \in DevObj /\ r.mem = obj[p].mem /\ r.name = obj[p].name /\ r.ready = v
      /\ r.assigned = obj[p].assigned /\ r.intx_disabled = obj[p].intx_disabled
  BY <1>1 DEF DevObj
<1>3. obj' = [obj EXCEPT ![p] = r]
  OBVIOUS
<1> HIDE DEF r
<1>4. obj' \in [Objs -> DevObj] /\ obj'[p] = r /\ Rest(p)
  BY <1>2, <1>3, OneObj
<1> QED  BY <1>2, <1>4 DEF KeepIntx, Rest

LEMMA SetAssigned ==
  ASSUME TypeOK, NEW p \in Objs, NEW v \in BOOLEAN, obj' = [obj EXCEPT ![p].assigned = v]
  PROVE  /\ obj' \in [Objs -> DevObj] /\ Rest(p) /\ KeepIntx
         /\ obj'[p].mem = obj[p].mem /\ obj'[p].name = obj[p].name
         /\ obj'[p].ready = obj[p].ready /\ obj'[p].assigned = v
<1> DEFINE r == [obj[p] EXCEPT !.assigned = v]
<1>1. obj[p] \in DevObj
  BY TypeFacts
<1>2. /\ r \in DevObj /\ r.mem = obj[p].mem /\ r.name = obj[p].name /\ r.ready = obj[p].ready
      /\ r.assigned = v /\ r.intx_disabled = obj[p].intx_disabled
  BY <1>1 DEF DevObj
<1>3. obj' = [obj EXCEPT ![p] = r]
  OBVIOUS
<1> HIDE DEF r
<1>4. obj' \in [Objs -> DevObj] /\ obj'[p] = r /\ Rest(p)
  BY <1>2, <1>3, OneObj
<1> QED  BY <1>2, <1>4 DEF KeepIntx, Rest

(* No longer ready, and freed.                                             *)
LEMMA SetGone ==
  ASSUME TypeOK, NEW p \in Objs, obj' = [obj EXCEPT ![p].ready = FALSE, ![p].mem = "freed"]
  PROVE  /\ obj' \in [Objs -> DevObj] /\ Rest(p) /\ KeepIntx
         /\ obj'[p].mem = "freed" /\ obj'[p].name = obj[p].name
         /\ ~obj'[p].ready /\ obj'[p].assigned = obj[p].assigned
<1> DEFINE r == [obj[p] EXCEPT !.ready = FALSE, !.mem = "freed"]
<1>1. obj[p] \in DevObj
  BY TypeFacts
<1>2. /\ r \in DevObj /\ r.mem = "freed" /\ r.name = obj[p].name /\ ~r.ready
      /\ r.assigned = obj[p].assigned /\ r.intx_disabled = obj[p].intx_disabled
  BY <1>1 DEF DevObj
<1>3. obj' = [obj EXCEPT ![p] = r]
  <2>1. obj \in [Objs -> DevObj]
    BY TypeFacts
  <2> QED  BY <2>1, <1>1 DEF DevObj
<1> HIDE DEF r
<1>4. obj' \in [Objs -> DevObj] /\ obj'[p] = r /\ Rest(p)
  BY <1>2, <1>3, OneObj
<1> QED  BY <1>2, <1>4 DEF KeepIntx, Rest

-----------------------------------------------------------------------------
(* What the steps that change the list or an object do.                    *)

(* The object a command or a long call has in its hands.                   *)
LEMMA CtlHolding ==
  ASSUME DomainInv, ctl.pc \in Adds \union {"deinit"}
  PROVE  /\ ctl.obj \in Objs /\ ctl.obj # Null /\ ctl.dev \in Devs /\ top.pc = "idle"
         /\ Live(ctl.obj) /\ ~obj[ctl.obj].ready /\ ~obj[ctl.obj].assigned
         /\ ctl.pc = "deinit" => ctl.obj \notin dev_list
         /\ ctl.pc # "deinit" => /\ ctl.obj \in dev_list
                                 /\ obj[ctl.obj].name = IF ctl.pc = "name" THEN "" ELSE ctl.dev
<1>1. ctl.obj \in Objs /\ ctl.dev \in Devs /\ top.pc = "idle" /\ ~obj[ctl.obj].ready
  BY TypeFacts DEF DomainInv, CtlInv, Adds
<1>2. ctl.pc # "deinit" => /\ ctl.obj \in dev_list
                           /\ obj[ctl.obj].name = IF ctl.pc = "name" THEN "" ELSE ctl.dev
  BY DEF DomainInv, CtlInv
<1>3. Live(ctl.obj)
  BY <1>1, <1>2 DEF DomainInv, ObjInv, CtlInv
<1>4. ~obj[ctl.obj].assigned
  BY DEF DomainInv, CtlInv
<1> QED  BY <1>1, <1>2, <1>3, <1>4, NullIsNone DEF DomainInv, CtlInv

LEMMA LcHolding ==
  ASSUME DomainInv, lc.pc \in LcHolds
  PROVE  /\ lc.obj \in Objs /\ lc.obj # Null /\ lc.dev \in Devs
         /\ lc.pc \in Keeping => obj[lc.obj].name = lc.dev /\ obj[lc.obj].assigned
<1>1. lc.pc # "idle"
  BY DEF LcHolds, CallOps
<1> QED  BY <1>1, NullIsNone DEF DomainInv, AssignInv

LEMMA AddListDoes ==
  ASSUME DomainInv, NEW d \in Devs, AddList(d)
  PROVE  \E p \in Objs :
         /\ TypeOK'
         /\ UNCHANGED <<regions, attached, handler, masked, owed, known, lc, top>>
         /\ dev_list' = dev_list \union {p} /\ Rest(p) /\ KeepIntx
         /\ p \notin dev_list /\ obj[p].name = "" /\ ~obj[p].ready /\ ~obj[p].assigned
         /\ obj'[p].mem = "live" /\ obj'[p].name = "" /\ ~obj'[p].ready /\ ~obj'[p].assigned
         /\ ctl'.pc = "name" /\ ctl'.dev = d /\ ctl'.obj = p
         /\ \A o \in dev_list : obj[o].name # d
<1>1. PICK p \in Objs :
        /\ obj[p].mem = "none" /\ obj' = [obj EXCEPT ![p].mem = "live"]
        /\ dev_list' = dev_list \union {p} /\ dev_cnt' = dev_cnt + 1
        /\ ctl' = [pc |-> "name", op |-> "add", dev |-> d, obj |-> p]
  BY DEF AddList
<1>2. find_dev_by_name(d) = Null /\ UNCHANGED <<hw, encl, lc, top>> /\ TypeOK
  BY DEF AddList, DomainInv
<1>3. ctl' \in Thread /\ ctl'.pc = "name" /\ ctl'.dev = d /\ ctl'.obj = p
  BY <1>1 DEF Thread
<1>4. p \notin dev_list /\ obj[p].name = "" /\ ~obj[p].ready /\ ~obj[p].assigned
  BY <1>1 DEF DomainInv, ObjInv
<1>5. /\ obj' \in [Objs -> DevObj] /\ Rest(p) /\ KeepIntx
      /\ obj'[p].mem = "live" /\ obj'[p].name = obj[p].name
      /\ obj'[p].ready = obj[p].ready /\ obj'[p].assigned = obj[p].assigned
  BY <1>1, <1>2, SetMem
<1>6. dev_list' \subseteq Objs /\ dev_cnt' \in Int
  BY <1>1, <1>2, TypeFacts
<1>7. TypeOK'
  BY <1>2, <1>3, <1>5, <1>6, TypeFacts, TypeNext DEF hw, encl
<1>8. \A o \in dev_list : obj[o].name # d
  BY <1>2, FoundDev
<1> QED  BY <1>1, <1>2, <1>3, <1>4, <1>5, <1>7, <1>8 DEF hw, encl

LEMMA AddNameDoes ==
  ASSUME DomainInv, AddName
  PROVE  /\ TypeOK' /\ ctl.pc = "name" /\ ctl.obj \in Objs
         /\ UNCHANGED <<dev_list, regions, attached, handler, masked, owed, known, lc, top>>
         /\ Rest(ctl.obj)
         /\ obj'[ctl.obj].mem = obj[ctl.obj].mem /\ obj'[ctl.obj].name = ctl.dev
         /\ obj'[ctl.obj].ready = obj[ctl.obj].ready /\ obj'[ctl.obj].assigned = obj[ctl.obj].assigned
         /\ obj'[ctl.obj].intx_disabled
         /\ ctl'.pc \in {"init", "del"} /\ ctl'.dev = ctl.dev /\ ctl'.obj = ctl.obj
<1> DEFINE p == ctl.obj
           named == {[obj[p] EXCEPT !.name = ctl.dev, !.intx_disabled = TRUE, !.bound = TRUE],
                     [obj[p] EXCEPT !.name = ctl.dev, !.intx_disabled = TRUE]}
<1>1. /\ ctl.pc = "name" /\ UNCHANGED <<list, hw, encl, lc, top>>
      /\ \/ /\ ctl' = [ctl EXCEPT !.pc = "init"]
            /\ obj' = [obj EXCEPT ![ctl.obj].name = ctl.dev,
                                  ![ctl.obj].intx_disabled = TRUE,
                                  ![ctl.obj].bound = TRUE]
         \/ /\ ctl' = [ctl EXCEPT !.pc = "del"]
            /\ obj' = [obj EXCEPT ![ctl.obj].name = ctl.dev,
                                  ![ctl.obj].intx_disabled = TRUE]
      /\ TypeOK
  BY DEF AddName, DomainInv
<1>2. p \in Objs /\ ctl.dev \in Devs
  BY <1>1, CtlHolding DEF Adds
<1>3. ctl' \in Thread /\ ctl'.pc \in {"init", "del"} /\ ctl'.dev = ctl.dev /\ ctl'.obj = p
  <2>1. ctl' = [ctl EXCEPT !.pc = "init"] \/ ctl' = [ctl EXCEPT !.pc = "del"]
    BY <1>1
  <2>2. ctl \in Thread /\ "init" \in Places /\ "del" \in Places
    BY <1>1, TypeFacts DEF Places
  <2>3. CASE ctl' = [ctl EXCEPT !.pc = "init"]
    BY <2>2, <2>3, Goes
  <2>4. CASE ctl' = [ctl EXCEPT !.pc = "del"]
    BY <2>2, <2>4, Goes
  <2> QED  BY <2>1, <2>3, <2>4
<1>4. obj[p] \in DevObj
  BY <1>1, <1>2, TypeFacts
<1>5. \A r \in named : /\ r \in DevObj /\ r.mem = obj[p].mem /\ r.name = ctl.dev
                       /\ r.ready = obj[p].ready /\ r.assigned = obj[p].assigned
                       /\ r.intx_disabled
  BY <1>2, <1>4 DEF DevObj
<1>6. PICK r \in named : obj' = [obj EXCEPT ![p] = r]
  BY <1>1, <1>2, TypeFacts
<1>7. obj' \in [Objs -> DevObj] /\ obj'[p] = r /\ Rest(p)
  BY <1>1, <1>2, <1>5, <1>6, OneObj
<1>8. /\ obj'[p].mem = obj[p].mem /\ obj'[p].name = ctl.dev /\ obj'[p].ready = obj[p].ready
      /\ obj'[p].assigned = obj[p].assigned /\ obj'[p].intx_disabled
  BY <1>5, <1>7
<1>9. TypeOK'
  BY <1>1, <1>3, <1>7, TypeFacts, TypeNext DEF list, hw, encl
<1> QED  BY <1>1, <1>2, <1>3, <1>7, <1>8, <1>9 DEF list, hw, encl

(* The device is ready, or goes back.                                      *)
LEMMA InitDoes ==
  ASSUME DomainInv, init_pci_dev
  PROVE  /\ TypeOK' /\ ctl.pc = "init" /\ ctl.obj \in Objs /\ KeepIntx
         /\ UNCHANGED <<dev_list, attached, handler, masked, owed, known, lc, top>>
         /\ ctl'.dev = ctl.dev /\ ctl'.obj = ctl.obj
         /\ \/ /\ regions[ctl.dev] = Null /\ ctl'.pc = "tell" /\ Rest(ctl.obj)
               /\ \A d \in Devs : regions'[d] = IF d = ctl.dev THEN ctl.obj ELSE regions[d]
               /\ obj'[ctl.obj].mem = obj[ctl.obj].mem /\ obj'[ctl.obj].name = obj[ctl.obj].name
               /\ obj'[ctl.obj].ready /\ obj'[ctl.obj].assigned = obj[ctl.obj].assigned
            \/ ctl'.pc = "del" /\ UNCHANGED <<regions, obj>>
<1>1. /\ ctl.pc = "init" /\ UNCHANGED <<list, attached, handler, masked, encl, lc, top>> /\ TypeOK
      /\ \/ /\ regions[ctl.dev] = Null /\ regions' = [regions EXCEPT ![ctl.dev] = ctl.obj]
            /\ obj' = [obj EXCEPT ![ctl.obj].ready = TRUE]
            /\ ctl' = [ctl EXCEPT !.pc = "tell"]
         \/ ctl' = [ctl EXCEPT !.pc = "del"] /\ UNCHANGED <<regions, obj>>
  BY DEF init_pci_dev, DomainInv
<1>2. ctl.obj \in Objs /\ ctl.dev \in Devs
  BY <1>1, CtlHolding DEF Adds
<1>3. ctl \in Thread /\ "tell" \in Places /\ "del" \in Places
  BY <1>1, TypeFacts DEF Places
<1>4. CASE /\ regions[ctl.dev] = Null /\ regions' = [regions EXCEPT ![ctl.dev] = ctl.obj]
           /\ obj' = [obj EXCEPT ![ctl.obj].ready = TRUE] /\ ctl' = [ctl EXCEPT !.pc = "tell"]
  <2>1. ctl' \in Thread /\ ctl'.pc = "tell" /\ ctl'.dev = ctl.dev /\ ctl'.obj = ctl.obj
    BY <1>3, <1>4, Goes
  <2>2. regions' \in Owner
        /\ \A d \in Devs : regions'[d] = IF d = ctl.dev THEN ctl.obj ELSE regions[d]
    BY <1>1, <1>2, <1>4, TypeFacts DEF Owner
  <2>3. /\ obj' \in [Objs -> DevObj] /\ Rest(ctl.obj) /\ KeepIntx
        /\ obj'[ctl.obj].mem = obj[ctl.obj].mem /\ obj'[ctl.obj].name = obj[ctl.obj].name
        /\ obj'[ctl.obj].ready = TRUE /\ obj'[ctl.obj].assigned = obj[ctl.obj].assigned
    BY <1>1, <1>2, <1>4, SetReady
  <2>4. TypeOK'
    BY <1>1, <2>1, <2>2, <2>3, TypeFacts, TypeNext DEF list, encl
  <2> QED  BY <1>1, <1>2, <1>4, <2>1, <2>2, <2>3, <2>4 DEF list, encl
<1>5. CASE ctl' = [ctl EXCEPT !.pc = "del"] /\ UNCHANGED <<regions, obj>>
  <2>1. ctl' \in Thread /\ ctl'.pc = "del" /\ ctl'.dev = ctl.dev /\ ctl'.obj = ctl.obj
    BY <1>3, <1>5, Goes
  <2>2. TypeOK'
    BY <1>1, <1>5, <2>1, TypeFacts, TypeNext DEF list, encl
  <2> QED  BY <1>1, <1>2, <1>5, <2>1, <2>2 DEF list, encl, KeepIntx
<1> QED  BY <1>1, <1>4, <1>5

LEMMA AddFailedDoes ==
  ASSUME DomainInv, AddFailed
  PROVE  /\ TypeOK' /\ ctl.pc = "del" /\ ctl.obj \in Objs /\ KeepIntx
         /\ UNCHANGED <<regions, attached, handler, masked, owed, known, lc, top>>
         /\ dev_list' = dev_list \ {ctl.obj} /\ Rest(ctl.obj) /\ ctl'.pc = "idle"
         /\ obj'[ctl.obj].mem = "freed" /\ obj'[ctl.obj].name = obj[ctl.obj].name
         /\ ~obj'[ctl.obj].ready /\ ~obj'[ctl.obj].assigned
<1>1. /\ ctl.pc = "del" /\ dev_list' = dev_list \ {ctl.obj} /\ ctl' = Idle /\ TypeOK
      /\ obj' = [obj EXCEPT ![ctl.obj].mem = "freed"] /\ UNCHANGED <<dev_cnt, hw, encl, lc, top>>
  BY DEF AddFailed, DomainInv
<1>2. ctl.obj \in Objs /\ ~obj[ctl.obj].ready /\ ~obj[ctl.obj].assigned
  BY <1>1, CtlHolding DEF Adds
<1>3. /\ obj' \in [Objs -> DevObj] /\ Rest(ctl.obj) /\ KeepIntx
      /\ obj'[ctl.obj].mem = "freed" /\ obj'[ctl.obj].name = obj[ctl.obj].name
      /\ obj'[ctl.obj].ready = obj[ctl.obj].ready /\ obj'[ctl.obj].assigned = obj[ctl.obj].assigned
  BY <1>1, <1>2, SetMem
<1>4. TypeOK'
  BY <1>1, <1>3, IdleThread, TypeFacts, TypeNext DEF hw, encl
<1> QED  BY <1>1, <1>2, <1>3, <1>4, IdleThread DEF hw, encl

(* The removal is refused, or takes a ready device off the list.           *)
LEMMA RemoveDoes ==
  ASSUME DomainInv, enclave_pci_remove_dev
  PROVE  /\ TypeOK' /\ ctl.pc = "unlink" /\ KeepIntx
         /\ UNCHANGED <<regions, attached, handler, masked, owed, known, lc, top>>
         /\ \/ ctl'.pc = "idle" /\ UNCHANGED <<dev_list, obj>>
            \/ \E p \in dev_list :
                 /\ p \in Objs /\ obj[p].name = ctl.dev /\ obj[p].ready /\ ~obj[p].assigned
                 /\ dev_list' = dev_list \ {p} /\ Rest(p)
                 /\ ctl'.pc = "deinit" /\ ctl'.dev = ctl.dev /\ ctl'.obj = p
                 /\ obj'[p].mem = obj[p].mem /\ obj'[p].name = obj[p].name
                 /\ ~obj'[p].ready /\ ~obj'[p].assigned
<1> DEFINE p == find_dev_by_name(ctl.dev)
<1>1. /\ ctl.pc = "unlink" /\ UNCHANGED <<hw, encl, lc, top>> /\ TypeOK
      /\ \/ /\ Removable(p) /\ obj' = [obj EXCEPT ![p].ready = FALSE]
            /\ dev_list' = dev_list \ {p} /\ dev_cnt' = dev_cnt - 1
            /\ ctl' = [ctl EXCEPT !.pc = "deinit", !.obj = p]
         \/ ctl' = Idle /\ UNCHANGED <<obj, list>>
  BY DEF enclave_pci_remove_dev, DomainInv
<1>2. CASE ctl' = Idle /\ UNCHANGED <<obj, list>>
  <2>1. TypeOK'
    BY <1>1, <1>2, IdleThread, TypeFacts, TypeNext DEF list, hw, encl
  <2> QED  BY <1>1, <1>2, <2>1, IdleThread DEF list, hw, encl, KeepIntx
<1>3. CASE /\ Removable(p) /\ obj' = [obj EXCEPT ![p].ready = FALSE]
           /\ dev_list' = dev_list \ {p} /\ dev_cnt' = dev_cnt - 1
           /\ ctl' = [ctl EXCEPT !.pc = "deinit", !.obj = p]
  <2>1. /\ p \in dev_list /\ p \in Objs /\ obj[p].name = ctl.dev
        /\ obj[p].ready /\ ~obj[p].assigned
    BY <1>1, <1>3, FoundDev DEF Removable
  <2> HIDE DEF p
  <2>2. /\ obj' \in [Objs -> DevObj] /\ Rest(p) /\ KeepIntx
        /\ obj'[p].mem = obj[p].mem /\ obj'[p].name = obj[p].name
        /\ obj'[p].ready = FALSE /\ obj'[p].assigned = obj[p].assigned
    BY <1>1, <1>3, <2>1, SetReady
  <2>3. ctl' \in Thread /\ ctl'.pc = "deinit" /\ ctl'.dev = ctl.dev /\ ctl'.obj = p
    <3>1. ctl \in Thread
      BY <1>1, TypeFacts
    <3>2. ctl' = [ctl EXCEPT !.pc = "deinit", !.obj = p] /\ p \in Objs
      BY <1>3, <2>1
    <3>3. /\ [ctl EXCEPT !.pc = "deinit", !.obj = p] \in Thread
          /\ [ctl EXCEPT !.pc = "deinit", !.obj = p].pc = "deinit"
          /\ [ctl EXCEPT !.pc = "deinit", !.obj = p].dev = ctl.dev
          /\ [ctl EXCEPT !.pc = "deinit", !.obj = p].obj = p
      BY <3>1, <3>2 DEF Thread
    <3> QED  BY <3>2, <3>3, Zenon
  <2>4. dev_list' \subseteq Objs /\ dev_cnt' \in Int
    BY <1>1, <1>3, TypeFacts
  <2>5. TypeOK'
    BY <1>1, <2>2, <2>3, <2>4, TypeFacts, TypeNext DEF hw, encl
  <2>6. UNCHANGED <<regions, attached, handler, masked, owed, known, lc, top>>
    BY <1>1 DEF hw, encl
  <2> QED  BY <1>1, <1>3, <2>1, <2>2, <2>3, <2>5, <2>6
<1> QED  BY <1>1, <1>2, <1>3

LEMMA RemoveDeinitDoes ==
  ASSUME DomainInv, RemoveDeinit
  PROVE  /\ TypeOK' /\ ctl.pc = "deinit" /\ ctl.obj \in Objs /\ KeepIntx
         /\ UNCHANGED <<dev_list, handler, masked, owed, known, lc, top>>
         /\ \A d \in Devs : regions'[d] = IF regions[d] = ctl.obj THEN Null ELSE regions[d]
         /\ \A d \in Devs : attached'[d] = IF attached[d] = ctl.obj THEN Null ELSE attached[d]
         /\ Rest(ctl.obj) /\ ctl'.pc = "idle"
         /\ obj'[ctl.obj].mem = "freed" /\ obj'[ctl.obj].name = obj[ctl.obj].name
         /\ ~obj'[ctl.obj].ready /\ ~obj'[ctl.obj].assigned
<1>1. /\ ctl.pc = "deinit" /\ ctl' = Idle /\ TypeOK /\ dev_cnt' = dev_cnt - 1
      /\ regions' = Without(regions, {ctl.obj}) /\ attached' = Without(attached, {ctl.obj})
      /\ obj' = [obj EXCEPT ![ctl.obj].mem = "freed"]
      /\ UNCHANGED <<dev_list, handler, masked, encl, lc, top>>
  BY DEF RemoveDeinit, DomainInv
<1>2. ctl.obj \in Objs /\ ~obj[ctl.obj].ready /\ ~obj[ctl.obj].assigned
  BY <1>1, CtlHolding DEF Adds
<1>3. /\ obj' \in [Objs -> DevObj] /\ Rest(ctl.obj) /\ KeepIntx
      /\ obj'[ctl.obj].mem = "freed" /\ obj'[ctl.obj].name = obj[ctl.obj].name
      /\ obj'[ctl.obj].ready = obj[ctl.obj].ready /\ obj'[ctl.obj].assigned = obj[ctl.obj].assigned
  BY <1>1, <1>2, SetMem
<1>4. /\ regions' \in Owner /\ attached' \in Owner
      /\ \A d \in Devs : regions'[d] = IF regions[d] = ctl.obj THEN Null ELSE regions[d]
      /\ \A d \in Devs : attached'[d] = IF attached[d] = ctl.obj THEN Null ELSE attached[d]
  BY <1>1, TypeFacts, WithoutOne
<1>5. dev_cnt' \in Int
  BY <1>1, TypeFacts
<1>6. TypeOK'
  BY <1>1, <1>3, <1>4, <1>5, IdleThread, TypeFacts, TypeNext DEF encl
<1> QED  BY <1>1, <1>2, <1>3, <1>4, <1>6, IdleThread DEF encl

(* The section under the list's lock finds what it wants, or the call is   *)
(* answered.  Attach assigns the device.                                   *)
LEMMA LookupDoes ==
  ASSUME DomainInv, Lookup
  PROVE  /\ TypeOK' /\ lc.pc = "find" /\ KeepIntx
         /\ UNCHANGED <<dev_list, regions, attached, handler, masked, owed, known, ctl, top>>
         /\ lc'.op = lc.op /\ lc'.dev = lc.dev
         /\ \/ /\ lc'.pc = "resp" /\ UNCHANGED obj
               /\ lc.op \in Unchecked => \A o \in dev_list : obj[o].name # lc.dev
            \/ \E p \in dev_list :
                 /\ p \in Objs /\ obj[p].name = lc.dev
                 /\ lc'.pc = lc.op /\ lc'.obj = p
                 /\ \/ /\ lc.op = "attach" /\ obj[p].ready /\ ~obj[p].assigned /\ Rest(p)
                       /\ obj'[p].mem = obj[p].mem /\ obj'[p].name = obj[p].name
                       /\ obj'[p].ready = obj[p].ready /\ obj'[p].assigned
                    \/ /\ lc.op # "attach" /\ UNCHANGED obj
                       /\ lc.op \in {"detach", "map"} => obj[p].assigned
<1> DEFINE p == find_dev_by_name(lc.dev)
           found == /\ p # Null
                    /\ lc.op = "attach" => ~obj[p].assigned /\ obj[p].ready
                    /\ lc.op \in {"detach", "map"} => obj[p].assigned
<1>1. /\ lc.pc = "find" /\ UNCHANGED <<list, hw, encl, ctl, top>> /\ TypeOK
      /\ \/ /\ found /\ lc' = [lc EXCEPT !.pc = lc.op, !.obj = p]
            /\ obj' = IF lc.op = "attach" THEN [obj EXCEPT ![p].assigned = TRUE] ELSE obj
         \/ ~found /\ lc' = [lc EXCEPT !.pc = "resp"] /\ UNCHANGED obj
  BY DEF Lookup, DomainInv
<1>2. UNCHANGED <<dev_list, regions, attached, handler, masked, owed, known, ctl, top>>
  BY <1>1 DEF list, hw, encl
<1>3. lc \in Thread /\ "resp" \in Places /\ lc.op \in Places
  BY <1>1, TypeFacts DEF Places, DomainInv, AssignInv
<1>4. CASE ~found /\ lc' = [lc EXCEPT !.pc = "resp"] /\ UNCHANGED obj
  <2>1. lc' \in Thread /\ lc'.pc = "resp" /\ lc'.op = lc.op /\ lc'.dev = lc.dev
    BY <1>3, <1>4, Goes
  <2>2. TypeOK'
    BY <1>1, <1>4, <2>1, TypeFacts, TypeNext DEF list, hw, encl
  <2>3. lc.op \in Unchecked => p = Null
    BY <1>4 DEF Unchecked
  <2>4. lc.op \in Unchecked => \A o \in dev_list : obj[o].name # lc.dev
    BY <1>1, <2>3, FoundDev
  <2> QED  BY <1>1, <1>2, <1>4, <2>1, <2>2, <2>4 DEF KeepIntx
<1>5. CASE /\ found /\ lc' = [lc EXCEPT !.pc = lc.op, !.obj = p]
           /\ obj' = IF lc.op = "attach" THEN [obj EXCEPT ![p].assigned = TRUE] ELSE obj
  <2>1. p \in dev_list /\ p \in Objs /\ obj[p].name = lc.dev
    BY <1>1, <1>5, FoundDev
  <2>2. /\ lc.op = "attach" => ~obj[p].assigned /\ obj[p].ready
        /\ lc.op \in {"detach", "map"} => obj[p].assigned
    BY <1>5
  <2> HIDE DEF p, found
  <2>3. lc' \in Thread /\ lc'.pc = lc.op /\ lc'.op = lc.op /\ lc'.dev = lc.dev /\ lc'.obj = p
    <3> DEFINE q == lc.op
    <3>1. lc' = [lc EXCEPT !.pc = q, !.obj = p] /\ q \in Places
      BY <1>3, <1>5
    <3> HIDE DEF q
    <3>2. lc' \in Thread /\ lc'.pc = q /\ lc'.op = lc.op /\ lc'.dev = lc.dev /\ lc'.obj = p
      BY ONLY <1>3, <2>1, <3>1 DEF Thread, Places
    <3> QED  BY <3>2 DEF q
  <2>4. CASE lc.op = "attach"
    <3>1. /\ obj' \in [Objs -> DevObj] /\ Rest(p) /\ KeepIntx
          /\ obj'[p].mem = obj[p].mem /\ obj'[p].name = obj[p].name
          /\ obj'[p].ready = obj[p].ready /\ obj'[p].assigned = TRUE
      BY <1>1, <1>5, <2>1, <2>4, SetAssigned
    <3>2. TypeOK'
      BY <1>1, <2>3, <3>1, TypeFacts, TypeNext DEF list, hw, encl
    <3> QED  BY <1>1, <1>2, <2>1, <2>2, <2>3, <2>4, <3>1, <3>2
  <2>5. CASE lc.op # "attach"
    <3>1. TypeOK' /\ UNCHANGED obj
      BY <1>1, <1>5, <2>3, <2>5, TypeFacts, TypeNext DEF list, hw, encl
    <3> QED  BY <1>1, <1>2, <2>1, <2>2, <2>3, <2>5, <3>1 DEF KeepIntx
  <2> QED  BY <2>4, <2>5
<1> QED  BY <1>1, <1>4, <1>5

LEMMA UnassignDoes ==
  ASSUME DomainInv, Unassign
  PROVE  /\ TypeOK' /\ lc.pc = "unassign" /\ lc.obj \in Objs /\ KeepIntx
         /\ UNCHANGED <<dev_list, regions, attached, handler, masked, owed, known, ctl, top>>
         /\ lc'.pc = "resp" /\ lc'.op = lc.op /\ lc'.dev = lc.dev /\ Rest(lc.obj)
         /\ obj'[lc.obj].mem = obj[lc.obj].mem /\ obj'[lc.obj].name = obj[lc.obj].name
         /\ obj'[lc.obj].ready = obj[lc.obj].ready /\ ~obj'[lc.obj].assigned
<1>1. /\ lc.pc = "unassign" /\ obj' = [obj EXCEPT ![lc.obj].assigned = FALSE] /\ TypeOK
      /\ lc' = [lc EXCEPT !.pc = "resp"] /\ UNCHANGED <<list, hw, encl, ctl, top>>
  BY DEF Unassign, DomainInv
<1>2. lc.obj \in Objs
  BY <1>1, LcHolding DEF LcHolds
<1>3. lc \in Thread /\ "resp" \in Places
  BY <1>1, TypeFacts DEF Places
<1>4. lc' \in Thread /\ lc'.pc = "resp" /\ lc'.op = lc.op /\ lc'.dev = lc.dev
  BY <1>1, <1>3, Goes
<1>5. /\ obj' \in [Objs -> DevObj] /\ Rest(lc.obj) /\ KeepIntx
      /\ obj'[lc.obj].mem = obj[lc.obj].mem /\ obj'[lc.obj].name = obj[lc.obj].name
      /\ obj'[lc.obj].ready = obj[lc.obj].ready /\ obj'[lc.obj].assigned = FALSE
  BY <1>1, <1>2, SetAssigned
<1>6. TypeOK'
  BY <1>1, <1>4, <1>5, TypeFacts, TypeNext DEF list, hw, encl
<1> QED  BY <1>1, <1>2, <1>4, <1>5, <1>6 DEF list, hw, encl

(* One device gets attached to its domain, or the call ends without an     *)
(* answer.                                                                 *)
LEMMA AttachDoes ==
  ASSUME DomainInv, enclave_pci_attach
  PROVE  /\ TypeOK' /\ lc.pc = "attach" /\ KeepList /\ KeepIntx
         /\ UNCHANGED <<regions, handler, masked, owed, known, ctl, top>>
         /\ \/ /\ lc'.pc = "request" /\ lc'.op = lc.op /\ lc'.dev = lc.dev /\ lc'.obj = lc.obj
               /\ \A d \in Devs : attached'[d] = IF d = lc.dev THEN lc.obj ELSE attached[d]
            \/ lc' = Idle /\ UNCHANGED attached
<1>1. /\ lc.pc = "attach" /\ TypeOK
      /\ \/ /\ attached' = [attached EXCEPT ![lc.dev] = lc.obj]
            /\ obj' = [obj EXCEPT ![lc.obj].vector = TRUE]
            /\ lc' = [lc EXCEPT !.pc = "request"]
         \/ lc' = Idle /\ UNCHANGED <<obj, attached>>
      /\ UNCHANGED <<list, regions, handler, masked, encl, ctl, top>>
  BY DEF enclave_pci_attach, DomainInv
<1>2. lc.obj \in Objs /\ lc.dev \in Devs
  BY <1>1, LcHolding DEF LcHolds, CallOps
<1>3. CASE lc' = Idle /\ UNCHANGED <<obj, attached>>
  <2>1. TypeOK'
    BY <1>1, <1>3, IdleThread, TypeFacts, TypeNext DEF list, encl
  <2> QED  BY <1>1, <1>3, <2>1, ObjsSame DEF list, encl
<1>4. CASE /\ attached' = [attached EXCEPT ![lc.dev] = lc.obj]
           /\ obj' = [obj EXCEPT ![lc.obj].vector = TRUE] /\ lc' = [lc EXCEPT !.pc = "request"]
  <2>1. lc \in Thread /\ "request" \in Places
    BY <1>1, TypeFacts DEF Places
  <2>2. lc' \in Thread /\ lc'.pc = "request" /\ lc'.op = lc.op /\ lc'.dev = lc.dev /\ lc'.obj = lc.obj
    BY <1>4, <2>1, Goes
  <2>3. obj' \in [Objs -> DevObj] /\ KeepList /\ KeepIntx
    BY <1>1, <1>2, <1>4, VectorOnly DEF list
  <2>4. attached' \in Owner /\ \A d \in Devs : attached'[d] = IF d = lc.dev THEN lc.obj ELSE attached[d]
    BY <1>1, <1>2, <1>4, TypeFacts DEF Owner
  <2>5. TypeOK'
    BY <1>1, <2>2, <2>3, <2>4, TypeFacts, TypeNext DEF list, encl
  <2> QED  BY <1>1, <2>2, <2>3, <2>4, <2>5 DEF list, encl
<1> QED  BY <1>1, <1>3, <1>4

LEMMA DetachDoes ==
  ASSUME DomainInv, enclave_pci_detach
  PROVE  /\ TypeOK' /\ lc.pc = "detach" /\ KeepList /\ KeepIntx
         /\ UNCHANGED <<regions, handler, masked, owed, known, ctl, top>>
         /\ lc'.pc = "unassign" /\ lc'.op = lc.op /\ lc'.dev = lc.dev /\ lc'.obj = lc.obj
         /\ \A d \in Devs : attached'[d] = IF attached[d] = lc.obj THEN Null ELSE attached[d]
<1>1. /\ lc.pc = "detach" /\ attached' = Without(attached, {lc.obj}) /\ TypeOK
      /\ obj' = [obj EXCEPT ![lc.obj].vector = FALSE] /\ lc' = [lc EXCEPT !.pc = "unassign"]
      /\ UNCHANGED <<list, regions, handler, masked, encl, ctl, top>>
  BY DEF enclave_pci_detach, DomainInv
<1>2. lc.obj \in Objs
  BY <1>1, LcHolding DEF LcHolds, CallOps
<1>3. lc \in Thread /\ "unassign" \in Places
  BY <1>1, TypeFacts DEF Places
<1>4. lc' \in Thread /\ lc'.pc = "unassign" /\ lc'.op = lc.op /\ lc'.dev = lc.dev /\ lc'.obj = lc.obj
  BY <1>1, <1>3, Goes
<1>5. obj' \in [Objs -> DevObj] /\ KeepList /\ KeepIntx
  BY <1>1, <1>2, VectorOnly DEF list
<1>6. attached' \in Owner
      /\ \A d \in Devs : attached'[d] = IF attached[d] = lc.obj THEN Null ELSE attached[d]
  BY <1>1, TypeFacts, WithoutOne
<1>7. TypeOK'
  BY <1>1, <1>4, <1>5, <1>6, TypeFacts, TypeNext DEF list, encl
<1> QED  BY <1>1, <1>4, <1>5, <1>6, <1>7 DEF list, encl

(* INTx goes on, with a handler if Linux gives one.                        *)
LEMMA EnableDoes ==
  ASSUME DomainInv, EnableIntx
  PROVE  /\ TypeOK' /\ lc.pc \in {"request", "intx_on"} /\ lc.obj \in Objs /\ lc.dev \in Devs
         /\ KeepList /\ UNCHANGED <<regions, attached, owed, known, ctl, top>>
         /\ lc'.pc = "resp" /\ lc'.op = lc.op /\ lc'.dev = lc.dev
         /\ \/ UNCHANGED <<handler, masked>> /\ KeepIntx
            \/ /\ Rest(lc.obj) /\ ~obj'[lc.obj].intx_disabled
               /\ \/ UNCHANGED <<handler, masked>>
                  \/ \A d \in Devs : IF d = lc.dev THEN handler'[d] = lc.obj /\ ~masked'[d]
                                     ELSE handler'[d] = handler[d] /\ masked'[d] = masked[d]
<1>1. /\ lc.pc \in {"request", "intx_on"} /\ lc' = [lc EXCEPT !.pc = "resp"] /\ TypeOK
      /\ UNCHANGED <<list, regions, attached, encl, ctl, top>>
      /\ \/ UNCHANGED <<handler, masked, obj>>
         \/ RequestIrq /\ obj' = [obj EXCEPT ![lc.obj].intx_disabled = FALSE]
  BY DEF EnableIntx, DomainInv
<1>2. lc.obj \in Objs /\ lc.dev \in Devs
  BY <1>1, LcHolding DEF LcHolds, CallOps
<1>3. lc \in Thread /\ "resp" \in Places
  BY <1>1, TypeFacts DEF Places
<1>4. lc' \in Thread /\ lc'.pc = "resp" /\ lc'.op = lc.op /\ lc'.dev = lc.dev
  BY <1>1, <1>3, Goes
<1>5. UNCHANGED <<regions, attached, owed, known, ctl, top>>
  BY <1>1 DEF encl
<1>6. CASE UNCHANGED <<handler, masked, obj>>
  <2>1. TypeOK'
    BY <1>1, <1>4, <1>6, TypeFacts, TypeNext DEF list, encl
  <2>2. KeepList /\ KeepIntx
    BY <1>1, <1>6, ObjsSame DEF list
  <2> QED  BY <1>1, <1>2, <1>4, <1>5, <1>6, <2>1, <2>2
<1>7. CASE RequestIrq /\ obj' = [obj EXCEPT ![lc.obj].intx_disabled = FALSE]
  <2>1. /\ obj' \in [Objs -> DevObj] /\ KeepList /\ Rest(lc.obj)
        /\ obj'[lc.obj].intx_disabled = FALSE
    BY <1>1, <1>2, <1>7, IntxOnly DEF list
  <2>2. /\ handler' \in Owner /\ masked' \in [Devs -> BOOLEAN]
        /\ \/ UNCHANGED <<handler, masked>>
           \/ \A d \in Devs : IF d = lc.dev THEN handler'[d] = lc.obj /\ ~masked'[d]
                              ELSE handler'[d] = handler[d] /\ masked'[d] = masked[d]
    BY <1>1, <1>2, <1>7, TypeFacts DEF RequestIrq, Owner
  <2>3. TypeOK'
    BY <1>1, <1>4, <2>1, <2>2, TypeFacts, TypeNext DEF list, encl
  <2> QED  BY <1>1, <1>2, <1>4, <1>5, <2>1, <2>2, <2>3
<1> QED  BY <1>1, <1>6, <1>7

(* INTx goes off, and with it the handler.                                 *)
LEMMA DisableDoes ==
  ASSUME DomainInv, DisableIntx
  PROVE  /\ TypeOK' /\ lc.pc = "intx_off" /\ lc.obj \in Objs /\ lc.dev \in Devs
         /\ KeepList /\ UNCHANGED <<regions, attached, owed, known, ctl, top>>
         /\ lc'.pc = "resp" /\ lc'.op = lc.op /\ lc'.dev = lc.dev
         /\ \/ UNCHANGED <<handler, masked>> /\ KeepIntx
            \/ /\ Rest(lc.obj)
               /\ \A d \in Devs : /\ handler'[d] = IF handler[d] = lc.obj THEN Null ELSE handler[d]
                                  /\ masked'[d] => masked[d]
<1>1. /\ lc.pc = "intx_off" /\ lc' = [lc EXCEPT !.pc = "resp"] /\ TypeOK
      /\ UNCHANGED <<list, regions, attached, encl, ctl, top>>
      /\ \/ UNCHANGED <<handler, masked, obj>>
         \/ /\ handler' = Without(handler, {lc.obj})
            /\ masked' = [masked EXCEPT ![lc.dev] = FALSE]
            /\ obj' = [obj EXCEPT ![lc.obj].intx_disabled = TRUE]
  BY DEF DisableIntx, DomainInv
<1>2. lc.obj \in Objs /\ lc.dev \in Devs
  BY <1>1, LcHolding DEF LcHolds, CallOps
<1>3. lc \in Thread /\ "resp" \in Places
  BY <1>1, TypeFacts DEF Places
<1>4. lc' \in Thread /\ lc'.pc = "resp" /\ lc'.op = lc.op /\ lc'.dev = lc.dev
  BY <1>1, <1>3, Goes
<1>5. UNCHANGED <<regions, attached, owed, known, ctl, top>>
  BY <1>1 DEF encl
<1>6. CASE UNCHANGED <<handler, masked, obj>>
  <2>1. TypeOK'
    BY <1>1, <1>4, <1>6, TypeFacts, TypeNext DEF list, encl
  <2>2. KeepList /\ KeepIntx
    BY <1>1, <1>6, ObjsSame DEF list
  <2> QED  BY <1>1, <1>2, <1>4, <1>5, <1>6, <2>1, <2>2
<1>7. CASE /\ handler' = Without(handler, {lc.obj})
           /\ masked' = [masked EXCEPT ![lc.dev] = FALSE]
           /\ obj' = [obj EXCEPT ![lc.obj].intx_disabled = TRUE]
  <2>1. obj' \in [Objs -> DevObj] /\ KeepList /\ Rest(lc.obj)
    BY <1>1, <1>2, <1>7, IntxOnly DEF list
  <2>2. handler' \in Owner
        /\ \A d \in Devs : handler'[d] = IF handler[d] = lc.obj THEN Null ELSE handler[d]
    BY <1>1, <1>7, TypeFacts, WithoutOne
  <2>3. masked' \in [Devs -> BOOLEAN] /\ \A d \in Devs : masked'[d] => masked[d]
    BY <1>1, <1>2, <1>7, TypeFacts
  <2>4. TypeOK'
    BY <1>1, <1>4, <2>1, <2>2, <2>3, TypeFacts, TypeNext DEF list, encl
  <2> QED  BY <1>1, <1>2, <1>4, <1>5, <2>1, <2>2, <2>3, <2>4
<1> QED  BY <1>1, <1>6, <1>7

(* RESET starts every listed device anew, but those that fail.             *)
LEMMA ResetDoes ==
  ASSUME DomainInv, reset_enclave_pci
  PROVE  /\ TypeOK' /\ top.pc = "reset" /\ lc.pc = "idle" /\ KeepIntx
         /\ UNCHANGED <<dev_list, handler, masked, owed, known, ctl, lc>>
         /\ \/ top'.pc = "oops" /\ UNCHANGED <<obj, regions, attached>>
            \/ \E bad \in SUBSET dev_list :
                 /\ bad = {} \/ "reinit" \in Faults
                 /\ top'.pc = "readd" /\ top'.todo = dev_list
                 /\ \A o \in dev_list : obj[o].bound
                 /\ \A d \in Devs : regions'[d] =
                      IF \E o \in dev_list \ bad : obj[o].name = d THEN find_dev_by_name(d)
                      ELSE IF regions[d] \in bad THEN Null ELSE regions[d]
                 /\ \A d \in Devs : attached'[d] = IF attached[d] \in dev_list THEN Null ELSE attached[d]
                 /\ \A o \in Objs : /\ obj'[o].mem = obj[o].mem /\ obj'[o].name = obj[o].name
                                    /\ obj'[o].assigned = obj[o].assigned
                                    /\ obj'[o].ready = IF o \in dev_list THEN o \notin bad
                                                       ELSE obj[o].ready
<1>1. /\ top.pc = "reset" /\ lc.pc = "idle" /\ TypeOK
      /\ UNCHANGED <<list, handler, masked, owed, known, ctl, lc>>
      /\ \/ Top("oops") /\ UNCHANGED <<obj, regions, attached, pending>>
         \/ /\ \A o \in dev_list : obj[o].bound
            /\ \E bad \in SUBSET dev_list :
                 /\ bad = {} \/ "reinit" \in Faults
                 /\ regions' = [d \in Devs |->
                      IF \E o \in dev_list \ bad : obj[o].name = d THEN find_dev_by_name(d)
                      ELSE IF regions[d] \in bad THEN Null ELSE regions[d]]
                 /\ attached' = Without(attached, dev_list)
                 /\ obj' = [o \in Objs |-> IF o \in dev_list
                                           THEN [obj[o] EXCEPT !.ready = o \notin bad]
                                           ELSE obj[o]]
                 /\ pending' = FALSE
                 /\ top' = [pc |-> "readd", todo |-> dev_list]
  BY DEF reset_enclave_pci, DomainInv
<1>2. UNCHANGED <<dev_list, handler, masked, owed, known, ctl, lc>>
  BY <1>1 DEF list
<1>3. CASE Top("oops") /\ UNCHANGED <<obj, regions, attached, pending>>
  <2>1. top' \in TopType /\ top'.pc = "oops"
    BY <1>1, <1>3, TypeFacts, TopGoes
  <2>2. TypeOK'
    BY <1>1, <1>3, <2>1, TypeFacts, TypeNext DEF list
  <2> QED  BY <1>1, <1>2, <1>3, <2>1, <2>2 DEF KeepIntx
<1>4. ASSUME NEW bad \in SUBSET dev_list, bad = {} \/ "reinit" \in Faults,
             \A o \in dev_list : obj[o].bound,
             regions' = [d \in Devs |->
                      IF \E o \in dev_list \ bad : obj[o].name = d THEN find_dev_by_name(d)
                      ELSE IF regions[d] \in bad THEN Null ELSE regions[d]],
             attached' = Without(attached, dev_list),
             obj' = [o \in Objs |-> IF o \in dev_list THEN [obj[o] EXCEPT !.ready = o \notin bad]
                                    ELSE obj[o]],
             pending' = FALSE,
             top' = [pc |-> "readd", todo |-> dev_list]
      PROVE  /\ TypeOK' /\ KeepIntx
             /\ top'.pc = "readd" /\ top'.todo = dev_list
             /\ \A d \in Devs : regions'[d] =
                  IF \E o \in dev_list \ bad : obj[o].name = d THEN find_dev_by_name(d)
                  ELSE IF regions[d] \in bad THEN Null ELSE regions[d]
             /\ \A d \in Devs : attached'[d] = IF attached[d] \in dev_list THEN Null ELSE attached[d]
             /\ \A o \in Objs : /\ obj'[o].mem = obj[o].mem /\ obj'[o].name = obj[o].name
                                /\ obj'[o].assigned = obj[o].assigned
                                /\ obj'[o].ready = IF o \in dev_list THEN o \notin bad
                                                   ELSE obj[o].ready
  <2>1. ASSUME NEW o \in Objs
        PROVE  /\ obj'[o] \in DevObj
               /\ obj'[o].mem = obj[o].mem /\ obj'[o].name = obj[o].name
               /\ obj'[o].assigned = obj[o].assigned
               /\ obj'[o].intx_disabled = obj[o].intx_disabled
               /\ obj'[o].ready = IF o \in dev_list THEN o \notin bad ELSE obj[o].ready
    <3>1. obj[o] \in DevObj
      BY <1>1, TypeFacts
    <3>2. CASE o \in dev_list
      <4> DEFINE v == o \notin bad
      <4>1. obj'[o] = [obj[o] EXCEPT !.ready = v] /\ v \in BOOLEAN
        BY <1>4, <3>2
      <4> HIDE DEF v
      <4>2. /\ obj'[o] \in DevObj
            /\ obj'[o].mem = obj[o].mem /\ obj'[o].name = obj[o].name
            /\ obj'[o].assigned = obj[o].assigned
            /\ obj'[o].intx_disabled = obj[o].intx_disabled
            /\ obj'[o].ready = v
        BY ONLY <3>1, <4>1 DEF DevObj
      <4> QED  BY <3>2, <4>2 DEF v
    <3>3. CASE o \notin dev_list
      <4>1. obj'[o] = obj[o]
        BY <1>4, <3>3
      <4> QED  BY <3>1, <3>3, <4>1
    <3> QED  BY <3>2, <3>3
  <2>2. obj' \in [Objs -> DevObj]
    <3>1. obj' = [o \in Objs |-> obj'[o]]
      BY <1>4
    <3> QED  BY <2>1, <3>1
  <2>3. \A d \in Devs : regions'[d] =
          IF \E o \in dev_list \ bad : obj[o].name = d THEN find_dev_by_name(d)
          ELSE IF regions[d] \in bad THEN Null ELSE regions[d]
    BY <1>4
  <2>4. regions' \in Owner
    <3>1. \A d \in Devs : find_dev_by_name(d) \in Objs \union {Null}
      BY <1>1, FoundDev
    <3>2. \A d \in Devs : regions'[d] \in Objs \union {Null}
      BY <1>1, <2>3, <3>1, OwnerFacts
    <3>3. regions' = [d \in Devs |-> regions'[d]]
      BY <1>4
    <3> QED  BY <3>2, <3>3 DEF Owner
  <2>5. attached' \in Owner
        /\ \A d \in Devs : attached'[d] = IF attached[d] \in dev_list THEN Null ELSE attached[d]
    BY <1>1, <1>4, TypeFacts, WithoutOne
  <2>6. top' \in TopType /\ top'.pc = "readd" /\ top'.todo = dev_list
    BY <1>1, <1>4, TypeFacts DEF TopType
  <2>7. TypeOK'
    BY <1>1, <1>4, <2>2, <2>4, <2>5, <2>6, TypeFacts, TypeNext DEF list
  <2> QED  BY <2>1, <2>3, <2>5, <2>6, <2>7 DEF KeepIntx
<1>5. CASE \A o \in dev_list : obj[o].bound
  BY <1>1, <1>2, <1>3, <1>4, <1>5
<1> QED  BY <1>1, <1>3, <1>5

(* A device goes off the list and is freed.                                *)
Freed(p) ==
  /\ Rest(p) /\ KeepIntx
  /\ obj'[p].mem = "freed" /\ obj'[p].name = obj[p].name
  /\ ~obj'[p].ready /\ obj'[p].assigned = obj[p].assigned
  /\ \A d \in Devs : regions'[d] = IF regions[d] = p THEN Null ELSE regions[d]
  /\ \A d \in Devs : attached'[d] = IF attached[d] = p THEN Null ELSE attached[d]

LEMMA GoneDoes ==
  ASSUME TypeOK, NEW p \in Objs, obj' = [obj EXCEPT ![p].ready = FALSE, ![p].mem = "freed"],
         regions' = Without(regions, {p}), attached' = Without(attached, {p})
  PROVE  Freed(p) /\ obj' \in [Objs -> DevObj] /\ regions' \in Owner /\ attached' \in Owner
<1>1. /\ obj' \in [Objs -> DevObj] /\ Rest(p) /\ KeepIntx
      /\ obj'[p].mem = "freed" /\ obj'[p].name = obj[p].name
      /\ ~obj'[p].ready /\ obj'[p].assigned = obj[p].assigned
  BY SetGone
<1>2. /\ regions' \in Owner /\ attached' \in Owner
      /\ \A d \in Devs : regions'[d] = IF regions[d] = p THEN Null ELSE regions[d]
      /\ \A d \in Devs : attached'[d] = IF attached[d] = p THEN Null ELSE attached[d]
  BY TypeFacts, WithoutOne
<1> QED  BY <1>1, <1>2 DEF Freed

LEMMA ReaddRefusedDoes ==
  ASSUME DomainInv, NEW p \in Objs, ReaddRefused(p)
  PROVE  /\ TypeOK' /\ top.pc = "readd" /\ p \in top.todo
         /\ UNCHANGED <<handler, masked, owed, known, ctl, lc>>
         /\ \/ /\ obj[p].ready /\ ~obj[p].assigned /\ Freed(p) /\ dev_list' = dev_list \ {p}
               /\ top'.pc = "oops"
            \/ /\ UNCHANGED <<obj, dev_list, regions, attached>>
               /\ top'.pc = "readd" /\ top'.todo = top.todo \ {p}
<1>1. /\ top.pc = "readd" /\ p \in top.todo /\ TypeOK
      /\ UNCHANGED <<handler, masked, encl, ctl, lc>>
      /\ \/ /\ Removable(p) /\ obj' = [obj EXCEPT ![p].ready = FALSE, ![p].mem = "freed"]
            /\ dev_list' = dev_list \ {p} /\ dev_cnt' = dev_cnt - 2
            /\ regions' = Without(regions, {p}) /\ attached' = Without(attached, {p})
            /\ Top("oops")
         \/ top' = [top EXCEPT !.todo = @ \ {p}] /\ UNCHANGED <<obj, list, regions, attached>>
  BY DEF ReaddRefused, DomainInv
<1>2. UNCHANGED <<handler, masked, owed, known, ctl, lc>>
  BY <1>1 DEF encl
<1>3. CASE top' = [top EXCEPT !.todo = @ \ {p}] /\ UNCHANGED <<obj, list, regions, attached>>
  <2>1. top' \in TopType /\ top'.pc = "readd" /\ top'.todo = top.todo \ {p}
    BY <1>1, <1>3, TypeFacts, TopTells
  <2>2. TypeOK'
    BY <1>1, <1>3, <2>1, TypeFacts, TypeNext DEF list, encl
  <2> QED  BY <1>1, <1>2, <1>3, <2>1, <2>2 DEF list
<1>4. CASE /\ Removable(p) /\ obj' = [obj EXCEPT ![p].ready = FALSE, ![p].mem = "freed"]
           /\ dev_list' = dev_list \ {p} /\ dev_cnt' = dev_cnt - 2
           /\ regions' = Without(regions, {p}) /\ attached' = Without(attached, {p})
           /\ Top("oops")
  <2>1. Freed(p) /\ obj' \in [Objs -> DevObj] /\ regions' \in Owner /\ attached' \in Owner
    BY <1>1, <1>4, GoneDoes
  <2>2. top' \in TopType /\ top'.pc = "oops"
    BY <1>1, <1>4, TypeFacts, TopGoes
  <2>3. dev_list' \subseteq Objs /\ dev_cnt' \in Int
    BY <1>1, <1>4, TypeFacts
  <2>4. TypeOK'
    BY <1>1, <2>1, <2>2, <2>3, TypeFacts, TypeNext DEF encl
  <2> QED  BY <1>1, <1>2, <1>4, <2>1, <2>2, <2>4 DEF Removable
<1> QED  BY <1>1, <1>3, <1>4

(* FREE frees a device of the list, which stays there if it is not ready.  *)
LEMMA DeinitDoes ==
  ASSUME DomainInv, deinit_enclave_pci
  PROVE  /\ TypeOK' /\ top.pc = "deinit"
         /\ UNCHANGED <<handler, masked, owed, known, ctl, lc>>
         /\ \/ /\ \/ top'.pc = "gone" /\ dev_list = {}
                  \/ top'.pc = "oops" /\ \E p \in dev_list : ~Live(p)
               /\ UNCHANGED <<dev_list, obj, regions, attached>>
            \/ \E p \in dev_list :
                 /\ p \in Objs /\ Freed(p) /\ UNCHANGED top
                 /\ \/ Removable(p) /\ dev_list' = dev_list \ {p}
                    \/ ~Removable(p) /\ dev_list' = dev_list
<1>1. /\ top.pc = "deinit" /\ TypeOK /\ UNCHANGED <<handler, masked, encl, ctl, lc>>
      /\ \/ /\ dev_list = {} /\ Top("gone") /\ UNCHANGED <<list, obj, regions, attached>>
         \/ /\ \E p \in dev_list : obj[p].mem = "freed"
            /\ Top("oops") /\ UNCHANGED <<list, obj, regions, attached>>
         \/ \E p \in dev_list :
              /\ \/ Removable(p) /\ dev_list' = dev_list \ {p} /\ dev_cnt' = dev_cnt - 2
                 \/ ~Removable(p) /\ dev_list' = dev_list /\ dev_cnt' = dev_cnt - 1
              /\ obj' = [obj EXCEPT ![p].ready = FALSE, ![p].mem = "freed"]
              /\ regions' = Without(regions, {p}) /\ attached' = Without(attached, {p})
              /\ UNCHANGED top
  BY DEF deinit_enclave_pci, DomainInv
<1>2. UNCHANGED <<handler, masked, owed, known, ctl, lc>>
  BY <1>1 DEF encl
<1>3. CASE dev_list = {} /\ Top("gone") /\ UNCHANGED <<list, obj, regions, attached>>
  <2>1. top' \in TopType /\ top'.pc = "gone"
    BY <1>1, <1>3, TypeFacts, TopGoes
  <2>2. TypeOK'
    BY <1>1, <1>3, <2>1, TypeFacts, TypeNext DEF list, encl
  <2> QED  BY <1>1, <1>2, <1>3, <2>1, <2>2 DEF list
<1>5. CASE /\ \E p \in dev_list : obj[p].mem = "freed"
           /\ Top("oops") /\ UNCHANGED <<list, obj, regions, attached>>
  <2>1. top' \in TopType /\ top'.pc = "oops"
    BY <1>1, <1>5, TypeFacts, TopGoes
  <2>2. TypeOK'
    BY <1>1, <1>5, <2>1, TypeFacts, TypeNext DEF list, encl
  <2> QED  BY <1>1, <1>2, <1>5, <2>1, <2>2 DEF list, Live
<1>4. ASSUME NEW p \in dev_list,
             \/ Removable(p) /\ dev_list' = dev_list \ {p} /\ dev_cnt' = dev_cnt - 2
             \/ ~Removable(p) /\ dev_list' = dev_list /\ dev_cnt' = dev_cnt - 1,
             obj' = [obj EXCEPT ![p].ready = FALSE, ![p].mem = "freed"],
             regions' = Without(regions, {p}), attached' = Without(attached, {p}),
             UNCHANGED top
      PROVE  /\ TypeOK' /\ p \in Objs /\ Freed(p) /\ UNCHANGED top
             /\ \/ Removable(p) /\ dev_list' = dev_list \ {p}
                \/ ~Removable(p) /\ dev_list' = dev_list
  <2>1. p \in Objs
    BY <1>1, <1>4, TypeFacts
  <2>2. Freed(p) /\ obj' \in [Objs -> DevObj] /\ regions' \in Owner /\ attached' \in Owner
    BY <1>1, <1>4, <2>1, GoneDoes
  <2>3. dev_list' \subseteq Objs /\ dev_cnt' \in Int
    BY <1>1, <1>4, TypeFacts
  <2>4. TypeOK'
    BY <1>1, <1>4, <2>2, <2>3, TypeFacts, TypeNext DEF encl
  <2> QED  BY <1>4, <2>1, <2>2, <2>4
<1> QED  BY <1>1, <1>2, <1>3, <1>4, <1>5

-----------------------------------------------------------------------------
(* The first layer, step by step.  Steps that leave the list and what the  *)
(* layer reads of the objects alone.                                       *)
LEMMA ObjFacts ==
  ASSUME DomainInv
  PROVE  /\ \A o \in Objs :
              /\ obj[o].mem = "none" => o \notin dev_list /\ obj[o].name = "" /\ ~obj[o].ready /\ ~obj[o].assigned
              /\ obj[o].ready => o \in dev_list /\ obj[o].name # "" /\ Live(o)
              /\ obj[o].assigned => o \in dev_list
         /\ \A o \in dev_list :
              /\ o \in Objs
              /\ Live(o) \/ top.pc \in {"deinit", "oops"}
              /\ obj[o].name = "" => ctl.obj = o /\ ctl.pc = "name"
         /\ \A o, p \in dev_list : obj[o].name = obj[p].name => o = p
BY TypeFacts DEF DomainInv, ObjInv

LEMMA NamesUnique ==
  ASSUME DomainInv, NEW o \in dev_list, NEW p \in dev_list, obj[o].name = obj[p].name
  PROVE  o = p
<1>1. \A x, y \in dev_list : obj[x].name = obj[y].name => x = y
  BY DEF DomainInv, ObjInv
<1> QED  BY <1>1

LEMMA NamesApart ==
  ASSUME DomainInv, NEW S \in SUBSET dev_list, \A o \in S : obj'[o].name = obj[o].name
  PROVE  \A o, p \in S : obj'[o].name = obj'[p].name => o = p
<1>1. \A o, p \in dev_list : obj[o].name = obj[p].name => o = p
  BY DEF DomainInv, ObjInv
<1>2. ASSUME NEW o \in S, NEW p \in S, obj'[o].name = obj'[p].name PROVE o = p
  <2>1. obj[o].name = obj[p].name
    BY <1>2
  <2> QED  BY <1>1, <2>1
<1> QED  BY <1>2

LEMMA ObjKept ==
  ASSUME DomainInv, KeepList,
         ctl.pc = "name" => ctl'.pc = "name" /\ ctl'.obj = ctl.obj,
         top.pc \in {"deinit", "oops"} => top'.pc \in {"deinit", "oops"} \/ dev_list = {}
  PROVE  ObjInv'
<1>1. dev_list \subseteq Objs
  BY TypeFacts DEF DomainInv
<1>2. dev_list' = dev_list /\ \A o \in Objs : Same(o)
  BY DEF KeepList
<1>3. \A o \in Objs :
        /\ obj'[o].mem = "none" => o \notin dev_list' /\ obj'[o].name = "" /\ ~obj'[o].ready /\ ~obj'[o].assigned
        /\ obj'[o].ready => o \in dev_list' /\ obj'[o].name # "" /\ Live(o)'
        /\ obj'[o].assigned => o \in dev_list'
  <2> SUFFICES ASSUME NEW o \in Objs
               PROVE  /\ obj'[o].mem = "none" => /\ o \notin dev_list' /\ obj'[o].name = ""
                                                 /\ ~obj'[o].ready /\ ~obj'[o].assigned
                      /\ obj'[o].ready => o \in dev_list' /\ obj'[o].name # "" /\ Live(o)'
                      /\ obj'[o].assigned => o \in dev_list'
    OBVIOUS
  <2>1. Same(o) /\ UNCHANGED dev_list
    BY <1>2
  <2> QED  BY <2>1, ObjFacts DEF Same, Live
<1>4. \A o \in dev_list' :
        /\ Live(o)' \/ top'.pc \in {"deinit", "oops"}
        /\ obj'[o].name = "" => ctl'.obj = o /\ ctl'.pc = "name"
  BY <1>1, <1>2 DEF DomainInv, ObjInv, Same, Live
<1>5. \A o \in dev_list : obj'[o].name = obj[o].name
  BY <1>1, <1>2 DEF Same
<1>6. \A o, p \in dev_list' : obj'[o].name = obj'[p].name => o = p
  BY <1>2, <1>5, NamesApart
<1> QED  BY <1>3, <1>4, <1>6 DEF ObjInv

LEMMA CtlKept ==
  ASSUME DomainInv, KeepList, UNCHANGED ctl, ctl.pc # "idle" => top'.pc = "idle"
  PROVE  CtlInv'
<1>1. dev_list \subseteq Objs
  BY TypeFacts DEF DomainInv
<1> QED  BY <1>1 DEF DomainInv, CtlInv, KeepList, Same, Live, Adds

LEMMA AssignKept ==
  ASSUME DomainInv, KeepList, UNCHANGED lc, UNCHANGED attached
  PROVE  AssignInv'
BY DEF DomainInv, AssignInv, KeepList, Same, LcHolds, CallOps, Keeping

LEMMA HwKept ==
  ASSUME DomainInv, KeepList, UNCHANGED regions, ctl.pc = "deinit" => UNCHANGED ctl,
         \A d \in Devs : attached'[d] # Null =>
           /\ attached'[d] \in Objs /\ obj[attached'[d]].name = d
           /\ obj[attached'[d]].assigned /\ obj[attached'[d]].ready
  PROVE  HwInv'
<1>1. \A d \in Devs : regions[d] # Null => Same(regions[d])
  BY OwnerFacts DEF DomainInv, KeepList
<1>2. \A o \in Objs : Same(o)
  BY DEF KeepList
<1> QED  BY <1>1, <1>2 DEF DomainInv, HwInv, Same

LEMMA AttachedFacts ==
  ASSUME DomainInv
  PROVE  \A d \in Devs : attached[d] # Null =>
           /\ attached[d] \in Objs /\ obj[attached[d]].name = d
           /\ obj[attached[d]].assigned /\ obj[attached[d]].ready
BY OwnerFacts DEF DomainInv, HwInv

(* A step of the command that leaves all else alone.                       *)
LEMMA CtlOnly ==
  ASSUME DomainInv, ctl' \in Thread, known' \subseteq Devs,
         UNCHANGED <<list, obj, hw, owed, pending, lc, top>>,
         ctl.pc \notin {"name", "init", "del", "deinit"}, CtlInv'
  PROVE  DomainInv'
<1>1. TypeOK'
  BY TypeFacts, TypeNext DEF list, hw, DomainInv
<1>2. KeepList
  BY ObjsSame DEF list
<1>3. ObjInv'
  BY <1>2, ObjKept
<1>4. AssignInv'
  BY <1>2, AssignKept DEF hw
<1>5. HwInv'
  BY <1>2, HwKept, AttachedFacts DEF hw
<1>6. QuietInv'
  BY DEF DomainInv, QuietInv, list, hw
<1> QED  BY <1>1, <1>3, <1>4, <1>5, <1>6 DEF DomainInv

(* A step of the long call that leaves list and regions alone.             *)
LEMMA LcOnly ==
  ASSUME DomainInv, TypeOK', KeepList, UNCHANGED <<regions, ctl, top>>,
         lc.pc # "idle" \/ top.pc \notin {"reset", "deinit"}, AssignInv',
         \A d \in Devs : attached'[d] # Null =>
           /\ attached'[d] \in Objs /\ obj[attached'[d]].name = d
           /\ obj[attached'[d]].assigned /\ obj[attached'[d]].ready
  PROVE  DomainInv'
<1>1. ObjInv'
  BY ObjKept
<1>2. CtlInv'
  BY CtlKept DEF DomainInv, CtlInv
<1>3. HwInv'
  BY HwKept
<1>4. QuietInv'
  BY DEF DomainInv, QuietInv, KeepList
<1> QED  BY <1>1, <1>2, <1>3, <1>4 DEF DomainInv

LEMMA FreeDevDomain ==
  ASSUME DomainInv, Calm, NEW d \in Devs, FreeDev(d)
  PROVE  DomainInv'
<1> DEFINE c == [pc |-> "answer", op |-> "free", dev |-> d, obj |-> Null]
<1>1. ctl' = c /\ UNCHANGED <<list, obj, hw, encl, lc, top>> /\ ctl.pc = "idle" /\ top.pc = "idle"
  BY DEF FreeDev, CtrlOpen, Calm
<1>2. c \in Thread /\ c.pc = "answer" /\ c.dev = d
  BY DEF Thread
<1>3. CtlInv'
  BY <1>1, <1>2 DEF CtlInv, Adds
<1>4. known' \subseteq Devs /\ UNCHANGED <<owed, pending>>
  BY <1>1, TypeFacts DEF encl, DomainInv
<1> QED  BY <1>1, <1>2, <1>3, <1>4, CtlOnly

LEMMA EnclaveKeepsDomain ==
  ASSUME DomainInv, EnclaveKeeps
  PROVE  DomainInv'
<1>1. ctl.pc = "answer" /\ ctl' = Idle /\ UNCHANGED <<list, obj, hw, encl, lc, top>>
  BY DEF EnclaveKeeps
<1>2. CtlInv'
  BY <1>1, IdleThread DEF CtlInv, Adds
<1>3. known' \subseteq Devs /\ UNCHANGED <<owed, pending>>
  BY <1>1, TypeFacts DEF encl, DomainInv
<1> QED  BY <1>1, <1>2, <1>3, IdleThread, CtlOnly

LEMMA EnclaveGivesUpDomain ==
  ASSUME DomainInv, EnclaveGivesUp
  PROVE  DomainInv'
<1>1. /\ ctl.pc = "answer" /\ ctl' = [ctl EXCEPT !.pc = "unlink"] /\ known' = known \ {ctl.dev}
      /\ UNCHANGED <<list, obj, hw, owed, pending, lc, top>>
  BY DEF EnclaveGivesUp
<1>2. ctl' \in Thread /\ ctl'.pc = "unlink" /\ ctl'.dev = ctl.dev
  BY <1>1, TypeFacts, Goes DEF Places, DomainInv
<1>3. CtlInv'
  BY <1>1, <1>2 DEF DomainInv, CtlInv, Adds
<1>4. known' \subseteq Devs
  BY <1>1, TypeFacts DEF DomainInv
<1> QED  BY <1>1, <1>2, <1>3, <1>4, CtlOnly

LEMMA CtrlAddPciDomain ==
  ASSUME DomainInv, ctrl_add_pci
  PROVE  DomainInv'
<1>1. /\ ctl.pc = "tell" /\ ctl' = [ctl EXCEPT !.pc = "answer"] /\ known' = known \union {ctl.dev}
      /\ UNCHANGED <<list, obj, hw, owed, pending, lc, top>>
  BY DEF ctrl_add_pci
<1>2. ctl' \in Thread /\ ctl'.pc = "answer" /\ ctl'.dev = ctl.dev
  BY <1>1, TypeFacts, Goes DEF Places, DomainInv
<1>3. CtlInv'
  BY <1>1, <1>2 DEF DomainInv, CtlInv, Adds
<1>4. known' \subseteq Devs
  BY <1>1, TypeFacts DEF DomainInv, CtlInv
<1> QED  BY <1>1, <1>2, <1>3, <1>4, CtlOnly

LEMMA CallDomain ==
  ASSUME DomainInv, Calm, NEW op \in CallOps, NEW d \in Devs, Call(op, d)
  PROVE  DomainInv'
<1> DEFINE c == [pc |-> "find", op |-> op, dev |-> d, obj |-> Null]
<1>1. /\ lc.pc = "idle" /\ top.pc \in {"idle", "readd"} /\ pending' = TRUE /\ lc' = c
      /\ owed' = [owed EXCEPT ![d] = @ /\ op # "ack"]
      /\ UNCHANGED <<list, obj, hw, known, ctl, top>>
  BY DEF Call, Calm
<1>2. c \in Thread /\ c.pc = "find" /\ c.dev = d /\ c.op = op
  BY DEF Thread
<1>3. owed' \in [Devs -> BOOLEAN]
  BY <1>1, TypeFacts DEF DomainInv
<1>4. TypeOK'
  BY <1>1, <1>2, <1>3, TypeFacts, TypeNext DEF list, hw, DomainInv
<1>5. KeepList
  BY <1>1, ObjsSame DEF list
<1>6. AssignInv'
  BY <1>1, <1>2 DEF AssignInv, LcHolds, CallOps, Keeping
<1> QED  BY <1>1, <1>4, <1>5, <1>6, AttachedFacts, LcOnly DEF hw

(* The long call goes to its answer, or is answered.                       *)
LEMMA LcEnds ==
  ASSUME DomainInv, lc.pc # "idle", lc' = [lc EXCEPT !.pc = "resp"] \/ lc' = Idle,
         UNCHANGED <<list, obj, regions, attached, handler, owed, known, ctl, top>>,
         masked' \in [Devs -> BOOLEAN], pending' \in BOOLEAN
  PROVE  DomainInv'
<1>1. lc' \in Thread /\ (lc'.pc = "idle" \/ (lc'.pc = "resp" /\ lc'.dev = lc.dev))
  <2>1. lc \in Thread /\ "resp" \in Places
    BY TypeFacts DEF Places, DomainInv
  <2>2. CASE lc' = [lc EXCEPT !.pc = "resp"]
    BY <2>1, <2>2, Goes
  <2>3. CASE lc' = Idle
    BY <2>3, IdleThread
  <2> QED  BY <2>2, <2>3
<1>2. TypeOK'
  BY <1>1, TypeFacts, TypeNext DEF list, DomainInv
<1>3. KeepList
  BY ObjsSame DEF list
<1>4. AssignInv'
  BY <1>1 DEF DomainInv, AssignInv, LcHolds, CallOps, Keeping
<1> QED  BY <1>2, <1>3, <1>4, AttachedFacts, LcOnly

LEMMA AnswerDomain ==
  ASSUME DomainInv, enclave_pci_iommu_map \/ enclave_pci_ack_irq \/ send_resp
  PROVE  DomainInv'
<1>1. CASE enclave_pci_iommu_map
  BY <1>1, LcEnds, TypeFacts DEF enclave_pci_iommu_map, hw, encl, DomainInv
<1>2. CASE enclave_pci_ack_irq
  <2>1. masked' \in [Devs -> BOOLEAN]
    BY <1>2, TypeFacts DEF enclave_pci_ack_irq, DomainInv
  <2> QED  BY <1>2, <2>1, LcEnds, TypeFacts DEF enclave_pci_ack_irq, encl, DomainInv
<1>3. CASE send_resp
  BY <1>3, LcEnds, TypeFacts DEF send_resp, hw, DomainInv
<1> QED  BY <1>1, <1>2, <1>3

LEMMA IrqDomain ==
  ASSUME DomainInv, NEW d \in Devs, host_pci_intx_irq_handler(d)
  PROVE  DomainInv'
<1>1. /\ masked' = [masked EXCEPT ![d] = TRUE] /\ owed' = [owed EXCEPT ![d] = top.pc # "reset"]
      /\ UNCHANGED <<list, obj, regions, attached, handler, known, pending, ctl, lc, top>>
  BY DEF host_pci_intx_irq_handler
<1>2. masked' \in [Devs -> BOOLEAN] /\ owed' \in [Devs -> BOOLEAN]
  BY <1>1, TypeFacts DEF DomainInv
<1>3. TypeOK'
  BY <1>1, <1>2, TypeFacts, TypeNext DEF list, DomainInv
<1>4. KeepList
  BY <1>1, ObjsSame DEF list
<1>5. ObjInv' /\ CtlInv' /\ AssignInv' /\ HwInv'
  BY <1>1, <1>4, ObjKept, CtlKept, AssignKept, HwKept, AttachedFacts DEF DomainInv, CtlInv
<1>6. QuietInv'
  BY <1>1 DEF DomainInv, QuietInv, list
<1> QED  BY <1>3, <1>5, <1>6 DEF DomainInv

LEMMA AttachDomain ==
  ASSUME DomainInv, enclave_pci_attach
  PROVE  DomainInv'
<1>1. /\ TypeOK' /\ lc.pc = "attach" /\ KeepList /\ UNCHANGED <<regions, ctl, top>>
      /\ \/ /\ lc'.pc = "request" /\ lc'.dev = lc.dev /\ lc'.obj = lc.obj
            /\ \A d \in Devs : attached'[d] = IF d = lc.dev THEN lc.obj ELSE attached[d]
         \/ lc' = Idle /\ UNCHANGED attached
  BY AttachDoes
<1>2. /\ lc.obj \in Objs /\ lc.obj # Null /\ lc.dev \in Devs
      /\ obj[lc.obj].name = lc.dev /\ obj[lc.obj].assigned /\ obj[lc.obj].ready
  BY <1>1, LcHolding DEF LcHolds, CallOps, Keeping, DomainInv, AssignInv
<1>3. AssignInv'
  BY <1>1, <1>2, IdleThread DEF AssignInv, LcHolds, CallOps, Keeping, KeepList, Same
<1>4. \A d \in Devs : attached'[d] # Null =>
        /\ attached'[d] \in Objs /\ obj[attached'[d]].name = d
           /\ obj[attached'[d]].assigned /\ obj[attached'[d]].ready
  BY <1>1, <1>2, AttachedFacts
<1> QED  BY <1>1, <1>3, <1>4, LcOnly

LEMMA DetachDomain ==
  ASSUME DomainInv, enclave_pci_detach
  PROVE  DomainInv'
<1>1. /\ TypeOK' /\ lc.pc = "detach" /\ KeepList /\ UNCHANGED <<regions, ctl, top>>
      /\ lc'.pc = "unassign" /\ lc'.dev = lc.dev /\ lc'.obj = lc.obj
      /\ \A d \in Devs : attached'[d] = IF attached[d] = lc.obj THEN Null ELSE attached[d]
  BY DetachDoes
<1>2. /\ lc.obj \in Objs /\ lc.obj # Null /\ lc.dev \in Devs
      /\ obj[lc.obj].name = lc.dev /\ obj[lc.obj].assigned
  BY <1>1, LcHolding DEF LcHolds, CallOps, Keeping
<1>3. AssignInv'
  BY <1>1, <1>2 DEF AssignInv, LcHolds, CallOps, Keeping, KeepList, Same
<1> QED  BY <1>1, <1>3, AttachedFacts, LcOnly

LEMMA IntxDomain ==
  ASSUME DomainInv, EnableIntx \/ DisableIntx
  PROVE  DomainInv'
<1>1. /\ TypeOK' /\ lc.pc # "idle" /\ KeepList /\ UNCHANGED <<regions, attached, ctl, top>>
      /\ lc'.pc = "resp" /\ lc'.dev = lc.dev /\ lc.dev \in Devs
  BY EnableDoes, DisableDoes
<1>2. AssignInv'
  BY <1>1 DEF AssignInv, LcHolds, CallOps, Keeping
<1> QED  BY <1>1, <1>2, AttachedFacts, LcOnly

-----------------------------------------------------------------------------
(* Steps that change the list or an object.                                *)

(* The long call and the hardware, when what is assigned stays so.         *)
LEMMA AssignStays ==
  ASSUME DomainInv, UNCHANGED lc, \A d \in Devs : attached'[d] \in {attached[d], Null},
         \A o \in Objs : obj[o].assigned => /\ obj'[o].assigned /\ obj'[o].name = obj[o].name
                                            /\ obj'[o].ready = obj[o].ready
  PROVE  AssignInv'
<1>1. lc.pc \in LcHolds => lc.obj \in Objs /\ lc.obj # Null
  BY LcHolding
<1>2. lc.pc \in Keeping => lc.pc \in LcHolds
  BY DEF Keeping, LcHolds, CallOps
<1>3. lc.pc \in Keeping => obj'[lc.obj].name = lc.dev /\ obj'[lc.obj].assigned
  BY <1>1, <1>2 DEF DomainInv, AssignInv
<1>4. lc.pc = "unassign" => \A d \in Devs : attached'[d] # lc.obj
  BY <1>1 DEF DomainInv, AssignInv, LcHolds
<1>5. lc.pc = "attach" => obj'[lc.obj].ready
  BY <1>1, <1>2 DEF DomainInv, AssignInv, Keeping
<1> QED  BY <1>3, <1>4, <1>5 DEF DomainInv, AssignInv

(* One object changes, and the list or the hardware with it.               *)
LEMMA ObjStep ==
  ASSUME DomainInv, NEW p \in Objs, Rest(p),
         dev_list' \subseteq dev_list \union {p}, dev_list \ {p} \subseteq dev_list',
         obj'[p].mem # "none",
         obj'[p].ready => p \in dev_list' /\ obj'[p].name # "" /\ obj'[p].mem = "live",
         obj'[p].assigned => p \in dev_list',
         p \in dev_list' =>
           /\ obj'[p].mem = "live" \/ top'.pc \in {"deinit", "oops"}
           /\ obj'[p].name = "" => ctl'.obj = p /\ ctl'.pc = "name"
           /\ \A o \in dev_list : o # p => obj[o].name # obj'[p].name,
         top.pc \in {"deinit", "oops"} => top'.pc \in {"deinit", "oops"},
         ctl.pc = "name" => ctl.obj = p \/ UNCHANGED ctl
  PROVE  ObjInv'
<1>1. \A o \in Objs : o # p => obj'[o] = obj[o]
  BY DEF Rest
<1>2. \A o \in dev_list' : o # p => o \in dev_list /\ o \in Objs
  BY TypeFacts DEF DomainInv
<1>3. ASSUME NEW o \in Objs
      PROVE  /\ obj'[o].mem = "none" => o \notin dev_list' /\ obj'[o].name = "" /\ ~obj'[o].ready /\ ~obj'[o].assigned
             /\ obj'[o].ready => o \in dev_list' /\ obj'[o].name # "" /\ Live(o)'
             /\ obj'[o].assigned => o \in dev_list'
  <2>1. CASE o = p
    BY <2>1 DEF Live
  <2>2. CASE o # p
    <3>1. /\ obj[o].mem = "none" => o \notin dev_list /\ obj[o].name = "" /\ ~obj[o].ready /\ ~obj[o].assigned
          /\ obj[o].ready => o \in dev_list /\ obj[o].name # "" /\ Live(o)
          /\ obj[o].assigned => o \in dev_list
      BY ObjFacts
    <3>2. obj'[o] = obj[o]
      BY <1>1, <2>2
    <3>3. o \in dev_list' <=> o \in dev_list
      BY <1>2, <2>2
    <3> QED  BY <3>1, <3>2, <3>3 DEF Live
  <2> QED  BY <2>1, <2>2
<1>4. ASSUME NEW o \in dev_list'
      PROVE  /\ Live(o)' \/ top'.pc \in {"deinit", "oops"}
             /\ obj'[o].name = "" => ctl'.obj = o /\ ctl'.pc = "name"
  <2>1. CASE o = p
    BY <2>1 DEF Live
  <2>2. CASE o # p
    <3>1. o \in dev_list /\ obj'[o] = obj[o]
      BY <1>1, <1>2, <2>2
    <3>2. /\ Live(o) \/ top.pc \in {"deinit", "oops"}
          /\ obj[o].name = "" => ctl'.obj = o /\ ctl'.pc = "name"
      BY <2>2, <3>1, ObjFacts
    <3> QED  BY <3>1, <3>2 DEF Live
  <2> QED  BY <2>1, <2>2
<1>5. \A o, q \in dev_list' \ {p} : obj'[o].name = obj'[q].name => o = q
  <2>1. dev_list' \ {p} \in SUBSET dev_list
    BY <1>2
  <2>2. \A o \in dev_list' \ {p} : obj'[o].name = obj[o].name
    BY <1>1, <1>2
  <2> QED  BY <2>1, <2>2, NamesApart
<1>6. p \in dev_list' => \A o \in dev_list' \ {p} : obj'[o].name # obj'[p].name
  BY <1>1, <1>2
<1>7. \A o, q \in dev_list' : obj'[o].name = obj'[q].name => o = q
  BY <1>5, <1>6
<1> QED  BY <1>3, <1>4, <1>7 DEF ObjInv

LEMMA HwStep ==
  ASSUME DomainInv, NEW p \in Objs, Rest(p),
         ctl.pc = "deinit" => ctl.obj = p \/ UNCHANGED ctl,
         \A d \in Devs : regions'[d] = p =>
           obj'[p].name = d /\ (obj'[p].ready \/ (ctl'.pc = "deinit" /\ ctl'.obj = p)),
         \A d \in Devs : regions'[d] \in {p, regions[d], Null},
         \A d \in Devs : regions[d] \notin {p, Null} => regions'[d] = regions[d],
         obj'[p].ready => obj'[p].name \in Devs /\ regions'[obj'[p].name] = p,
         \A d \in Devs : attached'[d] \in {attached[d], Null},
         \A d \in Devs : attached'[d] = p =>
           obj'[p].name = d /\ obj'[p].assigned /\ obj'[p].ready
  PROVE  HwInv'
<1>1. \A o \in Objs : o # p => obj'[o] = obj[o]
  BY DEF Rest
<1>2. ASSUME NEW d \in Devs, regions'[d] # Null
      PROVE  /\ obj'[regions'[d]].name = d
             /\ obj'[regions'[d]].ready \/ (ctl'.pc = "deinit" /\ ctl'.obj = regions'[d])
  <2>1. CASE regions'[d] = p
    BY <2>1
  <2>2. CASE regions'[d] # p
    <3>1. regions'[d] = regions[d] /\ regions[d] \in Objs
      BY <1>2, <2>2, OwnerFacts DEF DomainInv
    <3>2. /\ obj[regions[d]].name = d
          /\ obj[regions[d]].ready \/ (ctl'.pc = "deinit" /\ ctl'.obj = regions[d])
      BY <1>2, <2>2, <3>1 DEF DomainInv, HwInv
    <3>3. obj'[regions[d]] = obj[regions[d]]
      BY <1>1, <2>2, <3>1
    <3> QED  BY <3>1, <3>2, <3>3
  <2> QED  BY <2>1, <2>2
<1>3. ASSUME NEW d \in Devs, attached'[d] # Null
      PROVE  /\ obj'[attached'[d]].name = d
             /\ obj'[attached'[d]].assigned /\ obj'[attached'[d]].ready
  <2>1. CASE attached'[d] = p
    BY <2>1
  <2>2. CASE attached'[d] # p
    <3>1. attached'[d] = attached[d] /\ attached[d] \in Objs /\ obj[attached[d]].name = d
          /\ obj[attached[d]].assigned /\ obj[attached[d]].ready
      BY <1>3, AttachedFacts
    <3>2. obj'[attached[d]] = obj[attached[d]]
      BY <1>1, <2>2, <3>1
    <3> QED  BY <3>1, <3>2
  <2> QED  BY <2>1, <2>2
<1>4. ASSUME NEW o \in Objs, obj'[o].ready
      PROVE  regions'[obj'[o].name] = o
  <2>1. CASE o = p
    BY <1>4, <2>1
  <2>2. CASE o # p
    <3>1. obj'[o] = obj[o]
      BY <1>1, <2>2
    <3>2. regions[obj[o].name] = o /\ obj[o].name \in Devs
      <4>1. obj[o].ready
        BY <1>4, <3>1
      <4>2. obj[o].name \in Devs
        BY <4>1, ObjFacts, NameFacts DEF DomainInv
      <4> QED  BY <4>1, <4>2 DEF DomainInv, HwInv
    <3>3. o # Null
      BY NullIsNone
    <3> QED  BY <2>2, <3>1, <3>2, <3>3
  <2> QED  BY <2>1, <2>2
<1> QED  BY <1>2, <1>3, <1>4 DEF HwInv

(* Where the regions of the object in question are.                        *)
LEMMA RegionsOf ==
  ASSUME DomainInv, NEW p \in Objs
  PROVE  /\ obj[p].ready => obj[p].name \in Devs /\ regions[obj[p].name] = p
         /\ \A d \in Devs : regions[d] = p => obj[p].name = d
         /\ \A d \in Devs : regions[d] = p /\ ~obj[p].ready => ctl.pc = "deinit" /\ ctl.obj = p
         /\ \A d \in Devs : attached[d] = p => obj[p].name = d /\ obj[p].assigned /\ obj[p].ready
<1>1. p # Null
  BY NullIsNone
<1>2. obj[p].ready => obj[p].name \in Devs
  BY ObjFacts, NameFacts DEF DomainInv
<1> QED  BY <1>1, <1>2 DEF DomainInv, HwInv

LEMMA AddListDomain ==
  ASSUME DomainInv, Calm, NEW d \in Devs, AddList(d)
  PROVE  DomainInv'
<1>1. PICK p \in Objs :
         /\ TypeOK'
         /\ UNCHANGED <<regions, attached, handler, masked, owed, known, lc, top>>
         /\ dev_list' = dev_list \union {p} /\ Rest(p) /\ KeepIntx
         /\ p \notin dev_list /\ obj[p].name = "" /\ ~obj[p].ready /\ ~obj[p].assigned
         /\ obj'[p].mem = "live" /\ obj'[p].name = "" /\ ~obj'[p].ready /\ ~obj'[p].assigned
         /\ ctl'.pc = "name" /\ ctl'.dev = d /\ ctl'.obj = p
         /\ \A o \in dev_list : obj[o].name # d
  BY AddListDoes
<1>2. ctl.pc = "idle" /\ top.pc = "idle"
  BY DEF AddList, CtrlOpen, Calm
<1>3. \A o \in dev_list : obj[o].name # "" /\ obj'[o] = obj[o]
  BY <1>1, <1>2, ObjFacts DEF Rest
<1>4. ObjInv'
  BY <1>1, <1>2, <1>3, ObjStep
<1>5. CtlInv'
  <2>1. \A o \in dev_list' : obj'[o].name # d
    BY <1>1, <1>3, NullIsNone
  <2> QED  BY <1>1, <1>2, <2>1 DEF CtlInv, Adds
<1>6. AssignInv'
  BY <1>1, AssignStays DEF Rest
<1>7. \A e \in Devs : regions[e] # p /\ attached[e] # p
  BY <1>1, <1>2, RegionsOf
<1>8. HwInv'
  BY <1>1, <1>2, <1>7, HwStep
<1>9. QuietInv'
  BY <1>1, <1>2 DEF QuietInv
<1> QED  BY <1>1, <1>4, <1>5, <1>6, <1>8, <1>9 DEF DomainInv

LEMMA AddNameDomain ==
  ASSUME DomainInv, AddName
  PROVE  DomainInv'
<1> DEFINE p == ctl.obj
<1>1. /\ TypeOK' /\ ctl.pc = "name"
      /\ UNCHANGED <<dev_list, regions, attached, lc, top>> /\ Rest(p)
      /\ obj'[p].mem = obj[p].mem /\ obj'[p].name = ctl.dev
      /\ obj'[p].ready = obj[p].ready /\ obj'[p].assigned = obj[p].assigned
      /\ ctl'.pc \in {"init", "del"} /\ ctl'.dev = ctl.dev /\ ctl'.obj = p
  BY AddNameDoes
<1>2. /\ p \in Objs /\ ctl.dev \in Devs /\ ctl.dev # "" /\ top.pc = "idle"
      /\ obj[p].mem = "live" /\ ~obj[p].ready
      /\ ~obj[p].assigned /\ p \in dev_list /\ obj[p].name = ""
  BY <1>1, CtlHolding, NullIsNone DEF Adds, Live
<1>3. \A o \in dev_list : obj[o].name # ctl.dev
  BY <1>1 DEF DomainInv, CtlInv
<1>4. ctl.obj = p
  OBVIOUS
<1> HIDE DEF p
<1>5. ObjInv'
  BY <1>1, <1>2, <1>3, <1>4, ObjStep
<1>6. CtlInv'
  BY <1>1, <1>2 DEF CtlInv, Adds
<1>7. AssignInv'
  BY <1>1, <1>2, AssignStays DEF Rest
<1>8. \A e \in Devs : regions[e] # p /\ attached[e] # p
  BY <1>1, <1>2, RegionsOf
<1>9. HwInv'
  BY <1>1, <1>2, <1>8, HwStep
<1>10. QuietInv'
  BY <1>1, <1>2 DEF QuietInv
<1> QED  BY <1>1, <1>5, <1>6, <1>7, <1>9, <1>10 DEF DomainInv

LEMMA InitDomain ==
  ASSUME DomainInv, init_pci_dev
  PROVE  DomainInv'
<1> DEFINE p == ctl.obj
<1>1. /\ TypeOK' /\ ctl.pc = "init"
      /\ UNCHANGED <<dev_list, attached, lc, top>>
      /\ ctl'.dev = ctl.dev /\ ctl'.obj = p
      /\ \/ /\ regions[ctl.dev] = Null /\ ctl'.pc = "tell" /\ Rest(p)
            /\ \A d \in Devs : regions'[d] = IF d = ctl.dev THEN p ELSE regions[d]
            /\ obj'[p].mem = obj[p].mem /\ obj'[p].name = obj[p].name
            /\ obj'[p].ready /\ obj'[p].assigned = obj[p].assigned
         \/ ctl'.pc = "del" /\ UNCHANGED <<regions, obj>>
  BY InitDoes
<1>2. /\ p \in Objs /\ p # Null /\ ctl.dev \in Devs /\ ctl.dev # "" /\ top.pc = "idle"
      /\ obj[p].mem = "live" /\ ~obj[p].ready
      /\ ~obj[p].assigned /\ p \in dev_list /\ obj[p].name = ctl.dev
  BY <1>1, CtlHolding, NullIsNone DEF Adds, Live
<1>3. QuietInv'
  BY <1>1, <1>2 DEF QuietInv
<1>4. CASE ctl'.pc = "del" /\ UNCHANGED <<regions, obj>>
  <2>1. KeepList
    BY <1>1, <1>4, ObjsSame
  <2>2. CtlInv'
    BY <1>1, <1>2, <1>4 DEF CtlInv, Adds
  <2>3. ObjInv' /\ AssignInv' /\ HwInv'
    BY <1>1, <1>2, <1>4, <2>1, ObjKept, AssignKept, HwKept, AttachedFacts
  <2> QED  BY <1>1, <1>3, <2>2, <2>3 DEF DomainInv
<1>5. CASE /\ regions[ctl.dev] = Null /\ ctl'.pc = "tell" /\ Rest(p)
           /\ \A d \in Devs : regions'[d] = IF d = ctl.dev THEN p ELSE regions[d]
           /\ obj'[p].mem = obj[p].mem /\ obj'[p].name = obj[p].name
           /\ obj'[p].ready /\ obj'[p].assigned = obj[p].assigned
  <2> HIDE DEF p
  <2>1. \A o \in dev_list : o # p => obj[o].name # obj'[p].name
    <3>1. p \in dev_list /\ obj'[p].name = obj[p].name
      BY <1>2, <1>5
    <3> QED  BY <3>1, NamesUnique
  <2>2. ObjInv'
    BY <1>1, <1>2, <1>5, <2>1, ObjStep
  <2>3. CtlInv'
    BY <1>1, <1>2, <1>5 DEF CtlInv, Adds
  <2>4. AssignInv'
    BY <1>1, <1>2, <1>5, AssignStays DEF Rest
  <2>5. \A e \in Devs : regions[e] # p /\ attached[e] # p
    BY <1>1, <1>2, RegionsOf
  <2>6. HwInv'
    <3>1. \A d \in Devs : regions'[d] = p => d = ctl.dev
      BY <1>5, <2>5
    <3>2. \A d \in Devs : regions'[d] \in {p, regions[d], Null}
      BY <1>5
    <3>3. \A d \in Devs : regions[d] \notin {p, Null} => regions'[d] = regions[d]
      BY <1>5
    <3>4. obj'[p].name = ctl.dev /\ regions'[ctl.dev] = p
      BY <1>2, <1>5
    <3> QED  BY <1>1, <1>2, <1>5, <2>5, <3>1, <3>2, <3>3, <3>4, HwStep
  <2> QED  BY <1>1, <1>3, <2>2, <2>3, <2>4, <2>6 DEF DomainInv
<1> QED  BY <1>1, <1>4, <1>5

LEMMA AddFailedDomain ==
  ASSUME DomainInv, AddFailed
  PROVE  DomainInv'
<1> DEFINE p == ctl.obj
<1>1. /\ TypeOK' /\ ctl.pc = "del" /\ UNCHANGED <<regions, attached, lc, top>>
      /\ dev_list' = dev_list \ {p} /\ Rest(p) /\ ctl'.pc = "idle"
      /\ obj'[p].mem = "freed" /\ obj'[p].name = obj[p].name
      /\ ~obj'[p].ready /\ ~obj'[p].assigned
  BY AddFailedDoes
<1>2. p \in Objs /\ top.pc = "idle" /\ ~obj[p].ready /\ ~obj[p].assigned
  BY <1>1, CtlHolding DEF Adds
<1> HIDE DEF p
<1>3. ObjInv'
  BY <1>1, <1>2, ObjStep
<1>4. CtlInv'
  BY <1>1 DEF CtlInv, Adds
<1>5. AssignInv'
  BY <1>1, <1>2, AssignStays DEF Rest
<1>6. \A e \in Devs : regions[e] # p /\ attached[e] # p
  BY <1>1, <1>2, RegionsOf
<1>7. HwInv'
  BY <1>1, <1>2, <1>6, HwStep
<1>8. QuietInv'
  BY <1>1, <1>2 DEF QuietInv
<1> QED  BY <1>1, <1>3, <1>4, <1>5, <1>7, <1>8 DEF DomainInv

LEMMA RemoveDomain ==
  ASSUME DomainInv, enclave_pci_remove_dev
  PROVE  DomainInv'
<1>1. /\ TypeOK' /\ ctl.pc = "unlink" /\ UNCHANGED <<regions, attached, lc, top>>
      /\ \/ ctl'.pc = "idle" /\ UNCHANGED <<dev_list, obj>>
         \/ \E p \in dev_list :
              /\ p \in Objs /\ obj[p].name = ctl.dev /\ obj[p].ready /\ ~obj[p].assigned
              /\ dev_list' = dev_list \ {p} /\ Rest(p)
              /\ ctl'.pc = "deinit" /\ ctl'.dev = ctl.dev /\ ctl'.obj = p
              /\ obj'[p].mem = obj[p].mem /\ obj'[p].name = obj[p].name
              /\ ~obj'[p].ready /\ ~obj'[p].assigned
  BY RemoveDoes
<1>2. top.pc = "idle" /\ ctl.dev \in Devs
  BY <1>1 DEF DomainInv, CtlInv
<1>3. QuietInv'
  BY <1>1, <1>2 DEF QuietInv
<1>4. CASE ctl'.pc = "idle" /\ UNCHANGED <<dev_list, obj>>
  <2>1. KeepList
    BY <1>4, ObjsSame
  <2>2. CtlInv'
    BY <1>4 DEF CtlInv, Adds
  <2>3. ObjInv' /\ AssignInv' /\ HwInv'
    BY <1>1, <1>2, <2>1, ObjKept, AssignKept, HwKept, AttachedFacts
  <2> QED  BY <1>1, <1>3, <2>2, <2>3 DEF DomainInv
<1>5. ASSUME NEW p \in dev_list,
             p \in Objs, obj[p].name = ctl.dev, obj[p].ready, ~obj[p].assigned,
             dev_list' = dev_list \ {p}, Rest(p),
             ctl'.pc = "deinit", ctl'.dev = ctl.dev, ctl'.obj = p,
             obj'[p].mem = obj[p].mem, obj'[p].name = obj[p].name,
             ~obj'[p].ready, ~obj'[p].assigned
      PROVE  DomainInv'
  <2>1. obj[p].mem = "live"
    BY <1>5, ObjFacts DEF Live
  <2>2. ObjInv'
    BY <1>1, <1>2, <1>5, <2>1, ObjStep
  <2>3. CtlInv'
    BY <1>1, <1>2, <1>5, <2>1 DEF CtlInv, Adds, Live
  <2>4. AssignInv'
    BY <1>1, <1>5, AssignStays DEF Rest
  <2>5. /\ \A e \in Devs : regions[e] = p => obj[p].name = e
        /\ \A e \in Devs : attached[e] # p
    BY <1>5, RegionsOf
  <2>6. HwInv'
    BY <1>1, <1>5, <2>5, HwStep
  <2> QED  BY <1>1, <1>3, <2>2, <2>3, <2>4, <2>6 DEF DomainInv
<1> QED  BY <1>1, <1>4, <1>5

LEMMA RemoveDeinitDomain ==
  ASSUME DomainInv, RemoveDeinit
  PROVE  DomainInv'
<1> DEFINE p == ctl.obj
<1>1. /\ TypeOK' /\ ctl.pc = "deinit" /\ UNCHANGED <<dev_list, lc, top>>
      /\ \A d \in Devs : regions'[d] = IF regions[d] = p THEN Null ELSE regions[d]
      /\ \A d \in Devs : attached'[d] = IF attached[d] = p THEN Null ELSE attached[d]
      /\ Rest(p) /\ ctl'.pc = "idle"
      /\ obj'[p].mem = "freed" /\ obj'[p].name = obj[p].name
      /\ ~obj'[p].ready /\ ~obj'[p].assigned
  BY RemoveDeinitDoes
<1>2. /\ p \in Objs /\ p # Null /\ top.pc = "idle" /\ ~obj[p].ready /\ ~obj[p].assigned
      /\ p \notin dev_list /\ ctl.obj = p
  BY <1>1, CtlHolding DEF Adds
<1> HIDE DEF p
<1>3. ObjInv'
  BY <1>1, <1>2, ObjStep
<1>4. CtlInv'
  BY <1>1 DEF CtlInv, Adds
<1>5. AssignInv'
  BY <1>1, <1>2, AssignStays DEF Rest
<1>6. HwInv'
  BY <1>1, <1>2, HwStep
<1>7. QuietInv'
  BY <1>1, <1>2 DEF QuietInv
<1> QED  BY <1>1, <1>3, <1>4, <1>5, <1>6, <1>7 DEF DomainInv

LEMMA LookupDomain ==
  ASSUME DomainInv, Lookup
  PROVE  DomainInv'
<1>1. /\ TypeOK' /\ lc.pc = "find" /\ UNCHANGED <<dev_list, regions, attached, ctl, top>>
      /\ lc'.op = lc.op /\ lc'.dev = lc.dev
      /\ \/ lc'.pc = "resp" /\ UNCHANGED obj
         \/ \E p \in dev_list :
              /\ p \in Objs /\ obj[p].name = lc.dev
              /\ lc'.pc = lc.op /\ lc'.obj = p
              /\ \/ /\ lc.op = "attach" /\ obj[p].ready /\ ~obj[p].assigned /\ Rest(p)
                    /\ obj'[p].mem = obj[p].mem /\ obj'[p].name = obj[p].name
                    /\ obj'[p].ready = obj[p].ready /\ obj'[p].assigned
                 \/ /\ lc.op # "attach" /\ UNCHANGED obj
                    /\ lc.op \in {"detach", "map"} => obj[p].assigned
  BY LookupDoes
<1>2. lc.dev \in Devs /\ lc.op \in CallOps /\ top.pc \notin {"reset", "deinit"}
  BY <1>1 DEF DomainInv, AssignInv, QuietInv
<1>3. CASE lc'.pc = "resp" /\ UNCHANGED obj
  <2>1. AssignInv'
    BY <1>1, <1>2, <1>3 DEF AssignInv, LcHolds, CallOps, Keeping
  <2>2. KeepList
    BY <1>1, <1>3, ObjsSame
  <2> QED  BY <1>1, <2>1, <2>2, AttachedFacts, LcOnly
<1>4. ASSUME NEW p \in dev_list, p \in Objs, obj[p].name = lc.dev, lc'.pc = lc.op, lc'.obj = p,
             lc.op # "attach", UNCHANGED obj, lc.op \in {"detach", "map"} => obj[p].assigned
      PROVE  DomainInv'
  <2>1. AssignInv'
    BY <1>1, <1>2, <1>4 DEF AssignInv, LcHolds, CallOps, Keeping
  <2>2. KeepList
    BY <1>1, <1>4, ObjsSame
  <2> QED  BY <1>1, <2>1, <2>2, AttachedFacts, LcOnly
<1>5. ASSUME NEW p \in dev_list, p \in Objs, obj[p].name = lc.dev, lc'.pc = lc.op, lc'.obj = p,
             lc.op = "attach", obj[p].ready, ~obj[p].assigned, Rest(p),
             obj'[p].mem = obj[p].mem, obj'[p].name = obj[p].name,
             obj'[p].ready = obj[p].ready, obj'[p].assigned
      PROVE  DomainInv'
  <2>1. obj[p].mem = "live" /\ obj[p].name # ""
    BY <1>5, ObjFacts DEF Live
  <2>2. \A o \in dev_list : o # p => obj[o].name # obj'[p].name
    BY <1>5, NamesUnique
  <2>3. ObjInv'
    BY <1>1, <1>5, <2>1, <2>2, ObjStep
  <2>4. CtlInv'
    <3>1. \A o \in dev_list : obj'[o].name = obj[o].name /\ obj'[o].ready = obj[o].ready
      BY <1>5, TypeFacts DEF Rest, DomainInv
    <3>2. \A o \in Objs : o \notin dev_list => obj'[o] = obj[o]
      BY <1>5 DEF Rest
    <3>3. \A o \in Objs : o \notin dev_list => obj'[o].mem = obj[o].mem /\ obj'[o].ready = obj[o].ready
      BY <3>2
    <3>4. CtlInv
      BY DEF DomainInv
    <3>5. UNCHANGED <<dev_list, ctl, top>>
      BY <1>1
    <3>6. ctl.pc \in Adds => /\ ctl.obj \in dev_list /\ ~obj'[ctl.obj].ready
                             /\ ~obj'[ctl.obj].assigned
                             /\ obj'[ctl.obj].name = IF ctl.pc = "name" THEN "" ELSE ctl.dev
      BY <1>5, <3>1, <3>4, TypeFacts DEF CtlInv, Rest, DomainInv
    <3>7. ctl.pc = "deinit" => /\ ctl.obj \in Objs \ dev_list
                               /\ Live(ctl.obj)' /\ ~obj'[ctl.obj].ready
                               /\ ~obj'[ctl.obj].assigned
      BY <3>2, <3>3, <3>4, <3>5 DEF CtlInv, Live
    <3>8. ctl.pc = "name" => \A o \in dev_list : obj'[o].name # ctl.dev
      BY <3>1, <3>4 DEF CtlInv
    <3>9. ctl.pc # "idle" => ctl.dev \in Devs /\ top.pc = "idle"
      BY <3>4 DEF CtlInv
    <3> QED  BY <3>5, <3>6, <3>7, <3>8, <3>9 DEF CtlInv
  <2>5. AssignInv'
    BY <1>1, <1>2, <1>5 DEF AssignInv, LcHolds, CallOps, Keeping
  <2>6. HwInv'
    <3>1. /\ obj[p].name \in Devs /\ regions[obj[p].name] = p
          /\ \A d \in Devs : regions[d] = p => obj[p].name = d
          /\ \A d \in Devs : attached[d] = p => obj[p].name = d
      BY <1>5, RegionsOf
    <3> QED  BY <1>1, <1>5, <3>1, HwStep
  <2>7. QuietInv'
    BY <1>1, <1>2 DEF DomainInv, QuietInv
  <2> QED  BY <1>1, <2>3, <2>4, <2>5, <2>6, <2>7 DEF DomainInv
<1> QED  BY <1>1, <1>3, <1>4, <1>5

LEMMA UnassignDomain ==
  ASSUME DomainInv, Unassign
  PROVE  DomainInv'
<1> DEFINE p == lc.obj
<1>1. /\ TypeOK' /\ lc.pc = "unassign" /\ UNCHANGED <<dev_list, regions, attached, ctl, top>>
      /\ lc'.pc = "resp" /\ lc'.dev = lc.dev /\ Rest(p)
      /\ obj'[p].mem = obj[p].mem /\ obj'[p].name = obj[p].name
      /\ obj'[p].ready = obj[p].ready /\ ~obj'[p].assigned
  BY UnassignDoes
<1>2. p \in Objs /\ lc.dev \in Devs /\ obj[p].assigned
  BY <1>1, LcHolding DEF LcHolds, Keeping
<1>3. \A d \in Devs : attached[d] # p
  BY <1>1 DEF DomainInv, AssignInv
<1>4. top.pc \notin {"reset", "deinit"}
  BY <1>1 DEF DomainInv, QuietInv
<1> HIDE DEF p
<1>5. /\ obj[p].mem # "none" /\ obj[p].name # "" /\ p \in dev_list
      /\ obj[p].mem = "live" \/ top.pc \in {"deinit", "oops"}
      /\ obj[p].ready => obj[p].mem = "live"
  <2>1. obj[p].name = lc.dev
    BY <1>1, LcHolding DEF LcHolds, Keeping, p
  <2> QED  BY <1>2, <2>1, ObjFacts, NullIsNone DEF Live
<1>6. \A o \in dev_list : o # p => obj[o].name # obj'[p].name
  BY <1>1, <1>5, NamesUnique
<1>7. ObjInv'
  BY <1>1, <1>2, <1>5, <1>6, ObjStep
<1>8. CtlInv'
  <2>1. \A o \in dev_list : obj'[o].name = obj[o].name /\ obj'[o].ready = obj[o].ready
    BY <1>1, TypeFacts DEF Rest, DomainInv
  <2>2. \A o \in Objs : o \notin dev_list => obj'[o] = obj[o]
    BY <1>1, <1>5 DEF Rest
  <2>3. \A o \in Objs : ~obj[o].assigned => ~obj'[o].assigned
    BY <1>1 DEF Rest
  <2>4. ctl.pc \in Adds \union {"deinit"} => ~obj'[ctl.obj].assigned
    BY <2>3, CtlHolding
  <2> QED  BY <1>1, <2>1, <2>2, <2>4 DEF DomainInv, CtlInv, Adds, Live
<1>9. AssignInv'
  BY <1>1, <1>2 DEF AssignInv, LcHolds, CallOps, Keeping
<1>10. HwInv'
  <2>1. /\ obj[p].ready => obj[p].name \in Devs /\ regions[obj[p].name] = p
        /\ \A d \in Devs : regions[d] = p => obj[p].name = d
        /\ \A d \in Devs : regions[d] = p /\ ~obj[p].ready => ctl.pc = "deinit" /\ ctl.obj = p
    BY <1>2, <1>5, RegionsOf
  <2> QED  BY <1>1, <1>2, <1>3, <1>5, <2>1, HwStep
<1>11. QuietInv'
  BY <1>1, <1>4 DEF DomainInv, QuietInv
<1> QED  BY <1>1, <1>7, <1>8, <1>9, <1>10, <1>11 DEF DomainInv

-----------------------------------------------------------------------------
(* RESET and FREE.                                                         *)
LEMMA NoCommand == ASSUME DomainInv, top.pc # "idle" PROVE ctl.pc = "idle"
BY DEF DomainInv, CtlInv

LEMMA CalmOrderly ==
  ASSUME Calm, Orderly
  PROVE  ctl.pc = "idle" /\ lc.pc = "idle" /\ \A d \in Devs : attached[d] = Null
BY DEF Orderly, Calm

(* A step of theirs that leaves the devices alone.                         *)
LEMMA TopOnly ==
  ASSUME DomainInv, top' \in TopType, owed' \in [Devs -> BOOLEAN], known' \subseteq Devs,
         UNCHANGED <<list, obj, hw, pending, ctl, lc>>,
         ctl.pc = "idle", top.pc \notin {"deinit", "oops"}, QuietInv'
  PROVE  DomainInv'
<1>1. TypeOK'
  BY TypeFacts, TypeNext DEF list, hw, DomainInv
<1>2. KeepList
  BY ObjsSame DEF list
<1>3. ObjInv' /\ CtlInv' /\ AssignInv' /\ HwInv'
  BY <1>2, ObjKept, CtlKept, AssignKept, HwKept, AttachedFacts DEF hw
<1> QED  BY <1>1, <1>3 DEF DomainInv

LEMMA StopDomain ==
  ASSUME DomainInv, Calm, ResetStop \/ FreeEnclave
  PROVE  DomainInv'
<1>1. /\ top.pc = "idle" /\ Orderly
      /\ Top("reset") \/ Top("deinit")
      /\ UNCHANGED <<list, obj, hw, pending, ctl, lc>>
      /\ owed' \in [Devs -> BOOLEAN] /\ known' \subseteq Devs
  BY TypeFacts DEF ResetStop, FreeEnclave, encl, DomainInv
<1>2. top' \in TopType /\ top'.pc \in {"reset", "deinit"}
  BY <1>1, TypeFacts, TopGoes DEF DomainInv
<1>3. ctl.pc = "idle" /\ lc.pc = "idle" /\ \A d \in Devs : attached[d] = Null
  BY <1>1, CalmOrderly
<1>4. QuietInv'
  BY <1>1, <1>2, <1>3 DEF QuietInv, hw
<1> QED  BY <1>1, <1>2, <1>3, <1>4, TopOnly

LEMMA ReaddDevDomain ==
  ASSUME DomainInv, NEW o \in Objs, ReaddDev(o)
  PROVE  DomainInv'
<1>1. /\ top.pc = "readd" /\ known' = known \union {obj[o].name}
      /\ top' = [top EXCEPT !.todo = @ \ {o}]
      /\ UNCHANGED <<list, obj, hw, owed, pending, ctl, lc>> /\ o \in top.todo
  BY DEF ReaddDev
<1>2. top' \in TopType /\ top'.pc = "readd" /\ top'.todo = top.todo \ {o}
  BY <1>1, TypeFacts, TopTells DEF DomainInv
<1>3. obj[o].name \in Devs
  <2>1. o \in dev_list /\ ctl.pc = "idle"
    BY <1>1, NoCommand DEF DomainInv, QuietInv
  <2> QED  BY <2>1, ObjFacts, NameFacts DEF DomainInv
<1>4. QuietInv'
  BY <1>1, <1>2 DEF DomainInv, QuietInv, list
<1> QED  BY <1>1, <1>2, <1>3, <1>4, NoCommand, TypeFacts, TopOnly DEF DomainInv

LEMMA ResetEndDomain ==
  ASSUME DomainInv, ResetEnd
  PROVE  DomainInv'
<1>1. /\ top.pc = "readd" /\ top' = [pc |-> "idle", todo |-> {}]
      /\ UNCHANGED <<list, obj, hw, encl, ctl, lc>>
  BY DEF ResetEnd
<1>2. top' \in TopType /\ top'.pc = "idle"
  BY <1>1 DEF TopType
<1>3. QuietInv'
  BY <1>2 DEF QuietInv
<1>4. owed' \in [Devs -> BOOLEAN] /\ known' \subseteq Devs /\ UNCHANGED pending
  BY <1>1, TypeFacts DEF encl, DomainInv
<1> QED  BY <1>1, <1>2, <1>3, <1>4, NoCommand, TopOnly

(* The devices that can be initialised have their regions again.           *)
LEMMA ResetDomain ==
  ASSUME DomainInv, reset_enclave_pci
  PROVE  DomainInv'
<1>1. /\ TypeOK' /\ top.pc = "reset" /\ lc.pc = "idle" /\ UNCHANGED <<dev_list, ctl, lc>>
      /\ \/ top'.pc = "oops" /\ UNCHANGED <<obj, regions, attached>>
         \/ \E bad \in SUBSET dev_list :
              /\ top'.pc = "readd" /\ top'.todo = dev_list
              /\ \A d \in Devs : regions'[d] =
                   IF \E o \in dev_list \ bad : obj[o].name = d THEN find_dev_by_name(d)
                   ELSE IF regions[d] \in bad THEN Null ELSE regions[d]
              /\ \A d \in Devs : attached'[d] = IF attached[d] \in dev_list THEN Null ELSE attached[d]
              /\ \A o \in Objs : /\ obj'[o].mem = obj[o].mem /\ obj'[o].name = obj[o].name
                                 /\ obj'[o].assigned = obj[o].assigned
                                 /\ obj'[o].ready = IF o \in dev_list THEN o \notin bad
                                                    ELSE obj[o].ready
  BY ResetDoes
<1>2. ctl.pc = "idle" /\ \A d \in Devs : attached[d] = Null
  BY <1>1, NoCommand DEF DomainInv, QuietInv
<1>3. QuietInv'
  BY <1>1 DEF QuietInv
<1>4. CASE top'.pc = "oops" /\ UNCHANGED <<obj, regions, attached>>
  <2>1. KeepList
    BY <1>1, <1>4, ObjsSame
  <2>2. ObjInv' /\ CtlInv' /\ AssignInv' /\ HwInv'
    BY <1>1, <1>2, <1>4, <2>1, ObjKept, CtlKept, AssignKept, HwKept, AttachedFacts
  <2> QED  BY <1>1, <1>3, <2>2 DEF DomainInv
<1>5. ASSUME NEW bad \in SUBSET dev_list, top'.pc = "readd",
             \A d \in Devs : regions'[d] =
               IF \E o \in dev_list \ bad : obj[o].name = d THEN find_dev_by_name(d)
               ELSE IF regions[d] \in bad THEN Null ELSE regions[d],
             \A d \in Devs : attached'[d] = IF attached[d] \in dev_list THEN Null ELSE attached[d],
             \A o \in Objs : /\ obj'[o].mem = obj[o].mem /\ obj'[o].name = obj[o].name
                             /\ obj'[o].assigned = obj[o].assigned
                             /\ obj'[o].ready = IF o \in dev_list THEN o \notin bad
                                                ELSE obj[o].ready
      PROVE  DomainInv'
  <2>0. \A o \in Objs : /\ obj'[o].mem = obj[o].mem /\ obj'[o].name = obj[o].name
                        /\ obj'[o].assigned = obj[o].assigned
    BY <1>5
  <2>1. \A o \in Objs : obj'[o].ready <=> o \in dev_list \ bad
    <3>1. \A o \in Objs : obj[o].ready => o \in dev_list
      BY ObjFacts
    <3> QED  BY <1>5, <3>1
  <2>2. \A o \in dev_list : o \in Objs /\ obj[o].mem = "live" /\ obj[o].name # "" /\ obj[o].name \in Devs
    BY <1>1, <1>2, ObjFacts, NameFacts DEF Live, DomainInv
  <2>3. \A o \in dev_list \ bad : find_dev_by_name(obj[o].name) = o
    <3>1. ASSUME NEW o \in dev_list PROVE find_dev_by_name(obj[o].name) = o
      <4>1. find_dev_by_name(obj[o].name) \in dev_list
            /\ obj[find_dev_by_name(obj[o].name)].name = obj[o].name
        BY FoundDev DEF DomainInv
      <4> QED  BY <4>1, NamesUnique
    <3> QED  BY <3>1
  <2>4. \A o \in dev_list \ bad : regions'[obj[o].name] = o
    BY <1>5, <2>2, <2>3
  <2>5. ASSUME NEW d \in Devs, regions'[d] # Null
        PROVE  \E o \in dev_list \ bad : regions'[d] = o /\ obj[o].name = d
    <3>1. CASE \E o \in dev_list \ bad : obj[o].name = d
      BY <2>4, <3>1
    <3>2. CASE ~\E o \in dev_list \ bad : obj[o].name = d
      <4>1. regions'[d] = regions[d] /\ regions[d] \notin bad
        BY <1>5, <2>5, <3>2
      <4>2. regions[d] \in Objs /\ obj[regions[d]].name = d /\ obj[regions[d]].ready
        BY <1>2, <2>5, <4>1, OwnerFacts DEF DomainInv, HwInv
      <4>3. regions[d] \in dev_list
        BY <4>2, ObjFacts
      <4> QED  BY <3>2, <4>1, <4>2, <4>3
    <3> QED  BY <3>1, <3>2
  <2>6. ObjInv'
    <3>1. \A o \in dev_list : obj'[o].name = obj[o].name
      BY <1>5, <2>2
    <3>2. \A o, p \in dev_list' : obj'[o].name = obj'[p].name => o = p
      BY <1>1, <3>1, NamesApart
    <3>3. \A o \in dev_list' :
            /\ Live(o)' \/ top'.pc \in {"deinit", "oops"}
            /\ obj'[o].name = "" => ctl'.obj = o /\ ctl'.pc = "name"
      <4>1. \A o \in dev_list : obj'[o].mem = "live" /\ obj'[o].name # ""
        BY <2>0, <2>2
      <4> QED  BY <1>1, <4>1 DEF Live
    <3>4. ASSUME NEW o \in Objs
          PROVE  /\ obj'[o].mem = "none" => o \notin dev_list' /\ obj'[o].name = "" /\ ~obj'[o].ready /\ ~obj'[o].assigned
                 /\ obj'[o].ready => o \in dev_list' /\ obj'[o].name # "" /\ Live(o)'
                 /\ obj'[o].assigned => o \in dev_list'
      <4>1. /\ obj[o].mem = "none" => o \notin dev_list /\ obj[o].name = "" /\ ~obj[o].assigned
            /\ obj[o].assigned => o \in dev_list
        BY ObjFacts
      <4>2. obj'[o].ready <=> o \in dev_list \ bad
        BY <2>1
      <4>3. /\ obj'[o].mem = obj[o].mem /\ obj'[o].name = obj[o].name
            /\ obj'[o].assigned = obj[o].assigned
        BY <2>0
      <4>4. dev_list' = dev_list
        BY <1>1
      <4> QED  BY <2>2, <4>1, <4>2, <4>3, <4>4 DEF Live
    <3> QED  BY <3>2, <3>3, <3>4 DEF ObjInv
  <2>7. CtlInv'
    BY <1>1, <1>2 DEF CtlInv, Adds
  <2>8. AssignInv'
    BY <1>1 DEF AssignInv, LcHolds, CallOps, Keeping
  <2>9. HwInv'
    <3>1. \A d \in Devs : attached'[d] = Null
      BY <1>2, <1>5
    <3>2. \A d \in Devs : regions'[d] # Null => obj'[regions'[d]].name = d /\ obj'[regions'[d]].ready
      BY <1>5, <2>1, <2>2, <2>5
    <3>3. \A o \in Objs : obj'[o].ready => regions'[obj'[o].name] = o
      BY <1>5, <2>1, <2>4
    <3> QED  BY <3>1, <3>2, <3>3 DEF HwInv
  <2> QED  BY <1>1, <1>3, <2>6, <2>7, <2>8, <2>9 DEF DomainInv
<1> QED  BY <1>1, <1>4, <1>5

(* An object that is not assigned goes, or FREE frees one that stays.      *)
LEMMA FreedDomain ==
  ASSUME DomainInv, TypeOK', NEW p \in Objs, Freed(p), UNCHANGED <<ctl, lc>>, ctl.pc = "idle",
         \/ dev_list' = dev_list \ {p} /\ ~obj[p].assigned
         \/ dev_list' = dev_list /\ top'.pc = "deinit" /\ lc.pc = "idle",
         top.pc \in {"deinit", "oops"} => top'.pc = "deinit", QuietInv'
  PROVE  DomainInv'
<1>1. /\ Rest(p) /\ obj'[p].mem = "freed" /\ obj'[p].name = obj[p].name
      /\ ~obj'[p].ready /\ obj'[p].assigned = obj[p].assigned
      /\ \A d \in Devs : regions'[d] = IF regions[d] = p THEN Null ELSE regions[d]
      /\ \A d \in Devs : attached'[d] = IF attached[d] = p THEN Null ELSE attached[d]
  BY DEF Freed
<1>2. p # Null
  BY NullIsNone
<1>3. p \in dev_list' => top'.pc = "deinit" /\ dev_list' = dev_list
  OBVIOUS
<1>4. p \in dev_list => obj[p].name # "" /\ \A o \in dev_list : o # p => obj[o].name # obj'[p].name
  BY <1>1, ObjFacts, NamesUnique
<1>5. obj'[p].assigned => p \in dev_list'
  BY <1>1, ObjFacts
<1>6. ObjInv'
  BY <1>1, <1>3, <1>4, <1>5, ObjStep
<1>7. CtlInv'
  BY DEF CtlInv, Adds
<1>8. AssignInv'
  <2>1. CASE lc.pc = "idle"
    BY <2>1 DEF AssignInv, LcHolds, CallOps, Keeping
  <2>2. CASE ~obj[p].assigned
    BY <1>1, <2>2, AssignStays DEF Rest
  <2> QED  BY <2>1, <2>2
<1>9. HwInv'
  BY <1>1, <1>2, HwStep
<1> QED  BY <1>6, <1>7, <1>8, <1>9 DEF DomainInv

LEMMA ReaddRefusedDomain ==
  ASSUME DomainInv, NEW p \in Objs, ReaddRefused(p)
  PROVE  DomainInv'
<1>1. /\ TypeOK' /\ top.pc = "readd" /\ UNCHANGED <<ctl, lc>>
      /\ \/ ~obj[p].assigned /\ Freed(p) /\ dev_list' = dev_list \ {p} /\ top'.pc = "oops"
         \/ /\ UNCHANGED <<obj, dev_list, regions, attached>>
            /\ top'.pc = "readd" /\ top'.todo = top.todo \ {p}
  BY ReaddRefusedDoes
<1>2. ctl.pc = "idle" /\ QuietInv'
  BY <1>1, NoCommand DEF DomainInv, QuietInv
<1>3. CASE ~obj[p].assigned /\ Freed(p) /\ dev_list' = dev_list \ {p} /\ top'.pc = "oops"
  BY <1>1, <1>2, <1>3, FreedDomain
<1>4. CASE UNCHANGED <<obj, dev_list, regions, attached>> /\ top'.pc = "readd"
  <2>1. KeepList
    BY <1>4, ObjsSame
  <2>2. ObjInv' /\ CtlInv' /\ AssignInv' /\ HwInv'
    BY <1>1, <1>2, <1>4, <2>1, ObjKept, CtlKept, AssignKept, HwKept, AttachedFacts
  <2> QED  BY <1>1, <1>2, <2>2 DEF DomainInv
<1> QED  BY <1>1, <1>3, <1>4

LEMMA DeinitDomain ==
  ASSUME DomainInv, deinit_enclave_pci
  PROVE  DomainInv'
<1>1. /\ TypeOK' /\ top.pc = "deinit" /\ UNCHANGED <<ctl, lc>>
      /\ \/ /\ top'.pc = "oops" \/ (top'.pc = "gone" /\ dev_list = {})
            /\ UNCHANGED <<dev_list, obj, regions, attached>>
         \/ \E p \in dev_list :
              /\ p \in Objs /\ Freed(p) /\ UNCHANGED top
              /\ \/ dev_list' = dev_list \ {p} /\ ~obj[p].assigned
                 \/ dev_list' = dev_list
  BY DeinitDoes DEF Removable
<1>2. ctl.pc = "idle" /\ lc.pc = "idle" /\ \A d \in Devs : attached[d] = Null
  BY <1>1, NoCommand DEF DomainInv, QuietInv
<1>3. CASE /\ top'.pc = "oops" \/ (top'.pc = "gone" /\ dev_list = {})
           /\ UNCHANGED <<dev_list, obj, regions, attached>>
  <2>1. KeepList
    BY <1>3, ObjsSame
  <2>2. ObjInv' /\ CtlInv' /\ AssignInv' /\ HwInv'
    BY <1>1, <1>2, <1>3, <2>1, ObjKept, CtlKept, AssignKept, HwKept, AttachedFacts
  <2>3. QuietInv'
    BY <1>3 DEF QuietInv
  <2> QED  BY <1>1, <2>2, <2>3 DEF DomainInv
<1>4. ASSUME NEW p \in dev_list, p \in Objs, Freed(p), UNCHANGED top,
             \/ dev_list' = dev_list \ {p} /\ ~obj[p].assigned
             \/ dev_list' = dev_list
      PROVE  DomainInv'
  <2>1. \A d \in Devs : attached'[d] = Null
    BY <1>2, <1>4 DEF Freed
  <2>2. QuietInv'
    BY <1>1, <1>2, <1>4, <2>1 DEF QuietInv
  <2> QED  BY <1>1, <1>2, <1>4, <2>2, FreedDomain
<1> QED  BY <1>1, <1>3, <1>4

LEMMA DomainInit == Init => DomainInv
<1> SUFFICES ASSUME Init PROVE DomainInv
  OBVIOUS
<1>1. ctl.pc = "idle" /\ lc.pc = "idle" /\ ctl \in Thread /\ lc \in Thread
  BY IdleThread DEF Init
<1>2. top \in TopType /\ top.pc = "idle"
  BY DEF Init, TopType
<1>3. Fresh \in DevObj /\ Fresh.mem = "none" /\ Fresh.name = "" /\ ~Fresh.ready /\ ~Fresh.assigned
  BY DEF Fresh, DevObj
<1>4. \A o \in Objs : obj[o] = Fresh
  BY DEF Init
<1>5. TypeOK
  <2>1. obj \in [Objs -> DevObj]
    BY <1>3 DEF Init
  <2>2. regions \in Owner /\ attached \in Owner /\ handler \in Owner
    BY DEF Init, Owner
  <2>3. /\ dev_list = {} /\ dev_cnt = 0 /\ known = {} /\ pending = FALSE
        /\ masked \in [Devs -> BOOLEAN] /\ owed \in [Devs -> BOOLEAN]
    BY DEF Init
  <2>4. dev_list \subseteq Objs /\ dev_cnt \in Int /\ known \subseteq Devs
    BY DEF Init
  <2>5. pending \in BOOLEAN
    BY Zenon DEF Init
  <2> QED  BY <1>1, <1>2, <2>1, <2>2, <2>3, <2>4, <2>5, TypeParts
<1>6. ObjInv
  BY <1>3, <1>4 DEF Init, ObjInv
<1>7. CtlInv /\ AssignInv /\ QuietInv
  BY <1>1, <1>2 DEF CtlInv, AssignInv, QuietInv, Adds, LcHolds, CallOps, Keeping
<1>8. HwInv
  BY <1>3, <1>4 DEF Init, HwInv
<1> QED  BY <1>5, <1>6, <1>7, <1>8 DEF DomainInv

LEMMA DomainStutter ==
  ASSUME DomainInv, UNCHANGED vars
  PROVE  DomainInv'
<1>1. TypeOK'
  BY DEF vars, DomainInv, TypeOK
<1>2. KeepList
  BY ObjsSame DEF vars
<1>3. ObjInv' /\ CtlInv' /\ AssignInv' /\ HwInv'
  BY <1>2, ObjKept, CtlKept, AssignKept, HwKept, AttachedFacts DEF vars, DomainInv, CtlInv
<1>4. QuietInv'
  BY DEF vars, DomainInv, QuietInv
<1> QED  BY <1>1, <1>3, <1>4 DEF DomainInv

LEMMA DomainStep ==
  ASSUME DomainInv, Calm, [Next]_vars
  PROVE  DomainInv'
<1>1. CASE \E d \in Devs : AddList(d) \/ FreeDev(d)
  BY <1>1, AddListDomain, FreeDevDomain
<1>2. CASE Ctrl
  BY <1>2, AddNameDomain, InitDomain, AddFailedDomain, CtrlAddPciDomain, EnclaveKeepsDomain,
     EnclaveGivesUpDomain, RemoveDomain, RemoveDeinitDomain DEF Ctrl
<1>3. CASE \E d \in Devs, op \in CallOps : Call(op, d)
  BY <1>3, CallDomain
<1>4. CASE Lcall
  BY <1>4, LookupDomain, AttachDomain, IntxDomain, DetachDomain, UnassignDomain, AnswerDomain
     DEF Lcall
<1>5. CASE \E d \in Devs : host_pci_intx_irq_handler(d)
  BY <1>5, IrqDomain
<1>6. CASE Teardown
  BY <1>6, StopDomain, ResetDomain, ResetEndDomain, DeinitDomain, ReaddDevDomain,
     ReaddRefusedDomain DEF Teardown
<1>7. CASE UNCHANGED vars
  BY <1>7, DomainStutter
<1> QED  BY <1>1, <1>2, <1>3, <1>4, <1>5, <1>6, <1>7 DEF Next

(* The first layer's invariant holds whatever the enclave's driver does,   *)
(* also when devices fail after RESET or are refused, as long as user      *)
(* space resets and frees an enclave in order.                             *)
THEOREM DomainAlways ==
  ASSUME Calm
  PROVE  Spec => []DomainInv
<1>1. DomainInv /\ [Next]_vars => DomainInv'
  BY DomainStep
<1> QED  BY <1>1, DomainInit, PTL DEF Spec

LEMMA DomainIsHeld == DomainInv => DomainSafe
<1> SUFFICES ASSUME DomainInv PROVE DomainSafe
  OBVIOUS
<1>1. ASSUME NEW d \in Devs, attached[d] # Null
      PROVE  attached[d] = regions[d] /\ obj[attached[d]].assigned
  <2>1. attached[d] \in Objs /\ obj[attached[d]].name = d /\ obj[attached[d]].assigned
    BY <1>1, AttachedFacts
  <2>2. obj[attached[d]].ready
    BY <1>1, AttachedFacts
  <2> QED  BY <2>1, <2>2, RegionsOf
<1>2. ASSUME NEW d \in Devs, regions[d] # Null
      PROVE  Live(regions[d])
  <2>1. /\ regions[d] \in Objs
        /\ obj[regions[d]].ready \/ (ctl.pc = "deinit" /\ ctl.obj = regions[d])
    BY <1>2, OwnerFacts DEF DomainInv, HwInv
  <2> QED  BY <2>1, ObjFacts, CtlHolding
<1> QED  BY <1>1, <1>2 DEF DomainSafe

(* DMA isolation does not rest on the enclave: a device in an enclave's    *)
(* IOMMU domain is held and assigned by the object of that domain, and no  *)
(* device stays held by an object that is gone (enclave_pci.c:138-142,     *)
(* 568-582, 637-646), whatever the enclave's driver does and however       *)
(* devices fail, as long as RESET and FREE come when nothing is attached.  *)
THEOREM DomainCorrect ==
  ASSUME Calm
  PROVE  Spec => []DomainSafe
<1>1. Spec => []DomainInv
  BY DomainAlways
<1> QED  BY <1>1, DomainIsHeld, PTL

-----------------------------------------------------------------------------
(* Second layer.  A handler belongs to an attached device with INTx on,    *)
(* and a line it disabled to one whose enclave has an IPI to acknowledge,  *)
(* or whose acknowledgement is under way.                                  *)
Acking(d) == lc.op = "ack" /\ lc.dev = d /\ lc.pc \in {"find", "ack"}

HandlerInv ==
  \A d \in Devs : handler[d] # Null =>
    /\ obj[handler[d]].name = d /\ obj[handler[d]].assigned
    /\ ~obj[handler[d]].intx_disabled
    /\ masked[d] => owed[d] \/ Acking(d)

(* What a tidy driver gives: INTx is off when a device is detached, and    *)
(* goes on only for one that is attached.                                  *)
CallInv ==
  /\ lc.pc \in {"detach", "unassign"} => obj[lc.obj].intx_disabled
  /\ lc.pc = "intx_on" => obj[lc.obj].name = lc.dev /\ obj[lc.obj].assigned
  /\ lc.pc = "find" /\ lc.op = "detach" =>
       \A o \in dev_list : obj[o].name = lc.dev => obj[o].intx_disabled
  /\ lc.pc = "find" /\ lc.op = "intx_on" =>
       \E o \in dev_list : obj[o].name = lc.dev /\ obj[o].assigned

IntxInv == DomainInv /\ HandlerInv /\ CallInv

(* An object may stay assigned when its device could not be attached, so   *)
(* that a handler is tied to the attachment itself.                        *)
TiedInv ==
  /\ \A d \in Devs : handler[d] # Null => attached[d] = handler[d]
  /\ lc.pc \in {"request", "intx_on"} => attached[lc.dev] = lc.obj
  /\ lc.pc = "find" /\ lc.op = "intx_on" => attached[lc.dev] # Null

LineInv == IntxInv /\ TiedInv

LEMMA HandlerFacts ==
  ASSUME IntxInv
  PROVE  \A d \in Devs : handler[d] # Null =>
           /\ handler[d] \in Objs /\ handler[d] \in dev_list
           /\ obj[handler[d]].name = d /\ obj[handler[d]].assigned
           /\ ~obj[handler[d]].intx_disabled
           /\ masked[d] => owed[d] \/ Acking(d)
<1>1. ASSUME NEW d \in Devs, handler[d] # Null
      PROVE  handler[d] \in Objs /\ handler[d] \in dev_list
  <2>1. handler[d] \in Objs /\ obj[handler[d]].assigned
    BY <1>1, OwnerFacts DEF IntxInv, HandlerInv, DomainInv
  <2> QED  BY <2>1, ObjFacts DEF IntxInv
<1> QED  BY <1>1 DEF IntxInv, HandlerInv

(* An assigned device stays what it is.                                    *)
AssignedStay ==
  \A o \in Objs : obj[o].assigned =>
    /\ obj'[o].assigned /\ obj'[o].name = obj[o].name
    /\ obj'[o].intx_disabled = obj[o].intx_disabled

LEMMA StayIfKept ==
  ASSUME KeepList, KeepIntx
  PROVE  AssignedStay
BY DEF KeepList, KeepIntx, Same, AssignedStay

LEMMA StayIfRest ==
  ASSUME NEW p \in Objs, Rest(p), ~obj[p].assigned
  PROVE  AssignedStay
BY DEF Rest, AssignedStay

LEMMA HandlerKept ==
  ASSUME IntxInv, UNCHANGED handler, AssignedStay,
         \A d \in Devs : masked'[d] => masked[d],
         \A d \in Devs : handler[d] # Null /\ masked'[d] =>
           (owed[d] => owed'[d] \/ Acking(d)') /\ (Acking(d) => Acking(d)')
  PROVE  HandlerInv'
BY HandlerFacts DEF HandlerInv, AssignedStay

(* A step of a command, of RESET or of FREE beside the call.               *)
LEMMA CallKept ==
  ASSUME IntxInv, DomainInv', AssignedStay, UNCHANGED lc,
         \A o \in dev_list' : obj'[o].intx_disabled \/
           (o \in dev_list /\ obj'[o].name = obj[o].name
            /\ obj'[o].intx_disabled = obj[o].intx_disabled)
           \/ obj'[o].name = ""
  PROVE  CallInv'
<1>1. lc.pc \in LcHolds => lc.obj \in Objs
  BY DEF IntxInv, DomainInv, AssignInv
<1>2. lc.pc \in {"detach", "unassign"} => obj'[lc.obj].intx_disabled
  <2>1. lc.pc \in {"detach", "unassign"} =>
          lc.obj \in Objs /\ obj[lc.obj].assigned /\ obj[lc.obj].intx_disabled
    BY <1>1 DEF IntxInv, DomainInv, AssignInv, CallInv, Keeping, LcHolds, CallOps
  <2> QED  BY <2>1 DEF AssignedStay
<1>3. lc.pc = "intx_on" => obj'[lc.obj].name = lc.dev /\ obj'[lc.obj].assigned
  <2>1. lc.pc = "intx_on" =>
          lc.obj \in Objs /\ obj[lc.obj].assigned /\ obj[lc.obj].name = lc.dev
    BY <1>1 DEF IntxInv, CallInv, LcHolds, CallOps
  <2> QED  BY <2>1 DEF AssignedStay
<1>4. ASSUME lc.pc = "find", lc.op = "detach", NEW o \in dev_list', obj'[o].name = lc.dev
      PROVE  obj'[o].intx_disabled
  <2>1. lc.dev # ""
    BY <1>4, NullIsNone DEF IntxInv, DomainInv, AssignInv
  <2>2. \A p \in dev_list : obj[p].name = lc.dev => obj[p].intx_disabled
    BY <1>4 DEF IntxInv, CallInv
  <2> QED  BY <1>4, <2>1, <2>2
<1>5. ASSUME lc.pc = "find", lc.op = "intx_on"
      PROVE  \E o \in dev_list' : obj'[o].name = lc.dev /\ obj'[o].assigned
  <2>1. PICK o \in dev_list : obj[o].name = lc.dev /\ obj[o].assigned
    BY <1>5 DEF IntxInv, CallInv
  <2>2. o \in Objs
    BY TypeFacts DEF IntxInv, DomainInv
  <2>3. obj'[o].name = lc.dev /\ obj'[o].assigned
    BY <2>1, <2>2 DEF AssignedStay
  <2>4. o \in dev_list'
    BY <2>2, <2>3 DEF DomainInv, ObjInv
  <2> QED  BY <2>3, <2>4
<1> QED  BY <1>2, <1>3, <1>4, <1>5 DEF CallInv

LEMMA BesideIntx ==
  ASSUME IntxInv, DomainInv', AssignedStay, UNCHANGED <<handler, masked, owed, lc>>,
         \A o \in dev_list' : obj'[o].intx_disabled \/
           (o \in dev_list /\ obj'[o].name = obj[o].name
            /\ obj'[o].intx_disabled = obj[o].intx_disabled)
           \/ obj'[o].name = ""
  PROVE  IntxInv'
<1>1. HandlerInv'
  BY HandlerKept DEF Acking
<1>2. CallInv'
  BY CallKept
<1> QED  BY <1>1, <1>2 DEF IntxInv

(* With nothing attached there is no handler.                              *)
LEMMA QuietIntx ==
  ASSUME LineInv, DomainInv', UNCHANGED handler, lc'.pc = "idle", \A d \in Devs : attached[d] = Null
  PROVE  IntxInv'
<1>1. \A d \in Devs : handler'[d] = Null
  BY DEF LineInv, TiedInv
<1>2. HandlerInv'
  BY <1>1 DEF HandlerInv
<1>3. CallInv'
  BY DEF CallInv
<1> QED  BY <1>2, <1>3 DEF IntxInv

LEMMA SameIntx ==
  ASSUME IntxInv, DomainInv', UNCHANGED <<dev_list, obj, handler, masked, owed, lc>>
  PROVE  IntxInv'
<1>1. AssignedStay
  BY ObjsSame, StayIfKept
<1> QED  BY <1>1, BesideIntx

LEMMA CommandIntx ==
  ASSUME IntxInv, DomainInv', Ctrl \/ \E d \in Devs : AddList(d) \/ FreeDev(d)
  PROVE  IntxInv'
<1>d. DomainInv
  BY DEF IntxInv
<1>1. CASE \E d \in Devs : AddList(d)
  <2>1. PICK p \in Objs : /\ UNCHANGED <<handler, masked, owed, lc>> /\ KeepIntx
                          /\ dev_list' = dev_list \union {p} /\ Rest(p) /\ ~obj[p].assigned
                          /\ obj'[p].name = ""
    BY <1>1, <1>d, AddListDoes
  <2>2. \A o \in dev_list' : obj'[o].name = "" \/ (o \in dev_list /\ obj'[o] = obj[o])
    BY <1>d, <2>1, TypeFacts DEF Rest, DomainInv
  <2> QED  BY <2>1, <2>2, StayIfRest, BesideIntx
<1>2. CASE AddName
  <2>1. /\ ctl.pc = "name" /\ ctl.obj \in Objs /\ UNCHANGED <<dev_list, handler, masked, owed, lc>>
        /\ Rest(ctl.obj) /\ obj'[ctl.obj].intx_disabled
    BY <1>2, <1>d, AddNameDoes
  <2>2. ~obj[ctl.obj].assigned
    BY <1>d, <2>1, CtlHolding DEF Adds
  <2>3. \A o \in dev_list' : obj'[o].intx_disabled \/ (o \in dev_list /\ obj'[o] = obj[o])
    BY <1>d, <2>1, TypeFacts DEF Rest, DomainInv
  <2> QED  BY <2>1, <2>2, <2>3, StayIfRest, BesideIntx
<1>3. CASE init_pci_dev
  <2>1. /\ ctl.pc = "init" /\ ctl.obj \in Objs /\ UNCHANGED <<dev_list, handler, masked, owed, lc>>
        /\ KeepIntx /\ \A o \in Objs : obj'[o].name = obj[o].name
        /\ Rest(ctl.obj)
    BY <1>3, <1>d, InitDoes DEF Rest
  <2>2. ~obj[ctl.obj].assigned
    BY <1>d, <2>1, CtlHolding DEF Adds
  <2>3. \A o \in dev_list' : /\ o \in dev_list /\ obj'[o].name = obj[o].name
                             /\ obj'[o].intx_disabled = obj[o].intx_disabled
    BY <1>d, <2>1, TypeFacts DEF KeepIntx, DomainInv
  <2> QED  BY <2>1, <2>2, <2>3, StayIfRest, BesideIntx
<1>4. CASE AddFailed
  <2>1. /\ ctl.pc = "del" /\ ctl.obj \in Objs /\ UNCHANGED <<handler, masked, owed, lc>>
        /\ dev_list' = dev_list \ {ctl.obj} /\ Rest(ctl.obj)
    BY <1>4, <1>d, AddFailedDoes
  <2>2. ~obj[ctl.obj].assigned
    BY <1>d, <2>1, CtlHolding DEF Adds
  <2>3. \A o \in dev_list' : o \in dev_list /\ obj'[o] = obj[o]
    BY <1>d, <2>1, TypeFacts DEF Rest, DomainInv
  <2> QED  BY <2>1, <2>2, <2>3, StayIfRest, BesideIntx
<1>5. CASE enclave_pci_remove_dev
  <2>1. /\ UNCHANGED <<handler, masked, owed, lc>>
        /\ \/ UNCHANGED <<dev_list, obj>>
           \/ \E p \in dev_list :
                p \in Objs /\ ~obj[p].assigned /\ dev_list' = dev_list \ {p} /\ Rest(p)
    BY <1>5, <1>d, RemoveDoes
  <2>2. CASE UNCHANGED <<dev_list, obj>>
    BY <2>1, <2>2, SameIntx
  <2>3. ASSUME NEW p \in dev_list, p \in Objs, ~obj[p].assigned, dev_list' = dev_list \ {p}, Rest(p)
        PROVE  IntxInv'
    <3>1. \A o \in dev_list' : o \in dev_list /\ obj'[o] = obj[o]
      BY <1>d, <2>3, TypeFacts DEF Rest, DomainInv
    <3> QED  BY <2>1, <2>3, <3>1, StayIfRest, BesideIntx
  <2> QED  BY <2>1, <2>2, <2>3
<1>6. CASE RemoveDeinit
  <2>1. /\ ctl.pc = "deinit" /\ ctl.obj \in Objs /\ UNCHANGED <<dev_list, handler, masked, owed, lc>>
        /\ Rest(ctl.obj)
    BY <1>6, <1>d, RemoveDeinitDoes
  <2>2. ~obj[ctl.obj].assigned /\ ctl.obj \notin dev_list
    BY <1>d, <2>1, CtlHolding DEF Adds
  <2>3. \A o \in dev_list' : o \in dev_list /\ obj'[o] = obj[o]
    BY <1>d, <2>1, <2>2, TypeFacts DEF Rest, DomainInv
  <2> QED  BY <2>1, <2>2, <2>3, StayIfRest, BesideIntx
<1>7. CASE ctrl_add_pci \/ EnclaveKeeps \/ EnclaveGivesUp \/ \E d \in Devs : FreeDev(d)
  <2>1. UNCHANGED <<dev_list, obj, handler, masked, owed, lc>>
    BY <1>7 DEF ctrl_add_pci, EnclaveKeeps, EnclaveGivesUp, FreeDev, list, hw, encl
  <2> QED  BY <2>1, SameIntx
<1> QED  BY <1>1, <1>2, <1>3, <1>4, <1>5, <1>6, <1>7 DEF Ctrl

LEMMA TeardownIntx ==
  ASSUME LineInv, DomainInv', Calm, Teardown
  PROVE  IntxInv'
<1>d. DomainInv /\ IntxInv
  BY DEF LineInv, IntxInv
<1>1. CASE ResetStop \/ FreeEnclave
  <2>1. Orderly /\ UNCHANGED <<handler, lc>>
    BY <1>1 DEF ResetStop, FreeEnclave, hw
  <2> QED  BY <1>d, <2>1, CalmOrderly, QuietIntx
<1>2. CASE reset_enclave_pci \/ deinit_enclave_pci
  <2>1. top.pc \in {"reset", "deinit"} /\ UNCHANGED <<handler, lc>>
    BY <1>2, <1>d, ResetDoes, DeinitDoes
  <2>2. lc.pc = "idle" /\ \A d \in Devs : attached[d] = Null
    BY <1>d, <2>1 DEF DomainInv, QuietInv
  <2> QED  BY <2>1, <2>2, QuietIntx
<1>3. CASE ResetEnd \/ \E o \in Objs : ReaddDev(o)
  <2>1. UNCHANGED <<dev_list, obj, handler, masked, owed, lc>>
    BY <1>3 DEF ResetEnd, ReaddDev, list, hw, encl
  <2> QED  BY <1>d, <2>1, SameIntx
<1>4. ASSUME NEW p \in Objs, ReaddRefused(p) PROVE IntxInv'
  <2>1. /\ UNCHANGED <<handler, masked, owed, lc>>
        /\ \/ ~obj[p].assigned /\ Freed(p) /\ dev_list' = dev_list \ {p}
           \/ UNCHANGED <<obj, dev_list>>
    BY <1>4, <1>d, ReaddRefusedDoes
  <2>2. CASE UNCHANGED <<obj, dev_list>>
    BY <1>d, <2>1, <2>2, SameIntx
  <2>3. CASE ~obj[p].assigned /\ Freed(p) /\ dev_list' = dev_list \ {p}
    <3>1. Rest(p)
      BY <2>3 DEF Freed
    <3>2. \A o \in dev_list' : o \in dev_list /\ obj'[o] = obj[o]
      BY <1>d, <2>3, <3>1, TypeFacts DEF Rest, DomainInv
    <3> QED  BY <1>d, <2>1, <2>3, <3>1, <3>2, StayIfRest, BesideIntx
  <2> QED  BY <2>1, <2>2, <2>3
<1> QED  BY <1>1, <1>2, <1>3, <1>4 DEF Teardown

(* The long calls.                                                         *)
LEMMA CallIntx ==
  ASSUME IntxInv, DomainInv', Tidy, NEW op \in CallOps, NEW d \in Devs, Call(op, d)
  PROVE  IntxInv'
<1>d. DomainInv
  BY DEF IntxInv
<1>1. /\ lc.pc = "idle" /\ UNCHANGED <<dev_list, obj, handler, masked>>
      /\ lc'.pc = "find" /\ lc'.op = op /\ lc'.dev = d
      /\ owed' = [owed EXCEPT ![d] = @ /\ op # "ack"]
  BY DEF Call, list, hw
<1>2. /\ op = "detach" => /\ find_dev_by_name(d) # Null
                          /\ obj[find_dev_by_name(d)].intx_disabled
      /\ op = "intx_on" => find_dev_by_name(d) # Null /\ obj[find_dev_by_name(d)].assigned
  BY <1>d, AttachedFacts DEF Call, Tidy
<1>3. HandlerInv'
  <2>1. AssignedStay
    BY <1>1, ObjsSame, StayIfKept
  <2>2. ASSUME NEW e \in Devs, owed[e] PROVE owed'[e] \/ Acking(e)'
    <3>1. CASE e # d \/ op # "ack"
      BY <1>1, <1>d, <2>2, <3>1, TypeFacts DEF DomainInv
    <3>2. CASE e = d /\ op = "ack"
      BY <1>1, <3>2 DEF Acking
    <3> QED  BY <3>1, <3>2
  <2>3. \A e \in Devs : ~Acking(e)
    BY <1>1 DEF Acking
  <2> QED  BY <1>1, <2>1, <2>2, <2>3, HandlerKept
<1>4. CallInv'
  <2>1. ASSUME op = "detach", NEW o \in dev_list, obj[o].name = d
        PROVE  obj[o].intx_disabled
    <3>1. find_dev_by_name(d) \in dev_list /\ obj[find_dev_by_name(d)].name = d
      BY <1>d, <1>2, <2>1, FoundDev DEF DomainInv
    <3>2. o = find_dev_by_name(d)
      BY <1>d, <2>1, <3>1, NamesUnique
    <3> QED  BY <1>2, <2>1, <3>2
  <2>2. ASSUME op = "intx_on"
        PROVE  \E o \in dev_list : obj[o].name = d /\ obj[o].assigned
    <3>1. find_dev_by_name(d) \in dev_list /\ obj[find_dev_by_name(d)].name = d
      BY <1>d, <1>2, <2>2, FoundDev DEF DomainInv
    <3> QED  BY <1>2, <2>2, <3>1
  <2> QED  BY <1>1, <2>1, <2>2 DEF CallInv
<1> QED  BY <1>3, <1>4 DEF IntxInv

(* A call that goes on with nothing changed that the layer reads.          *)
LEMMA OnwardIntx ==
  ASSUME IntxInv, DomainInv', AssignedStay, UNCHANGED <<handler, masked, owed>>,
         lc.pc \notin {"find", "ack"}, CallInv'
  PROVE  IntxInv'
<1>1. \A d \in Devs : ~Acking(d)
  BY DEF Acking
<1>2. HandlerInv'
  BY <1>1, HandlerKept
<1> QED  BY <1>2 DEF IntxInv

LEMMA LookupIntx ==
  ASSUME IntxInv, DomainInv', Lookup
  PROVE  IntxInv'
<1>d. DomainInv
  BY DEF IntxInv
<1>1. /\ lc.pc = "find" /\ KeepIntx /\ UNCHANGED <<dev_list, handler, masked, owed>>
      /\ lc'.op = lc.op /\ lc'.dev = lc.dev
  BY <1>d, LookupDoes
<1>2. CASE /\ lc'.pc = "resp" /\ UNCHANGED obj
           /\ lc.op \in Unchecked => \A o \in dev_list : obj[o].name # lc.dev
  <2>1. AssignedStay
    BY <1>1, <1>2, ObjsSame, StayIfKept
  <2>2. ASSUME NEW d \in Devs, handler[d] # Null PROVE ~Acking(d)
    BY <1>2, <2>2, HandlerFacts DEF Acking, Unchecked
  <2>3. HandlerInv'
    BY <1>1, <2>1, <2>2, HandlerKept
  <2>4. CallInv'
    BY <1>2 DEF CallInv
  <2> QED  BY <2>3, <2>4 DEF IntxInv
<1>3. ASSUME NEW p \in dev_list, p \in Objs, obj[p].name = lc.dev, lc'.pc = lc.op, lc'.obj = p,
             \/ lc.op = "attach" /\ ~obj[p].assigned /\ Rest(p)
             \/ lc.op # "attach" /\ UNCHANGED obj
      PROVE  IntxInv'
  <2>1. AssignedStay
    BY <1>1, <1>3, StayIfRest, ObjsSame, StayIfKept
  <2>2. \A d \in Devs : Acking(d) => Acking(d)'
    BY <1>1, <1>3 DEF Acking
  <2>3. HandlerInv'
    BY <1>1, <2>1, <2>2, HandlerKept
  <2>4. CASE lc.op \notin {"detach", "intx_on"}
    <3>1. lc.op \in CallOps
      BY <1>d, <1>1 DEF DomainInv, AssignInv
    <3>2. CallInv'
      BY <1>1, <1>3, <2>4, <3>1 DEF CallInv, CallOps
    <3> QED  BY <2>3, <3>2 DEF IntxInv
  <2>5. CASE lc.op = "detach"
    <3>1. obj'[p].intx_disabled
      BY <1>1, <1>3, <2>5 DEF IntxInv, CallInv
    <3>2. CallInv'
      BY <1>1, <1>3, <2>5, <3>1 DEF CallInv
    <3> QED  BY <2>3, <3>2 DEF IntxInv
  <2>6. CASE lc.op = "intx_on"
    <3>1. PICK o \in dev_list : obj[o].name = lc.dev /\ obj[o].assigned
      BY <1>1, <2>6 DEF IntxInv, CallInv
    <3>2. o = p
      BY <1>d, <1>3, <3>1, NamesUnique
    <3>3. obj'[p].name = lc.dev /\ obj'[p].assigned
      BY <1>3, <2>6, <3>1, <3>2
    <3>4. CallInv'
      BY <1>1, <1>3, <2>6, <3>3 DEF CallInv
    <3> QED  BY <2>3, <3>4 DEF IntxInv
  <2> QED  BY <2>4, <2>5, <2>6
<1> QED  BY <1>d, <1>2, <1>3, LookupDoes

LEMMA AttachIntx ==
  ASSUME IntxInv, DomainInv', enclave_pci_attach \/ enclave_pci_detach
  PROVE  IntxInv'
<1>d. DomainInv
  BY DEF IntxInv
<1>1. CASE enclave_pci_attach
  <2>1. /\ lc.pc = "attach" /\ KeepList /\ KeepIntx /\ UNCHANGED <<handler, masked, owed>>
        /\ lc'.pc \in {"request", "idle"}
    BY <1>d, <1>1, AttachDoes, IdleThread
  <2>2. CallInv'
    BY <2>1 DEF CallInv
  <2> QED  BY <2>1, <2>2, StayIfKept, OnwardIntx
<1>2. CASE enclave_pci_detach
  <2>1. /\ lc.pc = "detach" /\ KeepList /\ KeepIntx /\ UNCHANGED <<handler, masked, owed>>
        /\ lc'.pc = "unassign" /\ lc'.obj = lc.obj
    BY <1>d, <1>2, DetachDoes
  <2>2. lc.obj \in Objs /\ obj[lc.obj].intx_disabled
    BY <1>d, <2>1, LcHolding DEF LcHolds, CallOps, IntxInv, CallInv
  <2>3. obj'[lc.obj].intx_disabled
    BY <2>1, <2>2 DEF KeepIntx
  <2>4. CallInv'
    BY <2>1, <2>3 DEF CallInv
  <2> QED  BY <2>1, <2>4, StayIfKept, OnwardIntx
<1> QED  BY <1>1, <1>2

LEMMA UnassignIntx ==
  ASSUME IntxInv, DomainInv', Unassign
  PROVE  IntxInv'
<1>d. DomainInv
  BY DEF IntxInv
<1>1. /\ lc.pc = "unassign" /\ lc.obj \in Objs /\ lc'.pc = "resp" /\ Rest(lc.obj)
      /\ UNCHANGED <<handler, masked, owed>>
  BY <1>d, UnassignDoes
<1>2. obj[lc.obj].intx_disabled
  BY <1>1 DEF IntxInv, CallInv
<1>3. ASSUME NEW d \in Devs, handler[d] # Null PROVE obj'[handler[d]] = obj[handler[d]]
  <2>1. handler[d] \in Objs /\ handler[d] # lc.obj
    BY <1>2, <1>3, HandlerFacts
  <2> QED  BY <1>1, <2>1 DEF Rest
<1>4. HandlerInv'
  <2>1. \A d \in Devs : ~Acking(d)
    BY <1>1 DEF Acking
  <2> QED  BY <1>1, <1>3, <2>1, HandlerFacts DEF HandlerInv
<1>5. CallInv'
  BY <1>1 DEF CallInv
<1> QED  BY <1>4, <1>5 DEF IntxInv

(* INTx goes on for a device that is assigned and has the call's name.     *)
LEMMA EnableIntxIntx ==
  ASSUME IntxInv, DomainInv', EnableIntx
  PROVE  IntxInv'
<1>d. DomainInv
  BY DEF IntxInv
<1>1. /\ lc.pc \in {"request", "intx_on"} /\ lc.obj \in Objs /\ lc.dev \in Devs
      /\ KeepList /\ UNCHANGED owed /\ lc'.pc = "resp"
  BY <1>d, EnableDoes
<1>2. obj[lc.obj].name = lc.dev /\ obj[lc.obj].assigned
  BY <1>d, <1>1, LcHolding DEF LcHolds, Keeping, CallOps, IntxInv, CallInv
<1>3. CallInv'
  BY <1>1 DEF CallInv
<1>4. CASE UNCHANGED <<handler, masked>> /\ KeepIntx
  BY <1>1, <1>3, <1>4, StayIfKept, OnwardIntx
<1>5. CASE /\ Rest(lc.obj) /\ ~obj'[lc.obj].intx_disabled
           /\ \/ UNCHANGED <<handler, masked>>
              \/ \A d \in Devs : IF d = lc.dev THEN handler'[d] = lc.obj /\ ~masked'[d]
                                 ELSE handler'[d] = handler[d] /\ masked'[d] = masked[d]
  <2>1. \A d \in Devs : ~Acking(d)
    BY <1>1 DEF Acking
  <2>2. \A o \in Objs : /\ obj'[o].name = obj[o].name /\ obj'[o].assigned = obj[o].assigned
                        /\ ~obj[o].intx_disabled => ~obj'[o].intx_disabled
    BY <1>1, <1>5 DEF KeepList, Same, Rest
  <2>3. ASSUME NEW d \in Devs, handler'[d] # Null
        PROVE  /\ obj'[handler'[d]].name = d /\ obj'[handler'[d]].assigned
               /\ ~obj'[handler'[d]].intx_disabled
               /\ masked'[d] => owed'[d] \/ Acking(d)'
    <3>1. CASE handler'[d] = handler[d] /\ masked'[d] = masked[d]
      BY <1>1, <2>1, <2>2, <2>3, <3>1, HandlerFacts
    <3>2. CASE d = lc.dev /\ handler'[d] = lc.obj /\ ~masked'[d]
      BY <1>1, <1>2, <1>5, <2>2, <3>2
    <3> QED  BY <1>5, <3>1, <3>2
  <2> QED  BY <1>3, <2>3 DEF HandlerInv, IntxInv
<1> QED  BY <1>d, <1>4, <1>5, EnableDoes

LEMMA DisableIntxIntx ==
  ASSUME IntxInv, DomainInv', DisableIntx
  PROVE  IntxInv'
<1>d. DomainInv
  BY DEF IntxInv
<1>1. /\ lc.pc = "intx_off" /\ lc.obj \in Objs /\ KeepList /\ UNCHANGED owed /\ lc'.pc = "resp"
  BY <1>d, DisableDoes
<1>3. CallInv'
  BY <1>1 DEF CallInv
<1>4. CASE UNCHANGED <<handler, masked>> /\ KeepIntx
  BY <1>1, <1>3, <1>4, StayIfKept, OnwardIntx
<1>5. CASE /\ Rest(lc.obj)
           /\ \A d \in Devs : /\ handler'[d] = IF handler[d] = lc.obj THEN Null ELSE handler[d]
                              /\ masked'[d] => masked[d]
  <2>1. \A d \in Devs : ~Acking(d)
    BY <1>1 DEF Acking
  <2>2. ASSUME NEW d \in Devs, handler'[d] # Null
        PROVE  /\ handler'[d] = handler[d] /\ handler[d] # Null
               /\ obj'[handler[d]] = obj[handler[d]]
    <3>1. handler'[d] = handler[d] /\ handler[d] # lc.obj /\ handler[d] # Null
      BY <1>5, <2>2
    <3> QED  BY <1>5, <3>1, HandlerFacts DEF Rest
  <2>3. HandlerInv'
    BY <1>1, <1>5, <2>1, <2>2, HandlerFacts DEF HandlerInv
  <2> QED  BY <1>3, <2>3 DEF IntxInv
<1> QED  BY <1>d, <1>4, <1>5, DisableDoes

LEMMA AnswerIntx ==
  ASSUME IntxInv, DomainInv', enclave_pci_iommu_map \/ enclave_pci_ack_irq \/ send_resp
  PROVE  IntxInv'
<1>d. DomainInv
  BY DEF IntxInv
<1>l. lc \in Thread
  BY <1>d, TypeFacts DEF DomainInv
<1>1. CASE enclave_pci_iommu_map \/ send_resp
  <2>1. /\ lc.pc \in {"map", "resp"} /\ UNCHANGED <<dev_list, obj, handler, masked, owed>>
        /\ lc'.pc \in {"idle", "resp"}
    <3>1. CASE enclave_pci_iommu_map
      BY <1>l, <3>1, Goes DEF enclave_pci_iommu_map, list, hw, encl, Places
    <3>2. CASE send_resp
      BY <3>2, IdleThread DEF send_resp, list, hw
    <3> QED  BY <1>1, <3>1, <3>2
  <2>2. CallInv'
    BY <2>1 DEF CallInv
  <2> QED  BY <2>1, <2>2, ObjsSame, StayIfKept, OnwardIntx
<1>2. CASE enclave_pci_ack_irq
  <2>1. /\ lc.pc = "ack" /\ UNCHANGED <<dev_list, obj, handler, owed>> /\ lc'.pc = "resp"
        /\ masked' = [masked EXCEPT ![lc.dev] = FALSE]
    BY <1>2, <1>l, Goes DEF enclave_pci_ack_irq, list, encl, Places
  <2>2. CallInv'
    BY <2>1 DEF CallInv
  <2>3. \A d \in Devs : masked'[d] => masked[d] /\ d # lc.dev
    BY <1>d, <2>1, TypeFacts DEF DomainInv
  <2>4. AssignedStay
    BY <2>1, ObjsSame, StayIfKept
  <2>5. HandlerInv'
    BY <2>1, <2>3, <2>4, HandlerKept DEF Acking
  <2> QED  BY <2>2, <2>5 DEF IntxInv
<1> QED  BY <1>1, <1>2

(* An interrupt comes only from an attached device, so not beside RESET's  *)
(* reboot: the enclave has the IPI.                                        *)
LEMMA IrqIntx ==
  ASSUME LineInv, DomainInv', NEW d \in Devs, host_pci_intx_irq_handler(d)
  PROVE  IntxInv'
<1>d. DomainInv /\ IntxInv
  BY DEF LineInv, IntxInv
<1>1. /\ handler[d] # Null /\ UNCHANGED <<dev_list, obj, handler, lc>>
      /\ masked' = [masked EXCEPT ![d] = TRUE] /\ owed' = [owed EXCEPT ![d] = top.pc # "reset"]
  BY DEF host_pci_intx_irq_handler, list
<1>2. top.pc # "reset"
  <2>1. attached[d] # Null
    BY <1>1 DEF LineInv, TiedInv
  <2> QED  BY <1>d, <2>1 DEF DomainInv, QuietInv
<1>3. owed'[d] /\ \A e \in Devs : e # d => owed'[e] = owed[e] /\ masked'[e] = masked[e]
  BY <1>d, <1>1, <1>2, TypeFacts DEF DomainInv
<1>4. \A e \in Devs : Acking(e)' <=> Acking(e)
  BY <1>1 DEF Acking
<1>5. HandlerInv'
  BY <1>d, <1>1, <1>3, <1>4, HandlerFacts DEF HandlerInv
<1>6. CallInv'
  BY <1>d, <1>1 DEF IntxInv, CallInv
<1> QED  BY <1>5, <1>6 DEF IntxInv

(* The ties.  Steps that leave attachments, handlers and the call alone.   *)
LEMMA TiedKept ==
  ASSUME TiedInv, UNCHANGED <<handler, lc>>,
         \A d \in Devs : attached'[d] = attached[d], lc.pc # "idle" => lc.dev \in Devs
  PROVE  TiedInv'
BY DEF TiedInv

LEMMA TiedOutside ==
  ASSUME LineInv, Calm,
         Ctrl \/ Teardown \/ \E d \in Devs : AddList(d) \/ FreeDev(d) \/ host_pci_intx_irq_handler(d)
  PROVE  TiedInv'
<1>d. DomainInv /\ TiedInv /\ (lc.pc # "idle" => lc.dev \in Devs)
  BY DEF LineInv, IntxInv, DomainInv, AssignInv
<1>1. CASE RemoveDeinit
  <2>1. /\ ctl.pc = "deinit" /\ ctl.obj \in Objs /\ UNCHANGED <<handler, lc>>
        /\ \A d \in Devs : attached'[d] = IF attached[d] = ctl.obj THEN Null ELSE attached[d]
    BY <1>1, <1>d, RemoveDeinitDoes
  <2>2. \A d \in Devs : attached[d] # ctl.obj
    BY <1>d, <2>1, CtlHolding, RegionsOf DEF Adds
  <2> QED  BY <1>d, <2>1, <2>2, TiedKept
<1>2. CASE reset_enclave_pci
  <2>1. /\ top.pc = "reset" /\ UNCHANGED <<handler, lc>>
        /\ \/ UNCHANGED attached
           \/ \A d \in Devs : attached'[d] = IF attached[d] \in dev_list THEN Null ELSE attached[d]
    BY <1>2, <1>d, ResetDoes
  <2>2. \A d \in Devs : attached[d] = Null
    BY <1>d, <2>1 DEF DomainInv, QuietInv
  <2> QED  BY <1>d, <2>1, <2>2, TiedKept
<1>3. CASE deinit_enclave_pci
  <2>1. /\ top.pc = "deinit" /\ UNCHANGED <<handler, lc>>
        /\ UNCHANGED attached \/ \E p \in Objs : Freed(p)
    BY <1>3, <1>d, DeinitDoes
  <2>2. \A d \in Devs : attached[d] = Null
    BY <1>d, <2>1 DEF DomainInv, QuietInv
  <2>3. \A d \in Devs : attached'[d] = attached[d]
    BY <2>1, <2>2 DEF Freed
  <2> QED  BY <1>d, <2>1, <2>3, TiedKept
<1>4. ASSUME NEW p \in Objs, ReaddRefused(p) PROVE TiedInv'
  <2>1. /\ UNCHANGED <<handler, lc>>
        /\ UNCHANGED attached \/ (~obj[p].assigned /\ Freed(p))
    BY <1>4, <1>d, ReaddRefusedDoes
  <2>2. ~obj[p].assigned => \A d \in Devs : attached[d] # p
    BY <1>d, RegionsOf
  <2>3. \A d \in Devs : attached'[d] = attached[d]
    BY <2>1, <2>2 DEF Freed
  <2> QED  BY <1>d, <2>1, <2>3, TiedKept
<1>5. CASE \/ \E d \in Devs : AddList(d) \/ FreeDev(d) \/ host_pci_intx_irq_handler(d)
           \/ AddName \/ init_pci_dev \/ AddFailed \/ ctrl_add_pci \/ EnclaveKeeps
           \/ EnclaveGivesUp \/ enclave_pci_remove_dev \/ ResetStop \/ FreeEnclave \/ ResetEnd
           \/ \E o \in Objs : ReaddDev(o)
  <2>1. UNCHANGED <<handler, lc, attached>>
    BY <1>5 DEF AddList, FreeDev, host_pci_intx_irq_handler, AddName, init_pci_dev, AddFailed,
       ctrl_add_pci, EnclaveKeeps, EnclaveGivesUp, enclave_pci_remove_dev, ResetStop, FreeEnclave,
       ResetEnd, ReaddDev, hw
  <2> QED  BY <1>d, <2>1, TiedKept
<1> QED  BY <1>1, <1>2, <1>3, <1>4, <1>5 DEF Ctrl, Teardown

(* The attached object and the one that a call has found by the same name  *)
(* are the same.                                                           *)
LEMMA TiedByName ==
  ASSUME DomainInv, NEW d \in Devs, attached[d] # Null, NEW p \in dev_list, obj[p].name = d
  PROVE  attached[d] = p
<1>1. attached[d] \in Objs /\ obj[attached[d]].name = d /\ obj[attached[d]].assigned
  BY AttachedFacts
<1>2. attached[d] \in dev_list
  BY <1>1, ObjFacts
<1> QED  BY <1>1, <1>2, NamesUnique

(* A call that goes on to a place that needs no tie.                       *)
LEMMA TiedOnward ==
  ASSUME TiedInv, UNCHANGED handler, \A d \in Devs : handler[d] # Null => attached'[d] = attached[d],
         lc'.pc \notin {"find", "request", "intx_on"}
  PROVE  TiedInv'
BY DEF TiedInv

LEMMA TiedCall ==
  ASSUME LineInv, Tidy, Lcall \/ \E d \in Devs, op \in CallOps : Call(op, d)
  PROVE  TiedInv'
<1>d. DomainInv /\ IntxInv /\ TiedInv /\ (lc.pc # "idle" => lc.dev \in Devs) /\ lc \in Thread
  BY TypeFacts DEF LineInv, IntxInv, DomainInv, AssignInv
<1>1. ASSUME NEW d \in Devs, NEW op \in CallOps, Call(op, d) PROVE TiedInv'
  <2>1. /\ lc'.pc = "find" /\ lc'.op = op /\ lc'.dev = d /\ UNCHANGED <<handler, attached>>
        /\ op = "intx_on" => find_dev_by_name(d) # Null /\ attached[d] = find_dev_by_name(d)
    BY <1>1 DEF Call, Tidy, hw
  <2> QED  BY <1>d, <2>1 DEF TiedInv
<1>2. CASE Lookup
  <2>1. /\ lc.pc = "find" /\ lc'.dev = lc.dev /\ UNCHANGED <<handler, attached>>
        /\ \/ lc'.pc = "resp"
           \/ /\ lc'.obj \in dev_list /\ obj[lc'.obj].name = lc.dev
              /\ lc'.pc = lc.op
    BY <1>2, <1>d, LookupDoes
  <2>2. CASE lc'.pc = "resp"
    BY <1>d, <2>1, <2>2, TiedOnward
  <2>3. CASE lc'.obj \in dev_list /\ obj[lc'.obj].name = lc.dev /\ lc'.pc = lc.op
    <3>1. lc.op \in CallOps /\ lc.dev \in Devs
      BY <1>d, <2>1 DEF DomainInv, AssignInv
    <3>2. CASE lc.op = "intx_on"
      <4>1. attached[lc.dev] # Null
        BY <1>d, <2>1, <3>2 DEF TiedInv
      <4>2. attached[lc.dev] = lc'.obj
        BY <1>d, <2>3, <3>1, <4>1, TiedByName
      <4> QED  BY <1>d, <2>1, <2>3, <3>2, <4>2 DEF TiedInv
    <3>3. CASE lc.op # "intx_on"
      <4>1. lc'.pc \notin {"find", "request", "intx_on"}
        BY <2>3, <3>1, <3>3 DEF CallOps
      <4> QED  BY <1>d, <2>1, <4>1, TiedOnward
    <3> QED  BY <3>2, <3>3
  <2> QED  BY <2>1, <2>2, <2>3
<1>3. CASE enclave_pci_attach
  <2>1. /\ lc.pc = "attach" /\ UNCHANGED handler
        /\ \/ /\ lc'.pc = "request" /\ lc'.dev = lc.dev /\ lc'.obj = lc.obj
              /\ \A d \in Devs : attached'[d] = IF d = lc.dev THEN lc.obj ELSE attached[d]
           \/ lc' = Idle /\ UNCHANGED attached
    BY <1>3, <1>d, AttachDoes
  <2>2. /\ lc.obj \in Objs /\ lc.dev \in Devs
        /\ obj[lc.obj].name = lc.dev /\ obj[lc.obj].assigned
    BY <1>d, <2>1, LcHolding DEF LcHolds, CallOps, Keeping
  <2>3. CASE lc' = Idle /\ UNCHANGED attached
    BY <1>d, <2>1, <2>3, IdleThread, TiedOnward
  <2>4. CASE /\ lc'.pc = "request" /\ lc'.dev = lc.dev /\ lc'.obj = lc.obj
             /\ \A d \in Devs : attached'[d] = IF d = lc.dev THEN lc.obj ELSE attached[d]
    <3>1. lc.obj \in dev_list
      BY <1>d, <2>2, ObjFacts
    <3>2. handler[lc.dev] # Null => handler[lc.dev] = lc.obj
      <4>1. handler[lc.dev] # Null => attached[lc.dev] = handler[lc.dev]
        BY <1>d, <2>2 DEF TiedInv
      <4> QED  BY <1>d, <2>2, <3>1, <4>1, TiedByName
    <3>3. \A d \in Devs : handler'[d] # Null => attached'[d] = handler'[d]
      BY <1>d, <2>1, <2>4, <3>2 DEF TiedInv
    <3> QED  BY <2>2, <2>4, <3>3 DEF TiedInv
  <2> QED  BY <2>1, <2>3, <2>4
<1>4. CASE EnableIntx
  <2>1. /\ lc.pc \in {"request", "intx_on"} /\ lc.dev \in Devs /\ UNCHANGED attached /\ lc'.pc = "resp"
        /\ \/ UNCHANGED handler
           \/ \A d \in Devs : handler'[d] = IF d = lc.dev THEN lc.obj ELSE handler[d]
    BY <1>4, <1>d, EnableDoes
  <2>2. attached[lc.dev] = lc.obj
    BY <1>d, <2>1 DEF TiedInv
  <2> QED  BY <1>d, <2>1, <2>2 DEF TiedInv
<1>5. CASE DisableIntx
  <2>1. /\ UNCHANGED attached /\ lc'.pc = "resp"
        /\ \/ UNCHANGED handler
           \/ \A d \in Devs : handler'[d] = IF handler[d] = lc.obj THEN Null ELSE handler[d]
    BY <1>5, <1>d, DisableDoes
  <2> QED  BY <1>d, <2>1 DEF TiedInv
<1>6. CASE enclave_pci_detach
  <2>1. /\ lc.pc = "detach" /\ UNCHANGED handler /\ lc'.pc = "unassign"
        /\ \A d \in Devs : attached'[d] = IF attached[d] = lc.obj THEN Null ELSE attached[d]
    BY <1>6, <1>d, DetachDoes
  <2>2. obj[lc.obj].intx_disabled
    BY <2>1, <1>d DEF IntxInv, CallInv
  <2>3. \A d \in Devs : handler[d] # Null => handler[d] # lc.obj
    BY <1>d, <2>2, HandlerFacts
  <2>4. \A d \in Devs : handler[d] # Null => attached'[d] = attached[d]
    BY <1>d, <2>1, <2>3 DEF TiedInv
  <2> QED  BY <1>d, <2>1, <2>4, TiedOnward
<1>7. CASE Unassign
  <2>1. UNCHANGED <<handler, attached>> /\ lc'.pc = "resp"
    BY <1>7, <1>d, UnassignDoes
  <2> QED  BY <1>d, <2>1, TiedOnward
<1>8. CASE enclave_pci_iommu_map \/ enclave_pci_ack_irq
  <2>1. UNCHANGED <<handler, attached>> /\ lc'.pc = "resp"
    <3>1. lc' = [lc EXCEPT !.pc = "resp"] /\ UNCHANGED <<handler, attached>>
      BY <1>8 DEF enclave_pci_iommu_map, enclave_pci_ack_irq, hw
    <3>2. "resp" \in Places
      BY DEF Places
    <3> QED  BY <1>d, <3>1, <3>2, Goes
  <2> QED  BY <1>d, <2>1, TiedOnward
<1>9. CASE send_resp
  <2>1. UNCHANGED <<handler, attached>> /\ lc'.pc = "idle"
    BY <1>9, IdleThread DEF send_resp, hw
  <2> QED  BY <1>d, <2>1, TiedOnward
<1> QED  BY <1>1, <1>2, <1>3, <1>4, <1>5, <1>6, <1>7, <1>8, <1>9 DEF Lcall

LEMMA IntxInit == Init => LineInv
<1> SUFFICES ASSUME Init PROVE LineInv
  OBVIOUS
<1>1. lc.pc = "idle"
  BY IdleThread DEF Init
<1>2. HandlerInv /\ CallInv /\ TiedInv
  BY <1>1 DEF Init, HandlerInv, CallInv, TiedInv
<1> QED  BY <1>2, DomainInit DEF IntxInv, LineInv

LEMMA IntxStep ==
  ASSUME LineInv, Tidy, [Next]_vars
  PROVE  LineInv'
<1>d. DomainInv'
  BY DomainStep DEF LineInv, IntxInv, Tidy
<1>i. IntxInv /\ DomainInv /\ Calm
  BY DEF LineInv, IntxInv, Tidy
<1>1. CASE Ctrl \/ \E d \in Devs : AddList(d) \/ FreeDev(d)
  BY <1>d, <1>i, <1>1, CommandIntx, TiedOutside DEF LineInv
<1>2. CASE \E d \in Devs, op \in CallOps : Call(op, d)
  BY <1>d, <1>i, <1>2, CallIntx, TiedCall DEF LineInv
<1>3. CASE Lcall
  <2>1. IntxInv'
    BY <1>d, <1>i, <1>3, LookupIntx, AttachIntx, EnableIntxIntx, DisableIntxIntx, UnassignIntx,
       AnswerIntx DEF Lcall
  <2> QED  BY <1>3, <2>1, TiedCall DEF LineInv
<1>4. CASE \E d \in Devs : host_pci_intx_irq_handler(d)
  BY <1>d, <1>i, <1>4, IrqIntx, TiedOutside DEF LineInv
<1>5. CASE Teardown
  BY <1>d, <1>i, <1>5, TeardownIntx, TiedOutside DEF LineInv
<1>6. CASE UNCHANGED vars
  <2>1. IntxInv' 
    BY <1>d, <1>i, <1>6, SameIntx DEF vars
  <2>2. TiedInv'
    BY <1>6 DEF LineInv, TiedInv, vars
  <2> QED  BY <2>1, <2>2 DEF LineInv
<1> QED  BY <1>1, <1>2, <1>3, <1>4, <1>5, <1>6 DEF Next

(* The second layer's invariant holds under a tidy driver, also when       *)
(* devices cannot be attached, fail after RESET or are refused.            *)
THEOREM IntxAlways ==
  ASSUME Tidy
  PROVE  Spec => []LineInv
<1>1. LineInv /\ [Next]_vars => LineInv'
  BY IntxStep
<1> QED  BY <1>1, IntxInit, PTL DEF Spec

LEMMA HandlerIsLive == LineInv => HandlerSafe
<1> SUFFICES ASSUME LineInv, NEW d \in Devs, handler[d] # Null PROVE Live(handler[d])
  BY DEF HandlerSafe
<1>1. attached[d] = handler[d] /\ DomainInv
  BY DEF LineInv, TiedInv, IntxInv
<1>2. attached[d] \in Objs /\ obj[attached[d]].ready
  BY <1>1, AttachedFacts
<1> QED  BY <1>1, <1>2, ObjFacts

LEMMA LineIsOwed == LineInv => MaskedIsOwed
<1> SUFFICES ASSUME LineInv, NEW d \in known, handler[d] # Null, masked[d]
             PROVE  owed[d] \/ (lc.op = "ack" /\ lc.dev = d)
  BY DEF MaskedIsOwed
<1>1. d \in Devs /\ IntxInv
  BY TypeFacts DEF LineInv, IntxInv, DomainInv
<1> QED  BY <1>1, HandlerFacts DEF Acking

(* An interrupt never finds its priv_data freed                            *)
(* (src/enclave_pci.c:366, 596), when INTx is off before a device is       *)
(* detached and goes on only while it is attached, whether or not devices  *)
(* can be attached, and are accepted again after RESET.                    *)
THEOREM HandlerCorrect ==
  ASSUME Tidy
  PROVE  Spec => []HandlerSafe
<1>1. Spec => []LineInv
  BY IntxAlways
<1> QED  BY <1>1, HandlerIsLive, PTL

(* A line the handler disabled has someone who will enable it again        *)
(* (src/enclave_pci.c:399-404, 681), under the same driver.                *)
THEOREM MaskedCorrect ==
  ASSUME Tidy
  PROVE  Spec => []MaskedIsOwed
<1>1. Spec => []LineInv
  BY IntxAlways
<1> QED  BY <1>1, LineIsOwed, PTL

-----------------------------------------------------------------------------
(* Third layer.  With devices that can always be initialised again, what   *)
(* is on the list is live, and ready unless a command is adding it.        *)
ListedInv ==
  /\ \A o \in dev_list : Live(o) /\ (obj[o].ready \/ (ctl.obj = o /\ ctl.pc \in Adds))
  /\ ctl.pc = "tell" => ctl.obj \in dev_list

(* A call goes on with an object that is on the list: one that is assigned *)
(* or one of a device that the enclave knows.                              *)
HeldInv ==
  /\ lc.pc \in LcHolds => lc.obj \in dev_list /\ obj[lc.obj].name = lc.dev
  /\ lc.pc \in Unchecked => lc.op = lc.pc
  /\ lc.pc # "idle" /\ lc.op \in Unchecked => lc.dev \in known

(* A device that the enclave knows is on the list and ready; the enclave   *)
(* gives a device up before the device goes, and RESET tells it again of   *)
(* each.                                                                   *)
KnownInv ==
  /\ ctl.pc = "tell" => obj[ctl.obj].name = ctl.dev /\ obj[ctl.obj].ready
  /\ ctl.pc = "unlink" => ctl.dev \notin known
  /\ top.pc = "reset" => known = {}
  /\ top.pc = "readd" => \A o \in top.todo : obj[o].name \notin known
  /\ top.pc \in {"idle", "readd"} =>
       \A d \in known : \E o \in dev_list : obj[o].name = d /\ obj[o].ready

UseInv == DomainInv /\ ListedInv /\ HeldInv /\ KnownInv

(* An assigned device is attached, or a call is attaching or has just      *)
(* detached it.                                                            *)
HoldInv ==
  \A o \in Objs : obj[o].assigned =>
    (\E d \in Devs : attached[d] = o) \/ (lc.pc \in {"attach", "unassign"} /\ lc.obj = o)

(* A device that is ready is one Linux has.                                *)
BoundInv ==
  /\ \A o \in Objs : obj[o].ready => obj[o].bound
  /\ ctl.pc = "init" => obj[ctl.obj].bound

SoundInv == UseInv /\ HoldInv /\ BoundInv /\ top.pc # "oops"

(* What this layer reads of the objects.                                   *)
KeepHand == /\ dev_list' = dev_list
            /\ \A o \in Objs : /\ obj'[o].mem = obj[o].mem /\ obj'[o].name = obj[o].name
                               /\ obj'[o].ready = obj[o].ready

LEMMA KeptHand ==
  ASSUME KeepList
  PROVE  KeepHand
BY DEF KeepList, KeepHand, Same

LEMMA SameHand ==
  ASSUME UNCHANGED <<dev_list, obj>>
  PROVE  KeepHand
BY DEF KeepHand

LEMMA OneThread ==
  ASSUME DomainInv
  PROVE  /\ ctl.pc # "idle" => top.pc = "idle" /\ ctl.dev \in Devs
         /\ ctl.pc = "name" => obj[ctl.obj].name = ""
BY DEF DomainInv, CtlInv, Adds

(* What keeps the object of a call on the list.                            *)
LEMMA HeldFacts ==
  ASSUME UseInv, lc.pc \in LcHolds
  PROVE  /\ lc.obj \in Objs /\ lc.obj \in dev_list /\ obj[lc.obj].name = lc.dev
         /\ lc.dev \in Devs
         /\ obj[lc.obj].assigned \/ obj[lc.obj].name \in known
<1>d. DomainInv
  BY DEF UseInv
<1>1. lc.obj \in Objs /\ lc.dev \in Devs /\ (lc.pc \in Keeping => obj[lc.obj].assigned)
  BY <1>d, LcHolding
<1>2. lc.obj \in dev_list /\ obj[lc.obj].name = lc.dev
  BY DEF UseInv, HeldInv
<1>3. lc.pc \in Keeping \/ lc.pc \in Unchecked
  BY DEF LcHolds, CallOps, Keeping, Unchecked
<1>4. lc.pc \in Unchecked => lc.dev \in known
  BY DEF UseInv, HeldInv, Unchecked
<1> QED  BY <1>1, <1>2, <1>3, <1>4

LEMMA HeldReady ==
  ASSUME UseInv, lc.pc \in LcHolds, top.pc = "idle"
  PROVE  obj[lc.obj].ready
<1>d. DomainInv
  BY DEF UseInv
<1>1. CASE obj[lc.obj].assigned
  <2>1. ctl.pc \in Adds => ctl.obj # lc.obj
    BY <1>d, <1>1, CtlHolding
  <2> QED  BY <2>1, HeldFacts DEF UseInv, ListedInv
<1>2. CASE obj[lc.obj].name \in known
  <2>1. PICK o \in dev_list : obj[o].name = obj[lc.obj].name /\ obj[o].ready
    BY <1>2 DEF UseInv, KnownInv
  <2>2. o = lc.obj
    BY <1>d, <2>1, HeldFacts, NamesUnique
  <2> QED  BY <2>1, <2>2
<1> QED  BY <1>1, <1>2, HeldFacts

(* What stays when the step is another thread's.                           *)
LEMMA ListedKept ==
  ASSUME UseInv, KeepHand, UNCHANGED ctl \/ (ctl.pc \notin Adds /\ ctl'.pc # "tell")
  PROVE  ListedInv'
<1>1. dev_list \subseteq Objs
  BY TypeFacts DEF UseInv, DomainInv
<1>2. \A o \in dev_list' : Live(o)' /\ (obj'[o].ready \/ (ctl.obj = o /\ ctl.pc \in Adds))
  BY <1>1 DEF UseInv, ListedInv, KeepHand, Live
<1>3. UNCHANGED ctl => (ctl.pc = "tell" => ctl.obj \in dev_list')
  BY DEF UseInv, ListedInv, KeepHand
<1> QED  BY <1>2, <1>3 DEF ListedInv

LEMMA HeldStays ==
  ASSUME UseInv, UNCHANGED lc, lc.pc # "idle" /\ lc.op \in Unchecked => lc.dev \in known',
         lc.pc \in LcHolds => lc.obj \in dev_list' /\ obj'[lc.obj].name = obj[lc.obj].name
  PROVE  HeldInv'
BY DEF UseInv, HeldInv

LEMMA HeldKept ==
  ASSUME UseInv, KeepHand, UNCHANGED lc, known \subseteq known'
  PROVE  HeldInv'
<1>1. lc.pc \in LcHolds => lc.obj \in dev_list' /\ obj'[lc.obj].name = obj[lc.obj].name
  BY HeldFacts DEF KeepHand
<1>2. lc.pc # "idle" /\ lc.op \in Unchecked => lc.dev \in known'
  BY DEF UseInv, HeldInv
<1> QED  BY <1>1, <1>2, HeldStays

LEMMA KnownKept ==
  ASSUME UseInv, KeepHand, UNCHANGED known,
         UNCHANGED ctl \/ ctl'.pc \notin {"tell", "unlink"},
         top'.pc = "reset" => top.pc = "reset",
         top'.pc = "readd" => top.pc = "readd" /\ top'.todo \subseteq top.todo,
         top'.pc \in {"idle", "readd"} => top.pc \in {"idle", "readd"}
  PROVE  KnownInv'
<1>1. dev_list \subseteq Objs
  BY TypeFacts DEF UseInv, DomainInv
<1>2. UNCHANGED ctl => /\ ctl.pc = "tell" => obj'[ctl.obj].name = ctl.dev /\ obj'[ctl.obj].ready
                       /\ ctl.pc = "unlink" => ctl.dev \notin known
  <2>1. ctl.pc = "tell" => ctl.obj \in Objs
    BY <1>1 DEF UseInv, ListedInv
  <2> QED  BY <2>1 DEF UseInv, KnownInv, KeepHand
<1>3. top'.pc = "readd" => \A o \in top'.todo : obj'[o].name \notin known
  <2>1. top.pc = "readd" => top.todo \subseteq dev_list
    BY DEF UseInv, DomainInv, QuietInv
  <2>2. top.pc = "readd" => \A o \in top.todo : obj[o].name \notin known
    BY DEF UseInv, KnownInv
  <2>3. \A o \in dev_list : obj'[o].name = obj[o].name
    BY <1>1 DEF KeepHand
  <2> QED  BY <2>1, <2>2, <2>3
<1>4. ASSUME top'.pc \in {"idle", "readd"}, NEW d \in known
      PROVE  \E o \in dev_list' : obj'[o].name = d /\ obj'[o].ready
  <2>1. PICK o \in dev_list : obj[o].name = d /\ obj[o].ready
    BY <1>4 DEF UseInv, KnownInv
  <2> QED  BY <1>1, <2>1 DEF KeepHand
<1>5. top'.pc = "reset" => known = {}
  BY DEF UseInv, KnownInv
<1> QED  BY <1>2, <1>3, <1>4, <1>5 DEF KnownInv

(* A step that changes one object, which no call holds and of which the    *)
(* enclave does not know.                                                  *)
LEMMA KnownRest ==
  ASSUME UseInv, NEW p \in Objs, Rest(p), dev_list \ {p} \subseteq dev_list',
         UNCHANGED <<known, top>>, top.pc = "idle", ctl'.pc \notin {"tell", "unlink"},
         \A d \in known : obj[p].name = d => ~obj[p].ready
  PROVE  KnownInv'
<1>1. dev_list \subseteq Objs
  BY TypeFacts DEF UseInv, DomainInv
<1>2. ASSUME NEW d \in known
      PROVE  \E o \in dev_list' : obj'[o].name = d /\ obj'[o].ready
  <2>1. PICK o \in dev_list : obj[o].name = d /\ obj[o].ready
    BY <1>2 DEF UseInv, KnownInv
  <2>2. o # p
    BY <1>2, <2>1
  <2>3. o \in Objs /\ o \in dev_list'
    BY <1>1, <2>1, <2>2
  <2> QED  BY <2>1, <2>2, <2>3 DEF Rest
<1> QED  BY <1>2 DEF KnownInv

LEMMA HeldRest ==
  ASSUME UseInv, NEW p \in Objs, Rest(p), dev_list \ {p} \subseteq dev_list',
         UNCHANGED <<known, lc>>, lc.pc \in LcHolds => lc.obj # p
  PROVE  HeldInv'
<1>1. lc.pc \in LcHolds => lc.obj \in dev_list' /\ obj'[lc.obj].name = obj[lc.obj].name
  BY HeldFacts DEF Rest
<1>2. lc.pc # "idle" /\ lc.op \in Unchecked => lc.dev \in known'
  BY DEF UseInv, HeldInv
<1> QED  BY <1>1, <1>2, HeldStays

(* The commands.                                                           *)
LEMMA AddListUse ==
  ASSUME UseInv, DomainInv', Calm, NEW d \in Devs, AddList(d)
  PROVE  UseInv'
<1>d. DomainInv
  BY DEF UseInv
<1>1. ctl.pc = "idle" /\ top.pc = "idle"
  BY DEF AddList, CtrlOpen, Calm
<1>2. PICK p \in Objs : /\ UNCHANGED <<known, lc, top>> /\ Rest(p)
                        /\ dev_list' = dev_list \union {p} /\ p \notin dev_list /\ ~obj[p].ready
                        /\ obj'[p].mem = "live" /\ ctl'.pc = "name" /\ ctl'.obj = p
  BY <1>d, AddListDoes
<1>3. ListedInv'
  <2>1. \A o \in dev_list : o # p /\ obj'[o] = obj[o] /\ Live(o) /\ obj[o].ready
    BY <1>d, <1>1, <1>2, TypeFacts DEF UseInv, ListedInv, Adds, Rest, DomainInv
  <2> QED  BY <1>2, <2>1 DEF ListedInv, Live, Adds
<1>4. HeldInv'
  BY <1>2, HeldFacts, HeldRest
<1>5. KnownInv'
  BY <1>1, <1>2, KnownRest
<1> QED  BY <1>3, <1>4, <1>5 DEF UseInv

LEMMA AddNameUse ==
  ASSUME UseInv, DomainInv', AddName
  PROVE  UseInv'
<1>d. DomainInv
  BY DEF UseInv
<1>1. /\ ctl.pc = "name" /\ ctl.obj \in Objs /\ UNCHANGED <<dev_list, known, lc, top>>
      /\ Rest(ctl.obj) /\ obj'[ctl.obj].mem = obj[ctl.obj].mem
      /\ ctl'.pc \in {"init", "del"} /\ ctl'.obj = ctl.obj
  BY <1>d, AddNameDoes
<1>2. top.pc = "idle" /\ Live(ctl.obj) /\ ~obj[ctl.obj].ready /\ obj[ctl.obj].name = ""
  BY <1>d, <1>1, CtlHolding DEF Adds
<1>3. ListedInv'
  <2>1. \A o \in dev_list : o # ctl.obj => obj'[o] = obj[o] /\ Live(o) /\ obj[o].ready
    BY <1>d, <1>1, TypeFacts DEF UseInv, ListedInv, Rest, DomainInv
  <2> QED  BY <1>1, <1>2, <2>1 DEF ListedInv, Live, Adds
<1>4. HeldInv'
  BY <1>1, <1>2, HeldFacts, HeldRest, NullIsNone
<1>5. KnownInv'
  BY <1>1, <1>2, KnownRest
<1> QED  BY <1>3, <1>4, <1>5 DEF UseInv

LEMMA InitUse ==
  ASSUME UseInv, DomainInv', init_pci_dev
  PROVE  UseInv'
<1>d. DomainInv
  BY DEF UseInv
<1>1. /\ ctl.pc = "init" /\ ctl.obj \in Objs /\ UNCHANGED <<dev_list, known, lc, top>>
      /\ ctl'.obj = ctl.obj /\ ctl'.dev = ctl.dev
  BY <1>d, InitDoes
<1>2. /\ top.pc = "idle" /\ Live(ctl.obj) /\ ~obj[ctl.obj].ready
      /\ ctl.obj \in dev_list /\ obj[ctl.obj].name = ctl.dev
  BY <1>d, <1>1, CtlHolding DEF Adds
<1>3. \A o \in dev_list : o # ctl.obj => Live(o) /\ obj[o].ready
  BY DEF UseInv, ListedInv
<1>4. CASE ctl'.pc = "del" /\ UNCHANGED obj
  <2>1. ListedInv'
    BY <1>1, <1>2, <1>3, <1>4 DEF ListedInv, Live, Adds
  <2>2. HeldInv'
    BY <1>1, <1>4, SameHand, HeldKept
  <2>3. KnownInv'
    BY <1>1, <1>2, <1>4, SameHand, KnownKept
  <2> QED  BY <2>1, <2>2, <2>3 DEF UseInv
<1>5. CASE /\ ctl'.pc = "tell" /\ Rest(ctl.obj)
           /\ obj'[ctl.obj].mem = obj[ctl.obj].mem /\ obj'[ctl.obj].name = obj[ctl.obj].name
           /\ obj'[ctl.obj].ready
  <2>1. \A o \in Objs : obj'[o].mem = obj[o].mem /\ obj'[o].name = obj[o].name
    BY <1>5 DEF Rest
  <2>2. \A o \in dev_list : Live(o)' /\ obj'[o].ready
    BY <1>d, <1>2, <1>3, <1>5, <2>1, TypeFacts DEF DomainInv, Live, Rest
  <2>3. ListedInv'
    BY <1>1, <1>2, <1>5, <2>2 DEF ListedInv
  <2>4. HeldInv'
    <3>1. lc.pc \in LcHolds => lc.obj \in dev_list' /\ obj'[lc.obj].name = obj[lc.obj].name
      BY <1>1, <2>1, HeldFacts
    <3>2. lc.pc # "idle" /\ lc.op \in Unchecked => lc.dev \in known'
      BY <1>1 DEF UseInv, HeldInv
    <3> QED  BY <1>1, <3>1, <3>2, HeldStays
  <2>5. KnownInv'
    <3>1. ASSUME NEW d \in known
          PROVE  \E o \in dev_list' : obj'[o].name = d /\ obj'[o].ready
      <4>1. PICK o \in dev_list : obj[o].name = d
        BY <1>2, <3>1 DEF UseInv, KnownInv
      <4>2. o \in Objs
        BY <1>d, TypeFacts DEF DomainInv
      <4> QED  BY <1>1, <2>1, <2>2, <4>1, <4>2
    <3> QED  BY <1>1, <1>2, <1>5, <3>1 DEF KnownInv
  <2> QED  BY <2>3, <2>4, <2>5 DEF UseInv
<1> QED  BY <1>d, <1>4, <1>5, InitDoes

LEMMA AddFailedUse ==
  ASSUME UseInv, DomainInv', AddFailed
  PROVE  UseInv'
<1>d. DomainInv
  BY DEF UseInv
<1>1. /\ ctl.pc = "del" /\ ctl.obj \in Objs /\ UNCHANGED <<known, lc, top>>
      /\ dev_list' = dev_list \ {ctl.obj} /\ Rest(ctl.obj) /\ ctl'.pc = "idle"
  BY <1>d, AddFailedDoes
<1>2. top.pc = "idle" /\ ~obj[ctl.obj].ready
  BY <1>d, <1>1, CtlHolding DEF Adds
<1>3. ListedInv'
  <2>1. \A o \in dev_list' : obj'[o] = obj[o] /\ Live(o) /\ obj[o].ready
    BY <1>d, <1>1, TypeFacts DEF UseInv, ListedInv, Rest, DomainInv
  <2> QED  BY <1>1, <2>1 DEF ListedInv, Live
<1>4. HeldInv'
  BY <1>1, <1>2, HeldReady, HeldRest
<1>5. KnownInv'
  BY <1>1, <1>2, KnownRest
<1> QED  BY <1>3, <1>4, <1>5 DEF UseInv

LEMMA RemoveUse ==
  ASSUME UseInv, DomainInv', enclave_pci_remove_dev
  PROVE  UseInv'
<1>d. DomainInv
  BY DEF UseInv
<1>1. ctl.pc = "unlink" /\ UNCHANGED <<known, lc, top>>
  BY <1>d, RemoveDoes
<1>2. top.pc = "idle" /\ ctl.dev \notin known
  BY <1>d, <1>1, OneThread DEF UseInv, KnownInv
<1>3. CASE ctl'.pc = "idle" /\ UNCHANGED <<dev_list, obj>>
  <2>1. ListedInv'
    BY <1>1, <1>3, SameHand, ListedKept DEF Adds
  <2>2. HeldInv'
    BY <1>1, <1>3, SameHand, HeldKept
  <2>3. KnownInv'
    BY <1>1, <1>2, <1>3, SameHand, KnownKept
  <2> QED  BY <2>1, <2>2, <2>3 DEF UseInv
<1>4. ASSUME NEW p \in dev_list, p \in Objs, obj[p].name = ctl.dev, ~obj[p].assigned,
             dev_list' = dev_list \ {p}, Rest(p), ctl'.pc = "deinit"
      PROVE  UseInv'
  <2>1. \A o \in dev_list' : obj'[o] = obj[o] /\ Live(o) /\ obj[o].ready
    BY <1>d, <1>1, <1>4, TypeFacts DEF UseInv, ListedInv, Rest, DomainInv, Adds
  <2>2. ListedInv'
    BY <1>4, <2>1 DEF ListedInv, Live
  <2>3. HeldInv'
    BY <1>1, <1>2, <1>4, HeldFacts, HeldRest
  <2>4. KnownInv'
    BY <1>1, <1>2, <1>4, KnownRest
  <2> QED  BY <2>2, <2>3, <2>4 DEF UseInv
<1> QED  BY <1>d, <1>3, <1>4, RemoveDoes

LEMMA RemoveDeinitUse ==
  ASSUME UseInv, DomainInv', RemoveDeinit
  PROVE  UseInv'
<1>d. DomainInv
  BY DEF UseInv
<1>1. /\ ctl.pc = "deinit" /\ ctl.obj \in Objs /\ UNCHANGED <<dev_list, known, lc, top>>
      /\ Rest(ctl.obj) /\ ctl'.pc = "idle"
  BY <1>d, RemoveDeinitDoes
<1>2. top.pc = "idle" /\ ctl.obj \notin dev_list /\ ~obj[ctl.obj].ready
  BY <1>d, <1>1, CtlHolding DEF Adds
<1>3. ListedInv'
  <2>1. \A o \in dev_list' : obj'[o] = obj[o] /\ Live(o) /\ obj[o].ready
    BY <1>d, <1>1, <1>2, TypeFacts DEF UseInv, ListedInv, Rest, DomainInv, Adds
  <2> QED  BY <1>1, <2>1 DEF ListedInv, Live
<1>4. HeldInv'
  BY <1>1, <1>2, HeldFacts, HeldRest
<1>5. KnownInv'
  BY <1>1, <1>2, KnownRest
<1> QED  BY <1>3, <1>4, <1>5 DEF UseInv

LEMMA TellUse ==
  ASSUME UseInv, DomainInv', ctrl_add_pci
  PROVE  UseInv'
<1>d. DomainInv
  BY DEF UseInv
<1>1. /\ ctl.pc = "tell" /\ known' = known \union {ctl.dev} /\ ctl'.pc = "answer"
      /\ UNCHANGED <<dev_list, obj, lc, top>>
  BY <1>d, TypeFacts, Goes DEF ctrl_add_pci, list, DomainInv, Places
<1>2. /\ top.pc = "idle" /\ ctl.obj \in dev_list
      /\ obj[ctl.obj].name = ctl.dev /\ obj[ctl.obj].ready
  BY <1>d, <1>1, OneThread DEF UseInv, KnownInv, ListedInv
<1>3. ListedInv'
  BY <1>1, SameHand, ListedKept DEF Adds
<1>4. HeldInv'
  BY <1>1, SameHand, HeldKept
<1>5. KnownInv'
  <2>1. \A d \in known' : \E o \in dev_list' : obj'[o].name = d /\ obj'[o].ready
    BY <1>1, <1>2 DEF UseInv, KnownInv
  <2> QED  BY <1>1, <1>2, <2>1 DEF KnownInv
<1> QED  BY <1>3, <1>4, <1>5 DEF UseInv

LEMMA AnswerUse ==
  ASSUME UseInv, DomainInv', EnclaveKeeps \/ \E d \in Devs : FreeDev(d)
  PROVE  UseInv'
<1>1. ctl.pc \in {"answer", "idle"} /\ ctl'.pc \in {"answer", "idle"}
      /\ UNCHANGED <<dev_list, obj, known, lc, top>>
  BY IdleThread DEF EnclaveKeeps, FreeDev, CtrlOpen, list, encl
<1>3. ListedInv'
  BY <1>1, SameHand, ListedKept DEF Adds
<1>4. HeldInv'
  BY <1>1, SameHand, HeldKept
<1>5. KnownInv'
  BY <1>1, SameHand, KnownKept
<1> QED  BY <1>3, <1>4, <1>5 DEF UseInv

(* A tidy enclave does not give a device up that a call of its own, one    *)
(* that does not ask whether the device is assigned, goes on with.         *)
LEMMA GiveUpUse ==
  ASSUME UseInv, DomainInv', Tidy, EnclaveGivesUp
  PROVE  UseInv'
<1>d. DomainInv
  BY DEF UseInv
<1>1. /\ ctl.pc = "answer" /\ known' = known \ {ctl.dev}
      /\ ctl'.pc = "unlink" /\ ctl'.dev = ctl.dev /\ UNCHANGED <<dev_list, obj, lc, top>>
      /\ ~(lc.dev = ctl.dev /\ lc.op \in Unchecked)
  BY <1>d, TypeFacts, Goes DEF EnclaveGivesUp, list, DomainInv, Places, Tidy
<1>2. top.pc = "idle"
  BY <1>d, <1>1, OneThread
<1>3. ListedInv'
  BY <1>1, SameHand, ListedKept DEF Adds
<1>4. HeldInv'
  <2>1. lc.pc \in LcHolds => lc.obj \in dev_list' /\ obj'[lc.obj].name = obj[lc.obj].name
    BY <1>1, HeldFacts
  <2>2. lc.pc # "idle" /\ lc.op \in Unchecked => lc.dev \in known'
    BY <1>1 DEF UseInv, HeldInv
  <2> QED  BY <1>1, <2>1, <2>2, HeldStays
<1>5. KnownInv'
  <2>1. \A d \in known' : \E o \in dev_list' : obj'[o].name = d /\ obj'[o].ready
    BY <1>1, <1>2 DEF UseInv, KnownInv
  <2> QED  BY <1>1, <1>2, <2>1 DEF KnownInv
<1> QED  BY <1>3, <1>4, <1>5 DEF UseInv

(* The long calls and the interrupts.                                      *)
LEMMA LcUse ==
  ASSUME UseInv, DomainInv', KeepHand, UNCHANGED <<ctl, known, top>>, HeldInv'
  PROVE  UseInv'
<1>1. ListedInv'
  BY ListedKept
<1>2. KnownInv'
  BY KnownKept
<1> QED  BY <1>1, <1>2 DEF UseInv

(* A call that goes to its end.                                            *)
LEMMA LcEndsUse ==
  ASSUME UseInv, DomainInv', KeepHand, UNCHANGED <<ctl, known, top>>, lc.pc # "idle",
         lc'.pc = "idle" \/ (lc'.pc = "resp" /\ lc'.op = lc.op /\ lc'.dev = lc.dev)
  PROVE  UseInv'
<1>1. lc'.pc \notin LcHolds \union Unchecked
  BY DEF LcHolds, CallOps, Unchecked
<1>2. HeldInv'
  BY <1>1 DEF UseInv, HeldInv
<1> QED  BY <1>2, LcUse

(* A call that goes on with its object.                                    *)
LEMMA LcGoesUse ==
  ASSUME UseInv, DomainInv', KeepHand, UNCHANGED <<ctl, known, top>>,
         lc.pc \in LcHolds, lc'.pc \in {"request", "unassign"},
         lc'.op = lc.op, lc'.dev = lc.dev, lc'.obj = lc.obj
  PROVE  UseInv'
<1>1. lc'.pc \notin Unchecked /\ lc.pc # "idle"
  BY DEF LcHolds, CallOps, Unchecked
<1>2. lc.obj \in dev_list' /\ obj'[lc.obj].name = lc.dev
  BY HeldFacts DEF KeepHand
<1>3. HeldInv'
  BY <1>1, <1>2 DEF UseInv, HeldInv
<1> QED  BY <1>3, LcUse

LEMMA CallUse ==
  ASSUME UseInv, DomainInv', NEW op \in CallOps, NEW d \in Devs, Call(op, d)
  PROVE  UseInv'
<1>1. /\ UNCHANGED <<dev_list, obj, known, ctl, top>> /\ d \in known
      /\ lc'.pc = "find" /\ lc'.dev = d
  BY DEF Call, list
<1>2. HeldInv'
  BY <1>1 DEF HeldInv, LcHolds, CallOps, Unchecked
<1> QED  BY <1>1, <1>2, SameHand, LcUse

LEMMA LookupUse ==
  ASSUME UseInv, DomainInv', Lookup
  PROVE  UseInv'
<1>d. DomainInv
  BY DEF UseInv
<1>1. /\ lc.pc = "find" /\ UNCHANGED <<dev_list, known, ctl, top>>
      /\ lc'.op = lc.op /\ lc'.dev = lc.dev
  BY <1>d, LookupDoes
<1>2. CASE lc'.pc = "resp" /\ UNCHANGED obj
  BY <1>1, <1>2, SameHand, LcEndsUse
<1>3. ASSUME NEW p \in dev_list, p \in Objs, obj[p].name = lc.dev, lc'.pc = lc.op, lc'.obj = p,
             \/ /\ Rest(p)
                /\ obj'[p].mem = obj[p].mem /\ obj'[p].name = obj[p].name
                /\ obj'[p].ready = obj[p].ready
             \/ UNCHANGED obj
      PROVE  UseInv'
  <2>1. KeepHand
    BY <1>1, <1>3 DEF KeepHand, Rest
  <2>2. p \in dev_list' /\ obj'[p].name = lc.dev
    BY <1>3, <2>1 DEF KeepHand
  <2>3. HeldInv'
    BY <1>1, <1>3, <2>2 DEF UseInv, HeldInv
  <2> QED  BY <1>1, <2>1, <2>3, LcUse
<1> QED  BY <1>d, <1>2, <1>3, LookupDoes

LEMMA AttachUse ==
  ASSUME UseInv, DomainInv', enclave_pci_attach \/ enclave_pci_detach
  PROVE  UseInv'
<1>d. DomainInv
  BY DEF UseInv
<1>1. CASE enclave_pci_attach
  <2>1. /\ lc.pc = "attach" /\ KeepHand /\ UNCHANGED <<known, ctl, top>>
        /\ \/ lc'.pc = "request" /\ lc'.op = lc.op /\ lc'.dev = lc.dev /\ lc'.obj = lc.obj
           \/ lc'.pc = "idle"
    BY <1>d, <1>1, AttachDoes, IdleThread, KeptHand
  <2> QED  BY <2>1, LcGoesUse, LcEndsUse DEF LcHolds, CallOps
<1>2. CASE enclave_pci_detach
  <2>1. /\ lc.pc = "detach" /\ KeepHand /\ UNCHANGED <<known, ctl, top>>
        /\ lc'.pc = "unassign" /\ lc'.op = lc.op /\ lc'.dev = lc.dev /\ lc'.obj = lc.obj
    BY <1>d, <1>2, DetachDoes, KeptHand
  <2> QED  BY <2>1, LcGoesUse DEF LcHolds, CallOps
<1> QED  BY <1>1, <1>2

LEMMA LcLastUse ==
  ASSUME UseInv, DomainInv',
         \/ Unassign \/ EnableIntx \/ DisableIntx
         \/ enclave_pci_iommu_map \/ enclave_pci_ack_irq \/ send_resp
  PROVE  UseInv'
<1>d. DomainInv
  BY DEF UseInv
<1>1. CASE Unassign
  <2>1. /\ lc.pc = "unassign" /\ UNCHANGED <<dev_list, known, ctl, top>>
        /\ lc'.pc = "resp" /\ lc'.op = lc.op /\ lc'.dev = lc.dev
    BY <1>d, <1>1, UnassignDoes
  <2>2. KeepHand
    BY <1>d, <1>1, UnassignDoes DEF KeepHand, Rest
  <2> QED  BY <2>1, <2>2, LcEndsUse
<1>2. CASE EnableIntx \/ DisableIntx
  <2>1. /\ lc.pc # "idle" /\ KeepHand /\ UNCHANGED <<known, ctl, top>>
        /\ lc'.pc = "resp" /\ lc'.op = lc.op /\ lc'.dev = lc.dev
    BY <1>d, <1>2, EnableDoes, DisableDoes, KeptHand
  <2> QED  BY <2>1, LcEndsUse
<1>3. CASE enclave_pci_iommu_map \/ enclave_pci_ack_irq
  <2>1. /\ lc.pc # "idle" /\ UNCHANGED <<dev_list, obj, known, ctl, top>>
        /\ lc' = [lc EXCEPT !.pc = "resp"]
    BY <1>3 DEF enclave_pci_iommu_map, enclave_pci_ack_irq, list, encl
  <2>2. lc'.pc = "resp" /\ lc'.op = lc.op /\ lc'.dev = lc.dev
    BY <1>d, <2>1, TypeFacts, Goes DEF DomainInv, Places
  <2> QED  BY <2>1, <2>2, SameHand, LcEndsUse
<1>4. CASE send_resp
  <2>1. /\ lc.pc # "idle" /\ UNCHANGED <<dev_list, obj, known, ctl, top>> /\ lc'.pc = "idle"
    BY <1>4, IdleThread DEF send_resp, list
  <2> QED  BY <2>1, SameHand, LcEndsUse
<1> QED  BY <1>1, <1>2, <1>3, <1>4

LEMMA IrqUse ==
  ASSUME UseInv, DomainInv', UNCHANGED <<dev_list, obj, known, ctl, lc, top>>
  PROVE  UseInv'
<1>1. KeepHand
  BY SameHand
<1>2. HeldInv'
  BY <1>1, HeldKept
<1> QED  BY <1>1, <1>2, LcUse

(* RESET and FREE.                                                         *)
LEMMA StopUse ==
  ASSUME UseInv, DomainInv', Calm, ResetStop \/ FreeEnclave
  PROVE  UseInv'
<1>d. DomainInv
  BY DEF UseInv
<1>1. Orderly /\ UNCHANGED <<dev_list, obj, ctl, lc>>
  BY DEF ResetStop, FreeEnclave, list
<1>2. lc.pc = "idle" /\ ctl.pc = "idle"
  BY <1>1 DEF Orderly, Calm
<1>3. top'.pc = "deinit" \/ (top'.pc = "reset" /\ known' = {})
  BY <1>d, TypeFacts, TopGoes DEF ResetStop, FreeEnclave, DomainInv
<1>4. ListedInv'
  BY <1>1, SameHand, ListedKept
<1>5. HeldInv'
  BY <1>1, <1>2 DEF HeldInv, LcHolds, CallOps, Unchecked
<1>6. KnownInv'
  BY <1>1, <1>2, <1>3 DEF KnownInv
<1> QED  BY <1>4, <1>5, <1>6 DEF UseInv

LEMMA ResetUse ==
  ASSUME UseInv, DomainInv', Tame, reset_enclave_pci
  PROVE  UseInv'
<1>d. DomainInv
  BY DEF UseInv
<1>1. top.pc = "reset" /\ lc.pc = "idle" /\ UNCHANGED <<dev_list, known, ctl, lc>>
  BY <1>d, ResetDoes
<1>2. ctl.pc = "idle" /\ known = {}
  BY <1>d, <1>1, OneThread DEF UseInv, KnownInv
<1>3. \A o \in dev_list : o \in Objs /\ Live(o) /\ obj[o].ready
  BY <1>d, <1>2, TypeFacts DEF UseInv, ListedInv, Adds, DomainInv
<1>4. \A o \in dev_list : obj'[o].mem = obj[o].mem /\ obj'[o].ready
  <2>1. CASE UNCHANGED obj
    BY <1>3, <2>1
  <2>2. ASSUME NEW bad, bad = {},
               \A o \in Objs : /\ obj'[o].mem = obj[o].mem
                               /\ obj'[o].ready = IF o \in dev_list THEN o \notin bad
                                                  ELSE obj[o].ready
        PROVE  \A o \in dev_list : obj'[o].mem = obj[o].mem /\ obj'[o].ready
    BY <1>3, <2>2
  <2> QED  BY <1>d, <2>1, <2>2, ResetDoes DEF Tame
<1>5. ListedInv'
  BY <1>1, <1>2, <1>3, <1>4 DEF ListedInv, Live
<1>6. HeldInv'
  BY <1>1 DEF HeldInv, LcHolds, CallOps, Unchecked
<1>7. KnownInv'
  BY <1>1, <1>2 DEF KnownInv
<1> QED  BY <1>5, <1>6, <1>7 DEF UseInv

LEMMA ReaddUse ==
  ASSUME UseInv, DomainInv', NEW p \in Objs, ReaddDev(p)
  PROVE  UseInv'
<1>d. DomainInv
  BY DEF UseInv
<1>1. /\ top.pc = "readd" /\ p \in top.todo /\ known' = known \union {obj[p].name}
      /\ UNCHANGED <<dev_list, obj, ctl, lc>>
      /\ top'.pc = "readd" /\ top'.todo = top.todo \ {p}
  BY <1>d, TypeFacts, TopTells DEF ReaddDev, list, DomainInv
<1>2. ctl.pc = "idle" /\ top.todo \subseteq dev_list
  BY <1>d, <1>1, OneThread DEF DomainInv, QuietInv
<1>3. obj[p].ready
  BY <1>1, <1>2 DEF UseInv, ListedInv, Adds
<1>4. ListedInv'
  BY <1>1, SameHand, ListedKept
<1>5. HeldInv'
  BY <1>1, SameHand, HeldKept
<1>6. KnownInv'
  <2>1. ASSUME NEW o \in top'.todo PROVE obj'[o].name \notin known'
    <3>1. o # p /\ o \in dev_list /\ p \in dev_list /\ obj[o].name \notin known
      BY <1>1, <1>2, <2>1 DEF UseInv, KnownInv
    <3>2. obj[o].name # obj[p].name
      BY <1>d, <3>1, NamesUnique
    <3> QED  BY <1>1, <3>1, <3>2
  <2>2. \A d \in known' : \E o \in dev_list' : obj'[o].name = d /\ obj'[o].ready
    BY <1>1, <1>2, <1>3 DEF UseInv, KnownInv
  <2> QED  BY <1>1, <1>2, <2>1, <2>2 DEF KnownInv
<1> QED  BY <1>4, <1>5, <1>6 DEF UseInv

LEMMA RefusedUse ==
  ASSUME UseInv, DomainInv', NEW p \in Objs, ReaddRefused(p)
  PROVE  UseInv'
<1>d. DomainInv
  BY DEF UseInv
<1>1. top.pc = "readd" /\ p \in top.todo /\ UNCHANGED <<known, ctl, lc>>
  BY <1>d, ReaddRefusedDoes
<1>2. ctl.pc = "idle" /\ obj[p].name \notin known
  BY <1>d, <1>1, OneThread DEF UseInv, KnownInv
<1>3. CASE /\ ~obj[p].assigned /\ Freed(p) /\ dev_list' = dev_list \ {p}
           /\ top'.pc = "oops"
  <2>1. Rest(p)
    BY <1>3 DEF Freed
  <2>2. \A o \in dev_list' : obj'[o] = obj[o] /\ Live(o) /\ obj[o].ready
    BY <1>d, <1>2, <1>3, <2>1, TypeFacts DEF UseInv, ListedInv, Rest, DomainInv, Adds
  <2>3. ListedInv'
    BY <1>1, <1>2, <2>2 DEF ListedInv, Live
  <2>4. HeldInv'
    BY <1>1, <1>2, <1>3, <2>1, HeldFacts, HeldRest
  <2>5. KnownInv'
    BY <1>1, <1>2, <1>3 DEF KnownInv
  <2> QED  BY <2>3, <2>4, <2>5 DEF UseInv
<1>4. CASE UNCHANGED <<obj, dev_list>> /\ top'.pc = "readd" /\ top'.todo = top.todo \ {p}
  <2>1. KnownInv'
    BY <1>1, <1>4, SameHand, KnownKept
  <2> QED  BY <1>1, <1>4, <2>1, SameHand, ListedKept, HeldKept DEF UseInv
<1> QED  BY <1>d, <1>3, <1>4, ReaddRefusedDoes

LEMMA ResetEndUse ==
  ASSUME UseInv, DomainInv', ResetEnd
  PROVE  UseInv'
<1>1. top.pc = "readd" /\ top'.pc = "idle" /\ UNCHANGED <<dev_list, obj, known, ctl, lc>>
  BY DEF ResetEnd, list, encl
<1>2. KnownInv'
  BY <1>1, SameHand, KnownKept
<1> QED  BY <1>1, <1>2, SameHand, ListedKept, HeldKept DEF UseInv

(* What is assigned.                                                       *)
LEMMA NoneHeld ==
  ASSUME DomainInv, HoldInv, lc.pc = "idle", \A d \in Devs : attached[d] = Null
  PROVE  \A o \in Objs : ~obj[o].assigned
BY NullIsNone DEF HoldInv

LEMMA HoldKept ==
  ASSUME HoldInv, \A o \in Objs : obj'[o].assigned => obj[o].assigned,
         \A d \in Devs : attached[d] # Null => attached'[d] = attached[d],
         UNCHANGED lc \/ lc.pc \notin {"attach", "unassign"}
  PROVE  HoldInv'
BY NullIsNone DEF HoldInv

LEMMA HoldCommand ==
  ASSUME DomainInv, HoldInv, Ctrl \/ \E d \in Devs : AddList(d) \/ FreeDev(d)
  PROVE  HoldInv'
<1>1. CASE \E d \in Devs : AddList(d)
  <2>1. PICK d \in Devs : AddList(d)
    BY <1>1
  <2>2. PICK p \in Objs : UNCHANGED <<attached, lc>> /\ Rest(p) /\ ~obj'[p].assigned
    BY <2>1, AddListDoes
  <2> QED  BY <2>2, HoldKept DEF Rest
<1>2. CASE AddName \/ init_pci_dev
  <2>1. /\ UNCHANGED <<attached, lc>>
        /\ \A o \in Objs : obj'[o].assigned = obj[o].assigned
    BY <1>2, AddNameDoes, InitDoes DEF Rest
  <2> QED  BY <2>1, HoldKept
<1>3. CASE AddFailed
  <2>1. UNCHANGED <<attached, lc>> /\ Rest(ctl.obj) /\ ~obj'[ctl.obj].assigned
    BY <1>3, AddFailedDoes
  <2> QED  BY <2>1, HoldKept DEF Rest
<1>4. CASE enclave_pci_remove_dev
  <2>1. UNCHANGED <<attached, lc>> /\ \A o \in Objs : obj'[o].assigned => obj[o].assigned
    BY <1>4, RemoveDoes DEF Rest
  <2> QED  BY <2>1, HoldKept
<1>5. CASE RemoveDeinit
  <2>1. /\ ctl.obj \in Objs /\ ~obj[ctl.obj].assigned /\ UNCHANGED lc /\ Rest(ctl.obj)
        /\ ~obj'[ctl.obj].assigned
        /\ \A d \in Devs : attached'[d] = IF attached[d] = ctl.obj THEN Null ELSE attached[d]
    BY <1>5, RemoveDeinitDoes, CtlHolding
  <2>2. \A d \in Devs : attached[d] # Null => attached[d] # ctl.obj
    BY <2>1, AttachedFacts
  <2> QED  BY <2>1, <2>2, HoldKept DEF Rest
<1>6. CASE ctrl_add_pci \/ EnclaveKeeps \/ EnclaveGivesUp \/ \E d \in Devs : FreeDev(d)
  <2>1. UNCHANGED <<obj, attached, lc>>
    BY <1>6 DEF ctrl_add_pci, EnclaveKeeps, EnclaveGivesUp, FreeDev, hw
  <2> QED  BY <2>1, HoldKept
<1> QED  BY <1>1, <1>2, <1>3, <1>4, <1>5, <1>6 DEF Ctrl

LEMMA HoldAttach ==
  ASSUME DomainInv, HoldInv, Tame, enclave_pci_attach
  PROVE  HoldInv'
<1>1. lc.pc = "attach" /\ KeepList /\ lc.dev \in Devs /\ lc.obj \in Objs
      /\ obj[lc.obj].name = lc.dev /\ obj[lc.obj].assigned
  BY AttachDoes, LcHolding DEF LcHolds, CallOps, Keeping
<1>2. "attach" \notin Faults
  BY DEF Tame
<1>3. \A d \in Devs : attached'[d] = IF d = lc.dev THEN lc.obj ELSE attached[d]
  <2>1. attached \in Owner
    BY TypeFacts DEF DomainInv
  <2> QED  BY <1>2, <2>1 DEF enclave_pci_attach, Owner
<1>4. attached[lc.dev] # Null => attached[lc.dev] = lc.obj
  <2>1. ASSUME attached[lc.dev] # Null PROVE attached[lc.dev] = lc.obj
    <3>1. /\ attached[lc.dev] \in Objs /\ obj[attached[lc.dev]].name = lc.dev
          /\ obj[attached[lc.dev]].assigned
      BY <1>1, <2>1, AttachedFacts
    <3>2. attached[lc.dev] \in dev_list /\ lc.obj \in dev_list
      BY <1>1, <3>1, ObjFacts
    <3> QED  BY <1>1, <3>1, <3>2, NamesUnique
  <2> QED  BY <2>1
<1>5. ASSUME NEW o \in Objs, obj'[o].assigned
      PROVE  \E d \in Devs : attached'[d] = o
  <2>1. obj[o].assigned
    BY <1>1, <1>5 DEF KeepList, Same
  <2>2. o = lc.obj \/ \E d \in Devs : attached[d] = o
    BY <2>1 DEF HoldInv
  <2> QED  BY <1>1, <1>3, <1>4, <2>2, <1>5, NullIsNone
<1> QED  BY <1>5 DEF HoldInv

LEMMA HoldCall ==
  ASSUME DomainInv, HoldInv, Tame, Lcall
  PROVE  HoldInv'
<1>1. CASE Lookup
  <2>1. lc.pc = "find" /\ UNCHANGED attached
    BY <1>1, LookupDoes
  <2>2. \A o \in Objs : obj'[o].assigned => obj[o].assigned \/ (lc'.pc = "attach" /\ lc'.obj = o)
    BY <1>1, LookupDoes DEF Rest
  <2> QED  BY <2>1, <2>2 DEF HoldInv
<1>2. CASE enclave_pci_attach
  BY <1>2, HoldAttach
<1>3. CASE EnableIntx \/ DisableIntx
  <2>1. KeepList /\ UNCHANGED attached /\ lc.pc \notin {"attach", "unassign"}
    BY <1>3, EnableDoes, DisableDoes
  <2> QED  BY <2>1, HoldKept DEF KeepList, Same
<1>4. CASE enclave_pci_detach
  <2>1. /\ KeepList /\ lc.pc = "detach" /\ lc'.pc = "unassign" /\ lc'.obj = lc.obj
        /\ \A d \in Devs : attached'[d] = IF attached[d] = lc.obj THEN Null ELSE attached[d]
    BY <1>4, DetachDoes
  <2> QED  BY <2>1 DEF HoldInv, KeepList, Same
<1>5. CASE Unassign
  <2>1. lc.pc = "unassign" /\ UNCHANGED attached /\ Rest(lc.obj) /\ ~obj'[lc.obj].assigned
    BY <1>5, UnassignDoes
  <2> QED  BY <2>1 DEF HoldInv, Rest
<1>6. CASE enclave_pci_iommu_map \/ enclave_pci_ack_irq \/ send_resp
  <2>1. UNCHANGED <<obj, attached>> /\ lc.pc \notin {"attach", "unassign"}
    BY <1>6 DEF enclave_pci_iommu_map, enclave_pci_ack_irq, send_resp, hw
  <2> QED  BY <2>1, HoldKept
<1> QED  BY <1>1, <1>2, <1>3, <1>4, <1>5, <1>6 DEF Lcall

LEMMA HoldTeardown ==
  ASSUME DomainInv, HoldInv, Tame, Teardown
  PROVE  HoldInv'
<1>1. CASE ResetStop \/ ResetEnd \/ FreeEnclave \/ \E o \in Objs : ReaddDev(o)
  <2>1. UNCHANGED <<obj, attached, lc>>
    BY <1>1 DEF ResetStop, ResetEnd, FreeEnclave, ReaddDev, hw
  <2> QED  BY <2>1, HoldKept
<1>2. CASE reset_enclave_pci
  <2>1. \A o \in Objs : ~obj[o].assigned
    BY <1>2, ResetDoes, NoneHeld DEF DomainInv, QuietInv
  <2>2. \A o \in Objs : obj'[o].assigned = obj[o].assigned
    BY <1>2, ResetDoes
  <2> QED  BY <2>1, <2>2 DEF HoldInv
<1>3. CASE deinit_enclave_pci
  <2>1. \A o \in Objs : ~obj[o].assigned
    BY <1>3, DeinitDoes, NoneHeld DEF DomainInv, QuietInv
  <2>2. \A o \in Objs : obj'[o].assigned = obj[o].assigned
    BY <1>3, DeinitDoes DEF Freed, Rest
  <2> QED  BY <2>1, <2>2 DEF HoldInv
<1>4. ASSUME NEW o \in Objs, ReaddRefused(o) PROVE FALSE
  BY <1>4 DEF ReaddRefused, Tame
<1> QED  BY <1>1, <1>2, <1>3, <1>4 DEF Teardown

LEMMA HoldStep ==
  ASSUME DomainInv, HoldInv, Tame, [Next]_vars
  PROVE  HoldInv'
<1>1. CASE \E d \in Devs, op \in CallOps : Call(op, d)
  <2>1. UNCHANGED <<obj, attached>> /\ lc.pc = "idle"
    BY <1>1 DEF Call, hw
  <2> QED  BY <2>1, HoldKept
<1>2. CASE (\E d \in Devs : host_pci_intx_irq_handler(d)) \/ UNCHANGED vars
  <2>1. UNCHANGED <<obj, attached, lc>>
    BY <1>2 DEF host_pci_intx_irq_handler, vars
  <2> QED  BY <2>1, HoldKept
<1> QED  BY <1>1, <1>2, HoldCommand, HoldCall, HoldTeardown DEF Next

-----------------------------------------------------------------------------
(* Where Linux has a device.                                               *)
LEMMA BoundRest ==
  ASSUME BoundInv, NEW p \in Objs, Rest(p), obj'[p].ready => obj'[p].bound,
         ctl'.pc = "init" => obj'[ctl'.obj].bound
  PROVE  BoundInv'
BY DEF BoundInv, Rest

LEMMA BoundSame ==
  ASSUME BoundInv, UNCHANGED obj, ctl'.pc = "init" => UNCHANGED ctl
  PROVE  BoundInv'
BY DEF BoundInv

LEMMA BoundCommand ==
  ASSUME DomainInv, BoundInv, Ctrl \/ \E d \in Devs : AddList(d) \/ FreeDev(d)
  PROVE  BoundInv'
<1>1. CASE \E d \in Devs : AddList(d)
  BY <1>1, AddListDoes, BoundRest
<1>2. CASE AddName
  <2>1. ctl.obj \in Objs /\ Rest(ctl.obj) /\ ~obj'[ctl.obj].ready /\ ctl'.obj = ctl.obj
    BY <1>2, AddNameDoes, CtlHolding DEF Adds
  <2>2. ctl'.pc = "init" => obj'[ctl.obj].bound
    <3>1. obj \in [Objs -> DevObj] /\ ctl \in Thread
      BY TypeFacts DEF DomainInv
    <3>2. CASE ctl' = [ctl EXCEPT !.pc = "del"]
      BY <3>1, <3>2, Goes DEF Places
    <3>3. ASSUME obj' = [obj EXCEPT ![ctl.obj].name = ctl.dev, ![ctl.obj].intx_disabled = TRUE,
                                    ![ctl.obj].bound = TRUE]
          PROVE  obj'[ctl.obj].bound
      BY <2>1, <3>1, <3>3 DEF DevObj
    <3> QED  BY <1>2, <3>2, <3>3 DEF AddName
  <2> QED  BY <2>1, <2>2, BoundRest
<1>3. CASE init_pci_dev
  <2>1. /\ ctl.obj \in Objs /\ ctl.pc = "init" /\ ctl'.pc # "init"
        /\ UNCHANGED obj \/ obj' = [obj EXCEPT ![ctl.obj].ready = TRUE]
    BY <1>3, InitDoes DEF init_pci_dev
  <2>2. obj[ctl.obj].bound
    BY <2>1 DEF BoundInv
  <2>3. CASE obj' = [obj EXCEPT ![ctl.obj].ready = TRUE]
    <3>1. obj \in [Objs -> DevObj]
      BY TypeFacts DEF DomainInv
    <3>2. obj'[ctl.obj].bound = obj[ctl.obj].bound /\ Rest(ctl.obj)
      BY <2>1, <2>3, <3>1 DEF DevObj, Rest
    <3> QED  BY <2>1, <2>2, <3>2, BoundRest
  <2> QED  BY <2>1, <2>3, BoundSame
<1>4. CASE AddFailed
  BY <1>4, AddFailedDoes, BoundRest
<1>5. CASE enclave_pci_remove_dev
  <2>1. CASE UNCHANGED obj /\ ctl'.pc = "idle"
    BY <2>1, BoundSame
  <2>2. ASSUME NEW p \in Objs, Rest(p), ~obj'[p].ready, ctl'.pc = "deinit" PROVE BoundInv'
    BY <2>2, BoundRest
  <2> QED  BY <1>5, <2>1, <2>2, RemoveDoes
<1>6. CASE RemoveDeinit
  BY <1>6, RemoveDeinitDoes, BoundRest
<1>7. CASE ctrl_add_pci \/ EnclaveKeeps \/ EnclaveGivesUp \/ \E d \in Devs : FreeDev(d)
  <2>1. ctl \in Thread
    BY TypeFacts DEF DomainInv
  <2>2. UNCHANGED obj /\ ctl'.pc # "init"
    <3>1. CASE ctrl_add_pci \/ EnclaveGivesUp
      BY <2>1, <3>1, Goes DEF ctrl_add_pci, EnclaveGivesUp, Places
    <3>2. CASE EnclaveKeeps \/ \E d \in Devs : FreeDev(d)
      BY <3>2, IdleThread DEF EnclaveKeeps, FreeDev
    <3> QED  BY <1>7, <3>1, <3>2
  <2> QED  BY <2>2, BoundSame
<1> QED  BY <1>1, <1>2, <1>3, <1>4, <1>5, <1>6, <1>7 DEF Ctrl

LEMMA BoundCall ==
  ASSUME DomainInv, BoundInv, Lcall
  PROVE  BoundInv'
<1>1. UNCHANGED ctl
  BY DEF Lcall, Lookup, enclave_pci_attach, EnableIntx, DisableIntx, enclave_pci_detach, Unassign,
         enclave_pci_iommu_map, enclave_pci_ack_irq, send_resp
<1>2. ctl.pc = "init" => ctl.obj \in Objs
  BY CtlHolding DEF Adds
<1>3. ASSUME NEW p \in Objs, NEW v \in BOOLEAN,
             \/ obj' = [obj EXCEPT ![p].assigned = v] \/ obj' = [obj EXCEPT ![p].vector = v]
             \/ obj' = [obj EXCEPT ![p].intx_disabled = v]
      PROVE  BoundInv'
  <2>1. obj \in [Objs -> DevObj]
    BY TypeFacts DEF DomainInv
  <2>2. \A o \in Objs : obj'[o].bound = obj[o].bound /\ obj'[o].ready = obj[o].ready
    <3>1. CASE obj' = [obj EXCEPT ![p].assigned = v]
      BY <2>1, <3>1 DEF DevObj
    <3>2. CASE obj' = [obj EXCEPT ![p].vector = v]
      BY <2>1, <3>2 DEF DevObj
    <3>3. CASE obj' = [obj EXCEPT ![p].intx_disabled = v]
      BY <2>1, <3>3 DEF DevObj
    <3> QED  BY <1>3, <3>1, <3>2, <3>3
  <2> QED  BY <1>1, <1>2, <2>2 DEF BoundInv
<1>4. CASE Lookup
  <2>1. UNCHANGED obj \/ obj' = [obj EXCEPT ![find_dev_by_name(lc.dev)].assigned = TRUE]
    BY <1>4 DEF Lookup
  <2>2. find_dev_by_name(lc.dev) \in Objs \/ UNCHANGED obj
    BY <1>4, FoundDev DEF Lookup, DomainInv
  <2> QED  BY <1>1, <1>3, <2>1, <2>2, BoundSame
<1>5. CASE ~Lookup
  <2>1. UNCHANGED obj \/ lc.pc \in LcHolds
    BY <1>5 DEF Lcall, LcHolds, CallOps, enclave_pci_attach, EnableIntx, DisableIntx,
         enclave_pci_detach, Unassign, enclave_pci_iommu_map, enclave_pci_ack_irq, send_resp
  <2>2. UNCHANGED obj \/ lc.obj \in Objs
    BY <2>1, LcHolding
  <2>3. \/ UNCHANGED obj \/ obj' = [obj EXCEPT ![lc.obj].assigned = FALSE]
        \/ obj' = [obj EXCEPT ![lc.obj].vector = TRUE]
        \/ obj' = [obj EXCEPT ![lc.obj].vector = FALSE]
        \/ obj' = [obj EXCEPT ![lc.obj].intx_disabled = TRUE]
        \/ obj' = [obj EXCEPT ![lc.obj].intx_disabled = FALSE]
    BY <1>5 DEF Lcall, enclave_pci_attach, EnableIntx, DisableIntx,
         enclave_pci_detach, Unassign, enclave_pci_iommu_map, enclave_pci_ack_irq, send_resp
  <2> QED  BY <1>1, <1>3, <2>2, <2>3, BoundSame
<1> QED  BY <1>4, <1>5

LEMMA BoundTeardown ==
  ASSUME DomainInv, BoundInv, Tame, Teardown
  PROVE  BoundInv'
<1>1. CASE ResetStop \/ ResetEnd \/ FreeEnclave \/ \E o \in Objs : ReaddDev(o)
  <2>1. UNCHANGED <<obj, ctl>>
    BY <1>1 DEF ResetStop, ResetEnd, FreeEnclave, ReaddDev
  <2> QED  BY <2>1, BoundSame
<1>2. CASE reset_enclave_pci
  <2>1. ctl.pc = "idle" /\ UNCHANGED ctl
    BY <1>2, ResetDoes, NoCommand
  <2>2. CASE UNCHANGED obj
    BY <2>1, <2>2, BoundSame
  <2>3. CASE ~UNCHANGED obj
    <3>1. PICK bad \in SUBSET dev_list :
            /\ \A o \in dev_list : obj[o].bound
            /\ obj' = [o \in Objs |-> IF o \in dev_list
                                      THEN [obj[o] EXCEPT !.ready = o \notin bad]
                                      ELSE obj[o]]
      BY <1>2, <2>3 DEF reset_enclave_pci
    <3>2. obj \in [Objs -> DevObj]
      BY TypeFacts DEF DomainInv
    <3>3. \A o \in Objs : IF o \in dev_list THEN obj'[o].bound = obj[o].bound ELSE obj'[o] = obj[o]
      BY <3>1, <3>2 DEF DevObj
    <3> QED  BY <2>1, <3>1, <3>3 DEF BoundInv
  <2> QED  BY <2>2, <2>3
<1>3. CASE deinit_enclave_pci
  <2>1. ctl.pc = "idle" /\ UNCHANGED ctl
    BY <1>3, DeinitDoes, NoCommand
  <2>2. CASE UNCHANGED obj
    BY <2>1, <2>2, BoundSame
  <2>3. ASSUME NEW p \in Objs, Freed(p) PROVE BoundInv'
    BY <2>1, <2>3, BoundRest DEF Freed
  <2> QED  BY <1>3, <2>2, <2>3, DeinitDoes
<1>4. ASSUME NEW o \in Objs, ReaddRefused(o) PROVE FALSE
  BY <1>4 DEF ReaddRefused, Tame
<1> QED  BY <1>1, <1>2, <1>3, <1>4 DEF Teardown

LEMMA BoundStep ==
  ASSUME DomainInv, BoundInv, Tame, [Next]_vars
  PROVE  BoundInv'
<1>1. CASE \/ \E d \in Devs, op \in CallOps : Call(op, d)
           \/ \E d \in Devs : host_pci_intx_irq_handler(d)
           \/ UNCHANGED vars
  <2>1. UNCHANGED <<obj, ctl>>
    BY <1>1 DEF Call, host_pci_intx_irq_handler, vars
  <2> QED  BY <2>1, BoundSame
<1> QED  BY <1>1, BoundCommand, BoundCall, BoundTeardown DEF Next

-----------------------------------------------------------------------------
(* FREE can unlink every device it frees.                                  *)
LEMMA DeinitUse ==
  ASSUME UseInv, HoldInv, DomainInv', deinit_enclave_pci
  PROVE  UseInv' /\ top'.pc # "oops"
<1>d. DomainInv
  BY DEF UseInv
<1>1. top.pc = "deinit" /\ UNCHANGED <<known, ctl, lc>>
  BY <1>d, DeinitDoes
<1>2. ctl.pc = "idle" /\ lc.pc = "idle" /\ \A o \in Objs : ~obj[o].assigned
  BY <1>d, <1>1, OneThread, NoneHeld DEF DomainInv, QuietInv
<1>3. HeldInv'
  BY <1>1, <1>2 DEF HeldInv, LcHolds, CallOps, Unchecked
<1>4. CASE top'.pc = "gone" /\ UNCHANGED <<dev_list, obj>>
  <2>1. KnownInv'
    BY <1>1, <1>2, <1>4 DEF KnownInv
  <2> QED  BY <1>1, <1>3, <1>4, <2>1, SameHand, ListedKept DEF UseInv
<1>5. ASSUME NEW p \in dev_list, p \in Objs, Freed(p), UNCHANGED top,
             \/ Removable(p) /\ dev_list' = dev_list \ {p}
             \/ ~Removable(p) /\ dev_list' = dev_list
      PROVE  UseInv' /\ top'.pc # "oops"
  <2>1. obj[p].ready
    BY <1>2, <1>5 DEF UseInv, ListedInv, Adds
  <2>2. Removable(p)
    BY <1>2, <1>5, <2>1, NullIsNone DEF Removable
  <2>3. Rest(p) /\ dev_list' = dev_list \ {p}
    BY <1>5, <2>2 DEF Freed
  <2>4. \A o \in dev_list' : obj'[o] = obj[o] /\ Live(o) /\ obj[o].ready
    BY <1>d, <1>2, <2>3, TypeFacts DEF UseInv, ListedInv, Rest, DomainInv, Adds
  <2>5. ListedInv'
    BY <1>1, <1>2, <2>4 DEF ListedInv, Live
  <2>6. KnownInv'
    BY <1>1, <1>2, <1>5 DEF KnownInv
  <2> QED  BY <1>1, <1>3, <1>5, <2>5, <2>6 DEF UseInv
<1>6. \A p \in dev_list : Live(p)
  BY DEF UseInv, ListedInv
<1> QED  BY <1>d, <1>4, <1>5, <1>6, DeinitDoes

LEMMA UseInit == Init => SoundInv
<1> SUFFICES ASSUME Init PROVE SoundInv
  OBVIOUS
<1>1. lc.pc = "idle" /\ ctl.pc = "idle" /\ top.pc = "idle"
  BY IdleThread DEF Init
<1>2. ListedInv
  BY <1>1 DEF Init, ListedInv
<1>3. HeldInv
  BY <1>1 DEF HeldInv, LcHolds, CallOps, Unchecked
<1>4. KnownInv
  BY <1>1 DEF Init, KnownInv
<1>5. HoldInv /\ BoundInv
  BY <1>1 DEF Init, HoldInv, BoundInv, Fresh
<1> QED  BY <1>1, <1>2, <1>3, <1>4, <1>5, DomainInit DEF UseInv, SoundInv

LEMMA UseStep ==
  ASSUME UseInv, HoldInv, Tame, [Next]_vars
  PROVE  UseInv'
<1>d. DomainInv' /\ Calm /\ Tidy
  BY DomainStep DEF UseInv, Tidy, Tame
<1>1. CASE \E d \in Devs : AddList(d) \/ FreeDev(d)
  BY <1>d, <1>1, AddListUse, AnswerUse
<1>2. CASE Ctrl
  BY <1>d, <1>2, AddNameUse, InitUse, AddFailedUse, TellUse, AnswerUse, GiveUpUse, RemoveUse,
     RemoveDeinitUse DEF Ctrl
<1>3. CASE \E d \in Devs, op \in CallOps : Call(op, d)
  BY <1>d, <1>3, CallUse
<1>4. CASE Lcall
  BY <1>d, <1>4, LookupUse, AttachUse, LcLastUse DEF Lcall
<1>5. CASE \E d \in Devs : host_pci_intx_irq_handler(d)
  BY <1>d, <1>5, IrqUse DEF host_pci_intx_irq_handler, list
<1>6. CASE Teardown
  BY <1>d, <1>6, StopUse, ResetUse, ResetEndUse, DeinitUse, ReaddUse, RefusedUse DEF Teardown
<1>7. CASE UNCHANGED vars
  BY <1>d, <1>7, IrqUse DEF vars
<1> QED  BY <1>1, <1>2, <1>3, <1>4, <1>5, <1>6, <1>7 DEF Next

(* RESET finds every listed device with Linux's struct, and FREE finds     *)
(* every listed one live: neither ends in an oops.                         *)
LEMMA NoOops ==
  ASSUME SoundInv, Tame, [Next]_vars
  PROVE  top'.pc # "oops"
<1>d. UseInv /\ HoldInv /\ BoundInv /\ top.pc # "oops" /\ DomainInv
  BY DEF SoundInv, UseInv
<1>t. top \in TopType
  BY <1>d, TypeFacts DEF DomainInv
<1>1. CASE UNCHANGED top
  BY <1>d, <1>1
<1>2. CASE ResetStop \/ ResetEnd \/ FreeEnclave
  BY <1>2, <1>t, TopGoes DEF ResetStop, ResetEnd, FreeEnclave
<1>3. CASE reset_enclave_pci
  <2>1. ctl.pc = "idle" /\ top.pc = "reset"
    BY <1>d, <1>3, ResetDoes, NoCommand
  <2>2. \A o \in dev_list : o \in Objs /\ obj[o].ready
    BY <1>d, <2>1, TypeFacts DEF UseInv, ListedInv, Adds, DomainInv
  <2>3. \A o \in dev_list : obj[o].bound
    BY <1>d, <2>2 DEF BoundInv
  <2> QED  BY <1>3, <2>3 DEF reset_enclave_pci
<1>4. CASE deinit_enclave_pci
  <2>1. DomainInv'
    BY <1>d, DomainStep DEF Tame, Tidy
  <2> QED  BY <1>d, <1>4, <2>1, DeinitUse
<1>5. CASE \E o \in Objs : ReaddDev(o)
  BY <1>5, <1>t, TopTells DEF ReaddDev
<1>6. ASSUME NEW o \in Objs, ReaddRefused(o) PROVE FALSE
  BY <1>6 DEF ReaddRefused, Tame
<1>7. CASE Teardown
  BY <1>2, <1>3, <1>4, <1>5, <1>6, <1>7 DEF Teardown
<1>8. CASE ~Teardown
  BY <1>1, <1>8 DEF Next, vars, AddList, FreeDev, Ctrl, AddName, init_pci_dev, AddFailed,
     ctrl_add_pci, EnclaveKeeps, EnclaveGivesUp, enclave_pci_remove_dev, RemoveDeinit, Call,
     Lcall, Lookup, enclave_pci_attach, EnableIntx, DisableIntx, enclave_pci_detach, Unassign,
     enclave_pci_iommu_map, enclave_pci_ack_irq, send_resp, host_pci_intx_irq_handler
<1> QED  BY <1>7, <1>8

(* The third layer's invariant holds when, moreover, a device can always   *)
(* be attached (src/enclave_pci.c:584) and after RESET be initialised      *)
(* again and is not refused (src/enclave.c:246-258).                       *)
THEOREM UseAlways ==
  ASSUME Tame
  PROVE  Spec => []SoundInv
<1>1. SoundInv /\ [Next]_vars => SoundInv'
  <2> SUFFICES ASSUME SoundInv, [Next]_vars PROVE SoundInv'
    OBVIOUS
  <2>1. UseInv /\ DomainInv /\ HoldInv /\ BoundInv
    BY DEF SoundInv, UseInv
  <2>2. UseInv' /\ HoldInv' /\ BoundInv'
    BY <2>1, UseStep, HoldStep, BoundStep
  <2> QED  BY <2>2, NoOops DEF SoundInv
<1> QED  BY <1>1, UseInit, PTL DEF Spec

LEMMA UsedIsLive == SoundInv => DeviceInv
<1> SUFFICES ASSUME SoundInv PROVE TypeOK /\ UseSafe
  BY DEF DeviceInv
<1>d. UseInv /\ DomainInv /\ top.pc # "oops"
  BY DEF SoundInv, UseInv
<1>1. \A o \in dev_list : Live(o)
  BY <1>d DEF UseInv, ListedInv
<1>2. ctl.pc \in {"name", "init", "del", "deinit"} => Live(ctl.obj)
  BY <1>d, CtlHolding DEF Adds
<1>3. ctl.pc = "tell" => Live(ctl.obj)
  BY <1>d, <1>1 DEF UseInv, ListedInv
<1>4. lc.pc \in CallOps \union {"request", "unassign"} => Live(lc.obj)
  BY <1>d, <1>1, HeldFacts DEF LcHolds
<1> QED  BY <1>d, <1>1, <1>2, <1>3, <1>4 DEF UseSafe, DomainInv

(* No thread that let go of pci_state->lock goes on with a freed device,   *)
(* and neither RESET nor FREE stands on one (src/enclave_pci.c:319-325,    *)
(* 427, 564-568, 624, 791, 818), when user space is orderly, the driver is *)
(* tidy, attaching never fails, and after RESET every device is            *)
(* initialised again and accepted.  Each of these is needed: the code      *)
(* checks none of them.                                                    *)
THEOREM DeviceCorrect ==
  ASSUME Tame
  PROVE  Spec => []DeviceInv
<1>1. Spec => []SoundInv
  BY UseAlways
<1> QED  BY <1>1, UsedIsLive, PTL
=============================================================================
