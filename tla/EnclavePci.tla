----------------------------- MODULE EnclavePci -----------------------------
(***************************************************************************)
(* PCI device assignment of one enclave: src/enclave_pci.c, the ADD_V3_PCI *)
(* and FREE_V3_PCI commands of src/enclave_ctrl.c, and what RESET and FREE *)
(* of src/enclave.c and src/main.c do to the devices.                      *)
(*                                                                         *)
(* Three host threads work on the device list: the holder of ctrl->lock    *)
(* (ctl), the long-call thread (lc) and the thread in RESET or FREE (top); *)
(* interrupts come at any time.  pci_state->lock protects the list, but    *)
(* every operation goes on with a pointer after it let go of the lock.     *)
(* A struct pisces_pci_dev is an object; its number is its address, never  *)
(* used again.                                                             *)
(***************************************************************************)
EXTENDS Integers, FiniteSets

CONSTANTS
  Devs,     (* the machine's PCI devices, by name                          *)
  MaxAdds,  (* bound: objects allocated in a behaviour                     *)
  Faults    (* what goes wrong around the module:                          *)
            (*  "untidy"     the enclave's driver detaches a device with   *)
            (*               INTx on, turns INTx on for one not attached,  *)
            (*               or gives one up with an ACK or CMD under way  *)
            (*  "disorderly" user space resets or frees an enclave that    *)
            (*               has a device attached or is in an ioctl       *)
            (*  "reinit"     a device cannot be initialised after RESET    *)
            (*  "refused"    the enclave refuses a device after RESET      *)
            (*  "attach"     a device cannot be attached to its domain     *)

ASSUME BoundAssumption == MaxAdds \in Nat
ASSUME FaultAssumption ==
  Faults \subseteq {"untidy", "disorderly", "reinit", "refused", "attach"}
ASSUME DevsAssumption  == "" \notin Devs

VARIABLES
  dev_list,  (* pci_state->dev_list                                        *)
  dev_cnt,   (* pci_state->dev_cnt                                         *)
  obj,       (* the objects                                                *)
  regions,   (* whose regions the device's are (pci_request_regions)       *)
  attached,  (* whose IOMMU domain the device is attached to               *)
  handler,   (* priv_data of the device's interrupt handler                *)
  masked,    (* the handler has disabled the interrupt                     *)
  owed,      (* the enclave got an IPI for it and has to acknowledge       *)
  known,     (* devices the enclave was told of                            *)
  pending,   (* a long call of the enclave has no answer yet               *)
  ctl,       (* ctrl_ioctl                                                 *)
  lc,        (* lcall_kern_thread                                          *)
  top        (* the thread that holds op_lock, or is in FREE               *)

list  == <<dev_list, dev_cnt>>
hw    == <<regions, attached, handler, masked>>
encl  == <<owed, known, pending>>
vars  == <<dev_list, dev_cnt, obj, regions, attached, handler, masked, owed, known,
           pending, ctl, lc, top>>

Objs == 1..MaxAdds
Null == 0

Fresh == [mem |-> "none", name |-> "", bound |-> FALSE, ready |-> FALSE,
          assigned |-> FALSE, vector |-> FALSE, intx_disabled |-> FALSE]

Idle == [pc |-> "idle", op |-> "none", dev |-> "", obj |-> Null]

(* find_dev_by_name, under pci_state->lock; names are unique.              *)
find_dev_by_name(d) ==
  IF \E o \in dev_list : obj[o].name = d
  THEN CHOOSE o \in dev_list : obj[o].name = d ELSE Null

(* What the hardware looks like when those in S were given back.           *)
Without(f, S) == [d \in Devs |-> IF f[d] \in S THEN Null ELSE f[d]]

-----------------------------------------------------------------------------
(***************************************************************************)
(* enclave_pci_add_dev, for ADD_V3_PCI                                     *)
(***************************************************************************)

(* ctrl_ioctl begins while the enclave is RUNNING, which RESET leaves it.  *)
CtrlOpen ==
  /\ ctl.pc = "idle"
  /\ \/ top.pc = "idle"
     \/ top.pc \in {"reset", "readd", "oops"} /\ "disorderly" \in Faults

(* The object is on the list before it has its name.                       *)
AddList(d) ==
  /\ CtrlOpen
  /\ find_dev_by_name(d) = Null
  /\ \E o \in Objs :
       /\ obj[o].mem = "none"
       /\ obj' = [obj EXCEPT ![o].mem = "live"]
       /\ dev_list' = dev_list \union {o}
       /\ dev_cnt' = dev_cnt + 1
       /\ ctl' = [pc |-> "name", op |-> "add", dev |-> d, obj |-> o]
  /\ UNCHANGED <<hw, encl, lc, top>>

(* Named; then Linux finds no such device, a bridge, or no IOMMU.          *)
AddName ==
  /\ ctl.pc = "name"
  /\ \/ /\ ctl' = [ctl EXCEPT !.pc = "init"]
        /\ obj' = [obj EXCEPT ![ctl.obj].name = ctl.dev,
                              ![ctl.obj].intx_disabled = TRUE,
                              ![ctl.obj].bound = TRUE]
     \/ /\ ctl' = [ctl EXCEPT !.pc = "del"]
        /\ obj' = [obj EXCEPT ![ctl.obj].name = ctl.dev,
                              ![ctl.obj].intx_disabled = TRUE]
  /\ UNCHANGED <<list, hw, encl, lc, top>>

(* __init_pci_dev: enable the device, take its regions, allocate a domain. *)
(* What was done is undone when a step fails.                              *)
init_pci_dev ==
  /\ ctl.pc = "init"
  /\ \/ /\ regions[ctl.dev] = Null
        /\ regions' = [regions EXCEPT ![ctl.dev] = ctl.obj]
        /\ obj' = [obj EXCEPT ![ctl.obj].ready = TRUE]
        /\ ctl' = [ctl EXCEPT !.pc = "tell"]
     \/ /\ ctl' = [ctl EXCEPT !.pc = "del"]
        /\ UNCHANGED <<regions, obj>>
  /\ UNCHANGED <<list, attached, handler, masked, encl, lc, top>>

(* out_del_list: dev_cnt stays as it is.                                   *)
AddFailed ==
  /\ ctl.pc = "del"
  /\ dev_list' = dev_list \ {ctl.obj}
  /\ obj' = [obj EXCEPT ![ctl.obj].mem = "freed"]
  /\ ctl' = Idle
  /\ UNCHANGED <<dev_cnt, hw, encl, lc, top>>

(* ctrl_add_pci: tell the enclave and wait for its answer.                 *)
ctrl_add_pci ==
  /\ ctl.pc = "tell"
  /\ known' = known \union {ctl.dev}
  /\ ctl' = [ctl EXCEPT !.pc = "answer"]
  /\ UNCHANGED <<list, obj, hw, owed, pending, lc, top>>

-----------------------------------------------------------------------------
(***************************************************************************)
(* FREE_V3_PCI, and the enclave's answers to both commands.                *)
(***************************************************************************)

FreeDev(d) ==
  /\ CtrlOpen
  /\ ctl' = [pc |-> "answer", op |-> "free", dev |-> d, obj |-> Null]
  /\ UNCHANGED <<list, obj, hw, encl, lc, top>>

(* Calls that do not ask whether the device is assigned.                   *)
Unchecked == {"ack", "intx_on", "intx_off"}

(* The enclave keeps the device: ADD succeeded, or FREE failed.            *)
EnclaveKeeps ==
  /\ ctl.pc = "answer"
  /\ ctl' = Idle
  /\ UNCHANGED <<list, obj, hw, encl, lc, top>>

(* The enclave gives the device up: ADD failed, or FREE succeeded.         *)
EnclaveGivesUp ==
  /\ ctl.pc = "answer"
  /\ \/ "untidy" \in Faults
     \/ ~(lc.dev = ctl.dev /\ lc.op \in Unchecked)
  /\ known' = known \ {ctl.dev}
  /\ ctl' = [ctl EXCEPT !.pc = "unlink"]
  /\ UNCHANGED <<list, obj, hw, owed, pending, lc, top>>

(* __unregister_device takes a device off the list if it may go.           *)
Removable(o) == o # Null /\ ~obj[o].assigned /\ obj[o].ready

(* Slip: a device is removed although it is assigned.                      *)
enclave_pci_remove_dev_Assigned ==
  LET o == find_dev_by_name(ctl.dev) IN
  /\ ctl.pc = "unlink"
  /\ o # Null /\ obj[o].ready
  /\ obj' = [obj EXCEPT ![o].ready = FALSE]
  /\ dev_list' = dev_list \ {o}
  /\ dev_cnt' = dev_cnt - 1
  /\ ctl' = [ctl EXCEPT !.pc = "deinit", !.obj = o]
  /\ UNCHANGED <<hw, encl, lc, top>>

enclave_pci_remove_dev ==
  LET o == find_dev_by_name(ctl.dev) IN
  /\ ctl.pc = "unlink"
  /\ IF Removable(o)
     THEN /\ obj' = [obj EXCEPT ![o].ready = FALSE]
          /\ dev_list' = dev_list \ {o}
          /\ dev_cnt' = dev_cnt - 1
          /\ ctl' = [ctl EXCEPT !.pc = "deinit", !.obj = o]
     ELSE ctl' = Idle /\ UNCHANGED <<obj, list>>
  /\ UNCHANGED <<hw, encl, lc, top>>

(* Slip: the regions are not released.                                     *)
RemoveDeinit_Keep ==
  /\ ctl.pc = "deinit"
  /\ attached' = Without(attached, {ctl.obj})
  /\ obj' = [obj EXCEPT ![ctl.obj].mem = "freed"]
  /\ dev_cnt' = dev_cnt - 1
  /\ ctl' = Idle
  /\ UNCHANGED <<dev_list, regions, handler, masked, encl, lc, top>>

(* __deinit_pci_dev and kfree; dev_cnt goes down once more.  Freeing the   *)
(* domain takes whatever is attached to it off it.                         *)
RemoveDeinit ==
  /\ ctl.pc = "deinit"
  /\ regions' = Without(regions, {ctl.obj})
  /\ attached' = Without(attached, {ctl.obj})
  /\ obj' = [obj EXCEPT ![ctl.obj].mem = "freed"]
  /\ dev_cnt' = dev_cnt - 1
  /\ ctl' = Idle
  /\ UNCHANGED <<dev_list, handler, masked, encl, lc, top>>

Ctrl == \/ AddName \/ init_pci_dev \/ AddFailed \/ ctrl_add_pci
        \/ EnclaveKeeps \/ EnclaveGivesUp
        \/ enclave_pci_remove_dev \/ RemoveDeinit

-----------------------------------------------------------------------------
(***************************************************************************)
(* The long calls.  The enclave makes one at a time.                       *)
(***************************************************************************)
CallOps == {"attach", "detach", "map", "ack", "intx_on", "intx_off"}

(* The enclave calls for a device it was told of.                          *)
Call(op, d) ==
  LET o == find_dev_by_name(d) IN
  /\ lc.pc = "idle" /\ ~pending
  /\ d \in known
  /\ top.pc \in {"idle", "readd"} \/ (top.pc = "deinit" /\ "disorderly" \in Faults)
  /\ "untidy" \in Faults \/
       /\ op = "detach" => o # Null /\ obj[o].intx_disabled
       /\ op = "intx_on" => o # Null /\ attached[d] = o
  /\ op = "ack" => owed[d]
  /\ pending' = TRUE
  /\ owed' = [owed EXCEPT ![d] = @ /\ op # "ack"]
  /\ lc' = [pc |-> "find", op |-> op, dev |-> d, obj |-> Null]
  /\ UNCHANGED <<list, obj, hw, known, ctl, top>>

(* The section under pci_state->lock: attach assigns the device, map,      *)
(* unmap and detach want it assigned, ack and cmd take it as it is.        *)
Lookup ==
  LET o == find_dev_by_name(lc.dev)
      found == /\ o # Null
               /\ lc.op = "attach" => ~obj[o].assigned /\ obj[o].ready
               /\ lc.op \in {"detach", "map"} => obj[o].assigned
  IN
  /\ lc.pc = "find"
  /\ IF found
     THEN /\ obj' = IF lc.op = "attach" THEN [obj EXCEPT ![o].assigned = TRUE] ELSE obj
          /\ lc' = [lc EXCEPT !.pc = lc.op, !.obj = o]
     ELSE lc' = [lc EXCEPT !.pc = "resp"] /\ UNCHANGED obj
  /\ UNCHANGED <<list, hw, encl, ctl, top>>

(* request_threaded_irq may fail, and does when there is a handler; that   *)
(* is only logged.                                                         *)
RequestIrq ==
  \/ /\ handler[lc.dev] = Null
     /\ handler' = [handler EXCEPT ![lc.dev] = lc.obj]
     /\ masked' = [masked EXCEPT ![lc.dev] = FALSE]
  \/ UNCHANGED <<handler, masked>>

(* Attaching to the IOMMU domain.  When it fails the call is left without  *)
(* an answer and the device assigned.                                      *)
enclave_pci_attach ==
  /\ lc.pc = "attach"
  /\ \/ /\ attached' = [attached EXCEPT ![lc.dev] = lc.obj]
        /\ obj' = [obj EXCEPT ![lc.obj].vector = TRUE]
        /\ lc' = [lc EXCEPT !.pc = "request"]
     \/ /\ "attach" \in Faults
        /\ lc' = Idle
        /\ UNCHANGED <<obj, attached>>
  /\ UNCHANGED <<list, regions, handler, masked, encl, ctl, top>>

(* The end of attach, and INTX_ENABLE.                                     *)
EnableIntx ==
  /\ lc.pc \in {"request", "intx_on"}
  /\ IF lc.pc = "intx_on" /\ ~obj[lc.obj].intx_disabled
     THEN UNCHANGED <<handler, masked, obj>>
     ELSE RequestIrq /\ obj' = [obj EXCEPT ![lc.obj].intx_disabled = FALSE]
  /\ lc' = [lc EXCEPT !.pc = "resp"]
  /\ UNCHANGED <<list, regions, attached, encl, ctl, top>>

(* Slip: INTX_DISABLE leaves the handler registered.                       *)
DisableIntx_Keep ==
  /\ lc.pc = "intx_off"
  /\ obj' = [obj EXCEPT ![lc.obj].intx_disabled = TRUE]
  /\ lc' = [lc EXCEPT !.pc = "resp"]
  /\ UNCHANGED <<list, hw, encl, ctl, top>>

(* INTX_DISABLE: free_irq waits for a running handler.                     *)
DisableIntx ==
  /\ lc.pc = "intx_off"
  /\ IF obj[lc.obj].intx_disabled THEN UNCHANGED <<handler, masked, obj>>
     ELSE /\ handler' = Without(handler, {lc.obj})
          /\ masked' = [masked EXCEPT ![lc.dev] = FALSE]
          /\ obj' = [obj EXCEPT ![lc.obj].intx_disabled = TRUE]
  /\ lc' = [lc EXCEPT !.pc = "resp"]
  /\ UNCHANGED <<list, regions, attached, encl, ctl, top>>

enclave_pci_detach ==
  /\ lc.pc = "detach"
  /\ attached' = Without(attached, {lc.obj})
  /\ obj' = [obj EXCEPT ![lc.obj].vector = FALSE]
  /\ lc' = [lc EXCEPT !.pc = "unassign"]
  /\ UNCHANGED <<list, regions, handler, masked, encl, ctl, top>>

Unassign ==
  /\ lc.pc = "unassign"
  /\ obj' = [obj EXCEPT ![lc.obj].assigned = FALSE]
  /\ lc' = [lc EXCEPT !.pc = "resp"]
  /\ UNCHANGED <<list, hw, encl, ctl, top>>

(* iommu_map and iommu_unmap on the object's domain.                       *)
enclave_pci_iommu_map ==
  /\ lc.pc = "map"
  /\ lc' = [lc EXCEPT !.pc = "resp"]
  /\ UNCHANGED <<list, obj, hw, encl, ctl, top>>

(* Slip: the interrupt is not enabled again.                               *)
enclave_pci_ack_irq_Keep ==
  /\ lc.pc = "ack"
  /\ lc' = [lc EXCEPT !.pc = "resp"]
  /\ UNCHANGED <<list, obj, hw, encl, ctl, top>>

enclave_pci_ack_irq ==
  /\ lc.pc = "ack"
  /\ masked' = [masked EXCEPT ![lc.dev] = FALSE]
  /\ lc' = [lc EXCEPT !.pc = "resp"]
  /\ UNCHANGED <<list, obj, regions, attached, handler, encl, ctl, top>>

send_resp ==
  /\ lc.pc = "resp"
  /\ pending' = FALSE
  /\ lc' = Idle
  /\ UNCHANGED <<list, obj, hw, owed, known, ctl, top>>

Lcall == \/ Lookup \/ enclave_pci_attach \/ EnableIntx \/ DisableIntx
         \/ enclave_pci_detach \/ Unassign \/ enclave_pci_iommu_map
         \/ enclave_pci_ack_irq \/ send_resp

(* _host_pci_intx_irq_handler: mask the line and send the enclave an IPI.  *)
(* Without a vector it is IRQ_NONE.                                        *)
host_pci_intx_irq_handler(d) ==
  /\ handler[d] # Null /\ ~masked[d]
  /\ obj[handler[d]].vector
  /\ masked' = [masked EXCEPT ![d] = TRUE]
  /\ owed' = [owed EXCEPT ![d] = top.pc # "reset"]
  /\ UNCHANGED <<list, obj, regions, attached, handler, known, pending, ctl, lc, top>>

-----------------------------------------------------------------------------
(***************************************************************************)
(* RESET and FREE of the enclave.                                          *)
(***************************************************************************)

(* No device attached or on its way, and no ioctl: what the tool that      *)
(* resets or frees the enclave can see to, for the code looks at neither.  *)
Orderly ==
  \/ "disorderly" \in Faults
  \/ /\ ctl.pc = "idle" /\ lc.pc = "idle"
     /\ \A d \in Devs : attached[d] = Null

Top(p) == top' = [top EXCEPT !.pc = p]

(* RESET stops the enclave's CPUs; the long-call thread ends after the     *)
(* call it is in.                                                          *)
ResetStop ==
  /\ top.pc = "idle"
  /\ Orderly
  /\ Top("reset")
  /\ known' = {}
  /\ owed' = [d \in Devs |-> FALSE]
  /\ UNCHANGED <<list, obj, hw, pending, ctl, lc>>

(* reset_enclave_pci: deinit and init of every listed device, whose second *)
(* result nobody looks at.  A device without dev is an oops.               *)
reset_enclave_pci ==
  /\ top.pc = "reset"
  /\ lc.pc = "idle"
  /\ IF \E o \in dev_list : ~obj[o].bound
     THEN Top("oops") /\ UNCHANGED <<obj, regions, attached, pending>>
     ELSE \E bad \in SUBSET dev_list :
            /\ bad = {} \/ "reinit" \in Faults
            /\ regions' = [d \in Devs |->
                 IF \E o \in dev_list \ bad : obj[o].name = d THEN find_dev_by_name(d)
                 ELSE IF regions[d] \in bad THEN Null ELSE regions[d]]
            /\ attached' = Without(attached, dev_list)
            /\ obj' = [o \in Objs |-> IF o \in dev_list
                                      THEN [obj[o] EXCEPT !.ready = o \notin bad]
                                      ELSE obj[o]]
            /\ pending' = FALSE
            /\ top' = [pc |-> "readd", todo |-> dev_list]
  /\ UNCHANGED <<list, handler, masked, owed, known, ctl, lc>>

(* The enclave runs again and is told of every device.                     *)
ReaddDev(o) ==
  /\ top.pc = "readd"
  /\ o \in top.todo
  /\ known' = known \union {obj[o].name}
  /\ top' = [top EXCEPT !.todo = @ \ {o}]
  /\ UNCHANGED <<list, obj, hw, owed, pending, ctl, lc>>

(* It refuses one: enclave_pci_remove_dev frees the object the loop stands *)
(* on, and the loop reads its poisoned link; one that cannot be removed is *)
(* left alone.                                                             *)
ReaddRefused(o) ==
  /\ "refused" \in Faults
  /\ top.pc = "readd"
  /\ o \in top.todo
  /\ IF Removable(o)
     THEN /\ obj' = [obj EXCEPT ![o].ready = FALSE, ![o].mem = "freed"]
          /\ dev_list' = dev_list \ {o}
          /\ dev_cnt' = dev_cnt - 2
          /\ regions' = Without(regions, {o})
          /\ attached' = Without(attached, {o})
          /\ Top("oops")
     ELSE /\ top' = [top EXCEPT !.todo = @ \ {o}]
          /\ UNCHANGED <<obj, list, regions, attached>>
  /\ UNCHANGED <<handler, masked, encl, ctl, lc>>

(* RESET ends, or the launch failed.                                       *)
ResetEnd ==
  /\ top.pc = "readd"
  /\ top.todo = {} \/ known = {}
  /\ top' = [pc |-> "idle", todo |-> {}]
  /\ UNCHANGED <<list, obj, hw, encl, ctl, lc>>

(* FREE goes to the devices while the enclave still runs.                  *)
FreeEnclave ==
  /\ top.pc = "idle"
  /\ Orderly
  /\ Top("deinit")
  /\ UNCHANGED <<list, obj, hw, encl, ctl, lc>>

(* deinit_enclave_pci frees the first device, unlinked or not.  One that   *)
(* could not be unlinked, being assigned, is still the first: it is used   *)
(* and freed once more.                                                    *)
deinit_enclave_pci ==
  /\ top.pc = "deinit"
  /\ \/ /\ dev_list = {}
        /\ Top("gone")
        /\ UNCHANGED <<list, obj, regions, attached>>
     \/ \E o \in dev_list :
          /\ obj[o].mem = "live"
          /\ IF Removable(o)
             THEN dev_list' = dev_list \ {o} /\ dev_cnt' = dev_cnt - 2
             ELSE dev_cnt' = dev_cnt - 1 /\ UNCHANGED dev_list
          /\ obj' = [obj EXCEPT ![o].ready = FALSE, ![o].mem = "freed"]
          /\ regions' = Without(regions, {o})
          /\ attached' = Without(attached, {o})
          /\ UNCHANGED top
     \/ /\ \E o \in dev_list : obj[o].mem = "freed"
        /\ Top("oops")
        /\ UNCHANGED <<list, obj, regions, attached>>
  /\ UNCHANGED <<handler, masked, encl, ctl, lc>>

Teardown == \/ ResetStop \/ reset_enclave_pci \/ ResetEnd
            \/ FreeEnclave \/ deinit_enclave_pci
            \/ \E o \in Objs : ReaddDev(o) \/ ReaddRefused(o)

-----------------------------------------------------------------------------
Init ==
  /\ dev_list = {} /\ dev_cnt = 0
  /\ obj = [o \in Objs |-> Fresh]
  /\ regions = [d \in Devs |-> Null]
  /\ attached = [d \in Devs |-> Null]
  /\ handler = [d \in Devs |-> Null]
  /\ masked = [d \in Devs |-> FALSE]
  /\ owed = [d \in Devs |-> FALSE]
  /\ known = {}
  /\ pending = FALSE
  /\ ctl = Idle /\ lc = Idle
  /\ top = [pc |-> "idle", todo |-> {}]

Next ==
  \/ \E d \in Devs : AddList(d) \/ FreeDev(d)
  \/ Ctrl
  \/ \E d \in Devs, op \in CallOps : Call(op, d)
  \/ Lcall
  \/ \E d \in Devs : host_pci_intx_irq_handler(d)
  \/ Teardown

Spec == Init /\ [][Next]_vars

-----------------------------------------------------------------------------
Thread   == [pc : {"idle", "name", "init", "del", "tell", "answer", "unlink", "deinit",
                   "find", "request", "unassign", "resp"} \union CallOps,
             op : {"none", "add", "free"} \union CallOps,
             dev : Devs \union {""}, obj : Objs \union {Null}]
Owner    == [Devs -> Objs \union {Null}]

(* Every variable has its type.                                            *)
TypeOK ==
  /\ dev_list \subseteq Objs
  /\ dev_cnt \in Int
  /\ obj \in [Objs -> [mem : {"none", "live", "freed"}, name : Devs \union {""},
                       bound : BOOLEAN, ready : BOOLEAN, assigned : BOOLEAN,
                       vector : BOOLEAN, intx_disabled : BOOLEAN]]
  /\ regions \in Owner /\ attached \in Owner /\ handler \in Owner
  /\ masked \in [Devs -> BOOLEAN] /\ owed \in [Devs -> BOOLEAN]
  /\ known \subseteq Devs
  /\ pending \in BOOLEAN
  /\ ctl \in Thread /\ lc \in Thread
  /\ top \in [pc : {"idle", "reset", "readd", "deinit", "gone", "oops"},
             todo : SUBSET Objs]

Live(o) == obj[o].mem = "live"

(* A thread that goes on with a device after it let go of pci_state->lock  *)
(* never has a freed one in its hands: assigned keeps the device for the   *)
(* long calls, a removed one is off the list before it is freed, what is   *)
(* on the list is live, and neither RESET, whose loops walk the list, nor  *)
(* FREE ever stands on a freed or half made device (enclave_pci.c:319-325, *)
(* 427, 564-568, 624, 791, 818; enclave.c:246-258).  It needs more than    *)
(* the code sees to: a device that could not be attached stays assigned,   *)
(* and FREE frees it twice ("attach"); one the enclave refuses after RESET *)
(* is freed under RESET's loop ("refused").                                *)
UseSafe ==
  /\ top.pc # "oops"
  /\ \A o \in dev_list : Live(o)
  /\ ctl.pc \in {"name", "init", "del", "tell", "deinit"} => Live(ctl.obj)
  /\ lc.pc \in CallOps \union {"request", "unassign"} => Live(lc.obj)

(* The invariant of the device objects: types, and what is used is live    *)
(* (every path of enclave_pci.c that leaves pci_state->lock).              *)
DeviceInv == TypeOK /\ UseSafe

(* An interrupt never finds its priv_data freed (enclave_pci.c:366, 596).  *)
HandlerSafe == \A d \in Devs : handler[d] # Null => Live(handler[d])

(* A device whose DMA goes through an enclave's IOMMU domain is one the    *)
(* enclave holds and has assigned, and no device stays held by an object   *)
(* that is gone (enclave_pci.c:138-142, 568-582, 637-646).                 *)
DomainSafe ==
  \A d \in Devs :
    /\ attached[d] # Null => attached[d] = regions[d] /\ obj[attached[d]].assigned
    /\ regions[d] # Null => Live(regions[d])

(* A line the handler disabled is enabled again: the enclave that uses the *)
(* device has the IPI and will acknowledge it, or does so right now        *)
(* (enclave_pci.c:399-404, 681).                                           *)
MaskedIsOwed ==
  \A d \in known : handler[d] # Null /\ masked[d] =>
    owed[d] \/ (lc.op = "ack" /\ lc.dev = d)

(* "DMA and Mem-mapped I/O should already be disabled [...] device should  *)
(* be detached from IOMMU context" (enclave_pci.c:134-135) when            *)
(* __deinit_pci_dev is called.                                             *)
DetachedAtDeinit ==
  /\ top.pc \in {"reset", "deinit"} /\ lc.pc = "idle" =>
       \A o \in dev_list, d \in Devs : attached[d] # o
  /\ ctl.pc = "deinit" => \A d \in Devs : attached[d] # ctl.obj

(* COMPLETE is "Set by the receiver when message has been handled"         *)
(* (pisces_xbuf.c:34): a call the thread is done with has its answer.      *)
EveryCallAnswered == pending => lc.pc # "idle"
=============================================================================
