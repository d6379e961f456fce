------------------------------ MODULE Enclave ------------------------------
(***************************************************************************)
(* The life of struct pisces_enclave: made by LOAD, reached through device,*)
(* control, proc and console files, launched and reset, and taken down by  *)
(* FREE and the last reference (enclave.c, main.c, enclave_ctrl.c).  FREE  *)
(* takes no lock and RESET not the control channel's, so what keeps the    *)
(* object and its parts alive is the reference count, the order of the     *)
(* steps, and an administrator who does not do what Faults names; the code *)
(* refuses none of it.  LAUNCH, RESET and FREE may come at any time of an  *)
(* enclave's life, beside commands, while it runs, never launched, again   *)
(* and after failures.                                                     *)
(***************************************************************************)
EXTENDS Integers, FiniteSets

CONSTANTS Objects,       \* addresses of struct pisces_enclave
          Threads,       \* host threads
          MaxEnclaves,   \* MAX_ENCLAVES
          MaxFiles,      \* bound: open files of a kind, per enclave
          None,
          Faults         \* what may happen besides an orderly life:
                         \*   "load"     two LOADs at the same time
                         \*   "free"     a FREE beside a FREE, an open, a LAUNCH
                         \*              or a RESET, or one of these after a FREE
                         \*   "console"  a FREE under an open console
                         \*   "image"    a kernel image that cannot be read
                         \*   "cdev"     a device that cannot be made

ASSUME EnclaveAssumption ==
    /\ MaxEnclaves \in Nat \ {0} /\ MaxFiles \in Nat
    /\ None \notin Objects
    /\ Faults \subseteq {"load", "free", "console", "image", "cdev"}
    /\ IsFiniteSet(Threads)

Slots    == 0 .. MaxEnclaves - 1
RefKinds == {"dev", "ctrl", "proc"}      \* files that hold a reference
Kinds    == RefKinds \cup {"cons"}

VARIABLES
    enclave_map,
    mem,        \* is the object allocated?
    id,         \* enclave->id
    refcount,
    state,      \* enclave->state
    dev,        \* can the device and proc files be opened?
    files,      \* open files of each kind
    desc,       \* ctrl->xbuf_desc: NULL, a live object, or one that was freed
    lcall,      \* the thread kern_thread names: none that lives, idle, or in a call
    alive,      \* does the enclave's kernel run?
    fs,         \* is the file service set up?
    images,     \* references to the kernel image that the enclave holds
    th          \* what each thread does

vars == <<enclave_map, mem, id, refcount, state, dev, files, desc, lcall, alive, fs,
          images, th>>
parts == <<desc, lcall, alive, fs, images>>

Free0 == [pc |-> "none", e |-> None, slot |-> 0, xbuf |-> "null"]

Pcs   == {"none", "claim", "register", "get", "setup", "boot", "r_ctrl", "r_lcall",
          "c_lock", "c_send", "f_dev", "f_proc", "f_fs", "f_lcall", "f_put"}
Calls == [pc : Pcs, e : Objects \cup {None}, slot : Slots, xbuf : {"null", "live", "freed"}]

TypeOK ==
    /\ enclave_map \in [Slots -> Objects \cup {None}]
    /\ mem \in [Objects -> BOOLEAN]
    /\ id \in [Objects -> Slots]
    /\ refcount \in [Objects -> Int]
    /\ state \in [Objects -> {"loaded", "running", "dead"}]
    /\ dev \in [Objects -> BOOLEAN]
    /\ files \in [Objects -> [Kinds -> 0 .. MaxFiles]]
    /\ desc \in [Objects -> {"null", "live", "freed"}]
    /\ lcall \in [Objects -> {"none", "idle", "busy"}]
    /\ alive \in [Objects -> BOOLEAN]
    /\ fs \in [Objects -> BOOLEAN]
    /\ images \in [Objects -> Int]
    /\ th \in [Threads -> Calls]

Init ==
    /\ enclave_map = [i \in Slots |-> None]
    /\ mem = [e \in Objects |-> FALSE]
    /\ id = [e \in Objects |-> 0]
    /\ refcount = [e \in Objects |-> 0]
    /\ state = [e \in Objects |-> "dead"]
    /\ dev = [e \in Objects |-> FALSE]
    /\ files = [e \in Objects |-> [k \in Kinds |-> 0]]
    /\ desc = [e \in Objects |-> "null"]
    /\ lcall = [e \in Objects |-> "none"]
    /\ alive = [e \in Objects |-> FALSE]
    /\ fs = [e \in Objects |-> FALSE]
    /\ images = [e \in Objects |-> 0]
    /\ th = [t \in Threads |-> Free0]

At(t, label) == th[t].pc = label
Goto(t, label) == th' = [th EXCEPT ![t].pc = label]
Return(t) == th' = [th EXCEPT ![t] = Free0]

InLoad(t) == th[t].pc \in {"claim", "register"}
InFree(t) == th[t].pc \in {"f_dev", "f_proc", "f_fs", "f_lcall", "f_put"}
InCtrl(t) == th[t].pc \in {"c_lock", "c_send"}
InReset(t) == th[t].pc \in {"setup", "boot", "r_ctrl", "r_lcall"}   \* holds op_lock

\* The threads that are inside a call on a file of this kind.
Users(e, kind) == {t \in Threads : th[t].e = e /\
    \/ kind = "dev" /\ InReset(t)
    \/ kind = "ctrl" /\ InCtrl(t)}

OpLockFree(e) == \A t \in Threads : InReset(t) => th[t].e # e
CtrlLockFree(e) == \A t \in Threads : At(t, "c_send") => th[t].e # e

\* enclave_put: the last reference drops the image and frees the object.
enclave_put(e) ==
    /\ refcount' = [refcount EXCEPT ![e] = @ - 1]
    /\ IF refcount[e] = 1
       THEN mem' = [mem EXCEPT ![e] = FALSE] /\ images' = [images EXCEPT ![e] = @ - 1]
       ELSE UNCHANGED <<mem, images>>

enclave_get(e) == refcount' = [refcount EXCEPT ![e] = @ + 1]

\* pisces_ctrl_deinit: kfree of the descriptor, if there is one; a thread that
\* has read the address keeps it, and so does ctrl->xbuf_desc.
pisces_ctrl_deinit(t, label) ==
    /\ desc' = [desc EXCEPT ![th[t].e] = IF @ = "null" THEN @ ELSE "freed"]
    /\ th' = [u \in Threads |->
                 IF u = t THEN [th[t] EXCEPT !.pc = label]
                 ELSE IF th[u].e = th[t].e /\ th[u].xbuf = "live"
                      THEN [th[u] EXCEPT !.xbuf = "freed"] ELSE th[u]]
-----------------------------------------------------------------------------
(* LOAD.                                                                   *)

\* The search does not look for a free slot.
AllocSlip(t, e) ==
    /\ At(t, "none")
    /\ \A u \in Threads : ~InLoad(u) /\ th[u].e # e
    /\ ~mem[e]
    /\ th' = [th EXCEPT ![t] = [Free0 EXCEPT !.pc = "claim", !.e = e]]
    /\ mem' = [mem EXCEPT ![e] = TRUE]
    /\ UNCHANGED <<enclave_map, id, refcount, state, dev, files, parts>>

\* kmalloc, and the search for a slot of enclave_map.
alloc_enclave_index(t, e) ==
    /\ At(t, "none")
    /\ "load" \in Faults \/ \A u \in Threads : ~InLoad(u)
    /\ ~mem[e]
    /\ \A u \in Threads : th[u].e # e
    /\ \E i \in Slots :
        /\ enclave_map[i] = None
        /\ \A j \in 0 .. i - 1 : enclave_map[j] # None
        /\ th' = [th EXCEPT ![t] = [Free0 EXCEPT !.pc = "claim", !.e = e, !.slot = i]]
    /\ mem' = [mem EXCEPT ![e] = TRUE]
    /\ UNCHANGED <<enclave_map, id, refcount, state, dev, files, parts>>

\* The slot found is claimed.
Claim(t) ==
    /\ At(t, "claim")
    /\ enclave_map' = [enclave_map EXCEPT ![th[t].slot] = th[t].e]
    /\ Goto(t, "register")
    /\ UNCHANGED <<mem, id, refcount, state, dev, files, parts>>

\* The object is set up and its device and proc files are made.  Where cdev_add
\* or device_create fails the object is freed and its slot keeps the address.
pisces_enclave_create(t) ==
    LET e == th[t].e IN
    /\ At(t, "register")
    /\ id' = [id EXCEPT ![e] = th[t].slot]
    /\ refcount' = [refcount EXCEPT ![e] = 1]
    /\ state' = [state EXCEPT ![e] = "loaded"]
    /\ images' = [images EXCEPT ![e] = 1]
    /\ fs' = [fs EXCEPT ![e] = TRUE]
    /\ desc' = [desc EXCEPT ![e] = "null"]
    /\ lcall' = [lcall EXCEPT ![e] = "none"]
    /\ \E ok \in {TRUE} \cup {"cdev" \notin Faults} :
        /\ dev' = [dev EXCEPT ![e] = ok]
        /\ mem' = [mem EXCEPT ![e] = ok]
    /\ alive' = [alive EXCEPT ![e] = FALSE]
    /\ Return(t)
    /\ UNCHANGED <<enclave_map, files>>
-----------------------------------------------------------------------------
(* Files.                                                                  *)

\* The kernel has found the cdev; enclave_open takes the reference.
OpenFind(t, e) ==
    /\ At(t, "none")
    /\ dev[e]
    /\ "free" \in Faults \/ \A u \in Threads : ~(InFree(u) /\ th[u].e = e)
    /\ files[e]["dev"] + Cardinality({u \in Threads : At(u, "get") /\ th[u].e = e}) < MaxFiles
    /\ th' = [th EXCEPT ![t] = [Free0 EXCEPT !.pc = "get", !.e = e]]
    /\ UNCHANGED <<enclave_map, mem, id, refcount, state, dev, files, parts>>

\* The file takes no reference.
OpenSlip(t) ==
    LET e == th[t].e IN
    /\ At(t, "get")
    /\ files' = [files EXCEPT ![e]["dev"] = @ + 1]
    /\ Return(t)
    /\ UNCHANGED <<enclave_map, mem, id, refcount, state, dev, parts>>

enclave_open(t) ==
    LET e == th[t].e IN
    /\ At(t, "get")
    /\ enclave_get(e)
    /\ files' = [files EXCEPT ![e]["dev"] = @ + 1]
    /\ Return(t)
    /\ UNCHANGED <<enclave_map, mem, id, state, dev, parts>>

\* The proc entries go after the device.
proc_open(e) ==
    /\ dev[e] \/ \E t \in Threads : th[t].e = e /\ At(t, "f_proc")
    /\ files[e]["proc"] < MaxFiles
    /\ enclave_get(e)
    /\ files' = [files EXCEPT ![e]["proc"] = @ + 1]
    /\ UNCHANGED <<enclave_map, mem, id, state, dev, parts, th>>

\* Through a device file, under op_lock.  The reference is taken first and
\* given back if there is no file.
ConnectCtrlSlip(e) ==
    /\ files[e]["dev"] > 0 /\ OpLockFree(e)
    /\ files[e]["ctrl"] < MaxFiles
    /\ enclave_get(e)
    /\ files' \in {files, [files EXCEPT ![e]["ctrl"] = @ + 1]}
    /\ UNCHANGED <<enclave_map, mem, id, state, dev, parts, th>>

pisces_ctrl_connect(e) ==
    /\ files[e]["dev"] > 0 /\ OpLockFree(e)
    /\ files[e]["ctrl"] < MaxFiles
    /\ \/ enclave_get(e) /\ files' = [files EXCEPT ![e]["ctrl"] = @ + 1]
       \/ UNCHANGED <<refcount, files>>
    /\ UNCHANGED <<enclave_map, mem, id, state, dev, parts, th>>

\* The console's file takes no reference.
pisces_cons_connect(e) ==
    /\ files[e]["dev"] > 0 /\ OpLockFree(e)
    /\ files[e]["cons"] = 0
    /\ "console" \in Faults \/ state[e] # "dead"
    /\ files' = [files EXCEPT ![e]["cons"] = @ + 1]
    /\ UNCHANGED <<enclave_map, mem, id, refcount, state, dev, parts, th>>

\* The last close of a file nobody is using.
ReleaseRef(e, kind) ==
    /\ files[e][kind] > Cardinality(Users(e, kind))
    /\ files' = [files EXCEPT ![e][kind] = @ - 1]
    /\ enclave_put(e)
    /\ UNCHANGED <<enclave_map, id, state, dev, desc, lcall, alive, fs, th>>

ReleaseCons(e) ==
    /\ files[e]["cons"] > 0
    /\ files' = [files EXCEPT ![e]["cons"] = 0]
    /\ UNCHANGED <<enclave_map, mem, id, refcount, state, dev, parts, th>>
-----------------------------------------------------------------------------
(* LAUNCH and RESET, under op_lock.                                        *)

Launch(t, e) ==
    /\ At(t, "none")
    /\ files[e]["dev"] > 0 /\ OpLockFree(e)
    /\ "free" \in Faults \/ state[e] # "dead"
    /\ th' = [th EXCEPT ![t] = [Free0 EXCEPT !.pc = "setup", !.e = e]]
    /\ UNCHANGED <<enclave_map, mem, id, refcount, state, dev, files, parts>>

\* setup_boot_params: a descriptor for the control channel, for which there may
\* be no memory, the long-call server and its thread, the images.  It stops at
\* the first that fails, and a failed read closes the image, whose reference
\* stays with the enclave.  What desc and lcall named before is lost, not taken
\* down: after a LAUNCH that failed to boot the next one leaves the first thread
\* running, and nothing will ever stop it.
setup_boot_params(t) ==
    LET e == th[t].e IN
    /\ At(t, "setup")
    /\ \/ Return(t) /\ UNCHANGED <<desc, lcall, images>>
       \/ /\ \E d \in {"live", "null"} : desc' = [desc EXCEPT ![e] = d]
          /\ \/ Return(t) /\ UNCHANGED <<lcall, images>>
             \/ /\ lcall' = [lcall EXCEPT ![e] = "idle"]
                /\ \/ Goto(t, "boot") /\ UNCHANGED images
                   \/ /\ "image" \in Faults
                      /\ Return(t)
                      /\ images' = [images EXCEPT ![e] = @ - 1]
    /\ UNCHANGED <<enclave_map, mem, id, refcount, state, dev, files, alive, fs>>

boot_enclave(t) ==
    LET e == th[t].e IN
    /\ At(t, "boot")
    /\ \/ /\ state' = [state EXCEPT ![e] = "running"]
          /\ alive' = [alive EXCEPT ![e] = TRUE]
       \/ UNCHANGED <<state, alive>>
    /\ Return(t)
    /\ UNCHANGED <<enclave_map, mem, id, refcount, dev, files, desc, lcall, fs, images>>

Reset(t, e) ==
    /\ At(t, "none")
    /\ files[e]["dev"] > 0 /\ OpLockFree(e)
    /\ "free" \in Faults \/ state[e] # "dead"
    /\ alive' = [alive EXCEPT ![e] = FALSE]
    /\ th' = [th EXCEPT ![t] = [Free0 EXCEPT !.pc = "r_ctrl", !.e = e]]
    /\ UNCHANGED <<enclave_map, mem, id, refcount, state, dev, files, desc, lcall, fs, images>>

ResetCtrl(t) ==
    /\ At(t, "r_ctrl")
    /\ pisces_ctrl_deinit(t, "r_lcall")
    /\ UNCHANGED <<enclave_map, mem, id, refcount, state, dev, files, lcall, alive, fs, images>>

\* kthread_stop waits for the call the thread is in.  Where kern_thread names no
\* thread that lives (no launch got that far, or it was stopped before) it is an
\* oops: the caller never goes on.
ResetLcall(t) ==
    /\ At(t, "r_lcall")
    /\ lcall[th[t].e] = "idle"
    /\ lcall' = [lcall EXCEPT ![th[t].e] = "none"]
    /\ Goto(t, "setup")
    /\ UNCHANGED <<enclave_map, mem, id, refcount, state, dev, files, desc, alive, fs, images>>
-----------------------------------------------------------------------------
(* A control command: the descriptor is read before the lock is taken.     *)

CtrlBegin(t, e) ==
    /\ At(t, "none")
    /\ files[e]["ctrl"] > Cardinality(Users(e, "ctrl"))
    /\ th' = [th EXCEPT ![t] = [Free0 EXCEPT !.pc = "c_lock", !.e = e, !.xbuf = desc[e]]]
    /\ UNCHANGED <<enclave_map, mem, id, refcount, state, dev, files, parts>>

CtrlLock(t) ==
    /\ At(t, "c_lock")
    /\ CtrlLockFree(th[t].e)
    /\ IF state[th[t].e] = "running" THEN Goto(t, "c_send") ELSE Return(t)
    /\ UNCHANGED <<enclave_map, mem, id, refcount, state, dev, files, parts>>

\* The command is sent and answered (jobs, files, VMs, resources); SHUTDOWN
\* also stops the enclave's kernel.
CtrlSend(t) ==
    LET e == th[t].e IN
    /\ At(t, "c_send")
    /\ alive' \in {alive, [alive EXCEPT ![e] = FALSE]}
    /\ Return(t)
    /\ UNCHANGED <<enclave_map, mem, id, refcount, state, dev, files, desc, lcall, fs, images>>

\* The enclave makes a long call, and the thread serves it.
LcallBegin(e) ==
    /\ alive[e] /\ lcall[e] = "idle"
    /\ lcall' = [lcall EXCEPT ![e] = "busy"]
    /\ UNCHANGED <<enclave_map, mem, id, refcount, state, dev, files, desc, alive, fs,
                   images, th>>

LcallEnd(e) ==
    /\ lcall[e] = "busy"
    /\ lcall' = [lcall EXCEPT ![e] = "idle"]
    /\ UNCHANGED <<enclave_map, mem, id, refcount, state, dev, files, desc, alive, fs,
                   images, th>>
-----------------------------------------------------------------------------
(* FREE.                                                                   *)

\* Nobody opens, launches, resets or frees the enclave meanwhile, and its console
\* is closed.
Orderly(e) ==
    /\ "free" \in Faults \/ \A t \in Threads : th[t].e # e \/ InCtrl(t)
    /\ "console" \in Faults \/ files[e]["cons"] = 0

\* device_ioctl finds the enclave in the map; pisces_enclave_free says at once
\* that it is dead.
pisces_enclave_free(t, i) ==
    LET e == enclave_map[i] IN
    /\ At(t, "none")
    /\ e # None
    /\ Orderly(e)
    /\ state' = [state EXCEPT ![e] = "dead"]
    /\ th' = [th EXCEPT ![t] = [Free0 EXCEPT !.pc = "f_dev", !.e = e]]
    /\ UNCHANGED <<enclave_map, mem, id, refcount, dev, files, parts>>

\* device_destroy, cdev_del, and kfree of the control descriptor.
FreeDev(t) ==
    /\ At(t, "f_dev")
    /\ dev' = [dev EXCEPT ![th[t].e] = FALSE]
    /\ pisces_ctrl_deinit(t, "f_proc")
    /\ UNCHANGED <<enclave_map, mem, id, refcount, state, files, lcall, alive, fs, images>>

\* Removing the proc entries releases the proc files that are still open.
FreeProcSlip(t) ==
    LET e == th[t].e IN
    /\ At(t, "f_proc")
    /\ files' = [files EXCEPT ![e]["proc"] = 0]
    /\ refcount' = [refcount EXCEPT ![e] = @ - files[e]["proc"]]
    /\ Goto(t, "f_fs")
    /\ UNCHANGED <<enclave_map, mem, id, state, dev, parts>>

FreeProc(t) ==
    LET e == th[t].e IN
    /\ At(t, "f_proc")
    /\ files' = [files EXCEPT ![e]["proc"] = 0]
    /\ refcount' = [refcount EXCEPT ![e] = @ - files[e]["proc"]]
    /\ enclave_map' = [enclave_map EXCEPT ![id[e]] = None]
    /\ Goto(t, "f_fs")
    /\ UNCHANGED <<mem, id, state, dev, parts>>

\* deinit_enclave_fs and deinit_enclave_pci, before the thread that uses them is
\* stopped.
FreeFs(t) ==
    /\ At(t, "f_fs")
    /\ fs' = [fs EXCEPT ![th[t].e] = FALSE]
    /\ Goto(t, "f_lcall")
    /\ UNCHANGED <<enclave_map, mem, id, refcount, state, dev, files, desc, lcall, alive, images>>

FreeLcall(t) ==
    /\ At(t, "f_lcall")
    /\ lcall[th[t].e] = "idle"
    /\ lcall' = [lcall EXCEPT ![th[t].e] = "none"]
    /\ Goto(t, "f_put")
    /\ UNCHANGED <<enclave_map, mem, id, refcount, state, dev, files, desc, alive, fs, images>>

FreePut(t) ==
    /\ At(t, "f_put")
    /\ enclave_put(th[t].e)
    /\ Return(t)
    /\ UNCHANGED <<enclave_map, id, state, dev, files, desc, lcall, alive, fs>>
-----------------------------------------------------------------------------
Next ==
    \/ \E t \in Threads, e \in Objects :
        \/ alloc_enclave_index(t, e) \/ OpenFind(t, e) \/ Launch(t, e)
        \/ Reset(t, e) \/ CtrlBegin(t, e)
    \/ \E t \in Threads :
        \/ Claim(t) \/ pisces_enclave_create(t) \/ enclave_open(t)
        \/ setup_boot_params(t) \/ boot_enclave(t) \/ ResetCtrl(t) \/ ResetLcall(t)
        \/ CtrlLock(t) \/ CtrlSend(t)
        \/ FreeDev(t) \/ FreeProc(t) \/ FreeFs(t) \/ FreeLcall(t) \/ FreePut(t)
    \/ \E t \in Threads, i \in Slots : pisces_enclave_free(t, i)
    \/ \E e \in Objects :
        \/ proc_open(e) \/ pisces_ctrl_connect(e) \/ pisces_cons_connect(e)
        \/ ReleaseCons(e) \/ LcallBegin(e) \/ LcallEnd(e)
    \/ \E e \in Objects, kind \in RefKinds : ReleaseRef(e, kind)

Spec == Init /\ [][Next]_vars
-----------------------------------------------------------------------------
(* Properties.                                                             *)

RefFiles(e) == files[e]["dev"] + files[e]["ctrl"] + files[e]["proc"]

\* The reference of LOAD, which FREE gives back last.
Owned(e) == state[e] # "dead" \/ \E t \in Threads : th[t].e = e /\ InFree(t)

(* The reference count is the number of open device, control and proc files
   and one for the enclave that was not freed, whatever FREE, opens, failed
   connects and closes interleave; and the object is freed exactly when it
   gets to 0, so it outlives every file that refers to it and no longer.   *)
RefsCounted ==
    \A e \in Objects :
        /\ mem[e] /\ (\A t \in Threads : th[t].e = e => ~InLoad(t))
            => /\ refcount[e] = RefFiles(e) + (IF Owned(e) THEN 1 ELSE 0)
               /\ refcount[e] > 0
        /\ ~mem[e] => RefFiles(e) = 0 /\ files[e]["cons"] = 0

(* No thread is in a call on an object that is not allocated, the long-call
   thread that FREE will stop included, and the map holds allocated objects
   only, each in the slot that is or will be its id, whatever commands, launches
   and failed launches FREE and the last close meet (enclave.c:627-690).  A
   thread that a LAUNCH replaced is not among them: it outlives the object.  *)
NoDangling ==
    /\ \A t \in Threads : th[t].e # None => mem[th[t].e]
    /\ \A e \in Objects : lcall[e] # "none" => mem[e]
    /\ \A i \in Slots : LET e == enclave_map[i] IN
        e # None => mem[e] /\ (id[e] = i \/ \E t \in Threads : th[t].e = e /\ InLoad(t))

(* An enclave that was loaded and not freed is in the map, in the slot that is
   its id: FREE, which knows it by that number only, can reach it, and no two
   enclaves have the same device number.  alloc_enclave_index searches and
   claims without a lock.                                                  *)
Reachable ==
    \A e \in Objects :
        mem[e] /\ state[e] # "dead" /\ (\A t \in Threads : th[t].e = e => ~InLoad(t))
            => enclave_map[id[e]] = e

(* ctrl_ioctl lets no command through to a "non-running enclave"
   (enclave_ctrl.c:238-246), and holds ctrl->lock from this check on: the
   descriptor that a command past it sends with has not been freed.        *)
CommandsSafe ==
    \A t \in Threads : At(t, "c_send") => th[t].xbuf # "freed"

(* When the object is freed nothing that its fields name is left: the image was
   put once, the thread is stopped, the descriptor is freed, and there is no file
   service, no device and no slot of the map, however often the enclave was
   launched and whatever failed (enclave.c:627-690, pisces_lcall.c:185).  What a
   second LAUNCH replaced is not named any more, and is left.              *)
FreedClean ==
    \A e \in Objects :
        ~mem[e] => /\ images[e] = 0 /\ lcall[e] = "none" /\ desc[e] # "live"
                   /\ ~fs[e] /\ ~dev[e]
                   /\ \A i \in Slots : enclave_map[i] # e

(* The invariant of the reference count: types, and every reference counted
   on every path of enclave.c, enclave_ctrl.c and enclave_cons.c.          *)
RefsInv == TypeOK /\ RefsCounted
=============================================================================
