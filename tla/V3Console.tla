----------------------------- MODULE V3Console -----------------------------
(***************************************************************************)
(* The console of a virtual machine (v3_console.c) and the interrupt       *)
(* vectors it is kicked with (pisces_irq.c).  The VMM, in the enclave,     *)
(* appends messages to a ring in its memory and sends an IPI to the vector *)
(* that the ring names; the interrupt handler wakes the host threads that  *)
(* wait in read and poll.  A message is its number.                        *)
(***************************************************************************)
EXTENDS Integers, Sequences, FiniteSets

CONSTANTS Threads,        \* host threads that read and poll
          Conns,          \* struct palacios_console objects
          Vectors,        \* interrupt vectors
          NoVec, NoCons,
          TotalEntries,   \* ringbuf->total_entries
          MaxMsgs,        \* bound: messages the VMM writes
          Shared          \* may a VM have two consoles open at a time?  The
                          \* code does not refuse it.

ASSUME V3Assumption ==
    /\ TotalEntries \in Nat \ {0}
    /\ MaxMsgs \in Nat
    /\ NoVec \notin Vectors
    /\ NoCons \notin Conns
    /\ Shared \in BOOLEAN

VARIABLES
    ring_lock, r_idx, w_idx, cur_entries, msgs,   \* struct cons_ring_buf
    kick_ipi_vec,   \* the vector the ring names
    conn,           \* each console: where its connect or release is
    irq,            \* cons->irq
    ready,          \* is cons->intr_queue initialised?
    handler,        \* the console registered for a vector
    pend,           \* vectors with an IPI under way
    th,             \* the read or poll each thread is in
    vmm,            \* the VMM: its place in a write, and does it have a client?
    sent, recvd     \* history: messages written and dequeued

vring == <<ring_lock, r_idx, w_idx, cur_entries, msgs>>
vvars == <<vring, kick_ipi_vec, conn, irq, ready, handler, pend, th, vmm, sent, recvd>>

NoCall == [pc |-> "idle", c |-> NoCons]

VTypeOK ==
    /\ ring_lock \in {0, 1}
    /\ r_idx \in 0 .. TotalEntries - 1 /\ w_idx \in 0 .. TotalEntries - 1
    /\ cur_entries \in 0 .. TotalEntries
    /\ msgs \in [0 .. TotalEntries - 1 -> Nat]
    /\ kick_ipi_vec \in Vectors \cup {NoVec}
    /\ conn \in [Conns -> {"none", "irq", "vec", "file", "open", "leaked", "free_irq", "kfree"}]
    /\ irq \in [Conns -> Vectors \cup {NoVec}]
    /\ ready \in [Conns -> BOOLEAN]
    /\ handler \in [Vectors -> Conns \cup {NoCons}]
    /\ pend \subseteq Vectors
    /\ th \in [Threads -> [pc : {"idle", "check", "sleep", "lock", "dequeue",
                                 "plock", "pin", "psleep"}, c : Conns \cup {NoCons}]]
    /\ vmm \in [pc : {"idle", "in", "kick"}, client : BOOLEAN]
    /\ sent \in Nat /\ recvd \in Nat

VInit ==
    /\ ring_lock = 0 /\ r_idx = 0 /\ w_idx = 0 /\ cur_entries = 0
    /\ msgs = [i \in 0 .. TotalEntries - 1 |-> 0]
    /\ kick_ipi_vec = NoVec
    /\ conn = [c \in Conns |-> "none"]
    /\ irq = [c \in Conns |-> NoVec]
    /\ ready = [c \in Conns |-> FALSE]
    /\ handler = [v \in Vectors |-> NoCons]
    /\ pend = {}
    /\ th = [t \in Threads |-> NoCall]
    /\ vmm = [pc |-> "idle", client |-> FALSE]
    /\ sent = 0 /\ recvd = 0

Connecting == \E c \in Conns : conn[c] \in {"irq", "vec", "file"}
Sleeping(t) == th[t].pc \in {"sleep", "psleep"}
Goto(t, label) == th' = [th EXCEPT ![t].pc = label]
-----------------------------------------------------------------------------
(* v3_console_connect, under ctrl->lock: one at a time.                    *)

\* The VMM has answered VM_CONS_CONNECT with the address of its ring.  It may
\* be in the middle of a write, and it does not wait for the connect.
ConnectBegin(c) ==
    /\ conn[c] = "none"
    /\ ~Connecting
    /\ Shared \/ \A d \in Conns : conn[d] # "open"
    /\ conn' = [conn EXCEPT ![c] = "irq"]
    /\ ready' = [ready EXCEPT ![c] = FALSE]
    /\ vmm' = [vmm EXCEPT !.client = TRUE]
    /\ UNCHANGED <<vring, kick_ipi_vec, irq, handler, pend, th, sent, recvd>>

\* A vector nobody has.  An IPI of its last user may still be under way.
pisces_request_irq(c) ==
    /\ conn[c] = "irq"
    /\ \/ \E v \in Vectors :
            /\ handler[v] = NoCons
            /\ handler' = [handler EXCEPT ![v] = c]
            /\ irq' = [irq EXCEPT ![c] = v]
            /\ conn' = [conn EXCEPT ![c] = "vec"]
       \/ /\ conn' = [conn EXCEPT ![c] = "none"]
          /\ UNCHANGED <<handler, irq>>
    /\ UNCHANGED <<vring, kick_ipi_vec, ready, pend, th, vmm, sent, recvd>>

\* kick_ipi_vec is a u16: the error of pisces_irq_to_vector is stored as a
\* vector that reaches nobody, and the check for it never fires.
SetVector(c) ==
    /\ conn[c] = "vec"
    /\ kick_ipi_vec' \in {irq[c], NoVec}
    /\ conn' = [conn EXCEPT ![c] = "file"]
    /\ UNCHANGED <<vring, irq, ready, handler, pend, th, vmm, sent, recvd>>

\* A failed anon_inode_getfd leaves the console and its vector behind.
ConnectFile(c) ==
    /\ conn[c] = "file"
    /\ ready' = [ready EXCEPT ![c] = TRUE]
    /\ \E s \in {"open", "leaked"} : conn' = [conn EXCEPT ![c] = s]
    /\ UNCHANGED <<vring, kick_ipi_vec, irq, handler, pend, th, vmm, sent, recvd>>
-----------------------------------------------------------------------------
(* console_release: the disconnect command, then the vector, then kfree.   *)

\* The command may not reach the enclave; the release goes on.
ReleaseBegin(c) ==
    /\ conn[c] = "open"
    /\ \A t \in Threads : th[t].c # c
    /\ conn' = [conn EXCEPT ![c] = "free_irq"]
    /\ \E client \in {FALSE, vmm.client} : vmm' = [vmm EXCEPT !.client = client]
    /\ UNCHANGED <<vring, kick_ipi_vec, irq, ready, handler, pend, th, sent, recvd>>

\* The console is freed while its handler is still registered.
ReleaseIrqSlip(c) ==
    /\ conn[c] = "free_irq"
    /\ conn' = [conn EXCEPT ![c] = "none"]
    /\ UNCHANGED <<vring, kick_ipi_vec, irq, ready, handler, pend, th, vmm, sent, recvd>>

pisces_release_irq(c) ==
    /\ conn[c] = "free_irq"
    /\ handler' = [handler EXCEPT ![irq[c]] = NoCons]
    /\ irq' = [irq EXCEPT ![c] = NoVec]
    /\ conn' = [conn EXCEPT ![c] = "kfree"]
    /\ UNCHANGED <<vring, kick_ipi_vec, ready, pend, th, vmm, sent, recvd>>

ReleaseFree(c) ==
    /\ conn[c] = "kfree"
    /\ conn' = [conn EXCEPT ![c] = "none"]
    /\ ready' = [ready EXCEPT ![c] = FALSE]
    /\ UNCHANGED <<vring, kick_ipi_vec, irq, handler, pend, th, vmm, sent, recvd>>
-----------------------------------------------------------------------------
(* The interrupt.                                                          *)

Wake(c) == th' = [t \in Threads |->
    IF th[t].c # c THEN th[t]
    ELSE CASE th[t].pc = "sleep"  -> [th[t] EXCEPT !.pc = "check"]
           [] th[t].pc = "psleep" -> [th[t] EXCEPT !.pc = "plock"]
           [] OTHER               -> th[t]]

KickSlip(v) ==
    /\ v \in pend
    /\ pend' = pend \ {v}
    /\ IF handler[v] # NoCons /\ cur_entries > 1 THEN Wake(handler[v]) ELSE UNCHANGED th
    /\ UNCHANGED <<vring, kick_ipi_vec, conn, irq, ready, handler, vmm, sent, recvd>>

cons_kick(v) ==
    /\ v \in pend
    /\ pend' = pend \ {v}
    /\ IF handler[v] # NoCons /\ cur_entries > 0 THEN Wake(handler[v]) ELSE UNCHANGED th
    /\ UNCHANGED <<vring, kick_ipi_vec, conn, irq, ready, handler, vmm, sent, recvd>>
-----------------------------------------------------------------------------
(* console_read and console_poll.                                          *)

CallBegin(t, c) ==
    /\ conn[c] = "open"
    /\ th[t] = NoCall
    /\ \E label \in {"check", "plock"} : th' = [th EXCEPT ![t] = [pc |-> label, c |-> c]]
    /\ UNCHANGED <<vring, kick_ipi_vec, conn, irq, ready, handler, pend, vmm, sent, recvd>>

\* wait_event: on the queue first, then the condition.
WaitEvent(t) ==
    /\ th[t].pc = "check"
    /\ Goto(t, IF cur_entries >= 1 THEN "lock" ELSE "sleep")
    /\ UNCHANGED <<vring, kick_ipi_vec, conn, irq, ready, handler, pend, vmm, sent, recvd>>

\* The return value of the interrupted wait is not looked at.
Signal(t) ==
    /\ th[t].pc = "sleep"
    /\ Goto(t, "lock")
    /\ UNCHANGED <<vring, kick_ipi_vec, conn, irq, ready, handler, pend, vmm, sent, recvd>>

TakeLock(t) ==
    /\ th[t].pc \in {"lock", "plock"}
    /\ ring_lock = 0
    /\ ring_lock' = 1
    /\ Goto(t, IF th[t].pc = "lock" THEN "dequeue" ELSE "pin")
    /\ UNCHANGED <<r_idx, w_idx, cur_entries, msgs, kick_ipi_vec, conn, irq, ready,
                   handler, pend, vmm, sent, recvd>>

\* The index stops at the last entry.
DequeueSlip(t) ==
    /\ th[t].pc = "dequeue"
    /\ ring_lock' = 0
    /\ IF cur_entries > 0
       THEN /\ cur_entries' = cur_entries - 1
            /\ r_idx' = IF r_idx + 1 < TotalEntries THEN r_idx + 1 ELSE r_idx
            /\ recvd' = recvd + 1
       ELSE UNCHANGED <<cur_entries, r_idx, recvd>>
    /\ th' = [th EXCEPT ![t] = NoCall]
    /\ UNCHANGED <<w_idx, msgs, kick_ipi_vec, conn, irq, ready, handler, pend, vmm, sent>>

\* An empty ring is the "Null console message"; the copy to user space may
\* fault, and the message is gone either way.
cons_dequeue(t) ==
    /\ th[t].pc = "dequeue"
    /\ ring_lock' = 0
    /\ IF cur_entries > 0
       THEN /\ cur_entries' = cur_entries - 1
            /\ r_idx' = (r_idx + 1) % TotalEntries
            /\ recvd' = recvd + 1
       ELSE UNCHANGED <<cur_entries, r_idx, recvd>>
    /\ th' = [th EXCEPT ![t] = NoCall]
    /\ UNCHANGED <<w_idx, msgs, kick_ipi_vec, conn, irq, ready, handler, pend, vmm, sent>>

\* With entries poll returns; without, the caller sleeps on the queue.
console_poll(t) ==
    /\ th[t].pc = "pin"
    /\ ring_lock' = 0
    /\ th' = [th EXCEPT ![t] = IF cur_entries > 0 THEN NoCall ELSE [@ EXCEPT !.pc = "psleep"]]
    /\ UNCHANGED <<r_idx, w_idx, cur_entries, msgs, kick_ipi_vec, conn, irq, ready,
                   handler, pend, vmm, sent, recvd>>

\* poll's own timeout, or a signal.
PollGivesUp(t) ==
    /\ th[t].pc = "psleep"
    /\ th' = [th EXCEPT ![t] = NoCall]
    /\ UNCHANGED <<vring, kick_ipi_vec, conn, irq, ready, handler, pend, vmm, sent, recvd>>
-----------------------------------------------------------------------------
(* The VMM, external: it takes the lock, appends, lets go, and kicks the   *)
(* vector the ring names while it has a client.                            *)

VmmLock ==
    /\ vmm.pc = "idle"
    /\ sent < MaxMsgs
    /\ ring_lock = 0
    /\ ring_lock' = 1
    /\ vmm' = [vmm EXCEPT !.pc = "in"]
    /\ UNCHANGED <<r_idx, w_idx, cur_entries, msgs, kick_ipi_vec, conn, irq, ready,
                   handler, pend, th, sent, recvd>>

VmmPut ==
    /\ vmm.pc = "in"
    /\ ring_lock' = 0
    /\ IF cur_entries < TotalEntries
       THEN /\ msgs' = [msgs EXCEPT ![w_idx] = sent + 1]
            /\ w_idx' = (w_idx + 1) % TotalEntries
            /\ cur_entries' = cur_entries + 1
            /\ sent' = sent + 1
            /\ vmm' = [vmm EXCEPT !.pc = "kick"]
       ELSE /\ vmm' = [vmm EXCEPT !.pc = "idle"]
            /\ UNCHANGED <<msgs, w_idx, cur_entries, sent>>
    /\ UNCHANGED <<r_idx, kick_ipi_vec, conn, irq, ready, handler, pend, th, recvd>>

VmmKick ==
    /\ vmm.pc = "kick"
    /\ vmm' = [vmm EXCEPT !.pc = "idle"]
    /\ pend' = IF vmm.client /\ kick_ipi_vec # NoVec THEN pend \cup {kick_ipi_vec} ELSE pend
    /\ UNCHANGED <<vring, kick_ipi_vec, conn, irq, ready, handler, th, sent, recvd>>
-----------------------------------------------------------------------------
ConnectStep == \E c \in Conns : pisces_request_irq(c) \/ SetVector(c) \/ ConnectFile(c)

VNext ==
    \/ \E c \in Conns : ConnectBegin(c) \/ ReleaseBegin(c)
    \/ ConnectStep
    \/ \E c \in Conns : pisces_release_irq(c) \/ ReleaseFree(c)
    \/ \E v \in Vectors : cons_kick(v)
    \/ \E t \in Threads, c \in Conns : CallBegin(t, c)
    \/ \E t \in Threads : \/ WaitEvent(t) \/ Signal(t) \/ TakeLock(t)
                          \/ cons_dequeue(t) \/ console_poll(t) \/ PollGivesUp(t)
    \/ VmmLock \/ VmmPut \/ VmmKick

(* A connect that has begun goes on, interrupts are taken, and the VMM     *)
(* finishes a write it began.                                              *)
VFairness ==
    /\ WF_vvars(ConnectStep)
    /\ WF_vvars(VmmPut) /\ WF_vvars(VmmKick)
    /\ \A v \in Vectors : WF_vvars(cons_kick(v))

VSpec == VInit /\ [][VNext]_vvars /\ VFairness
-----------------------------------------------------------------------------
(* Properties.                                                             *)

\* The console the VMM kicks.
Kicked(c) == vmm.client /\ kick_ipi_vec # NoVec /\ kick_ipi_vec = irq[c]

(* Messages come out of the ring once each and in the order the VMM wrote
   them, with any number of readers and with polls beside them
   (cons_dequeue).                                                         *)
MessagesIntact ==
    /\ recvd + cur_entries = sent
    /\ \A i \in 0 .. cur_entries - 1 : msgs[(r_idx + i) % TotalEntries] = recvd + i + 1

(* The interrupt handler never runs on a console that was freed: whenever a
   vector has a handler, the console it points to is allocated and knows the
   vector (release frees the vector first, then the console).              *)
HandlerAlive ==
    \A v \in Vectors :
        handler[v] # NoCons => conn[handler[v]] # "none" /\ irq[handler[v]] = v

(* The only consoles whose wait queue an interrupt finds uninitialised are the
   ones whose connect is between pisces_request_irq and init_waitqueue_head.
   There an IPI that comes early, or one left over from the last user of the
   vector, does find it so: v3_console_connect registers and publishes the
   vector first.  Neither release nor a failed connect adds another case.  *)
QueueReady ==
    \A v \in Vectors :
        handler[v] # NoCons /\ conn[handler[v]] \notin {"vec", "file"} => ready[handler[v]]

(* A thread that sleeps while the ring holds messages, on the console that
   the VMM kicks, has a kick coming: no wake-up is lost between the check of
   cur_entries, the VMM's write and its IPI.                               *)
SleeperHasKick ==
    \A t \in Threads :
        Sleeping(t) /\ cur_entries > 0 /\ Kicked(th[t].c)
            => irq[th[t].c] \in pend \/ vmm.pc = "kick"

(* And the kick arrives: such a thread does not sleep for ever, unless the
   messages or the VMM's kicks go to somebody else.                        *)
SleeperWakes ==
    \A t \in Threads : \A c \in Conns :
        (Sleeping(t) /\ th[t].c = c /\ cur_entries > 0 /\ Kicked(c))
            ~> (~Sleeping(t) \/ cur_entries = 0 \/ ~Kicked(c))

(* The invariant of the VM's ring: types, no message lost or doubled, and no
   sleeper without a kick (cons_dequeue, console_read, console_poll).      *)
VmRingInv == VTypeOK /\ MessagesIntact /\ SleeperHasKick

(* An interrupt, early, late or left over, finds the console it is for
   allocated, and with its wait queue initialised unless the connect that
   registered the handler has not got to it yet (cons_kick beside
   v3_console_connect and console_release).                                *)
KickSafe == HandlerAlive /\ QueueReady
=============================================================================
