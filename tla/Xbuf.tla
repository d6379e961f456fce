-------------------------------- MODULE Xbuf --------------------------------
(***************************************************************************)
(* The cross-buffer (xbuf) of src/pisces_xbuf.c: one page shared by the    *)
(* threads of one kernel that issue requests (Senders, in                  *)
(* pisces_xbuf_sync_send) and the thread of the other kernel that serves   *)
(* them (Server, in pisces_xbuf_recv and pisces_xbuf_complete).            *)
(*                                                                         *)
(* A message of more bytes than the buffer holds is handed over in chunks: *)
(* the sending end copies a chunk and raises STAGED, the receiving end     *)
(* copies it out and lowers STAGED.  Both directions use the same code     *)
(* (send_data, recv_data), so the actions below take the thread t that     *)
(* runs them.  A byte is a record that says which message it belongs to    *)
(* and its position in it; Junk is what kmalloc or an earlier user left.   *)
(***************************************************************************)
EXTENDS Integers, FiniteSets

CONSTANTS
  Senders,   (* threads that call pisces_xbuf_sync_send on one descriptor  *)
  Server,    (* the thread the recv_handler hands a request to             *)
  Size,      (* xbuf->total_size, bytes of data the page holds             *)
  ReqLens,   (* lengths of the requests                                    *)
  RespLens,  (* lengths of the responses, 0 for none                       *)
  MaxMsgs,   (* bound: requests begun in a behaviour                       *)
  MaxInits   (* bound: times the channel is initialised                    *)

ASSUME ServerAssumption == Server \notin Senders
ASSUME SizeAssumption   == Size \in Nat \ {0}
ASSUME LensAssumption   == ReqLens \subseteq Nat \ {0} /\ RespLens \subseteq Nat
ASSUME BoundAssumption  == MaxMsgs \in Nat /\ MaxInits \in Nat

VARIABLES
  flags,     (* the raised bits of xbuf->flags                             *)
  data_len,  (* xbuf->data_len                                             *)
  data,      (* xbuf->data                                                 *)
  ipi,       (* the doorbell interrupt is pending at the serving kernel    *)
  notified,  (* recv_handler has told the serving thread of a request      *)
  pc,        (* where each thread is                                       *)
  tag,       (* number of the message whose bytes the thread is sending    *)
  len,       (* length of that message                                     *)
  off,       (* bytes_sent or bytes_read                                   *)
  inlen,     (* *data_len, length of the message being received            *)
  in,        (* *data, the buffer it is received into                      *)
  msgs,      (* number of requests begun                                   *)
  inits      (* number of times the channel was initialised                *)

chan  == <<flags, data_len, data>>
local == <<tag, len, off, inlen, in>>
vars  == <<flags, data_len, data, ipi, notified, pc, tag, len, off, inlen, in,
           msgs, inits>>

Threads == Senders \union {Server}
Flags   == {"ready", "pending", "staged", "active", "complete"}

Byte(k, m, i)  == [k |-> k, m |-> m, i |-> i]
Junk           == Byte("junk", 0, 0)
Bytes          == [k : {"req", "resp", "junk"}, m : Nat, i : Nat]
Message(k, m, n) == [i \in 1..n |-> Byte(k, m, i)]

(* Bytes of the next chunk when left bytes are still to be moved.          *)
Chunk(left) == IF left > Size THEN Size ELSE left

Kind(t) == IF t = Server THEN "resp" ELSE "req"

Goto(t, l) == pc' = [pc EXCEPT ![t] = l]

(***************************************************************************)
(* The flag word.  Each of the four is one locked instruction.             *)
(***************************************************************************)
reset_flags    == flags' = flags \intersect {"ready"}
set_flags(f)   == flags' = f
raise_flag(f)  == flags' = flags \union {f}
lower_flag(f)  == flags' = flags \ {f}

-----------------------------------------------------------------------------
(***************************************************************************)
(* Moving a message: the sending end.                                      *)
(***************************************************************************)

(* init_stage_data announces the length before it copies the first chunk.  *)
StageLen(t) ==
  /\ pc[t] = "len"
  /\ data_len' = len[t]
  /\ Goto(t, "put")
  /\ UNCHANGED <<flags, data, ipi, notified, local, msgs, inits>>

(* Slip: every chunk is copied from the start of the message.              *)
StagePut_FromStart(t) ==
  /\ pc[t] = "put"
  /\ data' = [i \in 1..Size |-> IF i <= Chunk(len[t] - off[t])
                                THEN Byte(Kind(t), tag[t], i)
                                ELSE data[i]]
  /\ Goto(t, "mark")
  /\ UNCHANGED <<flags, data_len, ipi, notified, local, msgs, inits>>

(* memcpy of the next chunk into the page.                                 *)
StagePut(t) ==
  /\ pc[t] = "put"
  /\ data' = [i \in 1..Size |-> IF i <= Chunk(len[t] - off[t])
                                THEN Byte(Kind(t), tag[t], off[t] + i)
                                ELSE data[i]]
  /\ Goto(t, "mark")
  /\ UNCHANGED <<flags, data_len, ipi, notified, local, msgs, inits>>

(* STAGED is raised once the chunk is there.  After the first chunk a      *)
(* sender rings the doorbell and the server raises COMPLETE.               *)
StageMark(t) ==
  /\ pc[t] = "mark"
  /\ raise_flag("staged")
  /\ off' = [off EXCEPT ![t] = @ + Chunk(len[t] - @)]
  /\ Goto(t, IF off[t] > 0 THEN "send"
             ELSE IF t = Server THEN "complete" ELSE "ipi")
  /\ UNCHANGED <<data_len, data, ipi, notified, tag, len, inlen, in, msgs,
                 inits>>

(* Where the caller of send_data goes on; its return value is ignored.     *)
AfterSend(t) == IF t = Server THEN "idle" ELSE "done"

(* Slip: send_data does not wait for the chunk to be taken.                *)
send_data_NoWait(t) ==
  /\ pc[t] = "send"
  /\ Goto(t, IF off[t] = len[t] \/ "ready" \notin flags THEN AfterSend(t) ELSE "put")
  /\ UNCHANGED <<chan, ipi, notified, local, msgs, inits>>

(* The loop of send_data: it spins while a chunk is staged and gives up    *)
(* when the channel is disabled.                                           *)
send_data(t) ==
  /\ pc[t] = "send"
  /\ \/ /\ off[t] = len[t] \/ "ready" \notin flags
        /\ Goto(t, AfterSend(t))
     \/ /\ off[t] < len[t]
        /\ "ready" \in flags
        /\ "staged" \notin flags
        /\ Goto(t, "put")
  /\ UNCHANGED <<chan, ipi, notified, local, msgs, inits>>

(***************************************************************************)
(* Moving a message: the receiving end.                                    *)
(***************************************************************************)

(* recv_data allocates a buffer for as many bytes as the page announces.   *)
(* pisces_xbuf_recv, the server's way in, first wants an accepted message; *)
(* without one it returns -1 and its caller gives up for good.             *)
RecvLen(t) ==
  /\ pc[t] = "rlen"
  /\ IF t = Server /\ "active" \notin flags
     THEN /\ Goto(t, "dead")
          /\ UNCHANGED <<inlen, in, off>>
     ELSE /\ inlen' = [inlen EXCEPT ![t] = data_len]
          /\ in'    = [in EXCEPT ![t] = [i \in 1..data_len |-> Junk]]
          /\ off'   = [off EXCEPT ![t] = 0]
          /\ Goto(t, "recv")
  /\ UNCHANGED <<chan, ipi, notified, tag, len, msgs, inits>>

(* Where the caller of recv_data goes on: sync_send gives up on 0 bytes,   *)
(* the server only looks for -1.                                           *)
AfterRecv(t) ==
  IF t = Server THEN "work"
  ELSE IF off[t] = inlen[t] /\ inlen[t] > 0 THEN "reset" ELSE "err"

(* The loop of recv_data: it spins until a chunk is staged and gives up    *)
(* when the channel is disabled.                                           *)
recv_data(t) ==
  /\ pc[t] = "recv"
  /\ \/ /\ off[t] = inlen[t] \/ "ready" \notin flags
        /\ Goto(t, AfterRecv(t))
     \/ /\ off[t] < inlen[t]
        /\ "ready" \in flags
        /\ "staged" \in flags
        /\ Goto(t, "take")
  /\ UNCHANGED <<chan, ipi, notified, local, msgs, inits>>

(* memcpy of the staged chunk out of the page.                             *)
RecvTake(t) ==
  /\ pc[t] = "take"
  /\ LET n == Chunk(inlen[t] - off[t])
     IN  in' = [in EXCEPT ![t] =
                  [i \in 1..inlen[t] |-> IF off[t] < i /\ i <= off[t] + n
                                         THEN data[i - off[t]]
                                         ELSE in[t][i]]]
  /\ Goto(t, "low")
  /\ UNCHANGED <<chan, ipi, notified, tag, len, off, inlen, msgs, inits>>

RecvLower(t) ==
  /\ pc[t] = "low"
  /\ lower_flag("staged")
  /\ off' = [off EXCEPT ![t] = @ + Chunk(inlen[t] - @)]
  /\ Goto(t, "recv")
  /\ UNCHANGED <<data_len, data, ipi, notified, tag, len, inlen, in, msgs,
                 inits>>

Transfer(t) ==
  \/ StageLen(t) \/ StagePut(t)  \/ StageMark(t) \/ send_data(t)
  \/ RecvLen(t)  \/ recv_data(t) \/ RecvTake(t)  \/ RecvLower(t)

-----------------------------------------------------------------------------
(***************************************************************************)
(* pisces_xbuf_sync_send, the client.                                      *)
(***************************************************************************)

(* A thread calls sync_send with a new request; no response yet.           *)
SendStart(s) ==
  /\ pc[s] = "idle"
  /\ msgs < MaxMsgs
  /\ msgs' = msgs + 1
  /\ tag' = [tag EXCEPT ![s] = msgs + 1]
  /\ \E n \in ReqLens : len' = [len EXCEPT ![s] = n]
  /\ off' = [off EXCEPT ![s] = 0]
  /\ inlen' = [inlen EXCEPT ![s] = 0]
  /\ in' = [in EXCEPT ![s] = [i \in 1..0 |-> Junk]]
  /\ Goto(s, "lock")
  /\ UNCHANGED <<chan, ipi, notified, inits>>

(* Slip: the channel is taken without raising PENDING.                     *)
SendAcquire_NoPending(s) ==
  /\ pc[s] = "lock"
  /\ Goto(s, IF "ready" \notin flags THEN "err" ELSE
             IF "pending" \in flags THEN "wait" ELSE "len")
  /\ UNCHANGED <<chan, ipi, notified, local, msgs, inits>>

(* The section under xbuf_lock: an unready channel is an error, a free one *)
(* is taken, a busy one is waited for.                                     *)
SendAcquire(s) ==
  /\ pc[s] = "lock"
  /\ \/ /\ "ready" \notin flags
        /\ Goto(s, "err")
        /\ UNCHANGED flags
     \/ /\ "ready" \in flags /\ "pending" \notin flags
        /\ flags' = (flags \intersect {"ready"}) \union {"pending"}
        /\ Goto(s, "len")
     \/ /\ "ready" \in flags /\ "pending" \in flags
        /\ Goto(s, "wait")
        /\ UNCHANGED flags
  /\ UNCHANGED <<data_len, data, ipi, notified, local, msgs, inits>>

(* wait_event_interruptible tests its condition and sleeps when it does    *)
(* not hold; it is on the queue before it tests.                           *)
SendWait(s) ==
  /\ pc[s] = "wait"
  /\ Goto(s, IF "pending" \in flags THEN "sleep" ELSE "lock")
  /\ UNCHANGED <<chan, ipi, notified, local, msgs, inits>>

(* A signal ends the sleep; sync_send ignores why it was woken.            *)
SendSignal(s) ==
  /\ pc[s] = "sleep"
  /\ Goto(s, "lock")
  /\ UNCHANGED <<chan, ipi, notified, local, msgs, inits>>

(* The doorbell.  Without a registered handler the interrupt is dropped.   *)
SendIpi(s) ==
  /\ pc[s] = "ipi"
  /\ ipi' = (pc[Server] # "down")
  /\ Goto(s, "send")
  /\ UNCHANGED <<chan, notified, local, msgs, inits>>

(* Slip: a staged buffer is taken for the response before COMPLETE.        *)
SendDone_Early(s) ==
  /\ pc[s] = "done"
  /\ "complete" \in flags \/ "staged" \in flags
  /\ Goto(s, IF "staged" \in flags THEN "rlen" ELSE "reset")
  /\ UNCHANGED <<chan, ipi, notified, local, msgs, inits>>

(* Slip: the response is left in the page.                                 *)
SendDone_NoFetch(s) ==
  /\ pc[s] = "done"
  /\ "complete" \in flags
  /\ Goto(s, "reset")
  /\ UNCHANGED <<chan, ipi, notified, local, msgs, inits>>

(* Spin for COMPLETE.  A staged buffer is then taken for the response.     *)
SendDone(s) ==
  /\ pc[s] = "done"
  /\ \/ /\ "complete" \in flags
        /\ Goto(s, IF "staged" \in flags THEN "rlen" ELSE "reset")
     \/ /\ "complete" \notin flags
        /\ "ready" \notin flags
        /\ Goto(s, "err")
  /\ UNCHANGED <<chan, ipi, notified, local, msgs, inits>>

(* Slip: sync_send returns without waking those that wait.                 *)
SendReset_NoWake(s) ==
  /\ pc[s] = "reset"
  /\ reset_flags
  /\ Goto(s, "idle")
  /\ UNCHANGED <<data_len, data, ipi, notified, local, msgs, inits>>

SendReset(s) ==
  /\ pc[s] = "reset"
  /\ reset_flags
  /\ Goto(s, "wake")
  /\ UNCHANGED <<data_len, data, ipi, notified, local, msgs, inits>>

(* wake_up_interruptible on xbuf_waitq; sync_send returns 0 or -1.         *)
SendReturn(s) ==
  /\ pc[s] \in {"wake", "err"}
  /\ pc' = [t \in Threads |-> IF t = s THEN "idle"
                              ELSE IF pc[t] = "sleep" THEN "wait" ELSE pc[t]]
  /\ UNCHANGED <<chan, ipi, notified, local, msgs, inits>>

Send(s) ==
  \/ SendAcquire(s) \/ SendWait(s)  \/ SendIpi(s)
  \/ SendDone(s)    \/ SendReset(s) \/ SendReturn(s)

-----------------------------------------------------------------------------
(***************************************************************************)
(* The server.                                                             *)
(***************************************************************************)

(* Slip: the handler tells the thread without accepting the message.       *)
irq_handler_NoActive ==
  /\ ipi
  /\ ipi' = FALSE
  /\ notified' = (notified \/ "pending" \in flags)
  /\ UNCHANGED <<chan, pc, local, msgs, inits>>

(* irq_handler accepts a pending message and calls recv_handler, which     *)
(* tells the serving thread.  Any other interrupt is IRQ_NONE.             *)
irq_handler ==
  /\ ipi
  /\ ipi' = FALSE
  /\ IF "pending" \in flags /\ "active" \notin flags
     THEN raise_flag("active") /\ notified' = TRUE
     ELSE UNCHANGED <<flags, notified>>
  /\ UNCHANGED <<data_len, data, pc, local, msgs, inits>>

(* The serving thread picks the notification up and calls pisces_xbuf_recv.*)
ServeBegin ==
  /\ pc[Server] = "idle"
  /\ notified
  /\ notified' = FALSE
  /\ Goto(Server, "rlen")
  /\ UNCHANGED <<chan, ipi, local, msgs, inits>>

(* The message a receive buffer says it belongs to.                        *)
ReadTag(t) == IF inlen[t] > 0 THEN in[t][1].m ELSE Junk.m

(* pisces_xbuf_complete with the response to the request it received.      *)
pisces_xbuf_complete ==
  /\ pc[Server] = "work"
  /\ IF "active" \notin flags
     THEN Goto(Server, "idle") /\ UNCHANGED <<tag, len, off>>
     ELSE \E n \in RespLens :
            /\ tag' = [tag EXCEPT ![Server] = ReadTag(Server)]
            /\ len' = [len EXCEPT ![Server] = n]
            /\ off' = [off EXCEPT ![Server] = 0]
            /\ Goto(Server, IF n > 0 THEN "len" ELSE "complete")
  /\ UNCHANGED <<chan, ipi, notified, inlen, in, msgs, inits>>

RaiseComplete ==
  /\ pc[Server] = "complete"
  /\ raise_flag("complete")
  /\ Goto(Server, "send")
  /\ UNCHANGED <<data_len, data, ipi, notified, local, msgs, inits>>

(* A handler that returns without completing the call it was given: the    *)
(* caller goes on spinning and the channel stays taken.                    *)
ServeAbandon ==
  /\ pc[Server] = "work"
  /\ Goto(Server, "idle")
  /\ UNCHANGED <<chan, ipi, notified, local, msgs, inits>>

Serve == ServeBegin \/ pisces_xbuf_complete \/ RaiseComplete \/ ServeAbandon

-----------------------------------------------------------------------------
(***************************************************************************)
(* The life of the channel.                                                *)
(***************************************************************************)

(* pisces_xbuf_server_init on a page whose clients do not run: the         *)
(* launcher has just cleared the boot memory it lies in.  The clients were *)
(* stopped, or a first launch set a server up and did not boot them.  When *)
(* it fails nothing has changed but the page it will clear again.          *)
pisces_xbuf_server_init ==
  /\ \/ pc[Server] = "down" /\ \A s \in Senders : pc[s] = "halted"
     \/ pc[Server] = "idle" /\ \A s \in Senders : pc[s] = "boot"
  /\ inits < MaxInits
  /\ inits' = inits + 1
  /\ set_flags({})
  /\ data_len' = 0
  /\ data' = [i \in 1..Size |-> Junk]
  /\ notified' = FALSE
  /\ pc' = [t \in Threads |-> IF t = Server THEN "init" ELSE "boot"]
  /\ UNCHANGED <<ipi, local, msgs>>

pisces_xbuf_enable ==
  /\ pc[Server] = "init"
  /\ set_flags({"ready"})
  /\ Goto(Server, "idle")
  /\ UNCHANGED <<data_len, data, ipi, notified, local, msgs, inits>>

(* pisces_xbuf_disable and pisces_xbuf_server_deinit, once the serving     *)
(* thread has ended.  Their caller has set the notification by then, and   *)
(* the interrupt is released with the descriptor.                          *)
pisces_xbuf_disable ==
  /\ pc[Server] \in {"idle", "work", "dead"}
  /\ lower_flag("ready")
  /\ ipi' = FALSE
  /\ notified' = TRUE
  /\ Goto(Server, "down")
  /\ UNCHANGED <<data_len, data, local, msgs, inits>>

(* The kernel of the senders boots after the channel was enabled, and is   *)
(* stopped by an INIT of its CPUs wherever its threads are.                *)
BootSenders ==
  /\ "ready" \in flags
  /\ \A s \in Senders : pc[s] = "boot"
  /\ pc' = [t \in Threads |-> IF t = Server THEN pc[t] ELSE "idle"]
  /\ UNCHANGED <<chan, ipi, notified, local, msgs, inits>>

StopSenders ==
  /\ \E s \in Senders : pc[s] # "halted"
  /\ pc' = [t \in Threads |-> IF t = Server THEN pc[t] ELSE "halted"]
  /\ UNCHANGED <<chan, ipi, notified, local, msgs, inits>>

Life == \/ pisces_xbuf_server_init \/ pisces_xbuf_enable
        \/ pisces_xbuf_disable \/ BootSenders \/ StopSenders

-----------------------------------------------------------------------------
Init ==
  /\ flags = {}
  /\ data_len = 0
  /\ data = [i \in 1..Size |-> Junk]
  /\ ipi = FALSE
  /\ notified = FALSE
  /\ pc = [t \in Threads |-> IF t = Server THEN "down" ELSE "halted"]
  /\ tag = [t \in Threads |-> 0]
  /\ len = [t \in Threads |-> 0]
  /\ off = [t \in Threads |-> 0]
  /\ inlen = [t \in Threads |-> 0]
  /\ in = [t \in Threads |-> [i \in 1..0 |-> Junk]]
  /\ msgs = 0
  /\ inits = 0

Next ==
  \/ \E t \in Threads : Transfer(t)
  \/ \E s \in Senders : SendStart(s) \/ SendSignal(s) \/ Send(s)
  \/ irq_handler
  \/ Serve
  \/ Life

Spec == Init /\ [][Next]_vars

(* Both kernels schedule their threads and take their interrupts.  Nothing *)
(* makes a thread begin a request, and nothing makes the channel go down.  *)
Fairness ==
  /\ \A t \in Threads : WF_vars(Transfer(t))
  /\ \A s \in Senders : WF_vars(Send(s))
  /\ WF_vars(irq_handler)
  /\ WF_vars(Serve)

FairSpec == Spec /\ Fairness

-----------------------------------------------------------------------------
SenderLabels == {"halted", "boot", "idle", "lock", "wait", "sleep", "len",
                 "put", "mark", "ipi", "send", "done", "rlen", "recv", "take",
                 "low", "reset", "wake", "err"}
ServerLabels == {"down", "init", "idle", "rlen", "recv", "take", "low", "work",
                 "len", "put", "mark", "complete", "send", "dead"}

PcOK ==
  /\ pc \in [Threads -> SenderLabels \union ServerLabels]
  /\ pc[Server] \in ServerLabels
  /\ \A s \in Senders : pc[s] \in SenderLabels

PageOK ==
  /\ flags \in SUBSET Flags
  /\ data_len \in Nat
  /\ data \in [1..Size -> Bytes]

LocalOK ==
  /\ tag \in [Threads -> Nat]
  /\ len \in [Threads -> Nat]
  /\ off \in [Threads -> Nat]
  /\ inlen \in [Threads -> Nat]
  /\ in = [t \in Threads |-> in[t]]
  /\ \A t \in Threads : in[t] \in [1..inlen[t] -> Bytes]

(* Every variable has its type.                                            *)
TypeOK ==
  /\ PcOK
  /\ PageOK
  /\ LocalOK
  /\ ipi \in BOOLEAN
  /\ notified \in BOOLEAN
  /\ msgs \in Nat
  /\ inits \in Nat

Owning == {"len", "put", "mark", "ipi", "send", "done", "rlen", "recv", "take",
           "low", "reset"}

(* Senders that hold the channel between taking PENDING and clearing it.   *)
Owners == {s \in Senders : pc[s] \in Owning}

(* Two threads in sync_send never use the page at the same time, and while *)
(* the channel is enabled the one that does has PENDING raised             *)
(* (pisces_xbuf.c:259-265 and 323).                                        *)
OneOwner ==
  /\ \A s, u \in Owners : s = u
  /\ "ready" \in flags /\ Owners # {} => "pending" \in flags

(* The request the serving thread works on is, byte for byte, the one a    *)
(* sender passed to sync_send and still waits for, or had sent when its    *)
(* kernel was stopped; no chunk is lost, repeated or torn.                 *)
RequestIntact ==
  pc[Server] = "work" =>
    \E s \in Senders :
      /\ in[Server] = Message("req", tag[s], len[s])
      /\ pc[s] \in {"send", "done", "halted"}

(* A sender that is about to return success holds the complete response to *)
(* its own request, never bytes of its request or of an earlier response.  *)
ResponseIntact ==
  \A s \in Senders :
    pc[s] = "reset" => in[s] = Message("resp", tag[s], len[Server])

(* A thread asleep on xbuf_waitq of an enabled channel has a thread that   *)
(* will wake it: the owner, one on its way out, or one that has yet to     *)
(* look at the channel (pisces_xbuf.c:271, 326, 331).                      *)
SleeperHasWaker ==
  \A s \in Senders :
    pc[s] = "sleep" /\ "ready" \in flags =>
      \E u \in Senders : pc[u] \in Owning \union {"wake"}

(* The serving thread never finds the channel without an accepted message  *)
(* when it was told of one, so pisces_xbuf_recv never returns -1 and the   *)
(* thread never gives up (pisces_xbuf.c:230, pisces_lcall.c:74-77).        *)
ServerSurvives == pc[Server] # "dead"

(* What the safety of the channel rests on, and what is proved inductive:  *)
(* the channel is enabled exactly while a server is set up, and is taken   *)
(* up with nobody using it;                                                *)
LifeInv ==
  /\ "ready" \in flags <=> pc[Server] \notin {"down", "init"}
  /\ pc[Server] \in {"down", "init"} => ~ipi
  /\ pc[Server] = "init" => /\ ~notified
                            /\ \A s \in Senders : pc[s] \in {"boot", "halted"}
  /\ (\A s \in Senders : pc[s] = "boot") => ~ipi

(* The server has a request it has not completed.  It copies the first     *)
(* chunk of the response before COMPLETE and the others after it.          *)
Serving == \/ pc[Server] \in {"rlen", "recv", "take", "low", "work", "len",
                              "complete"}
           \/ pc[Server] \in {"put", "mark"} /\ off[Server] = 0

Fetching == {"rlen", "recv", "take", "low", "reset"}

(* a request that was accepted and not yet completed is what PENDING and   *)
(* ACTIVE without COMPLETE say, it is either announced or served, never    *)
(* both, and a sender fetches a response only after COMPLETE.              *)
PhaseInv ==
  /\ "ready" \in flags /\ (notified \/ Serving) =>
       "pending" \in flags /\ "active" \in flags /\ "complete" \notin flags
  /\ "ready" \in flags /\ notified => ~Serving
  /\ "complete" \in flags => "active" \in flags
  /\ \A s \in Senders : pc[s] \in Fetching => "complete" \in flags

(* The server's place in the response it sends.                            *)
ReplyInv ==
  /\ pc[Server] = "len" => off[Server] = 0 /\ len[Server] > 0
  /\ pc[Server] \in {"put", "mark"} => off[Server] < len[Server]
  /\ pc[Server] \in {"complete", "send"} => off[Server] > 0 \/ len[Server] = 0

(* A staged chunk belongs to a message whose length, never 0, the page     *)
(* announces.                                                              *)
LenInv ==
  /\ "staged" \in flags => data_len > 0
  /\ \A t \in Threads :
       /\ pc[t] \in {"put", "mark"} => data_len > 0
       /\ pc[t] \in {"ipi", "send", "complete"} /\ off[t] < len[t] => data_len > 0
  /\ \A s \in Senders :
       /\ pc[s] \in {"lock", "wait", "sleep", "len"} => len[s] > 0
       /\ pc[s] = "rlen" => data_len > 0
       /\ pc[s] \in {"recv", "take", "low"} => inlen[s] > 0

(* Who may use the channel and in which phase a call is.                   *)
ControlInv == LifeInv /\ OneOwner /\ PhaseInv /\ ReplyInv /\ ServerSurvives

(* The inductive invariant of the channel (pisces_xbuf.c:95-110, 249-332   *)
(* and 363-440).                                                           *)
ChannelInv == ControlInv /\ LenInv

(* A staged chunk is never overwritten before the other end has taken it,  *)
(* although init_stage_data copies without looking at STAGED.              *)
NoOverwrite ==
  [][data' # data => "staged" \notin flags \/ inits' # inits]_vars

(* The caller's state in the abstract channel.                             *)
CallState(s) ==
  IF pc[s] \in {"halted", "boot"} THEN "off"
  ELSE IF pc[s] \in {"idle", "err", "wake"} THEN "idle"
  ELSE IF pc[s] \in {"lock", "wait", "sleep"} THEN "waiting"
  ELSE IF "complete" \in flags THEN "served" ELSE "begun"

Rpc == INSTANCE RpcChannel WITH
         Callers <- Senders,
         up <- "ready" \in flags,
         st <- [s \in Senders |-> CallState(s)]

(* The xbuf is a call channel: one call at a time, success only after the  *)
(* server completed the call, failure only of a disabled channel.          *)
RpcSpec == Rpc!Spec

(* A request was accepted and is neither announced nor served nor answered:*)
(* its handler has returned without pisces_xbuf_complete.                  *)
Abandoned ==
  /\ {"ready", "pending", "active"} \subseteq flags
  /\ "complete" \notin flags
  /\ pc[Server] = "idle"
  /\ ~notified

(* A call of sync_send returns unless its kernel is stopped, with two      *)
(* exceptions.  A thread may sleep when the channel is disabled: the       *)
(* owner's error path wakes it, PENDING is still up, and it sleeps again.  *)
(* And a handler may abandon a call (enclave_pci.c:584-587): that caller,  *)
(* and all who wait for the channel, stay in sync_send.                    *)
SendReturns ==
  \A s \in Senders :
    pc[s] = "lock" ~> \/ pc[s] \in {"idle", "halted"}
                      \/ pc[s] = "sleep" /\ "ready" \notin flags
                      \/ Abandoned
=============================================================================
