-------------------------------- MODULE Lcall --------------------------------
(***************************************************************************)
(* The long-call service of src/pisces_lcall.c: the kernel thread of one   *)
(* enclave that serves the requests the enclave's threads send over an     *)
(* xbuf, and the launch, reset and free operations of src/enclave.c that   *)
(* start and stop it.  notified is lcall_state->active_lcall; the enclave's*)
(* threads are the Senders of Xbuf and the kernel thread is its Server.    *)
(***************************************************************************)
EXTENDS Xbuf

VARIABLES
  thr,         (* where lcall_kern_thread is                               *)
  should_stop, (* kthread_should_stop()                                    *)
  op,          (* the ioctl under way on the enclave and how far it is     *)
  left         (* history: a handler left the request in hand unanswered   *)

lvars == <<vars, thr, should_stop, op, left>>

Ops == {"loaded", "init", "boot", "running", "failed", "reset", "resetjoin",
        "resetdown", "freejoin", "gone"}
ThreadLabels == {"none", "top", "wait", "sleep", "woken", "recv", "handle",
                 "exited"}

-----------------------------------------------------------------------------
(***************************************************************************)
(* lcall_kern_thread                                                       *)
(***************************************************************************)

(* The test at the head of the loop.                                       *)
ThreadTop ==
  /\ thr = "top"
  /\ thr' = IF should_stop THEN "exited" ELSE "wait"
  /\ UNCHANGED <<vars, should_stop, op, left>>

(* wait_event_interruptible(kern_waitq, active_lcall == 1): being woken    *)
(* without the condition it goes back to sleep.                            *)
ThreadWait ==
  /\ thr = "wait"
  /\ thr' = IF notified THEN "woken" ELSE "sleep"
  /\ UNCHANGED <<vars, should_stop, op, left>>

(* Slip: active_lcall is not cleared before the request is fetched.        *)
ThreadFetch_Keep ==
  /\ thr = "woken"
  /\ pc[Server] = "idle"
  /\ thr' = "recv"
  /\ Goto(Server, "rlen")
  /\ UNCHANGED <<chan, ipi, notified, local, msgs, inits, should_stop, op, left>>

(* Awake: stop, or clear active_lcall and fetch the request.               *)
ThreadFetch ==
  /\ thr = "woken"
  /\ \/ should_stop /\ thr' = "exited" /\ UNCHANGED vars
     \/ ~should_stop /\ thr' = "recv" /\ ServeBegin
  /\ UNCHANGED <<should_stop, op, left>>

(* pisces_xbuf_recv has returned: -1 ends the thread, and so does a stop,  *)
(* leaving the request without an answer.                                  *)
ThreadFetched ==
  /\ thr = "recv"
  /\ pc[Server] \in {"work", "dead"}
  /\ thr' = IF pc[Server] = "dead" \/ should_stop THEN "exited" ELSE "handle"
  /\ UNCHANGED <<vars, should_stop, op, left>>

(* The handler the switch selects completes the call.  Only the attach     *)
(* call has a path that returns without a response (enclave_pci.c:584-587).*)
ThreadHandle ==
  /\ thr = "handle"
  /\ \/ (pisces_xbuf_complete \/ RaiseComplete) /\ left' = left
     \/ ServeAbandon /\ left' = TRUE
  /\ UNCHANGED <<thr, should_stop, op>>

ThreadLoop ==
  /\ thr = "handle"
  /\ pc[Server] = "idle"
  /\ thr' = "top"
  /\ UNCHANGED <<vars, should_stop, op, left>>

Thread == \/ ThreadTop \/ ThreadWait \/ ThreadFetch \/ ThreadFetched
          \/ ThreadHandle \/ ThreadLoop

(* Slip: active_lcall is set but the thread is not woken.                  *)
lcall_handler_NoWake == irq_handler /\ UNCHANGED <<thr, should_stop, op, left>>

(* The interrupt, lcall_handler included: it sets active_lcall and wakes   *)
(* the thread.                                                             *)
lcall_handler ==
  /\ irq_handler
  /\ thr' = IF notified' /\ thr = "sleep" THEN "wait" ELSE thr
  /\ UNCHANGED <<should_stop, op, left>>

-----------------------------------------------------------------------------
(***************************************************************************)
(* The ioctls.  They run one at a time.                                    *)
(***************************************************************************)

(* pisces_enclave_launch: setup_boot_params clears the boot memory and     *)
(* calls pisces_lcall_init, which sets the server up.  After a boot that   *)
(* failed the first thread is still there: it has long gone to sleep, on a *)
(* wait queue that is initialised anew, and nothing will ever wake it.     *)
LaunchInit ==
  /\ \/ op \in {"loaded", "resetdown"} /\ thr' = thr
     \/ op = "failed" /\ thr = "sleep" /\ thr' = "none"
  /\ op' = "init"
  /\ left' = FALSE
  /\ pisces_xbuf_server_init
  /\ UNCHANGED should_stop

(* Then it creates the thread, over the first one's kern_thread if there   *)
(* was one, and enables the channel;                                       *)
LaunchEnable ==
  /\ op = "init"
  /\ op' = "boot"
  /\ pisces_xbuf_enable
  /\ thr' = "top"
  /\ should_stop' = FALSE
  /\ UNCHANGED left

(* boot_enclave starts the enclave's kernel, or fails and leaves thread    *)
(* and channel as they are, for LAUNCH, RESET or FREE to find.             *)
LaunchBoot ==
  /\ op = "boot"
  /\ \/ op' = "running" /\ BootSenders
     \/ op' = "failed" /\ UNCHANGED vars
  /\ UNCHANGED <<thr, should_stop, left>>

(* A boot CPU that timed out is not quiesced and may come up yet.          *)
LateBoot ==
  /\ op = "failed"
  /\ BootSenders
  /\ UNCHANGED <<thr, should_stop, op, left>>

(* PISCES_ENCLAVE_RESET first stops the enclave's CPUs.                    *)
ResetStop ==
  /\ op \in {"running", "failed"}
  /\ op' = "reset"
  /\ StopSenders
  /\ UNCHANGED <<thr, should_stop, left>>

(* pisces_lcall_deinit begins with kthread_stop: set the stop bit, wake    *)
(* the thread, wait for it to exit.  A thread in wait_event tests its      *)
(* condition again.                                                        *)
KthreadStop ==
  /\ op \in {"reset", "running", "failed"}
  /\ op' = IF op = "reset" THEN "resetjoin" ELSE "freejoin"
  /\ should_stop' = TRUE
  /\ thr' = IF thr = "sleep" THEN "wait" ELSE thr
  /\ UNCHANGED <<vars, left>>

(* Only then active_lcall is set, the channel disabled and the descriptor  *)
(* released.                                                               *)
LcallDeinit ==
  /\ op \in {"resetjoin", "freejoin"}
  /\ thr = "exited"
  /\ op' = IF op = "resetjoin" THEN "resetdown" ELSE "gone"
  /\ pisces_xbuf_disable
  /\ UNCHANGED <<thr, should_stop, left>>

Ioctl == \/ LaunchInit \/ LaunchEnable \/ LaunchBoot \/ LateBoot
         \/ ResetStop \/ KthreadStop \/ LcallDeinit

-----------------------------------------------------------------------------
LInit == /\ Init
         /\ thr = "none"
         /\ should_stop = FALSE
         /\ op = "loaded"
         /\ left = FALSE

Enclave(s) == SendStart(s) \/ SendSignal(s) \/ Send(s) \/ Transfer(s)

LNext ==
  \/ Thread
  \/ lcall_handler
  \/ Ioctl
  \/ /\ \/ \E s \in Senders : Enclave(s)
        \/ Transfer(Server)
     /\ UNCHANGED <<thr, should_stop, op, left>>

LSpec == LInit /\ [][LNext]_lvars

(* The enclave's threads, the host's kernel thread and the interrupt are   *)
(* scheduled, and an ioctl that has begun goes on.  Nobody has to begin a  *)
(* request, a reset or a free, and nobody sends a signal.                  *)
LFairness ==
  /\ \A s \in Senders : WF_lvars((Send(s) \/ Transfer(s)) /\ UNCHANGED <<thr, should_stop, op, left>>)
  /\ WF_lvars(Transfer(Server) /\ UNCHANGED <<thr, should_stop, op, left>>)
  /\ WF_lvars(Thread)
  /\ WF_lvars(lcall_handler)
  /\ WF_lvars(LaunchEnable \/ LaunchBoot)
  /\ WF_lvars(op = "reset" /\ KthreadStop)
  /\ WF_lvars(LcallDeinit)

LFairSpec == LSpec /\ LFairness

-----------------------------------------------------------------------------
(* Every variable of the service has its type.                             *)
LTypeOK ==
  /\ TypeOK
  /\ thr \in ThreadLabels
  /\ should_stop \in BOOLEAN
  /\ op \in Ops
  /\ left \in BOOLEAN

(* The long-call service keeps the contract of the xbuf it serves: its     *)
(* thread calls recv and complete in the order, and at the times, that     *)
(* Xbuf assumes of a serving thread.                                       *)
XbufSpec == Spec

(* The thread sleeps over an accepted request only when the handler of it  *)
(* returned without an answer: clearing active_lcall before fetching the   *)
(* request loses no interrupt (pisces_lcall.c:31, 59, 67), whatever boots  *)
(* failed and were tried again before.                                     *)
SleepMeansServed ==
  thr = "sleep" /\ "active" \in flags => "complete" \in flags \/ left

(* The invariant of the service: types, and no accepted request is slept   *)
(* over (lcall_kern_thread, lcall_handler).                                *)
LcallInv == LTypeOK /\ SleepMeansServed

(* What RESET is for (enclave.c:183, "restart enclave"): once it waits for *)
(* the long-call thread to stop, it gets on to relaunching the enclave.    *)
ResetProceeds == op = "resetjoin" ~> op = "resetdown"
=============================================================================
