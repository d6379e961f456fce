----------------------------- MODULE RpcChannel -----------------------------
(***************************************************************************)
(* What an xbuf promises its callers: a channel over which at most one     *)
(* call is under way, every call that returns success was served after it  *)
(* began and before it returned, and a call fails only when the channel    *)
(* has been closed.  Module Xbuf implements it.                            *)
(***************************************************************************)
CONSTANT Callers

VARIABLES
  up,   (* the channel is open                                             *)
  st    (* what each caller is doing                                       *)

vars == <<up, st>>

States == {"off", "idle", "waiting", "begun", "served"}

(* Callers whose request the channel carries.                              *)
Busy == {c \in Callers : st[c] \in {"begun", "served"}}

Step(c, from, to) == st[c] = from /\ st' = [st EXCEPT ![c] = to]

Init == up = FALSE /\ st = [c \in Callers |-> "off"]

(* The channel opens while no caller runs; then they are started.          *)
Open  == ~up /\ (\A c \in Callers : st[c] = "off") /\ up' = TRUE /\ UNCHANGED st
Close == up /\ up' = FALSE /\ UNCHANGED st
Start == /\ up /\ \A c \in Callers : st[c] = "off"
         /\ st' = [c \in Callers |-> "idle"]
         /\ UNCHANGED up
Stop  == st' = [c \in Callers |-> "off"] /\ UNCHANGED up

Call(c)   == Step(c, "idle", "waiting") /\ UNCHANGED up
Begin(c)  == up /\ Busy = {} /\ Step(c, "waiting", "begun") /\ UNCHANGED up
Serve(c)  == up /\ Step(c, "begun", "served") /\ UNCHANGED up
Return(c) == Step(c, "served", "idle") /\ UNCHANGED up
Fail(c)   == ~up /\ (\E from \in {"waiting", "begun", "served"} :
                       Step(c, from, "idle")) /\ UNCHANGED up

Next == \/ Open \/ Close \/ Start \/ Stop
        \/ \E c \in Callers : Call(c) \/ Begin(c) \/ Serve(c) \/ Return(c) \/ Fail(c)

Spec == Init /\ [][Next]_vars
=============================================================================
