------------------------------ MODULE MCWaits ------------------------------
(***************************************************************************)
(* What must happen in the end: a long call returns, and whoever wants the *)
(* trampoline gets it.  The long-call service and the trampoline share     *)
(* nothing, so a behaviour is one of one of them, with its fairness.       *)
(***************************************************************************)
EXTENDS Lcall

CONSTANTS Enclaves, Linux, Sizes, Relaunch

VARIABLES part, state, size, initialized, trampoline_lock, cpu_maps, pml, pgd, target,
          cached_pgd, cached_target, tpc, job, cpu, late

tvars == <<state, size, initialized, trampoline_lock, cpu_maps, pml, pgd, target,
           cached_pgd, cached_target, tpc, job, cpu, late>>

T == INSTANCE Trampoline WITH pc <- tpc

WaitsInit == LInit /\ T!Init /\ part \in {"lcall", "trampoline"}

WaitsNext ==
  \/ part = "lcall" /\ LNext /\ UNCHANGED <<tvars, part>>
  \/ part = "trampoline" /\ T!Next /\ UNCHANGED <<lvars, part>>

WaitsSpec ==
  /\ WaitsInit
  /\ [][WaitsNext]_<<lvars, tvars, part>>
  /\ LFairness
  /\ T!Fairness

(* If every ctrl_add_cpu is answered, a thread that has to start a CPU     *)
(* gets the trampoline and is done with it at last, and Linux's lock on    *)
(* CPU operations comes free again and again (enclave_ctrl.c:148-159).     *)
TrampolineFree == T!TrampolineFree
=============================================================================
