----------------------------- MODULE Trampoline -----------------------------
(***************************************************************************)
(* Starting CPUs through Linux's trampoline: src/boot.c,                   *)
(* src/trampoline_3/trampoline.c, and the two callers of them,             *)
(* pisces_enclave_launch (src/enclave.c) and ctrl_add_cpu                  *)
(* (src/enclave_ctrl.c).                                                   *)
(*                                                                         *)
(* A CPU that gets an INIT/STARTUP pair runs the one trampoline page of    *)
(* the machine: it loads the page table found there and jumps to the       *)
(* address found there.  To start a CPU in an enclave the module swaps     *)
(* both, starts the CPU, and swaps them back.  Linux's own CPU hotplug     *)
(* uses the same page.  An address or a page table is named here by the    *)
(* kernel it leads to.                                                     *)
(***************************************************************************)
CONSTANTS
  Enclaves,  (* the enclaves                                               *)
  Linux,     (* the host kernel                                            *)
  Sizes,     (* bootmem sizes user space asks for, "2MB" for a multiple of *)
             (* 2MB and "odd" for another                                  *)
  Relaunch   (* user space may LAUNCH an enclave that already runs         *)

ASSUME LinuxAssumption == Linux \notin Enclaves
ASSUME UserAssumption  == Sizes \subseteq {"2MB", "odd"} /\ Relaunch \in BOOLEAN

VARIABLES
  state,            (* enclave->state is ENCLAVE_RUNNING                   *)
  size,             (* enclave->bootmem_size                               *)
  initialized,      (* boot_params->initialized == 1                       *)
  trampoline_lock,  (* its holder                                          *)
  cpu_maps,         (* holder of Linux's lock on CPU operations            *)
  pml,              (* the page table trampoline_state.pml_pa maps         *)
  pgd,              (* *trampoline_pgd_ptr                                 *)
  target,           (* *trampoline_target                                  *)
  cached_pgd,
  cached_target,
  pc,               (* where each host thread is                           *)
  job,              (* what it starts a CPU for                            *)
  cpu,              (* what each CPU executes                              *)
  late              (* CPUs somebody stopped waiting for                   *)

page   == <<pml, pgd, target, cached_pgd, cached_target>>
locks  == <<trampoline_lock, cpu_maps>>
boot   == <<state, size, initialized>>
cpus   == <<cpu, late>>
vars   == <<state, size, initialized, trampoline_lock, cpu_maps, pml, pgd, target,
            cached_pgd, cached_target, pc, job, cpu, late>>

Kernels == Enclaves \union {Linux}

(* The holder of op_lock and the holder of ctrl->lock of each enclave.     *)
Threads == Enclaves \X {"op", "ctrl"}

Hotplug == <<Linux, "hotplug">>
Nobody  == <<Linux, "nobody">>

(* An enclave's boot CPU, a CPU being added to it, a CPU Linux brings up.  *)
CPUs    == (Enclaves \X {"boot", "add"}) \union {<<Linux, "add">>}
Home(c) == c[1]

Enclave(t) == t[1]

Goto(t, l) == pc' = [pc EXCEPT ![t] = l]

-----------------------------------------------------------------------------
(***************************************************************************)
(* The ioctls up to the point where they need the trampoline.              *)
(***************************************************************************)

(* PISCES_ENCLAVE_LAUNCH takes the boot memory user space names, clears it *)
(* and loads the enclave's image (setup_boot_params, which may fail).      *)
(* Nothing looks at the enclave's state.                                   *)
Launch(e) ==
  LET t == <<e, "op">> IN
  /\ pc[t] = "idle"
  /\ ~state[e] \/ Relaunch
  /\ \E n \in Sizes : size' = [size EXCEPT ![e] = n]
  /\ initialized' = [initialized EXCEPT ![e] = FALSE]
  /\ job' = [job EXCEPT ![t] = "launch"]
  /\ Goto(t, "lock") \/ UNCHANGED pc
  /\ UNCHANGED <<state, locks, page, cpus>>

(* PISCES_ENCLAVE_RESET: stop_enclave sends an INIT to every CPU of the    *)
(* enclave, which is then launched again from the same memory, whatever    *)
(* state it was in.                                                        *)
Reset(e) ==
  LET t == <<e, "op">> IN
  /\ pc[t] = "idle"
  /\ cpu' = [c \in CPUs |-> IF Home(c) = e THEN "off" ELSE cpu[c]]
  /\ initialized' = [initialized EXCEPT ![e] = FALSE]
  /\ job' = [job EXCEPT ![t] = "reset"]
  /\ Goto(t, "lock") \/ UNCHANGED pc
  /\ UNCHANGED <<state, size, locks, page, late>>

(* A relaunched enclave gets its other CPU back, or has none: one stands   *)
(* for those that for_each_cpu goes through one after the other.           *)
ReaddCpu(e) ==
  LET t == <<e, "op">> IN
  /\ pc[t] = "readd"
  /\ \/ job' = [job EXCEPT ![t] = "add"] /\ Goto(t, "lock")
     \/ UNCHANGED job /\ Goto(t, "idle")
  /\ UNCHANGED <<boot, locks, page, cpus>>

(* PISCES_CMD_ADD_CPU on the control channel of a running enclave, as far  *)
(* as the call of pisces_setup_trampoline in ctrl_add_cpu.                 *)
AddCpu(e) ==
  LET t == <<e, "ctrl">> IN
  /\ pc[t] = "idle"
  /\ state[e]
  /\ Goto(t, "lock")
  /\ UNCHANGED <<boot, locks, page, job, cpus>>

-----------------------------------------------------------------------------
(***************************************************************************)
(* pisces_setup_trampoline                                                 *)
(***************************************************************************)

(* Boot memory that is not a multiple of 2MB is refused before the lock is *)
(* taken.  boot_enclave then gives up; ctrl_add_cpu does not look.         *)
SetupRefuse(t) ==
  /\ pc[t] = "lock"
  /\ size[Enclave(t)] # "2MB"
  /\ Goto(t, IF job[t] = "add" THEN "start" ELSE "idle")
  /\ UNCHANGED <<boot, locks, page, job, cpus>>

(* Under trampoline_lock the page table is rebuilt to map the enclave.     *)
SetupLock(t) ==
  /\ pc[t] = "lock"
  /\ size[Enclave(t)] = "2MB"
  /\ trampoline_lock = Nobody
  /\ trampoline_lock' = t
  /\ pml' = Enclave(t)
  /\ Goto(t, "maps")
  /\ UNCHANGED <<boot, cpu_maps, pgd, target, cached_pgd, cached_target, job, cpus>>

(* setup_enclave_trampoline                                                *)
SetupMaps(t) ==
  /\ pc[t] = "maps"
  /\ cpu_maps = Nobody
  /\ cpu_maps' = t
  /\ Goto(t, "pgd")
  /\ UNCHANGED <<boot, trampoline_lock, page, job, cpus>>

(* Slip: the page table is saved after it was overwritten.                 *)
SetupPgd_SaveLate(t) ==
  /\ pc[t] = "pgd"
  /\ cached_pgd' = pml
  /\ pgd' = pml
  /\ Goto(t, "target")
  /\ UNCHANGED <<boot, locks, pml, target, cached_target, job, cpus>>

SetupPgd(t) ==
  /\ pc[t] = "pgd"
  /\ cached_pgd' = pgd
  /\ pgd' = pml
  /\ Goto(t, "target")
  /\ UNCHANGED <<boot, locks, pml, target, cached_target, job, cpus>>

(* Slip: the target is saved after it was overwritten.                     *)
SetupTarget_SaveLate(t) ==
  /\ pc[t] = "target"
  /\ cached_target' = Enclave(t)
  /\ target' = Enclave(t)
  /\ Goto(t, "start")
  /\ UNCHANGED <<boot, locks, pml, pgd, cached_pgd, job, cpus>>

SetupTarget(t) ==
  /\ pc[t] = "target"
  /\ cached_target' = target
  /\ target' = Enclave(t)
  /\ Goto(t, "start")
  /\ UNCHANGED <<boot, locks, pml, pgd, cached_pgd, job, cpus>>

-----------------------------------------------------------------------------
(***************************************************************************)
(* Starting the CPU.                                                       *)
(***************************************************************************)

(* Slip: boot_enclave restores the trampoline without waiting for the CPU. *)
WakeBootCpu_NoWait(t) ==
  /\ pc[t] = "start"
  /\ job[t] # "add"
  /\ cpu' = [cpu EXCEPT ![<<Enclave(t), "boot">>] = "trampoline"]
  /\ Goto(t, "rpgd")
  /\ UNCHANGED <<boot, locks, page, job, late>>

(* boot_enclave sends INIT and STARTUP to the boot CPU itself.             *)
WakeBootCpu(t) ==
  /\ pc[t] = "start"
  /\ job[t] # "add"
  /\ cpu' = [cpu EXCEPT ![<<Enclave(t), "boot">>] = "trampoline"]
  /\ late' = late \ {<<Enclave(t), "boot">>}
  /\ Goto(t, "wait")
  /\ UNCHANGED <<boot, locks, page, job>>

(* ctrl_add_cpu asks the enclave to do it, with a call over the control    *)
(* channel; the enclave may start the CPU, and the call returns at last.   *)
SendAddCpu(t) ==
  /\ pc[t] = "start"
  /\ job[t] = "add"
  /\ Goto(t, "wait")
  /\ UNCHANGED <<boot, locks, page, job, cpus>>

EnclaveStarts(t) ==
  /\ pc[t] = "wait"
  /\ job[t] = "add"
  /\ cpu[<<Enclave(t), "boot">>] = Enclave(t)
  /\ cpu[<<Enclave(t), "add">>] # "trampoline"
  /\ cpu' = [cpu EXCEPT ![<<Enclave(t), "add">>] = "trampoline"]
  /\ late' = late \ {<<Enclave(t), "add">>}
  /\ UNCHANGED <<boot, locks, page, pc, job>>

(* boot_enclave polls initialized for 1.5 seconds, ctrl_add_cpu waits for  *)
(* the answer.  Either may end before the CPU has got through the          *)
(* trampoline, and the CPU is then left to itself.                         *)
StopWaiting(t) ==
  LET e == Enclave(t)
      c == <<e, IF job[t] = "add" THEN "add" ELSE "boot">>
  IN
  /\ pc[t] = "wait"
  /\ job' = [job EXCEPT ![t] = IF @ = "add" \/ initialized[e] THEN @ ELSE "failed"]
  /\ late' = IF cpu[c] = "trampoline" THEN late \union {c} ELSE late
  /\ Goto(t, "rpgd")
  /\ UNCHANGED <<boot, locks, page, cpu>>

-----------------------------------------------------------------------------
(***************************************************************************)
(* pisces_restore_trampoline, and what its callers do last.                *)
(***************************************************************************)

RestorePgd(t) ==
  /\ pc[t] = "rpgd"
  /\ pgd' = cached_pgd
  /\ Goto(t, "rtarget")
  /\ UNCHANGED <<boot, locks, pml, target, cached_pgd, cached_target, job, cpus>>

RestoreTarget(t) ==
  /\ pc[t] = "rtarget"
  /\ target' = cached_target
  /\ Goto(t, "rmaps")
  /\ UNCHANGED <<boot, locks, pml, pgd, cached_pgd, cached_target, job, cpus>>

(* A Linux mutex is released whoever holds it.                             *)
RestoreMaps(t) ==
  /\ pc[t] = "rmaps"
  /\ cpu_maps' = Nobody
  /\ Goto(t, "unlock")
  /\ UNCHANGED <<boot, trampoline_lock, page, job, cpus>>

(* Slip: restore does not release trampoline_lock.                         *)
RestoreUnlock_Keep(t) ==
  /\ pc[t] = "unlock"
  /\ state' = [state EXCEPT ![Enclave(t)] = @ \/ job[t] \in {"launch", "reset"}]
  /\ Goto(t, IF job[t] = "reset" THEN "readd" ELSE "idle")
  /\ UNCHANGED <<size, initialized, locks, page, job, cpus>>

RestoreUnlock(t) ==
  /\ pc[t] = "unlock"
  /\ trampoline_lock' = Nobody
  /\ state' = [state EXCEPT ![Enclave(t)] = @ \/ job[t] \in {"launch", "reset"}]
  /\ Goto(t, IF job[t] = "reset" THEN "readd" ELSE "idle")
  /\ UNCHANGED <<size, initialized, cpu_maps, page, job, cpus>>

-----------------------------------------------------------------------------
(***************************************************************************)
(* The CPUs, and Linux's CPU hotplug.                                      *)
(***************************************************************************)

(* A CPU leaves the trampoline: it is lost when the page table does not    *)
(* map where it jumps.                                                     *)
CpuEnter(c) ==
  /\ cpu[c] = "trampoline"
  /\ cpu' = [cpu EXCEPT ![c] = IF pgd = target THEN target ELSE "lost"]
  /\ UNCHANGED <<boot, locks, page, pc, job, late>>

(* The enclave's kernel, entered by a boot CPU, reports that it is up.     *)
CpuUp(c) ==
  /\ c[2] = "boot"
  /\ cpu[c] \in Enclaves
  /\ ~initialized[cpu[c]]
  /\ initialized' = [initialized EXCEPT ![cpu[c]] = TRUE]
  /\ UNCHANGED <<state, size, locks, page, pc, job, cpus>>

(* cpu_up in Linux: it waits for its CPU.                                  *)
HotplugBegin ==
  /\ cpu_maps = Nobody
  /\ cpu_maps' = Hotplug
  /\ cpu' = [cpu EXCEPT ![<<Linux, "add">>] = "trampoline"]
  /\ UNCHANGED <<boot, trampoline_lock, page, pc, job, late>>

HotplugEnd ==
  /\ cpu_maps = Hotplug
  /\ cpu[<<Linux, "add">>] # "trampoline"
  /\ cpu_maps' = Nobody
  /\ UNCHANGED <<boot, trampoline_lock, page, pc, job, cpus>>

-----------------------------------------------------------------------------
Init ==
  /\ state = [e \in Enclaves |-> FALSE]
  /\ size = [e \in Enclaves |-> "odd"]
  /\ initialized = [e \in Enclaves |-> FALSE]
  /\ trampoline_lock = Nobody
  /\ cpu_maps = Nobody
  /\ pml = Linux
  /\ pgd = Linux
  /\ target = Linux
  /\ cached_pgd = Linux
  /\ cached_target = Linux
  /\ pc = [t \in Threads |-> "idle"]
  /\ job = [t \in Threads |-> IF t[2] = "ctrl" THEN "add" ELSE "launch"]
  /\ cpu = [c \in CPUs |-> "off"]
  /\ late = {}

Ioctl(e) == Launch(e) \/ Reset(e) \/ AddCpu(e)

Step(t) ==
  \/ SetupRefuse(t) \/ SetupPgd(t)   \/ SetupTarget(t)
  \/ WakeBootCpu(t) \/ SendAddCpu(t) \/ StopWaiting(t)
  \/ RestorePgd(t)  \/ RestoreTarget(t) \/ RestoreMaps(t) \/ RestoreUnlock(t)

Next ==
  \/ \E e \in Enclaves : Ioctl(e) \/ ReaddCpu(e)
  \/ \E t \in Threads : Step(t) \/ SetupLock(t) \/ SetupMaps(t) \/ EnclaveStarts(t)
  \/ \E c \in CPUs : CpuEnter(c) \/ CpuUp(c)
  \/ HotplugBegin
  \/ HotplugEnd

Spec == Init /\ [][Next]_vars

(* The thread waits for the enclave to answer ctrl_add_cpu.                *)
Asking(t) == pc[t] = "wait" /\ job[t] = "add"

(* Threads go on, mutexes are handed on in turn, and a CPU that Linux      *)
(* brings up gets there.  That boot_enclave stops waiting is its timeout;  *)
(* nothing makes the enclave answer ctrl_add_cpu, which has none.          *)
Fairness ==
  /\ \A e \in Enclaves : WF_vars(ReaddCpu(e))
  /\ \A t \in Threads : /\ WF_vars(~Asking(t) /\ Step(t))
                         /\ SF_vars(SetupLock(t)) /\ SF_vars(SetupMaps(t))
  /\ WF_vars(CpuEnter(<<Linux, "add">>))
  /\ WF_vars(HotplugEnd)

FairSpec == Spec /\ Fairness

-----------------------------------------------------------------------------
PcLabels == {"idle", "lock", "maps", "pgd", "target", "start", "wait", "rpgd",
             "rtarget", "rmaps", "unlock", "readd"}
Jobs     == {"launch", "reset", "add", "failed"}

(* Every variable has its type.                                            *)
TypeOK ==
  /\ state \in [Enclaves -> BOOLEAN]
  /\ size \in [Enclaves -> {"2MB", "odd"}]
  /\ initialized \in [Enclaves -> BOOLEAN]
  /\ trampoline_lock \in Threads \union {Nobody}
  /\ cpu_maps \in Threads \union {Nobody, Hotplug}
  /\ {pml, pgd, target, cached_pgd, cached_target} \subseteq Kernels
  /\ pc \in [Threads -> PcLabels]
  /\ job \in [Threads -> Jobs]
  /\ cpu \in [CPUs -> Kernels \union {"off", "trampoline", "lost"}]
  /\ late \subseteq CPUs

(* Between setup and restore.                                              *)
InMaps  == {"pgd", "target", "start", "wait", "rpgd", "rtarget", "rmaps"}
Holding == InMaps \union {"maps", "unlock"}

(* "Prevent enclaves from concurrent access to trampoline operations"      *)
(* (boot.c:66): one thread at a time is between setup and restore, and it  *)
(* holds both locks although ctrl_add_cpu does not look whether setup      *)
(* succeeded (enclave_ctrl.c:152).                                         *)
Exclusive ==
  \A t \in Threads :
    /\ pc[t] \in Holding <=> trampoline_lock = t
    /\ pc[t] \in InMaps  <=> cpu_maps = t

(* Whenever Linux may start a CPU, the trampoline leads to Linux: no       *)
(* interleaving of launches saves an enclave's target as Linux's           *)
(* (trampoline_3/trampoline.c:130-137 and 156-157).                        *)
LinuxRestored ==
  cpu_maps \in {Nobody, Hotplug} => pgd = Linux /\ target = Linux

(* A CPU only ever enters the kernel it was started for, unless its        *)
(* starter stopped waiting while it was in the trampoline.                 *)
LandsHome ==
  \A c \in CPUs : cpu[c] \in {"off", "trampoline", Home(c)} \/ c \in late

(* What the safety of the trampoline rests on, and what is proved          *)
(* inductive: the page and its saved copies while t swaps them;            *)
Swapped(t) ==
  LET e == Enclave(t) IN
  /\ pc[t] \in Holding => pml = e /\ size[e] = "2MB"
  /\ pc[t] = "pgd" => pgd = Linux /\ target = Linux
  /\ pc[t] = "target" => pgd = e /\ target = Linux /\ cached_pgd = Linux
  /\ pc[t] \in {"start", "wait", "rpgd"} =>
       pgd = e /\ target = e /\ cached_pgd = Linux /\ cached_target = Linux
  /\ pc[t] = "rtarget" => pgd = Linux /\ target = e /\ cached_target = Linux
  /\ pc[t] = "rmaps" => pgd = Linux /\ target = Linux

(* a CPU is added only to a running enclave, whose boot memory setup has   *)
(* accepted before;                                                        *)
JobInv ==
  /\ \A e \in Enclaves : state[e] => size[e] = "2MB"
  /\ \A t \in Threads :
       /\ t[2] = "ctrl" => job[t] = "add"
       /\ pc[t] # "idle" /\ job[t] = "add" => state[Enclave(t)]
       /\ pc[t] = "readd" => state[Enclave(t)]

(* and a CPU in the trampoline has somebody who keeps the page for it.     *)
CpuInv ==
  \A c \in CPUs : cpu[c] = "trampoline" /\ c \notin late =>
    \/ c = <<Linux, "add">> /\ cpu_maps = Hotplug
    \/ \E t \in Threads : /\ Enclave(t) = Home(c)
                          /\ pc[t] = "wait"
                          /\ job[t] = "add" <=> c[2] = "add"

(* The inductive invariant of the trampoline (boot.c:111-281, 447-510).    *)
TrampolineInv ==
  /\ Exclusive
  /\ LinuxRestored
  /\ \A t \in Threads : Swapped(t)
  /\ JobInv
  /\ CpuInv
  /\ LandsHome

(* A boot that timed out leaves its CPU quiesced ("Quiesce the CPU via an  *)
(* INIT IPI", boot.c:504): it never enters another kernel afterwards.      *)
Quiesced == \A c \in CPUs : cpu[c] \in {"off", "trampoline", Home(c)}

(* If every ctrl_add_cpu is answered, a thread that has to start a CPU     *)
(* gets the trampoline and is done with it at last, and Linux's lock on    *)
(* CPU operations comes free again and again.  An enclave that does not    *)
(* answer keeps both locks from everybody (enclave_ctrl.c:148-159): a boot *)
(* that times out does not.                                                *)
TrampolineFree ==
  (\A t \in Threads : []<>~Asking(t)) =>
    /\ \A t \in Threads : pc[t] = "lock" ~> pc[t] = "idle"
    /\ []<>(cpu_maps = Nobody)
=============================================================================
