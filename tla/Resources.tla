----------------------------- MODULE Resources ------------------------------
(***************************************************************************)
(* The loan of CPUs and memory blocks from Linux to an enclave and back:   *)
(* the tools of linux_usr/ (pisces.c, pisces_ctrl.c, teardown.c), what     *)
(* src/enclave.c and src/enclave_ctrl.c keep about the loan, and what the  *)
(* enclave's kernel answers.                                               *)
(*                                                                         *)
(* A tool takes a resource offline, asks the driver to hand it over, and   *)
(* brings it online again when that fails.  The driver writes down what    *)
(* was handed over, RESET hands it over again from these notes, and the    *)
(* teardown tool returns it from them.  Adding and removing tools run side *)
(* by side; launch, reset and teardown run alone, as the administrator.    *)
(***************************************************************************)
EXTENDS Integers, Sequences, FiniteSets

CONSTANTS
  Cpus,     (* the CPUs that may be lent                                   *)
  Blocks,   (* the memory blocks, by number: base_addr / block size        *)
  Tools,    (* processes that add and remove resources                     *)
  MaxBoot,  (* bound: blocks of a boot environment                         *)
  MaxDesc,  (* bound: memory descriptors of the enclave                    *)
  Careless  (* whether the administrator resets an enclave although a      *)
            (* resource in the driver's notes is Linux's again             *)

ASSUME NumberAssumption == Cpus \subseteq Nat /\ Blocks \subseteq Nat
ASSUME BoundAssumption  == MaxBoot \in Nat \ {0} /\ MaxDesc \in Nat
ASSUME UserAssumption   == Careless \in BOOLEAN
ASSUME ToolAssumption   == "nobody" \notin Tools

VARIABLES
  online_cpus, online_mem,      (* what Linux uses                         *)
  kernel_cpus, kernel_mem,      (* what the enclave's kernel uses          *)
  ready,                        (* its control channel is up               *)
  state,                        (* enclave->state, or "none"               *)
  assigned_cpus, num_cpus,      (* the driver's notes: CPUs                *)
  memdesc_list, memdesc_num,    (* the driver's notes: memory              *)
  boot_env,                     (* boot_cpu, bootmem_addr_pa, bootmem_size *)
  ctrl_lock,                    (* ctrl->lock                              *)
  admin,                        (* where the administrator's tool is       *)
  cpu_list, mem_list,           (* what it has still to go through         *)
  pc, arg,                      (* where a tool is, and with which number  *)
  dropped                       (* blocks pisces_add_mem gave up on        *)

linux   == <<online_cpus, online_mem>>
kernel  == <<kernel_cpus, kernel_mem, ready>>
notes   == <<assigned_cpus, num_cpus, memdesc_list, memdesc_num>>
lists   == <<cpu_list, mem_list>>
tools   == <<ctrl_lock, pc, arg>>
vars    == <<linux, kernel, state, notes, boot_env, admin, lists, tools, dropped>>

Nobody == "nobody"

(* The blocks of a boot environment.                                       *)
BootBlocks(env) == {b \in Blocks : env.base <= b /\ b < env.base + env.num}

(* What is written down about memory.                                      *)
Described(list) == {list[i] : i \in DOMAIN list}

-----------------------------------------------------------------------------
(***************************************************************************)
(* The driver's notes                                                      *)
(***************************************************************************)

(* pisces_enclave_add_cpu counts a CPU that was not there.                 *)
NumCpus(c) == IF c \in assigned_cpus THEN num_cpus ELSE num_cpus + 1

(* Slip: a block with the highest address goes before the last one.        *)
InsertAt_BeforeLast(list, b) ==
  LET later == {i \in DOMAIN list : list[i] > b}
  IN  IF later = {} THEN IF list = <<>> THEN 1 ELSE Len(list)
      ELSE CHOOSE i \in later : \A j \in later : i <= j

(* Where pisces_enclave_add_mem puts a block: before the first that has a  *)
(* higher address, or else at the end.                                     *)
InsertAt(list, b) ==
  LET later == {i \in DOMAIN list : list[i] > b}
  IN  IF later = {} THEN Len(list) + 1
      ELSE CHOOSE i \in later : \A j \in later : i <= j

pisces_enclave_add_mem(list, b) ==
  LET p == InsertAt(list, b)
  IN  [i \in 1..Len(list) + 1 |->
         IF i < p THEN list[i] ELSE IF i = p THEN b ELSE list[i - 1]]

-----------------------------------------------------------------------------
(***************************************************************************)
(* The administrator's tools: pisces_load, pisces_launch                   *)
(***************************************************************************)

Alone   == admin = "idle" /\ \A t \in Tools : pc[t] = "idle"

(* pisces_load: PISCES_LOAD_IMAGE, pisces_enclave_create.                  *)
pisces_load ==
  /\ Alone
  /\ state = "none"
  /\ state' = "loaded"
  /\ assigned_cpus' = {} /\ num_cpus' = 0
  /\ memdesc_list' = <<>> /\ memdesc_num' = 0
  /\ UNCHANGED <<linux, kernel, boot_env, admin, lists, tools, dropped>>

(* pisces_launch takes the boot memory offline.  An enclave that runs is   *)
(* not launched again.                                                     *)
LaunchMem ==
  /\ Alone
  /\ state = "loaded"
  /\ \E base \in Blocks, num \in 1..MaxBoot :
       LET blocks == base..base + num - 1 IN
       /\ blocks \subseteq online_mem
       /\ Len(memdesc_list) + num <= MaxDesc
       /\ online_mem' = online_mem \ blocks
       /\ boot_env' = [boot_env EXCEPT !.base = base, !.num = num]
  /\ admin' = "cpu"
  /\ UNCHANGED <<online_cpus, kernel, state, notes, lists, tools, dropped>>

(* ... then the boot CPU,                                                  *)
LaunchCpu ==
  /\ admin = "cpu"
  /\ \E c \in online_cpus :
       /\ online_cpus' = online_cpus \ {c}
       /\ boot_env' = [boot_env EXCEPT !.cpu = c]
  /\ admin' = "launch"
  /\ UNCHANGED <<online_mem, kernel, state, notes, lists, tools, dropped>>

(* ... or gets none: cpu_error.                                            *)
LaunchNoCpu ==
  /\ admin = "cpu"
  /\ online_mem' = online_mem \union BootBlocks(boot_env)
  /\ admin' = "idle"
  /\ UNCHANGED <<online_cpus, kernel, state, notes, boot_env, lists, tools, dropped>>

(* The kernel runs on the boot CPU, in the boot memory.                    *)
KernelBoots(env) ==
  /\ kernel_cpus' = kernel_cpus \union {env.cpu}
  /\ kernel_mem' = kernel_mem \union BootBlocks(env)
  /\ ready' = TRUE

(* PISCES_ENCLAVE_LAUNCH notes the boot CPU, whether it had it or not,     *)
LaunchNoteCpu ==
  LET c == boot_env.cpu IN
  /\ admin = "launch"
  /\ assigned_cpus' = assigned_cpus \union {c}
  /\ num_cpus' = NumCpus(c)
  /\ mem_list' = BootBlocks(boot_env)
  /\ admin' = "note"
  /\ UNCHANGED <<linux, kernel, state, memdesc_list, memdesc_num, boot_env, cpu_list, tools,
                 dropped>>

(* ... then the boot memory, block by block,                               *)
LaunchNoteMem ==
  /\ admin = "note"
  /\ \E b \in mem_list :
       /\ \A d \in mem_list : b <= d
       /\ memdesc_list' = pisces_enclave_add_mem(memdesc_list, b)
       /\ mem_list' = mem_list \ {b}
  /\ memdesc_num' = memdesc_num + 1
  /\ UNCHANGED <<linux, kernel, state, assigned_cpus, num_cpus, boot_env, admin, cpu_list, tools,
                 dropped>>

(* ... and boots, or fails to.                                             *)
pisces_enclave_launch ==
  /\ admin = "note"
  /\ mem_list = {}
  /\ \/ /\ KernelBoots(boot_env)
        /\ state' = "running"
        /\ admin' = "idle"
     \/ /\ admin' = "undo"
        /\ UNCHANGED <<kernel, state>>
  /\ UNCHANGED <<linux, notes, boot_env, lists, tools, dropped>>

(* ioctl_error: the tool takes both back, the driver's notes stay.         *)
LaunchUndo ==
  /\ admin = "undo"
  /\ online_cpus' = online_cpus \union {boot_env.cpu}
  /\ online_mem' = online_mem \union BootBlocks(boot_env)
  /\ admin' = "idle"
  /\ UNCHANGED <<kernel, state, notes, boot_env, lists, tools, dropped>>

-----------------------------------------------------------------------------
(***************************************************************************)
(* PISCES_ENCLAVE_RESET                                                    *)
(***************************************************************************)

(* Something in the driver's notes is in use by Linux.                     *)
Returned == \/ assigned_cpus \intersect online_cpus # {}
            \/ Described(memdesc_list) \intersect online_mem # {}

(* stop_enclave sends INIT to every assigned CPU; a kernel that runs on    *)
(* none has nothing.                                                       *)
ResetStop ==
  /\ Alone
  /\ state = "running"
  /\ Careless \/ ~Returned
  /\ kernel_cpus' = kernel_cpus \ assigned_cpus
  /\ kernel_mem' = IF kernel_cpus \subseteq assigned_cpus THEN {} ELSE kernel_mem
  /\ ready' = FALSE
  /\ admin' = "boot"
  /\ UNCHANGED <<linux, state, notes, boot_env, lists, tools, dropped>>

(* Relaunch on the boot CPU and in the boot memory.  When that fails the   *)
(* state stays RUNNING.                                                    *)
ResetBoot ==
  /\ admin = "boot"
  /\ \/ /\ KernelBoots(boot_env)
        /\ cpu_list' = assigned_cpus \ {boot_env.cpu}
        /\ mem_list' = Described(memdesc_list) \ BootBlocks(boot_env)
        /\ admin' = "readd"
     \/ /\ admin' = "idle"
        /\ UNCHANGED <<kernel, lists>>
  /\ UNCHANGED <<linux, state, notes, boot_env, tools, dropped>>

(* ctrl_add_mem for every descriptor outside the boot memory; an answer    *)
(* that says no is not looked at.                                          *)
ReaddMem ==
  /\ admin = "readd"
  /\ \E b \in mem_list :
       /\ mem_list' = mem_list \ {b}
       /\ kernel_mem' \in {kernel_mem, kernel_mem \union {b}}
  /\ UNCHANGED <<linux, kernel_cpus, ready, state, notes, boot_env, admin, cpu_list, tools,
                 dropped>>

(* ctrl_add_cpu for every assigned CPU but the boot CPU, after the memory. *)
ReaddCpu ==
  /\ admin = "readd"
  /\ mem_list = {}
  /\ \E c \in cpu_list :
       /\ cpu_list' = cpu_list \ {c}
       /\ kernel_cpus' \in {kernel_cpus, kernel_cpus \union {c}}
  /\ UNCHANGED <<linux, kernel_mem, ready, state, notes, boot_env, admin, mem_list, tools,
                 dropped>>

ResetEnd ==
  /\ admin = "readd"
  /\ mem_list = {} /\ cpu_list = {}
  /\ admin' = "idle"
  /\ UNCHANGED <<linux, kernel, state, notes, boot_env, lists, tools, dropped>>

-----------------------------------------------------------------------------
(***************************************************************************)
(* pisces_teardown                                                         *)
(***************************************************************************)

(* The tool reads the notes from /proc: a number, then that many lines; a  *)
(* line that is missing ends it.                                           *)
TeardownRead ==
  /\ Alone
  /\ state # "none"
  /\ num_cpus <= Cardinality(assigned_cpus) /\ memdesc_num <= Len(memdesc_list)
  /\ cpu_list' = {c \in assigned_cpus :
                    Cardinality({d \in assigned_cpus : d < c}) < num_cpus}
  /\ mem_list' = {memdesc_list[i] : i \in 1..memdesc_num}
  /\ admin' = "shutdown"
  /\ UNCHANGED <<linux, kernel, state, notes, boot_env, tools, dropped>>

(* PISCES_CMD_SHUTDOWN: the kernel answers and stops.                      *)
TeardownShutdown ==
  /\ admin = "shutdown"
  /\ state = "running" /\ ready
  /\ kernel_cpus' = {} /\ kernel_mem' = {} /\ ready' = FALSE
  /\ admin' = "free"
  /\ UNCHANGED <<linux, state, notes, boot_env, lists, tools, dropped>>

(* The tool gives up: the PCI section that follows the memory in /proc     *)
(* cannot be opened or is not as expected, the channel cannot be           *)
(* connected or is down, or the ioctl is refused.                          *)
TeardownFails ==
  /\ admin = "shutdown"
  /\ cpu_list' = {} /\ mem_list' = {}
  /\ admin' = "idle"
  /\ UNCHANGED <<linux, kernel, state, notes, boot_env, tools, dropped>>

(* PISCES_FREE_ENCLAVE frees the notes.                                    *)
TeardownFree ==
  /\ admin = "free"
  /\ state' = "none"
  /\ assigned_cpus' = {} /\ num_cpus' = 0
  /\ memdesc_list' = <<>> /\ memdesc_num' = 0
  /\ admin' = "online"
  /\ UNCHANGED <<linux, kernel, boot_env, lists, tools, dropped>>

(* "Online all resources".  The PCI devices come first; their names are    *)
(* those the driver printed, so that pet_parse_bdf accepts them.           *)
TeardownOnline ==
  /\ admin = "online"
  /\ online_cpus' = online_cpus \union cpu_list
  /\ online_mem' = online_mem \union mem_list
  /\ cpu_list' = {} /\ mem_list' = {}
  /\ admin' = "idle"
  /\ UNCHANGED <<kernel, state, notes, boot_env, tools, dropped>>

-----------------------------------------------------------------------------
(***************************************************************************)
(* The adding and removing tools, and ctrl_ioctl for them                  *)
(***************************************************************************)

(* A tool that is idle has no number.                                      *)
Goto(t, l) ==
  /\ pc' = [pc EXCEPT ![t] = l]
  /\ arg' = [arg EXCEPT ![t] = IF l = "idle" THEN 0 ELSE @]

Begin(t, l, n) ==
  /\ admin = "idle" /\ state # "none"
  /\ pc[t] = "idle"
  /\ pc' = [pc EXCEPT ![t] = l]
  /\ arg' = [arg EXCEPT ![t] = n]

(* pisces_add_cpu and pisces_add_cpus take the CPU offline.                *)
pisces_add_cpu(t) ==
  /\ \E c \in online_cpus :
       /\ Begin(t, "add_cpu", c)
       /\ online_cpus' = online_cpus \ {c}
  /\ UNCHANGED <<online_mem, kernel, state, notes, boot_env, admin, lists, ctrl_lock, dropped>>

(* pisces_add_mem, or pisces_add_mem_explicit.  A call for several blocks  *)
(* is as many tools, whose steps come in the order of its loops.  So is    *)
(* pisces_add_mem_node when the whole node goes offline; when it does not, *)
(* the entries that stayed 0 are sent too, as ranges of no pages.          *)
pisces_add_mem(t) ==
  /\ Len(memdesc_list) + Cardinality(Tools) <= MaxDesc
  /\ \E b \in online_mem, l \in {"add_mem", "add_mem_explicit"} :
       /\ Begin(t, l, b)
       /\ online_mem' = online_mem \ {b}
  /\ UNCHANGED <<online_cpus, kernel, state, notes, boot_env, admin, lists, ctrl_lock, dropped>>

(* Another CPU or block of the same call does not go offline:              *)
(* pet_online_cpus and pet_online_blocks take back those that did.         *)
OfflineShort(t) ==
  /\ \/ pc[t] = "add_cpu" /\ Goto(t, "online_cpu")
     \/ pc[t] = "add_mem" /\ Goto(t, "online_mem")
  /\ UNCHANGED <<linux, kernel, state, notes, boot_env, admin, lists, ctrl_lock, dropped>>

pisces_remove_cpu(t) ==
  /\ \E c \in Cpus : Begin(t, "remove_cpu", c)
  /\ UNCHANGED <<linux, kernel, state, notes, boot_env, admin, lists, ctrl_lock, dropped>>

(* Where a tool goes when its ioctl fails: the CPU or the explicit block   *)
(* is brought online again, other memory is left.                          *)
OnFailure(l) == CASE l = "add_cpu" -> "online_cpu"
                  [] l = "add_mem_explicit" -> "online_mem"
                  [] l = "add_mem" -> "drop_mem"
                  [] OTHER -> "idle"

(* ctrl_ioctl on an enclave that does not run.                             *)
CtrlRefuse(t) ==
  /\ pc[t] \in {"add_cpu", "add_mem", "add_mem_explicit", "remove_cpu"}
  /\ ctrl_lock = Nobody
  /\ state # "running"
  /\ Goto(t, OnFailure(pc[t]))
  /\ UNCHANGED <<linux, kernel, state, notes, boot_env, admin, lists, ctrl_lock, dropped>>

(* PISCES_CMD_ADD_CPU notes the CPU, or fails when it has it noted.        *)
CtrlAddCpu(t) ==
  LET c == arg[t] IN
  /\ pc[t] = "add_cpu"
  /\ ctrl_lock = Nobody
  /\ state = "running"
  /\ assigned_cpus' = assigned_cpus \union {c}
  /\ num_cpus' = NumCpus(c)
  /\ \/ /\ c \in assigned_cpus
        /\ Goto(t, "online_cpu")
        /\ UNCHANGED ctrl_lock
     \/ /\ c \notin assigned_cpus
        /\ Goto(t, "send_cpu")
        /\ ctrl_lock' = t
  /\ UNCHANGED <<linux, kernel, state, memdesc_list, memdesc_num, boot_env, admin, lists, dropped>>

(* PISCES_CMD_ADD_MEM notes the block.                                     *)
CtrlAddMem(t) ==
  /\ pc[t] \in {"add_mem", "add_mem_explicit"}
  /\ ctrl_lock = Nobody
  /\ state = "running"
  /\ memdesc_list' = pisces_enclave_add_mem(memdesc_list, arg[t])
  /\ memdesc_num' = memdesc_num + 1
  /\ ctrl_lock' = t
  /\ Goto(t, IF pc[t] = "add_mem" THEN "send_mem" ELSE "send_mem_explicit")
  /\ UNCHANGED <<linux, kernel, state, assigned_cpus, num_cpus, boot_env, admin, lists, dropped>>

(* PISCES_CMD_REMOVE_CPU only asks.                                        *)
CtrlRemoveCpu(t) ==
  /\ pc[t] = "remove_cpu"
  /\ ctrl_lock = Nobody
  /\ state = "running"
  /\ ctrl_lock' = t
  /\ Goto(t, "send_remove")
  /\ UNCHANGED <<linux, kernel, state, notes, boot_env, admin, lists, dropped>>

-----------------------------------------------------------------------------
(***************************************************************************)
(* The answers.  The kernel takes a CPU or a block or not, gives a CPU up  *)
(* that it has and did not boot on, or not; when the channel is down       *)
(* pisces_xbuf_sync_send fails.                                            *)
(***************************************************************************)

(* ctrl_add_cpu fails when the kernel says no.                             *)
ctrl_add_cpu(t) ==
  /\ pc[t] = "send_cpu"
  /\ ctrl_lock' = Nobody
  /\ \/ /\ ready
        /\ kernel_cpus' = kernel_cpus \union {arg[t]}
        /\ Goto(t, "idle")
     \/ /\ Goto(t, "online_cpu")
        /\ UNCHANGED kernel_cpus
  /\ UNCHANGED <<linux, kernel_mem, ready, state, notes, boot_env, admin, lists, dropped>>

(* ctrl_add_mem does not look at what the kernel says.                     *)
ctrl_add_mem(t) ==
  /\ pc[t] \in {"send_mem", "send_mem_explicit"}
  /\ ctrl_lock' = Nobody
  /\ \/ /\ ready
        /\ kernel_mem' \in {kernel_mem, kernel_mem \union {arg[t]}}
        /\ Goto(t, "idle")
     \/ /\ ~ready
        /\ Goto(t, IF pc[t] = "send_mem" THEN "drop_mem" ELSE "online_mem")
        /\ UNCHANGED kernel_mem
  /\ UNCHANGED <<linux, kernel_cpus, ready, state, notes, boot_env, admin, lists, dropped>>

(* Slip: the CPU is brought online whatever the kernel said.               *)
RemoveAnswer_Unchecked(t) ==
  /\ pc[t] = "send_remove"
  /\ ctrl_lock' = Nobody
  /\ \/ /\ ready
        /\ arg[t] \in kernel_cpus \ {boot_env.cpu}
        /\ kernel_cpus' = kernel_cpus \ {arg[t]}
     \/ UNCHANGED kernel_cpus
  /\ Goto(t, "online_cpu")
  /\ UNCHANGED <<linux, kernel_mem, ready, state, notes, boot_env, admin, lists, dropped>>

(* A CPU the kernel gave up stays in the notes, "//pisces_enclave_remove_  *)
(* cpu(enclave, cpu_id)".                                                  *)
RemoveAnswer(t) ==
  /\ pc[t] = "send_remove"
  /\ ctrl_lock' = Nobody
  /\ \/ /\ ready
        /\ arg[t] \in kernel_cpus \ {boot_env.cpu}
        /\ kernel_cpus' = kernel_cpus \ {arg[t]}
        /\ Goto(t, "online_cpu")
     \/ /\ Goto(t, "idle")
        /\ UNCHANGED kernel_cpus
  /\ UNCHANGED <<linux, kernel_mem, ready, state, notes, boot_env, admin, lists, dropped>>

(* Slip: pisces_add_cpu leaves a CPU offline that was not taken.           *)
ToolEnds_NoOnline(t) ==
  /\ pc[t] \in {"online_cpu", "online_mem", "drop_mem"}
  /\ online_mem' = IF pc[t] = "online_mem" THEN online_mem \union {arg[t]} ELSE online_mem
  /\ dropped' = IF pc[t] = "drop_mem" THEN dropped \union {arg[t]} ELSE dropped
  /\ Goto(t, "idle")
  /\ UNCHANGED <<online_cpus, kernel, state, notes, boot_env, admin, lists, ctrl_lock>>

(* The tool brings the resource online, or forgets about the block.        *)
ToolEnds(t) ==
  /\ pc[t] \in {"online_cpu", "online_mem", "drop_mem"}
  /\ online_cpus' = IF pc[t] = "online_cpu" THEN online_cpus \union {arg[t]} ELSE online_cpus
  /\ online_mem' = IF pc[t] = "online_mem" THEN online_mem \union {arg[t]} ELSE online_mem
  /\ dropped' = IF pc[t] = "drop_mem" THEN dropped \union {arg[t]} ELSE dropped
  /\ Goto(t, "idle")
  /\ UNCHANGED <<kernel, state, notes, boot_env, admin, lists, ctrl_lock>>

-----------------------------------------------------------------------------
Init ==
  /\ online_cpus = Cpus /\ online_mem = Blocks
  /\ kernel_cpus = {} /\ kernel_mem = {} /\ ready = FALSE
  /\ state = "none"
  /\ assigned_cpus = {} /\ num_cpus = 0
  /\ memdesc_list = <<>> /\ memdesc_num = 0
  /\ boot_env \in [cpu : Cpus, base : Blocks, num : {0}]
  /\ ctrl_lock = Nobody
  /\ admin = "idle" /\ cpu_list = {} /\ mem_list = {}
  /\ pc = [t \in Tools |-> "idle"] /\ arg = [t \in Tools |-> 0]
  /\ dropped = {}

Administrator ==
  \/ pisces_load \/ LaunchMem \/ LaunchCpu \/ LaunchNoCpu
  \/ LaunchNoteCpu \/ LaunchNoteMem \/ pisces_enclave_launch \/ LaunchUndo
  \/ ResetStop \/ ResetBoot \/ ReaddMem \/ ReaddCpu \/ ResetEnd
  \/ TeardownRead \/ TeardownShutdown \/ TeardownFails \/ TeardownFree \/ TeardownOnline

Tool(t) ==
  \/ pisces_add_cpu(t) \/ pisces_add_mem(t) \/ OfflineShort(t) \/ pisces_remove_cpu(t)
  \/ CtrlRefuse(t) \/ CtrlAddCpu(t) \/ CtrlAddMem(t) \/ CtrlRemoveCpu(t)
  \/ ctrl_add_cpu(t) \/ ctrl_add_mem(t) \/ RemoveAnswer(t) \/ ToolEnds(t)

Next == Administrator \/ \E t \in Tools : Tool(t)

Spec == Init /\ [][Next]_vars

-----------------------------------------------------------------------------
AdminLabels == {"idle", "cpu", "launch", "note", "undo", "boot", "readd", "shutdown", "free",
                "online"}
PcLabels == {"idle", "add_cpu", "add_mem", "add_mem_explicit", "remove_cpu", "send_cpu",
             "send_mem", "send_mem_explicit", "send_remove", "online_cpu", "online_mem",
             "drop_mem"}

(* The labels of a tool that has a CPU, or a block, in hand, and of one    *)
(* that asks for a CPU.                                                    *)
CpuHeld  == {"add_cpu", "send_cpu", "online_cpu"}
MemHeld  == {"add_mem", "add_mem_explicit", "send_mem", "send_mem_explicit", "online_mem",
             "drop_mem"}
CpuAsked == {"remove_cpu", "send_remove"}

(* Every variable has its type.                                            *)
TypeOK ==
  /\ online_cpus \subseteq Cpus /\ online_mem \subseteq Blocks
  /\ kernel_cpus \subseteq Cpus /\ kernel_mem \subseteq Blocks
  /\ ready \in BOOLEAN
  /\ state \in {"none", "loaded", "running"}
  /\ assigned_cpus \subseteq Cpus /\ num_cpus \in Nat
  /\ memdesc_list \in Seq(Blocks) /\ memdesc_num \in Nat
  /\ boot_env \in [cpu : Cpus, base : Blocks, num : 0..MaxBoot]
  /\ ctrl_lock \in Tools \union {Nobody}
  /\ admin \in AdminLabels
  /\ cpu_list \subseteq Cpus /\ mem_list \subseteq Blocks
  /\ pc \in [Tools -> PcLabels] /\ arg \in [Tools -> Nat]
  /\ \A t \in Tools : /\ pc[t] \in CpuHeld \union CpuAsked => arg[t] \in Cpus
                      /\ pc[t] \in MemHeld => arg[t] \in Blocks
  /\ dropped \subseteq Blocks

(* The loan's point: no CPU and no block is used by Linux and by the       *)
(* enclave's kernel at the same time, whatever fails on the way, as long   *)
(* as no enclave is reset that has something in its notes that Linux got   *)
(* back.                                                                   *)
Disjoint ==
  /\ kernel_cpus \intersect online_cpus = {}
  /\ kernel_mem \intersect online_mem = {}

(* What the kernel uses is in the driver's notes: stop_enclave stops all   *)
(* of it, RESET hands all of it over again, and teardown returns it.       *)
Noted ==
  state # "none" =>
    /\ kernel_cpus \subseteq assigned_cpus
    /\ kernel_mem \subseteq Described(memdesc_list)

(* A resource on its way between Linux and the notes.                      *)
CpuMoves(c) ==
  \/ \E t \in Tools : arg[t] = c /\ pc[t] \in CpuHeld
  \/ admin \in {"launch", "note", "undo"} /\ c = boot_env.cpu
  \/ admin = "online" /\ c \in cpu_list
MemMoves(b) ==
  \/ \E t \in Tools : arg[t] = b /\ pc[t] \in MemHeld
  \/ admin \in {"cpu", "launch", "note", "undo"} /\ b \in BootBlocks(boot_env)
  \/ admin = "online" /\ b \in mem_list

(* Nothing gets lost: what Linux does not use is in the driver's notes or  *)
(* on its way, so that teardown, which reads as many CPUs and blocks from  *)
(* the notes as their counters say, returns everything.  Only              *)
(* pisces_add_mem loses blocks, when the enclave does not run.             *)
Accounted ==
  /\ \A c \in Cpus \ online_cpus : c \in assigned_cpus \/ CpuMoves(c)
  /\ \A b \in Blocks \ online_mem :
       b \in Described(memdesc_list) \/ b \in dropped \/ MemMoves(b)

(* The memory list is in the order of addresses, wherever the blocks were  *)
(* inserted, and the counters that teardown relies on are right.           *)
Ordered ==
  /\ \A i, j \in DOMAIN memdesc_list : i < j => memdesc_list[i] <= memdesc_list[j]
  /\ memdesc_num = Len(memdesc_list)
  /\ num_cpus = Cardinality(assigned_cpus)

Launching == {"cpu", "launch", "note", "undo"}

(* What a tool has in hand neither Linux nor the kernel nor another tool   *)
(* has; while the kernel is asked it is in the notes.                      *)
HandInv ==
  /\ \A t \in Tools : pc[t] \in CpuHeld => arg[t] \notin online_cpus \union kernel_cpus
  /\ \A t \in Tools : pc[t] \in MemHeld => arg[t] \notin online_mem \union kernel_mem
  /\ \A t, u \in Tools :
       /\ t # u
       /\ {pc[t], pc[u]} \subseteq CpuHeld \/ {pc[t], pc[u]} \subseteq MemHeld
       => arg[t] # arg[u]
  /\ \A t \in Tools : pc[t] = "send_cpu" => arg[t] \in assigned_cpus
  /\ \A t \in Tools :
       pc[t] \in {"send_mem", "send_mem_explicit"} => arg[t] \in Described(memdesc_list)

(* The administrator is alone, and where it stands says what it has in     *)
(* hand or in its lists.                                                   *)
AdminInv ==
  /\ admin # "idle" => \A t \in Tools : pc[t] = "idle"
  /\ admin \in Launching =>
       state = "loaded" /\ BootBlocks(boot_env) \intersect online_mem = {}
  /\ admin \in {"launch", "note", "undo"} => boot_env.cpu \notin online_cpus
  /\ admin = "note" =>
       boot_env.cpu \in assigned_cpus /\ BootBlocks(boot_env) \ mem_list \subseteq Described(memdesc_list)
  /\ admin \in {"boot", "readd"} => state = "running" /\ ~Returned
  /\ admin = "readd" =>
       cpu_list \subseteq assigned_cpus /\ mem_list \subseteq Described(memdesc_list)
  /\ admin \in {"shutdown", "free"} =>
       cpu_list = assigned_cpus /\ mem_list = Described(memdesc_list)
  /\ admin = "free" => state = "running" /\ kernel_cpus = {} /\ kernel_mem = {} /\ ~ready
  /\ admin = "online" => state = "none"

(* Only a running enclave has a kernel, and it runs on what it booted on.  *)
KernelInv ==
  /\ state # "running" => kernel_cpus = {} /\ kernel_mem = {}
  /\ ready => state = "running"
  /\ state = "none" => assigned_cpus = {} /\ memdesc_list = <<>>
  /\ state = "running" =>
       boot_env.cpu \in assigned_cpus /\ BootBlocks(boot_env) \subseteq Described(memdesc_list)

(* Why the loan is safe: wherever the steps of the tools fall, a resource  *)
(* has one place.                                                          *)
LoanInv == Disjoint /\ Noted /\ HandInv /\ AdminInv /\ KernelInv

(* "send INIT IPI to all kitten cores" (enclave.c:168): RESET stops CPUs   *)
(* of the enclave, and none that Linux runs on.                            *)
InitToEnclaveOnly ==
  [][ResetStop => assigned_cpus \intersect online_cpus = {}]_vars

=============================================================================
