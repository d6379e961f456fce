-------------------------- MODULE ResourcesProofs ---------------------------
(***************************************************************************)
(* Theorems about Resources, for any CPUs, blocks, tools and bounds.       *)
(***************************************************************************)
EXTENDS Resources, TLAPS, FiniteSetTheorems, WellFoundedInduction

-----------------------------------------------------------------------------
(* A set of natural numbers that is not empty has a least one.             *)
LEMMA LessThan == \A x, y \in Nat : <<y, x>> \in OpToRel(<, Nat) <=> y < x
  BY DEF OpToRel

LEMMA Smallest ==
  ASSUME NEW S \in SUBSET Nat, S # {}
  PROVE  \E i \in S : \A j \in S : i <= j
  <1>1. PICK x \in S : \A y \in S : ~ (<<y, x>> \in OpToRel(<, Nat))
    BY NatLessThanWellFounded, WFMin
  <1>2. \A y \in S : ~(y < x)
    BY <1>1, LessThan
  <1>3. \A y \in S : x <= y
    BY <1>2
  <1>4. QED
    BY <1>3

(* Where a block is inserted: all before it have addresses no higher, the  *)
(* one it pushes back has a higher one.                                    *)
LEMMA InsertPlace ==
  ASSUME NEW list \in Seq(Blocks), NEW b \in Blocks
  PROVE  /\ InsertAt(list, b) \in 1..Len(list) + 1
         /\ \A i \in 1..Len(list) : i < InsertAt(list, b) => list[i] <= b
         /\ InsertAt(list, b) <= Len(list) => list[InsertAt(list, b)] > b
  <1> DEFINE later == {i \in DOMAIN list : list[i] > b}
             p == InsertAt(list, b)
  <1>1. DOMAIN list = 1..Len(list) /\ Len(list) \in Nat
    OBVIOUS
  <1>2. \A i \in 1..Len(list) : list[i] \in Nat
    <2>1. \A i \in 1..Len(list) : list[i] \in Blocks
      OBVIOUS
    <2>2. QED
      BY <2>1, NumberAssumption
  <1>3. CASE later = {}
    <2>1. p = Len(list) + 1
      BY <1>3 DEF InsertAt
    <2>2. \A i \in 1..Len(list) : ~(list[i] > b)
      BY <1>1, <1>3
    <2>3. QED
      BY <2>1, <2>2, <1>1, <1>2, NumberAssumption
  <1>4. CASE later # {}
    <2>1. later \in SUBSET Nat
      BY <1>1
    <2>2. \E i \in later : \A j \in later : i <= j
      BY <1>4, <2>1, Smallest
    <2>3. p \in later /\ \A j \in later : p <= j
      BY <1>4, <2>2 DEF InsertAt
    <2>4. ASSUME NEW i \in 1..Len(list), i < p PROVE list[i] <= b
      <3>1. i \notin later
        BY <2>3, <2>4, <1>1
      <3>2. QED
        BY <3>1, <1>1, <1>2, NumberAssumption
    <2>5. QED
      BY <2>3, <2>4, <1>1
  <1>5. QED
    BY <1>3, <1>4

(* Inserting a block adds it to what is described, and nothing else.       *)
LEMMA InsertDescribes ==
  ASSUME NEW list \in Seq(Blocks), NEW b \in Blocks
  PROVE  /\ pisces_enclave_add_mem(list, b) \in Seq(Blocks)
         /\ Len(pisces_enclave_add_mem(list, b)) = Len(list) + 1
         /\ Described(pisces_enclave_add_mem(list, b)) = Described(list) \union {b}
  <1> DEFINE p == InsertAt(list, b)
             new == pisces_enclave_add_mem(list, b)
  <1>1. Len(list) \in Nat /\ DOMAIN list = 1..Len(list)
    OBVIOUS
  <1>2. p \in 1..Len(list) + 1
    BY InsertPlace
  <1>3. new = [i \in 1..Len(list) + 1 |->
                 IF i < p THEN list[i] ELSE IF i = p THEN b ELSE list[i - 1]]
    BY DEF pisces_enclave_add_mem
  <1> HIDE DEF p, new
  <1>4. \A i \in 1..Len(list) + 1 :
          new[i] = IF i < p THEN list[i] ELSE IF i = p THEN b ELSE list[i - 1]
    BY <1>3
  <1>5. new \in Seq(Blocks) /\ Len(new) = Len(list) + 1
    <2>1. \A i \in 1..Len(list) + 1 : new[i] \in Blocks
      BY <1>1, <1>2, <1>4
    <2>2. new \in [1..Len(list) + 1 -> Blocks]
      BY <1>3, <2>1
    <2>3. QED
      BY <1>1, <2>2
  <1>6. DOMAIN new = 1..Len(list) + 1
    BY <1>3
  <1>7. \A x \in Described(new) : x \in Described(list) \union {b}
    <2>1. SUFFICES ASSUME NEW i \in 1..Len(list) + 1
                   PROVE  new[i] \in Described(list) \union {b}
      BY <1>6 DEF Described
    <2>2. CASE i < p
      BY <2>2, <1>1, <1>2, <1>4 DEF Described
    <2>3. CASE i = p
      BY <2>3, <1>4
    <2>4. CASE i > p
      <3>1. i - 1 \in 1..Len(list) /\ new[i] = list[i - 1]
        BY <2>4, <1>1, <1>2, <1>4
      <3>2. QED
        BY <3>1, <1>1 DEF Described
    <2>5. QED
      BY <2>2, <2>3, <2>4, <1>2
  <1>8. b \in Described(new)
    BY <1>2, <1>4, <1>6 DEF Described
  <1>9. \A i \in 1..Len(list) : list[i] \in Described(new)
    <2>1. SUFFICES ASSUME NEW i \in 1..Len(list) PROVE list[i] \in Described(new)
      OBVIOUS
    <2>2. CASE i < p
      <3>1. i \in 1..Len(list) + 1 /\ new[i] = list[i]
        BY <2>2, <1>1, <1>4
      <3>2. QED
        BY <3>1, <1>6 DEF Described
    <2>3. CASE i >= p
      <3>1. i + 1 \in 1..Len(list) + 1 /\ ~(i + 1 < p) /\ i + 1 # p /\ (i + 1) - 1 = i
        BY <2>3, <1>1, <1>2
      <3>2. new[i + 1] = list[i]
        BY <3>1, <1>4
      <3>3. QED
        BY <3>1, <3>2, <1>6 DEF Described
    <2>4. QED
      BY <2>2, <2>3, <1>2
  <1>10. Described(list) \subseteq Described(new)
    BY <1>9, <1>1 DEF Described
  <1>11. Described(new) = Described(list) \union {b}
    BY <1>7, <1>8, <1>10
  <1>12. QED
    BY <1>5, <1>11 DEF new

(* A list in order stays in order.                                         *)
InOrder(list) == \A i, j \in DOMAIN list : i < j => list[i] <= list[j]

LEMMA InsertKeepsOrder ==
  ASSUME NEW list \in Seq(Blocks), NEW b \in Blocks, InOrder(list)
  PROVE  InOrder(pisces_enclave_add_mem(list, b))
  <1> DEFINE p == InsertAt(list, b)
             new == pisces_enclave_add_mem(list, b)
  <1>1. Len(list) \in Nat /\ DOMAIN list = 1..Len(list)
    OBVIOUS
  <1>2. /\ p \in 1..Len(list) + 1
        /\ \A i \in 1..Len(list) : i < p => list[i] <= b
        /\ p <= Len(list) => list[p] > b
    BY InsertPlace
  <1>3. new = [i \in 1..Len(list) + 1 |->
                 IF i < p THEN list[i] ELSE IF i = p THEN b ELSE list[i - 1]]
    BY DEF pisces_enclave_add_mem
  <1>4. b \in Nat /\ \A i \in 1..Len(list) : list[i] \in Nat
    <2>1. \A i \in 1..Len(list) : list[i] \in Blocks
      OBVIOUS
    <2>2. QED
      BY <2>1, NumberAssumption
  <1> HIDE DEF p, new
  <1>5. \A i, j \in 1..Len(list) : i < j => list[i] <= list[j]
    BY <1>1 DEF InOrder
  <1>6. \A i \in 1..Len(list) : p <= i => list[i] >= b
    <2>1. SUFFICES ASSUME NEW i \in 1..Len(list), p <= i PROVE list[i] >= b
      OBVIOUS
    <2>2. p \in 1..Len(list) /\ list[p] > b
      BY <2>1, <1>1, <1>2
    <2>3. list[p] <= list[i]
      BY <2>1, <2>2, <1>4, <1>5
    <2>4. QED
      BY <2>2, <2>3, <1>4
  <1>7. SUFFICES ASSUME NEW i \in 1..Len(list) + 1, NEW j \in 1..Len(list) + 1, i < j
                 PROVE  new[i] <= new[j]
    BY <1>3 DEF InOrder, new
  <1>8. CASE j < p
    <2>1. new[i] = list[i] /\ new[j] = list[j] /\ {i, j} \subseteq 1..Len(list)
      BY <1>8, <1>7, <1>1, <1>2, <1>3
    <2>2. QED
      BY <2>1, <1>5, <1>7
  <1>9. CASE j = p
    <2>1. new[i] = list[i] /\ new[j] = b /\ i \in 1..Len(list) /\ i < p
      BY <1>9, <1>7, <1>1, <1>2, <1>3
    <2>2. QED
      BY <2>1, <1>2
  <1>10. CASE j > p
    <2>1. new[j] = list[j - 1] /\ j - 1 \in 1..Len(list) /\ p <= j - 1
      BY <1>10, <1>1, <1>2, <1>3
    <2>2. CASE i < p
      <3>1. new[i] = list[i] /\ i \in 1..Len(list) /\ i < j - 1
        BY <2>1, <2>2, <1>1, <1>2, <1>3
      <3>2. QED
        BY <2>1, <3>1, <1>5
    <2>3. CASE i = p
      BY <2>1, <2>3, <1>3, <1>6
    <2>4. CASE i > p
      <3>1. new[i] = list[i - 1] /\ i - 1 \in 1..Len(list) /\ i - 1 < j - 1
        BY <2>4, <1>7, <1>1, <1>2, <1>3
      <3>2. QED
        BY <2>1, <3>1, <1>5
    <2>5. QED
      BY <2>2, <2>3, <2>4, <1>2
  <1>11. QED
    BY <1>8, <1>9, <1>10, <1>2

-----------------------------------------------------------------------------
(* A tool's move.                                                          *)
LEMMA Moves ==
  ASSUME NEW t \in Tools, NEW l, pc \in [Tools -> PcLabels], arg \in [Tools -> Nat], Goto(t, l)
  PROVE  /\ pc'[t] = l /\ \A u \in Tools \ {t} : pc'[u] = pc[u] /\ arg'[u] = arg[u]
         /\ arg'[t] = IF l = "idle" THEN 0 ELSE arg[t]
         /\ l \in PcLabels => pc' \in [Tools -> PcLabels]
         /\ arg' \in [Tools -> Nat]
  BY DEF Goto

(* The tools' part of the type.                                            *)
ToolType ==
  /\ pc \in [Tools -> PcLabels] /\ arg \in [Tools -> Nat]
  /\ \A t \in Tools : /\ pc[t] \in CpuHeld \union CpuAsked => arg[t] \in Cpus
                      /\ pc[t] \in MemHeld => arg[t] \in Blocks

LEMMA MoveType ==
  ASSUME NEW t \in Tools, NEW l \in PcLabels, ToolType, Goto(t, l),
         l \in CpuHeld \union CpuAsked => pc[t] \in CpuHeld \union CpuAsked,
         l \in MemHeld => pc[t] \in MemHeld
  PROVE  ToolType'
  <1>1. pc \in [Tools -> PcLabels] /\ arg \in [Tools -> Nat]
    BY DEF ToolType
  <1>2. pc'[t] = l /\ (l # "idle" => arg'[t] = arg[t])
    BY <1>1, Moves
  <1>3. \A u \in Tools \ {t} : pc'[u] = pc[u] /\ arg'[u] = arg[u]
    BY <1>1, Moves
  <1>4. pc' \in [Tools -> PcLabels] /\ arg' \in [Tools -> Nat]
    BY <1>1, Moves
  <1>5. QED
    BY <1>2, <1>3, <1>4 DEF ToolType, CpuHeld, CpuAsked, MemHeld

LEMMA BeginType ==
  ASSUME NEW t \in Tools, NEW l \in PcLabels, NEW n \in Nat, ToolType, Begin(t, l, n),
         l \in CpuHeld \union CpuAsked => n \in Cpus,
         l \in MemHeld => n \in Blocks
  PROVE  ToolType'
  BY DEF ToolType, Begin

(* The administrator's steps keep every variable in its type.              *)
LEMMA AdminType ==
  ASSUME TypeOK, Administrator
  PROVE  TypeOK'
  <1> USE DEF TypeOK, AdminLabels, linux, kernel, notes, lists, tools
  <1>1. CASE pisces_load
    BY <1>1 DEF pisces_load
  <1>2. CASE LaunchMem
    <2>1. PICK base \in Blocks, num \in 1..MaxBoot :
            /\ online_mem' = online_mem \ (base..base + num - 1)
            /\ boot_env' = [boot_env EXCEPT !.base = base, !.num = num]
      BY <1>2 DEF LaunchMem
    <2>2. num \in 0..MaxBoot
      BY BoundAssumption
    <2>3. boot_env' \in [cpu : Cpus, base : Blocks, num : 0..MaxBoot]
      BY <2>1, <2>2
    <2>4. QED
      BY <1>2, <2>1, <2>3 DEF LaunchMem
  <1>3. CASE LaunchCpu
    BY <1>3 DEF LaunchCpu
  <1>4. CASE LaunchNoCpu
    BY <1>4 DEF LaunchNoCpu, BootBlocks
  <1>5. CASE LaunchNoteCpu
    BY <1>5 DEF LaunchNoteCpu, BootBlocks, NumCpus
  <1>6. CASE LaunchNoteMem
    <2>1. PICK b \in mem_list :
            /\ memdesc_list' = pisces_enclave_add_mem(memdesc_list, b)
            /\ mem_list' = mem_list \ {b}
      BY <1>6 DEF LaunchNoteMem
    <2>2. memdesc_list' \in Seq(Blocks)
      BY <2>1, InsertDescribes
    <2>3. QED
      BY <1>6, <2>1, <2>2 DEF LaunchNoteMem
  <1>7. CASE pisces_enclave_launch
    BY <1>7 DEF pisces_enclave_launch, KernelBoots, BootBlocks
  <1>8. CASE LaunchUndo
    BY <1>8 DEF LaunchUndo, BootBlocks
  <1>9. CASE ResetStop
    BY <1>9 DEF ResetStop
  <1>10. CASE ResetBoot
    <2>1. Described(memdesc_list) \subseteq Blocks
      BY DEF Described
    <2>2. BootBlocks(boot_env) \subseteq Blocks
      BY DEF BootBlocks
    <2>3. CASE UNCHANGED <<kernel, lists>>
      BY <1>10, <2>3 DEF ResetBoot
    <2>4. CASE KernelBoots(boot_env) /\ cpu_list' = assigned_cpus \ {boot_env.cpu}
               /\ mem_list' = Described(memdesc_list) \ BootBlocks(boot_env)
      BY <1>10, <2>1, <2>2, <2>4 DEF ResetBoot, KernelBoots
    <2>5. QED
      BY <1>10, <2>3, <2>4 DEF ResetBoot
  <1>11. CASE ReaddMem
    BY <1>11 DEF ReaddMem
  <1>12. CASE ReaddCpu
    BY <1>12 DEF ReaddCpu
  <1>13. CASE ResetEnd
    BY <1>13 DEF ResetEnd
  <1>14. CASE TeardownRead
    BY <1>14 DEF TeardownRead
  <1>15. CASE TeardownShutdown
    BY <1>15 DEF TeardownShutdown
  <1>16. CASE TeardownFails
    BY <1>16 DEF TeardownFails
  <1>17. CASE TeardownFree
    BY <1>17 DEF TeardownFree
  <1>18. CASE TeardownOnline
    BY <1>18 DEF TeardownOnline
  <1>19. QED
    BY <1>1, <1>2, <1>3, <1>4, <1>5, <1>6, <1>7, <1>8, <1>9, <1>10, <1>11, <1>12, <1>13,
       <1>14, <1>15, <1>16, <1>17, <1>18 DEF Administrator

(* So do the tools'.                                                       *)
LEMMA ToolStepType ==
  ASSUME TypeOK, NEW t \in Tools, Tool(t)
  PROVE  TypeOK'
  <1> USE NumberAssumption DEF linux, kernel, notes, lists
  <1>a. ToolType
    BY DEF TypeOK, ToolType
  <1>b. arg[t] \in Nat /\ (pc[t] \in CpuHeld \union CpuAsked => arg[t] \in Cpus)
        /\ (pc[t] \in MemHeld => arg[t] \in Blocks)
    BY DEF TypeOK
  <1>1. CASE pisces_add_cpu(t)
    <2>1. ToolType'
      BY <1>1, <1>a, BeginType DEF pisces_add_cpu, TypeOK, PcLabels, CpuHeld, CpuAsked, MemHeld
    <2>2. QED
      BY <1>1, <2>1 DEF pisces_add_cpu, TypeOK, ToolType
  <1>2. CASE pisces_add_mem(t)
    <2>1. ToolType'
      BY <1>2, <1>a, BeginType DEF pisces_add_mem, TypeOK, PcLabels, CpuHeld, CpuAsked, MemHeld
    <2>2. QED
      BY <1>2, <2>1 DEF pisces_add_mem, TypeOK, ToolType
  <1>3. CASE pisces_remove_cpu(t)
    <2>1. ToolType'
      BY <1>3, <1>a, BeginType DEF pisces_remove_cpu, TypeOK, PcLabels, CpuHeld, CpuAsked, MemHeld
    <2>2. QED
      BY <1>3, <2>1 DEF pisces_remove_cpu, TypeOK, ToolType
  <1>o. CASE OfflineShort(t)
    <2>1. ToolType'
      BY <1>o, <1>a, MoveType DEF OfflineShort, PcLabels, CpuHeld, CpuAsked, MemHeld
    <2>2. QED
      BY <1>o, <2>1 DEF OfflineShort, TypeOK, ToolType
  <1>4. CASE CtrlRefuse(t)
    <2>1. ToolType'
      BY <1>4, <1>a, MoveType DEF CtrlRefuse, OnFailure, PcLabels, CpuHeld, CpuAsked, MemHeld
    <2>2. QED
      BY <1>4, <2>1 DEF CtrlRefuse, TypeOK, ToolType
  <1>5. CASE CtrlAddCpu(t)
    <2>1. ToolType'
      BY <1>5, <1>a, MoveType DEF CtrlAddCpu, PcLabels, CpuHeld, CpuAsked, MemHeld
    <2>2. QED
      <3>1. num_cpus' \in Nat
        BY <1>5 DEF CtrlAddCpu, TypeOK, NumCpus
      <3>2. assigned_cpus' \subseteq Cpus
        BY <1>5, <1>b DEF CtrlAddCpu, TypeOK, CpuHeld
      <3>3. ctrl_lock' \in Tools \union {Nobody}
        BY <1>5 DEF CtrlAddCpu, TypeOK
      <3>4. QED
        BY <1>5, <2>1, <3>1, <3>2, <3>3 DEF CtrlAddCpu, TypeOK, ToolType
  <1>6. CASE CtrlAddMem(t)
    <2>1. ToolType'
      BY <1>6, <1>a, MoveType DEF CtrlAddMem, PcLabels, CpuHeld, CpuAsked, MemHeld
    <2>2. QED
      <3>1. arg[t] \in Blocks /\ memdesc_list \in Seq(Blocks)
        BY <1>6, <1>b DEF CtrlAddMem, TypeOK, MemHeld
      <3>2. memdesc_list' \in Seq(Blocks)
        BY <1>6, <3>1, InsertDescribes DEF CtrlAddMem
      <3>3. QED
        BY <1>6, <2>1, <3>2 DEF CtrlAddMem, TypeOK, ToolType
  <1>7. CASE CtrlRemoveCpu(t)
    <2>1. ToolType'
      BY <1>7, <1>a, MoveType DEF CtrlRemoveCpu, PcLabels, CpuHeld, CpuAsked, MemHeld
    <2>2. QED
      BY <1>7, <2>1 DEF CtrlRemoveCpu, TypeOK, ToolType
  <1>8. CASE ctrl_add_cpu(t)
    <2>1. ToolType'
      BY <1>8, <1>a, MoveType DEF ctrl_add_cpu, PcLabels, CpuHeld, CpuAsked, MemHeld
    <2>2. QED
      BY <1>8, <1>b, <2>1 DEF ctrl_add_cpu, TypeOK, ToolType, CpuHeld
  <1>9. CASE ctrl_add_mem(t)
    <2>1. ToolType'
      BY <1>9, <1>a, MoveType DEF ctrl_add_mem, PcLabels, CpuHeld, CpuAsked, MemHeld
    <2>2. QED
      BY <1>9, <1>b, <2>1 DEF ctrl_add_mem, TypeOK, ToolType, MemHeld
  <1>10. CASE RemoveAnswer(t)
    <2>1. ToolType'
      BY <1>10, <1>a, MoveType DEF RemoveAnswer, PcLabels, CpuHeld, CpuAsked, MemHeld
    <2>2. QED
      BY <1>10, <2>1 DEF RemoveAnswer, TypeOK, ToolType
  <1>11. CASE ToolEnds(t)
    <2>1. ToolType'
      BY <1>11, <1>a, MoveType DEF ToolEnds, PcLabels, CpuHeld, CpuAsked, MemHeld
    <2>2. QED
      BY <1>11, <1>b, <2>1 DEF ToolEnds, TypeOK, ToolType, CpuHeld, MemHeld
  <1>12. QED
    BY <1>1, <1>2, <1>3, <1>o, <1>4, <1>5, <1>6, <1>7, <1>8, <1>9, <1>10, <1>11 DEF Tool

(* Every variable of the loan keeps its type, and a tool has in hand what  *)
(* its step needs.                                                         *)
THEOREM TypeCorrect == Spec => []TypeOK
  <1>1. Init => TypeOK
    <2> SUFFICES ASSUME Init PROVE TypeOK
      OBVIOUS
    <2>1. boot_env \in [cpu : Cpus, base : Blocks, num : 0..MaxBoot]
      <3>1. 0 \in 0..MaxBoot
        BY BoundAssumption
      <3>2. QED
        BY <3>1 DEF Init
    <2>2. ToolType
      BY DEF Init, ToolType, PcLabels, CpuHeld, CpuAsked, MemHeld
    <2>3. /\ memdesc_list \in Seq(Blocks) /\ memdesc_num \in Nat
          /\ assigned_cpus \subseteq Cpus /\ num_cpus \in Nat
      BY DEF Init
    <2>4. /\ admin \in AdminLabels /\ cpu_list \subseteq Cpus /\ mem_list \subseteq Blocks
          /\ dropped \subseteq Blocks /\ ctrl_lock \in Tools \union {Nobody}
      BY DEF Init, AdminLabels
    <2>5. /\ online_cpus \subseteq Cpus /\ online_mem \subseteq Blocks
          /\ kernel_cpus \subseteq Cpus /\ kernel_mem \subseteq Blocks
          /\ ready \in BOOLEAN /\ state \in {"none", "loaded", "running"}
      BY DEF Init
    <2>6. QED
      BY <2>1, <2>2, <2>3, <2>4, <2>5 DEF TypeOK, ToolType
  <1>2. TypeOK /\ [Next]_vars => TypeOK'
    <2> SUFFICES ASSUME TypeOK, [Next]_vars PROVE TypeOK'
      OBVIOUS
    <2>1. CASE UNCHANGED vars
      BY <2>1 DEF vars, linux, kernel, notes, lists, tools, TypeOK
    <2>2. CASE Next
      BY <2>2, AdminType, ToolStepType DEF Next
    <2>3. QED
      BY <2>1, <2>2
  <1>3. QED
    BY <1>1, <1>2, PTL DEF Spec

-----------------------------------------------------------------------------
(* Tools that are idle have nothing in hand.                               *)
AllIdle == \A t \in Tools : pc[t] = "idle"

LEMMA IdleHands == AllIdle => HandInv
  BY DEF AllIdle, HandInv, CpuHeld, MemHeld

(* As many CPUs as the counter says are all of them.                       *)
LEMMA ReadsAll ==
  ASSUME NEW S \in SUBSET Nat, IsFiniteSet(S)
  PROVE  S = {c \in S : Cardinality({d \in S : d < c}) < Cardinality(S)}
  <1>1. SUFFICES ASSUME NEW c \in S PROVE Cardinality({d \in S : d < c}) < Cardinality(S)
    OBVIOUS
  <1>2. {d \in S : d < c} \subseteq S /\ {d \in S : d < c} # S
    <2>1. c \notin {d \in S : d < c}
      OBVIOUS
    <2>2. QED
      BY <2>1
  <1>3. QED
    BY <1>2, FS_Subset, FS_CardinalityType

(* The administrator's steps preserve the invariant: no tool has anything  *)
(* in hand, and the lists were drawn up from the notes.                    *)
LEMMA AdminLoan ==
  ASSUME ~Careless, TypeOK, LoanInv, Ordered, IsFiniteSet(assigned_cpus), Administrator
  PROVE  LoanInv'
  <1> USE DEF linux, kernel, notes, lists, tools
  <1>a. AllIdle
    BY DEF LoanInv, AdminInv, AllIdle, Administrator, Alone, pisces_load, LaunchMem, LaunchCpu,
           LaunchNoCpu, LaunchNoteCpu, LaunchNoteMem, pisces_enclave_launch, LaunchUndo,
           ResetStop, ResetBoot, ReaddMem, ReaddCpu, ResetEnd, TeardownRead, TeardownShutdown,
           TeardownFails, TeardownFree, TeardownOnline
  <1>b. UNCHANGED tools
    BY DEF Administrator, pisces_load, LaunchMem, LaunchCpu,
           LaunchNoCpu, LaunchNoteCpu, LaunchNoteMem, pisces_enclave_launch, LaunchUndo,
           ResetStop, ResetBoot, ReaddMem, ReaddCpu, ResetEnd, TeardownRead, TeardownShutdown,
           TeardownFails, TeardownFree, TeardownOnline
  <1>c. AllIdle' /\ HandInv'
    <2>1. AllIdle'
      BY <1>a, <1>b DEF AllIdle
    <2>2. (AllIdle => HandInv)'
      BY IdleHands, PTL
    <2>3. QED
      BY <2>1, <2>2
  <1>d. \A t \in Tools : pc'[t] = "idle"
    BY <1>c DEF AllIdle
  <1> SUFFICES Disjoint' /\ Noted' /\ AdminInv' /\ KernelInv'
    BY <1>c DEF LoanInv
  <1> HIDE DEF tools
  <1> USE <1>d DEF LoanInv, Disjoint, Noted, AdminInv, KernelInv, Launching
  <1>1. CASE pisces_load
    BY <1>1 DEF pisces_load, Alone
  <1>3. CASE LaunchCpu
    BY <1>3 DEF LaunchCpu, BootBlocks
  <1>4. CASE LaunchNoCpu
    BY <1>4 DEF LaunchNoCpu
  <1>5. CASE LaunchNoteCpu
    BY <1>5 DEF LaunchNoteCpu
  <1>8. CASE LaunchUndo
    BY <1>8 DEF LaunchUndo
  <1>9. CASE ResetStop
    BY <1>9 DEF ResetStop, Alone, Returned
  <1>13. CASE ResetEnd
    BY <1>13 DEF ResetEnd
  <1>15. CASE TeardownShutdown
    BY <1>15 DEF TeardownShutdown
  <1>16. CASE TeardownFails
    BY <1>16 DEF TeardownFails
  <1>17. CASE TeardownFree
    <2>1. /\ state' = "none" /\ admin' = "online"
          /\ kernel_cpus' = {} /\ kernel_mem' = {} /\ ~ready'
          /\ assigned_cpus' = {} /\ memdesc_list' = <<>>
      BY <1>17 DEF TeardownFree
    <2>2. QED
      BY <2>1
  <1>18. CASE TeardownOnline
    BY <1>18 DEF TeardownOnline
  <1>11. CASE ReaddMem
    BY <1>11 DEF ReaddMem, Returned
  <1>12. CASE ReaddCpu
    BY <1>12 DEF ReaddCpu, Returned
  <1>7. CASE pisces_enclave_launch
    BY <1>7 DEF pisces_enclave_launch, KernelBoots
  <1>10. CASE ResetBoot
    BY <1>10 DEF ResetBoot, KernelBoots, Returned
  <1>2. CASE LaunchMem
    <2>1. PICK base \in Blocks, num \in 1..MaxBoot :
            /\ online_mem' = online_mem \ (base..base + num - 1)
            /\ boot_env' = [boot_env EXCEPT !.base = base, !.num = num]
      BY <1>2 DEF LaunchMem
    <2>2. boot_env'.base = base /\ boot_env'.num = num
      BY <2>1 DEF TypeOK
    <2>3. BootBlocks(boot_env') \subseteq base..base + num - 1
      <3>1. \A b \in Blocks : base <= b /\ b < base + num => b \in base..base + num - 1
        BY NumberAssumption, BoundAssumption
      <3>2. QED
        BY <2>2, <3>1 DEF BootBlocks
    <2>4. BootBlocks(boot_env') \intersect online_mem' = {}
      BY <2>1, <2>3
    <2>5. QED
      BY <1>2, <2>1, <2>4 DEF LaunchMem
  <1>6. CASE LaunchNoteMem
    <2>1. PICK b \in mem_list :
            /\ memdesc_list' = pisces_enclave_add_mem(memdesc_list, b)
            /\ mem_list' = mem_list \ {b}
      BY <1>6 DEF LaunchNoteMem
    <2>2. Described(memdesc_list') = Described(memdesc_list) \union {b}
      BY <2>1, InsertDescribes DEF TypeOK
    <2>3. QED
      BY <1>6, <2>1, <2>2 DEF LaunchNoteMem
  <1>14. CASE TeardownRead
    <2>1. cpu_list' = assigned_cpus
      <3>1. assigned_cpus \in SUBSET Nat
        BY NumberAssumption DEF TypeOK
      <3>2. num_cpus = Cardinality(assigned_cpus)
        BY DEF Ordered
      <3>3. QED
        BY <1>14, <3>1, <3>2, ReadsAll DEF TeardownRead
    <2>2. mem_list' = Described(memdesc_list)
      <3>1. memdesc_num = Len(memdesc_list) /\ memdesc_list \in Seq(Blocks)
        BY DEF Ordered, TypeOK
      <3>2. DOMAIN memdesc_list = 1..memdesc_num
        BY <3>1
      <3>3. mem_list' = {memdesc_list[i] : i \in 1..memdesc_num}
        BY <1>14 DEF TeardownRead
      <3>4. QED
        BY <3>2, <3>3 DEF Described
    <2>3. QED
      BY <1>14, <2>1, <2>2 DEF TeardownRead
  <1>19. QED
    BY <1>1, <1>2, <1>3, <1>4, <1>5, <1>6, <1>7, <1>8, <1>9, <1>10, <1>11, <1>12, <1>13,
       <1>14, <1>15, <1>16, <1>17, <1>18 DEF Administrator

(* A tool that takes a step leaves the administrator idle, who has then    *)
(* nothing to keep.                                                        *)
LEMMA AdminIdle == admin = "idle" => AdminInv
  BY DEF AdminInv, Launching

LEMMA ToolAlone ==
  ASSUME LoanInv, NEW t \in Tools, Tool(t)
  PROVE  admin = "idle" /\ admin' = "idle" /\ UNCHANGED <<state, boot_env, ready>> /\ AdminInv'
  <1>1. admin = "idle"
    BY DEF LoanInv, AdminInv, Tool, Begin, pisces_add_cpu, pisces_add_mem, OfflineShort,
           pisces_remove_cpu, CtrlRefuse, CtrlAddCpu, CtrlAddMem, CtrlRemoveCpu, ctrl_add_cpu, ctrl_add_mem,
           RemoveAnswer, ToolEnds
  <1>2. UNCHANGED <<admin, state, boot_env, ready>>
    BY DEF kernel, Tool, pisces_add_cpu, pisces_add_mem, OfflineShort,
           pisces_remove_cpu, CtrlRefuse, CtrlAddCpu, CtrlAddMem, CtrlRemoveCpu, ctrl_add_cpu, ctrl_add_mem,
           RemoveAnswer, ToolEnds
  <1>3. (admin = "idle" => AdminInv)'
    BY AdminIdle, PTL
  <1>4. QED
    BY <1>1, <1>2, <1>3

(* A step of t moves CPUs and blocks between its hand, Linux and the       *)
(* kernel, and takes nothing from the notes.                               *)
CpuPasses(t) ==
  /\ online_cpus' \union kernel_cpus' \subseteq
       online_cpus \union kernel_cpus \union (IF pc[t] \in CpuHeld THEN {arg[t]} ELSE {})
  /\ pc'[t] \in CpuHeld =>
       /\ arg'[t] \notin online_cpus' \union kernel_cpus'
       /\ arg'[t] \in online_cpus \union kernel_cpus \/ (pc[t] \in CpuHeld /\ arg'[t] = arg[t])
  /\ assigned_cpus \subseteq assigned_cpus'
  /\ pc'[t] = "send_cpu" => arg'[t] \in assigned_cpus'
MemPasses(t) ==
  /\ online_mem' \union kernel_mem' \subseteq
       online_mem \union kernel_mem \union (IF pc[t] \in MemHeld THEN {arg[t]} ELSE {})
  /\ pc'[t] \in MemHeld =>
       /\ arg'[t] \notin online_mem' \union kernel_mem'
       /\ arg'[t] \in online_mem \union kernel_mem \/ (pc[t] \in MemHeld /\ arg'[t] = arg[t])
  /\ Described(memdesc_list) \subseteq Described(memdesc_list')
  /\ pc'[t] \in {"send_mem", "send_mem_explicit"} => arg'[t] \in Described(memdesc_list')
OthersStay(t) == \A u \in Tools \ {t} : pc'[u] = pc[u] /\ arg'[u] = arg[u]

(* Such a step keeps every hand.                                           *)
LEMMA HandsKept ==
  ASSUME HandInv, NEW t \in Tools, OthersStay(t), CpuPasses(t), MemPasses(t)
  PROVE  HandInv'
  <1>1. ASSUME NEW u \in Tools, pc'[u] \in CpuHeld
        PROVE  arg'[u] \notin online_cpus' \union kernel_cpus'
    BY <1>1 DEF HandInv, OthersStay, CpuPasses
  <1>2. ASSUME NEW u \in Tools, pc'[u] \in MemHeld
        PROVE  arg'[u] \notin online_mem' \union kernel_mem'
    BY <1>2 DEF HandInv, OthersStay, MemPasses
  <1>3. ASSUME NEW u \in Tools \ {t}, {pc'[t], pc'[u]} \subseteq CpuHeld PROVE arg'[t] # arg'[u]
    BY <1>3 DEF HandInv, OthersStay, CpuPasses
  <1>4. ASSUME NEW u \in Tools \ {t}, {pc'[t], pc'[u]} \subseteq MemHeld PROVE arg'[t] # arg'[u]
    BY <1>4 DEF HandInv, OthersStay, MemPasses
  <1>5. ASSUME NEW u \in Tools, NEW v \in Tools, u # v,
               {pc'[u], pc'[v]} \subseteq CpuHeld \/ {pc'[u], pc'[v]} \subseteq MemHeld
        PROVE  arg'[u] # arg'[v]
    <2>1. CASE u = t
      BY <1>3, <1>4, <1>5, <2>1
    <2>2. CASE v = t
      BY <1>3, <1>4, <1>5, <2>2
    <2>3. CASE u # t /\ v # t
      BY <1>5, <2>3 DEF HandInv, OthersStay
    <2>4. QED
      BY <2>1, <2>2, <2>3
  <1>6. ASSUME NEW u \in Tools, pc'[u] = "send_cpu" PROVE arg'[u] \in assigned_cpus'
    BY <1>6 DEF HandInv, OthersStay, CpuPasses
  <1>7. ASSUME NEW u \in Tools, pc'[u] \in {"send_mem", "send_mem_explicit"}
        PROVE  arg'[u] \in Described(memdesc_list')
    BY <1>7 DEF HandInv, OthersStay, MemPasses
  <1>8. QED
    BY <1>1, <1>2, <1>5, <1>6, <1>7 DEF HandInv

(* The tools' steps preserve the invariant: what one has in hand nobody    *)
(* else has.                                                               *)
LEMMA ToolLoan ==
  ASSUME TypeOK, LoanInv, NEW t \in Tools, Tool(t)
  PROVE  LoanInv'
  <1> USE DEF linux, kernel, notes, lists
  <1>a. AdminInv' /\ UNCHANGED <<state, boot_env, ready>>
    BY ToolAlone
  <1>b. pc \in [Tools -> PcLabels] /\ arg \in [Tools -> Nat]
    BY DEF TypeOK
  <1>c. Disjoint /\ Noted /\ HandInv /\ KernelInv
    BY DEF LoanInv
  <1> SUFFICES Disjoint' /\ Noted' /\ HandInv' /\ KernelInv'
    BY <1>a DEF LoanInv
  <1> USE <1>a, <1>b, <1>c
  <1>1. CASE pisces_add_cpu(t)
    <2>1. Disjoint' /\ Noted' /\ KernelInv'
      BY <1>1 DEF pisces_add_cpu, Begin, Disjoint, Noted, KernelInv
    <2>2. OthersStay(t)
      BY <1>1 DEF pisces_add_cpu, Begin, OthersStay
    <2>3. CpuPasses(t)
      BY <1>1 DEF pisces_add_cpu, Begin, CpuPasses, HandInv, Disjoint, CpuHeld
    <2>4. MemPasses(t)
      BY <1>1 DEF pisces_add_cpu, Begin, MemPasses, HandInv, Disjoint, MemHeld
    <2>5. QED
      BY <2>1, <2>2, <2>3, <2>4, HandsKept
  <1>2. CASE pisces_add_mem(t)
    <2>1. Disjoint' /\ Noted' /\ KernelInv'
      BY <1>2 DEF pisces_add_mem, Begin, Disjoint, Noted, KernelInv
    <2>2. OthersStay(t)
      BY <1>2 DEF pisces_add_mem, Begin, OthersStay
    <2>3. CpuPasses(t)
      BY <1>2 DEF pisces_add_mem, Begin, CpuPasses, HandInv, Disjoint, CpuHeld
    <2>4. MemPasses(t)
      BY <1>2 DEF pisces_add_mem, Begin, MemPasses, HandInv, Disjoint, MemHeld
    <2>5. QED
      BY <2>1, <2>2, <2>3, <2>4, HandsKept
  <1>3. CASE pisces_remove_cpu(t)
    <2>1. Disjoint' /\ Noted' /\ KernelInv'
      BY <1>3 DEF pisces_remove_cpu, Begin, Disjoint, Noted, KernelInv
    <2>2. OthersStay(t)
      BY <1>3 DEF pisces_remove_cpu, Begin, OthersStay
    <2>3. CpuPasses(t)
      BY <1>3 DEF pisces_remove_cpu, Begin, CpuPasses, HandInv, Disjoint, CpuHeld
    <2>4. MemPasses(t)
      BY <1>3 DEF pisces_remove_cpu, Begin, MemPasses, HandInv, Disjoint, MemHeld
    <2>5. QED
      BY <2>1, <2>2, <2>3, <2>4, HandsKept
  <1>o. CASE OfflineShort(t)
    <2>1. Disjoint' /\ Noted' /\ KernelInv'
      BY <1>o DEF OfflineShort, Disjoint, Noted, KernelInv
    <2>2. OthersStay(t)
      BY <1>o, Moves DEF OfflineShort, OthersStay
    <2>3. CpuPasses(t)
      BY <1>o, Moves DEF OfflineShort, CpuPasses, HandInv, Disjoint, CpuHeld
    <2>4. MemPasses(t)
      BY <1>o, Moves DEF OfflineShort, MemPasses, HandInv, Disjoint, MemHeld
    <2>5. QED
      BY <2>1, <2>2, <2>3, <2>4, HandsKept
  <1>4. CASE CtrlRefuse(t)
    <2>1. Disjoint' /\ Noted' /\ KernelInv'
      BY <1>4 DEF CtrlRefuse, OnFailure, Disjoint, Noted, KernelInv
    <2>2. OthersStay(t)
      BY <1>4, Moves DEF CtrlRefuse, OnFailure, OthersStay
    <2>3. CpuPasses(t)
      BY <1>4, Moves DEF CtrlRefuse, OnFailure, CpuPasses, HandInv, Disjoint, CpuHeld
    <2>4. MemPasses(t)
      BY <1>4, Moves DEF CtrlRefuse, OnFailure, MemPasses, HandInv, Disjoint, MemHeld
    <2>5. QED
      BY <2>1, <2>2, <2>3, <2>4, HandsKept
  <1>5. CASE CtrlAddCpu(t)
    <2>1. Disjoint' /\ Noted' /\ KernelInv'
      BY <1>5 DEF CtrlAddCpu, Disjoint, Noted, KernelInv
    <2>2. OthersStay(t)
      BY <1>5, Moves DEF CtrlAddCpu, OthersStay
    <2>3. CpuPasses(t)
      BY <1>5, Moves DEF CtrlAddCpu, CpuPasses, HandInv, Disjoint, CpuHeld
    <2>4. MemPasses(t)
      BY <1>5, Moves DEF CtrlAddCpu, MemPasses, HandInv, Disjoint, MemHeld
    <2>5. QED
      BY <2>1, <2>2, <2>3, <2>4, HandsKept
  <1>6. CASE CtrlAddMem(t)
    <2>1. Described(memdesc_list') = Described(memdesc_list) \union {arg[t]}
      BY <1>6, InsertDescribes DEF CtrlAddMem, TypeOK, MemHeld
    <2>2. Disjoint' /\ Noted' /\ KernelInv'
      BY <1>6, <2>1 DEF CtrlAddMem, Disjoint, Noted, KernelInv
    <2>3. OthersStay(t)
      BY <1>6, Moves DEF CtrlAddMem, OthersStay
    <2>4. CpuPasses(t)
      BY <1>6, <2>1, Moves DEF CtrlAddMem, CpuPasses, HandInv, Disjoint, CpuHeld
    <2>5. MemPasses(t)
      BY <1>6, <2>1, Moves DEF CtrlAddMem, MemPasses, HandInv, Disjoint, MemHeld
    <2>6. QED
      BY <2>2, <2>3, <2>4, <2>5, HandsKept
  <1>7. CASE CtrlRemoveCpu(t)
    <2>1. Disjoint' /\ Noted' /\ KernelInv'
      BY <1>7 DEF CtrlRemoveCpu, Disjoint, Noted, KernelInv
    <2>2. OthersStay(t)
      BY <1>7, Moves DEF CtrlRemoveCpu, OthersStay
    <2>3. CpuPasses(t)
      BY <1>7, Moves DEF CtrlRemoveCpu, CpuPasses, HandInv, Disjoint, CpuHeld
    <2>4. MemPasses(t)
      BY <1>7, Moves DEF CtrlRemoveCpu, MemPasses, HandInv, Disjoint, MemHeld
    <2>5. QED
      BY <2>1, <2>2, <2>3, <2>4, HandsKept
  <1>8. CASE ctrl_add_cpu(t)
    <2>1. arg[t] \in assigned_cpus /\ arg[t] \notin online_cpus
      BY <1>8 DEF ctrl_add_cpu, HandInv, CpuHeld
    <2>2. Disjoint' /\ Noted' /\ KernelInv'
      BY <1>8, <2>1 DEF ctrl_add_cpu, Disjoint, Noted, KernelInv
    <2>3. OthersStay(t)
      BY <1>8, Moves DEF ctrl_add_cpu, OthersStay
    <2>4. CpuPasses(t)
      BY <1>8, <2>1, Moves DEF ctrl_add_cpu, CpuPasses, HandInv, Disjoint, CpuHeld
    <2>5. MemPasses(t)
      BY <1>8, <2>1, Moves DEF ctrl_add_cpu, MemPasses, HandInv, Disjoint, MemHeld
    <2>6. QED
      BY <2>2, <2>3, <2>4, <2>5, HandsKept
  <1>9. CASE ctrl_add_mem(t)
    <2>1. arg[t] \in Described(memdesc_list) /\ arg[t] \notin online_mem
      BY <1>9 DEF ctrl_add_mem, HandInv, MemHeld
    <2>2. Disjoint' /\ Noted' /\ KernelInv'
      BY <1>9, <2>1 DEF ctrl_add_mem, Disjoint, Noted, KernelInv
    <2>3. OthersStay(t)
      BY <1>9, Moves DEF ctrl_add_mem, OthersStay
    <2>4. CpuPasses(t)
      BY <1>9, <2>1, Moves DEF ctrl_add_mem, CpuPasses, HandInv, Disjoint, CpuHeld
    <2>5. MemPasses(t)
      BY <1>9, <2>1, Moves DEF ctrl_add_mem, MemPasses, HandInv, Disjoint, MemHeld
    <2>6. QED
      BY <2>2, <2>3, <2>4, <2>5, HandsKept
  <1>10. CASE RemoveAnswer(t)
    <2>1. Disjoint' /\ Noted' /\ KernelInv'
      BY <1>10 DEF RemoveAnswer, Disjoint, Noted, KernelInv
    <2>2. OthersStay(t)
      BY <1>10, Moves DEF RemoveAnswer, OthersStay
    <2>3. CpuPasses(t)
      BY <1>10, Moves DEF RemoveAnswer, CpuPasses, HandInv, Disjoint, CpuHeld
    <2>4. MemPasses(t)
      BY <1>10, Moves DEF RemoveAnswer, MemPasses, HandInv, Disjoint, MemHeld
    <2>5. QED
      BY <2>1, <2>2, <2>3, <2>4, HandsKept
  <1>11. CASE ToolEnds(t)
    <2>1. /\ pc[t] = "online_cpu" => arg[t] \notin kernel_cpus
          /\ pc[t] = "online_mem" => arg[t] \notin kernel_mem
      BY DEF HandInv, CpuHeld, MemHeld
    <2>2. Disjoint' /\ Noted' /\ KernelInv'
      BY <1>11, <2>1 DEF ToolEnds, Disjoint, Noted, KernelInv
    <2>3. OthersStay(t)
      BY <1>11, Moves DEF ToolEnds, OthersStay
    <2>4. CpuPasses(t)
      BY <1>11, <2>1, Moves DEF ToolEnds, CpuPasses, HandInv, Disjoint, CpuHeld
    <2>5. MemPasses(t)
      BY <1>11, <2>1, Moves DEF ToolEnds, MemPasses, HandInv, Disjoint, MemHeld
    <2>6. QED
      BY <2>2, <2>3, <2>4, <2>5, HandsKept
  <1>12. QED
    BY <1>1, <1>2, <1>3, <1>o, <1>4, <1>5, <1>6, <1>7, <1>8, <1>9, <1>10, <1>11 DEF Tool

-----------------------------------------------------------------------------
(* The order of the list and the counters, with what they need.            *)
OrderInv == Ordered /\ IsFiniteSet(assigned_cpus)

(* A CPU more in the notes.                                                *)
LEMMA OneCpuMore ==
  ASSUME NEW S, IsFiniteSet(S), NEW c
  PROVE  /\ IsFiniteSet(S \union {c})
         /\ Cardinality(S \union {c}) = IF c \in S THEN Cardinality(S) ELSE Cardinality(S) + 1
  <1>1. CASE c \in S
    <2>1. S \union {c} = S
      BY <1>1
    <2>2. QED
      BY <1>1, <2>1
  <1>2. CASE c \notin S
    BY <1>2, FS_AddElement
  <1>3. QED
    BY <1>1, <1>2

(* A block more.                                                           *)
LEMMA OneBlockMore ==
  ASSUME TypeOK, OrderInv, NEW b \in Blocks,
         memdesc_list' = pisces_enclave_add_mem(memdesc_list, b),
         memdesc_num' = memdesc_num + 1, UNCHANGED <<assigned_cpus, num_cpus>>
  PROVE  OrderInv'
  <1>1. memdesc_list \in Seq(Blocks) /\ InOrder(memdesc_list)
    BY DEF TypeOK, OrderInv, Ordered, InOrder
  <1>2. InOrder(memdesc_list')
    BY <1>1, InsertKeepsOrder
  <1>3. Len(memdesc_list') = Len(memdesc_list) + 1
    BY <1>1, InsertDescribes
  <1>4. QED
    BY <1>2, <1>3 DEF OrderInv, Ordered, InOrder

LEMMA OrderStep ==
  ASSUME TypeOK, OrderInv, [Next]_vars
  PROVE  OrderInv'
  <1> USE DEF linux, kernel, notes, lists, tools
  <1>1. CASE pisces_load \/ TeardownFree
    <2>1. assigned_cpus' = {} /\ num_cpus' = 0 /\ memdesc_list' = <<>> /\ memdesc_num' = 0
      BY <1>1 DEF pisces_load, TeardownFree
    <2>2. IsFiniteSet({}) /\ Cardinality({}) = 0
      BY FS_EmptySet
    <2>3. QED
      BY <2>1, <2>2 DEF OrderInv, Ordered
  <1>2. CASE LaunchNoteCpu
    <2>1. /\ assigned_cpus' = assigned_cpus \union {boot_env.cpu}
          /\ num_cpus' = NumCpus(boot_env.cpu)
          /\ UNCHANGED <<memdesc_list, memdesc_num>>
      BY <1>2 DEF LaunchNoteCpu
    <2>2. QED
      BY <2>1, OneCpuMore DEF OrderInv, Ordered, NumCpus
  <1>3. CASE LaunchNoteMem
    <2>1. PICK b \in mem_list : memdesc_list' = pisces_enclave_add_mem(memdesc_list, b)
      BY <1>3 DEF LaunchNoteMem
    <2>2. b \in Blocks
      BY DEF TypeOK
    <2>3. memdesc_num' = memdesc_num + 1 /\ UNCHANGED <<assigned_cpus, num_cpus>>
      BY <1>3 DEF LaunchNoteMem
    <2>4. QED
      BY <2>1, <2>2, <2>3, OneBlockMore
  <1>4. ASSUME NEW t \in Tools, CtrlAddCpu(t) PROVE OrderInv'
    <2>1. /\ assigned_cpus' = assigned_cpus \union {arg[t]}
          /\ num_cpus' = NumCpus(arg[t])
          /\ UNCHANGED <<memdesc_list, memdesc_num>>
      BY <1>4 DEF CtrlAddCpu
    <2>2. QED
      BY <2>1, OneCpuMore DEF OrderInv, Ordered, NumCpus
  <1>5. ASSUME NEW t \in Tools, CtrlAddMem(t) PROVE OrderInv'
    <2>1. arg[t] \in Blocks
      BY <1>5 DEF CtrlAddMem, TypeOK, MemHeld
    <2>2. /\ memdesc_list' = pisces_enclave_add_mem(memdesc_list, arg[t])
          /\ memdesc_num' = memdesc_num + 1
          /\ UNCHANGED <<assigned_cpus, num_cpus>>
      BY <1>5 DEF CtrlAddMem
    <2>3. QED
      BY <2>1, <2>2, OneBlockMore
  <1>6. CASE UNCHANGED notes
    BY <1>6 DEF OrderInv, Ordered
  <1>7. CASE UNCHANGED vars
    BY <1>6, <1>7 DEF vars
  <1>8. CASE Administrator
    BY <1>1, <1>2, <1>3, <1>6, <1>8 DEF Administrator, LaunchMem, LaunchCpu, LaunchNoCpu,
       pisces_enclave_launch, LaunchUndo, ResetStop, ResetBoot, ReaddMem, ReaddCpu, ResetEnd,
       TeardownRead, TeardownShutdown, TeardownFails, TeardownOnline
  <1>9. ASSUME NEW t \in Tools, Tool(t) PROVE OrderInv'
    BY <1>4, <1>5, <1>6, <1>9 DEF Tool, pisces_add_cpu, pisces_add_mem, OfflineShort,
       pisces_remove_cpu, CtrlRefuse, CtrlRemoveCpu, ctrl_add_cpu, ctrl_add_mem, RemoveAnswer, ToolEnds
  <1>10. QED
    BY <1>7, <1>8, <1>9 DEF Next

-----------------------------------------------------------------------------
(* Whatever the CPUs, blocks and tools: with an administrator who does not *)
(* reset an enclave that Linux has something of, a resource has one place. *)
THEOREM LoanSafe ==
  ASSUME ~Careless
  PROVE  Spec => [](LoanInv /\ Ordered)
  <1>1. Init => LoanInv /\ OrderInv
    <2> SUFFICES ASSUME Init PROVE LoanInv /\ OrderInv
      OBVIOUS
    <2>1. LoanInv
      BY DEF Init, LoanInv, Disjoint, Noted, HandInv, AdminInv, KernelInv, Launching, CpuHeld,
             MemHeld
    <2>2. IsFiniteSet({}) /\ Cardinality({}) = 0
      BY FS_EmptySet
    <2>3. OrderInv
      BY <2>2 DEF Init, OrderInv, Ordered
    <2>4. QED
      BY <2>1, <2>3
  <1>2. TypeOK /\ LoanInv /\ OrderInv /\ [Next]_vars => LoanInv' /\ OrderInv'
    <2> SUFFICES ASSUME TypeOK, LoanInv, OrderInv, [Next]_vars
                 PROVE  LoanInv' /\ OrderInv'
      OBVIOUS
    <2>1. ASSUME UNCHANGED vars PROVE LoanInv'
      BY <2>1 DEF vars, linux, kernel, notes, lists, tools, LoanInv, Disjoint, Noted, HandInv,
             AdminInv, KernelInv, Returned
    <2>2. ASSUME Administrator PROVE LoanInv'
      BY <2>2, AdminLoan DEF OrderInv
    <2>3. ASSUME NEW t \in Tools, Tool(t) PROVE LoanInv'
      BY <2>3, ToolLoan
    <2>4. OrderInv'
      BY OrderStep
    <2>5. LoanInv'
      BY <2>1, <2>2, <2>3 DEF Next
    <2>6. QED
      BY <2>4, <2>5
  <1>3. OrderInv => Ordered
    BY DEF OrderInv
  <1>4. QED
    BY <1>1, <1>2, <1>3, TypeCorrect, PTL DEF Spec

(* Linux and the enclave's kernel never use a CPU or a block together.     *)
THEOREM LinuxAndKernelDisjoint ==
  ASSUME ~Careless
  PROVE  Spec => []Disjoint
  <1>1. LoanInv => Disjoint
    BY DEF LoanInv
  <1>2. QED
    BY <1>1, LoanSafe, PTL

(* The memory list stays in the order of addresses and the counters that   *)
(* teardown reads it by are right (src/enclave.c, pisces_enclave_add_mem). *)
THEOREM NotesInOrder ==
  ASSUME ~Careless
  PROVE  Spec => []Ordered
  <1>1. Spec => [](LoanInv /\ Ordered)
    BY LoanSafe
  <1>2. QED
    BY <1>1, PTL

-----------------------------------------------------------------------------
(* The administrator loses nothing,                                        *)
LEMMA AdminAccounts ==
  ASSUME TypeOK, LoanInv, Accounted, Administrator
  PROVE  Accounted'
  <1> USE DEF linux, kernel, notes, lists, tools, Accounted, CpuMoves, MemMoves
  <1>1. CASE pisces_load
    <2>1. admin = "idle" /\ AllIdle /\ state = "none"
      BY <1>1 DEF pisces_load, Alone, AllIdle
    <2>2. assigned_cpus = {} /\ memdesc_list = <<>>
      BY <2>1 DEF LoanInv, KernelInv
    <2>3. QED
      BY <1>1, <2>1, <2>2 DEF pisces_load
  <1>2. CASE LaunchMem
    <2>1. PICK base \in Blocks, num \in 1..MaxBoot :
            /\ online_mem' = online_mem \ (base..base + num - 1)
            /\ boot_env' = [boot_env EXCEPT !.base = base, !.num = num]
      BY <1>2 DEF LaunchMem
    <2>2. boot_env'.base = base /\ boot_env'.num = num
      BY <2>1 DEF TypeOK
    <2>3. \A b \in Blocks : b \in base..base + num - 1 => base <= b /\ b < base + num
      BY NumberAssumption, BoundAssumption
    <2>4. \A b \in Blocks : b \in base..base + num - 1 => b \in BootBlocks(boot_env')
      BY <2>2, <2>3 DEF BootBlocks
    <2>5. \A b \in Blocks \ online_mem' : b \notin online_mem \/ b \in BootBlocks(boot_env')
      BY <2>1, <2>4
    <2>6. admin = "idle" /\ admin' = "cpu" /\ UNCHANGED <<online_cpus, notes, tools, dropped>>
      BY <1>2 DEF LaunchMem, Alone
    <2>7. \A c \in Cpus \ online_cpus' : c \in assigned_cpus' \/ CpuMoves(c)'
      BY <2>6
    <2>8. \A b \in Blocks \ online_mem' :
            b \in Described(memdesc_list)' \/ b \in dropped' \/ MemMoves(b)'
      BY <2>5, <2>6
    <2>9. QED
      BY <2>7, <2>8
  <1>3. CASE LaunchCpu
    <2>1. PICK c \in online_cpus : /\ online_cpus' = online_cpus \ {c}
                                   /\ boot_env' = [boot_env EXCEPT !.cpu = c]
      BY <1>3 DEF LaunchCpu
    <2>2. boot_env'.cpu = c /\ boot_env'.base = boot_env.base /\ boot_env'.num = boot_env.num
      BY <2>1 DEF TypeOK
    <2>3. BootBlocks(boot_env') = BootBlocks(boot_env)
      BY <2>2 DEF BootBlocks
    <2>4. admin = "cpu" /\ admin' = "launch" /\ UNCHANGED <<online_mem, notes, tools, dropped>>
      BY <1>3 DEF LaunchCpu
    <2>5. \A d \in Cpus \ online_cpus' : d \in assigned_cpus' \/ CpuMoves(d)'
      BY <2>1, <2>2, <2>4
    <2>6. \A b \in Blocks \ online_mem' :
            b \in Described(memdesc_list)' \/ b \in dropped' \/ MemMoves(b)'
      BY <2>3, <2>4
    <2>7. QED
      BY <2>5, <2>6
  <1>4. CASE LaunchNoCpu
    BY <1>4 DEF LaunchNoCpu
  <1>5. CASE LaunchNoteCpu
    BY <1>5 DEF LaunchNoteCpu
  <1>6. CASE LaunchNoteMem
    <2>1. PICK b \in mem_list : memdesc_list' = pisces_enclave_add_mem(memdesc_list, b)
      BY <1>6 DEF LaunchNoteMem
    <2>2. Described(memdesc_list') = Described(memdesc_list) \union {b}
      BY <2>1, InsertDescribes DEF TypeOK
    <2>3. QED
      BY <1>6, <2>2 DEF LaunchNoteMem
  <1>7. CASE pisces_enclave_launch
    BY <1>7 DEF pisces_enclave_launch, LoanInv, AdminInv
  <1>8. CASE LaunchUndo
    BY <1>8 DEF LaunchUndo
  <1>9. CASE ResetStop
    BY <1>9 DEF ResetStop, Alone
  <1>10. CASE ResetBoot
    BY <1>10 DEF ResetBoot
  <1>11. CASE ReaddMem
    BY <1>11 DEF ReaddMem
  <1>12. CASE ReaddCpu
    BY <1>12 DEF ReaddCpu
  <1>13. CASE ResetEnd
    BY <1>13 DEF ResetEnd
  <1>14. CASE TeardownRead
    BY <1>14 DEF TeardownRead, Alone
  <1>15. CASE TeardownShutdown
    BY <1>15 DEF TeardownShutdown
  <1>16. CASE TeardownFails
    BY <1>16 DEF TeardownFails
  <1>17. CASE TeardownFree
    BY <1>17 DEF TeardownFree, LoanInv, AdminInv
  <1>18. CASE TeardownOnline
    BY <1>18 DEF TeardownOnline
  <1>19. QED
    BY <1>1, <1>2, <1>3, <1>4, <1>5, <1>6, <1>7, <1>8, <1>9, <1>10, <1>11, <1>12, <1>13,
       <1>14, <1>15, <1>16, <1>17, <1>18 DEF Administrator

(* ... and neither do the tools.                                           *)
LEMMA ToolAccounts ==
  ASSUME TypeOK, LoanInv, Accounted, NEW t \in Tools, Tool(t)
  PROVE  Accounted'
  <1> USE DEF linux, kernel, notes, lists, Accounted, CpuMoves, MemMoves
  <1>a. admin = "idle" /\ admin' = "idle"
    BY ToolAlone
  <1>b. pc \in [Tools -> PcLabels] /\ arg \in [Tools -> Nat]
    BY DEF TypeOK
  <1> USE <1>a, <1>b
  <1>1. CASE pisces_add_cpu(t)
    BY <1>1 DEF pisces_add_cpu, Begin, CpuHeld, MemHeld
  <1>2. CASE pisces_add_mem(t)
    BY <1>2 DEF pisces_add_mem, Begin, CpuHeld, MemHeld
  <1>3. CASE pisces_remove_cpu(t)
    BY <1>3 DEF pisces_remove_cpu, Begin, CpuHeld, MemHeld
  <1>o. CASE OfflineShort(t)
    BY <1>o, Moves DEF OfflineShort, CpuHeld, MemHeld
  <1>4. CASE CtrlRefuse(t)
    BY <1>4, Moves DEF CtrlRefuse, OnFailure, CpuHeld, MemHeld
  <1>5. CASE CtrlAddCpu(t)
    BY <1>5, Moves DEF CtrlAddCpu, CpuHeld, MemHeld
  <1>6. CASE CtrlAddMem(t)
    <2>1. Described(memdesc_list') = Described(memdesc_list) \union {arg[t]}
      <3>1. arg[t] \in Blocks /\ memdesc_list \in Seq(Blocks)
        BY <1>6 DEF CtrlAddMem, TypeOK, MemHeld
      <3>2. QED
        BY <1>6, <3>1, InsertDescribes DEF CtrlAddMem
    <2>2. QED
      BY <1>6, <2>1, Moves DEF CtrlAddMem, CpuHeld, MemHeld
  <1>7. CASE CtrlRemoveCpu(t)
    BY <1>7, Moves DEF CtrlRemoveCpu, CpuHeld, MemHeld
  <1>8. CASE ctrl_add_cpu(t)
    BY <1>8, Moves DEF ctrl_add_cpu, LoanInv, HandInv, CpuHeld, MemHeld
  <1>9. CASE ctrl_add_mem(t)
    BY <1>9, Moves DEF ctrl_add_mem, LoanInv, HandInv, CpuHeld, MemHeld
  <1>10. CASE RemoveAnswer(t)
    BY <1>10, Moves DEF RemoveAnswer, CpuHeld, MemHeld
  <1>11. CASE ToolEnds(t)
    BY <1>11, Moves DEF ToolEnds, CpuHeld, MemHeld
  <1>12. QED
    BY <1>1, <1>2, <1>3, <1>o, <1>4, <1>5, <1>6, <1>7, <1>8, <1>9, <1>10, <1>11 DEF Tool

(* Nothing that was lent gets lost, but for the blocks pisces_add_mem      *)
(* gives up on: the notes, from which teardown returns it, have the rest.  *)
THEOREM NothingLost ==
  ASSUME ~Careless
  PROVE  Spec => []Accounted
  <1>1. Init => Accounted
    BY DEF Init, Accounted
  <1>2. TypeOK /\ LoanInv /\ Accounted /\ [Next]_vars => Accounted'
    <2> SUFFICES ASSUME TypeOK, LoanInv, Accounted, [Next]_vars PROVE Accounted'
      OBVIOUS
    <2>1. CASE UNCHANGED vars
      BY <2>1 DEF vars, linux, notes, lists, tools, Accounted, CpuMoves, MemMoves
    <2>2. CASE Next
      BY <2>2, AdminAccounts, ToolAccounts DEF Next
    <2>3. QED
      BY <2>1, <2>2
  <1>3. QED
    BY <1>1, <1>2, TypeCorrect, LoanSafe, PTL DEF Spec

=============================================================================
