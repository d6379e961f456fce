-------------------------- MODULE TrampolineProofs --------------------------
(***************************************************************************)
(* Theorems about Trampoline, for any number of enclaves, as long as user  *)
(* space does not LAUNCH an enclave that already runs.                     *)
(***************************************************************************)
EXTENDS Trampoline, TLAPS

-----------------------------------------------------------------------------
(* A thread's move, and which threads and CPUs there are.                  *)
LEMMA Moves ==
  ASSUME NEW t \in Threads, NEW l, pc \in [Threads -> PcLabels], Goto(t, l)
  PROVE  pc'[t] = l /\ \A u \in Threads \ {t} : pc'[u] = pc[u]
  BY DEF Goto

LEMMA ThreadFacts ==
  /\ \A e \in Enclaves, k \in {"op", "ctrl"} :
       <<e, k>> \in Threads /\ Enclave(<<e, k>>) = e /\ <<e, k>>[2] = k
  /\ \A t \in Threads : /\ Enclave(t) \in Enclaves
                        /\ t = <<Enclave(t), "op">> \/ t = <<Enclave(t), "ctrl">>
                        /\ t # Nobody /\ t # Hotplug
  /\ \A t, u \in Threads : t # u /\ Enclave(t) = Enclave(u) => t[2] # u[2]
  /\ Nobody # Hotplug
  BY LinuxAssumption DEF Threads, Enclave, Nobody, Hotplug

LEMMA CpuFacts ==
  /\ \A e \in Enclaves : /\ <<e, "boot">> \in CPUs /\ Home(<<e, "boot">>) = e
                         /\ <<e, "add">> \in CPUs  /\ Home(<<e, "add">>) = e
  /\ <<Linux, "add">> \in CPUs /\ Home(<<Linux, "add">>) = Linux
  /\ \A c \in CPUs : Home(c) \in Kernels
  /\ \A c \in CPUs : \/ c = <<Linux, "add">>
                     \/ Home(c) \in Enclaves /\ c \in {<<Home(c), "boot">>, <<Home(c), "add">>}
  BY LinuxAssumption DEF CPUs, Home, Kernels

-----------------------------------------------------------------------------
(* The ioctls keep every variable in its type.                             *)
LEMMA IoctlType ==
  ASSUME TypeOK, NEW e \in Enclaves, Ioctl(e) \/ ReaddCpu(e)
  PROVE  TypeOK'
  <1> USE ThreadFacts, UserAssumption DEF TypeOK, boot, locks, page, cpus, Goto, PcLabels, Jobs
  <1>1. CASE Launch(e)
    <2>1. PICK n \in Sizes : size' = [size EXCEPT ![e] = n]
      BY <1>1 DEF Launch
    <2>2. size' \in [Enclaves -> {"2MB", "odd"}]
      BY <2>1
    <2>3. pc' \in [Threads -> PcLabels] /\ job' \in [Threads -> Jobs]
      BY <1>1 DEF Launch
    <2>4. QED
      BY <1>1, <2>2, <2>3 DEF Launch
  <1>2. CASE Reset(e)
    <2>1. cpu' \in [CPUs -> Kernels \union {"off", "trampoline", "lost"}]
      BY <1>2 DEF Reset
    <2>2. pc' \in [Threads -> PcLabels]
      BY <1>2 DEF Reset
    <2>3. job' \in [Threads -> Jobs]
      BY <1>2 DEF Reset
    <2>4. QED
      BY <1>2, <2>1, <2>2, <2>3 DEF Reset
  <1>3. CASE AddCpu(e)
    BY <1>3 DEF AddCpu
  <1>4. CASE ReaddCpu(e)
    <2>1. pc' \in [Threads -> PcLabels]
      BY <1>4 DEF ReaddCpu
    <2>2. job' \in [Threads -> Jobs]
      BY <1>4 DEF ReaddCpu
    <2>3. QED
      BY <1>4, <2>1, <2>2 DEF ReaddCpu
  <1>5. QED
    BY <1>1, <1>2, <1>3, <1>4 DEF Ioctl

(* So does a thread that has the trampoline or waits for it.               *)
LEMMA StepType ==
  ASSUME TypeOK, NEW t \in Threads, Step(t) \/ SetupLock(t) \/ SetupMaps(t) \/ EnclaveStarts(t)
  PROVE  TypeOK'
  <1> USE ThreadFacts, CpuFacts DEF TypeOK, boot, locks, page, cpus, Goto, PcLabels, Jobs, Kernels
  <1>1. CASE SetupRefuse(t)
    BY <1>1 DEF SetupRefuse
  <1>2. CASE SetupPgd(t)
    BY <1>2 DEF SetupPgd
  <1>3. CASE SetupTarget(t)
    BY <1>3 DEF SetupTarget
  <1>4. CASE WakeBootCpu(t)
    BY <1>4 DEF WakeBootCpu
  <1>5. CASE SendAddCpu(t)
    BY <1>5 DEF SendAddCpu
  <1>6. CASE StopWaiting(t)
    <2>1. pc' \in [Threads -> PcLabels]
      BY <1>6 DEF StopWaiting
    <2>2. job' \in [Threads -> Jobs]
      BY <1>6 DEF StopWaiting
    <2>3. late' \subseteq CPUs
      <3>1. {<<Enclave(t), "boot">>, <<Enclave(t), "add">>} \subseteq CPUs
        OBVIOUS
      <3>2. late' \subseteq late \union {<<Enclave(t), "boot">>, <<Enclave(t), "add">>}
        BY <1>6 DEF StopWaiting
      <3>3. QED
        BY <3>1, <3>2
    <2>4. QED
      BY <1>6, <2>1, <2>2, <2>3 DEF StopWaiting
  <1>7. CASE RestorePgd(t)
    BY <1>7 DEF RestorePgd
  <1>8. CASE RestoreTarget(t)
    BY <1>8 DEF RestoreTarget
  <1>9. CASE RestoreMaps(t)
    BY <1>9 DEF RestoreMaps
  <1>10. CASE RestoreUnlock(t)
    BY <1>10 DEF RestoreUnlock
  <1>11. CASE SetupLock(t)
    BY <1>11 DEF SetupLock
  <1>12. CASE SetupMaps(t)
    BY <1>12 DEF SetupMaps
  <1>13. CASE EnclaveStarts(t)
    BY <1>13 DEF EnclaveStarts
  <1>14. QED
    BY <1>1, <1>2, <1>3, <1>4, <1>5, <1>6, <1>7, <1>8, <1>9, <1>10, <1>11, <1>12, <1>13 DEF Step

(* So do the CPUs and Linux.                                               *)
LEMMA CpuType ==
  ASSUME TypeOK,
         (\E c \in CPUs : CpuEnter(c) \/ CpuUp(c)) \/ HotplugBegin \/ HotplugEnd
  PROVE  TypeOK'
  <1> USE CpuFacts DEF TypeOK, boot, locks, page, cpus, Kernels
  <1>1. ASSUME NEW c \in CPUs, CpuEnter(c) PROVE TypeOK'
    BY <1>1 DEF CpuEnter
  <1>2. ASSUME NEW c \in CPUs, CpuUp(c) PROVE TypeOK'
    BY <1>2 DEF CpuUp
  <1>3. CASE HotplugBegin
    BY <1>3 DEF HotplugBegin
  <1>4. CASE HotplugEnd
    BY <1>4 DEF HotplugEnd
  <1>5. QED
    BY <1>1, <1>2, <1>3, <1>4

(* Every variable of the trampoline keeps its type.                        *)
THEOREM TypeCorrect == Spec => []TypeOK
  <1>1. Init => TypeOK
    BY DEF Init, TypeOK, Threads, CPUs, Kernels, PcLabels, Jobs
  <1>2. TypeOK /\ [Next]_vars => TypeOK'
    <2> SUFFICES ASSUME TypeOK, [Next]_vars PROVE TypeOK'
      OBVIOUS
    <2>1. CASE UNCHANGED vars
      BY <2>1 DEF vars, TypeOK
    <2>2. CASE Next
      BY <2>2, IoctlType, StepType, CpuType DEF Next
    <2>3. QED
      BY <2>1, <2>2
  <1>3. QED
    BY <1>1, <1>2, PTL DEF Spec

-----------------------------------------------------------------------------
(* The ioctls, before they reach the trampoline, preserve the invariant.   *)
LEMMA IoctlInv ==
  ASSUME ~Relaunch, TypeOK, TrampolineInv, NEW e \in Enclaves, Ioctl(e) \/ ReaddCpu(e)
  PROVE  TrampolineInv'
  <1> USE ThreadFacts DEF TrampolineInv, boot, locks, page, cpus
  <1>t. pc \in [Threads -> PcLabels] /\ job \in [Threads -> Jobs]
    BY DEF TypeOK
  <1>1. CASE Launch(e)
    <2> DEFINE t == <<e, "op">>
    <2>1. /\ t \in Threads /\ pc[t] = "idle" /\ pc'[t] \in {"idle", "lock"}
          /\ \A u \in Threads \ {t} : pc'[u] = pc[u]
      BY <1>1, <1>t, Moves DEF Launch
    <2>2. job'[t] = "launch" /\ \A u \in Threads \ {t} : job'[u] = job[u]
      BY <1>1, <1>t, <2>1 DEF Launch
    <2>3. ~state[e] /\ \A f \in Enclaves \ {e} : size'[f] = size[f]
      BY <1>1 DEF Launch, TypeOK
    <2>4. UNCHANGED <<state, trampoline_lock, cpu_maps, page, cpus>>
      BY <1>1 DEF Launch
    <2> HIDE DEF t
    <2>5. Exclusive' /\ LinuxRestored' /\ LandsHome'
      BY <2>1, <2>4 DEF Exclusive, LinuxRestored, LandsHome, InMaps, Holding
    <2>6. \A u \in Threads : Swapped(u)'
      <3>1. pc[<<e, "ctrl">>] = "idle"
        <4> DEFINE c == <<e, "ctrl">>
        <4>1. c \in Threads /\ c[2] = "ctrl" /\ Enclave(c) = e
          BY ThreadFacts DEF Enclave
        <4> HIDE DEF c
        <4>2. job[c] = "add" /\ (pc[c] # "idle" => state[e])
          BY <4>1 DEF JobInv
        <4> QED
          BY <4>2, <2>3 DEF c
      <3>2. \A u \in Threads : Enclave(u) = e => pc'[u] \in {"idle", "lock"}
        BY <2>1, <3>1 DEF t
      <3>3. QED
        BY <2>1, <2>3, <2>4, <3>2 DEF Swapped, InMaps, Holding
    <2>7. JobInv'
      BY <2>1, <2>2, <2>3, <2>4 DEF JobInv, t
    <2>8. CpuInv'
      BY <2>1, <2>2, <2>4 DEF CpuInv
    <2>9. QED
      BY <2>5, <2>6, <2>7, <2>8
  <1>2. CASE Reset(e)
    <2> DEFINE t == <<e, "op">>
    <2>1. /\ t \in Threads /\ pc[t] = "idle" /\ pc'[t] \in {"idle", "lock"}
          /\ \A u \in Threads \ {t} : pc'[u] = pc[u]
      BY <1>2, <1>t, Moves DEF Reset
    <2>2. job'[t] = "reset" /\ \A u \in Threads \ {t} : job'[u] = job[u]
      BY <1>2, <1>t, <2>1 DEF Reset
    <2>3. \A c \in CPUs : cpu'[c] = cpu[c] \/ cpu'[c] = "off"
      BY <1>2 DEF Reset
    <2>4. UNCHANGED <<state, size, trampoline_lock, cpu_maps, page, late>>
      BY <1>2 DEF Reset
    <2> HIDE DEF t
    <2>5. Exclusive' /\ LinuxRestored' /\ LandsHome'
      BY <2>1, <2>3, <2>4 DEF Exclusive, LinuxRestored, LandsHome, InMaps, Holding
    <2>6. \A u \in Threads : Swapped(u)'
      BY <2>1, <2>4 DEF Swapped, InMaps, Holding
    <2>7. JobInv'
      BY <2>1, <2>2, <2>4 DEF JobInv, t
    <2>8. CpuInv'
      BY <2>1, <2>2, <2>3, <2>4 DEF CpuInv
    <2>9. QED
      BY <2>5, <2>6, <2>7, <2>8
  <1>3. CASE AddCpu(e)
    <2> DEFINE t == <<e, "ctrl">>
    <2>1. /\ t \in Threads /\ pc[t] = "idle" /\ pc'[t] = "lock"
          /\ \A u \in Threads \ {t} : pc'[u] = pc[u]
      BY <1>3, <1>t, Moves DEF AddCpu
    <2>2. state[e] /\ UNCHANGED <<state, size, trampoline_lock, cpu_maps, page, job, cpus>>
      BY <1>3 DEF AddCpu
    <2> HIDE DEF t
    <2>3. Exclusive' /\ LinuxRestored' /\ LandsHome'
      BY <2>1, <2>2 DEF Exclusive, LinuxRestored, LandsHome, InMaps, Holding
    <2>4. \A u \in Threads : Swapped(u)'
      BY <2>1, <2>2 DEF Swapped, InMaps, Holding
    <2>5. JobInv'
      BY <2>1, <2>2 DEF JobInv, t
    <2>6. CpuInv'
      BY <2>1, <2>2 DEF CpuInv
    <2>7. QED
      BY <2>3, <2>4, <2>5, <2>6
  <1>4. CASE ReaddCpu(e)
    <2> DEFINE t == <<e, "op">>
    <2>1. /\ t \in Threads /\ pc[t] = "readd" /\ pc'[t] \in {"idle", "lock"}
          /\ \A u \in Threads \ {t} : pc'[u] = pc[u]
      BY <1>4, <1>t, Moves DEF ReaddCpu
    <2>2. \A u \in Threads \ {t} : job'[u] = job[u]
      BY <1>4, <1>t, <2>1 DEF ReaddCpu
    <2>3. UNCHANGED <<state, size, trampoline_lock, cpu_maps, page, cpus>>
      BY <1>4 DEF ReaddCpu
    <2> HIDE DEF t
    <2>4. Exclusive' /\ LinuxRestored' /\ LandsHome'
      BY <2>1, <2>3 DEF Exclusive, LinuxRestored, LandsHome, InMaps, Holding
    <2>5. \A u \in Threads : Swapped(u)'
      BY <2>1, <2>3 DEF Swapped, InMaps, Holding
    <2>6. JobInv'
      BY <2>1, <2>2, <2>3 DEF JobInv, t
    <2>7. CpuInv'
      BY <2>1, <2>2, <2>3 DEF CpuInv
    <2>8. QED
      BY <2>4, <2>5, <2>6, <2>7
  <1>5. QED
    BY <1>1, <1>2, <1>3, <1>4 DEF Ioctl

(* A thread that sets the trampoline up, uses it and restores it preserves *)
(* the invariant.                                                          *)
LEMMA StepInv ==
  ASSUME TypeOK, TrampolineInv, NEW t \in Threads,
         Step(t) \/ SetupLock(t) \/ SetupMaps(t) \/ EnclaveStarts(t)
  PROVE  TrampolineInv'
  <1> USE ThreadFacts DEF TrampolineInv, boot, locks, page, cpus
  <1>t. pc \in [Threads -> PcLabels] /\ job \in [Threads -> Jobs]
    BY DEF TypeOK
  <1>x. \A u \in Threads \ {t} : pc[t] \in Holding => pc[u] \notin Holding
    BY DEF Exclusive
  <1>1. CASE SetupRefuse(t)
    <2>0. job[t] # "add"
      BY <1>1 DEF SetupRefuse, JobInv
    <2>1. /\ pc[t] = "lock" /\ pc'[t] = "idle"
          /\ \A u \in Threads \ {t} : pc'[u] = pc[u]
      BY <1>1, <1>t, <2>0, Moves DEF SetupRefuse
    <2>2. UNCHANGED <<boot, locks, page, job, cpus>>
      BY <1>1 DEF SetupRefuse
    <2>3. Exclusive' /\ LinuxRestored' /\ LandsHome'
      BY <2>1, <2>2 DEF Exclusive, LinuxRestored, LandsHome, InMaps, Holding
    <2>4. \A u \in Threads : Swapped(u)'
      BY <1>x, <2>1, <2>2 DEF Swapped, InMaps, Holding
    <2>5. JobInv'
      BY <2>1, <2>2 DEF JobInv
    <2>6. CpuInv'
      BY <2>1, <2>2 DEF CpuInv
    <2>7. QED
      BY <2>3, <2>4, <2>5, <2>6
  <1>2. CASE SetupLock(t)
    <2>1. /\ pc[t] = "lock" /\ pc'[t] = "maps" /\ size[Enclave(t)] = "2MB"
          /\ trampoline_lock = Nobody /\ trampoline_lock' = t /\ pml' = Enclave(t)
          /\ \A u \in Threads \ {t} : pc'[u] = pc[u]
      BY <1>2, <1>t, Moves DEF SetupLock
    <2>2. UNCHANGED <<boot, cpu_maps, pgd, target, cached_pgd, cached_target, job, cpus>>
      BY <1>2 DEF SetupLock
    <2>3. Exclusive' /\ LinuxRestored' /\ LandsHome'
      BY <2>1, <2>2 DEF Exclusive, LinuxRestored, LandsHome, InMaps, Holding
    <2>4. \A u \in Threads : Swapped(u)'
      <3>1. \A u \in Threads : pc[u] \notin Holding
        BY <2>1 DEF Exclusive
      <3>2. QED
        BY <2>1, <2>2, <3>1 DEF Swapped, InMaps, Holding
    <2>5. JobInv'
      BY <2>1, <2>2 DEF JobInv
    <2>6. CpuInv'
      BY <2>1, <2>2 DEF CpuInv
    <2>7. QED
      BY <2>3, <2>4, <2>5, <2>6
  <1>3. CASE SetupMaps(t)
    <2>1. /\ pc[t] = "maps" /\ pc'[t] = "pgd"
          /\ cpu_maps = Nobody /\ cpu_maps' = t
          /\ \A u \in Threads \ {t} : pc'[u] = pc[u]
      BY <1>3, <1>t, Moves DEF SetupMaps
    <2>2. UNCHANGED <<boot, trampoline_lock, page, job, cpus>>
      BY <1>3 DEF SetupMaps
    <2>3. Exclusive' /\ LinuxRestored' /\ LandsHome'
      BY <2>1, <2>2 DEF Exclusive, LinuxRestored, LandsHome, InMaps, Holding
    <2>4. \A u \in Threads : Swapped(u)'
      BY <1>x, <2>1, <2>2 DEF Swapped, LinuxRestored, InMaps, Holding
    <2>5. JobInv'
      BY <2>1, <2>2 DEF JobInv
    <2>6. CpuInv'
      BY <2>1, <2>2 DEF CpuInv
    <2>7. QED
      BY <2>3, <2>4, <2>5, <2>6
  <1>4. CASE SetupPgd(t)
    <2>1. /\ pc[t] = "pgd" /\ pc'[t] = "target"
          /\ cached_pgd' = pgd /\ pgd' = pml
          /\ \A u \in Threads \ {t} : pc'[u] = pc[u]
      BY <1>4, <1>t, Moves DEF SetupPgd
    <2>2. UNCHANGED <<boot, locks, pml, target, cached_target, job, cpus>>
      BY <1>4 DEF SetupPgd
    <2>3. Exclusive' /\ LinuxRestored' /\ LandsHome'
      BY <2>1, <2>2 DEF Exclusive, LinuxRestored, LandsHome, InMaps, Holding
    <2>4. \A u \in Threads : Swapped(u)'
      BY <1>x, <2>1, <2>2 DEF Swapped, InMaps, Holding
    <2>5. JobInv'
      BY <2>1, <2>2 DEF JobInv
    <2>6. CpuInv'
      BY <2>1, <2>2 DEF CpuInv
    <2>7. QED
      BY <2>3, <2>4, <2>5, <2>6
  <1>5. CASE SetupTarget(t)
    <2>1. /\ pc[t] = "target" /\ pc'[t] = "start"
          /\ cached_target' = target /\ target' = Enclave(t)
          /\ \A u \in Threads \ {t} : pc'[u] = pc[u]
      BY <1>5, <1>t, Moves DEF SetupTarget
    <2>2. UNCHANGED <<boot, locks, pml, pgd, cached_pgd, job, cpus>>
      BY <1>5 DEF SetupTarget
    <2>3. Exclusive' /\ LinuxRestored' /\ LandsHome'
      BY <2>1, <2>2 DEF Exclusive, LinuxRestored, LandsHome, InMaps, Holding
    <2>4. \A u \in Threads : Swapped(u)'
      BY <1>x, <2>1, <2>2 DEF Swapped, InMaps, Holding
    <2>5. JobInv'
      BY <2>1, <2>2 DEF JobInv
    <2>6. CpuInv'
      BY <2>1, <2>2 DEF CpuInv
    <2>7. QED
      BY <2>3, <2>4, <2>5, <2>6
  <1>6. CASE SendAddCpu(t)
    <2>1. /\ pc[t] = "start" /\ pc'[t] = "wait"
          /\ \A u \in Threads \ {t} : pc'[u] = pc[u]
      BY <1>6, <1>t, Moves DEF SendAddCpu
    <2>2. UNCHANGED <<boot, locks, page, job, cpus>>
      BY <1>6 DEF SendAddCpu
    <2>3. Exclusive' /\ LinuxRestored' /\ LandsHome'
      BY <2>1, <2>2 DEF Exclusive, LinuxRestored, LandsHome, InMaps, Holding
    <2>4. \A u \in Threads : Swapped(u)'
      BY <1>x, <2>1, <2>2 DEF Swapped, InMaps, Holding
    <2>5. JobInv'
      BY <2>1, <2>2 DEF JobInv
    <2>6. CpuInv'
      BY <2>1, <2>2 DEF CpuInv
    <2>7. QED
      BY <2>3, <2>4, <2>5, <2>6
  <1>7. CASE RestorePgd(t)
    <2>1. /\ pc[t] = "rpgd" /\ pc'[t] = "rtarget" /\ pgd' = cached_pgd
          /\ \A u \in Threads \ {t} : pc'[u] = pc[u]
      BY <1>7, <1>t, Moves DEF RestorePgd
    <2>2. UNCHANGED <<boot, locks, pml, target, cached_pgd, cached_target, job, cpus>>
      BY <1>7 DEF RestorePgd
    <2>3. Exclusive' /\ LinuxRestored' /\ LandsHome'
      BY <2>1, <2>2 DEF Exclusive, LinuxRestored, LandsHome, InMaps, Holding
    <2>4. \A u \in Threads : Swapped(u)'
      BY <1>x, <2>1, <2>2 DEF Swapped, InMaps, Holding
    <2>5. JobInv'
      BY <2>1, <2>2 DEF JobInv
    <2>6. CpuInv'
      BY <2>1, <2>2 DEF CpuInv
    <2>7. QED
      BY <2>3, <2>4, <2>5, <2>6
  <1>8. CASE RestoreTarget(t)
    <2>1. /\ pc[t] = "rtarget" /\ pc'[t] = "rmaps" /\ target' = cached_target
          /\ \A u \in Threads \ {t} : pc'[u] = pc[u]
      BY <1>8, <1>t, Moves DEF RestoreTarget
    <2>2. UNCHANGED <<boot, locks, pml, pgd, cached_pgd, cached_target, job, cpus>>
      BY <1>8 DEF RestoreTarget
    <2>3. Exclusive' /\ LinuxRestored' /\ LandsHome'
      BY <2>1, <2>2 DEF Exclusive, LinuxRestored, LandsHome, InMaps, Holding
    <2>4. \A u \in Threads : Swapped(u)'
      BY <1>x, <2>1, <2>2 DEF Swapped, InMaps, Holding
    <2>5. JobInv'
      BY <2>1, <2>2 DEF JobInv
    <2>6. CpuInv'
      BY <2>1, <2>2 DEF CpuInv
    <2>7. QED
      BY <2>3, <2>4, <2>5, <2>6
  <1>9. CASE RestoreMaps(t)
    <2>1. /\ pc[t] = "rmaps" /\ pc'[t] = "unlock" /\ cpu_maps' = Nobody
          /\ \A u \in Threads \ {t} : pc'[u] = pc[u]
      BY <1>9, <1>t, Moves DEF RestoreMaps
    <2>2. UNCHANGED <<boot, trampoline_lock, page, job, cpus>>
      BY <1>9 DEF RestoreMaps
    <2>3. Exclusive' /\ LinuxRestored' /\ LandsHome'
      BY <2>1, <2>2 DEF Exclusive, Swapped, LinuxRestored, LandsHome, InMaps, Holding
    <2>4. \A u \in Threads : Swapped(u)'
      BY <1>x, <2>1, <2>2 DEF Swapped, InMaps, Holding
    <2>5. JobInv'
      BY <2>1, <2>2 DEF JobInv
    <2>6. CpuInv'
      BY <2>1, <2>2 DEF CpuInv, Exclusive, InMaps
    <2>7. QED
      BY <2>3, <2>4, <2>5, <2>6
  <1>10. CASE RestoreUnlock(t)
    <2>1. /\ pc[t] = "unlock" /\ pc'[t] \in {"readd", "idle"} /\ trampoline_lock' = Nobody
          /\ pc'[t] = "readd" => job[t] = "reset"
          /\ \A u \in Threads \ {t} : pc'[u] = pc[u]
      BY <1>10, <1>t, Moves DEF RestoreUnlock
    <2>2. UNCHANGED <<size, initialized, cpu_maps, page, job, cpus>>
      BY <1>10 DEF RestoreUnlock
    <2>3. /\ \A e \in Enclaves : state[e] => state'[e]
          /\ \A e \in Enclaves : state'[e] => state[e] \/ e = Enclave(t)
          /\ job[t] = "reset" => state'[Enclave(t)]
      BY <1>10 DEF RestoreUnlock, TypeOK
    <2>4. Exclusive' /\ LinuxRestored' /\ LandsHome'
      BY <2>1, <2>2 DEF Exclusive, LinuxRestored, LandsHome, InMaps, Holding
    <2>5. \A u \in Threads : Swapped(u)'
      BY <2>1, <2>2 DEF Swapped, InMaps, Holding
    <2>6. JobInv'
      <3>1. size[Enclave(t)] = "2MB"
        BY <2>1 DEF Swapped, Holding
      <3>2. QED
        BY <2>1, <2>2, <2>3, <3>1 DEF JobInv
    <2>7. CpuInv'
      BY <2>1, <2>2 DEF CpuInv
    <2>8. QED
      BY <2>4, <2>5, <2>6, <2>7
  <1>11. CASE WakeBootCpu(t)
    <2> DEFINE c == <<Enclave(t), "boot">>
    <2>1. /\ pc[t] = "start" /\ pc'[t] = "wait" /\ job[t] # "add"
          /\ \A u \in Threads \ {t} : pc'[u] = pc[u]
      BY <1>11, <1>t, Moves DEF WakeBootCpu
    <2>2. UNCHANGED <<boot, locks, page, job>>
      BY <1>11 DEF WakeBootCpu
    <2>3. /\ c \in CPUs /\ Home(c) = Enclave(t) /\ c[2] = "boot"
          /\ cpu'[c] = "trampoline" /\ late' = late \ {c}
          /\ \A d \in CPUs \ {c} : cpu'[d] = cpu[d]
      BY <1>11, CpuFacts DEF WakeBootCpu, TypeOK
    <2> HIDE DEF c
    <2>4. Exclusive' /\ LinuxRestored' /\ LandsHome'
      BY <2>1, <2>2, <2>3 DEF Exclusive, LinuxRestored, LandsHome, InMaps, Holding
    <2>5. \A u \in Threads : Swapped(u)'
      BY <2>1, <2>2 DEF Swapped, InMaps, Holding
    <2>6. JobInv'
      BY <2>1, <2>2 DEF JobInv
    <2>7. CpuInv'
      <3> SUFFICES ASSUME NEW d \in CPUs, cpu'[d] = "trampoline", d \notin late'
                   PROVE  \/ d = <<Linux, "add">> /\ cpu_maps' = Hotplug
                          \/ \E u \in Threads : /\ Enclave(u) = Home(d)
                                                /\ pc'[u] = "wait"
                                                /\ job'[u] = "add" <=> d[2] = "add"
        BY DEF CpuInv
      <3>1. CASE d = c
        BY <2>1, <2>2, <2>3, <3>1
      <3>2. CASE d # c
        BY <2>1, <2>2, <2>3, <3>2 DEF CpuInv
      <3>3. QED
        BY <3>1, <3>2
    <2>8. QED
      BY <2>4, <2>5, <2>6, <2>7
  <1>12. CASE EnclaveStarts(t)
    <2> DEFINE c == <<Enclave(t), "add">>
    <2>1. pc[t] = "wait" /\ job[t] = "add" /\ UNCHANGED <<boot, locks, page, pc, job>>
      BY <1>12 DEF EnclaveStarts
    <2>2. /\ c \in CPUs /\ Home(c) = Enclave(t) /\ c[2] = "add"
          /\ cpu'[c] = "trampoline" /\ late' = late \ {c}
          /\ \A d \in CPUs \ {c} : cpu'[d] = cpu[d]
      BY <1>12, CpuFacts DEF EnclaveStarts, TypeOK
    <2> HIDE DEF c
    <2>3. Exclusive' /\ LinuxRestored' /\ LandsHome' /\ JobInv'
      BY <2>1, <2>2 DEF Exclusive, LinuxRestored, LandsHome, JobInv
    <2>4. \A u \in Threads : Swapped(u)'
      BY <2>1 DEF Swapped
    <2>5. CpuInv'
      BY <2>1, <2>2 DEF CpuInv
    <2>6. QED
      BY <2>3, <2>4, <2>5
  <1>13. CASE StopWaiting(t)
    <2> DEFINE c == <<Enclave(t), IF job[t] = "add" THEN "add" ELSE "boot">>
    <2>1. /\ pc[t] = "wait" /\ pc'[t] = "rpgd"
          /\ \A u \in Threads \ {t} : pc'[u] = pc[u]
      BY <1>13, <1>t, Moves DEF StopWaiting
    <2>2. /\ job'[t] = "add" <=> job[t] = "add"
          /\ \A u \in Threads \ {t} : job'[u] = job[u]
      BY <1>13, <1>t DEF StopWaiting
    <2>3. UNCHANGED <<boot, locks, page, cpu>>
      BY <1>13 DEF StopWaiting
    <2>4. /\ late \subseteq late'
          /\ cpu[c] = "trampoline" => c \in late'
      BY <1>13 DEF StopWaiting
    <2>5. \A d \in CPUs : Home(d) = Enclave(t) /\ (job[t] = "add" <=> d[2] = "add") => d = c
      BY CpuFacts, LinuxAssumption
    <2> HIDE DEF c
    <2>6. Exclusive' /\ LinuxRestored' /\ LandsHome'
      BY <2>1, <2>3, <2>4 DEF Exclusive, LinuxRestored, LandsHome, InMaps, Holding
    <2>7. \A u \in Threads : Swapped(u)'
      BY <1>x, <2>1, <2>3 DEF Swapped, InMaps, Holding
    <2>8. JobInv'
      BY <2>1, <2>2, <2>3 DEF JobInv
    <2>9. CpuInv'
      BY <2>1, <2>2, <2>3, <2>4, <2>5 DEF CpuInv
    <2>10. QED
      BY <2>6, <2>7, <2>8, <2>9
  <1>14. QED
    BY <1>1, <1>2, <1>3, <1>4, <1>5, <1>6, <1>7, <1>8, <1>9, <1>10, <1>11, <1>12, <1>13 DEF Step

(* The CPUs and Linux's hotplug preserve it: a CPU nobody abandoned finds  *)
(* the page set up for it.                                                 *)
LEMMA CpuStepInv ==
  ASSUME TypeOK, TrampolineInv,
         (\E c \in CPUs : CpuEnter(c) \/ CpuUp(c)) \/ HotplugBegin \/ HotplugEnd
  PROVE  TrampolineInv'
  <1> USE DEF TrampolineInv, boot, locks, page, cpus
  <1>1. ASSUME NEW c \in CPUs, CpuEnter(c) PROVE TrampolineInv'
    <2>1. UNCHANGED <<boot, locks, page, pc, job, late>>
      BY <1>1 DEF CpuEnter
    <2>2. /\ cpu[c] = "trampoline"
          /\ cpu'[c] = IF pgd = target THEN target ELSE "lost"
          /\ \A d \in CPUs \ {c} : cpu'[d] = cpu[d]
      BY <1>1 DEF CpuEnter, TypeOK
    <2>3. c \notin late => pgd = Home(c) /\ target = Home(c)
      <3>1. CASE c = <<Linux, "add">> /\ cpu_maps = Hotplug
        BY <3>1, CpuFacts DEF LinuxRestored
      <3>2. ASSUME NEW t \in Threads, Enclave(t) = Home(c), pc[t] = "wait"
            PROVE  pgd = Home(c) /\ target = Home(c)
        BY <3>2 DEF Swapped
      <3>3. QED
        BY <2>2, <3>1, <3>2 DEF CpuInv
    <2>4. LandsHome'
      BY <2>1, <2>2, <2>3 DEF LandsHome
    <2>5. CpuInv'
      <3>1. cpu'[c] # "trampoline" \/ c \in late \/ cpu'[c] = Home(c)
        BY <2>2, <2>3
      <3>2. QED
        BY <2>1, <2>2, <3>1 DEF CpuInv
    <2>6. Exclusive' /\ LinuxRestored' /\ JobInv'
      BY <2>1 DEF Exclusive, LinuxRestored, JobInv
    <2>7. \A u \in Threads : Swapped(u)'
      BY <2>1 DEF Swapped
    <2>8. QED
      BY <2>4, <2>5, <2>6, <2>7
  <1>2. ASSUME NEW c \in CPUs, CpuUp(c) PROVE TrampolineInv'
    BY <1>2 DEF CpuUp, Exclusive, LinuxRestored, JobInv, Swapped, CpuInv, LandsHome
  <1>3. CASE HotplugBegin
    <2> DEFINE c == <<Linux, "add">>
    <2>1. /\ cpu_maps = Nobody /\ cpu_maps' = Hotplug
          /\ UNCHANGED <<boot, trampoline_lock, page, pc, job, late>>
      BY <1>3 DEF HotplugBegin
    <2>2. c \in CPUs /\ cpu'[c] = "trampoline" /\ \A d \in CPUs \ {c} : cpu'[d] = cpu[d]
      BY <1>3, CpuFacts DEF HotplugBegin, TypeOK
    <2>3. Exclusive' /\ LinuxRestored' /\ JobInv'
      BY <2>1, ThreadFacts DEF Exclusive, LinuxRestored, JobInv
    <2>4. LandsHome'
      BY <2>1, <2>2 DEF LandsHome
    <2>5. CpuInv'
      BY <2>1, <2>2, ThreadFacts DEF CpuInv
    <2>6. \A u \in Threads : Swapped(u)'
      BY <2>1 DEF Swapped
    <2>7. QED
      BY <2>3, <2>4, <2>5, <2>6
  <1>4. CASE HotplugEnd
    <2>1. /\ cpu_maps = Hotplug /\ cpu_maps' = Nobody
          /\ cpu[<<Linux, "add">>] # "trampoline"
          /\ UNCHANGED <<boot, trampoline_lock, page, pc, job, cpus>>
      BY <1>4 DEF HotplugEnd
    <2>2. Exclusive' /\ LinuxRestored' /\ JobInv' /\ LandsHome'
      BY <2>1, ThreadFacts DEF Exclusive, LinuxRestored, JobInv, LandsHome
    <2>3. CpuInv'
      BY <2>1 DEF CpuInv
    <2>4. \A u \in Threads : Swapped(u)'
      BY <2>1 DEF Swapped
    <2>5. QED
      BY <2>2, <2>3, <2>4
  <1>5. QED
    BY <1>1, <1>2, <1>3, <1>4

(* The invariant of the trampoline holds for any number of enclaves when   *)
(* no running enclave is launched again.                                   *)
THEOREM TrampolineSafe ==
  ASSUME ~Relaunch
  PROVE  Spec => []TrampolineInv
  <1>1. Init => TrampolineInv
    BY ThreadFacts DEF Init, TrampolineInv, Exclusive, LinuxRestored, JobInv, Swapped,
       CpuInv, LandsHome, InMaps, Holding
  <1>2. TypeOK /\ TrampolineInv /\ [Next]_vars => TrampolineInv'
    <2> SUFFICES ASSUME TypeOK, TrampolineInv, [Next]_vars PROVE TrampolineInv'
      OBVIOUS
    <2>1. CASE UNCHANGED vars
      BY <2>1 DEF vars, TrampolineInv, Exclusive, LinuxRestored, JobInv, Swapped,
         CpuInv, LandsHome
    <2>2. CASE Next
      BY <2>2, IoctlInv, StepInv, CpuStepInv DEF Next
    <2>3. QED
      BY <2>1, <2>2
  <1>3. QED
    BY <1>1, <1>2, TypeCorrect, PTL DEF Spec

(* Whenever Linux may start a CPU, the trampoline leads to Linux.          *)
THEOREM LinuxUndisturbed ==
  ASSUME ~Relaunch
  PROVE  Spec => []LinuxRestored
  <1>1. TrampolineInv => LinuxRestored
    BY DEF TrampolineInv
  <1>2. QED
    BY <1>1, TrampolineSafe, PTL

(* A CPU nobody abandoned enters the kernel it was started for.            *)
THEOREM CpusLandHome ==
  ASSUME ~Relaunch
  PROVE  Spec => []LandsHome
  <1>1. TrampolineInv => LandsHome
    BY DEF TrampolineInv
  <1>2. QED
    BY <1>1, TrampolineSafe, PTL
=============================================================================
