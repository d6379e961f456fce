---------------------------- MODULE MCEnclavePci ----------------------------
(***************************************************************************)
(* EnclavePci for TLC, with a history of whether a device could not be     *)
(* attached (enclave_pci.c:584) or was refused after RESET                 *)
(* (enclave.c:246-258).                                                    *)
(***************************************************************************)
EXTENDS EnclavePci, TLC

VARIABLE failed

Failing ==
  \/ enclave_pci_attach /\ lc'.pc = "idle"
  \/ \E o \in Objs : ReaddRefused(o)

PciInit == Init /\ failed = FALSE

PciNext == Next /\ failed' = (failed \/ Failing)

PciSpec == PciInit /\ [][PciNext]_<<vars, failed>>

(* Until an attach fails or a device is refused after RESET, no thread     *)
(* goes on with a freed device and neither RESET nor FREE stands on one    *)
(* (enclave_pci.c:319-325, 427, 564-568, 624, 791, 818;                    *)
(* enclave.c:246-258).  After either the code may do so, whatever comes    *)
(* then: see UseSafe.                                                      *)
DevicesUsedLive == failed \/ DeviceInv

Symmetry == Permutations(Devs)
=============================================================================
