------------------------------ MODULE MCParts ------------------------------
(***************************************************************************)
(* The parts that share nothing with one another: the two consoles, the    *)
(* hash table, the file service that uses it, the queue, the early ring    *)
(* buffer, the layout of the boot memory and the loops over IOMMU pages.   *)
(* A behaviour is one of one of them.                                      *)
(***************************************************************************)
EXTENDS Console, V3Console, Hashtable, EnclaveFs, GenQueue, EarlyRingbuf,
        BootParams, IommuRegion

VARIABLE part

MCHashOf      == 1 :> 0 @@ 2 :> 3 @@ 3 :> 5
MCPrimes      == <<2, 3>>
MCLoadFactors == <<1, 2>>
MCDescLists   == {<<2, 2>>, <<1, 0, 1>>, <<2, 1, 1>>}
MCLens        == [kernel |-> 0, initrd |-> 0, header |-> 3]

Parts == {"console", "vm", "hashtable", "files", "queue", "ringbuf", "boot", "iommu"}

PartsInit ==
    /\ CInit /\ VInit /\ HInit /\ FsInit /\ QInit /\ EInit /\ BInit /\ IInit
    /\ part \in Parts
    /\ part = "boot" \/ b_len = MCLens

PartsNext ==
    \/ /\ part = "console" /\ CNext
       /\ UNCHANGED <<vvars, hvars, fsvars, qvars, evars, bvars, ivars, part>>
    \/ /\ part = "vm" /\ VNext
       /\ UNCHANGED <<cvars, hvars, fsvars, qvars, evars, bvars, ivars, part>>
    \/ /\ part = "hashtable" /\ HNext
       /\ UNCHANGED <<cvars, vvars, fsvars, qvars, evars, bvars, ivars, part>>
    \/ /\ part = "files" /\ FsNext
       /\ UNCHANGED <<cvars, vvars, hvars, qvars, evars, bvars, ivars, part>>
    \/ /\ part = "queue" /\ QNext
       /\ UNCHANGED <<cvars, vvars, hvars, fsvars, evars, bvars, ivars, part>>
    \/ /\ part = "ringbuf" /\ ENext
       /\ UNCHANGED <<cvars, vvars, hvars, fsvars, qvars, bvars, ivars, part>>
    \/ /\ part = "boot" /\ BNext
       /\ UNCHANGED <<cvars, vvars, hvars, fsvars, qvars, evars, ivars, part>>
    \/ /\ part = "iommu" /\ INext
       /\ UNCHANGED <<cvars, vvars, hvars, fsvars, qvars, evars, bvars, part>>

PartsSpec ==
    /\ PartsInit
    /\ [][PartsNext]_<<cvars, vvars, hvars, fsvars, qvars, evars, bvars, ivars, part>>
    /\ VFairness
=============================================================================
