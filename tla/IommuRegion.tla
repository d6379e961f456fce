---------------------------- MODULE IommuRegion ----------------------------
(***************************************************************************)
(* The loops of enclave_pci_iommu_map and enclave_pci_iommu_unmap: a       *)
(* region of the VM's memory is mapped in 2MB pages and, from the first    *)
(* that does not fit, in 4KB pages.  EnclavePci has a whole loop as one    *)
(* step; here a step is one round.  Addresses are in bytes of a scaled     *)
(* page.                                                                   *)
(***************************************************************************)
EXTENDS Integers, FiniteSets

CONSTANTS SmallPage, BigPage,   \* 4096 and 512 * 4096
          Gpas, Hpas,           \* addresses a region may start at
          RegionLens,           \* region_end - region_start
          SizeWord,             \* size is a number below SizeWord (u64)
          MaxRegions            \* bound: regions mapped at a time

ASSUME IommuAssumption ==
    /\ SmallPage \in Nat \ {0} /\ BigPage \in Nat \ {0} /\ BigPage % SmallPage = 0
    /\ Gpas \subseteq Nat /\ Hpas \subseteq Nat
    /\ SizeWord \in Nat /\ BigPage < SizeWord
    /\ \A n \in RegionLens : n \in Nat /\ n < SizeWord
    /\ MaxRegions \in Nat

\* What the VMM has to see to, because the code does not look: regions are whole
\* pages and not empty.  Any other length wraps the unsigned size.
WholePages == \A n \in RegionLens : n # 0 /\ n % SmallPage = 0

VARIABLES
    i_domain,    \* pages of the domain: gpa, hpa, size
    i_job,       \* the call that is served
    i_regions,   \* history: regions whose map call was answered 0
    i_rest       \* history: bytes a map call that failed has left, gpa and hpa

ivars == <<i_domain, i_job, i_regions, i_rest>>

NoJob == [op |-> "none", gpa |-> 0, hpa |-> 0, size |-> 0, page |-> BigPage,
          region |-> <<0, 0, 0>>]

IInit == i_domain = {} /\ i_job = NoJob /\ i_regions = {} /\ i_rest = {}

\* The bytes of a run of addresses, as pairs of a gpa and an hpa.
Span(gpa, hpa, n) == {<<gpa + k, hpa + k>> : k \in 0 .. n - 1}
Mapped == UNION {Span(p.gpa, p.hpa, p.size) : p \in i_domain}

\* Regions of the VM's memory do not overlap.
Apart(gpa, n) ==
    \A b \in Mapped \cup i_rest : b[1] \notin gpa .. gpa + n - 1

MapBegin(gpa, hpa, n) ==
    /\ i_job = NoJob
    /\ Cardinality(i_regions) < MaxRegions /\ Apart(gpa, n)
    /\ i_job' = [NoJob EXCEPT !.op = "map", !.gpa = gpa, !.hpa = hpa, !.size = n,
                              !.region = <<gpa, hpa, n>>]
    /\ UNCHANGED <<i_domain, i_regions, i_rest>>

\* The VMM unmaps a region as it mapped it, or one of which nothing is mapped.
\* The code takes any address and length; what iommu_unmap does in the middle of
\* a large page is the IOMMU driver's.
UnmapBegin(gpa, n) ==
    /\ i_job = NoJob
    /\ (\E hpa \in Hpas : <<gpa, hpa, n>> \in i_regions) \/ Apart(gpa, n)
    /\ i_job' = [NoJob EXCEPT !.op = "unmap", !.gpa = gpa, !.size = n,
                              !.region = <<gpa, 0, n>>]
    /\ UNCHANGED <<i_domain, i_regions, i_rest>>

\* The page size is never switched.
PageSizeSlip(size, page) == page

\* The switch to small pages is for good.
PageSize(size, page) == IF size < page THEN SmallPage ELSE page

MapRound ==
    LET page == PageSize(i_job.size, i_job.page)
        left == (i_job.size - page) % SizeWord
    IN  /\ i_job.op = "map"
        /\ i_domain' = i_domain \cup {[gpa |-> i_job.gpa, hpa |-> i_job.hpa, size |-> page]}
        /\ IF left > 0
           THEN /\ i_job' = [i_job EXCEPT !.gpa = @ + page, !.hpa = @ + page, !.size = left,
                                          !.page = page]
                /\ UNCHANGED i_regions
           ELSE /\ i_job' = NoJob
                /\ i_regions' = i_regions \cup {i_job.region}
        /\ UNCHANGED i_rest

\* iommu_map fails: the pages mapped so far stay.
MapFails ==
    /\ i_job.op = "map"
    /\ i_rest' = i_rest \cup Span(i_job.region[1], i_job.region[2],
                                  i_job.gpa - i_job.region[1])
    /\ i_job' = NoJob
    /\ UNCHANGED <<i_domain, i_regions>>

\* iommu_unmap returns the size of the page it found at gpa, 0 if there is none;
\* any other size than the one asked for ends the call.
UnmapRound ==
    LET page  == PageSize(i_job.size, i_job.page)
        left  == (i_job.size - page) % SizeWord
        found == {p \in i_domain : p.gpa = i_job.gpa}
    IN  /\ i_job.op = "unmap"
        /\ i_domain' = i_domain \ found
        /\ IF (\E p \in found : p.size = page) /\ left > 0
           THEN /\ i_job' = [i_job EXCEPT !.gpa = @ + page, !.size = left, !.page = page]
                /\ UNCHANGED i_regions
           ELSE /\ i_job' = NoJob
                /\ i_regions' = {r \in i_regions : r[1] # i_job.region[1]}
        /\ UNCHANGED i_rest

INext ==
    \/ \E gpa \in Gpas, n \in RegionLens :
        \/ UnmapBegin(gpa, n)
        \/ \E hpa \in Hpas : MapBegin(gpa, hpa, n)
    \/ MapRound \/ MapFails \/ UnmapRound

ISpec == IInit /\ [][INext]_ivars
-----------------------------------------------------------------------------
(* Properties.                                                             *)

\* What the call that is served has mapped, or has not yet unmapped.
Done(r) == IF i_job.op = "map" THEN Span(r[1], r[2], i_job.gpa - r[1]) ELSE {}
Kept(r) == IF i_job.op = "unmap" /\ r[1] = i_job.region[1]
           THEN Span(i_job.gpa, r[2] + (i_job.gpa - r[1]), i_job.size)
           ELSE Span(r[1], r[2], r[3])

(* With regions of whole pages, unmapped as they were mapped, at every round the
   device can reach exactly the regions that were mapped, each byte at its host
   address, with no hole and nothing past their ends: both loops end at the
   region's end, where the unsigned size is 0, and cut a region at the same
   places.                                                                 *)
MappedExact ==
    Mapped = (UNION {Kept(r) : r \in i_regions}) \cup Done(i_job.region) \cup i_rest
=============================================================================
