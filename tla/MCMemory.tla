------------------------------ MODULE MCMemory ------------------------------
(***************************************************************************)
(* Two machines with 15 frames of low memory.  The map of the first ends   *)
(* with the region of the kernel, that of the second with a reserved       *)
(* region at the top of the address space, as most firmware reports it.    *)
(***************************************************************************)
EXTENDS Memory, TLC
CONSTANTS p, q

Region(start, pages, type) == [start |-> start, pages |-> pages, type |-> type]
KernelLast == <<Region(0, 15, 1), Region(15, 3, 2), Region(18, 5, 1)>>
ReservedLast == KernelLast \o <<Region(574, 2, 2)>>
MCMaps == {KernelLast, ReservedLast}
MCPlacement == 20..22
MCSegmentPages == {<<4, 0>>, <<4, 1>>}
MCStackPage == <<6, 0>>
ProgramSymmetry == Permutations(Programs)
=============================================================================
