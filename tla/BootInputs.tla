----------------------------- MODULE BootInputs -----------------------------
(***************************************************************************)
(* Three of the parts in which startup reads what others have left: the    *)
(* page tables of PageMap, the directory of the image in Bootstraps and    *)
(* the spin-table start of Fdt, side by side. They share no state.         *)
(***************************************************************************)
EXTENDS PageMap

CONSTANTS Images, MemSize, EmNative, DataNative
VARIABLES image, bpc, dir, seg, mem, bfree, prev, first_bootstrap_start_vaddr, next_entry, loader
bootVars == <<image, bpc, dir, seg, mem, bfree, prev, first_bootstrap_start_vaddr,
              next_entry, loader>>
B == INSTANCE Bootstraps WITH pc <- bpc, free <- bfree

ASSUME ImagesAssumption ==
  /\ MemSize \in Nat /\ Images \subseteq B!ImageType
  /\ \A img \in Images : B!LaidOut(img)

-----------------------------------------------------------------------------
CONSTANTS Trees, CellBase, FDT_MAX_NCELLS, MaxCalls, MaxCpu
VARIABLES cache, treeAsked, ncalls, tree, cpu, spc, shim_start, shim_id, release, dirty, ap, event
F == INSTANCE Fdt WITH asked <- treeAsked

\* A tree is known by its address, which is not NULL.
ASSUME TreesAssumption ==
  /\ \A t \in Trees : t.addr # 0 /\ Len(t.nodes) \in Nat
  /\ \A t, u \in Trees : t.addr = u.addr => t = u

\* The interrupts found do not depend on what was asked before: see Fdt.
IntrRight == F!IntrRight

\* CPUs that the firmware parked are released one at a time: see Fdt.
OneAtATime == F!OneAtATime

\* A loaded executable is what its file says at the addresses it is linked
\* at, through the tables or one to one, and all are started in turn; and
\* nothing is mapped where something else is: see PageMap and Bootstraps.
LoadedRight == ElfRight /\ AreasApart /\ B!BootstrapsRight
=============================================================================
