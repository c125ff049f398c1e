------------------------------ MODULE RamPool ------------------------------
(***************************************************************************)
(* What the RAM manager of startup promises its callers: memory it finds   *)
(* for them is theirs alone. The pool is a set of units of memory, without *)
(* lists, orders or fits; RamManager implements it. Each action is a       *)
(* relation between two states and leaves open which block is chosen.      *)
(***************************************************************************)
CONSTANT Image   \* the units of the boot image in RAM, behind startup

VARIABLES
  added,    \* memory add_ram() was told of
  pool,     \* memory that can still be allocated
  avoided,  \* memory startup must not use for itself
  firm,     \* memory that was avoided before the first add_ram()
  held      \* the blocks found for callers

vars == <<added, pool, avoided, firm, held>>

Init == added = {} /\ pool = {} /\ held = {} /\ firm = avoided

\* avoid_ram() of a caller, while no RAM is known.
Avoid ==
  /\ added = {}
  /\ avoided \subseteq avoided' /\ firm' = avoided'
  /\ UNCHANGED <<added, pool, held>>

\* add_ram(): new memory, without the boot image, and perhaps a block in it
\* for the temporary system page.
AddRam ==
  LET b == added' \ added
      t == avoided' \ avoided
  IN /\ added \subseteq added' /\ avoided \subseteq avoided'
     /\ pool' = (pool \cup b) \ Image
     /\ t \subseteq pool'
     /\ held' = held \cup ({t} \ {{}})
     /\ UNCHANGED firm

\* alloc_ram() of any address, calloc_ram(), reserve_ram().
Alloc ==
  \E t \in held' \ held :
    /\ t \subseteq pool \ avoided
    /\ pool' = pool \ t
    /\ held' = held \cup {t}
    /\ UNCHANGED <<added, avoided, firm>>

\* ws_alloc(): startup's workspace goes back to the system when it is done.
Workspace ==
  \E t \in held' \ held :
    /\ t \subseteq pool \ avoided
    /\ avoided' = avoided \cup t
    /\ held' = held \cup {t}
    /\ UNCHANGED <<added, pool, firm>>

\* ws_alloc() while the pool is empty takes the memory behind the image.
EarlyWorkspace ==
  /\ pool = {}
  /\ avoided \subseteq avoided'
  /\ firm' = IF added = {} THEN avoided' ELSE firm
  /\ UNCHANGED <<added, pool, held>>

\* alloc_ram() of the given address of memory that was avoided before.
Claim ==
  /\ pool' \subseteq pool /\ pool \ pool' \subseteq firm
  /\ UNCHANGED <<added, avoided, firm, held>>

Next == Avoid \/ AddRam \/ Alloc \/ Workspace \/ EarlyWorkspace \/ Claim

Spec == Init /\ [][Next]_vars

TypeOK ==
  /\ pool \subseteq added /\ firm \subseteq avoided
  /\ held \subseteq SUBSET added

\* No two blocks found for callers share memory, and none touches the boot
\* image or memory that was reserved before RAM was known.
Exclusive ==
  /\ \A s, t \in held : s # t => s \cap t = {}
  /\ \A t \in held : t \cap firm = {} /\ t \cap Image = {}

\* A block is no longer available to others: it has left the pool or is
\* avoided.
Withdrawn == \A t \in held : t \cap (pool \ avoided) = {}
=============================================================================
