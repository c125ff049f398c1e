------------------------------ MODULE RamInfo ------------------------------
(***************************************************************************)
(* How startup learns what RAM there is and what of it belongs to the      *)
(* firmware: a fixed bank of the board, a device tree, the memory map of   *)
(* UEFI, or that of EFI read by the entry point. What is learnt becomes    *)
(* calls of the RAM manager, whose lists are those of RamManager.          *)
(*                                                                         *)
(* paddr_t has 64 bits, so that no descriptor is cut at its limit. The     *)
(* descriptors that the firmware's own allocations add to the map split    *)
(* others and cover the same memory: only their number is modelled.        *)
(***************************************************************************)
EXTENDS RamManager

CONSTANTS
  BoardRam,   \* <<start, size>> of STM32MP2_DRAM0_OS
  Trees,      \* device trees: [rsv, nodes], a node being [ac, sc, cells, reg]
  Maps,       \* memory maps: sequences of [type, start, size]
  RegChunk,   \* REG_CHUNK
  RetryMax,   \* UEFI_EXIT_RETRY_MAX
  MaxEvents   \* bound on the firmware's changes of its map

Boot    == {"EfiLoaderCode", "EfiLoaderData", "EfiBootServicesCode", "EfiBootServicesData"}
Runtime == {"EfiRuntimeServicesCode", "EfiRuntimeServicesData"}
Acpi    == {"EfiACPIReclaimMemory", "EfiACPIMemoryNVS", "EfiPalCode"}
NoRam   == {"EfiReservedMemoryType", "EfiUnusableMemory", "EfiMemoryMappedIO",
            "EfiMemoryMappedIOPortSpace"}

\* The memory of a range or descriptor.
Extent(d) == Units(d.start, d.start + d.size)
Disjoint(ds) == \A i, j \in 1 .. Len(ds) : i # j => Extent(ds[i]) \cap Extent(ds[j]) = {}

ASSUME RamInfoAssumption ==
  /\ RegChunk \in Nat /\ RetryMax \in Nat /\ MaxEvents \in Nat /\ BoardRam \in Nat \X Nat
\* No two ranges of a node, or of two nodes, overlap; reg has what cells says.
ASSUME TreesAssumption ==
  /\ Trees \subseteq [rsv : Seq([start : Nat, size : Nat]),
                     nodes : Seq([ac : 1 .. 2, sc : 1 .. 2, cells : Nat,
                                  reg : Seq([start : Nat, size : Nat])])]
  /\ \A t \in Trees : \A i, j \in 1 .. Len(t.nodes) :
       LET a == t.nodes[i] b == t.nodes[j] IN
       /\ a.cells = (a.ac + a.sc) * Len(a.reg) /\ Len(a.reg) <= RegChunk
       /\ Disjoint(a.reg)
       /\ i # j => \A k \in 1 .. Len(a.reg), l \in 1 .. Len(b.reg) :
                     Extent(a.reg[k]) \cap Extent(b.reg[l]) = {}
ASSUME MapsAssumption ==
  /\ Maps \subseteq Seq([type : STRING, start : Nat, size : Nat])
  /\ \A m \in Maps : Disjoint(m)

VARIABLES
  route,          \* where the information comes from; "none": options only
  at,             \* where startup is
  map,            \* the device tree or memory map
  calls,          \* calls of the RAM manager still to be made: [op, start, size]
  need,           \* descriptors in the firmware's map
  map_size,       \* descriptors the buffer has room for
  stale,          \* the map has changed since it was read: map_key is old
  events,
  uefi_init_cnt,
  uefi_exit_retry_cnt,
  live,           \* boot services have not been left
  conout,         \* ConOut and uefi_exit_boot_services_f are not NULL
  first           \* uefi_exit_boot_services() is called from init_raminfo_uefi()

mapVars  == <<need, map_size, stale, events>>
exitVars == <<uefi_init_cnt, uefi_exit_retry_cnt, live, conout, first>>
infoVars == <<route, at, map, calls, mapVars, exitVars>>

Goto(from, to) == at = from /\ at' = to
C(op, d) == [op |-> op, start |-> d.start, size |-> d.size]
Each(op, ds) == [i \in 1 .. Len(ds) |-> C(op, ds[i])]
OfType(m, types) ==
  FoldLeft(LAMBDA l, d : IF d.type \in types THEN Append(l, d) ELSE l, << >>, m)

\* The board's only bank.
stm32mp2_init_raminfo == <<[op |-> "add", start |-> BoardRam[1], size |-> BoardRam[2]]>>

-----------------------------------------------------------------------------
(* The device tree                                                         *)

\* fdt_get_reg64_cells() from an index on: the number of entries, or an
\* error, here 0. The caller has room for sizes.
fdt_get_reg64_cells(n, index) ==
  LET len == n.cells \div (n.ac + n.sc) IN
  IF \/ n.ac \notin 1 .. 2 \/ n.sc \notin 0 .. 2
     \/ n.cells % (n.ac + n.sc) # 0 \/ index >= len \/ n.sc = 0
  THEN 0 ELSE len - index

NodeCalls(n) == Each("add", SubSeq(n.reg, 1, fdt_get_reg64_cells(n, 0)))

\* Mutant: reserved memory is allocated once RAM is known, not avoided first.
init_raminfo_fdt_NoAvoid(t) ==
  FoldLeft(LAMBDA l, n : l \o NodeCalls(n), << >>, t.nodes)
    \o Each("alloc", Reverse(t.rsv))

\* init_raminfo_fdt(): the reservations are avoided, all memory nodes added,
\* the reservations allocated.
init_raminfo_fdt(t) ==
  Each("avoid", Reverse(t.rsv))
    \o FoldLeft(LAMBDA l, n : l \o NodeCalls(n), << >>, t.nodes)
    \o Each("alloc", Reverse(t.rsv))

-----------------------------------------------------------------------------
(* The memory maps                                                         *)

\* Descriptors that touch are added as one.
Join(l, d) ==
  IF l # << >> /\ Last(l).start + Last(l).size = d.start
  THEN Append(Front(l), [Last(l) EXCEPT !.size = @ + d.size])
  ELSE Append(l, [start |-> d.start, size |-> d.size])
Joined(m, types) == FoldLeft(Join, << >>, OfType(m, types))

\* do_raminfo() behind the reading of the map: all RAM is added, then what
\* the firmware keeps is allocated and what it still uses avoided, in the
\* order of the map.
UefiRam == Boot \cup Runtime \cup Acpi \cup {"EfiConventionalMemory"}
do_raminfo(m) ==
  LET used == OfType(m, UefiRam \ {"EfiConventionalMemory"}) IN
  Each("add", Joined(m, UefiRam))
    \o [i \in 1 .. Len(used) |->
          C(IF used[i].type \in Boot THEN "avoid" ELSE "alloc", used[i])]

\* heapify(): each descriptor rises until its parent lies no lower; an entry
\* has fewer ancestors than its position.
Swap(m, i, j) == [m EXCEPT ![i] = m[j], ![j] = m[i]]
Rise(a) ==
  LET parent == a.child \div 2 IN
  IF a.child = 1 \/ a.map[parent].start >= a.map[a.child].start THEN a
  ELSE [map |-> Swap(a.map, parent, a.child), child |-> parent]
SiftUp(m, child) ==
  FoldLeft(LAMBDA a, i : Rise(a), [map |-> m, child |-> child], [i \in 1 .. child |-> i]).map
heapify(m, count) == FoldLeft(SiftUp, m, [i \in 1 .. count - 1 |-> i + 1])
efi_sort_map(m) ==
  FoldLeft(LAMBDA a, end : heapify(Swap(a, 1, end), end - 1), heapify(m, Len(m)),
           [i \in 1 .. Len(m) - 1 |-> Len(m) + 1 - i])

\* init_raminfo_efi(): three passes over the sorted map. The second starts
\* with an add_ram() of no bytes.
EfiUsed == Boot \cup Runtime \cup {"EfiACPIReclaimMemory"}
init_raminfo_efi(m) ==
  LET s == efi_sort_map(m)
      banks == Joined(s, EfiUsed \cup {"EfiConventionalMemory"})
  IN Each("avoid", OfType(s, {s[i].type : i \in 1 .. Len(s)} \ {"EfiConventionalMemory"}))
       \o (IF banks = << >> THEN << >> ELSE <<[op |-> "add", start |-> NullPaddr, size |-> 0]>>)
       \o Each("add", banks)
       \o Each("alloc", OfType(s, EfiUsed))

-----------------------------------------------------------------------------
(* GetMemoryMap() and ExitBootServices(). do_raminfo(),                    *)
(* _uefi_exit_boot_services() and efi_entry_point() read the map alike.    *)

Efi == route = "efi"

\* The size of the map is asked for with no buffer at all.
QuerySize ==
  /\ Goto("size", "pool") /\ map_size' = need
  /\ UNCHANGED <<route, map, calls, need, stale, events, exitVars, vars>>

\* AllocatePool() can change the map itself. Without memory startup crashes;
\* the EFI entry point returns to the firmware.
AllocatePool ==
  \/ /\ Goto("pool", "get") /\ map_size' = map_size + 1 /\ stale' = TRUE
     /\ \E k \in {0, 1} : need' = need + k
     /\ UNCHANGED <<route, map, calls, events, exitVars, vars>>
  \/ /\ at = "pool" /\ at' = IF Efi THEN "returned" ELSE at
     /\ IF Efi THEN UNCHANGED vars ELSE Crash
     /\ UNCHANGED <<route, map, calls, mapVars, exitVars>>

\* A buffer that is too small is freed, which the EFI entry point omits, and
\* a larger one asked for.
GetMemoryMap ==
  /\ at = "get" /\ map_size' = need
  /\ IF need <= map_size
     THEN at' = (IF Efi \/ uefi_init_cnt = 0 THEN "exit" ELSE "walk") /\ stale' = FALSE
     ELSE at' = "pool" /\ stale' = (stale \/ ~ Efi)
  /\ UNCHANGED <<route, map, calls, need, events, exitVars, vars>>

\* The firmware's timer events allocate and free memory.
Event ==
  /\ live /\ at \in {"size", "pool", "get", "exit"} /\ events < MaxEvents
  /\ events' = events + 1 /\ stale' = TRUE
  /\ \E k \in {0, 1} : need' = need + k
  /\ UNCHANGED <<route, at, map, calls, map_size, exitVars, vars>>

\* No more output and no more boot services.
After == IF first THEN "run" ELSE "kernel"
Gone(left) ==
  /\ at' = After /\ conout' = FALSE /\ live' = ~ left

\* Mutant: one try only.
ExitBootServices_Once ==
  /\ at = "exit"
  /\ IF Efi
     THEN /\ at' = IF stale THEN "returned" ELSE "walk"
          /\ live' = stale /\ UNCHANGED <<conout, uefi_exit_retry_cnt>>
     ELSE Gone(~ stale) /\ UNCHANGED uefi_exit_retry_cnt
  /\ UNCHANGED <<route, map, calls, mapVars, uefi_init_cnt, first, vars>>

\* ExitBootServices() refuses an old key. _uefi_exit_boot_services() reads
\* the map again, and when the tries are used up goes on as if it had left;
\* the EFI entry point returns to the firmware.
ExitBootServices ==
  /\ at = "exit"
  /\ IF Efi
     THEN /\ at' = IF stale THEN "returned" ELSE "walk"
          /\ live' = stale /\ UNCHANGED <<conout, uefi_exit_retry_cnt>>
     ELSE IF ~ stale THEN Gone(TRUE) /\ UNCHANGED uefi_exit_retry_cnt
     ELSE /\ uefi_exit_retry_cnt' = uefi_exit_retry_cnt + 1
          /\ IF uefi_exit_retry_cnt' <= RetryMax
             THEN at' = "size" /\ UNCHANGED <<live, conout>>
             ELSE Gone(FALSE)
  /\ UNCHANGED <<route, map, calls, mapVars, uefi_init_cnt, first, vars>>

\* uefi_exit_boot_services(): nothing when they are gone already; the last
\* of the users that announced themselves leaves them.
uefi_exit_boot_services ==
  /\ at = "leave"
  /\ IF ~ conout THEN at' = After /\ UNCHANGED uefi_init_cnt
     ELSE /\ uefi_init_cnt' = uefi_init_cnt - 1
          /\ at' = IF uefi_init_cnt' = 0 THEN "size" ELSE After
  /\ UNCHANGED <<route, map, calls, mapVars, uefi_exit_retry_cnt, live, conout, first, vars>>

-----------------------------------------------------------------------------
(* The calls                                                               *)

\* What is learnt from the source. UEFI map entries of an unknown type crash.
Walk ==
  /\ at = "walk"
  /\ IF route = "uefi" /\ \E i \in 1 .. Len(map) : map[i].type \notin UefiRam \cup NoRam
     THEN Crash /\ UNCHANGED <<at, calls>>
     ELSE /\ at' = "call" /\ UNCHANGED vars
          /\ calls' = CASE route = "uefi" -> do_raminfo(map)
                        [] route = "efi" -> init_raminfo_efi(map)
                        [] route = "fdt" -> init_raminfo_fdt(map)
                        [] route = "board" -> stm32mp2_init_raminfo
  /\ UNCHANGED <<route, map, mapVars, exitVars>>

\* avoid_ram() and alloc_ram() of a range the firmware names.
Avoid(b) ==
  IF AvoidOverflow(AvoidRam(avoid_list, b[1], b[2])) THEN Crash
  ELSE /\ avoid_list' = AvoidRam(avoid_list, b[1], b[2])
       /\ resmem' = [resmem EXCEPT !.avoided = @ \cup {b}]
       /\ UNCHANGED <<ram_list, ws_early_next, temp_syspage, sysram_added,
                      ram, sysram, given, crashed>>
Alloc(b) ==
  IF AllocCrashes(b[1], b[2]) THEN Crash
  ELSE /\ TakeRam(b[1], b[2])
       /\ resmem' = [resmem EXCEPT !.allocated = @ \cup {b}]
       /\ UNCHANGED <<avoid_list, ws_early_next, temp_syspage, sysram_added,
                      ram, given, crashed>>

Call ==
  /\ at = "call" /\ calls # << >> /\ ~ crashed
  /\ LET c == Head(calls) b == <<c.start, c.size>> IN
     IF c.size = 0 THEN UNCHANGED vars
     ELSE CASE c.op = "avoid" -> Avoid(b)
            [] c.op = "alloc" -> Alloc(b)
            [] c.op = "add" -> AddRam(b)
  /\ calls' = Tail(calls)
  /\ UNCHANGED <<route, at, map, mapVars, exitVars>>

Called ==
  /\ Goto("call", IF route = "uefi" THEN "leave" ELSE "run") /\ calls = << >>
  /\ UNCHANGED <<route, map, calls, mapVars, exitVars, vars>>

\* The rest of startup allocates what it needs.
Run ==
  /\ at = "run"
  /\ \/ \E q \in AllocReq : AllocRam(q)
     \/ \E n \in WsReq : WsAlloc(n)
     \/ AddSysram
  /\ UNCHANGED infoVars

startnext ==
  /\ Goto("run", "leave") /\ sysram_added /\ first' = FALSE /\ ~ crashed
  /\ UNCHANGED <<route, map, calls, mapVars, uefi_init_cnt, uefi_exit_retry_cnt,
                 live, conout, vars>>

\* uefi_exit_init() is called from uefi_init() and, with "lateexit" among the
\* options of the console, from uefi_io_init().
Users == {1, 2}
InfoInit ==
  /\ Init
  /\ \/ route = "none" /\ map = << >> /\ at = "options"
     \/ route = "board" /\ map = << >> /\ at = "walk"
     \/ route = "fdt" /\ map \in Trees /\ at = "walk"
     \/ route \in {"uefi", "efi"} /\ map \in Maps /\ at = "size"
  /\ calls = << >> /\ map_size = 0 /\ stale = TRUE /\ events = 0
  /\ need = IF route \in {"uefi", "efi"} THEN Len(map) ELSE 0
  /\ uefi_init_cnt \in IF route = "uefi" THEN Users ELSE {0}
  /\ uefi_exit_retry_cnt = 0 /\ first = TRUE
  /\ live = (route \in {"uefi", "efi"}) /\ conout = (route = "uefi")

Firmware == QuerySize \/ AllocatePool \/ GetMemoryMap \/ Event \/ ExitBootServices
InfoNext ==
  \/ at = "options" /\ Next /\ UNCHANGED infoVars
  \/ /\ route # "none" /\ ~ crashed
     /\ Firmware \/ uefi_exit_boot_services \/ Walk \/ Call \/ Called \/ Run \/ startnext
InfoSpec == InfoInit /\ [][InfoNext]_<<vars, infoVars>>

-----------------------------------------------------------------------------
(* Properties                                                              *)

Cover(ds) == UNION {Extent(ds[i]) : i \in 1 .. Len(ds)}

\* What is RAM by the source's account, and what of it is not startup's: the
\* reservations of a device tree, and the memory UEFI needs when boot
\* services have been left.
RamOf == CASE route = "board" -> Block(BoardRam)
           [] route = "fdt" -> UNION {Cover(map.nodes[i].reg) : i \in 1 .. Len(map.nodes)}
           [] route = "uefi" -> Cover(OfType(map, UefiRam))
           [] route = "efi" -> Cover(OfType(map, EfiUsed \cup {"EfiConventionalMemory"}))
Kept == CASE route = "board" -> {}
          [] route = "fdt" -> Cover(map.rsv)
          [] route = "uefi" -> Cover(OfType(map, Runtime \cup Acpi))
          [] route = "efi" -> Cover(OfType(map, EfiUsed \cup Acpi))
InUse == IF route = "uefi" THEN Cover(OfType(map, Boot)) ELSE {}

\* Once the calls are made, all RAM of the source has been added, nothing
\* that the firmware keeps is free, listed as "sysram" or handed out, and
\* nothing that it still uses was handed out. The temporary system page is
\* the exception on the UEFI route: add_ram() places it before do_raminfo()
\* has named what to avoid.
FirmwareKept ==
  at \in {"run", "leave", "kernel"} /\ ~ crashed =>
    /\ Added = RamOf
    /\ (Free \cup Sysram) \cap Kept = {}
    /\ \A i \in Found : \/ route = "uefi" /\ given[i].s = temp_syspage
                        \/ Given(i) \cap (Kept \cup InUse) = {}

\* The kernel starts without boot services, and startup gives up its console
\* only with them, unless ExitBootServices() has refused a key too often; no
\* boot service is called once they are left, and with "lateexit" they last
\* as long as startup does.
ServicesLeft ==
  /\ live /\ ~ crashed /\ (at = "kernel" \/ (route = "uefi" /\ ~ conout))
       => uefi_exit_retry_cnt > RetryMax
  /\ at \in {"size", "pool", "get", "exit"} => live
  /\ uefi_init_cnt > 0 => live

\* The lists implement the pool of RamPool also when the firmware tells of
\* the RAM, except on the UEFI route, where memory is avoided after it was
\* added.
Pooled(S) == IF route = "uefi" THEN {} ELSE S
InfoPool == INSTANCE RamPool WITH
  added <- Pooled(Added), pool <- Pooled(Free), avoided <- Pooled(Avoided),
  firm <- Pooled(Firm), held <- Pooled({Given(i) : i \in Found})
PoolKept == InfoPool!Spec
=============================================================================
