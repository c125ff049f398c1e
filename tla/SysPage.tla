------------------------------ MODULE SysPage ------------------------------
(***************************************************************************)
(* The system page startup builds for the kernel. Its sections lie one     *)
(* behind the other in memory; grow_syspage_section() and                  *)
(* set_syspage_section() make room in the middle and move all that lies    *)
(* behind, add_ram() moves the whole page once, and callouts.c keeps the   *)
(* addresses of callout slots inside it. alloc_syspage_memory() measures   *)
(* the callouts, allocates the real page and writes them behind it.        *)
(* Addresses and section sizes count 8-byte words, to which every request  *)
(* is rounded; callout code and data are counted in bytes.                 *)
(***************************************************************************)
EXTENDS Integers, Sequences

CONSTANTS
  Fixed,       \* sections made with set_syspage_section, besides smp
  Grown,       \* sections that only grow, besides the ones named below
  SetSize,     \* Fixed -> bytes of the section
  GrowSize,    \* Grown -> set of bytes a call may ask for
  AsSize,      \* sizeof(struct asinfo_entry), in words
  HdrSize,     \* sizeof(struct syspage_entry), in words
  NumSlots,    \* slots of struct callout_entry
  DebugSlots,  \* the ones of debug[0] and debug[1]
  InitBase, InitMax,   \* first storage, INIT_SYSPAGE_SIZE
  TempBase, TempMax,   \* second storage, TEMP_SYSPAGE_SIZE
  Rtn,         \* callouts
  RtnSize,     \* Rtn -> bytes of code
  RwOf,        \* Rtn -> its rw_size word, NoRw if none
  RwSize,      \* the rw_size words: bytes of data
  Patched,     \* the callouts that have a patcher
  SmpSpin,     \* the smp_spin callout
  CacheAttr,   \* attributes of a cache
  IntrData,    \* patch data of interrupt controllers
  DbgDevice,   \* patch data of the debug devices
  NoRw, NoData,
  PageSize,    \* __PAGESIZE
  MaxSplits    \* entries the allocation of the page may add to asinfo

Section == {"syspage", "callout", "smp", "intrinfo", "cacheattr", "asinfo"}
           \cup Fixed \cup Grown
Settable == {"syspage", "callout", "smp"} \cup Fixed

ASSUME SectionAssumption ==
  /\ (Fixed \cup Grown) \cap {"syspage", "callout", "smp", "smp_spin",
                               "intrinfo", "cacheattr", "asinfo"} = {}
  /\ Fixed \cap Grown = {}
ASSUME SizeAssumption ==
  /\ SetSize \in [Fixed -> Nat \ {0}]
  /\ \A s \in Grown : GrowSize[s] \subseteq Nat \ {0}
  /\ {AsSize, HdrSize, NumSlots} \subseteq Nat \ {0}
  /\ {InitBase, InitMax, TempBase, TempMax} \subseteq Nat
  /\ HdrSize + NumSlots <= InitMax /\ InitMax <= TempMax
ASSUME CalloutAssumption ==
  /\ RtnSize \in [Rtn -> Nat \ {0}]
  /\ \A r \in Rtn : RwOf[r] # NoRw => RwSize[RwOf[r]] \in Nat
  /\ SmpSpin \in Rtn /\ Patched \subseteq Rtn
  /\ NoData \notin IntrData /\ DbgDevice # NoData
  /\ DebugSlots \subseteq 0 .. NumSlots - 1
ASSUME PageAssumption == PageSize \in Nat \ {0} /\ MaxSplits \in 0 .. 4

VARIABLES
  ptr, size,     \* lsp: address and size of each section
  isset,         \* sections placed by set_syspage_section, and the header
  mem,           \* the words of the page, from its start
  total_size, fixed_size, max_size,
  patch_data,    \* registered data: owner's address and data
  hooks,         \* callout_output_rtn and the routines chained to it
  smp_spin_vaddr,\* slot of smp_spin, outside the page
  phase,         \* what startup is doing
  todo,          \* routines output_callouts() has still to call
  at,            \* the next slot of the first of them
  rtn_size, rw_size, rw_addrs, callouts_size,
  spsize,        \* bytes allocated for page and callouts
  splits,        \* asinfo entries the allocation has added
  out            \* callouts written behind the page

lspVars == <<ptr, size, isset, mem, total_size, fixed_size, max_size>>
dataVars == <<patch_data, hooks, smp_spin_vaddr>>
passVars == <<todo, at, rtn_size, rw_size, rw_addrs, callouts_size>>
allocVars == <<spsize, splits, out>>
vars == <<lspVars, dataVars, phase, passVars, allocVars>>

base == ptr["syspage"]
Words(bytes) == (bytes + 7) \div 8
Round8(bytes) == 8 * Words(bytes)
RoundPg(bytes) == ((bytes + PageSize - 1) \div PageSize) * PageSize

\* Words of memory: NULL, a callout not yet written out, the address of one
\* that was, and the index-th word of plain data of a section.
Null == <<"null">>
Callout(r) == <<"rtn", r>>
Vaddr(off) == <<"va", off>>
Data(s, i) == <<"data", s, i>>
Cell == {Null} \cup ({"rtn"} \X Rtn) \cup ({"va"} \X Nat)
        \cup ({"data"} \X Section \X (Nat \cup CacheAttr))

\* Interrupt and cache entries: one word of data and one slot. An interrupt
\* entry has five slots; they are treated alike and one stands for them.
EntrySize == 2
SlotWord == 1

\* init_syspage_memory() up to the callout section; the sections grown next
\* and the GIC map are operations like all others.
Init ==
  /\ LET rest == InitBase + HdrSize + NumSlots
     IN ptr = [s \in Section |-> IF s = "syspage" THEN InitBase
                                 ELSE IF s = "callout" THEN InitBase + HdrSize
                                 ELSE rest]
  /\ size = [s \in Section |-> IF s = "syspage" THEN HdrSize
                               ELSE IF s = "callout" THEN NumSlots ELSE 0]
  /\ isset = {"syspage", "callout"}
  /\ total_size = HdrSize + NumSlots /\ fixed_size = total_size
  /\ mem = [a \in 0 .. total_size - 1 |->
              IF a < HdrSize THEN Data("syspage", a) ELSE Null]
  /\ max_size = InitMax
  /\ patch_data = {} /\ hooks = <<"callout">> /\ smp_spin_vaddr = Null
  /\ phase = "build" /\ todo = << >> /\ at = 1
  /\ rtn_size = 0 /\ rw_size = 0 /\ rw_addrs = << >> /\ callouts_size = 0
  /\ spsize = 0 /\ splits = 0 /\ out = {}

-----------------------------------------------------------------------------
(* Making room                                                             *)

Room(n) == total_size + n <= max_size

\* callout_reloc_data(): the owners in a moved range move along.
RelocOwner(pd, from, len, diff) ==
  IF pd.owner >= from /\ pd.owner < from + len
  THEN [pd EXCEPT !.owner = @ + diff] ELSE pd
CalloutRelocData(from, len, diff) ==
  {RelocOwner(pd, from, len, diff) : pd \in patch_data}

\* callout_register_data(): the data of a callout with a patcher, unless its
\* slot has some already.
RegisterData(pds, owner, r, d) ==
  IF r \in Patched /\ \A pd \in pds : pd.owner # owner
  THEN pds \cup {[owner |-> owner, data |-> d]} ELSE pds

\* Mutant: a section that begins right at the gap stays.
Moves_Strict(t, s, bottom) == t # s /\ ptr[t] > bottom

\* The sections at or behind the gap move, except the one that grows.
Moves(t, s, bottom) == t # s /\ ptr[t] >= bottom

\* grow_syspage_section() of section s, which begins at p: n words at its
\* end, which the caller fills with new.
Grow(s, p, n, new) ==
  LET bottom == p + size[s]
      off == bottom - base
  IN /\ Room(n)
     /\ ptr' = [t \in Section |-> IF Moves(t, s, bottom) THEN ptr[t] + n
                                  ELSE IF t = s THEN p ELSE ptr[t]]
     /\ size' = [size EXCEPT ![s] = @ + n]
     /\ mem' = [a \in 0 .. total_size + n - 1 |->
                  IF a < off THEN mem[a]
                  ELSE IF a < off + n THEN new[a - off] ELSE mem[a - n]]
     /\ total_size' = total_size + n
     /\ UNCHANGED max_size

\* Mutant: the registered owners are forgotten when a section grows.
GrowData_Stale(s, p, n) == patch_data

\* What Grow does to the registered data.
GrowData(s, p, n) ==
  CalloutRelocData(p + size[s], total_size - (p + size[s] - base), n)

\* grow_syspage_section() by a caller that keeps plain data in the section.
GrowPlain(s, n) ==
  /\ Grow(s, ptr[s], n, [i \in 0 .. n - 1 |-> Data(s, size[s] + i)])
  /\ patch_data' = GrowData(s, ptr[s], n)
  /\ UNCHANGED <<isset, fixed_size>>

\* set_syspage_section(): the section is put behind the ones set before.
Set(s, n, new) ==
  LET p == base + fixed_size
  IN /\ s \notin isset /\ isset' = isset \cup {s}
     /\ fixed_size' = fixed_size + n
     /\ Grow(s, p, n, new)
     /\ patch_data' = GrowData(s, p, n)

\* reloc_syspage_memory(): add_ram() has found room for a larger page.
RelocSyspageMemory ==
  LET diff == TempBase - base
  IN /\ phase = "build" /\ max_size = InitMax /\ base = InitBase
     /\ patch_data' = CalloutRelocData(base, total_size, diff)
     /\ ptr' = [s \in Section |-> ptr[s] + diff]
     /\ max_size' = TempMax
     /\ UNCHANGED <<size, isset, mem, total_size, fixed_size, hooks,
                    smp_spin_vaddr, phase, passVars, allocVars>>

-----------------------------------------------------------------------------
(* The callers                                                             *)

\* grow_syspage_section() for strings, hwinfo, clusters and the like.
GrowSection(s, bytes) ==
  /\ phase \in {"build", "done"}
  /\ GrowPlain(s, Words(bytes))
  /\ UNCHANGED <<hooks, smp_spin_vaddr, phase, passVars, allocVars>>

\* set_syspage_section() for system_private, cpuinfo, qtime and the like.
SetSection(s) ==
  LET n == Words(SetSize[s])
  IN /\ phase = "build"
     /\ Set(s, n, [i \in 0 .. n - 1 |-> Data(s, i)])
     /\ UNCHANGED <<hooks, smp_spin_vaddr, phase, passVars, allocVars>>

\* as_add64()
AsAdd ==
  /\ phase \in {"build", "done"}
  /\ GrowPlain("asinfo", AsSize)
  /\ UNCHANGED <<hooks, smp_spin_vaddr, phase, passVars, allocVars>>

\* add_callout(): also for a slot that has a callout already.
AddCallout(i, r) ==
  LET a == ptr["callout"] + i
  IN /\ phase = "build"
     /\ mem' = [mem EXCEPT ![a - base] = Callout(r)]
     /\ patch_data' = IF i \in DebugSlots
                      THEN RegisterData(patch_data, a, r, DbgDevice)
                      ELSE patch_data
     /\ UNCHANGED <<ptr, size, isset, total_size, fixed_size, max_size, hooks,
                    smp_spin_vaddr, phase, passVars, allocVars>>

\* An output routine puts itself in front of the chain, once.
Hooked(h) == \E i \in 1 .. Len(hooks) : hooks[i] = h

Hook(h) == hooks' = IF Hooked(h) THEN hooks ELSE <<h>> \o hooks

\* An interrupt or a cache entry: its data and its callout.
Entry(s, v, r) == [i \in 0 .. EntrySize - 1 |->
                     IF i = SlotWord THEN Callout(r) ELSE Data(s, v)]

\* add_interrupt()
AddInterrupt(r, d) ==
  LET s == "intrinfo"
      owner == ptr[s] + size[s] + SlotWord
  IN /\ phase = "build"
     /\ Hook(s)
     /\ Grow(s, ptr[s], EntrySize, Entry(s, size[s], r))
     /\ patch_data' = RegisterData(GrowData(s, ptr[s], EntrySize), owner, r, d)
     /\ UNCHANGED <<isset, fixed_size, smp_spin_vaddr, phase, passVars,
                    allocVars>>

\* add_cache_ways(): an entry that is there already is used again.
SameCache(v, r) ==
  LET s == "cacheattr"
      off == ptr[s] - base
  IN \E e \in 0 .. size[s] - 1 :
       /\ e % EntrySize = 0
       /\ mem[off + e] = Data(s, v) /\ mem[off + e + SlotWord] = Callout(r)

AddCache(v, r) ==
  LET s == "cacheattr"
  IN /\ phase = "build"
     /\ Hook(s)
     /\ IF SameCache(v, r) THEN UNCHANGED <<lspVars, patch_data>>
        ELSE /\ Grow(s, ptr[s], EntrySize, Entry(s, v, r))
             /\ patch_data' = GrowData(s, ptr[s], EntrySize)
             /\ UNCHANGED <<isset, fixed_size>>
     /\ UNCHANGED <<smp_spin_vaddr, phase, passVars, allocVars>>

\* init_smp(): the smp section, its send_ipi and the smp_spin callout.
InitSmp(r) ==
  /\ phase = "build"
  /\ Set("smp", 1, [i \in {0} |-> Callout(r)])
  /\ smp_spin_vaddr' = Callout(SmpSpin)
  /\ Hook("smp")
  /\ UNCHANGED <<phase, passVars, allocVars>>

\* A request that does not fit ends in crash(). Requests: the sizes above.
Requests == {EntrySize, AsSize, 1} \cup {Words(SetSize[s]) : s \in Fixed}
            \cup UNION {{Words(b) : b \in GrowSize[s]} : s \in Grown}
GrowCrash(n) ==
  /\ phase \in {"build", "alloc", "done"}
  /\ ~ Room(n)
  /\ phase' = "crash"
  /\ UNCHANGED <<lspVars, dataVars, passVars, allocVars>>

-----------------------------------------------------------------------------
(* alloc_syspage_memory()                                                  *)

\* The slots an output routine visits, in their order.
Spin == <<"smp_spin", 0>>
SlotsOf(h) ==
  CASE h = "callout" -> [i \in 1 .. NumSlots |-> <<h, i - 1>>]
    [] h = "smp"     -> <<Spin, <<h, 0>>>>
    [] OTHER         -> [i \in 1 .. size[h] \div EntrySize |->
                           <<h, (i - 1) * EntrySize + SlotWord>>]

\* output_callouts() calls the routines of the chain, each visits its slots.
StartPass == todo' = hooks /\ at' = 1
Visiting == todo # << >> /\ at <= Len(SlotsOf(Head(todo)))
Slot == SlotsOf(Head(todo))[at]
NextSlot == at' = at + 1 /\ UNCHANGED todo
NextRoutine ==
  /\ phase \in {"size", "write"}
  /\ todo # << >> /\ ~ Visiting
  /\ todo' = Tail(todo) /\ at' = 1
  /\ UNCHANGED <<lspVars, dataVars, phase, rtn_size, rw_size, rw_addrs,
                 callouts_size, allocVars>>

Addr(slot) == IF slot = Spin THEN -1 ELSE ptr[slot[1]] + slot[2]
Word(slot) == IF slot = Spin THEN smp_spin_vaddr ELSE mem[Addr(slot) - base]
IsCallout(w) == w[1] = "rtn"

\* output_callouts(&rwsize)
AllocSyspageMemory ==
  /\ phase = "build" /\ phase' = "size"
  /\ StartPass
  /\ UNCHANGED <<lspVars, dataVars, rtn_size, rw_size, rw_addrs,
                 callouts_size, allocVars>>

\* callout_output_one() of the first pass: the code is added up, and each
\* rw_size word gets its offset once.
SizeOne ==
  LET w == Word(Slot)
      r == w[2]
  IN /\ phase = "size" /\ Visiting
     /\ NextSlot
     /\ IF IsCallout(w)
        THEN /\ rtn_size' = rtn_size + RtnSize[r]
             /\ IF RwOf[r] # NoRw /\ RwOf[r] \notin DOMAIN rw_addrs
                THEN /\ rw_addrs' = [x \in DOMAIN rw_addrs \cup {RwOf[r]} |->
                           IF x = RwOf[r] THEN rw_size ELSE rw_addrs[x]]
                     /\ rw_size' = rw_size + RwSize[RwOf[r]]
                ELSE UNCHANGED <<rw_addrs, rw_size>>
        ELSE UNCHANGED <<rtn_size, rw_addrs, rw_size>>
     /\ UNCHANGED <<lspVars, dataVars, phase, callouts_size, allocVars>>

\* Mutant: no room to spare for asinfo.
SizeDone_NoSlack ==
  /\ phase = "size" /\ todo = << >>
  /\ rw_size' = Round8(rw_size)
  /\ callouts_size' = Round8(rtn_size)
  /\ rtn_size' = 0
  /\ spsize' = RoundPg(8 * total_size + rw_size') + RoundPg(callouts_size')
  /\ phase' = "alloc"
  /\ UNCHANGED <<lspVars, dataVars, todo, at, rw_addrs, splits, out>>

\* The end of the first pass and the size of the allocation: the page, the
\* data of the callouts and four asinfo entries to spare, then the code.
SizeDone ==
  /\ phase = "size" /\ todo = << >>
  /\ rw_size' = Round8(rw_size)
  /\ callouts_size' = Round8(rtn_size)
  /\ rtn_size' = 0
  /\ spsize' = RoundPg(8 * total_size + rw_size' + 8 * 4 * AsSize)
               + RoundPg(callouts_size')
  /\ phase' = "alloc"
  /\ UNCHANGED <<lspVars, dataVars, todo, at, rw_addrs, splits, out>>

\* cpu_alloc_syspage_memory(): calloc_ram() of the page or of a page table
\* splits a "sysram" entry of asinfo.
Split ==
  /\ phase = "alloc" /\ splits < MaxSplits
  /\ splits' = splits + 1
  /\ GrowPlain("asinfo", AsSize)
  /\ UNCHANGED <<hooks, smp_spin_vaddr, phase, passVars, spsize, out>>

\* No growing from here on, and output_callouts(NULL).
Freeze ==
  /\ phase = "alloc" /\ phase' = "write"
  /\ max_size' = HdrSize
  /\ StartPass
  /\ UNCHANGED <<ptr, size, isset, mem, total_size, fixed_size, dataVars,
                 rtn_size, rw_size, rw_addrs, callouts_size, allocVars>>

\* The data registered for the owner of a slot.
PatchData(slot) ==
  LET pds == {pd \in patch_data : pd.owner = Addr(slot)}
  IN IF pds = {} THEN NoData ELSE (CHOOSE pd \in pds : TRUE).data

\* callout_output_one() of the second pass: the code is copied behind what
\* was written before, patched, and the slot gets its address.
WriteOne ==
  LET slot == Slot
      w == Word(slot)
      r == w[2]
      off == IF rtn_size = 0 THEN RoundPg(8 * total_size + rw_size)
             ELSE rtn_size
      rw == IF RwOf[r] = NoRw THEN 0 ELSE rw_addrs[RwOf[r]]
  IN /\ phase = "write" /\ Visiting
     /\ NextSlot
     /\ IF IsCallout(w)
        THEN /\ out' = out \cup {[slot |-> slot, rtn |-> r, off |-> off,
                        rw |-> 8 * total_size + rw,
                        data |-> IF r \in Patched THEN PatchData(slot) ELSE NoData]}
             /\ rtn_size' = off + RtnSize[r]
             /\ IF slot = Spin
                THEN smp_spin_vaddr' = Vaddr(off) /\ UNCHANGED mem
                ELSE /\ mem' = [mem EXCEPT ![Addr(slot) - base] = Vaddr(off)]
                     /\ UNCHANGED smp_spin_vaddr
        ELSE UNCHANGED <<out, rtn_size, mem, smp_spin_vaddr>>
     /\ UNCHANGED <<ptr, size, isset, total_size, fixed_size, max_size,
                    patch_data, hooks, phase, rw_size, rw_addrs,
                    callouts_size, spsize, splits>>

WriteDone ==
  /\ phase = "write" /\ todo = << >>
  /\ phase' = "done"
  /\ UNCHANGED <<lspVars, dataVars, passVars, allocVars>>

Next ==
  \/ RelocSyspageMemory
  \/ \E s \in Grown : \E b \in GrowSize[s] : GrowSection(s, b)
  \/ \E s \in Fixed : SetSection(s)
  \/ AsAdd
  \/ \E i \in 0 .. NumSlots - 1 : \E r \in Rtn \ {SmpSpin} : AddCallout(i, r)
  \/ \E r \in Rtn \ {SmpSpin} : \E d \in IntrData : AddInterrupt(r, d)
  \/ \E v \in CacheAttr : \E r \in Rtn \ {SmpSpin} : AddCache(v, r)
  \/ \E r \in Rtn \ {SmpSpin} : InitSmp(r)
  \/ \E n \in Requests : GrowCrash(n)
  \/ AllocSyspageMemory \/ SizeOne \/ SizeDone \/ Split \/ Freeze
  \/ WriteOne \/ WriteDone \/ NextRoutine

Spec == Init /\ [][Next]_vars

-----------------------------------------------------------------------------
(* Properties                                                              *)

End(s) == ptr[s] + size[s]

TypeOK ==
  /\ ptr \in [Section -> Nat] /\ size \in [Section -> Nat]
  /\ isset \subseteq Settable
  /\ {total_size, fixed_size, max_size, splits} \subseteq Nat
  /\ {rtn_size, rw_size, callouts_size, spsize} \subseteq Nat
  /\ mem \in [0 .. total_size - 1 -> Cell] /\ smp_spin_vaddr \in Cell
  /\ \A pd \in patch_data : pd.owner \in Nat
  /\ phase \in {"build", "size", "alloc", "write", "done", "crash"}

\* The sections never overlap and fill the page without a gap, whatever the
\* order in which callers set and grow them; those that were set lie in
\* front.
Disjoint ==
  \A s, t \in Section : s # t => End(s) <= ptr[t] \/ End(t) <= ptr[s]
Inside == \A s \in Section : base <= ptr[s] /\ End(s) <= base + total_size
FixedFirst ==
  \A s \in Section : IF s \in isset THEN End(s) <= base + fixed_size
                     ELSE base + fixed_size <= ptr[s]
NoGap == \A a \in base .. base + total_size - 1 :
           \E s \in Section : ptr[s] <= a /\ a < End(s)
Layout == Disjoint /\ Inside /\ FixedFirst /\ NoGap

\* A pointer returned by set_syspage_section() stays valid until the page is
\* relocated: init_system_private(), init_smp() and others keep theirs
\* across calls that set and grow other sections.
FixedStay ==
  [][base' = base => \A s \in isset : ptr'[s] = ptr[s]]_vars

\* To its users each section is an array of its own, and patch data stays
\* with its callout.
Contents == [s \in Section |->
               [i \in 0 .. size[s] - 1 |-> mem[ptr[s] - base + i]]]
AllSlots == UNION {{<<s, i>> : i \in 0 .. size[s] - 1} : s \in Section}
Owned == {x \in AllSlots \X patch_data : x[2].owner = Addr(x[1])}
Registered == {<<x[1], x[2].data>> : x \in Owned}
PatchedOut == {o \in out : o.rtn \in Patched /\ o.slot # Spin}
Store == INSTANCE SectionStore WITH
  content <- Contents,
  registered <- Registered,
  patched <- {<<o.slot, o.data>> : o \in PatchedOut}
StoreSpec == Store!Spec

\* The second pass of output_callouts() stays within what the first has
\* measured: the callouts' code begins on a page of its own behind the page
\* and the callouts' data, no two overlap, and all end within the
\* allocation, also when allocating it has made asinfo longer. Two callouts
\* share data exactly if they name the same rw_size word, and the data lies
\* between the copied page and the code.
CalloutsFit ==
  LET start == RoundPg(8 * total_size + rw_size)
      end(o) == o.off + RtnSize[o.rtn]
      rw(o) == RwOf[o.rtn]
      has == {o \in out : rw(o) # NoRw}
      rwend(o) == o.rw + RwSize[rw(o)]
  IN /\ \A o \in out :
          /\ start <= o.off /\ end(o) <= start + callouts_size
          /\ end(o) <= spsize
          /\ \A q \in out : o # q => end(o) <= q.off \/ end(q) <= o.off
     /\ \A o \in has :
          /\ 8 * total_size <= o.rw
          /\ \A q \in out : rwend(o) <= q.off
          /\ \A q \in has : IF rw(o) = rw(q) THEN o.rw = q.rw
                            ELSE rwend(o) <= q.rw \/ rwend(q) <= o.rw

\* Every callout an operation has put into the page is written out: the
\* kernel finds no address of startup's memory in a slot.
AllWritten ==
  phase = "done" => /\ \A a \in DOMAIN mem : ~ IsCallout(mem[a])
                    /\ ~ IsCallout(smp_spin_vaddr)

\* The pass that writes the callouts does what the pass that measured them
\* expected, and leaves none out.
CalloutsRight == CalloutsFit /\ AllWritten
=============================================================================
