---------------------------- MODULE RamManager ----------------------------
(***************************************************************************)
(* ram.c: the list of free RAM, the list of memory startup must avoid, and *)
(* the "sysram" entries of the address space section that tell the kernel  *)
(* what is left. Addresses count units of which PageSize make a page.      *)
(***************************************************************************)
EXTENDS Integers, Sequences, SequencesExt

CONSTANTS
  PageSize,      \* units in a page
  FullRamPaddr,  \* where the image is in RAM
  StartupSize,   \* the part of it that is startup
  RamSize,       \* all of it
  TempSize,      \* TEMP_SYSPAGE_SIZE
  MaxRamList,    \* entries of the RAM list, terminator included
  MaxAvoidList,  \* entries of the avoid list, terminator included
  Bank,          \* RAM banks <<start, size>>
  Resmem,        \* -r options <<start, size>>
  AllocReq,      \* calls of alloc_ram(NULL_PADDR): <<size, align>>
  WsReq,         \* calls of ws_alloc: sizes
  ReserveReq,    \* -R options <<size, align, low_region>>
  Limit,         \* the mitigation page lies below
  MaxGiven       \* bound on the blocks handed out in a behaviour

Units(s, e) == s .. e - 1
Block(b) == Units(b[1], b[1] + b[2])
Image == Units(FullRamPaddr + StartupSize, FullRamPaddr + RamSize)

ASSUME SizesAssumption ==
  /\ {PageSize, TempSize, MaxRamList} \subseteq Nat \ {0}
  /\ MaxAvoidList \in Nat /\ MaxAvoidList > 2
  /\ FullRamPaddr \in Nat \ {0} /\ RamSize \in Nat /\ StartupSize \in 1 .. RamSize
  /\ MaxGiven \in Nat /\ Limit \in Nat
ASSUME BanksAssumption ==
  /\ Bank \cup Resmem \subseteq (Nat \ {0}) \X (Nat \ {0})
  /\ \A a, b \in Bank : a # b => Block(a) \cap Block(b) = {}
ASSUME RequestsAssumption ==
  /\ AllocReq \subseteq (Nat \ {0}) \X (Nat \ {0}) /\ WsReq \subseteq Nat \ {0}
  /\ ReserveReq \subseteq Nat \X Nat \X BOOLEAN

VARIABLES
  ram_list,       \* free RAM: sequence of [addr, size]
  avoid_list,     \* sequence of [start, end]
  ws_early_next,  \* workspace while no RAM is known
  temp_syspage,   \* the temporary system page, or NullPaddr
  sysram_added,
  ram,            \* "ram" entries of asinfo: sequence of [start, end]
  sysram,         \* "sysram" entries: sequence of [start, end], ends included
  resmem,         \* -r options: those avoided, and those allocated as well
  given,          \* blocks handed out: sequence of [s, e, kind]
  crashed

vars == <<ram_list, avoid_list, ws_early_next, temp_syspage, sysram_added,
          ram, sysram, resmem, given, crashed>>

NullPaddr == -1

Round(a, align) == ((a + align - 1) \div align) * align
Trunc(a, align) == (a \div align) * align

-----------------------------------------------------------------------------
(* The lists                                                               *)

End(r) == r.addr + r.size

\* One step of add_mem()'s second loop: entry r either touches the one
\* before it and is merged into it, or stays.
Merge(l, r) ==
  IF l # << >> /\ r.addr <= End(Last(l))
  THEN LET e == IF End(r) > End(Last(l)) THEN End(r) ELSE End(Last(l)) IN
       Append(Front(l), [addr |-> Last(l).addr, size |-> e - Last(l).addr])
  ELSE Append(l, r)

\* add_mem(): insert before the first entry at a higher address, then merge.
AddMem(l, r) ==
  LET i == SelectInSeq(l, LAMBDA x : x.addr > r.addr) IN
  IF r.size = 0 THEN l
  ELSE FoldLeft(Merge, << >>, IF i = 0 THEN Append(l, r) ELSE InsertAt(l, i, r))

RamOverflow(l) == Len(l) + 1 > MaxRamList - 1

\* avoid_ram(): extends the last entry or appends one.
AvoidRam(l, start, size) ==
  IF Last(l).end = start
  THEN Append(Front(l), [Last(l) EXCEPT !.end = @ + size])
  ELSE Append(l, [start |-> start, end |-> start + size])

AvoidOverflow(l) == Len(l) + 1 > MaxAvoidList

\* Mutant: the avoided range in the middle of a block is overlooked.
FixSize_NoMiddle(se, a) ==
  IF se = << >> \/ se[1] >= a.end \/ se[2] <= a.start THEN se
  ELSE IF se[1] >= a.start
       THEN IF se[2] <= a.end THEN << >> ELSE <<a.end, se[2]>>
       ELSE IF se[2] < a.end THEN <<se[1], a.start>> ELSE se

\* fix_size(): what an avoided range leaves of the block se, the empty
\* sequence if nothing; of two pieces the larger is kept.
FixSize(se, a) ==
  IF se = << >> \/ se[1] >= a.end \/ se[2] <= a.start THEN se
  ELSE IF se[1] >= a.start
       THEN IF se[2] <= a.end THEN << >> ELSE <<a.end, se[2]>>
       ELSE IF se[2] < a.end \/ a.start - se[1] > se[2] - a.end
            THEN <<se[1], a.start>> ELSE <<a.end, se[2]>>

Usable(r, av) == FoldLeft(FixSize, <<r.addr, End(r)>>, av)

\* find_ram() and find_ram_in_range(), with the mask and colour 0 of all
\* callers: the first entry with room, or NullPaddr.
FindRam(l, av, size, align) ==
  LET At(r) == Round(Usable(r, av)[1], align)
      Fits(r) == LET se == Usable(r, av) IN
                 se # << >> /\ At(r) < se[2] /\ size <= se[2] - At(r)
      i == SelectInSeq(l, Fits)
  IN IF i = 0 THEN NullPaddr ELSE At(l[i])

\* One entry of the search from the top, t being what it has found so far:
\* the entry's highest place that is higher, unless the limit cuts it.
HigherIn(t, r, av, size, align, limit) ==
  LET se == Usable(r, av)
      chk == IF align = 0 THEN se[2] - size ELSE Trunc(se[2] - size, align)
  IN IF t.stop \/ se = << >> THEN t
     ELSE IF se[2] - se[1] < size \/ chk < se[1] \/ chk <= t.top THEN t
     ELSE IF limit = NullPaddr \/ chk + size < limit
          THEN [top |-> chk, stop |-> FALSE]
     ELSE [top |-> IF limit - size < se[1] THEN t.top ELSE limit - size,
           stop |-> TRUE]

\* find_top_ram_aligned_limit(): the last block below the limit; the search
\* stops at the entry that crosses the limit. No limit is NullPaddr, the
\* largest unsigned number.
FindTopRam(l, av, reqsize, align, pagesize, limit) ==
  LET size == Round(reqsize, pagesize)
      top == FoldLeft(LAMBDA t, r : HigherIn(t, r, av, size, align, limit),
                      [top |-> 0, stop |-> FALSE], l).top
  IN IF (limit # NullPaddr /\ limit < reqsize) \/ top = 0 THEN NullPaddr ELSE top

\* Whether alloc_ram() takes [addr, end) to meet entry r.
Meets(r, addr, end) ==
  \/ addr <= r.addr /\ end > r.addr
  \/ addr >= r.addr /\ addr < End(r)
  \/ end >= r.addr /\ end < End(r)
Nothing == [addr |-> 0, size |-> 0]

\* Mutant: the part behind the allocated block is lost.
Cut_NoTail(r, addr, end) ==
  LET s == IF addr < r.addr THEN addr ELSE r.addr
      e == IF end > End(r) THEN end ELSE End(r)
  IN IF ~ Meets(r, addr, end) THEN <<r, Nothing>>
     ELSE IF addr = s /\ end = e THEN <<Nothing, Nothing>>
     ELSE IF addr = s THEN <<[addr |-> end, size |-> e - end], Nothing>>
     ELSE <<[addr |-> s, size |-> addr - s], Nothing>>

\* alloc_ram()'s loop over the RAM list: what is left of entry r before and
\* behind [addr, end) when that is taken out.
Cut(r, addr, end) ==
  LET s == IF addr < r.addr THEN addr ELSE r.addr
      e == IF end > End(r) THEN end ELSE End(r)
  IN IF ~ Meets(r, addr, end) THEN <<r, Nothing>>
     ELSE IF addr = s /\ end = e THEN <<Nothing, Nothing>>
     ELSE IF addr = s THEN <<[addr |-> end, size |-> e - end], Nothing>>
     ELSE <<[addr |-> s, size |-> addr - s], [addr |-> end, size |-> e - end]>>

\* The pieces go back through add_mem().
TakeOut(l, addr, end) ==
  FoldLeft(LAMBDA acc, r : AddMem(AddMem(acc, Cut(r, addr, end)[1]), Cut(r, addr, end)[2]),
           << >>, l)

Splits(l, addr, end) == \E i \in 1 .. Len(l) : l[i].addr < addr /\ end < End(l[i])

Overlaps(as, addr, last) == as.start <= last /\ addr <= as.end

\* What alloc_ram() leaves of the "sysram" entry as in its place when the
\* block up to last is taken, and the entry it adds for the part behind.
Head1(as, addr, last) ==
  IF ~ Overlaps(as, addr, last) THEN as
  ELSE IF addr <= as.start THEN [as EXCEPT !.start = last + 1]
  ELSE [as EXCEPT !.end = addr - 1]
Tail1(acc, as, addr, last) ==
  IF as.start < addr /\ last < as.end
  THEN Append(acc, [start |-> last + 1, end |-> as.end]) ELSE acc

TakeOutAs(l, addr, last) ==
  FoldLeft(LAMBDA acc, as : Tail1(acc, as, addr, last),
           [i \in 1 .. Len(l) |-> Head1(l[i], addr, last)], l)

\* "Can't remove whole sysram entry"
WholeAs(l, addr, last) ==
  \E i \in 1 .. Len(l) : Overlaps(l[i], addr, last) /\ addr <= l[i].start /\ l[i].end <= last

-----------------------------------------------------------------------------
(* Operations                                                              *)

\* ws_init(), called for the first block of workspace: the avoid list and
\* the RAM list lie one after the other behind the image.
Init ==
  /\ ws_early_next = FullRamPaddr + RamSize + 2
  /\ avoid_list = <<[start |-> FullRamPaddr + RamSize, end |-> ws_early_next],
                    [start |-> FullRamPaddr, end |-> FullRamPaddr + StartupSize]>>
  /\ ram_list = << >> /\ temp_syspage = NullPaddr /\ sysram_added = FALSE
  /\ ram = << >> /\ sysram = << >> /\ resmem = [avoided |-> {}, allocated |-> {}]
  /\ given = << >> /\ crashed = FALSE

Give(s, size, kind) == given' = Append(given, [s |-> s, e |-> s + size, kind |-> kind])

Crash == /\ crashed' = TRUE
         /\ UNCHANGED <<ram_list, avoid_list, ws_early_next, temp_syspage,
                        sysram_added, ram, sysram, resmem, given>>

\* alloc_ram(addr, size) on the lists.
TakeRam(addr, size) ==
  /\ ram_list' = TakeOut(ram_list, addr, addr + size)
  /\ sysram' = IF sysram_added THEN TakeOutAs(sysram, addr, addr + size - 1)
                               ELSE sysram
AllocCrashes(addr, size) ==
  \/ Splits(ram_list, addr, addr + size) /\ RamOverflow(ram_list)
  \/ sysram_added /\ WholeAs(sysram, addr, addr + size - 1)

\* avoid_ram() for a -r option, from handle_common_option().
OptionAvoid(b) ==
  /\ ~ crashed /\ ram = << >> /\ b \notin resmem.avoided
  /\ IF AvoidOverflow(AvoidRam(avoid_list, b[1], b[2])) THEN Crash
     ELSE /\ avoid_list' = AvoidRam(avoid_list, b[1], b[2])
          /\ resmem' = [resmem EXCEPT !.avoided = @ \cup {b}]
          /\ UNCHANGED <<ram_list, ws_early_next, temp_syspage, sysram_added,
                         ram, sysram, given, crashed>>

\* add_ram(): the bank less the image is free; the first time there is room
\* the temporary system page is found and avoided.
AddRam(b) ==
  LET more == AddMem(ram_list, [addr |-> b[1], size |-> b[2]])
      l == TakeOut(more, FullRamPaddr + StartupSize, FullRamPaddr + RamSize)
      t == IF temp_syspage = NullPaddr
           THEN FindRam(l, avoid_list, TempSize, PageSize) ELSE NullPaddr
  IN
  /\ ~ crashed /\ ~ sysram_added
  /\ \A i \in 1 .. Len(ram) : ram[i].start # b[1]
  /\ IF \/ RamOverflow(ram_list)
        \/ Splits(more, FullRamPaddr + StartupSize, FullRamPaddr + RamSize) /\ RamOverflow(more)
        \/ t # NullPaddr /\ AvoidOverflow(AvoidRam(avoid_list, t, TempSize))
     THEN Crash
     ELSE /\ ram_list' = l
          /\ ram' = Append(ram, [start |-> b[1], end |-> b[1] + b[2] - 1])
          /\ IF t = NullPaddr THEN UNCHANGED <<avoid_list, temp_syspage, given>>
             ELSE /\ avoid_list' = AvoidRam(avoid_list, t, TempSize)
                  /\ temp_syspage' = t
                  /\ Give(t, TempSize, "ws")
          /\ UNCHANGED <<ws_early_next, sysram_added, sysram, resmem, crashed>>

\* alloc_ram(NULL_PADDR, size, align) and calloc_ram(); without room they
\* return NULL_PADDR and change nothing.
AllocRam(q) ==
  LET a == FindRam(ram_list, avoid_list, q[1], q[2]) IN
  /\ ~ crashed /\ ram # << >> /\ Len(given) < MaxGiven /\ a # NullPaddr
  /\ IF AllocCrashes(a, q[1]) THEN Crash
     ELSE /\ TakeRam(a, q[1])
          /\ Give(a, q[1], "alloc")
          /\ UNCHANGED <<avoid_list, ws_early_next, temp_syspage,
                         sysram_added, ram, resmem, crashed>>

\* alloc_ram() for a -r option, from jtag_reserve_memory().
OptionAlloc(b) ==
  /\ ~ crashed /\ ~ sysram_added /\ ram # << >>
  /\ b \in resmem.avoided \ resmem.allocated
  /\ IF AllocCrashes(b[1], b[2]) THEN Crash
     ELSE /\ TakeRam(b[1], b[2])
          /\ resmem' = [resmem EXCEPT !.allocated = @ \cup {b}]
          /\ UNCHANGED <<avoid_list, ws_early_next, temp_syspage,
                         sysram_added, ram, given, crashed>>

\* ws_alloc(): behind the image while the RAM list is empty, else found. The
\* list can be empty again after add_ram(); such a block is a stray one.
WsAlloc(size) ==
  LET early == Len(ram_list) = 0
      a == IF early THEN ws_early_next ELSE FindRam(ram_list, avoid_list, size, 1)
  IN
  /\ ~ crashed /\ Len(given) < MaxGiven /\ a # NullPaddr
  /\ IF AvoidOverflow(AvoidRam(avoid_list, a, size)) THEN Crash
     ELSE /\ ws_early_next' = IF early THEN ws_early_next + size ELSE ws_early_next
          /\ avoid_list' = AvoidRam(avoid_list, a, size)
          /\ Give(a, size, IF ~ early THEN "ws" ELSE IF ram = << >> THEN "early" ELSE "stray")
          /\ UNCHANGED <<ram_list, temp_syspage, sysram_added, ram, sysram,
                         resmem, crashed>>

\* reserve_ram(): from the top of memory unless a low region is asked for.
ReserveRam(q) ==
  LET align == IF q[2] = 0 THEN PageSize ELSE q[2]
      a == IF q[3] THEN FindRam(ram_list, avoid_list, q[1], align)
           ELSE FindTopRam(ram_list, avoid_list, q[1], align, PageSize, NullPaddr)
  IN
  /\ ~ crashed /\ ~ sysram_added /\ ram # << >> /\ Len(given) < MaxGiven
  /\ q[1] > 0
  /\ IF a = NullPaddr \/ AllocCrashes(a, q[1]) THEN Crash
     ELSE /\ TakeRam(a, q[1])
          /\ Give(a, q[1], "reserved")
          /\ UNCHANGED <<avoid_list, ws_early_next, temp_syspage,
                         sysram_added, ram, resmem, crashed>>

\* init_mitigation_mem(): a page below Limit, 1 << 39 in the code.
InitMitigationMem ==
  LET a == FindTopRam(ram_list, avoid_list, PageSize, PageSize, PageSize, Limit) IN
  /\ ~ crashed /\ ~ sysram_added /\ ram # << >> /\ Len(given) < MaxGiven
  /\ IF a = NullPaddr \/ AllocCrashes(a, PageSize) THEN Crash
     ELSE /\ TakeRam(a, PageSize)
          /\ Give(a, PageSize, "mitigation")
          /\ UNCHANGED <<avoid_list, ws_early_next, temp_syspage,
                         sysram_added, ram, resmem, crashed>>

\* as_add_containing() of a free range: one piece for each "ram" entry.
AddPiece(acc, as, r) ==
  IF Overlaps(as, r.addr, End(r) - 1)
  THEN Append(acc, [start |-> IF as.start > r.addr THEN as.start ELSE r.addr,
                    end |-> IF as.end < End(r) - 1 THEN as.end ELSE End(r) - 1])
  ELSE acc
AddContaining(acc, r, container) ==
  FoldLeft(LAMBDA a, as : AddPiece(a, as, r), acc, container)

\* add_sysram(): all free RAM is listed for the kernel.
AddSysram ==
  /\ ~ crashed /\ ~ sysram_added /\ ram # << >>
  /\ sysram' = FoldLeft(LAMBDA acc, r : AddContaining(acc, r, ram), << >>, ram_list)
  /\ sysram_added' = TRUE
  /\ UNCHANGED <<ram_list, avoid_list, ws_early_next, temp_syspage, ram,
                 resmem, given, crashed>>

Next ==
  \/ \E b \in Resmem : OptionAvoid(b) \/ OptionAlloc(b)
  \/ \E b \in Bank : AddRam(b)
  \/ \E q \in AllocReq : AllocRam(q)
  \/ \E n \in WsReq : WsAlloc(n)
  \/ \E q \in ReserveReq : ReserveRam(q)
  \/ InitMitigationMem
  \/ AddSysram

Spec == Init /\ [][Next]_vars

-----------------------------------------------------------------------------
(* Properties                                                              *)

SetOf(s) == {s[i] : i \in 1 .. Len(s)}
Given(i) == Units(given[i].s, given[i].e)
Free == UNION {Units(r.addr, End(r)) : r \in SetOf(ram_list)}
Added == UNION {as.start .. as.end : as \in SetOf(ram)}
Avoided == UNION {Units(a.start, a.end) : a \in SetOf(avoid_list)}
Sysram == UNION {as.start .. as.end : as \in SetOf(sysram)}
FoundKinds == {"alloc", "ws", "reserved", "mitigation"}
Found == {i \in 1 .. Len(given) : given[i].kind \in FoundKinds}

\* The lists hold non-empty ranges and stay within the room they have.
TypeOK ==
  /\ \A r \in SetOf(ram_list) : r.addr \in Nat /\ r.size \in Nat \ {0}
  /\ \A a \in SetOf(avoid_list) : a.start \in Nat /\ a.end \in Nat \ {0}
  /\ Len(ram_list) + 1 <= MaxRamList /\ Len(avoid_list) + 1 <= MaxAvoidList
  /\ ws_early_next \in Nat /\ temp_syspage \in Int
  /\ {sysram_added, crashed} \subseteq BOOLEAN
  /\ resmem.avoided \cup resmem.allocated \subseteq Nat \X Nat

\* However banks, options and allocations cut and join the entries, the RAM
\* list stays ascending with no two entries touching, as the searches and
\* the merging in add_mem() need it, and no unit of memory is lost or
\* invented: what is free was added and not handed out, and what was added
\* is free, handed out, reserved with -r or part of the image.
Allocated == UNION {Given(i) : i \in {j \in Found : given[j].kind # "ws"}}
Conserved ==
  /\ \A i \in 1 .. Len(ram_list) - 1 : End(ram_list[i]) < ram_list[i + 1].addr
  /\ Free \subseteq Added \ (Image \cup Allocated)
  /\ Added \subseteq Free \cup Image \cup Allocated
                     \cup UNION {Block(b) : b \in resmem.allocated}

\* The kernel is told of all free RAM and of no other, also after later
\* allocations have cut the "sysram" entries.
SysramIsFree == sysram_added => Sysram = Free

\* Startup and the kernel agree on what memory there is and who has it.
MemoryExact == TypeOK /\ Conserved /\ SysramIsFree

\* What RamPool calls firm: memory that is taken before it can be in a list.
Firm == Units(FullRamPaddr + RamSize, FullRamPaddr + RamSize + 2)
        \cup Units(FullRamPaddr, FullRamPaddr + StartupSize)
        \cup (UNION {Block(b) : b \in resmem.avoided})
        \cup (UNION {Given(i) : i \in {j \in 1 .. Len(given) : given[j].kind = "early"}})
\* "reserve user-specified memory from asinfo": memory reserved with -r is
\* not listed as "sysram".
ResmemNotSysram ==
  sysram_added => \A b \in resmem.allocated : Block(b) \cap Sysram = {}
=============================================================================
