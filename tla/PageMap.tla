------------------------------ MODULE PageMap ------------------------------
(***************************************************************************)
(* The page tables that startup builds for the kernel, and the loading of  *)
(* the bootstrap executables into them: aarch64_map.c, init_mmu.c,         *)
(* elf64.c and the callers of aarch64_map(), for an image with the VIRTUAL *)
(* flag (virtual=aarch64le in the build file).                             *)
(*                                                                         *)
(* A page has PageSize units. Pages of 4K have three levels of tables,     *)
(* pages of 64K two; frames are numbered like pages. What is read through  *)
(* the tables is compared with what the callers asked for.                 *)
(***************************************************************************)
EXTENDS Integers, Sequences, FiniteSets

CONSTANTS
  PageSize,     \* units in a page
  NPte4K, NPte64K,       \* NPTE_PTBL, by page size
  Contig4K, Contig64K,   \* CONTIG_PAGES, CONTIG_PAGES_64K
  L1L1, L1L2, L2L2,      \* __L1_L1_IDX, __L1_L2_IDX, __L2_L2_IDX
  UserPages,    \* pages below AARCH64_USER_END
  BasePage,     \* first page of AARCH64_STARTUP_BASE (both page sizes)
  NumCpus,      \* values of num_cpu after init_smp()
  Startup,      \* <<full_image_paddr, startup_size>>
  Pools,        \* sets of frames that may be free at the start
  Files,        \* executables: sequences of PT_LOAD headers
  Callouts,     \* requests of callout_io_map() and callout_memory_map()
  SyspageSize   \* size of system page and cpupages, in units

ASSUME GeometryAssumption ==
  /\ {PageSize, NPte4K, NPte64K, Contig4K, Contig64K, SyspageSize} \subseteq Nat \ {0}
  /\ NPte4K % Contig4K = 0 /\ NPte64K % Contig64K = 0
  /\ {L1L1, L1L2, L2L2} \subseteq 0 .. NPte4K - 1 /\ L1L1 # L1L2
  /\ L1L1 \in 0 .. NPte64K - 1
  /\ UserPages = NPte4K * NPte4K * NPte4K /\ UserPages <= NPte64K * NPte64K
  /\ BasePage \in Nat /\ UserPages <= BasePage

\* What callers and files say of a mapping: rights and kind of memory.
Flags == SUBSET {"w", "x", "u", "nc", "dev"}
\* A program header is that of an ELF file: p_filesz <= p_memsz.
Header == {h \in [vaddr : Nat, paddr : Nat, src : Nat, filesz : Nat, memsz : Nat, flags : Flags] :
             h.filesz <= h.memsz}

ASSUME InputAssumption ==
  /\ NumCpus \subseteq Nat \ {0} /\ Startup \in Nat \X Nat
  /\ Pools \subseteq SUBSET (0 .. UserPages - 1)
  /\ Files \subseteq Seq(Header)
  /\ Callouts \subseteq [paddr : Nat, size : Nat, flags : Flags]

Ram == UNION Pools
Off(a) == a % PageSize
Frame(a) == a \div PageSize

\* Where the image has a segment.
Source(h) == IF h.paddr # 0 THEN h.paddr ELSE h.src
Stored(h) == Source(h) .. Source(h) + h.filesz - 1

\* The files as mkifs puts them into the image: in the first half of the
\* memory modelled, outside the pool, a segment to be used in place with the
\* offset in its page that it is linked at. None is linked into page 0,
\* whose address boot_vaddr_base has before there is any.
ASSUME LayoutAssumption ==
  \A f \in Files : \A s \in DOMAIN f :
    /\ \A u \in Stored(f[s]) : u < UserPages * PageSize /\ Frame(u) \notin Ram
    /\ \A t \in DOMAIN f : s # t => Stored(f[s]) \cap Stored(f[t]) = {}
    /\ f[s].paddr # 0 => Off(f[s].paddr) = Off(f[s].vaddr)
    /\ f[s].vaddr >= PageSize

\* Pages of a segment, and those of startup's identity mapping.
PagesOf(first, end) == Frame(first) .. Frame(end + PageSize - 1) - 1
SegmentPages(h) == PagesOf(h.vaddr, h.vaddr + h.memsz)
StartupPages == PagesOf(Startup[1], Startup[1] + Startup[2])

\* Pages that are given to those who ask for no address: the L0 tables, the
\* system page for the kernel and for users, and the callouts.
CalloutPages(C) == UNION {{q} \X PagesOf(0, q.size + Off(q.paddr)) : q \in C}
AutoCount == 1 + 2 * Cardinality(PagesOf(0, SyspageSize)) + Cardinality(CalloutPages(Callouts))
AutoPages == BasePage .. BasePage + AutoCount - 1

\* Pages of the kernel's half that show tables, by page size.
Shows4K(p) ==
  \/ (p \div (NPte4K * NPte4K)) % NPte4K = L1L1
  \/ (p \div (NPte4K * NPte4K)) % NPte4K = L1L2 /\ (p \div NPte4K) % NPte4K = L2L2
Shows64K(p) == (p \div NPte64K) % NPte64K = L1L1

\* The address space as the build file and the constants of aarch64 lay it
\* out: startup is in the lower half, and executables are linked apart from
\* it, from one another and from the automatic addresses, in a part that
\* shows no tables.
ASSUME SpaceAssumption ==
  /\ IsFiniteSet(CalloutPages(Callouts))
  /\ \A p \in StartupPages : p < UserPages
  /\ \A p \in AutoPages : p < 2 * UserPages /\ ~ Shows4K(p) /\ ~ Shows64K(p)
  /\ \A f \in Files : \A s \in DOMAIN f : \A p \in SegmentPages(f[s]) :
       /\ p < 2 * UserPages /\ p \notin StartupPages \cup AutoPages
       /\ p >= UserPages => ~ Shows4K(p) /\ ~ Shows64K(p)
       /\ \A t \in DOMAIN f : s # t => p \notin SegmentPages(f[t])

VARIABLES
  large,        \* USE_LARGE_PAGE()
  file,         \* the executable in the image
  pc,
  num_cpu,      \* lsp.syspage.p->num_cpu
  ttbr0, L1,    \* frames of L1_ttbr0 and L1_ttbr1
  table,        \* contents of the frames as tables
  ram,          \* contents of the other memory, by unit
  free,         \* frames alloc_ram() can still give
  free_vaddr,
  todo,         \* calls of aarch64_map() to come
  va, end, pte, \* of the call in progress
  k, half,      \* program header at hand, and whether its pages in place are mapped
  boot_vaddr,   \* <<boot_vaddr_base, boot_vaddr_end>>
  asked,        \* callers' calls so far, with the address returned
  mapped        \* what each page was last asked to be, by page

confVars == <<large, file, num_cpu>>
tableVars == <<ttbr0, L1, table, free_vaddr>>
callVars == <<todo, va, end, pte>>
elfVars == <<k, half, boot_vaddr>>
histVars == <<asked, mapped>>
vars == <<confVars, pc, tableVars, ram, free, callVars, elfVars, histVars>>

NPte == IF large THEN NPte64K ELSE NPte4K
ContigPages == IF large THEN Contig64K ELSE Contig4K
Index == 0 .. NPte - 1

TruncPg(a) == (a \div PageSize) * PageSize
RoundPg(a) == TruncPg(a + PageSize - 1)
Base == BasePage * PageSize
UserEnd == UserPages * PageSize

\* __L3_IDX, __L2_IDX and __L1_IDX of a page
L3Idx(p) == p % NPte
L2Idx(p) == (p \div NPte) % NPte
L1Idx(p) == (p \div (NPte * NPte)) % NPte

Anywhere == -1       \* vaddr ~0
NoPte == [pa |-> 0]
Zero == <<"zero">>
Junk == <<"junk">>

EmptyTable == [i \in Index |-> NoPte]

\* Contents of an image unit: unit i of segment s.
ImageUnit(u) ==
  LET hits == {s \in DOMAIN file : u \in Stored(file[s])}
  IN  IF hits = {} THEN Junk
      ELSE LET s == CHOOSE x \in hits : TRUE IN <<s, u - Source(file[s])>>

Init ==
  /\ large \in BOOLEAN /\ file \in Files /\ num_cpu = 1
  /\ pc = "init_smp"
  /\ ttbr0 = 0 /\ L1 = 0 /\ table = [f \in Ram |-> EmptyTable] /\ free_vaddr = Base
  /\ ram = [u \in 0 .. UserEnd - 1 |-> ImageUnit(u)]
  /\ free \in Pools
  /\ todo = << >> /\ va = 0 /\ end = 0 /\ pte = NoPte
  /\ k = 1 /\ half = FALSE /\ boot_vaddr = <<0, 0>>
  /\ asked = {} /\ mapped = [p \in {} |-> NoPte]

-----------------------------------------------------------------------------
(* Memory                                                                  *)

\* set_pte(), for a frame
SetPte(frame, flags) ==
  [pa |-> frame,
   attr |-> [prot |-> flags, ish |-> "dev" \notin flags /\ num_cpu > 1],
   contig |-> FALSE]

TablePte(frame) == SetPte(frame, {"w"})

\* calloc_ram(): the lowest run of n frames, cleared.
Run(f, n) == f .. f + n - 1
Fits(n) == {f \in free : Run(f, n) \subseteq free}
CallocRam(n) == CHOOSE f \in Fits(n) : \A g \in Fits(n) : f <= g
Lowest(S) == CHOOSE f \in S : \A g \in S : f <= g
Cleared(m, frame, n) ==
  [u \in DOMAIN m |-> IF Frame(u) \in Run(frame, n) THEN Zero ELSE m[u]]

\* copy_memory()
Copied(m, dst, src, n) ==
  [u \in DOMAIN m |-> IF u \in Run(dst, n) THEN m[src + (u - dst)] ELSE m[u]]

\* A call of aarch64_map() as its caller makes it.
Call(vaddr, paddr, size, flags) ==
  [vaddr |-> vaddr, paddr |-> paddr, size |-> size, flags |-> flags]

-----------------------------------------------------------------------------
(* main() and init_mmu()                                                   *)

\* init_smp() stores the number of CPUs before there is any page table.
InitSmp ==
  /\ pc = "init_smp" /\ pc' = "init_mmu"
  /\ num_cpu' \in NumCpus
  /\ UNCHANGED <<large, file, tableVars, ram, free, callVars, elfVars, histVars>>

\* The tables aarch64_map_init() starts with: frames t0, t1 and, with 4K
\* pages, t2 for the startup mappings. The recursive entries let the kernel
\* see the tables themselves.
FirstTables(t0, t1, t2) ==
  IF large THEN [table EXCEPT ![t1][L1L1] = TablePte(t1)]
  ELSE [table EXCEPT ![t1] = [EmptyTable EXCEPT ![L1L1] = TablePte(t1),
                                                ![L1L2] = TablePte(t2)],
                     ![t2][L2L2] = TablePte(t1)]

\* There is not enough memory for them and for the L0 tables.
NoFirstTables == Cardinality(free) < IF large THEN 3 ELSE 4

\* aarch64_map_init(), whose last call maps the frame of the L0 tables, and
\* the identity mapping of startup that init_mmu() adds.
AarchMapInit ==
  LET t0 == Lowest(free)
      t1 == Lowest(free \ {t0})
      t2 == Lowest(free \ {t0, t1})
      tables == IF large THEN {t0, t1} ELSE {t0, t1, t2}
      l0 == Lowest(free \ tables)
      start == TruncPg(Startup[1])
  IN  /\ pc = "init_mmu" /\ pc' = "map" /\ ~ NoFirstTables
      /\ ttbr0' = t0 /\ L1' = t1 /\ table' = FirstTables(t0, t1, t2)
      /\ free_vaddr' = Base
      /\ free' = free \ (tables \cup {l0})
      /\ todo' = <<Call(Anywhere, l0 * PageSize, PageSize, {"w"}),
                   Call(start, start, RoundPg(Startup[1] + Startup[2]) - start,
                        {"w", "x"})>>
      /\ UNCHANGED <<confVars, ram, va, end, pte, elfVars, histVars>>

-----------------------------------------------------------------------------
(* aarch64_map()                                                           *)

\* The size in whole pages.
Size(c) == RoundPg(c.size + Off(c.paddr))
Vaddr(c) == IF c.vaddr = Anywhere THEN free_vaddr ELSE c.vaddr
NextFree(c) == IF c.vaddr = Anywhere THEN free_vaddr + Size(c) ELSE free_vaddr
BadCall(c) ==
  LET v == TruncPg(Vaddr(c)) IN
  \/ c.vaddr # Anywhere /\ Off(c.vaddr) # Off(c.paddr)
  \/ v < UserEnd /\ v + Size(c) >= UserEnd
  \/ v >= UserEnd /\ v < Base

\* From the entry of aarch64_map() to its loops.
MapEnter ==
  /\ pc = "map" /\ todo # << >>
  /\ LET c == Head(todo) IN
     /\ pc' = IF BadCall(c) THEN "crashed" ELSE "loop"
     /\ va' = TruncPg(Vaddr(c)) /\ end' = va' + Size(c)
     /\ pte' = SetPte(Frame(c.paddr), c.flags)
     /\ free_vaddr' = NextFree(c)
  /\ UNCHANGED <<confVars, ttbr0, L1, table, ram, free, todo, elfVars, histVars>>

\* USE_CONTIG: a whole group is left, and both addresses are aligned to one.
UseContig ==
  /\ end - va >= ContigPages * PageSize
  /\ Frame(va) % ContigPages = 0 /\ pte.pa % ContigPages = 0

Top(p) == IF p < UserPages THEN ttbr0 ELSE L1

\* Mutant: the table that is there is not used.
NewTable_Always(t, i, fr) == Lowest(fr)
\* A table entry that is empty gets a new table.
NewTable(t, i, fr) == IF table[t][i] = NoPte THEN Lowest(fr) ELSE table[t][i].pa

\* The tables on the way to the L3 entry of page p; L2 is L1 with 64K pages.
L2Of(p) == IF large THEN Top(p) ELSE NewTable(Top(p), L1Idx(p), free)
Path(p) == [l1 |-> Top(p), l2 |-> L2Of(p),
            l3 |-> NewTable(L2Of(p), L2Idx(p), free \ {L2Of(p)})]

\* A table is missing, and there is no memory for it.
NoTable(p) ==
  Cardinality(free) < IF ~ large /\ table[Top(p)][L1Idx(p)] = NoPte THEN 2
                      ELSE IF table[L2Of(p)][L2Idx(p)] = NoPte THEN 1 ELSE 0

\* The group itself, entry by entry.
WriteGroup(L3, i0, n) ==
  [i \in Index |-> IF i \in Run(i0, n)
                   THEN [pte EXCEPT !.pa = @ + (i - i0), !.contig = (n # 1)]
                   ELSE L3[i]]

\* One page, or one contiguous group, with the tables it needs.
MapGroup ==
  /\ pc = "loop" /\ va < end /\ ~ NoTable(Frame(va))
  /\ LET p == Frame(va)
         n == IF UseContig THEN ContigPages ELSE 1
         w == Path(p)
         T1 == IF large THEN table ELSE [table EXCEPT ![w.l1][L1Idx(p)] =
                                           IF @ = NoPte THEN TablePte(w.l2) ELSE @]
         T2 == [T1 EXCEPT ![w.l2][L2Idx(p)] = IF @ = NoPte THEN TablePte(w.l3) ELSE @]
         c == Head(todo)
     IN  /\ table' = [T2 EXCEPT ![w.l3] = WriteGroup(@, L3Idx(p), n)]
         /\ free' = free \ {w.l2, w.l3}
         /\ va' = va + n * PageSize
         /\ pte' = [pte EXCEPT !.pa = @ + n]
         /\ mapped' = [q \in DOMAIN mapped \cup Run(p, n) |->
                         IF q \in Run(p, n)
                         THEN [pa |-> Frame(c.paddr) + (q - Frame(end - Size(c))),
                               flags |-> c.flags]
                         ELSE mapped[q]]
  /\ UNCHANGED <<confVars, pc, ttbr0, L1, free_vaddr, ram, todo, end, elfVars, asked>>

\* The return, with the virtual address of what was asked for.
MapReturn ==
  /\ pc = "loop" /\ va >= end
  /\ pc' = "map" /\ todo' = Tail(todo)
  /\ LET c == Head(todo) IN
     asked' = IF c.vaddr = Anywhere
              THEN asked \cup {[call |-> c, at |-> (end - Size(c)) + Off(c.paddr)]}
              ELSE asked
  /\ UNCHANGED <<confVars, tableVars, ram, free, va, end, pte, elfVars, mapped>>

-----------------------------------------------------------------------------
(* Callers of aarch64_map()                                                *)

Idle == pc = "map" /\ todo = << >>

\* callout_io_map() and callout_memory_map(); each place is mapped once.
CalloutMap(q) ==
  /\ Idle /\ ~ half /\ \A r \in asked : r.call.paddr # q.paddr
  /\ todo' = <<Call(Anywhere, q.paddr, q.size, q.flags)>>
  /\ UNCHANGED <<confVars, pc, tableVars, ram, free, va, end, pte, elfVars, histVars>>

\* load_elf64mmu(): the sizes of segment k as it goes on to use them. Those
\* of a segment without zeroes are rounded, unless it is to be copied and
\* can be written.
Seg == file[k]
Lead == Off(Seg.vaddr)
Whole == Seg.memsz = Seg.filesz /\ ("w" \notin Seg.flags \/ Seg.paddr # 0)
Filesz == IF Whole THEN RoundPg(Seg.filesz + Lead) ELSE Seg.filesz + Lead
Memsz == IF Whole THEN RoundPg(Seg.filesz + Lead) ELSE Seg.memsz + Lead

\* What of it is used in place.
InPlace == TruncPg(Filesz)

\* boot_vaddr_base and boot_vaddr_end
BootRange ==
  LET v == TruncPg(Seg.vaddr)
      e == v + Seg.memsz + Lead
  IN  boot_vaddr' = <<IF boot_vaddr[1] = 0 \/ boot_vaddr[1] > v THEN v ELSE boot_vaddr[1],
                      IF boot_vaddr[2] < e THEN e ELSE boot_vaddr[2]>>

\* A segment that lies in the image: its whole pages are mapped in place.
MapInPlace ==
  /\ Idle /\ k <= Len(file) /\ Seg.paddr # 0 /\ ~ half
  /\ todo' = <<Call(TruncPg(Seg.vaddr), TruncPg(Seg.paddr), InPlace, Seg.flags)>>
  /\ half' = TRUE /\ BootRange
  /\ UNCHANGED <<confVars, pc, tableVars, ram, free, va, end, pte, k, histVars>>

\* The rest of it, with its zeroes, gets memory of its own.
MapRest ==
  /\ Idle /\ half
  /\ LET rest == RoundPg(Memsz - InPlace)
         d == CallocRam(Frame(rest))
     IN  IF rest = 0 THEN UNCHANGED <<todo, ram, free>>
         ELSE /\ Fits(Frame(rest)) # {}
              /\ ram' = Copied(Cleared(ram, d, Frame(rest)), d * PageSize,
                               TruncPg(Seg.paddr) + InPlace, Off(Filesz))
              /\ free' = free \ Run(d, Frame(rest))
              /\ todo' = <<Call(TruncPg(Seg.vaddr) + InPlace, d * PageSize, rest, Seg.flags)>>
  /\ k' = k + 1 /\ half' = FALSE
  /\ UNCHANGED <<confVars, pc, tableVars, va, end, pte, boot_vaddr, histVars>>

\* A segment that is only a part of a file is copied.
CopySegment ==
  /\ Idle /\ k <= Len(file) /\ Seg.paddr = 0
  /\ LET n == Frame(RoundPg(Memsz))
         d == CallocRam(n)
     IN  /\ Fits(n) # {}
         /\ ram' = Copied(Cleared(ram, d, n), d * PageSize, Seg.src - Lead, Filesz)
         /\ free' = free \ Run(d, n)
         /\ todo' = <<Call(TruncPg(Seg.vaddr), d * PageSize, Memsz, Seg.flags)>>
  /\ k' = k + 1 /\ BootRange
  /\ UNCHANGED <<confVars, pc, tableVars, va, end, pte, half, histVars>>

\* cpu_alloc_syspage_memory(): once for the kernel and once for users.
MapSyspage ==
  /\ Idle /\ k = Len(file) + 1
  /\ LET n == Frame(RoundPg(SyspageSize))
         d == CallocRam(n)
     IN  /\ Fits(n) # {}
         /\ ram' = Cleared(ram, d, n) /\ free' = free \ Run(d, n)
         /\ todo' = <<Call(Anywhere, d * PageSize, SyspageSize, {"w", "x"}),
                      Call(Anywhere, d * PageSize, SyspageSize, {"x", "u"})>>
  /\ k' = k + 1
  /\ UNCHANGED <<confVars, pc, tableVars, va, end, pte, half, boot_vaddr, histVars>>

\* Memory that the next segment, or the system page, is to have.
Needed ==
  IF half THEN Memsz - InPlace
  ELSE IF k = Len(file) + 1 THEN SyspageSize
  ELSE IF k <= Len(file) /\ Seg.paddr = 0 THEN Memsz ELSE 0

\* pt_alloc() and cpu_alloc_syspage_memory() stop startup when there is no
\* memory; where calloc_ram() is not checked, the first store faults.
OutOfMemory ==
  /\ \/ pc = "init_mmu" /\ NoFirstTables
     \/ pc = "loop" /\ va < end /\ NoTable(Frame(va))
     \/ Idle /\ Needed # 0 /\ Fits(Frame(RoundPg(Needed))) = {}
  /\ pc' = "crashed"
  /\ UNCHANGED <<confVars, tableVars, ram, free, callVars, elfVars, histVars>>

Next ==
  \/ InitSmp \/ AarchMapInit
  \/ MapEnter \/ MapGroup \/ MapReturn
  \/ \E q \in Callouts : CalloutMap(q)
  \/ MapInPlace \/ MapRest \/ CopySegment \/ MapSyspage \/ OutOfMemory

Spec == Init /\ [][Next]_vars

-----------------------------------------------------------------------------
(* Properties                                                              *)

\* The walk of the hardware, and of elf_vaddr_to_paddr(): the entry for page
\* p, or NoPte. Startup makes no block entries.
Walk(p) ==
  LET e1 == table[Top(p)][L1Idx(p)]
      l2 == IF large THEN Top(p) ELSE e1.pa
      e2 == table[l2][L2Idx(p)]
  IN  IF ~ large /\ e1 = NoPte THEN NoPte
      ELSE IF e2 = NoPte THEN NoPte
      ELSE table[e2.pa][L3Idx(p)]

\* There are tables.
Running == pc \in {"map", "loop", "crashed"} /\ ttbr0 # L1

TypeOK ==
  /\ large \in BOOLEAN /\ file \in Files /\ num_cpu \in NumCpus \cup {1}
  /\ pc \in {"init_smp", "init_mmu", "map", "loop", "crashed"}
  /\ free \subseteq Ram /\ \A f \in Ram : f \in free => table[f] = EmptyTable
  /\ \A f \in Ram : DOMAIN table[f] = Index
  /\ k \in 1 .. Len(file) + 2 /\ half \in BOOLEAN
  /\ free_vaddr % PageSize = 0 /\ va % PageSize = 0

\* Pages that show the tables themselves.
Window(p) ==
  /\ p >= UserPages
  /\ IF large THEN L2Idx(p) = L1L1
     ELSE L1Idx(p) = L1L1 \/ (L1Idx(p) = L1L2 /\ L2Idx(p) = L2L2)

\* The contract of aarch64_map(), which does not look at what is there: the
\* area it is given, and the one it chooses, lies in the space of the tables,
\* shows none of them and was not mapped before.
AreasApart ==
  pc = "loop" => \A p \in Frame(va) .. Frame(end) - 1 :
    p \notin DOMAIN mapped /\ p < 2 * UserPages /\ ~ Window(p)

\* Every page leads to the frame, with the rights, that it was last mapped
\* to, is shareable if there are other CPUs that may use it, and no other
\* page leads anywhere, whatever tables had to be added or were shared; and
\* "to create recursive L2/L3 tables": through the recursive entry of L1 the
\* kernel finds each table at the place that its indices give.
WalkRight ==
  Running => \A p \in 0 .. 2 * UserPages - 1 :
    LET e == Walk(p) IN
    IF ~ Window(p)
    THEN IF p \notin DOMAIN mapped THEN e = NoPte
         ELSE /\ e # NoPte /\ e.pa = mapped[p].pa /\ e.attr.prot = mapped[p].flags
              /\ e.attr.ish = ("dev" \notin mapped[p].flags /\ num_cpu > 1)
    ELSE IF large THEN e = table[L1][L3Idx(p)]
    ELSE L1Idx(p) = L1L1 /\ table[L1][L2Idx(p)] # NoPte
           => e = table[table[L1][L2Idx(p)].pa][L3Idx(p)]

\* The contiguous bit lets the TLB use one entry for the whole group: its
\* pages have it all, are aligned, consecutive and alike.
ContigRight ==
  Running => \A p \in 0 .. 2 * UserPages - 1 :
    LET e == Walk(p)
        first == p - (p % ContigPages)
    IN  ~ Window(p) /\ e # NoPte /\ e.contig =>
          \A q \in Run(first, ContigPages) :
            LET g == Walk(q) IN
            /\ g # NoPte /\ g.contig /\ g.attr = e.attr
            /\ g.pa = e.pa + (q - p) /\ g.pa % ContigPages = q % ContigPages

Trans(v) == LET e == Walk(Frame(v)) IN
            IF e = NoPte THEN -1 ELSE e.pa * PageSize + Off(v)

\* An address that aarch64_map() has chosen shows the caller all that it
\* asked for, and goes on doing so.
AskedRight ==
  \A r \in asked : \A i \in 0 .. r.call.size - 1 :
    Trans(r.at + i) = r.call.paddr + i

\* A loaded segment has the contents of the file, then zeroes, and its own
\* rights, wherever its pages came from; and the kernel is told a range that
\* includes it.
ElfRight ==
  Idle => \A s \in 1 .. Len(file) : s < k =>
    /\ \A i \in 0 .. file[s].memsz - 1 :
         LET v == file[s].vaddr + i IN
         /\ Trans(v) # -1 /\ Walk(Frame(v)).attr.prot = file[s].flags
         /\ ram[Trans(v)] = IF i < file[s].filesz THEN <<s, i>> ELSE Zero
    /\ boot_vaddr[1] <= file[s].vaddr /\ file[s].vaddr + file[s].memsz <= boot_vaddr[2]

\* What is read through the tables is what the callers asked for.
TablesRight == Running => TypeOK /\ WalkRight /\ ContigRight /\ AskedRight
=============================================================================
