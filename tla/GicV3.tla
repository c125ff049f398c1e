------------------------------- MODULE GicV3 -------------------------------
(***************************************************************************)
(* The GICv3 driver of startup and the callouts it leaves in the system    *)
(* page, with the ITS of module Its: the interrupt entries a board adds,   *)
(* gic_v3_initialize, gic_v3_gicc_init on each CPU in turn, then the       *)
(* kernel identifies, masks, unmasks and ends SGIs, PPIs, SPIs, extended   *)
(* SPIs and LPIs, and sends IPIs, through system registers or through      *)
(* memory-mapped ones.                                                     *)
(***************************************************************************)
EXTENDS Its

CONSTANTS
  CpuAff,     \* MPIDR affinity of each CPU: <<aff0, aff1, aff2, aff3>>
  ITLines,    \* GICD_TYPER.ITLinesNumber
  EspiLines,  \* GICD_TYPER: registers of extended SPIs, 0 without them
  NumLpiBits, \* GICD_TYPER: num_LPIs, 0 without LPIs
  Ppi, Spi, Espi,  \* the interrupts in use
  Boards,     \* boards: their hardware, what firmware left, and the calls
              \* their init_intrinfo() makes, in order
  Cmd,        \* IPI commands
  MaxRaise,   \* bound on the device interrupts of a behaviour
  MaxAsk      \* bound on the mask and unmask requests of drivers

SpiBase  == 32
EspiBase == 4096
Ipi      == 0
Spurious == 1023
MaxEntries == 16

\* What gic_v3_spi_add_entry() and its sisters are given, and the calls
\* init_intrinfo() can make with values the functions have room for.
Entry == [base : Nat, num : Nat, msi : BOOLEAN]
Classes == {"spi", "espi", "lpi"}
BoardCall ==
  ({"paddr", "mm"} \X BOOLEAN) \cup (Classes \X Entry)
  \cup ({"its"} \X {"dt_page", "ct_page"} \X PageSizes)
  \cup ({"its"} \X {"dt_attr", "ct_attr", "q_attr"} \X Attr)
  \cup ({"its"} \X {"ct_ids", "q_pages"} \X (Nat \ {0}))
  \cup ({"trig"} \X Nat \X BOOLEAN) \cup {<<"initialize">>}

ASSUME GicV3Assumption ==
  \* the fields of GICD_TYPER have five bits
  /\ ITLines \in 0 .. 31 /\ EspiLines \in 0 .. 32 /\ NumLpiBits \in 0 .. 31
  /\ CpuAff \in [CPU -> Seq(0 .. 255)] /\ \A c \in CPU : Len(CpuAff[c]) = 4
  /\ \A b \in Boards :
       /\ {b.sre, b.pta, b.settable, b.touched} \subseteq BOOLEAN
       /\ b.calls \in Seq(BoardCall)
       /\ DOMAIN b.gicr_aff = Gicr
       /\ \A c \in CPU : \E i \in Gicr : b.gicr_aff[i] = CpuAff[c]
       /\ \A i, j \in Gicr : b.gicr_aff[i] = b.gicr_aff[j] => i = j
  /\ Ppi \subseteq 16 .. 31 /\ Spi \subseteq SpiBase .. 1019
  /\ Espi \subseteq EspiBase .. EspiBase + 1023
  /\ MaxRaise \in Nat /\ MaxAsk \in Nat

VARIABLES
  phase,      \* "reset", "setup", "cpus", "run"; "crash" when ASSERT fails
  sre,        \* the CPUs have the system register interface
  gicr_aff,   \* GICR_TYPER: the affinity of each frame
  calls,      \* the calls init_intrinfo() has yet to make
  gicc,       \* the address of the GICC is known
  mm,         \* use_memory_mapped_callouts
  entries,    \* spi_, espi_ and lpi_intrinfo
  num_lpis,   \* lpi_params.num_lpis
  edge,       \* ICFGR
  grp1, route,    \* interrupts in group 1, and what they are routed to
  enabled, pending, active,  \* distributor and redistributor state
  asleep,     \* GICR_WAKER: frames asleep
  up, bootcpu, loop,  \* gic_v3_gicc_init: CPUs done, the one at work, polls
  lpi_on,     \* GICR_CTLR.EnableLPIs
  gicr_idx, gic_map,  \* system page: frame and IPI target of each CPU
  sgi,        \* CPUs with SGI 0 pending
  pc, x24, x19, x3, op,  \* where each CPU is, its registers and LPI request
  ipicmds, x1, dst, w7,  \* the kernel's command words and sendipi's values
  unmasked,   \* interrupts the kernel has unmasked
  raised, asked  \* interrupts raised and requests made so far

hwVars    == <<sre, gicr_aff>>
entryVars == <<entries, num_lpis>>
setupVars == <<hwVars, calls, gicc, mm, entryVars>>
distVars  == <<edge, grp1, route>>
lineVars  == <<enabled, pending, active>>
bootVars  == <<asleep, up, bootcpu, loop, lpi_on, gicr_idx, gic_map>>
cpuVars   == <<pc, x24, x19, x3, op>>
sendVars  == <<ipicmds, x1, dst, w7>>
vars == <<itsVars, phase, setupVars, distVars, lineVars, bootVars, sgi,
          cpuVars, sendVars, unmasked, raised, asked>>

\* Private interrupts have a line in every redistributor frame.
Line(i, id) == IF id < SpiBase THEN <<i, id>> ELSE <<None, id>>
SpiLines  == {Line(0, id) : id \in Spi \cup Espi}
PpiLines(i) == {Line(i, id) : id \in Ppi}
AllLines == SpiLines \cup UNION {PpiLines(i) : i \in Gicr}
Shared == Spi \cup Espi

NoIpiTarget == [list |-> {}, rs |-> 0, aff |-> <<>>]

\* Firmware leaves the GIC alone, or interrupts enabled and pending, the
\* frames asleep, the ITS on and extended SPIs in group 0.
Init ==
  /\ \E b \in Boards :
       /\ ItsInit(b)
       /\ sre = b.sre /\ gicr_aff = b.gicr_aff /\ calls = b.calls
       /\ enabled = IF b.touched THEN AllLines ELSE {}
       /\ pending = enabled
       /\ asleep = IF b.touched THEN Gicr ELSE {}
       /\ grp1 = IF b.touched THEN {} ELSE Espi
  /\ phase = "reset" /\ gicc = FALSE /\ mm = FALSE
  /\ entries = [cls \in Classes |-> <<>>] /\ num_lpis = 0 /\ edge = {} /\ route = <<>>
  /\ active = [c \in CPU |-> {}]
  /\ up = {} /\ bootcpu = None /\ loop = 0
  /\ lpi_on = {} /\ gicr_idx = [c \in CPU |-> None]
  /\ gic_map = [c \in CPU |-> NoIpiTarget] /\ sgi = {}
  /\ pc = [c \in CPU |-> "idle"] /\ x24 = [c \in CPU |-> Spurious]
  /\ x19 = [c \in CPU |-> None] /\ x3 = [c \in CPU |-> 0]
  /\ op = [c \in CPU |-> <<0, FALSE>>]
  /\ ipicmds = [c \in CPU |-> {}] /\ x1 = [c \in CPU |-> NoIpiTarget]
  /\ dst = [c \in CPU |-> c] /\ w7 = [c \in CPU |-> {}]
  /\ unmasked = {} /\ raised = 0 /\ asked = 0

-----------------------------------------------------------------------------
(* Set-up by the board                                                     *)

Call(f) == calls # <<>> /\ Head(calls)[1] = f /\ calls' = Tail(calls)
Arg(k) == Head(calls)[k + 1]

\* gic_v3_set_paddr_range(): once; the ITS address with the others.
SetPaddrRange ==
  /\ Call("paddr") /\ phase = "reset" /\ phase' = "setup"
  /\ IF Arg(1) THEN ItsSetPaddr ELSE UNCHANGED its_params
  /\ UNCHANGED <<its_hw, tables, its_on, stalled, stalls, qVars, mapped, lock,
                 cfg, cached, hwVars, gicc, mm, entryVars, distVars,
                 lineVars, bootVars, sgi, cpuVars, sendVars, unmasked, raised, asked>>

Setup == phase = "setup"

\* gic_v3_use_mm_reg_callouts().
UseMmRegCallouts ==
  /\ Call("mm") /\ Setup
  /\ gicc' = TRUE /\ mm' = Arg(1)
  /\ UNCHANGED <<itsVars, phase, hwVars, entryVars, distVars, lineVars,
                 bootVars, sgi, cpuVars, sendVars, unmasked, raised, asked>>

SetItsParams ==
  /\ Call("its") /\ Setup
  /\ ItsSet(Arg(1), Arg(2))
  /\ UNCHANGED <<its_hw, tables, its_on, stalled, stalls, qVars, mapped, lock,
                 cfg, cached, phase, hwVars, gicc, mm, entryVars, distVars,
                 lineVars, bootVars, sgi, cpuVars, sendVars, unmasked, raised,
                 asked>>

\* gic_v3_num_spis(), gic_v3_num_espis(), gic_v3_num_lpis().
NumSpis  == IF (ITLines + 1) * 32 > 1020 THEN 1020 - SpiBase ELSE ITLines * 32
NumEspis == 32 * EspiLines
NumLpis  == IF NumLpiBits = 0 THEN 0 ELSE 2 ^ (NumLpiBits + 1)

Base(cls) == CASE cls = "spi" -> SpiBase [] cls = "espi" -> EspiBase
               [] cls = "lpi" -> LpiBase
Count(cls) == CASE cls = "spi" -> NumSpis [] cls = "espi" -> NumEspis
                [] cls = "lpi" -> NumLpis
Vectors(e) == e.base .. e.base + e.num - 1

\* The assertions at the head of the three functions.
Legal(cls, e) ==
  /\ Len(entries[cls]) < MaxEntries
  /\ e.base >= Base(cls) /\ e.base + e.num <= Base(cls) + Count(cls)

\* Mutant: only a start inside an older entry is refused.
Fits_Start(cls, e) ==
  \A i \in 1 .. Len(entries[cls]) : e.base \notin Vectors(entries[cls][i])

\* The overlap and order checks: start inside, end inside, or not above.
Fits(cls, e) ==
  \A i \in 1 .. Len(entries[cls]) :
    LET cur == entries[cls][i] IN
    /\ e.base \notin Vectors(cur)
    /\ e.base + e.num - 1 \notin Vectors(cur)
    /\ e.base > cur.base + cur.num - 1

Add(cls) ==
  LET e == Arg(1) IN
  /\ Call(cls) /\ Setup /\ Legal(cls, e)
  /\ entries' = IF Fits(cls, e) THEN [entries EXCEPT ![cls] = Append(@, e)]
                               ELSE entries
  /\ UNCHANGED <<itsVars, phase, hwVars, gicc, mm, distVars, lineVars, bootVars,
                 sgi, cpuVars, sendVars, unmasked, raised, asked>>

\* gic_v3_spi_add_entry(), of a GIC with message-based SPIs.
SpiAddEntry == Add("spi") /\ UNCHANGED num_lpis

\* gic_v3_espi_add_entry(): refused where there are none.
EspiAddEntry == NumEspis > 0 /\ Add("espi") /\ UNCHANGED num_lpis

\* gic_v3_lpi_add_entry(): the LPIs of all entries are counted.
LpiAddEntry ==
  /\ Add("lpi")
  /\ num_lpis' = IF Fits("lpi", Arg(1)) THEN num_lpis + Arg(1).num
                                        ELSE num_lpis

\* gic_v3_set_intr_trig_mode(): ICFGR of an SPI or an extended one.
Trigger(e, irq, on) ==
  IF \/ irq >= SpiBase /\ irq < NumSpis + SpiBase
     \/ irq >= EspiBase /\ irq < NumEspis + EspiBase
  THEN IF on THEN e \cup {irq} ELSE e \ {irq}
  ELSE e
SetIntrTrigMode ==
  /\ Call("trig") /\ phase \in {"setup", "cpus"}
  /\ edge' = Trigger(edge, Arg(1), Arg(2))
  /\ UNCHANGED <<itsVars, phase, hwVars, gicc, mm, entryVars, grp1, route,
                 lineVars, bootVars, sgi, cpuVars, sendVars, unmasked, raised, asked>>

-----------------------------------------------------------------------------
(* gic_v3_initialize                                                       *)

\* All SPIs disabled and not pending, in group 1, and routed to the boot
\* CPU. Of extended SPIs the group register is not written: their group
\* is the one firmware has left.
InitDistributor ==
  /\ enabled' = enabled \ SpiLines
  /\ pending' = pending \ SpiLines
  /\ grp1' = grp1 \cup Spi
  /\ route' = CpuAff[0]

\* The entry made when the board has added none: of all SPIs, and of all
\* extended SPIs where there are any.
Default(cls) == [base |-> Base(cls), num |-> Count(cls), msi |-> FALSE]
Lacks(cls) == entries[cls] = <<>>
              /\ (cls = "spi" \/ (cls = "espi" /\ NumEspis > 0))

\* The entries go to the system page after the one for PPIs, whose id
\* callout reads IAR; vectors used as MSIs become edge-triggered.
AddInterrupts ==
  /\ entries' = [cls \in Classes |-> IF Lacks(cls) THEN <<Default(cls)>>
                                                   ELSE entries[cls]]
  /\ edge' = {irq \in Spi \cup Espi :
                \E cls \in {"spi", "espi"} : \E i \in 1 .. Len(entries'[cls]) :
                  entries'[cls][i].msi /\ irq \in Vectors(entries'[cls][i])}

\* The CPU's own frame is the one of its affinity.
OwnGicr(c) == CHOOSE i \in Gicr :
                /\ gicr_aff[i] = CpuAff[c]
                /\ \A j \in Gicr : j < i => gicr_aff[j] # CpuAff[c]

\* The LPI configuration table: all disabled, then the ITS.
InitLpis ==
  IF num_lpis = 0 THEN UNCHANGED itsVars
  ELSE cfg' = {} /\ ItsInitialize

Initialize ==
  /\ Call("initialize") /\ Setup /\ phase' = "cpus"
  /\ mm' = (mm \/ ~ sre)
  /\ mm' => gicc
  \* "assumes cpu is the same as gicr_index"
  /\ mm' => \A c \in CPU : OwnGicr(c) = c
  /\ num_lpis <= NumLpis
  /\ InitDistributor /\ AddInterrupts /\ InitLpis
  /\ UNCHANGED <<hwVars, gicc, num_lpis, active, bootVars, sgi, cpuVars, sendVars,
                 unmasked, raised, asked>>

-----------------------------------------------------------------------------
(* gic_v3_gicc_init(cpu), on each CPU in turn                              *)

\* The frame is woken; with LPIs, the CPU gets its pending table and its
\* collection is mapped.
GiccFind(c) ==
  /\ phase = "cpus" /\ calls = <<>> /\ bootcpu = None /\ c \notin up
  /\ \A d \in CPU : d < c => d \in up
  /\ bootcpu' = c /\ loop' = 0
  /\ gicr_idx' = [gicr_idx EXCEPT ![c] = OwnGicr(c)]
  /\ asleep' = asleep \ {OwnGicr(c)}
  /\ IF num_lpis = 0 THEN UNCHANGED itsVars ELSE MapcIssue(c, OwnGicr(c))
  /\ UNCHANGED <<phase, setupVars, distVars, lineVars, up, lpi_on, gic_map,
                 sgi, cpuVars, sendVars, unmasked, raised, asked>>

\* A poll of CREADR that finds commands left; the last one asserts.
MapcPoll ==
  /\ phase = "cpus" /\ bootcpu # None
  /\ num_lpis > 0 /\ MapcRetry
  /\ loop' = loop + 1
  /\ phase' = IF loop + 1 = Tries THEN "crash" ELSE phase
  /\ UNCHANGED <<setupVars, distVars, lineVars, asleep, up, bootcpu, lpi_on,
                 gicr_idx, gic_map, sgi, cpuVars, sendVars, unmasked, raised, asked>>

GiccDone == bootcpu # None /\ (num_lpis > 0 => Consumed)

\* Mutant: the range selector is left out.
Sgi1r_NoRange(a) ==
  [list |-> {a[1] % 16}, rs |-> 0, aff |-> <<a[2], a[3], a[4]>>]

\* What sendipi writes: with system registers the target list, range
\* selector and affinities of the CPU, otherwise the number of its frame,
\* which is taken to be the CPU's.
Sgi1r(a) == [list |-> {a[1] % 16}, rs |-> a[1] \div 16,
             aff |-> <<a[2], a[3], a[4]>>]
IpiTarget(c) == IF mm THEN [list |-> {c}, rs |-> 0, aff |-> <<>>]
                ELSE Sgi1r(CpuAff[c])

\* The rest: SGIs and PPIs in group 1, not pending and disabled, SGI 0
\* enabled, the CPU interface on.
GiccInit ==
  LET c == bootcpu IN
  /\ phase = "cpus" /\ GiccDone
  /\ lpi_on' = IF num_lpis = 0 THEN lpi_on ELSE lpi_on \cup {c}
  /\ pending' = pending \ PpiLines(gicr_idx[c])
  /\ enabled' = enabled \ PpiLines(gicr_idx[c])
  /\ gic_map' = [gic_map EXCEPT ![c] = IpiTarget(c)]
  /\ up' = up \cup {c} /\ bootcpu' = None /\ loop' = 0
  /\ phase' = IF up' = CPU THEN "run" ELSE phase
  /\ UNCHANGED <<itsVars, setupVars, distVars, active, asleep, gicr_idx, sgi,
                 cpuVars, sendVars, unmasked, raised, asked>>

-----------------------------------------------------------------------------
(* The controller                                                          *)

Running == phase = "run"

\* SGI 0 has priority 0xC0, all others 0xA0, LPIs included.
Prio(id) == IF id = Ipi THEN 12 ELSE 10
Blocked(c, id) == \E a \in active[c] : Prio(a) <= Prio(id)

\* What can be signalled to CPU c.
Signalled(c) ==
  {id \in (IF c \in sgi THEN {Ipi} ELSE {}) : ~ Blocked(c, id)}
  \cup {id \in Ppi \cup Shared :
          LET l == Line(OwnGicr(c), id) IN
          /\ l \in enabled \cap pending
          /\ OwnGicr(c) \notin asleep
          /\ ~ \E d \in CPU : id \in active[d] /\ (id < SpiBase => d = c)
          /\ id \in Shared => route = CpuAff[c] /\ id \in grp1
          /\ ~ Blocked(c, id)}
  \cup {id \in Lpi : /\ Line(0, id) \in pending /\ id \in cached
                     /\ c \in lpi_on /\ mapped[0] = OwnGicr(c)
                     /\ ~ Blocked(c, id)}
Highest(c) ==
  {v \in Signalled(c) : \A u \in Signalled(c) : Prio(v) <= Prio(u)}

\* A device raises an interrupt, an LPI by a message to the ITS.
Raise(i, id) ==
  /\ Running /\ raised < MaxRaise
  /\ Line(i, id) \notin pending
  /\ id \in Lpi => mapped[0] # None
  /\ pending' = pending \cup {Line(i, id)}
  /\ raised' = raised + 1
  /\ UNCHANGED <<itsVars, phase, setupVars, distVars, enabled, active,
                 bootVars, sgi, cpuVars, sendVars, unmasked, asked>>

\* The ITS works beside everything else.
Translate ==
  /\ \/ ItsConsume
     \/ Running /\ ItsPrefetch
     \/ bootcpu # None /\ ItsStall
  /\ UNCHANGED <<phase, setupVars, distVars, lineVars, bootVars, sgi, cpuVars,
                 sendVars, unmasked, raised, asked>>

-----------------------------------------------------------------------------
(* Taking an interrupt                                                     *)

Goto(c, from, to) == pc[c] = from /\ pc' = [pc EXCEPT ![c] = to]
Rest == <<itsVars, phase, setupVars, distVars, bootVars>>

TakeIrq(c) ==
  /\ Running /\ Signalled(c) # {}
  /\ Goto(c, "idle", "iar")
  /\ UNCHANGED <<Rest, lineVars, sgi, x24, x19, x3, op, sendVars, unmasked,
                 raised, asked>>

\* interrupt_id_gic_v3_ppi_sr and _mm: the read of IAR acknowledges. An LPI
\* has no active state of its own, but its priority runs until its end.
IdPpi(c) ==
  /\ Goto(c, "iar", "id")
  /\ \/ /\ Signalled(c) = {}
        /\ x24' = [x24 EXCEPT ![c] = Spurious]
        /\ UNCHANGED <<pending, active, sgi>>
     \/ \E v \in Highest(c) :
        /\ x24' = [x24 EXCEPT ![c] = v]
        /\ active' = [active EXCEPT ![c] = @ \cup {v}]
        /\ sgi' = IF v = Ipi THEN sgi \ {c} ELSE sgi
        /\ pending' = pending \ {Line(OwnGicr(c), v)}
  /\ UNCHANGED <<Rest, enabled, x19, x3, op, sendVars, unmasked, raised, asked>>

\* interrupt_id_gic_v3_spi, _espi and _lpi, and the second half of _ppi: the
\* vector relative to the class, or -1. Unsigned, x24 - 4096 is large for
\* the smaller IDs.
ClaimPpi(v)  == IF v > 31 THEN None ELSE v
ClaimSpi(v)  == IF v > 1021 THEN None ELSE v - SpiBase
ClaimEspi(v) == IF v - EspiBase < 0 \/ v - EspiBase > 1023 THEN None
                ELSE v - EspiBase
ClaimLpi(v)  == IF v < LpiBase THEN None ELSE v - LpiBase

\* The kernel asks the callouts in the order of the entries; the first to
\* claim the interrupt names the class.
Claimed(v) ==
  IF ClaimPpi(v) # None THEN <<"ppi", ClaimPpi(v)>>
  ELSE IF ClaimSpi(v) # None THEN <<"spi", ClaimSpi(v)>>
  ELSE IF ClaimEspi(v) # None THEN <<"espi", ClaimEspi(v)>>
  ELSE IF ClaimLpi(v) # None THEN <<"lpi", ClaimLpi(v)>>
  ELSE <<"none", None>>

Id(c) ==
  LET k == Claimed(x24[c]) IN
  /\ Goto(c, "id", IF k[1] = "none" THEN "idle" ELSE "handle")
  /\ x19' = [x19 EXCEPT ![c] = k[2]]
  /\ UNCHANGED <<Rest, lineVars, sgi, x24, x3, op, sendVars, unmasked, raised, asked>>

\* An IPI: the kernel takes all commands out of its word at once.
HandleIpi(c) ==
  /\ x24[c] = Ipi /\ Goto(c, "handle", "eoi")
  /\ ipicmds' = [ipicmds EXCEPT ![c] = {}]
  /\ UNCHANGED <<Rest, lineVars, sgi, x24, x19, x3, op, x1, dst, w7, unmasked,
                 raised, asked>>

\* A vector is the number relative to its entry, to which the patched
\* callouts add the entry's offset in its class.
Within(cls, n) == {i \in 1 .. Len(entries[cls]) : n \in Vectors(entries[cls][i])}
EntryOf(cls, n) == entries[cls][CHOOSE i \in Within(cls, n) : TRUE]
VecOff(cls, n) == EntryOf(cls, n).base - Base(cls)
Vector(cls, n) == n - EntryOf(cls, n).base
HasEntry(cls, n) == Within(cls, n) # {}

\* interrupt_mask_gic_v3_spi and _espi: word and bit of vector plus offset,
\* from the first register of the class.
SpiBit(cls, v, off) == Base(cls) + 32 * ((v + off) \div 32) + ((v + off) % 32)
BitOf(cls, n) == SpiBit(cls, Vector(cls, n), VecOff(cls, n))

\* Mutant: the callout uses the frame of the boot CPU.
PpiBit_BootCpu(c, v) == Line(gicr_idx[0], v)

\* interrupt_mask_gic_v3_ppi: in the frame of the CPU it runs on.
PpiBit(c, v) == Line(gicr_idx[c], v)

\* The line the callouts of a class change for interrupt n, on CPU c.
LineOf(c, n) == IF n < SpiBase THEN PpiBit(c, n)
                ELSE Line(0, BitOf(IF n < EspiBase THEN "spi" ELSE "espi", n))

\* A device interrupt: the kernel masks it until it is serviced. That of
\* an LPI takes the command queue.
HandleDevice(c) ==
  /\ x24[c] \in Ppi \cup Shared /\ Goto(c, "handle", "eoi")
  /\ enabled' = enabled \ {LineOf(c, x24[c])}
  /\ unmasked' = unmasked \ {Line(OwnGicr(c), x24[c])}
  /\ UNCHANGED <<Rest, pending, active, sgi, x24, x19, x3, op, sendVars,
                 raised, asked>>

\* interrupt_eoi_gic_v3_*: EOIR gets what IAR gave, SGI 0 included.
Eoi(c) ==
  /\ Goto(c, "eoi", "idle")
  /\ active' = [active EXCEPT ![c] = @ \ {x24[c]}]
  /\ x24' = [x24 EXCEPT ![c] = Spurious] /\ x19' = [x19 EXCEPT ![c] = None]
  /\ UNCHANGED <<Rest, enabled, pending, sgi, x3, op, sendVars, unmasked,
                 raised, asked>>

\* The mask and unmask callouts of the PPIs, SPIs and extended SPIs; the
\* distributor's or the frame's RWP bit is waited for.
SetMask(c, n, on) ==
  /\ Running /\ pc[c] = "idle" /\ asked < MaxAsk
  /\ n >= SpiBase => HasEntry(IF n < EspiBase THEN "spi" ELSE "espi", n)
  /\ on # (Line(OwnGicr(c), n) \in unmasked)
  /\ enabled' = IF on THEN enabled \cup {LineOf(c, n)}
                      ELSE enabled \ {LineOf(c, n)}
  /\ unmasked' = IF on THEN unmasked \cup {Line(OwnGicr(c), n)}
                       ELSE unmasked \ {Line(OwnGicr(c), n)}
  /\ asked' = asked + 1
  /\ UNCHANGED <<Rest, pending, active, sgi, cpuVars, sendVars, raised>>

-----------------------------------------------------------------------------
(* The LPI callouts: lock, configuration, commands, CWRITER and unlock     *)

\* The callouts do not look at CREADR; the ITS is assumed to keep up.
ItsKeepsUp == Len(issued) + 2 < Slots

StartLpi(c, n, on, from) ==
  /\ Goto(c, from, "lpi_cfg")
  /\ ItsKeepsUp /\ HasEntry("lpi", n)
  /\ LpiLock(c)
  /\ op' = [op EXCEPT ![c] = <<Base("lpi") + Vector("lpi", n)
                                + VecOff("lpi", n), on>>]
  /\ unmasked' = IF on THEN unmasked ELSE unmasked \ {Line(0, n)}
  /\ UNCHANGED <<phase, setupVars, distVars, bootVars, lineVars, sgi, x24, x19,
                 x3, sendVars, raised>>

\* A driver's request, or the mask of an LPI just taken.
SetMaskLpi(c, n, on) ==
  /\ Running /\ on # (Line(0, n) \in unmasked)
  /\ asked < MaxAsk /\ asked' = asked + 1
  /\ StartLpi(c, n, on, "idle")
HandleLpi(c) ==
  x24[c] \in Lpi /\ StartLpi(c, x24[c], FALSE, "handle") /\ UNCHANGED asked

\* The configuration byte is changed, then CWRITER read.
LpiCfg(c) ==
  /\ Goto(c, "lpi_cfg", "lpi_cmd")
  /\ LpiConfig(op[c][1], op[c][2])
  /\ x3' = [x3 EXCEPT ![c] = cwriter]
  /\ unmasked' = IF op[c][2] THEN unmasked \cup {Line(0, op[c][1])} ELSE unmasked
  /\ UNCHANGED <<phase, setupVars, distVars, bootVars, lineVars, sgi, x24, x19,
                 op, sendVars, raised, asked>>

LpiCmd(c) ==
  /\ Goto(c, "lpi_cmd", "lpi_cwr")
  /\ LpiQueue(x3[c])
  /\ UNCHANGED <<phase, setupVars, distVars, bootVars, lineVars, sgi, x24, x19,
                 x3, op, sendVars, unmasked, raised, asked>>

LpiCwr(c) ==
  /\ Goto(c, "lpi_cwr", IF x24[c] = Spurious THEN "idle" ELSE "eoi")
  /\ LpiCwriter(x3[c])
  /\ x3' = [x3 EXCEPT ![c] = 0] /\ op' = [op EXCEPT ![c] = <<0, FALSE>>]
  /\ UNCHANGED <<phase, setupVars, distVars, bootVars, lineVars, sgi, x24, x19,
                 sendVars, unmasked, raised, asked>>

-----------------------------------------------------------------------------
(* sendipi_gic_v3_sr and sendipi_gic_v3_mm                                 *)

\* Interrupts off; the command is ORed into the target's word.
SendOr(c, t, cmd) ==
  /\ Running /\ Goto(c, "idle", "sgi")
  /\ x1' = [x1 EXCEPT ![c] = gic_map[t]]
  /\ dst' = [dst EXCEPT ![c] = t]
  /\ w7' = [w7 EXCEPT ![c] = ipicmds[t]]
  /\ ipicmds' = [ipicmds EXCEPT ![t] = @ \cup {cmd}]
  /\ UNCHANGED <<Rest, lineVars, sgi, x24, x19, x3, op, unmasked, raised, asked>>

\* The CPUs a write to ICC_SGI1R_EL1, or to ISPENDR0 of a frame, reaches.
Reached(r) ==
  IF mm THEN {t \in CPU : gicr_idx[t] \in r.list}
  ELSE {t \in CPU : /\ CpuAff[t][1] % 16 \in r.list
                    /\ CpuAff[t][1] \div 16 = r.rs
                    /\ <<CpuAff[t][2], CpuAff[t][3], CpuAff[t][4]>> = r.aff}

\* SGI 0 is sent only if the word was empty; interrupts on.
SendSgi(c) ==
  /\ Goto(c, "sgi", "idle")
  /\ sgi' = IF w7[c] = {} THEN sgi \cup Reached(x1[c]) ELSE sgi
  /\ x1' = [x1 EXCEPT ![c] = NoIpiTarget] /\ dst' = [dst EXCEPT ![c] = c]
  /\ w7' = [w7 EXCEPT ![c] = {}]
  /\ UNCHANGED <<Rest, lineVars, x24, x19, x3, op, ipicmds, unmasked, raised, asked>>

-----------------------------------------------------------------------------
Board ==
  \/ SetPaddrRange \/ UseMmRegCallouts \/ SetItsParams
  \/ SpiAddEntry \/ EspiAddEntry \/ LpiAddEntry
  \/ Initialize \/ SetIntrTrigMode
Boot == (\E c \in CPU : GiccFind(c)) \/ MapcPoll \/ GiccInit

\* What a CPU does once it has vectored or entered a callout.
Continue(c) == \/ IdPpi(c) \/ Id(c) \/ HandleIpi(c) \/ HandleDevice(c)
               \/ HandleLpi(c) \/ Eoi(c) \/ SendSgi(c)
               \/ LpiCfg(c) \/ LpiCmd(c) \/ LpiCwr(c)

Drivers(c) ==
  \/ \E n \in Ppi \cup Shared, on \in BOOLEAN : SetMask(c, n, on)
  \/ \E n \in Lpi, on \in BOOLEAN : SetMaskLpi(c, n, on)
  \/ \E t \in CPU, cmd \in Cmd : SendOr(c, t, cmd)

Devices == \/ \E i \in Gicr, id \in Ppi : Raise(i, id)
           \/ \E id \in Shared \cup Lpi : Raise(0, id)

Next == \/ Board \/ Boot \/ Devices \/ Translate
        \/ \E c \in CPU : TakeIrq(c) \/ Continue(c) \/ Drivers(c)

Spec == Init /\ [][Next]_vars

-----------------------------------------------------------------------------
(* Properties                                                              *)

\* No interrupt belongs to two entries of the system page, whatever the
\* board adds in whatever order, and an entry never leaves its class.
EntriesDisjoint ==
  \A f, g \in Classes :
    \A i \in 1 .. Len(entries[f]), j \in 1 .. Len(entries[g]) :
      /\ Vectors(entries[f][i]) \cap Vectors(entries[g][j]) # {} =>
           f = g /\ i = j
      /\ Vectors(entries[f][i]) \subseteq Base(f) .. Base(f) + Count(f) - 1

\* An IPI command in a CPU's word always has SGI 0 pending at that CPU, on
\* its way, or being taken, although senders skip the SGI when the word is
\* not empty; SGI 0 reaches its CPU by affinity, beyond aff0 15 as well.
NoLostIpi ==
  \A t \in CPU : ipicmds[t] # {} =>
    \/ t \in sgi
    \/ \E s \in CPU : pc[s] = "sgi" /\ dst[s] = t /\ w7[s] = {}
    \/ x24[t] = Ipi /\ pc[t] \in {"id", "handle"}

\* Once gic_v3_gicc_init has enabled LPIs at a CPU, the collection of the
\* CPU is mapped to its own redistributor.
CollectionsRight ==
  \A c \in lpi_on : mapped[c] = OwnGicr(c)

\* LPIs reach their CPU as they are configured: through collections of their
\* own redistributors, and a command queue the ITS reads in whole.
LpisRight == CollectionsRight /\ QueueExact /\ NoStaleConfig

\* A CPU takes a device interrupt only if the kernel has unmasked it; an
\* LPI whose mask is still in the command queue may come once more.
MaskedStaysQuiet ==
  [][\A c \in CPU :
       pc[c] = "iar" /\ pc'[c] = "id" /\ x24'[c] \in Ppi \cup Shared \cup Lpi =>
         \/ Line(OwnGicr(c), x24'[c]) \in unmasked
         \/ x24'[c] \in Lpi /\ (lock # None \/ ~ Consumed)]_vars
=============================================================================
