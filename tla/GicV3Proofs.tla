---------------------------- MODULE GicV3Proofs ----------------------------
(***************************************************************************)
(* Proofs about GicV3 and Its for any number of CPUs and frames, any board *)
(* and any interrupts. The inductive invariant has five parts: the entries *)
(* a board has added, how far the CPUs have been set up, the IPIs on their *)
(* way, the lines the kernel has enabled, and the ITS command queue.       *)
(***************************************************************************)
EXTENDS GicV3, TLAPS

Ready == phase \in {"cpus", "run", "crash"}   \* after gic_v3_initialize()
LpiPc == {"lpi_cfg", "lpi_cmd", "lpi_cwr"}
Pc    == LpiPc \cup {"idle", "iar", "id", "handle", "eoi", "sgi"}
ClassOf(n) == IF n < EspiBase THEN "spi" ELSE "espi"

\* Each class is in ascending order and within its range.
EntryInv ==
  /\ phase \in {"reset", "setup", "cpus", "run", "crash"}
  /\ calls \in Seq(BoardCall) /\ mm \in BOOLEAN
  /\ entries \in [Classes -> Seq(Entry)] /\ num_lpis \in Nat
  /\ \A cls \in Classes : \A i \in 1 .. Len(entries[cls]) :
       /\ entries[cls][i].base >= Base(cls)
       /\ entries[cls][i].base + entries[cls][i].num <= Base(cls) + Count(cls)
       /\ \A j \in 1 .. i - 1 :
            entries[cls][j].base + entries[cls][j].num <= entries[cls][i].base

\* The frames are those of the CPUs; before the last CPU is up nothing runs.
CpuInv ==
  /\ DOMAIN gicr_aff = Gicr
  /\ \A c \in CPU : \E i \in Gicr : gicr_aff[i] = CpuAff[c]
  /\ \A i, j \in Gicr : gicr_aff[i] = gicr_aff[j] => i = j
  /\ up \subseteq CPU /\ bootcpu \in CPU \cup {None} /\ sgi \subseteq CPU
  /\ pc \in [CPU -> Pc] /\ x24 \in [CPU -> Nat]
  /\ DOMAIN gicr_idx = CPU /\ DOMAIN gic_map = CPU
  /\ phase \in {"reset", "setup"} => up = {} /\ bootcpu = None
  /\ phase = "run" => up = CPU /\ bootcpu = None
  /\ phase # "run" => /\ \A c \in CPU : pc[c] = "idle" /\ ipicmds[c] = {}
                      /\ unmasked = {} /\ cfg = {} /\ cached = {}
  /\ \A c \in CPU : c \in up \/ c = bootcpu => gicr_idx[c] = OwnGicr(c)

\* An address sendipi takes from the system page reaches its CPU.
IpiInv ==
  /\ DOMAIN ipicmds = CPU /\ DOMAIN x1 = CPU /\ DOMAIN w7 = CPU
  /\ dst \in [CPU -> CPU]
  /\ mm /\ Ready => \A c \in CPU : OwnGicr(c) = c
  /\ \A c \in up : gic_map[c] = IpiTarget(c)
  /\ \A c \in CPU : pc[c] = "sgi" => x1[c] = gic_map[dst[c]]
  /\ NoLostIpi

\* An enabled line is one the kernel has unmasked, and belongs to an entry;
\* an LPI is enabled in the table, or its mask is about to be written there.
LineInv ==
  /\ \A c \in up : \A id \in Ppi :
       <<OwnGicr(c), id>> \in enabled => <<OwnGicr(c), id>> \in unmasked
  /\ Ready => \A n \in Shared : <<None, n>> \in enabled =>
       <<None, n>> \in unmasked /\ HasEntry(ClassOf(n), n)
  /\ \A c \in CPU : pc[c] \in {"id", "handle"} /\ x24[c] \in Shared =>
       HasEntry(ClassOf(x24[c]), x24[c])
  /\ DOMAIN op = CPU
  /\ \A c \in CPU : pc[c] = "lpi_cfg" => op[c] \in Lpi \X BOOLEAN
  /\ \A n \in Lpi \cap cfg : \/ <<None, n>> \in unmasked
                             \/ \E c \in CPU : /\ pc[c] = "lpi_cfg"
                                               /\ op[c] = <<n, FALSE>>

\* A ring of N slots, w its writer and r its reader.
NextPos(N, s) == IF s + 1 > N - 1 THEN 0 ELSE s + 1
Pos(N, r, i)  == IF r + i - 1 < N THEN r + i - 1 ELSE r + i - 1 - N
Dist(N, w, r) == IF w >= r THEN w - r ELSE w - r + N

\* The command queue: what the ITS will read is what has been issued, the
\* holder of the lock writes behind it, and there is room.
Command == {"MAPC", "SYNC", "INVALL"} \X Int \X Int
QueueInOrder == /\ Len(issued) = Dist(Slots, cwriter, creadr)
           /\ \A i \in 1 .. Len(issued) :
                /\ Pos(Slots, creadr, i) \in DOMAIN queue
                /\ queue[Pos(Slots, creadr, i)] = issued[i]
RingInv ==
  /\ "q_pages" \in DOMAIN its_params /\ its_params.q_pages \in Nat \ {0}
  /\ cwriter \in 0 .. Slots - 1 /\ creadr \in 0 .. Slots - 1
  /\ issued \in Seq(Command) /\ QueueInOrder
  /\ ~ Ready => cwriter = 0 /\ creadr = 0
  /\ Ready /\ num_lpis # 0 => 0 .. Slots - 1 \subseteq DOMAIN queue
  /\ phase # "run" /\ (num_lpis = 0 \/ bootcpu = None) => Consumed
LockInv ==
  /\ lock \in CPU \cup {None} /\ DOMAIN x3 = CPU
  /\ \A c \in CPU : pc[c] \in LpiPc <=> lock = c
  /\ lock # None => Len(issued) + 2 < Slots
  /\ \A c \in CPU : pc[c] \in {"lpi_cmd", "lpi_cwr"} => x3[c] = cwriter
  /\ \A c \in CPU : pc[c] = "lpi_cwr" =>
       /\ cwriter \in DOMAIN queue /\ queue[cwriter] = LpiCmds[1]
       /\ Wrap(cwriter) \in DOMAIN queue /\ queue[Wrap(cwriter)] = LpiCmds[2]
QueueInv == RingInv /\ LockInv

\* A collection is mapped by the one MAPC of its CPU, and a changed
\* configuration is behind an INVALL that is yet to be read.
Issued(cmd) == \E j \in 1 .. Len(issued) : issued[j][1] = cmd
MapInv ==
  /\ DOMAIN mapped = CPU /\ lpi_on \subseteq CPU /\ CollectionsRight
  /\ \A j \in 1 .. Len(issued) : issued[j][1] = "MAPC" =>
       /\ bootcpu # None
       /\ issued[j] = <<"MAPC", bootcpu, RDbase(OwnGicr(bootcpu))>>
  /\ bootcpu # None /\ num_lpis # 0 =>
       mapped[bootcpu] = OwnGicr(bootcpu) \/ Issued("MAPC")
  /\ cached # cfg => lock # None \/ Issued("INVALL")

IInv == EntryInv /\ CpuInv /\ IpiInv /\ LineInv /\ QueueInv /\ MapInv

USE DEF CPU, Gicr, None, hwVars, entryVars, setupVars, distVars, lineVars,
        bootVars, cpuVars, sendVars, tblVars, qVars, itsVars, Rest,
        Running, Setup, Shared

-----------------------------------------------------------------------------
(* Which variables the kinds of step leave alone.                          *)

\* The board's calls come before any CPU is set up.
LEMMA BoardLeaves ==
  ASSUME Board
  PROVE  UNCHANGED <<hwVars, bootVars, active, sgi, cpuVars, sendVars,
                     unmasked, its_hw, mapped, cached, stalled>>
BY DEF Board, SetPaddrRange, UseMmRegCallouts, SetItsParams, SpiAddEntry,
  EspiAddEntry, LpiAddEntry, Add, Initialize, SetIntrTrigMode, InitLpis,
  ItsInitialize

\* Nothing but the board's calls and the start of the CPUs changes these.
RunStep == \/ Devices \/ Translate
           \/ \E c \in CPU : TakeIrq(c) \/ Continue(c) \/ Drivers(c)

\* A step of the running kernel leaves the set-up alone ...
LEMMA RunLeaves ==
  ASSUME RunStep
  PROVE  UNCHANGED <<phase, setupVars, distVars, bootVars>>
<1>1. CASE Devices \/ Translate
  BY <1>1 DEF Devices, Raise, Translate
<1>2. ASSUME NEW c \in CPU, TakeIrq(c) \/ Continue(c)
      PROVE  UNCHANGED <<phase, setupVars, distVars, bootVars>>
  BY <1>2 DEF TakeIrq, Continue, IdPpi, Id, HandleIpi, HandleDevice,
    HandleLpi, StartLpi, Eoi, SendSgi, LpiCfg, LpiCmd, LpiCwr
<1>3. ASSUME NEW c \in CPU, Drivers(c)
      PROVE  UNCHANGED <<phase, setupVars, distVars, bootVars>>
  BY <1>3 DEF Drivers, SetMask, SetMaskLpi, StartLpi, SendOr
<1> QED BY <1>1, <1>2, <1>3 DEF RunStep

\* ... and a step of the set-up what the kernel works with.
LEMMA BootLeaves ==
  ASSUME Boot
  PROVE  UNCHANGED <<setupVars, distVars, active, sgi, cpuVars, sendVars,
                     unmasked, lock, cfg, cached, tblVars>>
BY DEF Boot, GiccFind, MapcPoll, GiccInit, MapcIssue, MapcRetry

\* Every step is one of the board's set-up, of startup or of the kernel.
LEMMA NextKinds == Next => Board \/ Boot \/ RunStep
BY DEF Next, RunStep

-----------------------------------------------------------------------------
(* The interrupt entries.                                                  *)

\* What of the assumptions on the hardware the proofs keep needing.
LEMMA Hardware ==
  /\ ITLines \in 0 .. 31 /\ EspiLines \in 0 .. 32 /\ NumLpiBits \in 0 .. 31
  /\ NumCpu \in Nat \ {0} /\ NumGicr \in Nat \ {0}
  /\ Ppi \subseteq 16 .. 31 /\ Spi \subseteq 32 .. 1019
  /\ Espi \subseteq 4096 .. 5119 /\ Lpi \subseteq {n \in Nat : n >= 8192}
  /\ SlotsPerPage \in Nat /\ SlotsPerPage > 3
<1>1. /\ ITLines \in 0 .. 31 /\ EspiLines \in 0 .. 32 /\ NumLpiBits \in 0 .. 31
      /\ Ppi \subseteq 16 .. 31 /\ Spi \subseteq SpiBase .. 1019
      /\ Espi \subseteq EspiBase .. EspiBase + 1023
  BY GicV3Assumption, ZenonT(40)
<1>2. /\ NumCpu \in Nat \ {0} /\ NumGicr \in Nat \ {0}
      /\ Lpi \subseteq {n \in Nat : n >= LpiBase}
      /\ SlotsPerPage \in Nat /\ SlotsPerPage > 3
  BY ItsAssumption, Zenon
<1> QED BY <1>1, <1>2 DEF SpiBase, EspiBase, LpiBase

\* The classes are numbers apart: SPIs below the extended ones, these below
\* the LPIs.
LEMMA ClassBounds ==
  /\ \A cls \in Classes : Base(cls) \in Nat /\ Count(cls) \in Int
  /\ Base("spi") = 32 /\ Base("espi") = 4096 /\ Base("lpi") = 8192
  /\ Count("spi") \in 0 .. 988 /\ Count("espi") \in 0 .. 1024
<1>1. Base("spi") = 32 /\ Base("espi") = 4096 /\ Base("lpi") = 8192
  BY DEF Base, SpiBase, EspiBase, LpiBase
<1>2. Count("spi") = NumSpis /\ Count("espi") = NumEspis /\ Count("lpi") = NumLpis
  BY DEF Count
<1>3. NumSpis \in 0 .. 988 /\ NumEspis \in 0 .. 1024 /\ NumLpis \in Int
  <2>1. NumSpis \in 0 .. 988 /\ NumEspis \in 0 .. 1024
    BY Hardware DEF NumSpis, NumEspis, SpiBase
  <2>2. NumLpiBits + 1 \in Nat
    BY Hardware
  <2>3. NumLpis \in Int
    BY <2>2 DEF NumLpis
  <2> QED BY <2>1, <2>3
<1> QED BY <1>1, <1>2, <1>3 DEF Classes

\* The classes of interrupts never share a vector.
LEMMA ClassesApart ==
  \A f, g \in Classes : \/ f = g
                        \/ Base(f) + Count(f) <= Base(g)
                        \/ Base(g) + Count(g) <= Base(f)
<1>1. /\ Base("spi") + Count("spi") <= Base("espi")
      /\ Base("espi") + Count("espi") <= Base("lpi")
      /\ Base("spi") + Count("spi") <= Base("lpi")
  BY ClassBounds, SMTT(30)
<1> QED BY <1>1 DEF Classes

\* An entry the order check lets in is above every older one of its class.
LEMMA AddKeepsEntries ==
  ASSUME EntryInv, NEW cls \in Classes, Add(cls), num_lpis' \in Nat
  PROVE  EntryInv'
<1> DEFINE e == Arg(1)
<1>1. e \in Entry
  <2>1. Head(calls) \in BoardCall
    BY DEF EntryInv, Add, Call
  <2>2. Head(calls)[1] = cls
    BY DEF Add, Call
  <2>3. Head(calls) \in Classes \X Entry
    BY <2>1, <2>2 DEF BoardCall, Classes
  <2> QED BY <2>3 DEF Arg
<1>2. UNCHANGED <<phase, mm>> /\ calls' \in Seq(BoardCall)
  BY DEF Add, Call, EntryInv
<1>3. CASE ~ Fits(cls, e)
  BY <1>2, <1>3 DEF Add, EntryInv
<1>4. CASE Fits(cls, e)
  <2>1. entries' = [entries EXCEPT ![cls] = Append(@, e)]
    BY <1>4 DEF Add
  <2>2. entries' \in [Classes -> Seq(Entry)]
    BY <1>1, <2>1 DEF EntryInv
  <2>3. ASSUME NEW f \in Classes, NEW i \in 1 .. Len(entries'[f])
        PROVE  /\ entries'[f][i].base >= Base(f)
               /\ entries'[f][i].base + entries'[f][i].num <= Base(f) + Count(f)
               /\ \A j \in 1 .. i - 1 :
                    entries'[f][j].base + entries'[f][j].num
                      <= entries'[f][i].base
    <3>1. CASE f # cls
      BY <2>1, <3>1, <2>3 DEF EntryInv
    <3>2. CASE f = cls /\ i <= Len(entries[cls])
      BY <2>1, <3>2, <2>3 DEF EntryInv
    <3>3. CASE f = cls /\ i = Len(entries[cls]) + 1
      <4>1. entries'[f][i] = e
        BY <2>1, <3>3 DEF EntryInv
      <4>2. e.base >= Base(f) /\ e.base + e.num <= Base(f) + Count(f)
        BY <3>3 DEF Add, Legal
      <4>3. ASSUME NEW j \in 1 .. i - 1
            PROVE  entries'[f][j].base + entries'[f][j].num <= e.base
        <5>1. entries'[f][j] = entries[cls][j] /\ entries[cls][j] \in Entry
          BY <2>1, <3>3 DEF EntryInv
        <5>2. e.base > entries[cls][j].base + entries[cls][j].num - 1
          BY <1>4, <3>3 DEF Fits
        <5>3. PICK a \in Nat, b \in Nat, k \in Nat :
                /\ a = e.base
                /\ b = entries[cls][j].base /\ k = entries[cls][j].num
          BY <1>1, <5>1 DEF Entry
        <5>4. a > b + k - 1
          BY <5>2, <5>3
        <5>5. b + k <= a
          BY <5>4
        <5> QED BY <5>1, <5>3, <5>5
      <4> QED BY <4>1, <4>2, <4>3
    <3>4. f = cls => /\ Len(entries'[f]) = Len(entries[cls]) + 1
                     /\ Len(entries[cls]) \in Nat
      BY <2>1 DEF EntryInv
    <3>5. f = cls => i <= Len(entries[cls]) \/ i = Len(entries[cls]) + 1
      BY <3>4
    <3> QED BY <3>1, <3>2, <3>3, <3>5
  <2>4. /\ phase' \in {"reset", "setup", "cpus", "run", "crash"}
        /\ mm' \in BOOLEAN
    BY <1>2 DEF EntryInv
  <2> QED BY <1>2, <2>2, <2>3, <2>4 DEF EntryInv
<1> QED BY <1>3, <1>4

\* Every step keeps the entries of the callouts apart.
LEMMA EntryStep ==
  ASSUME EntryInv, Next
  PROVE  EntryInv'
<1>1. CASE SetPaddrRange \/ SetItsParams
  <2>1. /\ UNCHANGED <<mm, entries, num_lpis>> /\ phase' \in {phase, "setup"}
        /\ calls # <<>> /\ calls' = Tail(calls)
    BY <1>1 DEF SetPaddrRange, SetItsParams, Call
  <2>2. calls' \in Seq(BoardCall)
    BY <2>1 DEF EntryInv
  <2>3. phase' \in {"reset", "setup", "cpus", "run", "crash"}
    BY <2>1 DEF EntryInv
  <2> QED BY <2>1, <2>2, <2>3 DEF EntryInv
<1>2. CASE UseMmRegCallouts
  <2>1. Head(calls) \in BoardCall /\ Head(calls)[1] = "mm"
    BY <1>2 DEF UseMmRegCallouts, Call, EntryInv
  <2>2. Head(calls) \in {"paddr", "mm"} \X BOOLEAN
    BY <2>1 DEF BoardCall, Classes
  <2>3. mm' \in BOOLEAN
    BY <1>2, <2>2 DEF UseMmRegCallouts, Arg
  <2> QED BY <1>2, <2>3 DEF UseMmRegCallouts, Call, EntryInv
<1>3. CASE SpiAddEntry \/ EspiAddEntry
  BY <1>3, AddKeepsEntries DEF SpiAddEntry, EspiAddEntry, Classes, EntryInv
<1>4. CASE LpiAddEntry
  <2>1. Head(calls) \in BoardCall /\ Head(calls)[1] = "lpi"
    BY <1>4 DEF LpiAddEntry, Add, Call, EntryInv
  <2>2. Head(calls) \in Classes \X Entry
    BY <2>1 DEF BoardCall, Classes
  <2>3. Arg(1).num \in Nat
    BY <2>2 DEF Arg, Entry
  <2>4. num_lpis' \in Nat
    BY <1>4, <2>3 DEF LpiAddEntry, EntryInv
  <2> QED BY <1>4, <2>4, AddKeepsEntries DEF LpiAddEntry, Classes
<1>5. CASE Initialize
  <2>1. /\ phase' = "cpus" /\ calls' \in Seq(BoardCall) /\ mm' \in BOOLEAN
        /\ UNCHANGED num_lpis
    BY <1>5 DEF Initialize, Call, EntryInv
  <2>2. entries' = [cls \in Classes |-> IF Lacks(cls) THEN <<Default(cls)>>
                                                      ELSE entries[cls]]
    BY <1>5 DEF Initialize, AddInterrupts
  <2>3. ASSUME NEW cls \in Classes, Lacks(cls) PROVE Default(cls) \in Entry
    <3>1. cls = "spi" \/ cls = "espi"
      BY <2>3 DEF Lacks
    <3>2. Base(cls) \in Nat /\ Count(cls) \in Nat
      BY <3>1, ClassBounds DEF Classes
    <3> QED BY <3>2 DEF Default, Entry
  <2>4. entries' \in [Classes -> Seq(Entry)]
    BY <2>2, <2>3 DEF EntryInv
  <2>5. ASSUME NEW f \in Classes, NEW i \in 1 .. Len(entries'[f])
        PROVE  /\ entries'[f][i].base >= Base(f)
               /\ entries'[f][i].base + entries'[f][i].num <= Base(f) + Count(f)
               /\ \A j \in 1 .. i - 1 :
                    entries'[f][j].base + entries'[f][j].num
                      <= entries'[f][i].base
    <3>1. CASE Lacks(f)
      BY <2>2, <2>5, <3>1, ClassBounds DEF Default
    <3>2. CASE ~ Lacks(f)
      BY <2>2, <2>5, <3>2 DEF EntryInv
    <3> QED BY <3>1, <3>2
  <2> QED BY <2>1, <2>4, <2>5 DEF EntryInv
<1>6. CASE SetIntrTrigMode
  BY <1>6 DEF SetIntrTrigMode, Call, EntryInv
<1>7. CASE Boot
  <2>1. phase' \in {phase, "crash", "run"}
    BY <1>7 DEF Boot, GiccFind, MapcPoll, GiccInit
  <2> QED BY <1>7, <2>1, BootLeaves DEF EntryInv
<1>8. CASE RunStep
  BY <1>8, RunLeaves DEF EntryInv
<1> QED BY <1>1, <1>2, <1>3, <1>4, <1>5, <1>6, <1>7, <1>8, NextKinds DEF Board

\* Entries in ascending order within disjoint ranges have no interrupt in
\* common.
LEMMA EntriesApart == EntryInv => EntriesDisjoint
<1> SUFFICES ASSUME EntryInv, NEW f \in Classes, NEW g \in Classes,
                    NEW i \in 1 .. Len(entries[f]), NEW j \in 1 .. Len(entries[g])
             PROVE  /\ Vectors(entries[f][i]) \cap Vectors(entries[g][j]) # {}
                         => f = g /\ i = j
                    /\ Vectors(entries[f][i])
                         \subseteq Base(f) .. Base(f) + Count(f) - 1
  BY DEF EntriesDisjoint
<1>1. /\ entries[f] \in Seq(Entry) /\ entries[g] \in Seq(Entry)
      /\ entries[f][i] \in Entry /\ entries[g][j] \in Entry
  BY DEF EntryInv
<1>2. PICK a \in Nat, m \in Nat, b \in Nat, k \in Nat :
        /\ a = entries[f][i].base /\ m = entries[f][i].num
        /\ b = entries[g][j].base /\ k = entries[g][j].num
  BY <1>1 DEF Entry
<1>3. /\ a >= Base(f) /\ a + m <= Base(f) + Count(f)
      /\ b >= Base(g) /\ b + k <= Base(g) + Count(g)
  BY <1>2 DEF EntryInv
<1>6. Vectors(entries[f][i]) = a .. a + m - 1 /\ Vectors(entries[g][j]) = b .. b + k - 1
  BY <1>2 DEF Vectors
<1>7. Base(f) \in Nat /\ Count(f) \in Int /\ Base(g) \in Nat /\ Count(g) \in Int
  BY ClassBounds
<1>4. Vectors(entries[f][i]) \subseteq Base(f) .. Base(f) + Count(f) - 1
  BY <1>3, <1>7, <1>6, SMTT(20)
<1>5. ASSUME NEW n \in Vectors(entries[f][i]), n \in Vectors(entries[g][j])
      PROVE  f = g /\ i = j
  <2>1. n \in a .. a + m - 1 /\ n \in b .. b + k - 1
    BY <1>5, <1>6
  <2>2. f = g
    BY <1>3, <1>7, <2>1, ClassesApart, SMTT(20)
  <2>3. i \in Int /\ j \in Int
    BY <1>1
  <2>4. \A x \in 1 .. Len(entries[f]) : \A y \in 1 .. x - 1 :
          entries[f][y].base + entries[f][y].num <= entries[f][x].base
    BY DEF EntryInv
  <2>5. i < j => a + m <= b
    <3>1. i < j => i \in 1 .. j - 1
      BY <2>3
    <3> QED BY <1>2, <2>2, <2>4, <3>1
  <2>6. j < i => b + k <= a
    <3>1. j < i => j \in 1 .. i - 1
      BY <2>3
    <3> QED BY <1>2, <2>2, <2>4, <3>1
  <2> QED BY <2>1, <2>2, <2>3, <2>5, <2>6
<1> QED BY <1>4, <1>5

-----------------------------------------------------------------------------
(* The start of the CPUs.                                                  *)

\* Every CPU has exactly one frame, and it never changes.
LEMMA OwnGicrRight ==
  ASSUME CpuInv, NEW c \in CPU
  PROVE  OwnGicr(c) \in Gicr /\ gicr_aff[OwnGicr(c)] = CpuAff[c]
<1>1. PICK i \in Gicr : gicr_aff[i] = CpuAff[c]
  BY DEF CpuInv
<1>2. \A j \in Gicr : j < i => gicr_aff[j] # CpuAff[c]
  <2> SUFFICES ASSUME NEW j \in Gicr, j < i, gicr_aff[j] = CpuAff[c]
               PROVE  FALSE
    OBVIOUS
  <2>1. j = i
    BY <1>1 DEF CpuInv
  <2> QED BY <2>1, Hardware
<1> QED BY <1>1, <1>2 DEF OwnGicr

\* Each processor finds a redistributor of its own ...
LEMMA OwnGicrIsOne ==
  ASSUME CpuInv, NEW c \in CPU
  PROVE  OwnGicr(c) # None
<1>1. PICK i \in Gicr : i = OwnGicr(c)
  BY OwnGicrRight
<1>2. i # None
  BY Hardware
<1> QED BY <1>1, <1>2

\* ... and the same one for as long as their affinities stay.
LEMMA OwnGicrStays == ASSUME UNCHANGED gicr_aff, NEW c \in CPU
                      PROVE  OwnGicr(c)' = OwnGicr(c)
BY DEF OwnGicr

\* Until the last CPU is up the ITS is all that moves.
LEMMA NotYetRunning ==
  ASSUME CpuInv, RunStep, phase # "run"
  PROVE  Translate /\ (ItsConsume \/ ItsStall)
<1>1. ASSUME NEW c \in CPU PROVE ~ (TakeIrq(c) \/ Continue(c) \/ Drivers(c))
  <2>1. pc[c] = "idle"
    BY DEF CpuInv
  <2> QED BY <2>1 DEF TakeIrq, Continue, Drivers, IdPpi, Id, HandleIpi,
    HandleDevice, HandleLpi, StartLpi, Eoi, SendSgi, LpiCfg, LpiCmd, LpiCwr,
    SetMask, SetMaskLpi, SendOr, Goto
<1>2. ~ Devices
  BY DEF Devices, Raise
<1> QED BY <1>1, <1>2 DEF RunStep, Translate

\* What can be signalled: SGI 0, or an interrupt of one of the four kinds,
\* which have no number in common.
LEMMA SignalledAre ==
  ASSUME NEW c, NEW v \in Signalled(c)
  PROVE  v \in {Ipi} \cup Ppi \cup Shared \cup Lpi
BY DEF Signalled

\* The numbers of an interrupt tell its kind.
LEMMA KindsApart ==
  /\ \A n \in Ppi : n \in 16 .. 31
  /\ \A n \in Shared : n \in 32 .. 5119
  /\ \A n \in Lpi : n \in Nat /\ n >= 8192
BY Hardware

\* An interrupt's number is one, and not that of the first SGI.
LEMMA KindsNat ==
  ASSUME NEW v, v \in Ppi \/ v \in Shared \/ v \in Lpi
  PROVE  v \in Nat /\ v # 0
<1>1. CASE v \in Ppi
  <2>1. v \in 16 .. 31
    BY <1>1, KindsApart
  <2> QED BY <2>1
<1>2. CASE v \in Shared
  <2>1. v \in 32 .. 5119
    BY <1>2, KindsApart
  <2> QED BY <2>1
<1>3. CASE v \in Lpi
  <2>1. v \in Nat /\ v >= 8192
    BY <1>3, KindsApart
  <2> QED BY <2>1
<1> QED BY <1>1, <1>2, <1>3

\* No SPI is an LPI.
LEMMA SharedNotLpi == \A n \in Shared : n \notin Lpi
<1> SUFFICES ASSUME NEW n \in Shared PROVE n \notin Lpi
  OBVIOUS
<1>1. n \in 32 .. 5119
  BY KindsApart
<1>2. ~ (n >= 8192)
  BY <1>1
<1>3. n \in Lpi => n >= 8192
  BY KindsApart
<1> QED BY <1>2, <1>3

\* What a CPU that runs does to where it is and to the interrupt it has.
LEMMA RunTypes ==
  ASSUME CpuInv, RunStep
  PROVE  pc' \in [CPU -> Pc] /\ x24' \in [CPU -> Nat] /\ sgi' \subseteq CPU
<1> USE DEF Pc, LpiPc, Goto
<1>1. CASE Devices \/ Translate
  BY <1>1 DEF Devices, Raise, Translate, CpuInv
<1>2. ASSUME NEW c \in CPU, IdPpi(c)
      PROVE  pc' \in [CPU -> Pc] /\ x24' \in [CPU -> Nat] /\ sgi' \subseteq CPU
  <2>1. ASSUME NEW v \in Highest(c) PROVE v \in Nat
    <3>1. v \in Signalled(c)
      BY <2>1 DEF Highest
    <3>2. v \in {Ipi} \cup Ppi \cup Shared \cup Lpi
      BY <3>1, SignalledAre
    <3>3. v = Ipi => v \in Nat
      BY DEF Ipi
    <3> QED BY <3>2, <3>3, KindsNat
  <2>2. /\ \/ x24' = [x24 EXCEPT ![c] = Spurious]
           \/ \E v \in Highest(c) : x24' = [x24 EXCEPT ![c] = v]
        /\ sgi' \subseteq sgi /\ pc' = [pc EXCEPT ![c] = "id"]
    BY <1>2 DEF IdPpi
  <2> QED BY <2>1, <2>2 DEF CpuInv, Spurious
<1>3. ASSUME NEW c \in CPU, Eoi(c)
      PROVE  pc' \in [CPU -> Pc] /\ x24' \in [CPU -> Nat] /\ sgi' \subseteq CPU
  BY <1>3 DEF Eoi, CpuInv, Spurious
<1>4. ASSUME NEW c \in CPU, SendSgi(c)
      PROVE  pc' \in [CPU -> Pc] /\ x24' \in [CPU -> Nat] /\ sgi' \subseteq CPU
  <2>1. Reached(x1[c]) \subseteq CPU
    BY DEF Reached
  <2> QED BY <1>4, <2>1 DEF SendSgi, CpuInv
<1>5. ASSUME NEW c \in CPU, TakeIrq(c) \/ Id(c) \/ HandleIpi(c) \/ HandleDevice(c)
      PROVE  pc' \in [CPU -> Pc] /\ x24' \in [CPU -> Nat] /\ sgi' \subseteq CPU
  BY <1>5 DEF TakeIrq, Id, HandleIpi, HandleDevice, CpuInv
<1>6. ASSUME NEW c \in CPU, HandleLpi(c) \/ LpiCfg(c) \/ LpiCmd(c) \/ LpiCwr(c)
      PROVE  pc' \in [CPU -> Pc] /\ x24' \in [CPU -> Nat] /\ sgi' \subseteq CPU
  BY <1>6 DEF HandleLpi, StartLpi, LpiCfg, LpiCmd, LpiCwr, CpuInv
<1>7. ASSUME NEW c \in CPU, Drivers(c)
      PROVE  pc' \in [CPU -> Pc] /\ x24' \in [CPU -> Nat] /\ sgi' \subseteq CPU
  BY <1>7 DEF Drivers, SetMask, SetMaskLpi, StartLpi, SendOr, CpuInv
<1> QED BY <1>1, <1>2, <1>3, <1>4, <1>5, <1>6, <1>7 DEF RunStep, Continue

\* Every step keeps what is known of the processors.
LEMMA CpuStep ==
  ASSUME EntryInv, CpuInv, Next
  PROVE  CpuInv'
<1>1. CASE Board
  <2>1. /\ UNCHANGED <<gicr_aff, up, bootcpu, sgi, pc, x24, gicr_idx, gic_map,
                       ipicmds, unmasked, cached>>
        /\ phase # "run" /\ phase' # "run"
        /\ phase' \in {"reset", "setup"} => phase \in {"reset", "setup"}
        /\ cfg' \in {cfg, {}}
    BY <1>1, BoardLeaves DEF Board, SetPaddrRange, UseMmRegCallouts,
      SetItsParams, SpiAddEntry, EspiAddEntry, LpiAddEntry, Add, Initialize,
      SetIntrTrigMode, InitLpis, ItsInitialize
  <2> QED BY <2>1, OwnGicrStays DEF CpuInv
<1>2. CASE Boot
  <2>1. /\ UNCHANGED <<gicr_aff, sgi, pc, x24, ipicmds, unmasked, cfg, cached>>
        /\ phase = "cpus" /\ phase' \in {"cpus", "crash", "run"}
    BY <1>2, BootLeaves DEF Boot, GiccFind, MapcPoll, GiccInit, EntryInv
  <2>2. ASSUME NEW c \in CPU, GiccFind(c) PROVE CpuInv'
    <3>1. /\ UNCHANGED <<phase, up, gic_map>> /\ bootcpu = None /\ bootcpu' = c
          /\ gicr_idx' = [gicr_idx EXCEPT ![c] = OwnGicr(c)]
      BY <2>2 DEF GiccFind
    <3> QED BY <2>1, <3>1, OwnGicrStays DEF CpuInv
  <2>3. CASE MapcPoll
    <3>1. UNCHANGED <<up, bootcpu, gicr_idx, gic_map>> /\ phase' # "run"
      BY <2>3 DEF MapcPoll
    <3> QED BY <2>1, <3>1, OwnGicrStays DEF CpuInv
  <2>4. CASE GiccInit
    <3>1. /\ bootcpu \in CPU /\ up' = up \cup {bootcpu} /\ bootcpu' = None
          /\ UNCHANGED gicr_idx /\ DOMAIN gic_map' = DOMAIN gic_map
          /\ phase' = IF up' = CPU THEN "run" ELSE phase
      BY <2>4 DEF GiccInit, GiccDone, CpuInv
    <3>2. \A c \in CPU : c \in up' \/ c = bootcpu' => gicr_idx[c] = OwnGicr(c)
      BY <3>1, Hardware DEF CpuInv
    <3>3. up' \subseteq CPU /\ (phase' = "run" => up' = CPU)
      BY <2>1, <3>1 DEF CpuInv
    <3> QED BY <2>1, <3>1, <3>2, <3>3, OwnGicrStays DEF CpuInv
  <2> QED BY <1>2, <2>2, <2>3, <2>4 DEF Boot
<1>3. CASE RunStep
  <2>1. UNCHANGED <<gicr_aff, phase, up, bootcpu, gicr_idx, gic_map>>
    BY <1>3, RunLeaves
  <2>2. phase # "run" =>
          UNCHANGED <<pc, ipicmds, unmasked, cfg>> /\ cached' \in {cached, cfg}
    BY <1>3, NotYetRunning DEF Translate, ItsConsume, ItsStall
  <2> QED BY <1>3, <2>1, <2>2, RunTypes, OwnGicrStays DEF CpuInv
<1> QED BY <1>1, <1>2, <1>3, NextKinds

-----------------------------------------------------------------------------
(* IPIs.                                                                   *)

\* An IPI target taken from the system page reaches the CPU it is for: by
\* affinity, or by the frame's number, which gic_v3_initialize has compared.
LEMMA TargetReaches ==
  ASSUME CpuInv, IpiInv, phase = "run", NEW t \in CPU
  PROVE  t \in Reached(gic_map[t])
<1>1. t \in up /\ gic_map[t] = IpiTarget(t) /\ gicr_idx[t] = OwnGicr(t)
  BY DEF CpuInv, IpiInv
<1>2. CASE mm
  <2>1. OwnGicr(t) = t
    BY <1>2 DEF IpiInv, Ready
  <2> QED BY <1>1, <1>2, <2>1 DEF Reached, IpiTarget
<1>3. CASE ~ mm
  BY <1>1, <1>3 DEF Reached, IpiTarget, Sgi1r
<1> QED BY <1>2, <1>3

\* A step that leaves the words, the senders and SGI 0 alone.
LEMMA QuietIpi ==
  ASSUME CpuInv, IpiInv, RunStep,
         UNCHANGED <<ipicmds, x1, dst, w7, sgi, gicr_aff, mm, gicr_idx>>,
         \A c \in CPU : \/ pc'[c] = pc[c] /\ x24'[c] = x24[c]
                        \/ /\ pc[c] # "sgi" /\ pc'[c] # "sgi"
                           /\ ~ (x24[c] = Ipi /\ pc[c] \in {"id", "handle"})
                        \/ /\ pc[c] # "sgi" /\ pc'[c] # "sgi"
                           /\ x24'[c] = x24[c] /\ pc'[c] \in {"id", "handle"}
  PROVE  IpiInv'
<1>1. UNCHANGED <<phase, up, gic_map>>
  BY RunLeaves
<1>2. NoLostIpi'
  BY DEF IpiInv, NoLostIpi
<1>3. \A c \in CPU : IpiTarget(c)' = IpiTarget(c)
  BY DEF IpiTarget
<1>4. \A c \in CPU : pc'[c] = "sgi" => pc[c] = "sgi"
  OBVIOUS
<1> QED BY <1>1, <1>2, <1>3, <1>4, OwnGicrStays DEF IpiInv, Ready, CpuInv

\* Every step keeps the addresses that sendipi takes right.
LEMMA IpiStep ==
  ASSUME EntryInv, CpuInv, IpiInv, Next
  PROVE  IpiInv'
<1> USE DEF Goto
<1>1. CASE Board
  <2>1. /\ UNCHANGED <<gicr_aff, up, gic_map, gicr_idx, pc, x24, ipicmds, x1,
                       dst, w7, sgi>>
    BY <1>1, BoardLeaves
  <2>2. phase # "run" /\ (Ready => UNCHANGED mm)
    BY <1>1 DEF Board, SetPaddrRange, UseMmRegCallouts, SetItsParams,
      SpiAddEntry, EspiAddEntry, LpiAddEntry, Add, Initialize,
      SetIntrTrigMode, Ready
  <2>3. Ready' /\ ~ Ready => (mm' => \A c \in CPU : OwnGicr(c) = c)
    BY <1>1 DEF Board, SetPaddrRange, UseMmRegCallouts, SetItsParams,
      SpiAddEntry, EspiAddEntry, LpiAddEntry, Add, Initialize,
      SetIntrTrigMode, Ready
  <2>4. NoLostIpi'
    BY <2>1 DEF IpiInv, NoLostIpi
  <2>5. ~ Ready => up = {}
    BY DEF Ready, CpuInv, EntryInv
  <2>6. \A c \in up : IpiTarget(c)' = IpiTarget(c)
    BY <2>2, <2>5 DEF IpiTarget
  <2> QED BY <2>1, <2>2, <2>3, <2>4, <2>6, OwnGicrStays DEF IpiInv, CpuInv
<1>2. CASE Boot
  <2>1. /\ UNCHANGED <<mm, gicr_aff, pc, x24, ipicmds, x1, dst, w7, sgi>>
        /\ Ready /\ phase # "run"
    BY <1>2, BootLeaves DEF Boot, GiccFind, MapcPoll, GiccInit, Ready
  <2>2. NoLostIpi'
    BY <2>1 DEF IpiInv, NoLostIpi
  <2>3. \A c \in up' : gic_map'[c] = IpiTarget(c)
    <3>1. CASE GiccInit
      BY <3>1 DEF GiccInit, GiccDone, IpiInv, CpuInv
    <3>2. CASE ~ GiccInit
      BY <1>2, <3>2 DEF Boot, GiccFind, MapcPoll, IpiInv
    <3> QED BY <3>1, <3>2
  <2>4. \A c \in CPU : pc'[c] # "sgi" /\ IpiTarget(c)' = IpiTarget(c)
    BY <2>1 DEF CpuInv, IpiTarget
  <2>5. up' \subseteq CPU
    BY <1>2 DEF Boot, GiccFind, MapcPoll, GiccInit, GiccDone, CpuInv
  <2> QED BY <2>1, <2>2, <2>3, <2>4, <2>5, OwnGicrStays DEF IpiInv
<1>3. CASE Devices \/ Translate
  BY <1>3, QuietIpi DEF Devices, Raise, Translate, RunStep
<1>4. ASSUME NEW c \in CPU, \/ TakeIrq(c) \/ HandleDevice(c) \/ HandleLpi(c)
                             \/ Eoi(c) \/ LpiCfg(c) \/ LpiCmd(c) \/ LpiCwr(c)
      PROVE  IpiInv'
  <2>1. /\ UNCHANGED <<ipicmds, x1, dst, w7, sgi, gicr_aff, mm, gicr_idx>>
        /\ pc[c] # "sgi" /\ pc'[c] # "sgi"
        /\ \A d \in CPU \ {c} : pc'[d] = pc[d] /\ x24'[d] = x24[d]
    BY <1>4 DEF TakeIrq, HandleDevice, HandleLpi, StartLpi, Eoi, LpiCfg,
      LpiCmd, LpiCwr, CpuInv
  <2>2. ~ (x24[c] = Ipi /\ pc[c] \in {"id", "handle"})
    <3>1. CASE HandleDevice(c) \/ HandleLpi(c)
      <4>1. x24[c] \in Ppi \cup Shared \/ x24[c] \in Lpi
        BY <3>1 DEF HandleDevice, HandleLpi
      <4>2. x24[c] # Ipi
        BY <4>1, KindsNat DEF Ipi
      <4> QED BY <4>2
    <3>2. CASE ~ (HandleDevice(c) \/ HandleLpi(c))
      BY <1>4, <3>2 DEF TakeIrq, Eoi, LpiCfg, LpiCmd, LpiCwr
    <3> QED BY <3>1, <3>2
  <2>3. RunStep
    BY <1>4 DEF RunStep, Continue
  <2> QED BY <2>1, <2>2, <2>3, QuietIpi
<1>5. ASSUME NEW c \in CPU, IdPpi(c)
      PROVE  IpiInv'
  <2>1. /\ UNCHANGED <<ipicmds, x1, dst, w7, gicr_aff, mm, gicr_idx, phase, up,
                       gic_map>>
        /\ pc[c] = "iar" /\ pc'[c] = "id"
        /\ \A d \in CPU \ {c} : pc'[d] = pc[d] /\ x24'[d] = x24[d]
    BY <1>5 DEF IdPpi, CpuInv
  <2>2. sgi' = sgi \/ (x24'[c] = Ipi /\ sgi' = sgi \ {c})
    BY <1>5 DEF IdPpi, CpuInv
  <2>3. NoLostIpi'
    <3> SUFFICES ASSUME NEW t \in CPU, ipicmds[t] # {},
                        ~ (x24'[t] = Ipi /\ pc'[t] \in {"id", "handle"})
                 PROVE  \/ t \in sgi'
                        \/ \E s \in CPU : pc'[s] = "sgi" /\ dst[s] = t /\ w7[s] = {}
      BY <2>1 DEF NoLostIpi
    <3>1. \/ t \in sgi
          \/ \E s \in CPU : pc[s] = "sgi" /\ dst[s] = t /\ w7[s] = {}
      BY <2>1 DEF IpiInv, NoLostIpi
    <3>2. t \in sgi => t \in sgi'
      BY <2>1, <2>2
    <3>3. \A s \in CPU : pc[s] = "sgi" => pc'[s] = "sgi"
      BY <2>1
    <3> QED BY <3>1, <3>2, <3>3
  <2>4. \A d \in CPU : IpiTarget(d)' = IpiTarget(d) /\ OwnGicr(d)' = OwnGicr(d)
    BY <2>1, OwnGicrStays DEF IpiTarget
  <2>5. \A d \in CPU : pc'[d] = "sgi" => pc[d] = "sgi"
    BY <2>1
  <2>6. up \subseteq CPU
    BY DEF CpuInv
  <2> QED BY <2>1, <2>3, <2>4, <2>5, <2>6 DEF IpiInv, Ready
<1>6. ASSUME NEW c \in CPU, Id(c)
      PROVE  IpiInv'
  <2>1. /\ UNCHANGED <<ipicmds, x1, dst, w7, sgi, gicr_aff, mm, gicr_idx, x24>>
        /\ pc[c] = "id" /\ pc'[c] \in {"idle", "handle"}
        /\ \A d \in CPU \ {c} : pc'[d] = pc[d]
    BY <1>6 DEF Id, CpuInv
  <2>2. x24[c] = Ipi => pc'[c] = "handle"
    BY <1>6 DEF Id, Claimed, ClaimPpi, Ipi, CpuInv
  <2>3. RunStep
    BY <1>6 DEF RunStep, Continue
  <2> QED BY <2>1, <2>2, <2>3, QuietIpi
<1>7. ASSUME NEW c \in CPU, HandleIpi(c)
      PROVE  IpiInv'
  <2>1. /\ UNCHANGED <<x1, dst, w7, sgi, gicr_aff, mm, gicr_idx, phase, up,
                       gic_map, x24>>
        /\ pc[c] = "handle" /\ pc'[c] = "eoi"
        /\ \A d \in CPU \ {c} : pc'[d] = pc[d]
        /\ ipicmds' = [ipicmds EXCEPT ![c] = {}]
    BY <1>7 DEF HandleIpi, CpuInv
  <2>2. NoLostIpi'
    BY <2>1 DEF IpiInv, NoLostIpi
  <2>3. \A d \in CPU : IpiTarget(d)' = IpiTarget(d)
    BY <2>1 DEF IpiTarget
  <2> QED BY <2>1, <2>2, <2>3, OwnGicrStays, SMTT(20) DEF IpiInv, Ready, CpuInv
<1>8. ASSUME NEW c \in CPU, SendSgi(c)
      PROVE  IpiInv'
  <2>1. /\ UNCHANGED <<ipicmds, gicr_aff, mm, gicr_idx, phase, up, gic_map, x24>>
        /\ pc[c] = "sgi" /\ pc'[c] = "idle"
        /\ \A d \in CPU \ {c} : /\ pc'[d] = pc[d] /\ x1'[d] = x1[d]
                                /\ dst'[d] = dst[d] /\ w7'[d] = w7[d]
        /\ sgi' = IF w7[c] = {} THEN sgi \cup Reached(x1[c]) ELSE sgi
        /\ dst' = [dst EXCEPT ![c] = c]
        /\ DOMAIN x1' = CPU /\ DOMAIN w7' = CPU
    BY <1>8 DEF SendSgi, CpuInv, IpiInv
  <2>2. phase = "run"
    BY <2>1 DEF CpuInv
  <2>3. w7[c] = {} => dst[c] \in sgi'
    BY <2>1, <2>2, TargetReaches DEF IpiInv
  <2>4. NoLostIpi'
    <3> SUFFICES ASSUME NEW t \in CPU, ipicmds[t] # {}, t \notin sgi'
                 PROVE  \/ \E s \in CPU : pc'[s] = "sgi" /\ dst'[s] = t
                                           /\ w7'[s] = {}
                        \/ x24'[t] = Ipi /\ pc'[t] \in {"id", "handle"}
      BY <2>1 DEF NoLostIpi
    <3>1. CASE t \in sgi
      BY <2>1, <3>1
    <3>2. ASSUME NEW s \in CPU, pc[s] = "sgi" /\ dst[s] = t /\ w7[s] = {}
          PROVE  \E r \in CPU : pc'[r] = "sgi" /\ dst'[r] = t /\ w7'[r] = {}
      <4>1. s # c
        BY <2>3, <3>2
      <4> QED BY <2>1, <3>2, <4>1
    <3>3. CASE x24[t] = Ipi /\ pc[t] \in {"id", "handle"}
      BY <2>1, <3>3
    <3> QED BY <3>1, <3>2, <3>3 DEF IpiInv, NoLostIpi
  <2>5. \A d \in CPU : IpiTarget(d)' = IpiTarget(d)
    BY <2>1 DEF IpiTarget
  <2> QED BY <2>1, <2>4, <2>5, OwnGicrStays DEF IpiInv, Ready, CpuInv
<1>9. ASSUME NEW c \in CPU, NEW t \in CPU, NEW cmd \in Cmd, SendOr(c, t, cmd)
      PROVE  IpiInv'
  <2>1. /\ UNCHANGED <<sgi, gicr_aff, mm, gicr_idx, phase, up, gic_map, x24>>
        /\ pc[c] = "idle" /\ pc'[c] = "sgi"
        /\ x1'[c] = gic_map[t] /\ dst'[c] = t /\ w7'[c] = ipicmds[t]
        /\ \A d \in CPU \ {c} : /\ pc'[d] = pc[d] /\ x1'[d] = x1[d]
                                /\ dst'[d] = dst[d] /\ w7'[d] = w7[d]
        /\ \A d \in CPU \ {t} : ipicmds'[d] = ipicmds[d]
    BY <1>9 DEF SendOr, CpuInv, IpiInv
  <2>2. /\ DOMAIN ipicmds' = CPU /\ DOMAIN x1' = CPU /\ DOMAIN w7' = CPU
        /\ dst' \in [CPU -> CPU]
    BY <1>9 DEF SendOr, IpiInv
  <2>3. NoLostIpi'
    <3> SUFFICES ASSUME NEW u \in CPU, ipicmds'[u] # {}, u \notin sgi
                 PROVE  \/ \E s \in CPU : pc'[s] = "sgi" /\ dst'[s] = u
                                           /\ w7'[s] = {}
                        \/ x24[u] = Ipi /\ pc'[u] \in {"id", "handle"}
      BY <2>1 DEF NoLostIpi
    <3>1. CASE ipicmds[u] = {}
      <4>1. u = t
        BY <2>1, <3>1
      <4> QED BY <2>1, <3>1, <4>1
    <3>2. CASE ipicmds[u] # {}
      <4>1. \/ \E s \in CPU : pc[s] = "sgi" /\ dst[s] = u /\ w7[s] = {}
            \/ x24[u] = Ipi /\ pc[u] \in {"id", "handle"}
        BY <3>2 DEF IpiInv, NoLostIpi
      <4>2. ASSUME NEW s \in CPU, pc[s] = "sgi"
            PROVE  pc'[s] = "sgi" /\ dst'[s] = dst[s] /\ w7'[s] = w7[s]
        <5>1. s # c
          BY <2>1, <4>2
        <5> QED BY <2>1, <4>2, <5>1
      <4>3. pc[u] \in {"id", "handle"} => pc'[u] = pc[u]
        BY <2>1
      <4> QED BY <4>1, <4>2, <4>3
    <3> QED BY <3>1, <3>2
  <2>4. \A d \in CPU : IpiTarget(d)' = IpiTarget(d)
    BY <2>1 DEF IpiTarget
  <2> QED BY <2>1, <2>2, <2>3, <2>4, OwnGicrStays DEF IpiInv, Ready, CpuInv
<1>10. ASSUME NEW c \in CPU, NEW n, NEW on, SetMask(c, n, on) \/ SetMaskLpi(c, n, on),
              RunStep
       PROVE  IpiInv'
  <2>1. /\ UNCHANGED <<ipicmds, x1, dst, w7, sgi, gicr_aff, mm, gicr_idx>>
        /\ pc[c] = "idle" /\ pc'[c] # "sgi"
        /\ \A d \in CPU \ {c} : pc'[d] = pc[d] /\ x24'[d] = x24[d]
    BY <1>10 DEF SetMask, SetMaskLpi, StartLpi, CpuInv
  <2> QED BY <1>10, <2>1, QuietIpi
<1>11. CASE RunStep
  BY <1>3, <1>4, <1>5, <1>6, <1>7, <1>8, <1>9, <1>10, <1>11
     DEF RunStep, Continue, Drivers
<1> QED BY <1>1, <1>2, <1>11, NextKinds

-----------------------------------------------------------------------------
(* Lines: mask, unmask and what is signalled.                              *)

\* The vector a callout gets and the offset patched into it add up to the
\* number relative to the class.
LEMMA Offsets ==
  ASSUME EntryInv, NEW cls \in Classes, NEW n \in Nat, HasEntry(cls, n)
  PROVE  /\ Vector(cls, n) + VecOff(cls, n) = n - Base(cls)
         /\ Base(cls) + Vector(cls, n) + VecOff(cls, n) = n
         /\ n >= Base(cls)
<1>1. PICK i \in Within(cls, n) : EntryOf(cls, n) = entries[cls][i]
  BY DEF HasEntry, EntryOf
<1>2. i \in 1 .. Len(entries[cls]) /\ n \in Vectors(entries[cls][i])
  BY <1>1 DEF Within
<1>3. entries[cls][i] \in Entry /\ entries[cls][i].base >= Base(cls)
  BY <1>2 DEF EntryInv
<1>4. PICK a \in Nat : a = entries[cls][i].base
  BY <1>3 DEF Entry
<1>5. PICK k \in Nat : k = entries[cls][i].num
  BY <1>3 DEF Entry
<1>6. a >= Base(cls) /\ n >= a
  BY <1>2, <1>3, <1>4, <1>5 DEF Vectors
<1>7. Vector(cls, n) = n - a /\ VecOff(cls, n) = a - Base(cls)
  BY <1>1, <1>4 DEF Vector, VecOff
<1> QED BY <1>6, <1>7, ClassBounds

\* The register and bit computed from the two are those of the interrupt.
LEMMA BitOfIs ==
  ASSUME EntryInv, NEW cls \in {"spi", "espi"}, NEW n \in Nat, HasEntry(cls, n)
  PROVE  BitOf(cls, n) = n
<1>1. cls \in Classes
  BY DEF Classes
<1>2. PICK r \in Nat : r = n - Base(cls)
  BY <1>1, Offsets, ClassBounds
<1>3. BitOf(cls, n) = Base(cls) + 32 * (r \div 32) + (r % 32)
  BY <1>1, <1>2, Offsets DEF BitOf, SpiBit
<1>4. 32 * (r \div 32) + (r % 32) = r
  OBVIOUS
<1> QED BY <1>1, <1>2, <1>3, <1>4, ClassBounds

\* An SPI and an LPI have one line, a PPI one for each processor.
LEMMA LineIs ==
  /\ \A i, n : n \in Ppi => Line(i, n) = <<i, n>>
  /\ \A i, n : n \in Shared => Line(i, n) = <<None, n>>
  /\ \A i, n : n \in Lpi => Line(i, n) = <<None, n>>
<1>1. ASSUME NEW n \in Ppi PROVE n < 32
  <2>1. n \in 16 .. 31
    BY KindsApart
  <2> QED BY <2>1
<1>2. ASSUME NEW n \in Shared PROVE ~ (n < 32)
  <2>1. n \in 32 .. 5119
    BY KindsApart
  <2> QED BY <2>1
<1>3. ASSUME NEW n \in Lpi PROVE ~ (n < 32)
  <2>1. n \in Nat /\ n >= 8192
    BY KindsApart
  <2> QED BY <2>1
<1> QED BY <1>1, <1>2, <1>3 DEF Line, SpiBase

\* A callout changes the line of the interrupt it is asked for.
LEMMA LineOfIs ==
  ASSUME EntryInv, NEW c, gicr_idx[c] = OwnGicr(c), NEW n \in Ppi \cup Shared,
         n \in Shared => HasEntry(ClassOf(n), n)
  PROVE  LineOf(c, n) = Line(OwnGicr(c), n)
<1>1. CASE n \in Ppi
  <2>1. n \in 16 .. 31
    BY <1>1, KindsApart
  <2>2. n < SpiBase
    BY <2>1 DEF SpiBase
  <2> QED BY <2>2 DEF LineOf, PpiBit
<1>2. CASE n \in Shared
  <2>1. n \in 32 .. 5119
    BY <1>2, KindsApart
  <2>2. n \in Nat /\ ~ (n < SpiBase)
    BY <2>1 DEF SpiBase
  <2>3. BitOf(ClassOf(n), n) = n
    BY <1>2, <2>2, BitOfIs DEF ClassOf
  <2>4. LineOf(c, n) = Line(0, n)
    BY <2>2, <2>3 DEF LineOf, ClassOf
  <2> QED BY <1>2, <2>4, LineIs
<1> QED BY <1>1, <1>2

\* An LPI enabled in the table is unmasked, or about to be masked there.
OpOk(n) == \/ <<None, n>> \in unmasked
           \/ \E c \in CPU : pc[c] = "lpi_cfg" /\ op[c] = <<n, FALSE>>

\* The kernel masks and unmasks a line and its callout does the same.
LEMMA MaskKeepsLines ==
  ASSUME EntryInv, CpuInv, LineInv, phase = "run", NEW c \in CPU,
         NEW n \in Ppi \cup Shared, n \in Shared => HasEntry(ClassOf(n), n),
         \/ /\ enabled' = enabled \ {Line(OwnGicr(c), n)}
            /\ unmasked' = unmasked \ {Line(OwnGicr(c), n)}
         \/ /\ enabled' = enabled \cup {Line(OwnGicr(c), n)}
            /\ unmasked' = unmasked \cup {Line(OwnGicr(c), n)},
         UNCHANGED <<entries, gicr_aff, up, phase, cfg, op, x24>>,
         \A d \in CPU : /\ pc'[d] \in {"id", "handle", "lpi_cfg"} => pc'[d] = pc[d]
                        /\ pc[d] = "lpi_cfg" => pc'[d] = "lpi_cfg"
  PROVE  LineInv'
<1> DEFINE l == Line(OwnGicr(c), n)
<1>1. \A d \in CPU : OwnGicr(d)' = OwnGicr(d)
  BY OwnGicrStays
<1>2. \A m : m \in Shared => HasEntry(ClassOf(m), m)' = HasEntry(ClassOf(m), m)
  BY DEF HasEntry, Within, Vectors
<1>3. ASSUME NEW d \in up', NEW id \in Ppi, <<OwnGicr(d), id>> \in enabled'
      PROVE  <<OwnGicr(d), id>> \in unmasked'
  <2>1. <<OwnGicr(d), id>> \in enabled => <<OwnGicr(d), id>> \in unmasked
    BY DEF LineInv
  <2> QED BY <1>3, <2>1
<1>4. ASSUME NEW m \in Shared, <<None, m>> \in enabled'
      PROVE  <<None, m>> \in unmasked' /\ HasEntry(ClassOf(m), m)
  <2>1. <<None, m>> \in enabled =>
          <<None, m>> \in unmasked /\ HasEntry(ClassOf(m), m)
    BY DEF LineInv, Ready
  <2>2. CASE n \in Shared /\ l = <<None, m>>
    <3>1. m = n
      BY <2>2, LineIs
    <3> QED BY <1>4, <2>1, <2>2, <3>1
  <2>3. CASE n \in Ppi
    <3>1. l = <<OwnGicr(c), n>> /\ OwnGicr(c) # None
      BY <2>3, LineIs, OwnGicrIsOne
    <3> QED BY <1>4, <2>1, <3>1
  <2>4. CASE l # <<None, m>>
    BY <1>4, <2>1, <2>4
  <2> QED BY <2>2, <2>3, <2>4
<1>5. ASSUME NEW m \in Lpi \cap cfg, <<None, m>> \in unmasked
      PROVE  <<None, m>> \in unmasked'
  <2>1. l # <<None, m>>
    <3>1. CASE n \in Ppi
      BY <3>1, LineIs, OwnGicrIsOne
    <3>2. CASE n \in Shared
      <4>1. l = <<None, n>> /\ n # m
        BY <3>2, LineIs, SharedNotLpi
      <4> QED BY <4>1
    <3> QED BY <3>1, <3>2
  <2> QED BY <1>5, <2>1
<1>6. \A m \in Lpi \cap cfg : OpOk(m)'
  <2> SUFFICES ASSUME NEW m \in Lpi \cap cfg PROVE OpOk(m)'
    OBVIOUS
  <2>1. OpOk(m)
    BY DEF LineInv, OpOk
  <2> QED BY <1>5, <2>1 DEF OpOk
<1>7. \A d \in CPU : pc'[d] \in {"id", "handle"} /\ x24[d] \in Shared =>
        HasEntry(ClassOf(x24[d]), x24[d])
  BY DEF LineInv
<1>8. DOMAIN op' = CPU /\ \A d \in CPU : pc'[d] = "lpi_cfg" => op'[d] \in Lpi \X BOOLEAN
  BY DEF LineInv
<1>9. up \subseteq CPU
  BY DEF CpuInv
<1> QED BY <1>1, <1>2, <1>3, <1>4, <1>6, <1>7, <1>8, <1>9 DEF LineInv, OpOk

\* A step that leaves the lines, the masks and the LPI requests alone.
LEMMA QuietLines ==
  ASSUME CpuInv, LineInv,
         UNCHANGED <<entries, gicr_aff, up, phase, cfg, op, enabled, unmasked>>,
         \A d \in CPU : /\ pc'[d] = "lpi_cfg" <=> pc[d] = "lpi_cfg"
                        /\ pc'[d] \in {"id", "handle"} /\ x24'[d] \in Shared =>
                             HasEntry(ClassOf(x24'[d]), x24'[d])
  PROVE  LineInv'
<1>1. \A d \in CPU : OwnGicr(d)' = OwnGicr(d)
  BY OwnGicrStays
<1>2. \A m : HasEntry(ClassOf(m), m)' = HasEntry(ClassOf(m), m)
  BY DEF HasEntry, Within, Vectors
<1>3. \A d \in CPU : HasEntry(ClassOf(x24[d]), x24[d])' = HasEntry(ClassOf(x24'[d]), x24'[d])
  BY DEF HasEntry, Within, Vectors, ClassOf
<1>4. up \subseteq CPU
  BY DEF CpuInv
<1> QED BY <1>1, <1>2, <1>3, <1>4 DEF LineInv, Ready

\* Every step keeps masked lines quiet.
LEMMA LineStep ==
  ASSUME EntryInv, CpuInv, LineInv, Next
  PROVE  LineInv'
<1> USE DEF Goto
<1>1. CASE Board
  <2>1. UNCHANGED <<gicr_aff, up, pc, x24, op, unmasked>> /\ phase # "run"
    BY <1>1, BoardLeaves DEF Board, SetPaddrRange, UseMmRegCallouts,
      SetItsParams, SpiAddEntry, EspiAddEntry, LpiAddEntry, Add, Initialize,
      SetIntrTrigMode
  <2>2. up = {} \/ UNCHANGED <<entries, enabled>>
    BY <1>1 DEF Board, SetPaddrRange, UseMmRegCallouts, SetItsParams,
      SpiAddEntry, EspiAddEntry, LpiAddEntry, Add, Initialize,
      SetIntrTrigMode, CpuInv, EntryInv
  <2>3. CASE Initialize
    <3>1. enabled' = enabled \ SpiLines /\ cfg' \in {cfg, {}}
      BY <2>3 DEF Initialize, InitDistributor, InitLpis
    <3>2. ASSUME NEW n \in Shared PROVE <<None, n>> \notin enabled'
      <4>1. <<None, n>> = Line(0, n)
        BY LineIs
      <4>2. <<None, n>> \in SpiLines
        BY <4>1 DEF SpiLines
      <4> QED BY <3>1, <4>2
    <3>3. up = {} /\ cfg = {}
      BY <2>1, <2>3 DEF Initialize, CpuInv
    <3> QED BY <2>1, <3>1, <3>2, <3>3 DEF LineInv, CpuInv
  <2>4. CASE ~ Initialize
    <3>1. /\ Ready' => Ready /\ UNCHANGED <<entries, enabled>>
          /\ UNCHANGED cfg
      BY <1>1, <2>4 DEF Board, SetPaddrRange, UseMmRegCallouts, SetItsParams,
        SpiAddEntry, EspiAddEntry, LpiAddEntry, Add, SetIntrTrigMode, Ready
    <3>2. UNCHANGED entries => \A m : HasEntry(ClassOf(m), m)' = HasEntry(ClassOf(m), m)
      BY DEF HasEntry, Within, Vectors
    <3>3. \A c \in up : OwnGicr(c)' = OwnGicr(c)
      BY <2>1, OwnGicrStays DEF CpuInv
    <3>4. /\ cfg = {}
          /\ \A c \in CPU : pc[c] = "idle"
      BY <2>1 DEF CpuInv
    <3> QED BY <2>1, <2>2, <3>1, <3>2, <3>3, <3>4 DEF LineInv
  <2> QED BY <2>3, <2>4
<1>2. CASE Boot
  <2>1. /\ UNCHANGED <<entries, gicr_aff, pc, x24, op, unmasked, cfg>>
        /\ Ready /\ phase # "run"
    BY <1>2, BootLeaves DEF Boot, GiccFind, MapcPoll, GiccInit, Ready
  <2>2. /\ \A c \in CPU : pc[c] = "idle"
        /\ cfg = {}
    BY <2>1 DEF CpuInv
  <2>3. /\ enabled' \subseteq enabled
        /\ \A c \in up' : c \in up \/ enabled' \cap PpiLines(OwnGicr(c)) = {}
    <3>1. CASE GiccInit
      BY <3>1 DEF GiccInit, GiccDone, CpuInv
    <3>2. CASE ~ GiccInit
      BY <1>2, <3>2 DEF Boot, GiccFind, MapcPoll
    <3> QED BY <3>1, <3>2
  <2>4. \A m : HasEntry(ClassOf(m), m)' = HasEntry(ClassOf(m), m)
    BY <2>1 DEF HasEntry, Within, Vectors
  <2>5. ASSUME NEW c \in up', NEW id \in Ppi, <<OwnGicr(c), id>> \in enabled'
        PROVE  <<OwnGicr(c), id>> \in unmasked
    <3>1. CASE c \in up
      BY <2>3, <2>5, <3>1 DEF LineInv
    <3>2. <<OwnGicr(c), id>> \in PpiLines(OwnGicr(c))
      BY LineIs DEF PpiLines
    <3> QED BY <2>3, <2>5, <3>1, <3>2
  <2>6. \A c \in CPU : OwnGicr(c)' = OwnGicr(c)
    BY <2>1, OwnGicrStays
  <2>7. up' \subseteq CPU
    BY <1>2 DEF Boot, GiccFind, MapcPoll, GiccInit, GiccDone, CpuInv
  <2> QED BY <2>1, <2>2, <2>3, <2>4, <2>5, <2>6, <2>7 DEF LineInv
<1>3. CASE Devices \/ Translate
  <2>1. UNCHANGED <<entries, gicr_aff, up, phase, cfg, op, enabled, unmasked, pc, x24>>
    BY <1>3 DEF Devices, Raise, Translate, ItsConsume, ItsPrefetch, ItsStall
  <2> QED BY <2>1, QuietLines DEF LineInv
<1>4. ASSUME NEW c \in CPU, \/ TakeIrq(c) \/ Id(c) \/ HandleIpi(c) \/ Eoi(c)
                             \/ LpiCmd(c) \/ SendSgi(c)
      PROVE  LineInv'
  <2>1. UNCHANGED <<entries, gicr_aff, up, phase, cfg, op, enabled, unmasked>>
    BY <1>4 DEF TakeIrq, Id, HandleIpi, Eoi, LpiCmd, LpiQueue, SendSgi
  <2>2. /\ \A d \in CPU \ {c} : pc'[d] = pc[d] /\ x24'[d] = x24[d]
        /\ pc[c] # "lpi_cfg" /\ pc'[c] # "lpi_cfg"
        /\ pc'[c] \in {"id", "handle"} => x24'[c] = x24[c] /\ pc[c] = "id"
    BY <1>4 DEF TakeIrq, Id, HandleIpi, Eoi, LpiCmd, SendSgi, CpuInv
  <2> QED BY <2>1, <2>2, QuietLines DEF LineInv
<1>5. ASSUME NEW c \in CPU, LpiCwr(c)
      PROVE  LineInv'
  <2>1. /\ UNCHANGED <<entries, gicr_aff, up, phase, cfg, enabled, unmasked, x24>>
        /\ \A d \in CPU \ {c} : pc'[d] = pc[d] /\ op'[d] = op[d]
        /\ pc[c] = "lpi_cwr" /\ pc'[c] \in {"idle", "eoi"}
        /\ DOMAIN op' = CPU
    BY <1>5 DEF LpiCwr, LpiCwriter, CpuInv, LineInv
  <2>2. \A d \in CPU : OwnGicr(d)' = OwnGicr(d)
    BY <2>1, OwnGicrStays
  <2>3. \A m : HasEntry(ClassOf(m), m)' = HasEntry(ClassOf(m), m)
    BY <2>1 DEF HasEntry, Within, Vectors
  <2>4. \A m \in Lpi \cap cfg : OpOk(m)'
    <3> SUFFICES ASSUME NEW m \in Lpi \cap cfg, <<None, m>> \notin unmasked
                 PROVE  \E d \in CPU : pc'[d] = "lpi_cfg" /\ op'[d] = <<m, FALSE>>
      BY <2>1 DEF OpOk
    <3>1. PICK d \in CPU : pc[d] = "lpi_cfg" /\ op[d] = <<m, FALSE>>
      BY DEF LineInv
    <3> QED BY <2>1, <3>1
  <2>5. up \subseteq CPU
    BY DEF CpuInv
  <2> QED BY <2>1, <2>2, <2>3, <2>4, <2>5 DEF LineInv, Ready, OpOk
<1>6. ASSUME NEW c \in CPU, IdPpi(c)
      PROVE  LineInv'
  <2>1. UNCHANGED <<entries, gicr_aff, up, phase, cfg, op, enabled, unmasked>>
    BY <1>6 DEF IdPpi
  <2>2. /\ \A d \in CPU \ {c} : pc'[d] = pc[d] /\ x24'[d] = x24[d]
        /\ pc[c] = "iar" /\ pc'[c] = "id"
    BY <1>6 DEF IdPpi, CpuInv
  <2>3. x24'[c] = Spurious \/ x24'[c] \in Signalled(c)
    BY <1>6 DEF IdPpi, Highest, CpuInv
  <2>4. Spurious \notin Shared
    <3>1. Spurious = 1023 /\ Spurious \notin 32 .. 1019
      BY DEF Spurious
    <3>2. Spurious \notin 4096 .. 5119
      BY DEF Spurious
    <3> QED BY <3>1, <3>2, Hardware
  <2>5. ASSUME NEW v \in Shared, v \in Signalled(c) PROVE HasEntry(ClassOf(v), v)
    <3>1. v # Ipi /\ v \notin Lpi
      BY KindsNat, SharedNotLpi DEF Ipi
    <3>2. Line(OwnGicr(c), v) \in enabled
      BY <2>5, <3>1 DEF Signalled
    <3>3. phase = "run"
      BY <2>2 DEF CpuInv
    <3> QED BY <3>2, <3>3, LineIs DEF LineInv, Ready
  <2> QED BY <2>1, <2>2, <2>3, <2>4, <2>5, QuietLines, ZenonT(40) DEF LineInv
<1>7. ASSUME NEW c \in CPU, HandleDevice(c)
      PROVE  LineInv'
  <2>1. /\ pc[c] = "handle" /\ pc' = [pc EXCEPT ![c] = "eoi"]
        /\ x24[c] \in Ppi \cup Shared
        /\ UNCHANGED <<entries, gicr_aff, up, phase, cfg, op, x24>>
        /\ enabled' = enabled \ {LineOf(c, x24[c])}
        /\ unmasked' = unmasked \ {Line(OwnGicr(c), x24[c])}
    BY <1>7 DEF HandleDevice
  <2>2. phase = "run" /\ gicr_idx[c] = OwnGicr(c)
    BY <2>1 DEF CpuInv
  <2>3. x24[c] \in Shared => HasEntry(ClassOf(x24[c]), x24[c])
    BY <2>1 DEF LineInv
  <2>4. LineOf(c, x24[c]) = Line(OwnGicr(c), x24[c])
    BY <2>1, <2>2, <2>3, LineOfIs
  <2>5. \A d \in CPU : /\ pc'[d] \in {"id", "handle", "lpi_cfg"} => pc'[d] = pc[d]
                       /\ pc[d] = "lpi_cfg" => pc'[d] = "lpi_cfg"
    BY <2>1 DEF CpuInv
  <2> QED BY <2>1, <2>2, <2>3, <2>4, <2>5, MaskKeepsLines
<1>8. ASSUME NEW c \in CPU, NEW n \in Ppi \cup Shared, NEW on \in BOOLEAN,
             SetMask(c, n, on)
      PROVE  LineInv'
  <2>1. /\ phase = "run"
        /\ UNCHANGED <<entries, gicr_aff, up, phase, cfg, op, x24, pc>>
        /\ enabled' = IF on THEN enabled \cup {LineOf(c, n)}
                            ELSE enabled \ {LineOf(c, n)}
        /\ unmasked' = IF on THEN unmasked \cup {Line(OwnGicr(c), n)}
                             ELSE unmasked \ {Line(OwnGicr(c), n)}
    BY <1>8 DEF SetMask
  <2>2. gicr_idx[c] = OwnGicr(c)
    BY <2>1 DEF CpuInv
  <2>3. n \in Shared => HasEntry(ClassOf(n), n)
    <3> SUFFICES ASSUME n \in Shared PROVE HasEntry(ClassOf(n), n)
      OBVIOUS
    <3>1. n \in 32 .. 5119
      BY KindsApart
    <3>2. n >= SpiBase
      BY <3>1 DEF SpiBase
    <3> QED BY <1>8, <3>2 DEF SetMask, ClassOf
  <2>4. LineOf(c, n) = Line(OwnGicr(c), n)
    BY <2>2, <2>3, LineOfIs
  <2> QED BY <2>1, <2>3, <2>4, MaskKeepsLines
<1>9. ASSUME NEW c \in CPU, NEW n \in Lpi, NEW on \in BOOLEAN, NEW from \in Pc,
             StartLpi(c, n, on, from), from # "lpi_cfg"
      PROVE  LineInv'
  <2>1. /\ UNCHANGED <<entries, gicr_aff, up, phase, cfg, enabled, x24>>
        /\ pc[c] = from /\ pc' = [pc EXCEPT ![c] = "lpi_cfg"]
        /\ HasEntry("lpi", n)
        /\ unmasked' = IF on THEN unmasked ELSE unmasked \ {Line(0, n)}
    BY <1>9 DEF StartLpi, LpiLock
  <2>2. op' = [op EXCEPT ![c] = <<n, on>>]
    <3>1. n \in Nat /\ "lpi" \in Classes
      BY KindsNat DEF Classes
    <3>2. Base("lpi") + Vector("lpi", n) + VecOff("lpi", n) = n
      BY <2>1, <3>1, Offsets
    <3> QED BY <1>9, <3>2 DEF StartLpi
  <2>3. \A d \in CPU : OwnGicr(d)' = OwnGicr(d)
    BY <2>1, OwnGicrStays
  <2>4. \A m : HasEntry(ClassOf(m), m)' = HasEntry(ClassOf(m), m)
    BY <2>1 DEF HasEntry, Within, Vectors
  <2>5. Line(0, n) = <<None, n>>
    BY LineIs
  <2>6. \A m \in Lpi \cap cfg : OpOk(m)'
    <3> SUFFICES ASSUME NEW m \in Lpi \cap cfg, <<None, m>> \notin unmasked'
                 PROVE  \E d \in CPU : pc'[d] = "lpi_cfg" /\ op'[d] = <<m, FALSE>>
      BY <2>1 DEF OpOk
    <3>1. CASE <<None, m>> \in unmasked
      <4>1. m = n /\ ~ on
        BY <2>1, <2>5, <3>1
      <4>2. pc'[c] = "lpi_cfg" /\ op'[c] = <<m, FALSE>>
        BY <2>1, <2>2, <4>1 DEF CpuInv, LineInv
      <4> QED BY <4>2
    <3>2. CASE <<None, m>> \notin unmasked
      <4>1. PICK d \in CPU : pc[d] = "lpi_cfg" /\ op[d] = <<m, FALSE>>
        BY <3>2 DEF LineInv
      <4>2. d # c
        BY <1>9, <2>1, <4>1
      <4>3. pc'[d] = "lpi_cfg" /\ op'[d] = <<m, FALSE>>
        BY <2>1, <2>2, <4>1, <4>2 DEF CpuInv, LineInv
      <4> QED BY <4>3
    <3> QED BY <3>1, <3>2
  <2>7. \A d \in up : \A id \in Ppi : <<OwnGicr(d), id>> \in unmasked =>
          <<OwnGicr(d), id>> \in unmasked'
    <3> SUFFICES ASSUME NEW d \in up, NEW id \in Ppi
                 PROVE  <<OwnGicr(d), id>> # <<None, n>>
      BY <2>1, <2>5
    <3>1. OwnGicr(d) # None
      BY OwnGicrIsOne DEF CpuInv
    <3> QED BY <3>1
  <2>8. \A m \in Shared : <<None, m>> \in unmasked => <<None, m>> \in unmasked'
    BY <2>1, <2>5, SharedNotLpi
  <2>9. /\ \A d \in CPU : pc'[d] \in {"id", "handle"} => pc[d] = pc'[d]
        /\ DOMAIN op' = CPU
        /\ \A d \in CPU : pc'[d] = "lpi_cfg" => op'[d] \in Lpi \X BOOLEAN
    BY <2>1, <2>2 DEF CpuInv, LineInv
  <2>10. up \subseteq CPU
    BY DEF CpuInv
  <2> QED BY <2>1, <2>3, <2>4, <2>6, <2>7, <2>8, <2>9, <2>10
    DEF LineInv, Ready, OpOk
<1>10. ASSUME NEW c \in CPU, LpiCfg(c)
       PROVE  LineInv'
  <2>1. PICK n \in Lpi, on \in BOOLEAN : op[c] = <<n, on>>
    BY <1>10 DEF LpiCfg, LineInv
  <2>2. /\ UNCHANGED <<entries, gicr_aff, up, phase, enabled, x24, op>>
        /\ pc[c] = "lpi_cfg" /\ pc' = [pc EXCEPT ![c] = "lpi_cmd"]
        /\ cfg' = IF on THEN cfg \cup {n} ELSE cfg \ {n}
        /\ unmasked' = IF on THEN unmasked \cup {Line(0, n)} ELSE unmasked
    BY <1>10, <2>1 DEF LpiCfg, LpiConfig
  <2>3. \A d \in CPU : OwnGicr(d)' = OwnGicr(d)
    BY <2>2, OwnGicrStays
  <2>4. \A m : HasEntry(ClassOf(m), m)' = HasEntry(ClassOf(m), m)
    BY <2>2 DEF HasEntry, Within, Vectors
  <2>5. Line(0, n) = <<None, n>>
    BY LineIs
  <2>6. \A m \in Lpi \cap cfg' : OpOk(m)'
    <3> SUFFICES ASSUME NEW m \in Lpi, m \in cfg', <<None, m>> \notin unmasked'
                 PROVE  \E d \in CPU : pc'[d] = "lpi_cfg" /\ op'[d] = <<m, FALSE>>
      BY <2>2 DEF OpOk
    <3>1. m # n /\ m \in cfg /\ <<None, m>> \notin unmasked
      BY <2>2, <2>5
    <3>2. PICK d \in CPU : pc[d] = "lpi_cfg" /\ op[d] = <<m, FALSE>>
      BY <3>1 DEF LineInv
    <3>3. d # c
      BY <2>1, <3>1, <3>2
    <3>4. pc'[d] = "lpi_cfg" /\ op'[d] = <<m, FALSE>>
      BY <2>2, <3>2, <3>3 DEF CpuInv
    <3> QED BY <3>4
  <2>7. /\ \A d \in CPU : pc'[d] \in {"id", "handle", "lpi_cfg"} => pc[d] = pc'[d]
        /\ unmasked \subseteq unmasked'
    BY <2>2 DEF CpuInv
  <2>8. up \subseteq CPU
    BY DEF CpuInv
  <2> QED BY <2>2, <2>3, <2>4, <2>6, <2>7, <2>8 DEF LineInv, Ready, OpOk
<1>11. ASSUME NEW c \in CPU, HandleLpi(c)
       PROVE  LineInv'
  BY <1>9, <1>11 DEF HandleLpi, Pc, LpiPc
<1>12. ASSUME NEW c \in CPU, Drivers(c)
       PROVE  LineInv'
  <2>1. ASSUME NEW n \in Lpi, NEW on \in BOOLEAN, SetMaskLpi(c, n, on)
        PROVE  LineInv'
    BY <1>9, <2>1 DEF SetMaskLpi, Pc, LpiPc
  <2>2. ASSUME NEW t \in CPU, NEW cmd \in Cmd, SendOr(c, t, cmd)
        PROVE  LineInv'
    <3>1. /\ UNCHANGED <<entries, gicr_aff, up, phase, cfg, op, enabled, unmasked,
                         x24>>
          /\ pc[c] = "idle" /\ pc' = [pc EXCEPT ![c] = "sgi"]
      BY <2>2 DEF SendOr
    <3>2. \A d \in CPU : pc'[d] \in {"id", "handle", "lpi_cfg"} \/ pc[d] = "lpi_cfg"
                           => pc'[d] = pc[d]
      BY <3>1 DEF CpuInv
    <3> QED BY <3>1, <3>2, QuietLines DEF LineInv
  <2> QED BY <1>8, <1>12, <2>1, <2>2 DEF Drivers
<1>13. CASE RunStep
  BY <1>3, <1>4, <1>5, <1>6, <1>7, <1>10, <1>11, <1>12, <1>13
     DEF RunStep, Continue
<1> QED BY <1>1, <1>2, <1>13, NextKinds

-----------------------------------------------------------------------------
(* A ring of N slots.                                                      *)

\* The remainder of a number that is off by less than one turn.
LEMMA ModIs ==
  ASSUME NEW N \in Nat \ {0}, NEW x \in Int
  PROVE  /\ x \in 0 .. N - 1 => x % N = x
         /\ x \in N .. 2 * N - 1 => x % N = x - N
         /\ x \in -N .. -1 => x % N = x + N
OBVIOUS

\* The command queue's arithmetic as distances on a ring ...
LEMMA RingMod ==
  ASSUME NEW N \in Nat \ {0}, NEW w \in 0 .. N - 1, NEW r \in 0 .. N - 1
  PROVE  /\ (w - r) % N = Dist(N, w, r)
         /\ (w + 1) % N = NextPos(N, w)
         /\ Dist(N, w, r) \in 0 .. N - 1 /\ NextPos(N, w) \in 0 .. N - 1
         /\ Dist(N, w, r) = 0 <=> w = r
<1>1. (w - r) % N = Dist(N, w, r)
  BY ModIs DEF Dist
<1>2. (w + 1) % N = NextPos(N, w)
  BY ModIs DEF NextPos
<1>3. /\ Dist(N, w, r) \in 0 .. N - 1 /\ NextPos(N, w) \in 0 .. N - 1
      /\ Dist(N, w, r) = 0 <=> w = r
  BY DEF Dist, NextPos
<1> QED BY <1>1, <1>2, <1>3

\* ... as positions on it ...
LEMMA RingPos ==
  ASSUME NEW N \in Nat \ {0}, NEW r \in 0 .. N - 1, NEW i \in 1 .. N
  PROVE  (r + i - 1) % N = Pos(N, r, i)
<1>1. PICK x \in 0 .. 2 * N - 1 : x = r + i - 1
  OBVIOUS
<1>2. x % N = IF x < N THEN x ELSE x - N
  BY <1>1, ModIs
<1> QED BY <1>1, <1>2 DEF Pos

\* The two slots from the writer on are free while two commands fit.
LEMMA RingFree ==
  ASSUME NEW N \in Nat \ {0}, NEW w \in 0 .. N - 1, NEW r \in 0 .. N - 1,
         NEW L \in 0 .. N - 1, L = Dist(N, w, r), NEW i \in 1 .. L
  PROVE  /\ Pos(N, r, i) # w
         /\ L + 2 < N => Pos(N, r, i) # NextPos(N, w)
  BY DEF Pos, NextPos, Dist

\* Two commands more, and three into an empty ring.
LEMMA RingAppend ==
  ASSUME NEW N \in Nat \ {0}, NEW w \in 0 .. N - 1, NEW r \in 0 .. N - 1,
         NEW L \in 0 .. N - 1, L = Dist(N, w, r), L + 2 < N
  PROVE  /\ Pos(N, r, L + 1) = w
         /\ Pos(N, r, L + 2) = NextPos(N, w)
         /\ Dist(N, NextPos(N, NextPos(N, w)), r) = L + 2
  BY DEF Pos, NextPos, Dist

\* ... and the three commands written at most between two waits.
LEMMA RingThree ==
  ASSUME NEW N \in Nat \ {0}, NEW w \in 0 .. N - 1, N > 3
  PROVE  /\ Pos(N, w, 1) = w
         /\ Pos(N, w, 2) = NextPos(N, w)
         /\ Pos(N, w, 3) = NextPos(N, NextPos(N, w))
         /\ w # NextPos(N, w) /\ w # NextPos(N, NextPos(N, w))
         /\ NextPos(N, w) # NextPos(N, NextPos(N, w))
         /\ Dist(N, NextPos(N, NextPos(N, NextPos(N, w))), w) = 3
  BY DEF Pos, NextPos, Dist

\* The ITS reads one command: the distance gets one less.
LEMMA RingConsume ==
  ASSUME NEW N \in Nat \ {0}, NEW w \in 0 .. N - 1, NEW r \in 0 .. N - 1,
         NEW L \in 0 .. N - 1, L = Dist(N, w, r), w # r
  PROVE  /\ Dist(N, w, NextPos(N, r)) = L - 1
         /\ \A i \in 1 .. L - 1 : Pos(N, NextPos(N, r), i) = Pos(N, r, i + 1)
         /\ Pos(N, r, 1) = r
  BY DEF Pos, NextPos, Dist

-----------------------------------------------------------------------------
(* The command queue.                                                      *)

\* The elements of a concatenation.
LEMMA ConcatIs ==
  ASSUME NEW S, NEW s \in Seq(S), NEW t \in Seq(S)
  PROVE  /\ s \o t \in Seq(S) /\ Len(s \o t) = Len(s) + Len(t)
         /\ \A i \in 1 .. Len(s) : (s \o t)[i] = s[i]
         /\ \A i \in 1 .. Len(t) : (s \o t)[Len(s) + i] = t[i]
<1>1. s \o t \in Seq(S) /\ Len(s \o t) = Len(s) + Len(t)
  OBVIOUS
<1>2. ASSUME NEW i \in 1 .. Len(s) PROVE (s \o t)[i] = s[i]
  OBVIOUS
<1>3. ASSUME NEW i \in 1 .. Len(t) PROVE (s \o t)[Len(s) + i] = t[i]
  OBVIOUS
<1> QED BY <1>1, <1>2, <1>3

\* The two and the three commands that are written together.
LEMMA CommandSeqs ==
  /\ \A a, b \in Command : <<a, b>> \in Seq(Command) /\ Len(<<a, b>>) = 2
  /\ \A a, b, c \in Command :
       <<a, b, c>> \in Seq(Command) /\ Len(<<a, b, c>>) = 3
<1>1. ASSUME NEW a \in Command, NEW b \in Command
      PROVE  <<a, b>> \in Seq(Command) /\ Len(<<a, b>>) = 2
  OBVIOUS
<1>2. ASSUME NEW a \in Command, NEW b \in Command, NEW c \in Command
      PROVE  <<a, b, c>> \in Seq(Command) /\ Len(<<a, b, c>>) = 3
  OBVIOUS
<1> QED BY <1>1, <1>2

\* The queue, its pointers and the commands it holds.
LEMMA SlotsAre ==
  ASSUME QueueInv
  PROVE  /\ Slots \in Nat \ {0} /\ Slots > 3
         /\ cwriter \in 0 .. Slots - 1 /\ creadr \in 0 .. Slots - 1
         /\ Len(issued) = Dist(Slots, cwriter, creadr)
<1>1. PICK p \in Nat \ {0} : p = its_params.q_pages
  BY DEF QueueInv, RingInv
<1>2. p * SlotsPerPage \in Nat /\ p * SlotsPerPage > 3
  BY Hardware
<1> QED BY <1>1, <1>2 DEF Slots, QueueInv, RingInv, QueueInOrder

\* The queue is consumed exactly when no issued command is left.
LEMMA IssuedIs ==
  ASSUME QueueInv
  PROVE  /\ issued \in Seq(Command) /\ Len(issued) \in 0 .. Slots - 1
         /\ Len(issued) = 0 <=> Consumed
         /\ ~ Consumed => issued # <<>> /\ queue[creadr] = Head(issued)
<1>1. Len(issued) \in 0 .. Slots - 1 /\ (Len(issued) = 0 <=> Consumed)
  <2>1. /\ Slots \in Nat \ {0} /\ cwriter \in 0 .. Slots - 1
        /\ creadr \in 0 .. Slots - 1
    BY SlotsAre
  <2>2. /\ Dist(Slots, cwriter, creadr) \in 0 .. Slots - 1
        /\ Dist(Slots, cwriter, creadr) = 0 <=> cwriter = creadr
    BY <2>1, RingMod
  <2> QED BY <2>2, SlotsAre DEF Consumed
<1>2. ASSUME ~ Consumed
      PROVE  issued # <<>> /\ queue[creadr] = Head(issued)
  <2>1. Pos(Slots, creadr, 1) = creadr
    BY SlotsAre DEF Pos, QueueInv
  <2>2. 1 \in 1 .. Len(issued)
    BY <1>1, <1>2
  <2>3. queue[creadr] = issued[1]
    BY <2>1, <2>2 DEF QueueInv, RingInv, QueueInOrder
  <2> QED BY <2>2, <2>3 DEF QueueInv, RingInv
<1> QED BY <1>1, <1>2 DEF QueueInv, RingInv

\* The queue holds the issued commands in their order.
LEMMA InOrderIsExact == QueueInv => QueueExact
<1> SUFFICES ASSUME QueueInv PROVE QueueExact
  OBVIOUS
<1>1. Len(issued) = (cwriter - creadr) % Slots
  <2>1. /\ Slots \in Nat \ {0} /\ cwriter \in 0 .. Slots - 1
        /\ creadr \in 0 .. Slots - 1
    BY SlotsAre
  <2>2. (cwriter - creadr) % Slots = Dist(Slots, cwriter, creadr)
    BY <2>1, RingMod
  <2> QED BY <2>2, SlotsAre
<1>2. ASSUME NEW i \in 1 .. Len(issued)
      PROVE  queue[(creadr + i - 1) % Slots] = issued[i]
  <2>1. i \in 1 .. Slots
    BY SlotsAre, IssuedIs
  <2>2. (creadr + i - 1) % Slots = Pos(Slots, creadr, i)
    BY <2>1, SlotsAre, RingPos DEF QueueInv, RingInv
  <2> QED BY <2>2 DEF QueueInv, RingInv, QueueInOrder
<1> QED BY <1>1, <1>2 DEF QueueExact

\* A step that leaves the queue alone and moves no CPU in or out of an LPI
\* callout.
LEMMA QueueKept ==
  ASSUME QueueInv,
         UNCHANGED <<its_params, cwriter, creadr, issued, queue, lock, x3>>,
         \A c \in CPU : pc'[c] = pc[c] \/ {pc'[c], pc[c]} \cap LpiPc = {},
         Ready' /\ num_lpis' # 0 => Ready /\ num_lpis # 0,
         Ready => Ready',
         phase' # "run" /\ (num_lpis' = 0 \/ bootcpu' = None) => Consumed
  PROVE  QueueInv'
<1>1. Slots' = Slots
  BY DEF Slots
<1>2. QueueInOrder' /\ Consumed' = Consumed
  BY <1>1 DEF QueueInv, RingInv, QueueInOrder, Consumed
<1>3. \A c \in CPU : pc'[c] \in LpiPc <=> pc[c] \in LpiPc
  OBVIOUS
<1>4. \A c \in CPU : pc'[c] \in LpiPc => pc'[c] = pc[c]
  OBVIOUS
<1>5. \A c \in CPU : pc'[c] \in {"lpi_cmd", "lpi_cwr"} => pc'[c] = pc[c]
  BY <1>4 DEF LpiPc
<1>6. Wrap(cwriter)' = Wrap(cwriter)
  BY <1>1 DEF Wrap, LastSlot
<1>7. RingInv'
  BY <1>1, <1>2 DEF QueueInv, RingInv
<1>8. LockInv'
  BY <1>1, <1>3, <1>5, <1>6 DEF QueueInv, LockInv
<1> QED BY <1>7, <1>8 DEF QueueInv

\* The pointers stay within the queue.
LEMMA QueueTypes ==
  ASSUME QueueInv
  PROVE  /\ Slots \in Nat \ {0} /\ cwriter \in 0 .. Slots - 1
         /\ creadr \in 0 .. Slots - 1
BY SlotsAre

\* The offset a callout computes is the one the set-up code computes.
LEMMA NextSlots ==
  ASSUME QueueInv, NEW s \in 0 .. Slots - 1
  PROVE  /\ Wrap(s) = NextPos(Slots, s) /\ NextCmdQSlot(s) = NextPos(Slots, s)
         /\ NextPos(Slots, s) \in 0 .. Slots - 1
<1>1. Slots \in Nat \ {0}
  BY QueueTypes
<1>2. (s + 1) % Slots = NextPos(Slots, s) /\ NextPos(Slots, s) \in 0 .. Slots - 1
  BY <1>1, RingMod
<1>3. Wrap(s) = NextPos(Slots, s)
  BY DEF Wrap, LastSlot, NextPos
<1> QED BY <1>2, <1>3 DEF NextCmdQSlot

\* The ITS reads a command.
LEMMA ConsumeKeeps ==
  ASSUME QueueInv, ItsConsume,
         UNCHANGED <<phase, num_lpis, bootcpu, pc, x3>>
  PROVE  QueueInv'
<1>1. /\ UNCHANGED <<its_params, cwriter, queue, lock>>
      /\ ~ Consumed /\ creadr' = NextCmdQSlot(creadr)
      /\ issued' = Tail(issued) /\ issued # <<>>
  BY IssuedIs DEF ItsConsume, NextCmdQSlot
<1>2. Slots' = Slots /\ Wrap(cwriter)' = Wrap(cwriter)
  BY <1>1 DEF Slots, Wrap, LastSlot
<1>3. creadr' = NextPos(Slots, creadr) /\ creadr' \in 0 .. Slots - 1
  BY <1>1, QueueTypes, NextSlots
<1>4. /\ issued \in Seq(Command) /\ issued' \in Seq(Command)
      /\ Len(issued') = Len(issued) - 1 /\ Len(issued) \in 0 .. Slots - 1
      /\ \A i \in 1 .. Len(issued) - 1 : issued'[i] = issued[i + 1]
  BY <1>1, IssuedIs
<1>5. /\ Dist(Slots, cwriter, creadr') = Len(issued) - 1
      /\ \A i \in 1 .. Len(issued) - 1 :
           Pos(Slots, creadr', i) = Pos(Slots, creadr, i + 1)
  <2>1. Len(issued) = Dist(Slots, cwriter, creadr) /\ cwriter # creadr
    BY <1>1, SlotsAre DEF Consumed
  <2> QED BY <1>3, <1>4, <2>1, QueueTypes, RingConsume
<1>6. QueueInOrder'
  <2>1. ASSUME NEW i \in 1 .. Len(issued')
        PROVE  /\ Pos(Slots, creadr', i) \in DOMAIN queue
               /\ queue[Pos(Slots, creadr', i)] = issued'[i]
    <3>1. i \in 1 .. Len(issued) - 1 /\ i + 1 \in 1 .. Len(issued)
      BY <1>4
    <3>2. /\ Pos(Slots, creadr, i + 1) \in DOMAIN queue
          /\ queue[Pos(Slots, creadr, i + 1)] = issued[i + 1]
      BY <3>1 DEF QueueInv, RingInv, QueueInOrder
    <3> QED BY <1>4, <1>5, <3>1, <3>2
  <2> QED BY <1>1, <1>2, <1>4, <1>5, <2>1 DEF QueueInOrder
<1>7. Ready /\ ~ (phase # "run" /\ (num_lpis = 0 \/ bootcpu = None))
  BY <1>1 DEF QueueInv, RingInv, Consumed
<1>8. lock # None => Len(issued') + 2 < Slots
  <2>1. lock # None => Len(issued) + 2 < Slots
    BY DEF QueueInv, LockInv
  <2>2. Slots \in Nat
    BY QueueTypes
  <2> QED BY <1>4, <2>1, <2>2
<1>9. RingInv'
  BY <1>1, <1>2, <1>3, <1>4, <1>6, <1>7 DEF QueueInv, RingInv, Ready
<1>10. LockInv'
  BY <1>1, <1>2, <1>8 DEF QueueInv, LockInv
<1> QED BY <1>9, <1>10 DEF QueueInv

\* The lock's holder writes its commands into slots that are free.
LEMMA CmdKeeps ==
  ASSUME QueueInv, NEW c \in CPU, LpiCmd(c)
  PROVE  QueueInv'
<1>1. /\ pc[c] = "lpi_cmd" /\ pc' = [pc EXCEPT ![c] = "lpi_cwr"]
      /\ UNCHANGED <<its_params, cwriter, creadr, issued, lock, phase, num_lpis,
                     bootcpu, x3>>
      /\ queue' = [s \in DOMAIN queue \cup {x3[c], Wrap(x3[c])} |->
                     IF s = Wrap(x3[c]) THEN LpiCmds[2]
                     ELSE IF s = x3[c] THEN LpiCmds[1] ELSE queue[s]]
  BY DEF LpiCmd, LpiQueue, Goto
<1>2. x3[c] = cwriter /\ lock = c /\ Len(issued) + 2 < Slots
  BY <1>1 DEF QueueInv, LockInv, LpiPc
<1>3. Slots' = Slots /\ Wrap(cwriter)' = Wrap(cwriter)
  BY <1>1 DEF Slots, Wrap, LastSlot
<1>4. Wrap(cwriter) = NextPos(Slots, cwriter)
  BY QueueTypes, NextSlots
<1>5. Len(issued) \in 0 .. Slots - 1 /\ Len(issued) = Dist(Slots, cwriter, creadr)
  BY IssuedIs, SlotsAre
<1>6. cwriter # Wrap(cwriter)
  BY <1>2, <1>4, <1>5, QueueTypes DEF NextPos
<1>7. ASSUME NEW i \in 1 .. Len(issued)
      PROVE  /\ Pos(Slots, creadr, i) \in DOMAIN queue'
             /\ queue'[Pos(Slots, creadr, i)] = issued[i]
  <2>1. Pos(Slots, creadr, i) # cwriter /\ Pos(Slots, creadr, i) # Wrap(cwriter)
    BY <1>2, <1>4, <1>5, QueueTypes, RingFree
  <2>2. /\ Pos(Slots, creadr, i) \in DOMAIN queue
        /\ queue[Pos(Slots, creadr, i)] = issued[i]
    BY DEF QueueInv, RingInv, QueueInOrder
  <2> QED BY <1>1, <1>2, <2>1, <2>2
<1>8. QueueInOrder'
  BY <1>1, <1>3, <1>5, <1>7 DEF QueueInOrder
<1>9. /\ cwriter \in DOMAIN queue' /\ queue'[cwriter] = LpiCmds[1]
      /\ Wrap(cwriter) \in DOMAIN queue' /\ queue'[Wrap(cwriter)] = LpiCmds[2]
      /\ DOMAIN queue \subseteq DOMAIN queue'
  BY <1>1, <1>2, <1>6
<1>10. \A d \in CPU : /\ pc'[d] \in LpiPc <=> pc[d] \in LpiPc
                      /\ pc'[d] \in {"lpi_cmd", "lpi_cwr"} => x3[d] = cwriter
  BY <1>1, <1>2 DEF QueueInv, LockInv, LpiPc
<1>11. RingInv'
  BY <1>1, <1>3, <1>8, <1>9 DEF QueueInv, RingInv, Ready, Consumed
<1>12. LockInv'
  BY <1>1, <1>3, <1>9, <1>10 DEF QueueInv, LockInv
<1> QED BY <1>11, <1>12 DEF QueueInv

\* CWRITER is moved past the two commands.
LEMMA CwrKeeps ==
  ASSUME QueueInv, phase = "run", pc \in [CPU -> Pc], NEW c \in CPU, LpiCwr(c)
  PROVE  QueueInv'
<1>1. /\ pc[c] = "lpi_cwr" /\ pc' \in {[pc EXCEPT ![c] = "idle"], [pc EXCEPT ![c] = "eoi"]}
      /\ UNCHANGED <<its_params, creadr, queue, phase, num_lpis, bootcpu>>
      /\ cwriter' = Wrap(Wrap(x3[c])) /\ issued' = issued \o LpiCmds
      /\ lock' = None /\ x3' = [x3 EXCEPT ![c] = 0]
  BY DEF LpiCwr, LpiCwriter, Goto
<1>2. x3[c] = cwriter /\ lock = c /\ Len(issued) + 2 < Slots
  BY <1>1 DEF QueueInv, LockInv, LpiPc
<1>3. /\ cwriter \in DOMAIN queue /\ queue[cwriter] = LpiCmds[1]
      /\ Wrap(cwriter) \in DOMAIN queue /\ queue[Wrap(cwriter)] = LpiCmds[2]
  BY <1>1 DEF QueueInv, LockInv
<1>4. Slots' = Slots
  BY <1>1 DEF Slots
<1>5. /\ Wrap(cwriter) = NextPos(Slots, cwriter)
      /\ NextPos(Slots, cwriter) \in 0 .. Slots - 1
  BY QueueTypes, NextSlots
<1>6. /\ cwriter' = NextPos(Slots, NextPos(Slots, cwriter))
      /\ cwriter' \in 0 .. Slots - 1
  <2>1. /\ Wrap(NextPos(Slots, cwriter)) = NextPos(Slots, NextPos(Slots, cwriter))
        /\ NextPos(Slots, NextPos(Slots, cwriter)) \in 0 .. Slots - 1
    BY <1>5, NextSlots
  <2> QED BY <1>1, <1>2, <1>5, <2>1
<1>7. /\ issued \in Seq(Command) /\ Len(issued) \in 0 .. Slots - 1
      /\ Len(issued) = Dist(Slots, cwriter, creadr)
  BY IssuedIs, SlotsAre
<1>8. PICK s \in Seq(Command) : s = LpiCmds /\ Len(s) = 2
  <2>1. <<"INVALL", 0, 0>> \in Command /\ <<"SYNC", 0, 0>> \in Command
    BY DEF Command
  <2> QED BY <2>1, CommandSeqs DEF LpiCmds
<1>9. /\ issued' \in Seq(Command) /\ Len(issued') = Len(issued) + 2
      /\ \A i \in 1 .. Len(issued) : issued'[i] = issued[i]
      /\ issued'[Len(issued) + 1] = LpiCmds[1]
      /\ issued'[Len(issued) + 2] = LpiCmds[2]
  <2>1. issued' = issued \o s
    BY <1>1, <1>8
  <2>2. /\ issued \o s \in Seq(Command) /\ Len(issued \o s) = Len(issued) + 2
        /\ \A i \in 1 .. Len(issued) : (issued \o s)[i] = issued[i]
    <3>1. issued \in Seq(Command) /\ s \in Seq(Command)
      BY <1>7, <1>8
    <3>2. /\ issued \o s \in Seq(Command)
          /\ Len(issued \o s) = Len(issued) + Len(s)
          /\ \A i \in 1 .. Len(issued) : (issued \o s)[i] = issued[i]
      BY <3>1, ConcatIs
    <3> QED BY <1>8, <3>2
  <2>3. /\ (issued \o s)[Len(issued) + 1] = s[1]
        /\ (issued \o s)[Len(issued) + 2] = s[2]
    <3>1. 1 \in 1 .. Len(s) /\ 2 \in 1 .. Len(s)
      BY <1>8
    <3> QED BY <1>7, <1>8, <3>1, ConcatIs
  <2> QED BY <1>8, <2>1, <2>2, <2>3
<1>10. /\ Pos(Slots, creadr, Len(issued) + 1) = cwriter
       /\ Pos(Slots, creadr, Len(issued) + 2) = Wrap(cwriter)
       /\ Dist(Slots, cwriter', creadr) = Len(issued) + 2
  <2>1. /\ Slots \in Nat \ {0} /\ cwriter \in 0 .. Slots - 1
        /\ creadr \in 0 .. Slots - 1
    BY QueueTypes
  <2>2. /\ Pos(Slots, creadr, Len(issued) + 1) = cwriter
        /\ Pos(Slots, creadr, Len(issued) + 2) = NextPos(Slots, cwriter)
        /\ Dist(Slots, NextPos(Slots, NextPos(Slots, cwriter)), creadr)
             = Len(issued) + 2
    BY <1>2, <1>7, <2>1, RingAppend
  <2> QED BY <1>5, <1>6, <2>2
<1>11. QueueInOrder'
  <2>1. ASSUME NEW i \in 1 .. Len(issued')
        PROVE  /\ Pos(Slots, creadr, i) \in DOMAIN queue
               /\ queue[Pos(Slots, creadr, i)] = issued'[i]
    <3>1. \/ i \in 1 .. Len(issued) \/ i = Len(issued) + 1 \/ i = Len(issued) + 2
      BY <1>7, <1>9
    <3>2. CASE i \in 1 .. Len(issued)
      BY <1>9, <3>2 DEF QueueInv, RingInv, QueueInOrder
    <3>3. CASE i = Len(issued) + 1 \/ i = Len(issued) + 2
      BY <1>3, <1>9, <1>10, <3>3
    <3> QED BY <3>1, <3>2, <3>3
  <2> QED BY <1>1, <1>4, <1>9, <1>10, <2>1 DEF QueueInOrder
<1>12. RingInv'
  BY <1>1, <1>4, <1>6, <1>9, <1>11 DEF QueueInv, RingInv, Ready
<1>13. \A d \in CPU : pc'[d] \notin LpiPc
  <2>1. \A d \in CPU : d # c => pc[d] \notin LpiPc
    BY <1>2 DEF QueueInv, LockInv
  <2>2. pc'[c] \notin LpiPc /\ \A d \in CPU : d # c => pc'[d] = pc[d]
    BY <1>1 DEF LpiPc
  <2> QED BY <2>1, <2>2
<1>14. LockInv'
  BY <1>1, <1>13 DEF QueueInv, LockInv, LpiPc
<1> QED BY <1>12, <1>14 DEF QueueInv

\* A redistributor's number fits into the field of a command.
LEMMA GicrUnitIs ==
  ASSUME NEW k \in Gicr
  PROVE  GicrUnit[k] \in Nat /\ GicrUnit[k] % 2^16 = GicrUnit[k]
<1>1. GicrUnit \in [Gicr -> 0 .. 2^16 - 1]
  BY ItsAssumption, Zenon
<1>2. GicrUnit[k] \in 0 .. 2^16 - 1
  BY <1>1
<1>3. GicrUnit[k] \in Nat /\ GicrUnit[k] < 2^16
  BY <1>2
<1>4. \A u, N \in Nat : u < N => u % N = u
  OBVIOUS
<1>5. 2^16 \in Nat
  OBVIOUS
<1> QED BY <1>3, <1>4, <1>5, Zenon

\* A redistributor's name names it.
LEMMA RDbaseIs ==
  ASSUME NEW i \in Gicr
  PROVE  RDbase(i) \in Nat /\ FrameOf(RDbase(i)) = i
<1>1. /\ ProcNum \in [Gicr -> Nat]
      /\ \A k, j \in Gicr : GicrUnit[k] = GicrUnit[j] \/ ProcNum[k] = ProcNum[j]
                              => k = j
  BY ItsAssumption, Zenon
<1>2. \A k \in Gicr : GicrUnit[k] \in Nat /\ GicrUnit[k] % 2^16 = GicrUnit[k]
  BY GicrUnitIs
<1>3. \A k \in Gicr : RDbase(k) = IF its_hw.pta THEN GicrUnit[k] ELSE ProcNum[k]
  BY <1>2 DEF RDbase
<1>4. \A k \in Gicr : RDbase(k) \in Nat /\ (RDbase(k) = RDbase(i) => k = i)
  <2> SUFFICES ASSUME NEW k \in Gicr
               PROVE  RDbase(k) \in Nat /\ (RDbase(k) = RDbase(i) => k = i)
    OBVIOUS
  <2>1. CASE its_hw.pta
    <3>1. RDbase(k) = GicrUnit[k] /\ RDbase(i) = GicrUnit[i]
      BY <1>3, <2>1
    <3> QED BY <1>1, <1>2, <3>1
  <2>2. CASE ~ its_hw.pta
    <3>1. RDbase(k) = ProcNum[k] /\ RDbase(i) = ProcNum[i]
      BY <1>3, <2>2
    <3>2. ProcNum[k] \in Nat
      BY <1>1
    <3> QED BY <1>1, <3>1, <3>2
  <2> QED BY <2>1, <2>2
<1> QED BY <1>4 DEF FrameOf

\* A collection ID has room for the CPU's number.
LEMMA CollectionIs == ASSUME NEW c \in CPU PROVE c % 2^CidBits = c
<1>1. CidBits \in Nat /\ NumCpu <= 2^CidBits
  BY ItsAssumption, Zenon
<1>2. 2^CidBits \in Int
  BY <1>1
<1>3. PICK N \in Int : N = 2^CidBits
  BY <1>2
<1>4. N \in Nat \ {0} /\ c \in 0 .. N - 1
  BY <1>1, <1>3, Hardware
<1> QED BY <1>3, <1>4, ModIs

\* The three commands of a CPU into the empty queue.
LEMMA MapcKeeps ==
  ASSUME QueueInv, CpuInv, NEW c \in CPU, GiccFind(c), num_lpis # 0
  PROVE  QueueInv' /\ issued' = MapcCmds(c, OwnGicr(c))
<1> DEFINE m  == MapcCmds(c, OwnGicr(c))
           s1 == NextPos(Slots, cwriter)
           s2 == NextPos(Slots, s1)
<1>1. /\ phase = "cpus" /\ bootcpu = None /\ bootcpu' = c
      /\ UNCHANGED <<its_params, creadr, lock, phase, num_lpis, pc, x3>>
      /\ queue' = [queue EXCEPT ![cwriter] = m[1],
                     ![NextCmdQSlot(cwriter)] = m[2],
                     ![NextCmdQSlot(NextCmdQSlot(cwriter))] = m[3]]
      /\ cwriter' = NextCmdQSlot(NextCmdQSlot(NextCmdQSlot(cwriter)))
      /\ issued' = issued \o m
  BY DEF GiccFind, MapcIssue, Put
<1>2. Consumed /\ 0 .. Slots - 1 \subseteq DOMAIN queue
  BY <1>1 DEF QueueInv, RingInv, Ready
<1>3. s1 \in 0 .. Slots - 1 /\ NextCmdQSlot(cwriter) = s1
  BY QueueTypes, NextSlots
<1>4. s2 \in 0 .. Slots - 1 /\ NextCmdQSlot(s1) = s2
  BY <1>3, NextSlots
<1>5. /\ NextPos(Slots, s2) \in 0 .. Slots - 1
      /\ NextCmdQSlot(s2) = NextPos(Slots, s2)
  BY <1>4, NextSlots
<1>6. m \in Seq(Command) /\ Len(m) = 3
  <2>1. RDbase(OwnGicr(c)) \in Nat
    BY OwnGicrRight, RDbaseIs
  <2>2. c \in Int /\ c % 2^CidBits = c
    BY CollectionIs
  <2>3. /\ <<"MAPC", c % 2^CidBits, RDbase(OwnGicr(c))>> \in Command
        /\ <<"SYNC", 0, RDbase(OwnGicr(c))>> \in Command
        /\ <<"INVALL", c % 2^CidBits, 0>> \in Command
    BY <2>1, <2>2 DEF Command
  <2> QED BY <2>3, CommandSeqs DEF MapcCmds
<1>7. issued' = m
  <2>1. issued \in Seq(Command) /\ Len(issued) = 0
    BY <1>2, IssuedIs
  <2>2. issued = <<>>
    BY <2>1
  <2> QED BY <1>1, <1>6, <2>2
<1>8. /\ Pos(Slots, cwriter, 1) = cwriter /\ Pos(Slots, cwriter, 2) = s1
      /\ Pos(Slots, cwriter, 3) = s2
      /\ cwriter # s1 /\ cwriter # s2 /\ s1 # s2
      /\ Dist(Slots, NextPos(Slots, s2), cwriter) = 3
  <2>1. Slots \in Nat \ {0} /\ cwriter \in 0 .. Slots - 1 /\ Slots > 3
    BY SlotsAre
  <2> QED BY <2>1, RingThree
<1>9. /\ cwriter' = NextPos(Slots, s2) /\ creadr' = cwriter
      /\ queue' = [queue EXCEPT ![cwriter] = m[1], ![s1] = m[2], ![s2] = m[3]]
  BY <1>1, <1>2, <1>3, <1>4, <1>5 DEF Consumed
<1>10. Slots' = Slots
  BY <1>1 DEF Slots
<1>11. /\ {cwriter, s1, s2} \subseteq DOMAIN queue /\ DOMAIN queue' = DOMAIN queue
       /\ queue'[cwriter] = m[1] /\ queue'[s1] = m[2] /\ queue'[s2] = m[3]
  BY <1>2, <1>3, <1>4, <1>8, <1>9, QueueTypes
<1>12. QueueInOrder'
  <2>1. ASSUME NEW i \in 1 .. Len(issued')
        PROVE  /\ Pos(Slots, creadr', i) \in DOMAIN queue'
               /\ queue'[Pos(Slots, creadr', i)] = issued'[i]
    <3>1. i = 1 \/ i = 2 \/ i = 3
      BY <1>6, <1>7
    <3> QED BY <1>7, <1>8, <1>9, <1>11, <3>1
  <2> QED BY <1>6, <1>7, <1>8, <1>9, <1>10, <2>1 DEF QueueInOrder
<1>13. RingInv'
  <2>1. cwriter' \in 0 .. Slots - 1 /\ creadr' \in 0 .. Slots - 1
    BY <1>5, <1>9, QueueTypes
  <2>2. issued' \in Seq(Command) /\ bootcpu' # None
    BY <1>1, <1>6, <1>7, Hardware
  <2>3. Ready' /\ num_lpis' # 0 => 0 .. Slots - 1 \subseteq DOMAIN queue'
    BY <1>2, <1>11
  <2> QED BY <1>1, <1>10, <1>12, <2>1, <2>2, <2>3 DEF QueueInv, RingInv, Ready
<1>14. LockInv'
  <2>1. \A d \in CPU : pc[d] \notin LpiPc
    BY <1>1 DEF CpuInv, LpiPc
  <2>2. lock = None
    BY <2>1 DEF QueueInv, LockInv
  <2> QED BY <1>1, <2>1, <2>2 DEF QueueInv, LockInv, LpiPc
<1> QED BY <1>7, <1>13, <1>14 DEF QueueInv

\* A request to mask or unmask an LPI begins ...
LEMMA StartKeeps ==
  ASSUME QueueInv, CpuInv, NEW c \in CPU, NEW n, NEW on, NEW from \in Pc,
         StartLpi(c, n, on, from)
  PROVE  QueueInv'
<1>1. /\ pc' = [pc EXCEPT ![c] = "lpi_cfg"] /\ lock = None /\ lock' = c
      /\ UNCHANGED <<its_params, cwriter, creadr, issued, queue, phase, num_lpis,
                     bootcpu, x3>>
      /\ Len(issued) + 2 < Slots
  BY DEF StartLpi, LpiLock, Goto, ItsKeepsUp
<1>2. Slots' = Slots /\ Consumed' = Consumed
  BY <1>1 DEF Slots, Consumed
<1>3. RingInv'
  BY <1>1, <1>2 DEF QueueInv, RingInv, QueueInOrder, Ready
<1>4. \A d \in CPU : pc[d] \notin LpiPc
  BY <1>1, Hardware DEF QueueInv, LockInv
<1>5. \A d \in CPU : /\ pc'[d] \in LpiPc <=> d = c
                     /\ pc'[d] \notin {"lpi_cmd", "lpi_cwr"}
  BY <1>1, <1>4 DEF LpiPc, CpuInv
<1>6. LockInv'
  BY <1>1, <1>2, <1>5 DEF QueueInv, LockInv
<1> QED BY <1>3, <1>6 DEF QueueInv

\* ... and its configuration byte is changed.
LEMMA CfgKeeps ==
  ASSUME QueueInv, CpuInv, NEW c \in CPU, LpiCfg(c)
  PROVE  QueueInv'
<1>1. /\ pc[c] = "lpi_cfg" /\ pc' = [pc EXCEPT ![c] = "lpi_cmd"]
      /\ UNCHANGED <<its_params, cwriter, creadr, issued, queue, phase, num_lpis,
                     bootcpu, lock>>
      /\ x3' = [x3 EXCEPT ![c] = cwriter]
  BY DEF LpiCfg, LpiConfig, Goto
<1>2. Slots' = Slots /\ Consumed' = Consumed
  BY <1>1 DEF Slots, Consumed
<1>3. RingInv'
  BY <1>1, <1>2 DEF QueueInv, RingInv, QueueInOrder, Ready
<1>4. lock = c /\ \A d \in CPU : d # c => pc[d] \notin LpiPc
  BY <1>1 DEF QueueInv, LockInv, LpiPc
<1>5. \A d \in CPU : /\ pc'[d] \in LpiPc <=> d = c
                     /\ pc'[d] \in {"lpi_cmd", "lpi_cwr"} => d = c
                     /\ pc'[d] # "lpi_cwr"
  BY <1>1, <1>4 DEF LpiPc, CpuInv
<1>6. x3'[c] = cwriter' /\ DOMAIN x3' = CPU
  BY <1>1 DEF QueueInv, LockInv
<1>7. LockInv'
  BY <1>1, <1>2, <1>4, <1>5, <1>6 DEF QueueInv, LockInv
<1> QED BY <1>3, <1>7 DEF QueueInv

\* Before the queue is in use its size can be set.
LEMMA BoardQueue ==
  ASSUME EntryInv, CpuInv, QueueInv, Board
  PROVE  QueueInv'
<1> USE DEF Call
<1>1. UNCHANGED <<pc, x3>> /\ phase # "run" /\ bootcpu = bootcpu'
  BY BoardLeaves DEF Board, SetPaddrRange, UseMmRegCallouts, SetItsParams,
    SpiAddEntry, EspiAddEntry, LpiAddEntry, Add, Initialize, SetIntrTrigMode
<1>2. \A c \in CPU : pc[c] = "idle"
  BY <1>1 DEF CpuInv
<1>3. CASE SetItsParams
  <2>1. /\ UNCHANGED <<cwriter, creadr, issued, queue, lock, phase>>
        /\ phase = "setup" /\ ~ Ready /\ ~ Ready'
        /\ its_params' = [its_params EXCEPT ![Arg(1)] = Arg(2)]
    BY <1>3 DEF SetItsParams, ItsSet, Ready
  <2>2. /\ "q_pages" \in DOMAIN its_params'
        /\ its_params'.q_pages \in Nat \ {0}
    <3>1. Head(calls) \in BoardCall /\ Head(calls)[1] = "its"
      BY <1>3 DEF SetItsParams, EntryInv
    <3>2. Arg(1) = "q_pages" => Arg(2) \in Nat \ {0}
      BY <3>1 DEF BoardCall, Classes, Arg
    <3> QED BY <2>1, <3>2 DEF QueueInv, RingInv
  <2>3. Slots' \in Nat \ {0}
    <3>1. PICK p \in Nat \ {0} : p = its_params'.q_pages
      BY <2>2
    <3>2. p * SlotsPerPage \in Nat \ {0}
      BY Hardware
    <3> QED BY <3>1, <3>2 DEF Slots
  <2>4. cwriter = 0 /\ creadr = 0 /\ issued \in Seq(Command) /\ Len(issued) = 0
    <3>1. cwriter = 0 /\ creadr = 0
      BY <2>1 DEF QueueInv, RingInv
    <3> QED BY <3>1, IssuedIs DEF Consumed
  <2>5. QueueInOrder' /\ Consumed'
    BY <2>1, <2>4 DEF QueueInOrder, Dist, Consumed
  <2>6. RingInv'
    <3>1. \A N \in Nat \ {0} : 0 \in 0 .. N - 1
      OBVIOUS
    <3>2. cwriter' \in 0 .. Slots' - 1 /\ creadr' \in 0 .. Slots' - 1
      BY <2>1, <2>3, <2>4, <3>1
    <3>3. issued' \in Seq(Command)
      BY <2>1, <2>4
    <3> QED BY <2>1, <2>2, <2>4, <2>5, <3>2, <3>3 DEF RingInv
  <2>7. LockInv'
    <3>1. lock = None
      BY <1>2 DEF QueueInv, LockInv, LpiPc
    <3> QED BY <1>1, <1>2, <2>1, <3>1 DEF QueueInv, LockInv, LpiPc
  <2> QED BY <2>6, <2>7 DEF QueueInv
<1>4. CASE Initialize /\ num_lpis # 0
  <2>1. /\ ItsInitialize /\ phase' = "cpus" /\ UNCHANGED num_lpis /\ Ready'
    BY <1>4 DEF Initialize, InitLpis, Ready
  <2>2. /\ cwriter' = 0 /\ creadr' = 0 /\ issued' = <<>> /\ lock' = None
        /\ queue' = [s \in 0 .. Slots - 1 |-> NoCmd]
        /\ its_params'.q_pages = its_params.q_pages
        /\ "q_pages" \in DOMAIN its_params'
    BY <2>1 DEF ItsInitialize, CommandQueue, QueueInv, RingInv
  <2>3. Slots' = Slots
    BY <2>2 DEF Slots
  <2>4. QueueInOrder' /\ Consumed'
    BY <2>2 DEF QueueInOrder, Dist, Consumed
  <2>5. RingInv'
    BY <2>1, <2>2, <2>3, <2>4, QueueTypes DEF QueueInv, RingInv
  <2>6. LockInv'
    BY <1>1, <1>2, <2>2, Hardware DEF QueueInv, LockInv, LpiPc
  <2> QED BY <2>5, <2>6 DEF QueueInv
<1>5. CASE SetPaddrRange
  <2>1. /\ UNCHANGED <<cwriter, creadr, issued, queue, lock, num_lpis>>
        /\ ~ Ready /\ ~ Ready' /\ phase' = "setup"
        /\ "q_pages" \in DOMAIN its_params'
        /\ its_params'.q_pages = its_params.q_pages
    BY <1>5 DEF SetPaddrRange, ItsSetPaddr, Ready, QueueInv, RingInv
  <2>2. Slots' = Slots /\ Consumed' = Consumed /\ Wrap(cwriter)' = Wrap(cwriter)
    BY <2>1 DEF Slots, Consumed, Wrap, LastSlot
  <2>3. RingInv'
    BY <1>1, <2>1, <2>2 DEF QueueInv, RingInv, QueueInOrder
  <2>4. LockInv'
    BY <1>1, <2>1, <2>2 DEF QueueInv, LockInv
  <2> QED BY <2>3, <2>4 DEF QueueInv
<1>6. CASE \/ UseMmRegCallouts \/ SpiAddEntry \/ EspiAddEntry \/ LpiAddEntry
           \/ SetIntrTrigMode \/ (Initialize /\ num_lpis = 0)
  <2>1. /\ UNCHANGED <<its_params, cwriter, creadr, issued, queue, lock>>
        /\ Ready' /\ num_lpis' # 0 => Ready /\ num_lpis # 0
        /\ Ready => Ready'
    BY <1>6 DEF UseMmRegCallouts, SpiAddEntry, EspiAddEntry, LpiAddEntry, Add,
      SetIntrTrigMode, Initialize, InitLpis, Ready
  <2>2. phase' # "run" /\ (num_lpis' = 0 \/ bootcpu' = None) => Consumed
    <3>1. CASE ~ Ready
      BY <3>1 DEF QueueInv, RingInv, Consumed
    <3>2. CASE Ready
      <4>1. UNCHANGED <<phase, num_lpis>>
        BY <1>6, <3>2 DEF UseMmRegCallouts, SpiAddEntry, EspiAddEntry,
          LpiAddEntry, Add, SetIntrTrigMode, Initialize, Ready
      <4> QED BY <1>1, <4>1 DEF QueueInv, RingInv
    <3> QED BY <3>1, <3>2
  <2> QED BY <1>1, <2>1, <2>2, QueueKept
<1> QED BY <1>3, <1>4, <1>5, <1>6 DEF Board

\* Every step keeps the queue.
LEMMA QueueStep ==
  ASSUME EntryInv, CpuInv, QueueInv, Next
  PROVE  QueueInv'
<1> USE DEF Goto
<1>1. CASE Board
  BY <1>1, BoardQueue
<1>2. ASSUME NEW c \in CPU, GiccFind(c), num_lpis # 0 PROVE QueueInv'
  BY <1>2, MapcKeeps
<1>3. CASE \/ MapcPoll \/ GiccInit
           \/ num_lpis = 0 /\ \E c \in CPU : GiccFind(c)
  <2>1. /\ UNCHANGED <<its_params, cwriter, creadr, issued, queue, lock, x3, pc,
                       num_lpis>>
        /\ Ready /\ Ready' /\ phase = "cpus"
    BY <1>3 DEF MapcPoll, MapcRetry, GiccInit, GiccFind, Ready
  <2>2. phase' # "run" /\ (num_lpis' = 0 \/ bootcpu' = None) => Consumed
    <3>1. num_lpis = 0 => Consumed
      BY <2>1 DEF QueueInv, RingInv
    <3>2. num_lpis # 0 => num_lpis > 0
      BY DEF EntryInv
    <3>3. MapcPoll => UNCHANGED bootcpu
      BY DEF MapcPoll
    <3>4. GiccInit => (num_lpis > 0 => Consumed)
      BY DEF GiccInit, GiccDone
    <3> QED BY <1>3, <2>1, <3>1, <3>2, <3>3, <3>4 DEF QueueInv, RingInv
  <2> QED BY <2>1, <2>2, QueueKept
<1>4. CASE Devices \/ Translate
  <2>1. CASE ItsConsume /\ Translate
    BY <2>1, ConsumeKeeps DEF Translate
  <2>2. CASE Devices \/ (Translate /\ (ItsPrefetch \/ ItsStall))
    <3>1. UNCHANGED <<its_params, cwriter, creadr, issued, queue, lock, x3, pc,
                      num_lpis, phase, bootcpu>>
      BY <2>2 DEF Devices, Raise, Translate, ItsPrefetch, ItsStall
    <3> QED BY <3>1, QueueKept DEF Ready, QueueInv, RingInv
  <2> QED BY <1>4, <2>1, <2>2 DEF Translate
<1>5. ASSUME NEW c \in CPU, \/ TakeIrq(c) \/ IdPpi(c) \/ Id(c) \/ HandleIpi(c)
                             \/ HandleDevice(c) \/ Eoi(c) \/ SendSgi(c)
      PROVE  QueueInv'
  <2>1. /\ UNCHANGED <<its_params, cwriter, creadr, issued, queue, lock, x3,
                       num_lpis, phase, bootcpu>>
        /\ pc[c] \notin LpiPc /\ pc'[c] \notin LpiPc
        /\ \A d \in CPU \ {c} : pc'[d] = pc[d]
    BY <1>5 DEF TakeIrq, IdPpi, Id, HandleIpi, HandleDevice, Eoi, SendSgi,
      LpiPc, CpuInv
  <2>2. \A d \in CPU : pc'[d] = pc[d] \/ {pc'[d], pc[d]} \cap LpiPc = {}
    BY <2>1
  <2> QED BY <2>1, <2>2, QueueKept DEF Ready, QueueInv, RingInv
<1>6. ASSUME NEW c \in CPU, HandleLpi(c) PROVE QueueInv'
  BY <1>6, StartKeeps DEF HandleLpi, Pc
<1>7. ASSUME NEW c \in CPU, LpiCfg(c) \/ LpiCmd(c) \/ LpiCwr(c) PROVE QueueInv'
  <2>1. phase = "run" /\ pc \in [CPU -> Pc]
    BY <1>7 DEF LpiCfg, LpiCmd, LpiCwr, CpuInv
  <2> QED BY <1>7, <2>1, CfgKeeps, CmdKeeps, CwrKeeps
<1>8. ASSUME NEW c \in CPU, Drivers(c) PROVE QueueInv'
  <2>1. ASSUME NEW n \in Lpi, NEW on \in BOOLEAN, SetMaskLpi(c, n, on)
        PROVE  QueueInv'
    BY <2>1, StartKeeps DEF SetMaskLpi, Pc
  <2>2. ASSUME \/ \E n \in Ppi \cup Shared, on \in BOOLEAN : SetMask(c, n, on)
               \/ \E t \in CPU, cmd \in Cmd : SendOr(c, t, cmd)
        PROVE  QueueInv'
    <3>1. /\ UNCHANGED <<its_params, cwriter, creadr, issued, queue, lock, x3,
                         num_lpis, phase, bootcpu>>
          /\ pc[c] \notin LpiPc /\ pc'[c] \notin LpiPc
          /\ \A d \in CPU \ {c} : pc'[d] = pc[d]
      <4>1. CASE \E n \in Ppi \cup Shared, on \in BOOLEAN : SetMask(c, n, on)
        BY <4>1 DEF SetMask, LpiPc
      <4>2. CASE \E t \in CPU, cmd \in Cmd : SendOr(c, t, cmd)
        BY <4>2 DEF SendOr, LpiPc, CpuInv
      <4> QED BY <2>2, <4>1, <4>2
    <3>2. \A d \in CPU : pc'[d] = pc[d] \/ {pc'[d], pc[d]} \cap LpiPc = {}
      BY <3>1
    <3> QED BY <3>1, <3>2, QueueKept DEF Ready, QueueInv, RingInv
  <2> QED BY <1>8, <2>1, <2>2 DEF Drivers
<1>9. CASE Boot
  BY <1>2, <1>3, <1>9 DEF Boot
<1>10. CASE RunStep
  BY <1>4, <1>5, <1>6, <1>7, <1>8, <1>10 DEF RunStep, Continue
<1> QED BY <1>1, <1>9, <1>10, NextKinds

-----------------------------------------------------------------------------
(* Collections and the configuration of the LPIs.                          *)

\* A step that neither issues nor loses a command keeps the mappings.
LEMMA MapKept ==
  ASSUME CpuInv, MapInv,
         UNCHANGED <<issued, mapped, lpi_on, its_hw, bootcpu, gicr_aff>>,
         bootcpu # None /\ num_lpis' # 0 => num_lpis # 0,
         cached' # cfg' => lock' # None \/ Issued("INVALL")
  PROVE  MapInv'
<1>1. \A c \in CPU : OwnGicr(c)' = OwnGicr(c)
  BY OwnGicrStays
<1>2. \A i : RDbase(i)' = RDbase(i)
  BY DEF RDbase
<1>3. bootcpu # None => bootcpu \in CPU
  BY DEF CpuInv
<1> QED BY <1>1, <1>2, <1>3 DEF MapInv, Issued, CollectionsRight

\* The ITS takes a MAPC, an INVALL or a SYNC.
LEMMA MapConsume ==
  ASSUME CpuInv, QueueInv, MapInv, ItsConsume,
         UNCHANGED <<lpi_on, bootcpu, gicr_aff, num_lpis>>
  PROVE  MapInv'
<1> DEFINE cmd == issued[1]
<1>1. /\ issued \in Seq(Command) /\ issued # <<>> /\ queue[creadr] = cmd
      /\ ~ Consumed
  BY IssuedIs DEF ItsConsume
<1>2. /\ Len(issued) \in Nat /\ 1 \in 1 .. Len(issued)
      /\ issued' = Tail(issued) /\ Len(issued') = Len(issued) - 1
      /\ \A j \in 1 .. Len(issued) - 1 : issued'[j] = issued[j + 1]
  BY <1>1 DEF ItsConsume
<1>3. /\ mapped' = IF cmd[1] = "MAPC" /\ cmd[2] \in CPU
                   THEN [mapped EXCEPT ![cmd[2]] = FrameOf(cmd[3])] ELSE mapped
      /\ cached' = IF cmd[1] = "INVALL" THEN cfg ELSE cached
      /\ UNCHANGED <<its_hw, lock, cfg>>
  BY <1>1 DEF ItsConsume
<1>4. \A c \in CPU : OwnGicr(c)' = OwnGicr(c) /\ OwnGicr(c) \in Gicr
  BY OwnGicrStays, OwnGicrRight
<1>5. \A i : RDbase(i)' = RDbase(i)
  BY <1>3 DEF RDbase
<1>6. bootcpu # None => bootcpu \in CPU
  BY DEF CpuInv
<1>7. ASSUME NEW k, Issued(k) PROVE cmd[1] = k \/ Issued(k)'
  <2>1. PICK j \in 1 .. Len(issued) : issued[j][1] = k
    BY <1>7 DEF Issued
  <2>2. CASE j = 1
    BY <2>1, <2>2
  <2>3. CASE j # 1
    <3>1. j - 1 \in 1 .. Len(issued')
      BY <1>2, <2>3
    <3>2. issued'[j - 1] = issued[j]
      BY <1>2, <2>3
    <3> QED BY <2>1, <3>1, <3>2 DEF Issued
  <2> QED BY <2>2, <2>3
<1>8. CASE cmd[1] = "MAPC"
  <2>1. bootcpu \in CPU /\ cmd = <<"MAPC", bootcpu, RDbase(OwnGicr(bootcpu))>>
    BY <1>2, <1>6, <1>8 DEF MapInv
  <2>2. FrameOf(cmd[3]) = OwnGicr(bootcpu)
    BY <1>4, <2>1, RDbaseIs
  <2>3. mapped' = [mapped EXCEPT ![bootcpu] = OwnGicr(bootcpu)]
    BY <1>3, <2>1, <2>2
  <2>4. /\ DOMAIN mapped' = CPU /\ mapped'[bootcpu] = OwnGicr(bootcpu)
        /\ \A c \in lpi_on : mapped'[c] = OwnGicr(c)
    BY <2>1, <2>3 DEF MapInv, CollectionsRight
  <2>5. cached' # cfg' => lock' # None \/ Issued("INVALL")'
    BY <1>3, <1>7, <2>1 DEF MapInv
  <2> QED BY <1>2, <1>4, <1>5, <1>6, <2>4, <2>5 DEF MapInv, CollectionsRight
<1>9. CASE cmd[1] # "MAPC"
  <2>1. mapped' = mapped
    BY <1>3, <1>9
  <2>2. Issued("MAPC") => Issued("MAPC")'
    BY <1>7, <1>9
  <2>3. cached' # cfg' => lock' # None \/ Issued("INVALL")'
    BY <1>3, <1>7 DEF MapInv
  <2> QED BY <1>2, <1>4, <1>5, <1>6, <2>1, <2>2, <2>3
    DEF MapInv, CollectionsRight
<1> QED BY <1>8, <1>9

\* Every step keeps the mappings of the LPIs.
LEMMA MapStep ==
  ASSUME EntryInv, CpuInv, QueueInv, MapInv, Next
  PROVE  MapInv'
<1>1. CASE Board
  <2>1. /\ UNCHANGED <<its_hw, mapped, cached, lpi_on, bootcpu, gicr_aff>>
        /\ phase # "run" /\ cfg' \in {cfg, {}}
    BY <1>1, BoardLeaves DEF Board, SetPaddrRange, UseMmRegCallouts,
      SetItsParams, SpiAddEntry, EspiAddEntry, LpiAddEntry, Add, Initialize,
      SetIntrTrigMode, InitLpis, ItsInitialize
  <2>2. cached' = cfg'
    BY <2>1 DEF CpuInv
  <2>3. bootcpu = None \/ SetIntrTrigMode
    BY <1>1 DEF Board, SetPaddrRange, UseMmRegCallouts, SetItsParams,
      SpiAddEntry, EspiAddEntry, LpiAddEntry, Add, Initialize, CpuInv
  <2>4. issued' = issued \/ (bootcpu = None /\ issued' = <<>>)
    BY <1>1, <2>3 DEF Board, SetPaddrRange, UseMmRegCallouts, SetItsParams,
      SpiAddEntry, EspiAddEntry, LpiAddEntry, Add, Initialize, InitLpis,
      ItsInitialize, CommandQueue, SetIntrTrigMode
  <2>5. CASE issued' = issued
    <3>1. bootcpu # None /\ num_lpis' # 0 => num_lpis # 0
      BY <2>3 DEF SetIntrTrigMode
    <3> QED BY <2>1, <2>2, <2>5, <3>1, MapKept
  <2>6. CASE bootcpu = None /\ issued' = <<>>
    <3>1. \A c \in CPU : OwnGicr(c)' = OwnGicr(c)
      BY <2>1, OwnGicrStays
    <3>2. 1 .. Len(issued') = {}
      BY <2>6
    <3> QED BY <2>1, <2>2, <2>6, <3>1, <3>2 DEF MapInv, CollectionsRight
  <2> QED BY <2>4, <2>5, <2>6
<1>2. ASSUME NEW c \in CPU, GiccFind(c) PROVE MapInv'
  <2>1. /\ UNCHANGED <<its_hw, mapped, lpi_on, gicr_aff, cfg, cached, num_lpis>>
        /\ bootcpu = None /\ bootcpu' = c /\ phase = "cpus"
    BY <1>2 DEF GiccFind, MapcIssue
  <2>2. cached' = cfg'
    BY <2>1 DEF CpuInv
  <2>3. \A d \in CPU : OwnGicr(d)' = OwnGicr(d)
    BY <2>1, OwnGicrStays
  <2>4. \A i : RDbase(i)' = RDbase(i)
    BY <2>1 DEF RDbase
  <2>5. CASE num_lpis = 0
    <3>1. issued' = issued
      BY <1>2, <2>5 DEF GiccFind
    <3> QED BY <2>1, <2>2, <2>3, <2>5, <3>1 DEF MapInv, CollectionsRight
  <2>6. CASE num_lpis # 0
    <3>1. issued' = MapcCmds(c, OwnGicr(c))
      BY <1>2, <2>6, MapcKeeps
    <3>2. /\ Len(issued') = 3
          /\ issued'[1] = <<"MAPC", c, RDbase(OwnGicr(c))>>
          /\ issued'[2][1] = "SYNC" /\ issued'[3][1] = "INVALL"
      BY <3>1, CollectionIs DEF MapcCmds
    <3>3. \A j \in 1 .. Len(issued') : issued'[j][1] = "MAPC" => j = 1
      BY <3>2
    <3>4. Issued("MAPC")'
      BY <3>2 DEF Issued
    <3>5. c # None
      BY Hardware
    <3> QED BY <2>1, <2>2, <2>3, <2>4, <3>2, <3>3, <3>4, <3>5
      DEF MapInv, CollectionsRight
  <2> QED BY <2>5, <2>6
<1>3. CASE MapcPoll
  <2>1. UNCHANGED <<issued, mapped, lpi_on, its_hw, bootcpu, gicr_aff, num_lpis,
                    cached, cfg, lock>>
    BY <1>3 DEF MapcPoll, MapcRetry
  <2> QED BY <2>1, MapKept DEF MapInv
<1>4. CASE GiccInit
  <2>1. /\ UNCHANGED <<issued, mapped, its_hw, gicr_aff, num_lpis, cached, cfg,
                       lock>>
        /\ bootcpu # None /\ bootcpu' = None /\ (num_lpis > 0 => Consumed)
        /\ lpi_on' = IF num_lpis = 0 THEN lpi_on ELSE lpi_on \cup {bootcpu}
        /\ phase = "cpus"
    BY <1>4 DEF GiccInit, GiccDone
  <2>2. bootcpu \in CPU
    BY <2>1 DEF CpuInv
  <2>3. Consumed
    <3>1. num_lpis # 0 => num_lpis > 0
      BY DEF EntryInv
    <3> QED BY <2>1, <3>1 DEF QueueInv, RingInv
  <2>4. Len(issued) = 0
    BY <2>3, IssuedIs
  <2>5. 1 .. Len(issued) = {}
    BY <2>4
  <2>6. num_lpis # 0 => mapped[bootcpu] = OwnGicr(bootcpu)
    BY <2>1, <2>5 DEF MapInv, Issued
  <2>7. \A c \in CPU : OwnGicr(c)' = OwnGicr(c)
    BY <2>1, OwnGicrStays
  <2>8. cached = cfg
    BY <2>1 DEF CpuInv
  <2> QED BY <2>1, <2>2, <2>5, <2>6, <2>7, <2>8 DEF MapInv, CollectionsRight
<1>5. CASE Devices \/ Translate
  <2>1. CASE Translate /\ ItsConsume
    BY <2>1, MapConsume DEF Translate
  <2>2. CASE Devices \/ (Translate /\ ItsStall)
    <3>1. UNCHANGED <<issued, mapped, lpi_on, its_hw, bootcpu, gicr_aff,
                      num_lpis, cached, cfg, lock>>
      BY <2>2 DEF Devices, Raise, Translate, ItsStall
    <3> QED BY <3>1, MapKept DEF MapInv
  <2>3. CASE Translate /\ ItsPrefetch
    <3>1. /\ UNCHANGED <<issued, mapped, lpi_on, its_hw, bootcpu, gicr_aff,
                         num_lpis, cfg, lock>>
          /\ cached # cfg
      BY <2>3 DEF Translate, ItsPrefetch
    <3> QED BY <3>1, MapKept DEF MapInv
  <2> QED BY <1>5, <2>1, <2>2, <2>3 DEF Translate
<1>6. ASSUME NEW c \in CPU, \/ TakeIrq(c) \/ IdPpi(c) \/ Id(c) \/ HandleIpi(c)
                             \/ HandleDevice(c) \/ Eoi(c) \/ SendSgi(c)
                             \/ LpiCmd(c)
      PROVE  MapInv'
  <2>1. UNCHANGED <<issued, mapped, lpi_on, its_hw, bootcpu, gicr_aff, num_lpis,
                    cached, cfg, lock>>
    BY <1>6 DEF TakeIrq, IdPpi, Id, HandleIpi, HandleDevice, Eoi, SendSgi,
      LpiCmd, LpiQueue
  <2> QED BY <2>1, MapKept DEF MapInv
<1>7. ASSUME NEW c \in CPU, NEW n, NEW on, NEW from, StartLpi(c, n, on, from)
      PROVE  MapInv'
  <2>1. /\ UNCHANGED <<issued, mapped, lpi_on, its_hw, bootcpu, gicr_aff,
                       num_lpis, cached, cfg>>
        /\ lock' = c
    BY <1>7 DEF StartLpi, LpiLock
  <2>2. c # None
    BY Hardware
  <2> QED BY <2>1, <2>2, MapKept
<1>8. ASSUME NEW c \in CPU, LpiCfg(c) PROVE MapInv'
  <2>1. /\ UNCHANGED <<issued, mapped, lpi_on, its_hw, bootcpu, gicr_aff,
                       num_lpis, cached, lock>>
        /\ pc[c] = "lpi_cfg"
    BY <1>8 DEF LpiCfg, LpiConfig, Goto
  <2>2. lock' # None
    BY <2>1, Hardware DEF QueueInv, LockInv, LpiPc
  <2> QED BY <2>1, <2>2, MapKept
<1>9. ASSUME NEW c \in CPU, LpiCwr(c) PROVE MapInv'
  <2>1. /\ UNCHANGED <<mapped, lpi_on, its_hw, bootcpu, gicr_aff, num_lpis,
                       cached, cfg>>
        /\ issued' = issued \o LpiCmds
    BY <1>9 DEF LpiCwr, LpiCwriter
  <2>2. issued \in Seq(Command) /\ Len(issued) \in Nat
    BY IssuedIs
  <2>3. /\ Len(issued') = Len(issued) + 2
        /\ \A j \in 1 .. Len(issued) : issued'[j] = issued[j]
        /\ issued'[Len(issued) + 1][1] = "INVALL"
        /\ issued'[Len(issued) + 2][1] = "SYNC"
    <3>1. PICK s \in Seq(Command) : s = LpiCmds /\ Len(s) = 2
      <4>1. <<"INVALL", 0, 0>> \in Command /\ <<"SYNC", 0, 0>> \in Command
        BY DEF Command
      <4> QED BY <4>1, CommandSeqs DEF LpiCmds
    <3>2. s[1][1] = "INVALL" /\ s[2][1] = "SYNC"
      BY <3>1 DEF LpiCmds
    <3>3. 1 \in 1 .. Len(s) /\ 2 \in 1 .. Len(s)
      BY <3>1
    <3>4. /\ Len(issued \o s) = Len(issued) + Len(s)
          /\ \A j \in 1 .. Len(issued) : (issued \o s)[j] = issued[j]
          /\ \A j \in 1 .. Len(s) : (issued \o s)[Len(issued) + j] = s[j]
      <4>1. issued \in Seq(Command) /\ s \in Seq(Command)
        BY <2>2, <3>1
      <4> QED BY <4>1, ConcatIs
    <3> QED BY <2>1, <3>1, <3>2, <3>3, <3>4
  <2>4. Issued("INVALL")'
    <3>1. Len(issued) + 1 \in 1 .. Len(issued')
      BY <2>2, <2>3
    <3> QED BY <2>3, <3>1 DEF Issued
  <2>5. Issued("MAPC") => Issued("MAPC")'
    <3>1. 1 .. Len(issued) \subseteq 1 .. Len(issued')
      BY <2>2, <2>3
    <3> QED BY <2>3, <3>1 DEF Issued
  <2>6. \A j \in 1 .. Len(issued') : issued'[j][1] = "MAPC" => j \in 1 .. Len(issued)
    <3>1. \A j \in 1 .. Len(issued') : \/ j \in 1 .. Len(issued)
                                       \/ j = Len(issued) + 1 \/ j = Len(issued) + 2
      BY <2>2, <2>3
    <3> QED BY <2>3, <3>1
  <2>7. \A d \in CPU : OwnGicr(d)' = OwnGicr(d)
    BY <2>1, OwnGicrStays
  <2>8. \A i : RDbase(i)' = RDbase(i)
    BY <2>1 DEF RDbase
  <2>9. bootcpu # None => bootcpu \in CPU
    BY DEF CpuInv
  <2> QED BY <2>1, <2>3, <2>4, <2>5, <2>6, <2>7, <2>8, <2>9
    DEF MapInv, CollectionsRight
<1>10. ASSUME NEW c \in CPU, Drivers(c) PROVE MapInv'
  <2>1. ASSUME NEW n \in Lpi, NEW on \in BOOLEAN, SetMaskLpi(c, n, on)
        PROVE  MapInv'
    BY <1>7, <2>1 DEF SetMaskLpi
  <2>2. ASSUME \/ \E n \in Ppi \cup Shared, on \in BOOLEAN : SetMask(c, n, on)
               \/ \E t \in CPU, cmd \in Cmd : SendOr(c, t, cmd)
        PROVE  MapInv'
    <3>1. UNCHANGED <<issued, mapped, lpi_on, its_hw, bootcpu, gicr_aff,
                      num_lpis, cached, cfg, lock>>
      BY <2>2 DEF SetMask, SendOr
    <3> QED BY <3>1, MapKept DEF MapInv
  <2> QED BY <1>10, <2>1, <2>2 DEF Drivers
<1>11. CASE RunStep
  BY <1>5, <1>6, <1>7, <1>8, <1>9, <1>10, <1>11 DEF RunStep, Continue, HandleLpi
<1>12. CASE Boot
  BY <1>2, <1>3, <1>4, <1>12 DEF Boot
<1> QED BY <1>1, <1>11, <1>12, NextKinds

-----------------------------------------------------------------------------
(* The theorems.                                                           *)

\* The boards the set-up is started on.
LEMMA BoardsAre ==
  \A b \in Boards :
    /\ b.calls \in Seq(BoardCall)
    /\ DOMAIN b.gicr_aff = Gicr
    /\ \A c \in CPU : \E i \in Gicr : b.gicr_aff[i] = CpuAff[c]
    /\ \A i, j \in Gicr : b.gicr_aff[i] = b.gicr_aff[j] => i = j
<1>1. \A b \in Boards :
        /\ {b.sre, b.pta, b.settable, b.touched} \subseteq BOOLEAN
        /\ b.calls \in Seq(BoardCall)
        /\ DOMAIN b.gicr_aff = Gicr
        /\ \A c \in CPU : \E i \in Gicr : b.gicr_aff[i] = CpuAff[c]
        /\ \A i, j \in Gicr : b.gicr_aff[i] = b.gicr_aff[j] => i = j
  BY GicV3Assumption, ZenonT(40)
<1> QED BY <1>1, Zenon

\* The inductive invariant holds at first ...
LEMMA InitIInv == Init => IInv
<1> SUFFICES ASSUME Init PROVE IInv
  OBVIOUS
<1>1. PICK b \in Boards : ItsInit(b) /\ gicr_aff = b.gicr_aff /\ calls = b.calls
  BY DEF Init
<1>2. /\ b.calls \in Seq(BoardCall) /\ DOMAIN b.gicr_aff = Gicr
      /\ \A c \in CPU : \E i \in Gicr : b.gicr_aff[i] = CpuAff[c]
      /\ \A i, j \in Gicr : b.gicr_aff[i] = b.gicr_aff[j] => i = j
  BY <1>1, BoardsAre
<1>3. /\ phase = "reset" /\ mm = FALSE /\ num_lpis = 0
      /\ entries = [cls \in Classes |-> <<>>]
      /\ up = {} /\ bootcpu = None /\ sgi = {} /\ unmasked = {} /\ lpi_on = {}
      /\ pc = [c \in CPU |-> "idle"] /\ x24 = [c \in CPU |-> Spurious]
      /\ ipicmds = [c \in CPU |-> {}] /\ dst = [c \in CPU |-> c]
      /\ DOMAIN gicr_idx = CPU /\ DOMAIN gic_map = CPU /\ DOMAIN op = CPU
      /\ DOMAIN x1 = CPU /\ DOMAIN w7 = CPU /\ DOMAIN x3 = CPU
  BY DEF Init
<1>4. /\ its_params = ItsParamsDflt /\ cwriter = 0 /\ creadr = 0
      /\ issued = <<>> /\ DOMAIN mapped = CPU
      /\ lock = None /\ cfg = {} /\ cached = {}
  BY <1>1 DEF ItsInit
<1>5. EntryInv
  <2>1. \A cls \in Classes : entries[cls] = <<>> /\ 1 .. Len(entries[cls]) = {}
    BY <1>3
  <2>2. entries \in [Classes -> Seq(Entry)]
    BY <1>3
  <2> QED BY <1>1, <1>2, <1>3, <2>1, <2>2 DEF EntryInv
<1>6. CpuInv
  BY <1>1, <1>2, <1>3, <1>4 DEF CpuInv, Pc, Spurious
<1>7. IpiInv
  BY <1>3 DEF IpiInv, NoLostIpi, Ready
<1>8. LineInv
  BY <1>3, <1>4 DEF LineInv, Ready
<1>9. QueueInv
  <2>1. "q_pages" \in DOMAIN its_params /\ its_params.q_pages = 2
    BY <1>4 DEF ItsParamsDflt
  <2>2. Slots \in Nat /\ 0 \in 0 .. Slots - 1
    BY <2>1, Hardware DEF Slots
  <2>3. Len(issued) = 0 /\ issued \in Seq(Command)
    BY <1>4
  <2>4. QueueInOrder
    BY <1>4, <2>2, <2>3 DEF QueueInOrder, Dist
  <2>5. RingInv
    BY <1>3, <1>4, <2>1, <2>2, <2>3, <2>4 DEF RingInv, Ready, Consumed
  <2>6. LockInv
    <3>1. \A c \in CPU : c # None
      BY Hardware
    <3> QED BY <1>3, <1>4, <3>1 DEF LockInv, LpiPc
  <2> QED BY <2>5, <2>6 DEF QueueInv
<1>10. MapInv
  BY <1>3, <1>4 DEF MapInv, CollectionsRight
<1> QED BY <1>5, <1>6, <1>7, <1>8, <1>9, <1>10 DEF IInv

\* ... every step keeps it ...
LEMMA StepIInv ==
  ASSUME IInv, Next
  PROVE  IInv'
BY EntryStep, CpuStep, IpiStep, LineStep, QueueStep, MapStep DEF IInv

\* ... and so does one that changes nothing ...
LEMMA StutterIInv ==
  ASSUME IInv, UNCHANGED vars
  PROVE  IInv'
<1>1. UNCHANGED <<itsVars, phase, setupVars, distVars, lineVars, bootVars, sgi,
                  cpuVars, sendVars, unmasked>>
  BY DEF vars
<1>2. \A c \in CPU : OwnGicr(c)' = OwnGicr(c) /\ IpiTarget(c)' = IpiTarget(c)
  BY <1>1, OwnGicrStays DEF IpiTarget
<1>3. up \subseteq CPU
  BY DEF IInv, CpuInv
<1>4. EntryInv'
  BY <1>1 DEF IInv, EntryInv
<1>5. CpuInv'
  BY <1>1, <1>2 DEF IInv, CpuInv
<1>6. IpiInv'
  BY <1>1, <1>2, <1>3 DEF IInv, IpiInv, NoLostIpi, Ready
<1>7. LineInv'
  BY <1>1, QuietLines DEF IInv, LineInv
<1>8. QueueInv'
  BY <1>1, QueueKept DEF IInv, QueueInv, RingInv, Ready
<1>9. MapInv'
  BY <1>1, MapKept DEF IInv, MapInv
<1> QED BY <1>4, <1>5, <1>6, <1>7, <1>8, <1>9 DEF IInv

\* ... so that it always holds.
LEMMA Invariance == Spec => []IInv
<1>1. ASSUME IInv, [Next]_vars PROVE IInv'
  BY <1>1, StepIInv, StutterIInv
<1> QED BY InitIInv, <1>1, PTL DEF Spec

\* Whatever entries a board adds, in whatever order, no interrupt number is
\* in two entries of the system page.
THEOREM EntriesAreDisjoint == Spec => []EntriesDisjoint
<1>1. IInv => EntriesDisjoint
  BY EntriesApart DEF IInv
<1> QED BY <1>1, Invariance, PTL

\* No command a CPU has posted is left without an SGI that will deliver it,
\* although sendipi skips the SGI when the word was not empty.
THEOREM IpiIsNotLost == Spec => []NoLostIpi
<1>1. IInv => NoLostIpi
  BY DEF IInv, IpiInv
<1> QED BY <1>1, Invariance, PTL

\* Collections name their CPU's redistributor, the ITS reads exactly the
\* commands issued, and an idle queue means no stale LPI configuration.
THEOREM LpisAreRight == Spec => []LpisRight
<1>1. IInv => LpisRight
  <2> SUFFICES ASSUME IInv PROVE LpisRight
    OBVIOUS
  <2>1. QueueExact /\ CollectionsRight
    BY InOrderIsExact DEF IInv, MapInv
  <2>2. ASSUME Consumed, lock = None PROVE cached = cfg
    <3>1. 1 .. Len(issued) = {}
      BY <2>2, IssuedIs DEF IInv
    <3>2. ~ Issued("INVALL")
      BY <3>1 DEF Issued
    <3> QED BY <2>2, <3>2 DEF IInv, MapInv
  <2> QED BY <2>1, <2>2 DEF LpisRight, NoStaleConfig
<1> QED BY <1>1, Invariance, PTL

\* The number IAR gives when nothing is pending is no device's.
LEMMA SpuriousIsNone == Spurious \notin Ppi \cup Shared \cup Lpi
<1>1. ASSUME NEW n \in Ppi PROVE n # Spurious
  <2>1. n \in 16 .. 31
    BY Hardware
  <2> QED BY <2>1 DEF Spurious
<1>2. ASSUME NEW n \in Spi PROVE n # Spurious
  <2>1. n \in 32 .. 1019
    BY Hardware
  <2> QED BY <2>1 DEF Spurious
<1>3. ASSUME NEW n \in Espi PROVE n # Spurious
  <2>1. n \in 4096 .. 5119
    BY Hardware
  <2> QED BY <2>1 DEF Spurious
<1>4. ASSUME NEW n \in Lpi PROVE n # Spurious
  <2>1. n \in Nat /\ n >= 8192
    BY Hardware
  <2> QED BY <2>1 DEF Spurious
<1> QED BY <1>1, <1>2, <1>3, <1>4

\* Only the read of IAR takes a CPU from "iar" to "id".
LEMMA OnlyIdPpi ==
  ASSUME CpuInv, Next, NEW c \in CPU, pc[c] = "iar", pc'[c] = "id"
  PROVE  IdPpi(c)
<1>1. CASE Board \/ Boot \/ Devices \/ Translate
  <2>1. pc' = pc
    BY <1>1, BoardLeaves, BootLeaves DEF Devices, Raise, Translate
  <2> QED BY <2>1
<1>2. ASSUME NEW d \in CPU, TakeIrq(d) \/ Continue(d) \/ Drivers(d)
      PROVE  IdPpi(c)
  <2>1. pc \in [CPU -> Pc]
    BY DEF CpuInv
  <2>2. CASE IdPpi(d)
    <3>1. pc' = [pc EXCEPT ![d] = "id"]
      BY <2>2 DEF IdPpi, Goto
    <3> QED BY <2>1, <2>2, <3>1
  <2>3. CASE ~ IdPpi(d)
    <3>1. pc[d] # "iar" /\ \E s : pc' = [pc EXCEPT ![d] = s]
      <4>1. CASE TakeIrq(d)
        BY <4>1 DEF TakeIrq, Goto
      <4>2. CASE Continue(d)
        BY <2>3, <4>2 DEF Continue, Id, HandleIpi, HandleDevice, HandleLpi,
          StartLpi, Eoi, SendSgi, LpiCfg, LpiCmd, LpiCwr, Goto
      <4>3. CASE Drivers(d)
        <5>1. pc' = [pc EXCEPT ![d] = "idle"] \/ \E s : pc' = [pc EXCEPT ![d] = s]
          <6>1. CASE pc' = pc
            BY <2>1, <4>3, <6>1 DEF Drivers, SetMask, SetMaskLpi, StartLpi,
              SendOr, Goto
          <6>2. CASE pc' # pc
            BY <4>3, <6>2 DEF Drivers, SetMask, SetMaskLpi, StartLpi, SendOr,
              Goto
          <6> QED BY <6>1, <6>2
        <5>2. pc[d] = "idle"
          BY <4>3 DEF Drivers, SetMask, SetMaskLpi, StartLpi, SendOr, Goto
        <5> QED BY <5>1, <5>2
      <4> QED BY <1>2, <4>1, <4>2, <4>3
    <3> QED BY <2>1, <3>1
  <2> QED BY <2>2, <2>3
<1> QED BY <1>1, <1>2 DEF Next

\* A CPU that reads IAR gets no device interrupt the kernel has masked, but
\* for an LPI whose mask the ITS has yet to read.
THEOREM MaskedIsQuiet == Spec => MaskedStaysQuiet
<1>1. ASSUME IInv, Next, NEW c \in CPU, pc[c] = "iar", pc'[c] = "id",
             x24'[c] \in Ppi \cup Shared \cup Lpi
      PROVE  \/ Line(OwnGicr(c), x24'[c]) \in unmasked
             \/ x24'[c] \in Lpi /\ (lock # None \/ ~ Consumed)
  <2>1. IdPpi(c)
    BY <1>1, OnlyIdPpi DEF IInv
  <2>2. phase = "run" /\ c \in up
    BY <1>1 DEF IInv, CpuInv
  <2>3. PICK v \in Highest(c) : x24'[c] = v
    <3>1. \/ x24'[c] = Spurious
          \/ \E v \in Highest(c) : x24'[c] = v
      BY <1>1, <2>1 DEF IdPpi, IInv, CpuInv
    <3> QED BY <1>1, <3>1, SpuriousIsNone
  <2>4. v \in Signalled(c)
    BY <2>3 DEF Highest
  <2>5. CASE v \in Ppi \cup Shared
    <3>1. v \notin Lpi /\ v # Ipi
      BY <2>5, KindsNat, SharedNotLpi, KindsApart DEF Ipi
    <3>2. Line(OwnGicr(c), v) \in enabled
      BY <2>4, <2>5, <3>1 DEF Signalled
    <3>3. Line(OwnGicr(c), v) \in unmasked
      BY <1>1, <2>2, <2>5, <3>2, LineIs DEF IInv, LineInv, Ready
    <3> QED BY <2>3, <3>3
  <2>6. CASE v \in Lpi
    <3>1. v \notin Ppi \cup Shared /\ v # Ipi
      BY <2>6, KindsNat, SharedNotLpi, KindsApart DEF Ipi
    <3>2. v \in cached
      BY <2>4, <3>1 DEF Signalled
    <3>3. CASE cached # cfg
      <4>1. lock # None \/ Issued("INVALL")
        BY <1>1, <3>3 DEF IInv, MapInv
      <4>2. Issued("INVALL") => ~ Consumed
        <5>1. Consumed => 1 .. Len(issued) = {}
          BY <1>1, IssuedIs DEF IInv
        <5> QED BY <5>1 DEF Issued
      <4> QED BY <2>3, <2>6, <4>1, <4>2
    <3>4. CASE cached = cfg
      <4>1. \/ <<None, v>> \in unmasked
            \/ \E d \in CPU : pc[d] = "lpi_cfg"
        BY <1>1, <2>6, <3>2, <3>4 DEF IInv, LineInv
      <4>2. \A d \in CPU : pc[d] = "lpi_cfg" => lock # None
        BY <1>1, Hardware DEF IInv, QueueInv, LockInv, LpiPc
      <4> QED BY <2>3, <2>6, <4>1, <4>2, LineIs
    <3> QED BY <3>3, <3>4
  <2> QED BY <1>1, <2>3, <2>5, <2>6
<1>2. ASSUME IInv, Next
      PROVE  \A c \in CPU :
               pc[c] = "iar" /\ pc'[c] = "id"
               /\ x24'[c] \in Ppi \cup Shared \cup Lpi =>
                 \/ Line(OwnGicr(c), x24'[c]) \in unmasked
                 \/ x24'[c] \in Lpi /\ (lock # None \/ ~ Consumed)
  BY <1>1, <1>2
<1> QED BY <1>2, Invariance, PTL DEF Spec, MaskedStaysQuiet
=============================================================================
