---------------------------- MODULE GicV2Proofs ----------------------------
(***************************************************************************)
(* Proofs about GicV2 for any number of CPUs, any wiring of the CPU        *)
(* interfaces and any set of interrupts: no IPI command is left without an *)
(* SGI, no interrupt is left active, and a masked line is not taken.       *)
(***************************************************************************)
EXTENDS GicV2, TLAPS

\* Once a CPU is up, gic_map holds its interface; a CPU in sendipi has the
\* interface of the CPU whose word it has written.
MapInv ==
  /\ up # {} => ready
  /\ \A c \in up : gic_map[c] = GicIf[c]
  /\ \A c \in CPU : pc[c] = "sgir" => w1[c] = GicIf[dst[c]]

\* The SPI id callout is reached only with an ID above 31.
SpiInv == \A c \in CPU : pc[c] = "id_spi" => iar[c][1] > 31

\* Only IPIs have a source other than 0.
SourceInv == \A c \in CPU : iar[c][1] # Ipi => iar[c][2] = 0

IInv == TypeOK /\ MapInv /\ SpiInv /\ SourceInv /\ NoStuckActive /\ NoLostIpi

USE NumCpuAssumption, GicIfAssumption, LinesAssumption, MaxRaiseAssumption
USE DEF CPU, Iface, Ipi, Spurious, NoMap, None, MaxSpiId, SpiBase, NoIar,
        Goto, bootVars, gicVars, cpuVars, sendVars

\* A vector of a controller belongs to a line of the model.
LEMMA LineIsALine ==
  ASSUME NEW c \in CPU
  PROVE  /\ \A v \in Ppi : LineOf(c, "ppi", v) \in AllLines
         /\ \A id \in Spi : LineOf(c, "spi", id - SpiBase) \in AllLines
<1>1. \A v \in Nat : 32 * (v \div 32) + (v % 32) = v
  OBVIOUS
<1>2. \A v \in Ppi : PpiLine(c, v) = Bank(c, v)
  BY <1>1 DEF PpiLine
<1>3. \A id \in Spi : SpiLine(c, id - SpiBase) = Bank(c, id)
  BY <1>1 DEF PpiLine, SpiLine
<1>4. \A id \in Ppi \cup Spi : Bank(c, id) \in AllLines
  BY DEF AllLines, Lines
<1> QED BY <1>2, <1>3, <1>4 DEF LineOf

\* What IAR can return.
LEMMA HighestType ==
  ASSUME TypeOK, NEW c \in CPU, NEW v \in Highest(c)
  PROVE  /\ v \in ActiveValues
         /\ v[1] = Ipi => v[2] \in sgi[c]
         /\ v[1] # Ipi => v[2] = 0 /\ v[1] \in Ppi \cup Spi
<1>1. v \in Signalled(c)
  BY DEF Highest
<1>2. CASE \E s \in sgi[c] : v = <<Ipi, s>>
  BY <1>2 DEF ActiveValues, TypeOK, SendType
<1>3. CASE \E id \in Ppi \cup Spi : v = <<id, 0>>
  BY <1>3 DEF ActiveValues
<1> QED BY <1>1, <1>2, <1>3 DEF Signalled

-----------------------------------------------------------------------------

\* The inductive invariant holds at first.
LEMMA InitIInv == Init => IInv
<1> SUFFICES ASSUME Init PROVE IInv
  OBVIOUS
<1>1. BootType
  <2>1. gic_map \in [CPU -> Iface \cup {NoMap}]
    BY DEF Init
  <2>2. up \subseteq CPU /\ ready \in BOOLEAN /\ edge \subseteq Int
    BY ZenonT(60) DEF Init
  <2>3. route \in Iface
    BY DEF Init
  <2> QED BY <2>1, <2>2, <2>3 DEF BootType
<1>2. LineType
  BY DEF Init, LineType
<1>3. NoIar \in IarValues
  BY DEF IarValues
<1>4. CpuType
  BY <1>3 DEF Init, CpuType
<1>5. SendType
  BY DEF Init, SendType
<1>6. MapInv /\ SpiInv /\ SourceInv
  BY DEF Init, MapInv, SpiInv, SourceInv
<1>7. NoStuckActive /\ NoLostIpi
  BY DEF Init, NoStuckActive, NoLostIpi
<1> QED BY <1>1, <1>2, <1>4, <1>5, <1>6, <1>7 DEF IInv, TypeOK

-----------------------------------------------------------------------------
(* Each part of the invariant is preserved by each step. A step that leaves *)
(* the variables of a part alone is treated together with the others.      *)

\* Startup's variables.
LEMMA BootTypeStep ==
  ASSUME IInv, Next
  PROVE  BootType'
<1>1. ASSUME UNCHANGED <<bootVars>> PROVE BootType'
  BY <1>1 DEF IInv, TypeOK, BootType
<1>2. ASSUME GicV2Init PROVE BootType'
  BY <1>2 DEF GicV2Init, IInv, TypeOK, BootType
<1>3. ASSUME NEW irq \in TrigIrqs, NEW on \in BOOLEAN, SetIntrTrigMode(irq, on)
      PROVE  BootType'
  BY <1>3 DEF SetIntrTrigMode, IInv, TypeOK, BootType
<1>4. ASSUME NEW c \in CPU, GicV2GiccInit(c) PROVE BootType'
  BY <1>4 DEF GicV2GiccInit, IInv, TypeOK, BootType
<1> QED
  BY <1>1, <1>2, <1>3, <1>4 DEF Next, Boot, Devices, Continue, Drivers,
     Raise, TakeIrq, ReadIar, IdPpi, IdSpi, HandleIpi, HandleDevice, Eoi,
     SendSgir, Mask, Unmask, SendOr

\* The lines.
LEMMA LineTypeStep ==
  ASSUME IInv, Next
  PROVE  LineType'
<1>1. ASSUME UNCHANGED <<enabled, pending, unmasked, raised>> PROVE LineType'
  BY <1>1 DEF IInv, TypeOK, LineType
<1>2. ASSUME GicV2Init PROVE LineType'
  BY <1>2 DEF GicV2Init, IInv, TypeOK, LineType
<1>3. ASSUME NEW c \in CPU, GicV2GiccInit(c) PROVE LineType'
  BY <1>3 DEF GicV2GiccInit, IInv, TypeOK, LineType
<1>4. ASSUME NEW c \in CPU, NEW id \in Ppi \cup Spi, Raise(c, id) PROVE LineType'
  <2>1. Bank(c, id) \in AllLines
    BY DEF AllLines, Lines
  <2> QED BY <1>4, <2>1 DEF Raise, IInv, TypeOK, LineType
<1>5. ASSUME NEW c \in CPU, ReadIar(c) PROVE LineType'
  <2>1. pending' \subseteq pending /\ UNCHANGED <<enabled, unmasked, raised>>
    BY <1>5 DEF ReadIar
  <2> QED BY <2>1 DEF IInv, TypeOK, LineType
<1>6. ASSUME NEW c \in CPU, HandleDevice(c) PROVE LineType'
  <2>1. /\ enabled' \subseteq enabled /\ unmasked' \subseteq unmasked
        /\ UNCHANGED <<pending, raised>>
    BY <1>6 DEF HandleDevice
  <2> QED BY <2>1 DEF IInv, TypeOK, LineType
<1>7. ASSUME NEW c \in CPU,
             (\E v \in Ppi : Mask(c, "ppi", v))
             \/ \E id \in Spi : Mask(c, "spi", id - SpiBase)
      PROVE  LineType'
  <2>1. /\ enabled' \subseteq enabled /\ unmasked' \subseteq unmasked
        /\ UNCHANGED <<pending, raised>>
    BY <1>7 DEF Mask
  <2> QED BY <2>1 DEF IInv, TypeOK, LineType
<1>8. ASSUME NEW c \in CPU,
             (\E v \in Ppi : Unmask(c, "ppi", v))
             \/ \E id \in Spi : Unmask(c, "spi", id - SpiBase)
      PROVE  LineType'
  <2>1. enabled' \subseteq AllLines
    BY <1>8, LineIsALine DEF Unmask, IInv, TypeOK, LineType
  <2>2. \A v \in Nat : /\ Vector(c, "ppi", v) \in {"ppi", "spi"} \X Nat \X CPU
                       /\ Vector(c, "spi", v) \in {"ppi", "spi"} \X Nat \X CPU
    BY DEF Vector
  <2>3. (\A v \in Ppi : v \in Nat) /\ \A id \in Spi : id - SpiBase \in Nat
    OBVIOUS
  <2>4. \E x \in {"ppi", "spi"} \X Nat \X CPU : unmasked' = unmasked \cup {x}
    <3>1. CASE \E v \in Ppi : Unmask(c, "ppi", v)
      <4>1. PICK v \in Ppi : Unmask(c, "ppi", v)
        BY <3>1
      <4>2. unmasked' = unmasked \cup {Vector(c, "ppi", v)}
        BY <4>1 DEF Unmask
      <4>3. v \in Nat
        BY <2>3
      <4>4. Vector(c, "ppi", v) \in {"ppi", "spi"} \X Nat \X CPU
        BY <4>3, <2>2
      <4> QED BY <4>2, <4>4, ZenonT(60)
    <3>2. CASE \E id \in Spi : Unmask(c, "spi", id - SpiBase)
      <4>1. PICK id \in Spi : Unmask(c, "spi", id - SpiBase)
        BY <3>2
      <4> DEFINE v == id - SpiBase
      <4>2. unmasked' = unmasked \cup {Vector(c, "spi", v)}
        BY <4>1 DEF Unmask
      <4>3. v \in Nat
        BY <2>3
      <4> HIDE DEF v
      <4>4. Vector(c, "spi", v) \in {"ppi", "spi"} \X Nat \X CPU
        BY <4>3, <2>2, ZenonT(60)
      <4> QED BY <4>2, <4>4, ZenonT(60)
    <3> QED BY <1>8, <3>1, <3>2
  <2>5. unmasked \subseteq {"ppi", "spi"} \X Nat \X CPU
    BY DEF IInv, TypeOK, LineType
  <2>6. unmasked' \subseteq {"ppi", "spi"} \X Nat \X CPU
    BY <2>4, <2>5
  <2> QED BY <1>8, <2>1, <2>6 DEF Unmask, IInv, TypeOK, LineType
<1> QED
  BY <1>1, <1>2, <1>3, <1>4, <1>5, <1>6, <1>7, <1>8 DEF Next, Boot,
     Devices, Continue, Drivers, SetIntrTrigMode, TakeIrq, IdPpi, IdSpi,
     HandleIpi, Eoi, SendSgir, SendOr

\* The CPUs.
LEMMA CpuTypeStep ==
  ASSUME IInv, Next
  PROVE  CpuType'
<1>1. ASSUME UNCHANGED <<pc, iar, active, x19>> PROVE CpuType'
  BY <1>1, ZenonT(60) DEF IInv, TypeOK, CpuType
<1>2. ASSUME NEW c \in CPU, TakeIrq(c) PROVE CpuType'
  <2>1. pc' \in [CPU -> {"idle", "iar", "id", "id_spi", "handle", "eoi", "sgir"}]
    BY <1>2 DEF TakeIrq, IInv, TypeOK, CpuType
  <2> QED BY <1>2, <2>1 DEF TakeIrq, IInv, TypeOK, CpuType
<1>3. ASSUME NEW c \in CPU, ReadIar(c) PROVE CpuType'
  <2>1. NoIar \in IarValues
    BY DEF IarValues
  <2>2. pc' \in [CPU -> {"idle", "iar", "id", "id_spi", "handle", "eoi", "sgir"}] /\ UNCHANGED x19
    BY <1>3 DEF ReadIar, IInv, TypeOK, CpuType
  <2>3. \A v \in Highest(c) : /\ [iar EXCEPT ![c] = v] \in [CPU -> IarValues]
          /\ [active EXCEPT ![c] = active[c] \cup {v}] \in [CPU -> SUBSET ActiveValues]
    BY HighestType DEF IInv, TypeOK, CpuType, IarValues, ActiveValues
  <2>4. iar' \in [CPU -> IarValues] /\ active' \in [CPU -> SUBSET ActiveValues]
    <3>1. CASE UNCHANGED active /\ iar' = [iar EXCEPT ![c] = NoIar]
      BY <3>1, <2>1 DEF IInv, TypeOK, CpuType
    <3>2. CASE \E v \in Highest(c) :
                 /\ iar' = [iar EXCEPT ![c] = v]
                 /\ active' = [active EXCEPT ![c] = active[c] \cup {v}]
      BY <3>2, <2>3
    <3> QED BY <1>3, <3>1, <3>2 DEF ReadIar
  <2> QED BY <2>2, <2>4 DEF IInv, TypeOK, CpuType
<1>4. ASSUME NEW c \in CPU, IdPpi(c) PROVE CpuType'
  <2>1. w24(c) \in {Ipi, Spurious} \cup Ppi \cup Spi
    BY DEF w24, IInv, TypeOK, CpuType, IarValues, ActiveValues
  <2>2. x19' \in [CPU -> {None, Ipi} \cup Ppi \cup {id - SpiBase : id \in Spi}]
    <3>1. ~ (w24(c) > 31) => w24(c) \in {Ipi} \cup Ppi
      <4>1. Spurious > 31 /\ \A id \in Spi : id > 31
        OBVIOUS
      <4> HIDE DEF Ipi, Spurious
      <4> QED BY <2>1, <4>1, ZenonT(60)
    <3>2. PICK x \in {None, Ipi} \cup Ppi : x19' = [x19 EXCEPT ![c] = x]
      <4>1. x19' = [x19 EXCEPT ![c] = IF w24(c) > 31 THEN None ELSE w24(c)]
        BY <1>4 DEF IdPpi
      <4>2. (IF w24(c) > 31 THEN None ELSE w24(c)) \in {None, Ipi} \cup Ppi
        BY <3>1
      <4> QED BY <4>1, <4>2, ZenonT(60)
    <3>3. x19 \in [CPU -> {None, Ipi} \cup Ppi \cup {id - SpiBase : id \in Spi}]
      BY DEF IInv, TypeOK, CpuType
    <3> QED BY <3>2, <3>3
  <2>3. active' \in [CPU -> SUBSET ActiveValues] /\ UNCHANGED iar
    BY <1>4 DEF IdPpi, EndOfInterrupt, IInv, TypeOK, CpuType
  <2>4. pc' \in [CPU -> {"idle", "iar", "id", "id_spi", "handle", "eoi", "sgir"}]
    BY <1>4 DEF IdPpi, IInv, TypeOK, CpuType
  <2> QED BY <2>2, <2>3, <2>4 DEF IInv, TypeOK, CpuType
<1>5. ASSUME NEW c \in CPU, IdSpi(c) PROVE CpuType'
  <2>1. w24(c) \in {Spurious} \cup Spi
    <3>1. w24(c) \in {Ipi, Spurious} \cup Ppi \cup Spi
      BY DEF w24, IInv, TypeOK, CpuType, IarValues, ActiveValues
    <3>2. w24(c) > 31
      BY <1>5 DEF IdSpi, w24, IInv, SpiInv
    <3>3. ~ (Ipi > 31) /\ \A id \in Ppi : ~ (id > 31)
      OBVIOUS
    <3> HIDE DEF Ipi, Spurious
    <3> QED BY <3>1, <3>2, <3>3, ZenonT(60)
  <2>2. x19' \in [CPU -> {None, Ipi} \cup Ppi \cup {id - SpiBase : id \in Spi}]
    <3>1. ~ (w24(c) > MaxSpiId) => w24(c) \in Spi
      BY <2>1
    <3>2. PICK x \in {None} \cup {id - SpiBase : id \in Spi} :
                 x19' = [x19 EXCEPT ![c] = x]
      <4>1. x19' = [x19 EXCEPT ![c] = IF w24(c) > MaxSpiId THEN None
                                                      ELSE w24(c) - SpiBase]
        BY <1>5 DEF IdSpi
      <4>2. CASE w24(c) > MaxSpiId
        BY <4>1, <4>2, ZenonT(60)
      <4>3. CASE ~ (w24(c) > MaxSpiId)
        <5>1. x19' = [x19 EXCEPT ![c] = w24(c) - SpiBase]
          BY <4>1, <4>3
        <5>2. w24(c) - SpiBase \in {id - SpiBase : id \in Spi}
          BY <3>1, <4>3, ZenonT(60)
        <5> QED BY <5>1, <5>2, ZenonT(60)
      <4> QED BY <4>2, <4>3, ZenonT(60)
    <3>3. x19 \in [CPU -> {None, Ipi} \cup Ppi \cup {id - SpiBase : id \in Spi}]
      BY DEF IInv, TypeOK, CpuType
    <3> QED BY <3>2, <3>3
  <2>3. pc' \in [CPU -> {"idle", "iar", "id", "id_spi", "handle", "eoi", "sgir"}] /\ UNCHANGED <<iar, active>>
    BY <1>5 DEF IdSpi, IInv, TypeOK, CpuType
  <2> QED BY <2>2, <2>3 DEF IInv, TypeOK, CpuType
<1>6. ASSUME NEW c \in CPU, HandleIpi(c) PROVE CpuType'
  <2>1. pc' \in [CPU -> {"idle", "iar", "id", "id_spi", "handle", "eoi", "sgir"}]
    BY <1>6 DEF HandleIpi, IInv, TypeOK, CpuType
  <2> QED BY <1>6, <2>1 DEF HandleIpi, IInv, TypeOK, CpuType
<1>7. ASSUME NEW c \in CPU, HandleDevice(c) PROVE CpuType'
  <2>1. pc' \in [CPU -> {"idle", "iar", "id", "id_spi", "handle", "eoi", "sgir"}]
    BY <1>7 DEF HandleDevice, IInv, TypeOK, CpuType
  <2> QED BY <1>7, <2>1 DEF HandleDevice, IInv, TypeOK, CpuType
<1>8. ASSUME NEW c \in CPU, Eoi(c) PROVE CpuType'
  <2>1. NoIar \in IarValues
    BY DEF IarValues
  <2>2. iar' \in [CPU -> IarValues]
    BY <1>8, <2>1 DEF Eoi, Forget, IInv, TypeOK, CpuType
  <2>3. x19' \in [CPU -> {None, Ipi} \cup Ppi \cup {id - SpiBase : id \in Spi}]
    BY <1>8 DEF Eoi, Forget, IInv, TypeOK, CpuType
  <2>4. active' \in [CPU -> SUBSET ActiveValues]
    BY <1>8 DEF Eoi, EndOfInterrupt, IInv, TypeOK, CpuType
  <2>5. pc' \in [CPU -> {"idle", "iar", "id", "id_spi", "handle", "eoi", "sgir"}]
    BY <1>8 DEF Eoi, IInv, TypeOK, CpuType
  <2> QED BY <2>2, <2>3, <2>4, <2>5 DEF IInv, TypeOK, CpuType
<1>9. ASSUME NEW c \in CPU, SendSgir(c) PROVE CpuType'
  <2>1. pc' \in [CPU -> {"idle", "iar", "id", "id_spi", "handle", "eoi", "sgir"}]
    BY <1>9 DEF SendSgir, IInv, TypeOK, CpuType
  <2> QED BY <1>9, <2>1 DEF SendSgir, IInv, TypeOK, CpuType
<1>10. ASSUME NEW c \in CPU, NEW t \in CPU, NEW cmd \in Cmd, SendOr(c, t, cmd)
      PROVE  CpuType'
  <2>1. pc' \in [CPU -> {"idle", "iar", "id", "id_spi", "handle", "eoi", "sgir"}]
    BY <1>10 DEF SendOr, IInv, TypeOK, CpuType
  <2> QED BY <1>10, <2>1 DEF SendOr, IInv, TypeOK, CpuType
<1> QED
  BY <1>1, <1>2, <1>3, <1>4, <1>5, <1>6, <1>7, <1>8, <1>9, <1>10 DEF Next,
     Boot, Devices, Continue, Drivers, GicV2Init, SetIntrTrigMode,
     GicV2GiccInit, Raise, Mask, Unmask

\* sendipi.
LEMMA SendTypeStep ==
  ASSUME IInv, Next
  PROVE  SendType'
<1>1. ASSUME UNCHANGED <<sgi, ipicmds, w7, w1, dst>> PROVE SendType'
  BY <1>1, SMTT(60) DEF IInv, TypeOK, SendType
<1>2. ASSUME NEW c \in CPU, ReadIar(c) PROVE SendType'
  <2>1. sgi' \in [CPU -> SUBSET CPU]
    <3>1. UNCHANGED sgi \/ \E s : sgi' = [sgi EXCEPT ![c] = sgi[c] \ {s}]
      BY <1>2, ZenonT(60) DEF ReadIar
    <3>2. sgi \in [CPU -> SUBSET CPU]
      BY DEF IInv, TypeOK, SendType
    <3> HIDE DEF CPU
    <3> QED BY <3>1, <3>2
  <2> QED BY <1>2, <2>1, ZenonT(60) DEF ReadIar, IInv, TypeOK, SendType
<1>3. ASSUME NEW c \in CPU, HandleIpi(c) PROVE SendType'
  BY <1>3, ZenonT(60) DEF HandleIpi, IInv, TypeOK, SendType
<1>4. ASSUME NEW c \in CPU, SendSgir(c) PROVE SendType'
  <2>1. sgi' \in [CPU -> SUBSET CPU]
    <3>1. \A t \in CPU : sgi[t] \subseteq CPU
      BY DEF IInv, TypeOK, SendType
    <3>2. /\ sgi' = [t \in CPU |-> sgi'[t]]
          /\ \A t \in CPU : sgi'[t] = sgi[t] \cup {c} \/ sgi'[t] = sgi[t]
      BY <1>4 DEF SendSgir
    <3>3. \A t \in CPU : sgi'[t] \in SUBSET CPU
      BY <3>1, <3>2
    <3> HIDE DEF CPU
    <3> QED BY <3>2, <3>3
  <2>2. UNCHANGED ipicmds /\ w7' \in [CPU -> SUBSET Cmd]
    BY <1>4 DEF SendSgir, IInv, TypeOK, SendType
  <2>3. w1' \in [CPU -> Iface \cup {NoMap}] /\ dst' \in [CPU -> CPU]
    BY <1>4, SMTT(60) DEF SendSgir, IInv, TypeOK, SendType
  <2> QED BY <2>1, <2>2, <2>3, ZenonT(60) DEF IInv, TypeOK, SendType
<1>5. ASSUME NEW c \in CPU, NEW t \in CPU, NEW cmd \in Cmd, SendOr(c, t, cmd)
      PROVE  SendType'
  <2>1. w1' \in [CPU -> Iface \cup {NoMap}] /\ dst' \in [CPU -> CPU]
    <3>1. gic_map[t] \in Iface \cup {NoMap}
      BY DEF IInv, TypeOK, BootType
    <3> QED BY <1>5, <3>1, ZenonT(60) DEF SendOr, IInv, TypeOK, SendType
  <2>2. UNCHANGED sgi /\ w7' \in [CPU -> SUBSET Cmd]
    BY <1>5, ZenonT(60) DEF SendOr, IInv, TypeOK, SendType
  <2>3. ipicmds' \in [CPU -> SUBSET Cmd]
    <3>1. ipicmds' = [ipicmds EXCEPT ![t] = ipicmds[t] \cup {cmd}]
      BY <1>5 DEF SendOr
    <3>2. ipicmds \in [CPU -> SUBSET Cmd]
      BY DEF IInv, TypeOK, SendType
    <3> QED BY <3>1, <3>2
  <2> QED BY <2>1, <2>2, <2>3, ZenonT(60) DEF IInv, TypeOK, SendType
<1> QED
  BY <1>1, <1>2, <1>3, <1>4, <1>5 DEF Next, Boot, Devices, Continue,
     Drivers, GicV2Init, SetIntrTrigMode, GicV2GiccInit, Raise, TakeIrq,
     IdPpi, IdSpi, HandleDevice, Eoi, Mask, Unmask

\* The map and sendipi's arguments.
LEMMA MapStep ==
  ASSUME IInv, Next
  PROVE  MapInv'
<1>1. ASSUME UNCHANGED <<bootVars, pc, w1, dst>> PROVE MapInv'
  BY <1>1 DEF IInv, MapInv
<1>2. ASSUME GicV2Init PROVE MapInv'
  BY <1>2 DEF GicV2Init, IInv, TypeOK, BootType, MapInv
<1>3. ASSUME NEW irq \in TrigIrqs, NEW on \in BOOLEAN, SetIntrTrigMode(irq, on)
      PROVE  MapInv'
  BY <1>3 DEF SetIntrTrigMode, IInv, MapInv
<1>4. ASSUME NEW c \in CPU, GicV2GiccInit(c) PROVE MapInv'
  BY <1>4 DEF GicV2GiccInit, IInv, TypeOK, BootType, MapInv
<1>5. ASSUME NEW c \in CPU, TakeIrq(c) PROVE MapInv'
  <2>1. /\ UNCHANGED <<bootVars, w1, dst>>
        /\ \A d \in CPU : pc'[d] = "sgir" => pc[d] = "sgir"
    BY <1>5 DEF TakeIrq, IInv, TypeOK, CpuType
  <2> QED BY <2>1 DEF IInv, MapInv
<1>6. ASSUME NEW c \in CPU, ReadIar(c) PROVE MapInv'
  <2>1. /\ UNCHANGED <<bootVars, w1, dst>>
        /\ \A d \in CPU : pc'[d] = "sgir" => pc[d] = "sgir"
    BY <1>6 DEF ReadIar, IInv, TypeOK, CpuType
  <2> QED BY <2>1 DEF IInv, MapInv
<1>7. ASSUME NEW c \in CPU, IdPpi(c) PROVE MapInv'
  <2>1. /\ UNCHANGED <<bootVars, w1, dst>>
        /\ \A d \in CPU : pc'[d] = "sgir" => pc[d] = "sgir"
    BY <1>7 DEF IdPpi, IInv, TypeOK, CpuType
  <2> QED BY <2>1 DEF IInv, MapInv
<1>8. ASSUME NEW c \in CPU, IdSpi(c) PROVE MapInv'
  <2>1. /\ UNCHANGED <<bootVars, w1, dst>>
        /\ \A d \in CPU : pc'[d] = "sgir" => pc[d] = "sgir"
    BY <1>8 DEF IdSpi, IInv, TypeOK, CpuType
  <2> QED BY <2>1 DEF IInv, MapInv
<1>9. ASSUME NEW c \in CPU, HandleIpi(c) PROVE MapInv'
  <2>1. /\ UNCHANGED <<bootVars, w1, dst>>
        /\ \A d \in CPU : pc'[d] = "sgir" => pc[d] = "sgir"
    BY <1>9 DEF HandleIpi, IInv, TypeOK, CpuType
  <2> QED BY <2>1 DEF IInv, MapInv
<1>10. ASSUME NEW c \in CPU, HandleDevice(c) PROVE MapInv'
  <2>1. /\ UNCHANGED <<bootVars, w1, dst>>
        /\ \A d \in CPU : pc'[d] = "sgir" => pc[d] = "sgir"
    BY <1>10 DEF HandleDevice, IInv, TypeOK, CpuType
  <2> QED BY <2>1 DEF IInv, MapInv
<1>11. ASSUME NEW c \in CPU, Eoi(c) PROVE MapInv'
  <2>1. /\ UNCHANGED <<bootVars, w1, dst>>
        /\ \A d \in CPU : pc'[d] = "sgir" => pc[d] = "sgir"
    BY <1>11 DEF Eoi, IInv, TypeOK, CpuType
  <2> QED BY <2>1 DEF IInv, MapInv
<1>12. ASSUME NEW c \in CPU, SendSgir(c) PROVE MapInv'
  <2>1. UNCHANGED bootVars /\ pc'[c] = "idle"
    BY <1>12 DEF SendSgir, IInv, TypeOK, CpuType
  <2>2. \A d \in CPU : d # c => pc'[d] = pc[d] /\ w1'[d] = w1[d] /\ dst'[d] = dst[d]
    BY <1>12 DEF SendSgir, IInv, TypeOK, CpuType, SendType
  <2> QED BY <2>1, <2>2 DEF IInv, MapInv
<1>13. ASSUME NEW c \in CPU, NEW t \in CPU, NEW cmd \in Cmd, SendOr(c, t, cmd)
      PROVE  MapInv'
  <2>1. UNCHANGED bootVars /\ w1'[c] = gic_map[t] /\ dst'[c] = t /\ up = CPU
    BY <1>13 DEF SendOr, Running, IInv, TypeOK, SendType
  <2>2. \A d \in CPU : d # c => pc'[d] = pc[d] /\ w1'[d] = w1[d] /\ dst'[d] = dst[d]
    BY <1>13 DEF SendOr, IInv, TypeOK, CpuType, SendType
  <2> QED BY <2>1, <2>2, SMTT(60) DEF IInv, MapInv
<1> QED
  BY <1>1, <1>2, <1>3, <1>4, <1>5, <1>6, <1>7, <1>8, <1>9, <1>10, <1>11,
     <1>12, <1>13 DEF Next, Boot, Devices, Continue, Drivers, Raise, Mask,
     Unmask

\* The value read from IAR.
LEMMA IarStep ==
  ASSUME IInv, Next
  PROVE  SpiInv' /\ SourceInv'
<1>1. ASSUME UNCHANGED <<pc, iar>> PROVE SpiInv' /\ SourceInv'
  BY <1>1 DEF IInv, SpiInv, SourceInv
<1>2. ASSUME NEW c \in CPU, TakeIrq(c) PROVE SpiInv' /\ SourceInv'
  <2>1. UNCHANGED iar /\ \A d \in CPU : pc'[d] = "id_spi" => pc[d] = "id_spi"
    BY <1>2 DEF TakeIrq, IInv, TypeOK, CpuType
  <2> QED BY <2>1 DEF IInv, SpiInv, SourceInv
<1>3. ASSUME NEW c \in CPU, IdSpi(c) PROVE SpiInv' /\ SourceInv'
  <2>1. UNCHANGED iar /\ \A d \in CPU : pc'[d] = "id_spi" => pc[d] = "id_spi"
    BY <1>3 DEF IdSpi, IInv, TypeOK, CpuType
  <2> QED BY <2>1 DEF IInv, SpiInv, SourceInv
<1>4. ASSUME NEW c \in CPU, HandleIpi(c) PROVE SpiInv' /\ SourceInv'
  <2>1. UNCHANGED iar /\ \A d \in CPU : pc'[d] = "id_spi" => pc[d] = "id_spi"
    BY <1>4 DEF HandleIpi, IInv, TypeOK, CpuType
  <2> QED BY <2>1 DEF IInv, SpiInv, SourceInv
<1>5. ASSUME NEW c \in CPU, HandleDevice(c) PROVE SpiInv' /\ SourceInv'
  <2>1. UNCHANGED iar /\ \A d \in CPU : pc'[d] = "id_spi" => pc[d] = "id_spi"
    BY <1>5 DEF HandleDevice, IInv, TypeOK, CpuType
  <2> QED BY <2>1 DEF IInv, SpiInv, SourceInv
<1>6. ASSUME NEW c \in CPU, SendSgir(c) PROVE SpiInv' /\ SourceInv'
  <2>1. UNCHANGED iar /\ \A d \in CPU : pc'[d] = "id_spi" => pc[d] = "id_spi"
    BY <1>6 DEF SendSgir, IInv, TypeOK, CpuType
  <2> QED BY <2>1 DEF IInv, SpiInv, SourceInv
<1>7. ASSUME NEW c \in CPU, NEW t \in CPU, NEW cmd \in Cmd, SendOr(c, t, cmd)
      PROVE  SpiInv' /\ SourceInv'
  <2>1. UNCHANGED iar /\ \A d \in CPU : pc'[d] = "id_spi" => pc[d] = "id_spi"
    BY <1>7 DEF SendOr, IInv, TypeOK, CpuType
  <2> QED BY <2>1 DEF IInv, SpiInv, SourceInv
<1>8. ASSUME NEW c \in CPU, ReadIar(c) PROVE SpiInv' /\ SourceInv'
  <2>1. /\ pc'[c] = "id"
        /\ \A d \in CPU : d # c => pc'[d] = pc[d] /\ iar'[d] = iar[d]
    BY <1>8 DEF ReadIar, IInv, TypeOK, CpuType
  <2>2. iar'[c][1] # Ipi => iar'[c][2] = 0
    BY <1>8, HighestType DEF ReadIar, IInv, TypeOK, CpuType
  <2> QED BY <2>1, <2>2, SMTT(60) DEF IInv, SpiInv, SourceInv
<1>9. ASSUME NEW c \in CPU, IdPpi(c) PROVE SpiInv' /\ SourceInv'
  <2>1. /\ UNCHANGED iar
        /\ \A d \in CPU : d # c => pc'[d] = pc[d]
        /\ pc'[c] = "id_spi" => iar[c][1] > 31
    BY <1>9 DEF IdPpi, w24, IInv, TypeOK, CpuType
  <2> QED BY <2>1 DEF IInv, SpiInv, SourceInv
<1>10. ASSUME NEW c \in CPU, Eoi(c) PROVE SpiInv' /\ SourceInv'
  <2>1. /\ pc'[c] = "idle" /\ iar'[c] = NoIar
        /\ \A d \in CPU : d # c => pc'[d] = pc[d] /\ iar'[d] = iar[d]
    BY <1>10 DEF Eoi, Forget, IInv, TypeOK, CpuType
  <2> QED BY <2>1, SMTT(60) DEF IInv, SpiInv, SourceInv
<1> QED
  BY <1>1, <1>2, <1>3, <1>4, <1>5, <1>6, <1>7, <1>8, <1>9, <1>10 DEF Next,
     Boot, Devices, Continue, Drivers, GicV2Init, SetIntrTrigMode,
     GicV2GiccInit, Raise, Mask, Unmask

\* No interrupt is left active.
LEMMA ActiveStep ==
  ASSUME IInv, Next
  PROVE  NoStuckActive'
<1>1. ASSUME UNCHANGED <<pc, iar, active>> PROVE NoStuckActive'
  BY <1>1 DEF IInv, NoStuckActive
<1>2. ASSUME NEW c \in CPU, TakeIrq(c) PROVE NoStuckActive'
  <2>1. /\ UNCHANGED <<iar, active>>
        /\ \A d \in CPU : d # c => pc'[d] = pc[d]
        /\ pc[c] \notin {"id", "id_spi", "handle", "eoi"}
    BY <1>2 DEF TakeIrq, IInv, TypeOK, CpuType
  <2> QED BY <2>1 DEF IInv, NoStuckActive
<1>3. ASSUME NEW c \in CPU, SendSgir(c) PROVE NoStuckActive'
  <2>1. /\ UNCHANGED <<iar, active>>
        /\ \A d \in CPU : d # c => pc'[d] = pc[d]
        /\ pc[c] \notin {"id", "id_spi", "handle", "eoi"}
    BY <1>3 DEF SendSgir, IInv, TypeOK, CpuType
  <2> QED BY <2>1 DEF IInv, NoStuckActive
<1>4. ASSUME NEW c \in CPU, NEW t \in CPU, NEW cmd \in Cmd, SendOr(c, t, cmd)
      PROVE  NoStuckActive'
  <2>1. /\ UNCHANGED <<iar, active>>
        /\ \A d \in CPU : d # c => pc'[d] = pc[d]
        /\ pc[c] \notin {"id", "id_spi", "handle", "eoi"}
    BY <1>4 DEF SendOr, IInv, TypeOK, CpuType
  <2> QED BY <2>1 DEF IInv, NoStuckActive
<1>5. ASSUME NEW c \in CPU, HandleIpi(c) PROVE NoStuckActive'
  <2>1. /\ UNCHANGED <<iar, active>>
        /\ \A d \in CPU : d # c => pc'[d] = pc[d]
        /\ pc[c] = "handle" /\ pc'[c] = "eoi"
    BY <1>5 DEF HandleIpi, IInv, TypeOK, CpuType
  <2> QED BY <2>1 DEF IInv, NoStuckActive
<1>6. ASSUME NEW c \in CPU, HandleDevice(c) PROVE NoStuckActive'
  <2>1. /\ UNCHANGED <<iar, active>>
        /\ \A d \in CPU : d # c => pc'[d] = pc[d]
        /\ pc[c] = "handle" /\ pc'[c] = "eoi"
    BY <1>6 DEF HandleDevice, IInv, TypeOK, CpuType
  <2> QED BY <2>1 DEF IInv, NoStuckActive
<1>7. ASSUME NEW c \in CPU, ReadIar(c) PROVE NoStuckActive'
  <2>1. active[c] = {}
    BY <1>7, SMTT(60) DEF ReadIar, IInv, NoStuckActive
  <2>2. \A d \in CPU : d # c => /\ pc'[d] = pc[d] /\ iar'[d] = iar[d]
                                /\ active'[d] = active[d]
    BY <1>7 DEF ReadIar, IInv, TypeOK, CpuType
  <2>3. pc'[c] = "id" /\ \A a \in active'[c] : iar'[c] = a
    BY <1>7, <2>1 DEF ReadIar, IInv, TypeOK, CpuType
  <2> QED BY <2>2, <2>3 DEF IInv, NoStuckActive
<1>8. ASSUME NEW c \in CPU, IdPpi(c) PROVE NoStuckActive'
  <2>1. \A d \in CPU : d # c => pc'[d] = pc[d] /\ active'[d] = active[d]
    BY <1>8 DEF IdPpi, EndOfInterrupt, IInv, TypeOK, CpuType
  <2>2. UNCHANGED iar /\ pc'[c] \in {"id_spi", "handle"}
    BY <1>8 DEF IdPpi, IInv, TypeOK, CpuType
  <2>3. \A a \in active[c] : a = iar[c]
    BY <1>8 DEF IdPpi, IInv, NoStuckActive
  <2>4. CASE iar[c][1] = Ipi
    <3>1. iar[c] = <<Ipi, iar[c][2]>>
      <4>1. iar[c] \in IarValues
        BY DEF IInv, TypeOK, CpuType
      <4>2. iar[c] = <<iar[c][1], iar[c][2]>>
        BY <4>1, SMTT(60) DEF IarValues, ActiveValues
      <4> QED BY <2>4, <4>2
    <3>2. active'[c] = active[c] \ {<<Ipi, iar[c][2]>>}
      BY <1>8, <2>4 DEF IdPpi, w24, EndOfInterrupt, IInv, TypeOK, CpuType
    <3>3. active'[c] = {}
      BY <2>3, <3>1, <3>2, ZenonT(60)
    <3> QED BY <2>1, <2>2, <3>3, SMTT(60) DEF IInv, NoStuckActive
  <2>5. CASE iar[c][1] # Ipi
    <3>1. UNCHANGED active
      BY <1>8, <2>5 DEF IdPpi, w24
    <3> QED BY <2>1, <2>2, <2>3, <2>5, <3>1, SMTT(60) DEF IInv, NoStuckActive
  <2> QED BY <2>4, <2>5
<1>9. ASSUME NEW c \in CPU, IdSpi(c) PROVE NoStuckActive'
  <2>1. /\ UNCHANGED <<iar, active>>
        /\ \A d \in CPU : d # c => pc'[d] = pc[d]
        /\ pc[c] = "id_spi"
        /\ pc'[c] = IF iar[c][1] > MaxSpiId THEN "idle" ELSE "handle"
    BY <1>9 DEF IdSpi, w24, IInv, TypeOK, CpuType
  <2>2. ASSUME NEW a \in active[c] PROVE a = iar[c] /\ a[1] # Ipi
    BY <2>1 DEF IInv, NoStuckActive
  <2>3. ASSUME NEW a \in active[c] PROVE ~ (iar[c][1] > MaxSpiId)
    <3>1. a[1] \in {Ipi} \cup Ppi \cup Spi
      BY DEF IInv, TypeOK, CpuType, ActiveValues
    <3>2. \A id \in {Ipi} \cup Ppi \cup Spi : ~ (id > MaxSpiId)
      OBVIOUS
    <3>3. iar[c] = a
      BY <2>2
    <3> QED BY <3>1, <3>2, <3>3
  <2> QED BY <2>1, <2>2, <2>3 DEF IInv, NoStuckActive
<1>10. ASSUME NEW c \in CPU, Eoi(c) PROVE NoStuckActive'
  <2>1. \A d \in CPU : d # c => /\ pc'[d] = pc[d] /\ iar'[d] = iar[d]
                                /\ active'[d] = active[d]
    BY <1>10 DEF Eoi, Forget, EndOfInterrupt, IInv, TypeOK, CpuType
  <2>2. \A a \in active[c] : a = iar[c] /\ a[1] # Ipi
    BY <1>10 DEF Eoi, IInv, NoStuckActive
  <2>3. active'[c] = {}
    <3>1. CASE iar[c][1] = Ipi
      BY <1>10, <2>2, <3>1 DEF Eoi, w24
    <3>2. CASE iar[c][1] # Ipi
      <4>1. iar[c] = <<iar[c][1], 0>>
        BY <3>2, SMTT(60) DEF IInv, TypeOK, CpuType, IarValues, ActiveValues, SourceInv
      <4>2. active'[c] = active[c] \ {<<iar[c][1], 0>>}
        BY <1>10, <3>2 DEF Eoi, w24, EndOfInterrupt, IInv, TypeOK, CpuType
      <4>3. \A a \in active[c] : a = <<iar[c][1], 0>>
        BY <2>2, <4>1, ZenonT(60)
      <4> QED BY <4>2, <4>3
    <3> QED BY <3>1, <3>2
  <2> QED BY <2>1, <2>3 DEF IInv, NoStuckActive
<1> QED
  BY <1>1, <1>2, <1>3, <1>4, <1>5, <1>6, <1>7, <1>8, <1>9, <1>10 DEF Next,
     Boot, Devices, Continue, Drivers, GicV2Init, SetIntrTrigMode,
     GicV2GiccInit, Raise, Mask, Unmask

\* No IPI command is lost.
LEMMA IpiStep ==
  ASSUME IInv, Next
  PROVE  NoLostIpi'
<1>1. ASSUME UNCHANGED <<sgi, pc, dst, w7, iar, x19, ipicmds>> PROVE NoLostIpi'
  BY <1>1, ZenonT(60) DEF IInv, NoLostIpi, TakingIpi, w24
<1>2. ASSUME NEW c \in CPU, TakeIrq(c) PROVE NoLostIpi'
  <2>1. /\ UNCHANGED <<sgi, dst, w7, iar, ipicmds>>
        /\ \A d \in CPU : d # c => pc'[d] = pc[d] /\ x19'[d] = x19[d]
        /\ pc[c] = "idle" /\ UNCHANGED x19
    BY <1>2 DEF TakeIrq, w24, IInv, TypeOK, CpuType
  <2>2. \A d \in CPU : (pc[d] = "sgir" => pc'[d] = "sgir") /\ (TakingIpi(d) => TakingIpi(d)')
    BY <2>1 DEF TakingIpi, w24
  <2> QED BY <2>1, <2>2, ZenonT(60) DEF IInv, NoLostIpi
<1>3. ASSUME NEW c \in CPU, ReadIar(c) PROVE NoLostIpi'
  <2>1. /\ UNCHANGED <<dst, w7, ipicmds>> /\ pc[c] = "iar" /\ pc'[c] = "id"
        /\ \A d \in CPU : d # c => /\ pc'[d] = pc[d] /\ iar'[d] = iar[d]
                                   /\ x19'[d] = x19[d] /\ sgi'[d] = sgi[d]
    <3>1. UNCHANGED <<dst, w7, ipicmds, x19>> /\ pc[c] = "iar"
      BY <1>3 DEF ReadIar
    <3>2. pc' = [pc EXCEPT ![c] = "id"] /\ \E v : iar' = [iar EXCEPT ![c] = v]
      BY <1>3, SMTT(60) DEF ReadIar
    <3>3. UNCHANGED sgi \/ \E s : sgi' = [sgi EXCEPT ![c] = sgi[c] \ {s}]
      BY <1>3, ZenonT(40) DEF ReadIar
    <3>4. /\ pc = [d \in CPU |-> pc[d]] /\ iar = [d \in CPU |-> iar[d]]
          /\ sgi = [d \in CPU |-> sgi[d]]
      BY DEF IInv, TypeOK, CpuType, SendType
    <3> HIDE DEF CPU
    <3> QED BY <3>1, <3>2, <3>3, <3>4
  <2>2. sgi[c] # {} => sgi'[c] # {} \/ iar'[c][1] = Ipi
    BY <1>3 DEF ReadIar, IInv, TypeOK, CpuType, SendType
  <2>3. \A d \in CPU : TakingIpi(d) => TakingIpi(d)'
    BY <2>1 DEF TakingIpi, w24
  <2>4. sgi[c] # {} => sgi'[c] # {} \/ TakingIpi(c)'
    BY <2>1, <2>2 DEF TakingIpi
  <2>5. \A d \in CPU : pc[d] = "sgir" => pc'[d] = "sgir"
    BY <2>1
  <2>6. SUFFICES ASSUME NEW t \in CPU, ipicmds[t] # {}
                 PROVE  \/ sgi'[t] # {} \/ TakingIpi(t)'
                        \/ \E s \in CPU : pc'[s] = "sgir" /\ dst'[s] = t /\ w7'[s] = {}
    BY <2>1, ZenonT(60) DEF NoLostIpi
  <2>7. CASE sgi[t] # {}
    BY <2>1, <2>4, <2>7
  <2>8. CASE TakingIpi(t)
    BY <2>3, <2>8
  <2>9. CASE \E s \in CPU : pc[s] = "sgir" /\ dst[s] = t /\ w7[s] = {}
    BY <2>1, <2>5, <2>9
  <2> QED BY <2>6, <2>7, <2>8, <2>9, ZenonT(60) DEF IInv, NoLostIpi
<1>4. ASSUME NEW c \in CPU, IdPpi(c) PROVE NoLostIpi'
  <2>1. /\ UNCHANGED <<sgi, dst, w7, iar, ipicmds>>
        /\ \A d \in CPU : d # c => pc'[d] = pc[d] /\ x19'[d] = x19[d]
        /\ pc[c] = "id"
        /\ iar[c][1] = Ipi => pc'[c] = "handle" /\ x19'[c] = Ipi
    BY <1>4 DEF IdPpi, w24, IInv, TypeOK, CpuType
  <2>2. \A d \in CPU : (pc[d] = "sgir" => pc'[d] = "sgir") /\ (TakingIpi(d) => TakingIpi(d)')
    BY <2>1 DEF TakingIpi, w24
  <2> QED BY <2>1, <2>2, SMTT(60) DEF IInv, NoLostIpi
<1>5. ASSUME NEW c \in CPU, IdSpi(c) PROVE NoLostIpi'
  <2>1. /\ UNCHANGED <<sgi, dst, w7, iar, ipicmds>>
        /\ \A d \in CPU : d # c => pc'[d] = pc[d] /\ x19'[d] = x19[d]
        /\ pc[c] = "id_spi"
    BY <1>5 DEF IdSpi, w24, IInv, TypeOK, CpuType
  <2>2. \A d \in CPU : (pc[d] = "sgir" => pc'[d] = "sgir") /\ (TakingIpi(d) => TakingIpi(d)')
    BY <2>1 DEF TakingIpi, w24
  <2> QED BY <2>1, <2>2, ZenonT(60) DEF IInv, NoLostIpi
<1>6. ASSUME NEW c \in CPU, HandleIpi(c) PROVE NoLostIpi'
  <2>1. /\ UNCHANGED <<sgi, dst, w7, iar, x19>> /\ ipicmds'[c] = {}
        /\ pc[c] = "handle"
        /\ \A d \in CPU : d # c => pc'[d] = pc[d] /\ ipicmds'[d] = ipicmds[d]
    BY <1>6 DEF HandleIpi, IInv, TypeOK, CpuType, SendType
  <2>2. \A d \in CPU : (pc[d] = "sgir" => pc'[d] = "sgir")
                       /\ (d # c /\ TakingIpi(d) => TakingIpi(d)')
    BY <2>1 DEF TakingIpi, w24
  <2> QED BY <2>1, <2>2, ZenonT(60) DEF IInv, NoLostIpi
<1>7. ASSUME NEW c \in CPU, HandleDevice(c) PROVE NoLostIpi'
  <2>1. /\ UNCHANGED <<sgi, dst, w7, iar, ipicmds>>
        /\ \A d \in CPU : d # c => pc'[d] = pc[d] /\ x19'[d] = x19[d]
        /\ pc[c] = "handle" /\ iar[c][1] # Ipi
    BY <1>7 DEF HandleDevice, w24, IInv, TypeOK, CpuType
  <2>2. \A d \in CPU : (pc[d] = "sgir" => pc'[d] = "sgir") /\ (TakingIpi(d) => TakingIpi(d)')
    BY <2>1 DEF TakingIpi, w24
  <2> QED BY <2>1, <2>2, ZenonT(60) DEF IInv, NoLostIpi
<1>8. ASSUME NEW c \in CPU, Eoi(c) PROVE NoLostIpi'
  <2>1. /\ UNCHANGED <<sgi, dst, w7, ipicmds>> /\ pc[c] = "eoi"
        /\ \A d \in CPU : d # c => /\ pc'[d] = pc[d] /\ iar'[d] = iar[d]
                                   /\ x19'[d] = x19[d]
    BY <1>8 DEF Eoi, Forget, IInv, TypeOK, CpuType
  <2>2. \A d \in CPU : (pc[d] = "sgir" => pc'[d] = "sgir") /\ (TakingIpi(d) => TakingIpi(d)')
    BY <2>1 DEF TakingIpi, w24
  <2> QED BY <2>1, <2>2, ZenonT(60) DEF IInv, NoLostIpi
<1>9. ASSUME NEW c \in CPU, SendSgir(c) PROVE NoLostIpi'
  <2>1. /\ UNCHANGED <<iar, x19, ipicmds>> /\ pc[c] = "sgir"
        /\ \A d \in CPU : d # c => pc'[d] = pc[d] /\ dst'[d] = dst[d] /\ w7'[d] = w7[d]
    BY <1>9 DEF SendSgir, IInv, TypeOK, CpuType, SendType
  <2>2. w1[c] = GicIf[dst[c]] /\ dst[c] \in CPU
    BY <2>1 DEF IInv, MapInv, TypeOK, SendType
  <2>3. /\ \A t \in CPU : sgi[t] # {} => sgi'[t] # {}
        /\ w7[c] = {} => sgi'[dst[c]] # {}
    BY <1>9, <2>2, ZenonT(60) DEF SendSgir, IInv, TypeOK, SendType
  <2>4. \A d \in CPU : TakingIpi(d) => TakingIpi(d)'
    BY <2>1 DEF TakingIpi, w24
  <2>5. SUFFICES ASSUME NEW t \in CPU, ipicmds[t] # {}
                 PROVE  \/ sgi'[t] # {} \/ TakingIpi(t)'
                        \/ \E s \in CPU : pc'[s] = "sgir" /\ dst'[s] = t /\ w7'[s] = {}
    BY <2>1, ZenonT(60) DEF NoLostIpi
  <2>6. CASE sgi[t] # {}
    BY <2>3, <2>6
  <2>7. CASE TakingIpi(t)
    BY <2>4, <2>7
  <2>8. ASSUME NEW s \in CPU, pc[s] = "sgir", dst[s] = t, w7[s] = {}
        PROVE  \/ sgi'[t] # {}
               \/ \E d \in CPU : pc'[d] = "sgir" /\ dst'[d] = t /\ w7'[d] = {}
    <3>1. CASE s = c
      BY <2>3, <2>8, <3>1
    <3>2. CASE s # c
      BY <2>1, <2>8, <3>2
    <3> QED BY <3>1, <3>2
  <2> QED BY <2>5, <2>6, <2>7, <2>8, ZenonT(60) DEF IInv, NoLostIpi
<1>10. ASSUME NEW c \in CPU, NEW t \in CPU, NEW cmd \in Cmd, SendOr(c, t, cmd)
      PROVE  NoLostIpi'
  <2>1. /\ UNCHANGED <<iar, x19, sgi>> /\ pc[c] = "idle" /\ pc'[c] = "sgir"
        /\ dst'[c] = t /\ w7'[c] = ipicmds[t]
        /\ \A d \in CPU : d # c => pc'[d] = pc[d] /\ dst'[d] = dst[d] /\ w7'[d] = w7[d]
    BY <1>10 DEF SendOr, IInv, TypeOK, CpuType, SendType
  <2>2. \A d \in CPU : d # t => ipicmds'[d] = ipicmds[d]
    BY <1>10 DEF SendOr, IInv, TypeOK, SendType
  <2>3. \A d \in CPU : TakingIpi(d) => TakingIpi(d)'
    BY <2>1 DEF TakingIpi, w24
  <2>4. ASSUME NEW d \in CPU, ipicmds[d] # {}
        PROVE  \/ sgi'[d] # {} \/ TakingIpi(d)'
               \/ \E s \in CPU : pc'[s] = "sgir" /\ dst'[s] = d /\ w7'[s] = {}
    <3>1. \A s \in CPU : pc[s] = "sgir" => s # c
      BY <2>1
    <3>2. CASE sgi[d] # {}
      BY <2>1, <3>2
    <3>3. CASE TakingIpi(d)
      BY <2>3, <3>3
    <3>4. CASE \E s \in CPU : pc[s] = "sgir" /\ dst[s] = d /\ w7[s] = {}
      BY <2>1, <3>1, <3>4
    <3> QED BY <2>4, <3>2, <3>3, <3>4, ZenonT(60) DEF IInv, NoLostIpi
  <2>5. ipicmds[t] = {} => pc'[c] = "sgir" /\ dst'[c] = t /\ w7'[c] = {}
    BY <2>1
  <2> QED BY <2>2, <2>4, <2>5, ZenonT(60) DEF NoLostIpi
<1> QED
  BY <1>1, <1>2, <1>3, <1>4, <1>5, <1>6, <1>7, <1>8, <1>9, <1>10 DEF Next,
     Boot, Devices, Continue, Drivers, GicV2Init, SetIntrTrigMode,
     GicV2GiccInit, Raise, Mask, Unmask

-----------------------------------------------------------------------------

\* A step that changes nothing keeps it.
LEMMA StutterIInv == ASSUME IInv, UNCHANGED vars PROVE IInv'
<1>1. TypeOK'
  BY ZenonT(60) DEF vars, IInv, TypeOK, BootType, LineType, CpuType, SendType
<1>2. MapInv' /\ SpiInv' /\ SourceInv'
  BY DEF vars, IInv, MapInv, SpiInv, SourceInv
<1>3. NoStuckActive'
  BY DEF vars, IInv, NoStuckActive
<1>4. \A t \in CPU : TakingIpi(t) => TakingIpi(t)'
  BY DEF vars, TakingIpi, w24
<1>5. NoLostIpi'
  BY <1>4, ZenonT(60) DEF vars, IInv, NoLostIpi
<1> QED BY <1>1, <1>2, <1>3, <1>5 DEF IInv

\* The invariant holds in every reachable state of the driver.
THEOREM Invariance == Spec => []IInv
<1>1. Init => IInv
  BY InitIInv
<1>2. IInv /\ [Next]_vars => IInv'
  BY BootTypeStep, LineTypeStep, CpuTypeStep, SendTypeStep, MapStep, IarStep,
     ActiveStep, IpiStep, StutterIInv DEF IInv, TypeOK
<1> QED BY <1>1, <1>2, PTL DEF Spec

\* Type correctness of the GICv2 callouts, for every set of interrupts.
THEOREM TypeCorrect == Spec => []TypeOK
<1>1. IInv => TypeOK
  BY DEF IInv
<1> QED BY <1>1, Invariance, PTL

\* sendipi_gic_v2 loses no command, for any number and wiring of CPUs.
THEOREM IpiIsNotLost == Spec => []NoLostIpi
<1>1. IInv => NoLostIpi
  BY DEF IInv
<1> QED BY <1>1, Invariance, PTL

\* The id and eoi callouts leave no interrupt active.
THEOREM ActiveIsHandled == Spec => []NoStuckActive
<1>1. IInv => NoStuckActive
  BY DEF IInv
<1> QED BY <1>1, Invariance, PTL
-----------------------------------------------------------------------------
(* A masked line stays quiet: what is enabled at the controller, on a CPU  *)
(* that is up, the kernel has unmasked.                                    *)

Named(c, id) == IF id < SpiBase THEN <<"ppi", id, c>> ELSE <<"spi", id - SpiBase, 0>>

VectorOf(id) == IF id < SpiBase THEN id ELSE id - SpiBase

\* The vector a CPU handles is that of the interrupt it has read.
VectorInv ==
  \A c \in CPU : /\ pc[c] # "idle" => Running
                 /\ pc[c] = "handle" /\ w24(c) # Ipi =>
                      w24(c) \in Ppi \cup Spi /\ x19[c] = VectorOf(w24(c))
EnabledInv ==
  /\ \A c \in up : \A id \in Ppi : Bank(c, id) \in enabled => Named(c, id) \in unmasked
  /\ ready => \A id \in Spi : Bank(0, id) \in enabled => Named(0, id) \in unmasked

\* The numbers of interrupts, and what the callouts make of them.
LEMMA NumbersAre ==
  /\ \A id \in Ppi : id \in Nat /\ id < SpiBase /\ VectorOf(id) = id
  /\ \A id \in Spi : /\ id \in Nat /\ ~ (id < SpiBase) /\ id <= MaxSpiId
                     /\ VectorOf(id) = id - SpiBase
BY DEF VectorOf

LEMMA NamesAre ==
  ASSUME NEW c \in CPU
  PROVE  /\ \A id \in Ppi : Bank(c, id) = <<c, id>> /\ Named(c, id) = <<"ppi", id, c>>
         /\ \A id \in Spi : Bank(c, id) = <<0, id>> /\ Named(c, id) = <<"spi", id - SpiBase, 0>>
<1>1. \A id \in Ppi : id < SpiBase
  BY NumbersAre
<1>2. \A id \in Spi : ~ (id < SpiBase)
  BY NumbersAre
<1>3. ASSUME NEW id \in Ppi
      PROVE  Bank(c, id) = <<c, id>> /\ Named(c, id) = <<"ppi", id, c>>
  <2>1. (id < SpiBase) = TRUE
    BY <1>1
  <2>2. Bank(c, id) = <<c, id>>
    BY <2>1 DEF Bank
  <2>3. Named(c, id) = <<"ppi", id, c>>
    BY <2>1 DEF Named
  <2> QED BY <2>2, <2>3
<1>4. ASSUME NEW id \in Spi
      PROVE  Bank(c, id) = <<0, id>> /\ Named(c, id) = <<"spi", id - SpiBase, 0>>
  <2>1. (id < SpiBase) = FALSE
    BY <1>2
  <2>2. Bank(c, id) = <<0, id>>
    BY <2>1 DEF Bank
  <2>3. Named(c, id) = <<"spi", id - SpiBase, 0>>
    BY <2>1 DEF Named
  <2> QED BY <2>2, <2>3
<1> QED BY <1>3, <1>4

\* A vector, its line and its name among the unmasked.
LEMMA VectorIs ==
  ASSUME NEW c \in CPU
  PROVE  /\ \A v \in Ppi : LineOf(c, "ppi", v) = Bank(c, v) /\ Vector(c, "ppi", v) = Named(c, v)
         /\ \A id \in Spi : /\ LineOf(c, "spi", id - SpiBase) = Bank(c, id)
                            /\ Vector(c, "spi", id - SpiBase) = Named(c, id)
<1>1. \A v \in Nat : 32 * (v \div 32) + (v % 32) = v
  OBVIOUS
<1>2. \A v \in Ppi : v < SpiBase /\ PpiLine(c, v) = Bank(c, v)
  BY <1>1 DEF PpiLine
<1>3. \A id \in Spi : id >= SpiBase /\ SpiLine(c, id - SpiBase) = Bank(c, id)
  BY <1>1 DEF PpiLine, SpiLine
<1> QED BY <1>2, <1>3 DEF LineOf, Vector, Named

\* A line that is cleared is no longer enabled, so its name may go too.
LEMMA ClearKeeps ==
  ASSUME EnabledInv, NEW c \in CPU, NEW id \in Ppi \cup Spi,
         enabled' = enabled \ {Bank(c, id)}, unmasked' = unmasked \ {Named(c, id)},
         UNCHANGED <<up, ready>>, up \subseteq CPU
  PROVE  EnabledInv'
<1>1. ASSUME NEW d \in CPU, NEW n \in Ppi \cup Spi, Named(d, n) = Named(c, id)
      PROVE  Bank(d, n) = Bank(c, id)
  BY <1>1 DEF Named, Bank
<1>2. 0 \in CPU
  OBVIOUS
<1>3. \A d \in CPU : \A n \in Ppi \cup Spi :
        (Bank(d, n) \in enabled => Named(d, n) \in unmasked)
          => (Bank(d, n) \in enabled' => Named(d, n) \in unmasked')
  BY <1>1
<1> QED BY <1>2, <1>3 DEF EnabledInv

\* A line that is set is named.
LEMMA SetKeeps ==
  ASSUME EnabledInv, NEW c \in CPU, NEW id \in Ppi \cup Spi,
         enabled' = enabled \cup {Bank(c, id)}, unmasked' = unmasked \cup {Named(c, id)},
         UNCHANGED <<up, ready>>, up \subseteq CPU
  PROVE  EnabledInv'
<1>1. ASSUME NEW d \in CPU, NEW n \in Ppi \cup Spi, Bank(d, n) = Bank(c, id)
      PROVE  Named(d, n) = Named(c, id)
  BY <1>1, ZenonT(40) DEF Named, Bank
<1>2. 0 \in CPU
  OBVIOUS
<1>3. \A d \in CPU : \A n \in Ppi \cup Spi :
        (Bank(d, n) \in enabled => Named(d, n) \in unmasked)
          => (Bank(d, n) \in enabled' => Named(d, n) \in unmasked')
  BY <1>1
<1> QED BY <1>2, <1>3 DEF EnabledInv

\* The vector in hand is that of the interrupt read, on every path.
LEMMA VectorStep == ASSUME IInv, VectorInv, [Next]_vars PROVE VectorInv'
<1>1. ASSUME UNCHANGED <<pc, iar, x19>>, up \subseteq up', up' \subseteq CPU
      PROVE  VectorInv'
  <2>1. Running => up' = CPU
    BY <1>1, ZenonT(40) DEF Running
  <2> QED BY <1>1, <2>1 DEF VectorInv, VectorOf, Running, w24
<1>2. ASSUME GicV2Init \/ (\E irq \in TrigIrqs, on \in BOOLEAN : SetIntrTrigMode(irq, on))
             \/ Devices
      PROVE  VectorInv'
  <2>1. UNCHANGED <<up, pc, iar, x19>> /\ up \subseteq CPU
    BY <1>2 DEF GicV2Init, SetIntrTrigMode, Devices, Raise, IInv, TypeOK, BootType
  <2> QED BY <2>1, <1>1
<1>3. ASSUME NEW c \in CPU, GicV2GiccInit(c) PROVE VectorInv'
  BY <1>3, <1>1 DEF GicV2GiccInit, IInv, TypeOK, BootType
<1>4. ASSUME NEW c \in CPU, TakeIrq(c) \/ (\E t \in CPU, cmd \in Cmd : SendOr(c, t, cmd))
      PROVE  VectorInv'
  <2>1. /\ Running /\ pc' \in {[pc EXCEPT ![c] = "iar"], [pc EXCEPT ![c] = "sgir"]}
        /\ UNCHANGED <<up, iar, x19>>
    BY <1>4 DEF TakeIrq, SendOr
  <2> QED BY <2>1 DEF VectorInv, VectorOf, Running, w24, IInv, TypeOK, CpuType
<1>5. ASSUME NEW c \in CPU, ReadIar(c) PROVE VectorInv'
  <2>1. /\ pc[c] = "iar" /\ pc' = [pc EXCEPT ![c] = "id"] /\ UNCHANGED <<up, x19>>
        /\ \A d \in CPU \ {c} : iar'[d] = iar[d]
    <3>1. pc[c] = "iar" /\ pc' = [pc EXCEPT ![c] = "id"] /\ UNCHANGED <<up, x19>>
      BY <1>5 DEF ReadIar
    <3>2. \E v : iar' = [iar EXCEPT ![c] = v]
      BY <1>5 DEF ReadIar
    <3>3. \A d \in CPU \ {c} : iar'[d] = iar[d]
      BY <3>2 DEF IInv, TypeOK, CpuType
    <3> QED BY <3>1, <3>3
  <2> QED BY <2>1 DEF VectorInv, VectorOf, Running, w24, IInv, TypeOK, CpuType
<1>6. ASSUME NEW c \in CPU, IdPpi(c) PROVE VectorInv'
  <2>1. /\ pc[c] = "id" /\ UNCHANGED <<up, iar>>
        /\ pc' = [pc EXCEPT ![c] = IF w24(c) > 31 THEN "id_spi" ELSE "handle"]
        /\ x19' = [x19 EXCEPT ![c] = IF w24(c) > 31 THEN None ELSE w24(c)]
    BY <1>6 DEF IdPpi
  <2>0. w24(c) \in Nat
    <3>1. \A n \in {Ipi, Spurious} \cup Ppi \cup Spi : n \in Nat
      BY NumbersAre
    <3>2. w24(c) \in {Ipi, Spurious} \cup Ppi \cup Spi
      BY DEF w24, IInv, TypeOK, CpuType, IarValues, ActiveValues
    <3> QED BY <3>1, <3>2, ZenonT(40)
  <2>2. w24(c) \in {Ipi, Spurious} \cup Ppi \cup Spi
    BY DEF w24, IInv, TypeOK, CpuType, IarValues, ActiveValues
  <2>3. ASSUME ~ (w24(c) > 31), w24(c) # Ipi PROVE  VectorOf(w24(c)) = w24(c) /\ w24(c) \in Ppi
    <3>1. w24(c) \notin Spi /\ w24(c) # Spurious
      BY <2>0, <2>3, NumbersAre
    <3> QED BY <2>0, <2>2, <2>3, <3>1, NumbersAre
  <2>4. ~ (w24(c) > 31) => x19'[c] = w24(c)
    BY <2>1 DEF IInv, TypeOK, CpuType
  <2>5. /\ pc'[c] = "handle" => ~ (w24(c) > 31)
        /\ \A d \in CPU \ {c} : pc'[d] = pc[d] /\ x19'[d] = x19[d]
    BY <2>1 DEF IInv, TypeOK, CpuType
  <2> QED BY <2>1, <2>3, <2>4, <2>5 DEF VectorInv, VectorOf, Running, w24
<1>7. ASSUME NEW c \in CPU, IdSpi(c) PROVE VectorInv'
  <2>1. /\ pc[c] = "id_spi" /\ UNCHANGED <<up, iar>>
        /\ pc' = [pc EXCEPT ![c] = IF w24(c) > MaxSpiId THEN "idle" ELSE "handle"]
        /\ x19' = [x19 EXCEPT ![c] = IF w24(c) > MaxSpiId THEN None ELSE w24(c) - SpiBase]
    BY <1>7 DEF IdSpi
  <2>0. w24(c) \in Nat
    <3>1. \A n \in {Ipi, Spurious} \cup Ppi \cup Spi : n \in Nat
      BY NumbersAre
    <3>2. w24(c) \in {Ipi, Spurious} \cup Ppi \cup Spi
      BY DEF w24, IInv, TypeOK, CpuType, IarValues, ActiveValues
    <3> QED BY <3>1, <3>2, ZenonT(40)
  <2>2. w24(c) \in {Ipi, Spurious} \cup Ppi \cup Spi /\ w24(c) > 31
    BY <2>1 DEF w24, IInv, SpiInv, TypeOK, CpuType, IarValues, ActiveValues
  <2>3. ~ (w24(c) > MaxSpiId) => VectorOf(w24(c)) = w24(c) - SpiBase /\ w24(c) \in Spi
    BY <2>0, <2>2, NumbersAre
  <2>4. ~ (w24(c) > MaxSpiId) => x19'[c] = w24(c) - SpiBase
    BY <2>1 DEF IInv, TypeOK, CpuType
  <2>5. /\ pc'[c] = "handle" => ~ (w24(c) > MaxSpiId)
        /\ \A d \in CPU \ {c} : pc'[d] = pc[d] /\ x19'[d] = x19[d]
    BY <2>1 DEF IInv, TypeOK, CpuType
  <2> QED BY <2>1, <2>3, <2>4, <2>5 DEF VectorInv, VectorOf, Running, w24
<1>8. ASSUME NEW c \in CPU, HandleIpi(c) \/ HandleDevice(c) \/ Eoi(c) \/ SendSgir(c)
      PROVE  VectorInv'
  <2>1. /\ pc[c] # "idle" /\ pc'[c] \in {"eoi", "idle"} /\ UNCHANGED up
        /\ \A d \in CPU \ {c} : pc'[d] = pc[d] /\ x19'[d] = x19[d] /\ iar'[d] = iar[d]
    <3> USE DEF IInv, TypeOK, CpuType
    <3>1. CASE HandleIpi(c)
      BY <3>1 DEF HandleIpi
    <3>2. CASE HandleDevice(c)
      BY <3>2 DEF HandleDevice
    <3>3. CASE Eoi(c)
      BY <3>3 DEF Eoi, Forget
    <3>4. CASE SendSgir(c)
      BY <3>4 DEF SendSgir, Forget
    <3> QED BY <1>8, <3>1, <3>2, <3>3, <3>4
  <2> QED BY <2>1 DEF VectorInv, VectorOf, Running, w24
<1>9. ASSUME NEW c \in CPU, NEW ctl, NEW v, Mask(c, ctl, v) \/ Unmask(c, ctl, v)
      PROVE  VectorInv'
  BY <1>9, <1>1, ZenonT(40) DEF Mask, Unmask, IInv, TypeOK, BootType
<1>10. ASSUME UNCHANGED vars PROVE VectorInv'
  BY <1>10, <1>1 DEF vars, IInv, TypeOK, BootType
<1> QED
  BY <1>2, <1>3, <1>4, <1>5, <1>6, <1>7, <1>8, <1>9, <1>10 DEF Next, Boot, Continue, Drivers

\* The lines: startup clears them before a CPU is up, and each callout
\* changes one together with what the kernel takes it to be.
LEMMA EnabledStep ==
  ASSUME IInv, VectorInv, EnabledInv, [Next]_vars
  PROVE  EnabledInv'
<1>0. up \subseteq CPU
  BY DEF IInv, TypeOK, BootType
<1>1. ASSUME UNCHANGED <<up, ready, enabled, unmasked>> PROVE EnabledInv'
  BY <1>1 DEF EnabledInv
<1>2. ASSUME GicV2Init PROVE EnabledInv'
  <2>1. up = {} /\ up' = {}
    BY <1>2 DEF GicV2Init, IInv, MapInv
  <2>2. \A id \in Spi : Bank(0, id) \notin enabled'
    BY <1>2 DEF GicV2Init, SpiLines
  <2> QED BY <2>1, <2>2 DEF EnabledInv
<1>3. ASSUME NEW c \in CPU, GicV2GiccInit(c) PROVE EnabledInv'
  <2>1. \A id \in Ppi : Bank(c, id) \notin enabled'
    BY <1>3 DEF GicV2GiccInit
  <2>2. up' = up \cup {c} /\ enabled' \subseteq enabled /\ UNCHANGED <<ready, unmasked>>
    BY <1>3 DEF GicV2GiccInit
  <2> QED BY <2>1, <2>2 DEF EnabledInv
<1>4. ASSUME NEW c \in CPU, HandleDevice(c) PROVE EnabledInv'
  <2>1. w24(c) \in Ppi \cup Spi /\ x19[c] = VectorOf(w24(c))
    BY <1>4 DEF HandleDevice, VectorInv
  <2>2. /\ LineOf(c, Controller(c), x19[c]) = Bank(c, w24(c))
        /\ Vector(c, Controller(c), x19[c]) = Named(c, w24(c))
    <3>0. w24(c) \in Nat
      BY <2>1, NumbersAre, ZenonT(40)
    <3>1. CASE w24(c) \in Ppi
      <4>1. Controller(c) = "ppi" /\ x19[c] = w24(c)
        BY <2>1, <3>0, <3>1, NumbersAre DEF Controller
      <4> QED BY <3>1, <4>1, VectorIs, ZenonT(40)
    <3>2. CASE w24(c) \in Spi
      <4>1. Controller(c) = "spi" /\ x19[c] = w24(c) - SpiBase
        BY <2>1, <3>0, <3>2, NumbersAre DEF Controller
      <4> QED BY <3>2, <4>1, VectorIs, ZenonT(40)
    <3> QED BY <2>1, <3>1, <3>2
  <2> QED BY <1>0, <1>4, <2>1, <2>2, ClearKeeps DEF HandleDevice
<1>5. ASSUME NEW c \in CPU, NEW v \in Ppi, Mask(c, "ppi", v) PROVE EnabledInv'
  BY <1>0, <1>5, VectorIs, ClearKeeps DEF Mask
<1>6. ASSUME NEW c \in CPU, NEW v \in Ppi, Unmask(c, "ppi", v) PROVE EnabledInv'
  BY <1>0, <1>6, VectorIs, SetKeeps DEF Unmask
<1>7. ASSUME NEW c \in CPU, NEW id \in Spi, Mask(c, "spi", id - SpiBase) PROVE EnabledInv'
  BY <1>0, <1>7, VectorIs, ClearKeeps DEF Mask
<1>8. ASSUME NEW c \in CPU, NEW id \in Spi, Unmask(c, "spi", id - SpiBase) PROVE EnabledInv'
  BY <1>0, <1>8, VectorIs, SetKeeps DEF Unmask
<1>9. ASSUME NEW c \in CPU, ReadIar(c) \/ IdPpi(c) \/ IdSpi(c) \/ HandleIpi(c) \/ Eoi(c)
             \/ SendSgir(c) \/ TakeIrq(c)
      PROVE  EnabledInv'
  BY <1>9, <1>1 DEF ReadIar, IdPpi, IdSpi, HandleIpi, Eoi, SendSgir, TakeIrq
<1>10. ASSUME (\E irq \in TrigIrqs, on \in BOOLEAN : SetIntrTrigMode(irq, on)) \/ Devices
              \/ (\E c, t \in CPU, cmd \in Cmd : SendOr(c, t, cmd)) \/ UNCHANGED vars
       PROVE  EnabledInv'
  BY <1>10, <1>1 DEF SetIntrTrigMode, Devices, Raise, SendOr, vars
<1> QED
  BY <1>2, <1>3, <1>4, <1>5, <1>6, <1>7, <1>8, <1>9, <1>10 DEF Next, Boot, Continue, Drivers

\* What is read from IAR for a device is a line that is enabled.
LEMMA QuietStep ==
  ASSUME IInv, VectorInv, EnabledInv, Next,
         NEW c \in CPU, pc[c] = "iar", pc'[c] = "id", iar'[c][1] \in Ppi \cup Spi
  PROVE  Named(c, iar'[c][1]) \in unmasked
<1>1. ASSUME UNCHANGED pc PROVE FALSE
  BY <1>1
<1>2. ASSUME NEW d \in CPU, \/ pc' = [pc EXCEPT ![d] = "iar"] \/ pc' = [pc EXCEPT ![d] = "sgir"]
                            \/ pc' = [pc EXCEPT ![d] = "eoi"] \/ pc' = [pc EXCEPT ![d] = "idle"]
                            \/ pc' = [pc EXCEPT ![d] = "handle"] \/ pc' = [pc EXCEPT ![d] = "id_spi"]
      PROVE  FALSE
  BY <1>2 DEF IInv, TypeOK, CpuType
<1>3. ASSUME NEW d \in CPU, ReadIar(d) PROVE d = c
  <2>1. pc' = [pc EXCEPT ![d] = "id"]
    BY <1>3 DEF ReadIar
  <2> QED BY <2>1 DEF IInv, TypeOK, CpuType
<1>4. ReadIar(c)
  <2>1. ASSUME Boot \/ Devices PROVE FALSE
    BY <2>1, <1>1 DEF Boot, Devices, GicV2Init, SetIntrTrigMode, GicV2GiccInit, Raise
  <2>2. ASSUME NEW d \in CPU, Drivers(d) PROVE FALSE
    BY <2>2, <1>1, <1>2 DEF Drivers, Mask, Unmask, SendOr
  <2>3. ASSUME NEW d \in CPU, \/ TakeIrq(d) \/ HandleIpi(d) \/ HandleDevice(d) \/ Eoi(d)
                              \/ SendSgir(d)
        PROVE  FALSE
    BY <2>3, <1>2 DEF TakeIrq, HandleIpi, HandleDevice, Eoi, SendSgir
  <2>4. ASSUME NEW d \in CPU, IdPpi(d) PROVE FALSE
    <3>1. CASE w24(d) > 31
      BY <3>1, <2>4, <1>2 DEF IdPpi
    <3>2. CASE ~ (w24(d) > 31)
      BY <3>2, <2>4, <1>2 DEF IdPpi
    <3> QED BY <3>1, <3>2
  <2>5. ASSUME NEW d \in CPU, IdSpi(d) PROVE FALSE
    <3>1. CASE w24(d) > MaxSpiId
      BY <3>1, <2>5, <1>2 DEF IdSpi
    <3>2. CASE ~ (w24(d) > MaxSpiId)
      BY <3>2, <2>5, <1>2 DEF IdSpi
    <3> QED BY <3>1, <3>2
  <2> QED BY <1>3, <2>1, <2>2, <2>3, <2>4, <2>5 DEF Next, Continue
<1>5. PICK v \in Highest(c) : iar' = [iar EXCEPT ![c] = v]
  <2>1. iar' # [iar EXCEPT ![c] = NoIar]
    BY DEF IInv, TypeOK, CpuType
  <2> QED BY <1>4, <2>1 DEF ReadIar
<1>6. v[1] \in Ppi \cup Spi /\ iar'[c] = v
  BY <1>5 DEF IInv, TypeOK, CpuType
<1>7. Bank(c, v[1]) \in enabled
  <2>1. v \in Signalled(c)
    BY DEF Highest
  <2>2. v[1] # Ipi
    BY <1>6
  <2>3. PICK id \in Ppi \cup Spi : v = <<id, 0>> /\ Bank(c, id) \in enabled
    BY <2>1, <2>2 DEF Signalled
  <2> QED BY <2>3
<1>8. Running /\ ready
  BY DEF VectorInv, IInv, MapInv, Running
<1>9. CASE v[1] \in Ppi
  BY <1>6, <1>7, <1>8, <1>9 DEF EnabledInv, Running
<1>10. CASE v[1] \in Spi
  <2>1. Bank(c, v[1]) = Bank(0, v[1]) /\ Named(c, v[1]) = Named(0, v[1])
    <3>1. 0 \in CPU
      OBVIOUS
    <3>2. Bank(c, v[1]) = <<0, v[1]>> /\ Named(c, v[1]) = <<"spi", v[1] - SpiBase, 0>>
      BY <1>10, NamesAre, ZenonT(40)
    <3>3. Bank(0, v[1]) = <<0, v[1]>> /\ Named(0, v[1]) = <<"spi", v[1] - SpiBase, 0>>
      BY <1>10, <3>1, NamesAre, Zenon
    <3> QED BY <3>2, <3>3, ZenonT(40)
  <2> QED BY <1>6, <1>7, <1>8, <1>10, <2>1, ZenonT(40) DEF EnabledInv
<1> QED BY <1>6, <1>9, <1>10

\* A CPU takes a device interrupt only of a line the kernel has unmasked,
\* although any CPU may mask it at any time (the mask and unmask callouts).
THEOREM MaskedIsQuiet == Spec => MaskedStaysQuiet
<1>1. Init => VectorInv /\ EnabledInv
  BY DEF Init, VectorInv, EnabledInv
<1>2. IInv /\ VectorInv /\ EnabledInv /\ [Next]_vars => VectorInv' /\ EnabledInv'
  BY VectorStep, EnabledStep
<1>3. ASSUME IInv, VectorInv, EnabledInv, [Next]_vars
      PROVE  [\A c \in CPU : pc[c] = "iar" /\ pc'[c] = "id" /\ iar'[c][1] \in Ppi \cup Spi =>
                LET id == iar'[c][1] IN
                (IF id < SpiBase THEN <<"ppi", id, c>> ELSE <<"spi", id - SpiBase, 0>>)
                  \in unmasked]_vars
  BY <1>3, QuietStep DEF Named
<1>4. Spec => []IInv
  BY Invariance
<1> QED BY <1>1, <1>2, <1>3, <1>4, PTL DEF Spec, MaskedStaysQuiet
=============================================================================
