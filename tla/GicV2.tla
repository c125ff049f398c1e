------------------------------- MODULE GicV2 -------------------------------
(***************************************************************************)
(* The GICv2 driver of startup and the callouts it leaves in the system    *)
(* page: gic_v2_init and gic_v2_gicc_init set the controller up, then the  *)
(* kernel identifies, masks, unmasks and ends interrupts and sends IPIs    *)
(* with them. The controller and the kernel are external; they are         *)
(* modelled as far as the callouts use them.                               *)
(***************************************************************************)
EXTENDS Integers, FiniteSets

CONSTANTS
  NumCpu,     \* lsp.syspage.p->num_cpu
  GicIf,      \* the CPU interface each CPU is wired to, read from ITARGETSR0
  Itn,        \* interrupt lines, ((TYPER & ITLN) + 1) * 32
  Ppi,        \* the private peripheral interrupts in use, among 16 .. 31
  Spi,        \* the shared peripheral interrupts in use, 32 and above
  TrigIrqs,   \* arguments of gic_v2_set_intr_trig_mode
  Cmd,        \* IPI commands, the bits of an ipicmds word
  MaxRaise    \* bound on the device interrupts of a behaviour

CPU == 0 .. NumCpu - 1
Iface == 0 .. 7

ASSUME NumCpuAssumption == NumCpu \in 1 .. 8
ASSUME GicIfAssumption ==
  /\ GicIf \in [CPU -> Iface]
  /\ \A c, d \in CPU : GicIf[c] = GicIf[d] => c = d
ASSUME LinesAssumption ==
  /\ Itn \in Nat /\ Itn >= 32
  /\ Ppi \subseteq 16 .. 31
  /\ Spi \subseteq 32 .. Itn - 1 /\ Spi \subseteq 32 .. 1019
  /\ TrigIrqs \subseteq Int
ASSUME MaxRaiseAssumption == MaxRaise \in Nat

Ipi      == 0      \* SGI used for IPIs
Spurious == 1023   \* what IAR reads when nothing is pending
NoMap    == -1     \* ~0u in gic_map
None     == -1     \* an id callout's "not mine"
MaxSpiId == 1021   \* the last ID interrupt_id_gic_v2_spi accepts
SpiBase  == 32

VARIABLES
  up,          \* CPUs whose interface is initialised; CPU 0 does gic_v2_init
  ready,       \* gic_v2_init has run: the distributor is on
  gic_map,     \* syspage: CPU -> CPU interface
  edge,        \* interrupts configured edge-triggered (ICFGR)
  route,       \* the interface the SPIs are routed to (ITARGETSR)
  enabled,     \* ISENABLER/ICENABLER
  pending,     \* pending PPIs and SPIs
  sgi,         \* pending IPIs: for each CPU the CPUs that sent one
  active,      \* for each CPU the interrupts active on it: ID and source
  pc,          \* where each CPU is
  iar,         \* the last value the CPU read from IAR: ID and source CPU
  x19,         \* the vector the id callouts hand to the kernel
  ipicmds,     \* the kernel's IPI command words
  w1, dst, w7, \* sendipi: interface argument, owner of the word, old value
  unmasked,    \* vectors the kernel has unmasked, by controller
  raised       \* device interrupts so far

bootVars == <<up, ready, gic_map, edge, route>>
gicVars  == <<enabled, pending, sgi, active>>
cpuVars  == <<pc, iar, x19>>
sendVars == <<ipicmds, w1, dst, w7>>
vars == <<bootVars, gicVars, cpuVars, sendVars, unmasked, raised>>

\* Registers of IDs below 32 are banked: every CPU has its own.
Bank(c, id) == IF id < SpiBase THEN <<c, id>> ELSE <<0, id>>
Lines(c) == {Bank(c, id) : id \in Ppi \cup Spi}
AllLines == UNION {Lines(c) : c \in CPU}
SpiLines == {Bank(0, id) : id \in Spi}
NoIar == <<Spurious, 0>>
ActiveValues == ({Ipi} \cup Ppi \cup Spi) \X CPU
IarValues == ActiveValues \cup ({Spurious} \X CPU)

\* Firmware leaves SPIs and PPIs enabled and pending as it likes.
Init ==
  /\ up = {} /\ ready = FALSE
  /\ gic_map = [c \in CPU |-> NoMap]
  /\ edge = {} /\ route = 0
  /\ enabled \in SUBSET AllLines /\ pending \in SUBSET AllLines
  /\ sgi = [c \in CPU |-> {}] /\ active = [c \in CPU |-> {}]
  /\ pc = [c \in CPU |-> "idle"]
  /\ iar = [c \in CPU |-> NoIar] /\ x19 = [c \in CPU |-> None]
  /\ ipicmds = [c \in CPU |-> {}] /\ w1 = [c \in CPU |-> NoMap]
  /\ dst = [c \in CPU |-> c] /\ w7 = [c \in CPU |-> {}]
  /\ unmasked = {} /\ raised = 0

-----------------------------------------------------------------------------
(* Startup                                                                 *)

Running == up = CPU

\* Mutant: the SPIs firmware has enabled stay enabled.
GicV2Init_KeepsSpis ==
  /\ ~ ready /\ ready' = TRUE
  /\ route' = GicIf[0]
  /\ edge' = {}
  /\ gic_map' = [c \in CPU |-> NoMap]
  /\ UNCHANGED <<up, gicVars, cpuVars, sendVars, unmasked, raised>>

\* gic_v2_init(): the SPIs are disabled, their pending state cleared, all
\* of them routed to the boot CPU's interface and made level-triggered, and
\* the distributor is enabled.
GicV2Init ==
  /\ ~ ready /\ ready' = TRUE
  /\ enabled' = enabled \ SpiLines
  /\ pending' = pending \ SpiLines
  /\ route' = GicIf[0]
  /\ edge' = {}
  /\ gic_map' = [c \in CPU |-> NoMap]
  /\ UNCHANGED <<up, sgi, active, cpuVars, sendVars, unmasked, raised>>

\* gic_v2_set_intr_trig_mode(): sets or clears the ICFGR bit of irq.
NumSpis == Itn
SetIntrTrigMode(irq, on) ==
  /\ ready /\ up = {}
  /\ irq >= SpiBase /\ irq < NumSpis + SpiBase
  /\ edge' = IF on THEN edge \cup {irq} ELSE edge \ {irq}
  /\ UNCHANGED <<up, ready, gic_map, route, gicVars, cpuVars, sendVars,
                 unmasked, raised>>

\* gic_v2_gicc_init(cpu), run by each CPU in turn from init_one_cpuinfo():
\* its interface number from ITARGETSR0, SGIs on, PPIs off, interface on.
GicV2GiccInit(c) ==
  /\ ready /\ c \notin up
  /\ \A d \in CPU : d < c => d \in up
  /\ gic_map' = [gic_map EXCEPT ![c] = GicIf[c]]
  /\ enabled' = enabled \ {Bank(c, id) : id \in Ppi}
  /\ up' = up \cup {c}
  /\ UNCHANGED <<ready, edge, route, pending, sgi, active, cpuVars, sendVars,
                 unmasked, raised>>

-----------------------------------------------------------------------------
(* The controller                                                          *)

\* gic_v2_gicc_init() gives ID 0 the priority 0xC0, all others have 0xA0.
Prio(id) == IF id = Ipi THEN 12 ELSE 10

\* A level of CPU c's priority mask: the priority it is running at.
Blocked(c, id) == \E a \in active[c] : Prio(a[1]) <= Prio(id)

\* What can be signalled to CPU c: ID and source.
Signalled(c) ==
  {v \in {<<Ipi, s>> : s \in sgi[c]} : ~ Blocked(c, Ipi)}
  \cup
  {<<id, 0>> : id \in {n \in Ppi \cup Spi :
      /\ Bank(c, n) \in enabled \cap pending
      /\ \A d \in CPU : \A a \in active[d] : Bank(d, a[1]) # Bank(c, n)
      /\ n \in Spi => route = GicIf[c]
      /\ ~ Blocked(c, n)}}

\* IAR returns one of the signalled interrupts of the highest priority.
Highest(c) ==
  {v \in Signalled(c) : \A u \in Signalled(c) : Prio(v[1]) <= Prio(u[1])}

\* A device raises an interrupt.
Raise(c, id) ==
  /\ Running /\ raised < MaxRaise
  /\ Bank(c, id) \notin pending
  /\ pending' = pending \cup {Bank(c, id)}
  /\ raised' = raised + 1
  /\ UNCHANGED <<bootVars, enabled, sgi, active, cpuVars, sendVars, unmasked>>

-----------------------------------------------------------------------------
(* Taking an interrupt                                                     *)

Goto(c, from, to) == pc[c] = from /\ pc' = [pc EXCEPT ![c] = to]

\* The CPU, interrupts enabled, vectors to the kernel.
TakeIrq(c) ==
  /\ Running /\ Signalled(c) # {}
  /\ Goto(c, "idle", "iar")
  /\ UNCHANGED <<bootVars, gicVars, iar, x19, sendVars, unmasked, raised>>

\* interrupt_id_gic_v2_ppi: the read of IAR acknowledges the interrupt. It
\* is spurious when another CPU has masked the line in the meantime.
ReadIar(c) ==
  /\ Goto(c, "iar", "id")
  /\ \/ /\ Signalled(c) = {}
        /\ iar' = [iar EXCEPT ![c] = NoIar]
        /\ UNCHANGED <<pending, sgi, active>>
     \/ \E v \in Highest(c) :
        /\ iar' = [iar EXCEPT ![c] = v]
        /\ active' = [active EXCEPT ![c] = @ \cup {v}]
        /\ IF v[1] = Ipi
           THEN sgi' = [sgi EXCEPT ![c] = @ \ {v[2]}] /\ UNCHANGED pending
           ELSE pending' = pending \ {Bank(c, v[1])} /\ UNCHANGED sgi
  /\ UNCHANGED <<bootVars, enabled, x19, sendVars, unmasked, raised>>

\* A write of ID and source to EOIR by CPU c.
EndOfInterrupt(c, id, src) ==
  active' = [active EXCEPT ![c] = @ \ {<<id, src>>}]

\* Register w24: the ID without the source, for the other callouts.
w24(c) == iar[c][1]

\* Mutant: ID 0 is ended with the masked ID, without its source.
IdPpi_NoSource(c) ==
  LET id == w24(c) IN
  /\ Goto(c, "id", IF id > 31 THEN "id_spi" ELSE "handle")
  /\ x19' = [x19 EXCEPT ![c] = IF id > 31 THEN None ELSE id]
  /\ IF id = Ipi THEN EndOfInterrupt(c, id, 0) ELSE UNCHANGED active
  /\ UNCHANGED <<bootVars, enabled, pending, sgi, iar, sendVars, unmasked,
                 raised>>

\* Mutant: ID 0 is left to the eoi callout, which skips it.
IdPpi_NoEoi(c) ==
  LET id == w24(c) IN
  /\ Goto(c, "id", IF id > 31 THEN "id_spi" ELSE "handle")
  /\ x19' = [x19 EXCEPT ![c] = IF id > 31 THEN None ELSE id]
  /\ UNCHANGED <<bootVars, gicVars, iar, sendVars, unmasked, raised>>

\* The rest of interrupt_id_gic_v2_ppi: IDs up to 31 are its own, and ID 0
\* is ended at once with the full value read, source included.
IdPpi(c) ==
  LET id == w24(c) IN
  /\ Goto(c, "id", IF id > 31 THEN "id_spi" ELSE "handle")
  /\ x19' = [x19 EXCEPT ![c] = IF id > 31 THEN None ELSE id]
  /\ IF id = Ipi THEN EndOfInterrupt(c, id, iar[c][2]) ELSE UNCHANGED active
  /\ UNCHANGED <<bootVars, enabled, pending, sgi, iar, sendVars, unmasked,
                 raised>>

\* interrupt_id_gic_v2_spi: the vector is relative to the first SPI; IDs
\* above 1021 are spurious, and the kernel drops them.
IdSpi(c) ==
  /\ Goto(c, "id_spi", IF w24(c) > MaxSpiId THEN "idle" ELSE "handle")
  /\ x19' = [x19 EXCEPT ![c] = IF w24(c) > MaxSpiId THEN None
                                                   ELSE w24(c) - SpiBase]
  /\ UNCHANGED <<bootVars, gicVars, iar, sendVars, unmasked, raised>>

\* ICENABLERn and ISENABLERn bits of a vector: word vector / 32, bit
\* vector % 32, after an SPI vector has been made absolute.
PpiLine(c, v) == Bank(c, 32 * (v \div 32) + (v % 32))
SpiLine(c, v) == PpiLine(c, v + SpiBase)
LineOf(c, ctl, v) == IF ctl = "ppi" THEN PpiLine(c, v) ELSE SpiLine(c, v)

\* The kernel names the vectors it unmasks by controller, and the banked
\* ones by CPU.
Vector(c, ctl, v) == IF ctl = "ppi" THEN <<ctl, v, c>> ELSE <<ctl, v, 0>>
Controller(c) == IF w24(c) < SpiBase THEN "ppi" ELSE "spi"

\* An IPI: the kernel takes all commands out of its word at once.
HandleIpi(c) ==
  /\ x19[c] = Ipi /\ w24(c) = Ipi
  /\ Goto(c, "handle", "eoi")
  /\ ipicmds' = [ipicmds EXCEPT ![c] = {}]
  /\ UNCHANGED <<bootVars, gicVars, iar, x19, w1, dst, w7, unmasked,
                 raised>>

\* A device interrupt: the kernel masks the vector until it is serviced.
HandleDevice(c) ==
  /\ w24(c) # Ipi
  /\ Goto(c, "handle", "eoi")
  /\ enabled' = enabled \ {LineOf(c, Controller(c), x19[c])}
  /\ unmasked' = unmasked \ {Vector(c, Controller(c), x19[c])}
  /\ UNCHANGED <<bootVars, pending, sgi, active, iar, x19, sendVars,
                 raised>>

\* The registers are dead after the last callout of an interrupt.
Forget(c) == /\ iar' = [iar EXCEPT ![c] = NoIar]
             /\ x19' = [x19 EXCEPT ![c] = None]

\* interrupt_eoi_gic_v2: nothing for ID 0, which the id callout has ended.
Eoi(c) ==
  /\ Goto(c, "eoi", "idle")
  /\ IF w24(c) = 0 THEN UNCHANGED active ELSE EndOfInterrupt(c, w24(c), 0)
  /\ Forget(c)
  /\ UNCHANGED <<bootVars, enabled, pending, sgi, sendVars, unmasked, raised>>

\* interrupt_mask_gic_v2_ppi and _spi, called for a driver on CPU c.
Mask(c, ctl, v) ==
  /\ Running /\ pc[c] = "idle" /\ Vector(c, ctl, v) \in unmasked
  /\ enabled' = enabled \ {LineOf(c, ctl, v)}
  /\ unmasked' = unmasked \ {Vector(c, ctl, v)}
  /\ UNCHANGED <<bootVars, pending, sgi, active, cpuVars, sendVars, raised>>

\* interrupt_unmask_gic_v2_ppi and _spi.
Unmask(c, ctl, v) ==
  /\ Running /\ pc[c] = "idle" /\ Vector(c, ctl, v) \notin unmasked
  /\ enabled' = enabled \cup {LineOf(c, ctl, v)}
  /\ unmasked' = unmasked \cup {Vector(c, ctl, v)}
  /\ UNCHANGED <<bootVars, pending, sgi, active, cpuVars, sendVars, raised>>

-----------------------------------------------------------------------------
(* sendipi_gic_v2                                                          *)

\* Mutant: the CPU number is used as the interface number.
SendOr_CpuNumber(c, t, cmd) ==
  /\ Running /\ Goto(c, "idle", "sgir")
  /\ w1' = [w1 EXCEPT ![c] = t]
  /\ dst' = [dst EXCEPT ![c] = t]
  /\ w7' = [w7 EXCEPT ![c] = ipicmds[t]]
  /\ ipicmds' = [ipicmds EXCEPT ![t] = @ \cup {cmd}]
  /\ UNCHANGED <<bootVars, gicVars, iar, x19, unmasked, raised>>

\* Interrupts off; the ldxr/stxr loop ORs the command into the target's
\* word and keeps the old value. The kernel passes gic_map's interface.
SendOr(c, t, cmd) ==
  /\ Running /\ Goto(c, "idle", "sgir")
  /\ w1' = [w1 EXCEPT ![c] = gic_map[t]]
  /\ dst' = [dst EXCEPT ![c] = t]
  /\ w7' = [w7 EXCEPT ![c] = ipicmds[t]]
  /\ ipicmds' = [ipicmds EXCEPT ![t] = @ \cup {cmd}]
  /\ UNCHANGED <<bootVars, gicVars, iar, x19, unmasked, raised>>

\* SGI 0 goes to the interface only if the word was empty; interrupts on.
SendSgir(c) ==
  /\ Goto(c, "sgir", "idle")
  /\ sgi' = [t \in CPU |-> IF w7[c] = {} /\ GicIf[t] = w1[c]
                           THEN sgi[t] \cup {c} ELSE sgi[t]]
  /\ w1' = [w1 EXCEPT ![c] = NoMap] /\ dst' = [dst EXCEPT ![c] = c]
  /\ w7' = [w7 EXCEPT ![c] = {}]
  /\ UNCHANGED <<bootVars, enabled, pending, active, iar, x19, ipicmds,
                 unmasked, raised>>

-----------------------------------------------------------------------------
Boot == \/ GicV2Init
        \/ \E irq \in TrigIrqs, on \in BOOLEAN : SetIntrTrigMode(irq, on)
        \/ \E c \in CPU : GicV2GiccInit(c)

\* What a CPU does once it has vectored or has started to send.
Continue(c) == \/ ReadIar(c) \/ IdPpi(c) \/ IdSpi(c) \/ HandleIpi(c)
               \/ HandleDevice(c) \/ Eoi(c) \/ SendSgir(c)

Drivers(c) ==
  \/ \E v \in Ppi : Mask(c, "ppi", v) \/ Unmask(c, "ppi", v)
  \/ \E id \in Spi : Mask(c, "spi", id - SpiBase)
                     \/ Unmask(c, "spi", id - SpiBase)
  \/ \E t \in CPU, cmd \in Cmd : SendOr(c, t, cmd)

Devices == \E c \in CPU : \/ \E id \in Ppi : Raise(c, id)
                          \/ c = 0 /\ \E id \in Spi : Raise(c, id)

Next == \/ Boot \/ Devices
        \/ \E c \in CPU : TakeIrq(c) \/ Continue(c) \/ Drivers(c)

\* A CPU executes the callouts it has entered; a signalled interrupt is
\* taken, however often the CPU disables and enables interrupts meanwhile.
Fairness == \A c \in CPU : WF_vars(Continue(c)) /\ SF_vars(TakeIrq(c))

Spec == Init /\ [][Next]_vars /\ Fairness

-----------------------------------------------------------------------------
(* Properties                                                              *)

BootType ==
  /\ up \subseteq CPU /\ ready \in BOOLEAN
  /\ gic_map \in [CPU -> Iface \cup {NoMap}]
  /\ edge \subseteq Int /\ route \in Iface

LineType ==
  /\ enabled \subseteq AllLines /\ pending \subseteq AllLines
  /\ unmasked \subseteq {"ppi", "spi"} \X Nat \X CPU
  /\ raised \in Nat

CpuType ==
  /\ pc \in [CPU -> {"idle", "iar", "id", "id_spi", "handle", "eoi", "sgir"}]
  /\ iar \in [CPU -> IarValues]
  /\ active \in [CPU -> SUBSET ActiveValues]
  /\ x19 \in [CPU -> {None, Ipi} \cup Ppi \cup {id - SpiBase : id \in Spi}]

SendType ==
  /\ sgi \in [CPU -> SUBSET CPU]
  /\ ipicmds \in [CPU -> SUBSET Cmd] /\ w7 \in [CPU -> SUBSET Cmd]
  /\ w1 \in [CPU -> Iface \cup {NoMap}] /\ dst \in [CPU -> CPU]

\* Every variable keeps its type; in particular gic_map holds interface
\* numbers and the id callouts return vectors of their own controller.
TypeOK == BootType /\ LineType /\ CpuType /\ SendType

\* CPU c has acknowledged an IPI and not yet emptied its command word.
TakingIpi(c) == \/ pc[c] = "id" /\ iar[c][1] = Ipi
                \/ pc[c] = "handle" /\ w24(c) = Ipi /\ x19[c] = Ipi

\* sendipi_gic_v2 skips the SGI when the word was not empty: a non-empty
\* word always has an SGI pending, on its way or being taken at its CPU.
NoLostIpi ==
  \A t \in CPU : ipicmds[t] # {} =>
    \/ sgi[t] # {}
    \/ \E s \in CPU : pc[s] = "sgir" /\ dst[s] = t /\ w7[s] = {}
    \/ TakingIpi(t)

\* Every active interrupt is being handled on its CPU: none is left active
\* by the split of end-of-interrupt between the id and the eoi callout,
\* where it would block its CPU's interface for ever.
NoStuckActive ==
  \A c \in CPU : \A a \in active[c] :
    /\ iar[c] = a
    /\ pc[c] \in {"id", "id_spi", "handle", "eoi"}
    /\ pc[c] # "id" => a[1] # Ipi

\* A CPU handles a device interrupt only of a line, and under a vector, the
\* kernel has unmasked and not masked before the acknowledge.
MaskedStaysQuiet ==
  [][\A c \in CPU : pc[c] = "iar" /\ pc'[c] = "id" /\ iar'[c][1] \in Ppi \cup Spi =>
       LET id == iar'[c][1] IN
       (IF id < SpiBase THEN <<"ppi", id, c>> ELSE <<"spi", id - SpiBase, 0>>)
         \in unmasked]_vars

\* Every IPI command reaches its CPU, once devices stop raising interrupts,
\* which have the higher priority.
IpiHandled == \A t \in CPU, cmd \in Cmd :
                cmd \in ipicmds[t] ~> cmd \notin ipicmds[t]
=============================================================================
