-------------------------------- MODULE Msi --------------------------------
(***************************************************************************)
(* Interrupt controllers that hang below a GIC, and their callouts: the    *)
(* MSI registers of the T18x and of the QorIQ LS family, and the T18x PCIe *)
(* controller, whose code 6 is a further cascade of the messages of its    *)
(* ports. The kernel holds its interrupt lock over a callout, so that      *)
(* callouts exclude each other; devices do not wait.                       *)
(***************************************************************************)
EXTENDS Integers, Sequences, FiniteSets, FiniteSetsExt

CONSTANTS
  Chips,      \* of "msi", "qoriq" and "pcie"
  Ctls,       \* QorIQ controllers, at most 4
  Regs,       \* status registers: 8 (T18x), 1 or 4 (QorIQ v1 and v2)
  Width,      \* vectors of a register: 32, or 8 for QorIQ v2
  Used,       \* vectors in use
  Codes,      \* PCIe interrupt codes in use, of 1 .. 14
  Ports,      \* bits of MSG0 in use: port 0 in 15:0, port 1 in 31:16
  MaxRaise,   \* bound on the interrupts of a behaviour
  MaxAsk      \* bound on the kernel's mask and unmask requests

Size == Regs * Width        \* vectors of a controller
Ctl  == 0 .. Ctls - 1
Vec  == 0 .. Size - 1
None == -1
Cascade == 5    \* the interrupt number of code 6
Message == 100  \* a message of a port is counted from here in due and seen

VARIABLES
  chip,
  paddr_first, slot, vaddr,  \* the patch routine's words and its results
  status,   \* MSI_STATUS or MSIR: pending vectors, of all controllers
  enable,   \* MSI_ENABLE, or INTR_ENABLE0: enabled bits
  cache,    \* QorIQ: vectors read and not yet reported, by rw storage word
  afi,      \* PCIe: INTR_MASK bit 0
  pend, code,   \* events not yet coded, and INTR_CODE
  msg, sm_enable,  \* INTR_MSG0, and SM_INTR_ENABLE0
  pc, ctl, reg, w,  \* the kernel: controller, next register, bits read
  x19, src,         \* the id reported, and the bit of MSG0 it stands for
  masked,           \* ids the kernel has masked
  due, seen,        \* history: raised and not served since; ever raised
  raised, asked

patchVars == <<paddr_first, slot, vaddr>>
msiVars   == <<status, enable, cache>>
pcieVars  == <<afi, pend, code, msg, sm_enable>>
hist      == <<due, seen, raised>>
vars == <<chip, patchVars, msiVars, pcieVars, pc, ctl, reg, w, x19, src,
          masked, hist, asked>>

\* The meaningful bits of SM_INTR_ENABLE0, 0x3F0F.
SmBits == (0 .. 3) \cup (8 .. 13)

\* The kernel has unmasked the vectors it uses, through the callouts.
Init ==
  /\ chip \in Chips
  /\ paddr_first = None /\ slot = [c \in Ctl |-> None]
  /\ vaddr = [c \in Ctl |-> None]
  /\ status = {} /\ cache = [s \in 0 .. 3 |-> {}]
  /\ afi = TRUE /\ pend = {} /\ code = 0 /\ msg = {} /\ sm_enable = SmBits
  /\ enable = IF chip = "pcie" THEN 0 .. 12 ELSE Used
  /\ pc = "patch" /\ ctl = 0 /\ reg = 0 /\ w = {} /\ x19 = None /\ src = None
  /\ masked = {} /\ due = {} /\ seen = {} /\ raised = 0 /\ asked = 0

Goto(from, to) == pc = from /\ pc' = to

-----------------------------------------------------------------------------
(* patch_intr: the callouts are copied once for each controller            *)

\* The controllers' pages, one after the other.
Page(c) == 16 + c

\* The QorIQ controller's word of rw storage, by its distance from the first.
Word(first, c) == Page(c) - first

\* A controller is mapped once, however many of its callouts are patched.
PatchQoriq ==
  LET first == IF paddr_first = None THEN Page(ctl) ELSE paddr_first IN
  /\ chip = "qoriq" /\ pc = "patch"
  /\ paddr_first' = first
  /\ slot' = [slot EXCEPT ![ctl] = Word(first, ctl)]
  /\ vaddr' = IF vaddr[ctl] # None THEN vaddr ELSE [vaddr EXCEPT ![ctl] = ctl]
  /\ IF ctl + 1 = Ctls THEN pc' = "idle" /\ ctl' = 0
     ELSE ctl' = ctl + 1 /\ UNCHANGED pc
  /\ UNCHANGED <<chip, msiVars, pcieVars, reg, w, x19, src, masked, hist, asked>>
MapOnce == vaddr' = IF vaddr[0] # None THEN vaddr ELSE [vaddr EXCEPT ![0] = 0]
PatchMsi ==
  /\ chip = "msi" /\ Goto("patch", "idle") /\ MapOnce
  /\ UNCHANGED <<chip, paddr_first, slot, msiVars, pcieVars, ctl, reg, w, x19, src,
                 masked, hist, asked>>
PatchPcie ==
  /\ chip = "pcie" /\ Goto("patch", "idle") /\ MapOnce
  /\ UNCHANGED <<chip, paddr_first, slot, msiVars, pcieVars, ctl, reg, w, x19, src,
                 masked, hist, asked>>

-----------------------------------------------------------------------------
(* The devices and the controllers' inputs                                 *)

\* Interrupts have no bit of INTR_ENABLE0 for code 6.
Bit(v) == IF v > Cascade THEN v - 1 ELSE v

\* The bit of SM_INTR_ENABLE0 for a bit of MSG0, None if unassigned.
SmBit(b) ==
  CASE b >= 13 -> b - 5 [] b = 12 -> 13 [] b = 7 -> 12 [] b = 4 -> 11
    [] b \in 8 .. 11 -> b - 8 [] OTHER -> None

Raised(x) == /\ pc # "patch" /\ raised < MaxRaise /\ raised' = raised + 1
             /\ due' = due \cup {x} /\ seen' = seen \cup {x}
             /\ UNCHANGED <<chip, patchVars, enable, cache, afi, code, sm_enable, pc,
                            ctl, reg, w, x19, src, masked, asked>>

\* A message, an event of the PCIe controller, and a message of a port,
\* which stays until its device is served.
RaiseMsi(v) ==
  /\ chip = "qoriq" \/ (chip = "msi" /\ v \in Vec)
  /\ Raised(v) /\ status' = status \cup {v} /\ UNCHANGED <<pend, msg>>
RaisePcie(v) ==
  chip = "pcie" /\ Raised(v) /\ pend' = pend \cup {v} /\ UNCHANGED <<status, msg>>
RaiseMsg(b) ==
  chip = "pcie" /\ Raised(Message + b) /\ msg' = msg \cup {b} /\ UNCHANGED <<status, pend>>

\* INTR_CODE takes one event at a time.
Latch ==
  /\ chip = "pcie" /\ code = 0
  /\ \/ \E v \in pend : Bit(v) \in enable /\ code' = v + 1 /\ pend' = pend \ {v}
     \/ /\ \E b \in msg : SmBit(b % 16) \in sm_enable
        /\ code' = Cascade + 1 /\ UNCHANGED pend
  /\ UNCHANGED <<chip, patchVars, msiVars, afi, msg, sm_enable, pc, ctl, reg, w, x19,
                 src, masked, hist, asked>>

\* The line of a controller to the GIC.
Asserted(c) ==
  CASE chip = "msi"   -> c = 0 /\ status \cap enable # {}
    [] chip = "qoriq" -> \E v \in status : v \div Size = c
    [] chip = "pcie"  -> c = 0 /\ afi /\ code # 0

TakeIrq(c) ==
  /\ Asserted(c) /\ ctl' = c
  /\ Goto("idle", IF chip = "pcie" THEN "code" ELSE "read")
  /\ reg' = 0 /\ w' = {}
  /\ UNCHANGED <<chip, patchVars, msiVars, pcieVars, x19, src, masked, hist, asked>>

-----------------------------------------------------------------------------
(* interrupt_id_t18x_msi                                                   *)

\* The registers are read in order up to one with an enabled pending bit;
\* after the last there is nothing to report.
MsiRead ==
  LET hit == {v \in status \cap enable : v \div Width = reg} IN
  /\ chip = "msi" /\ pc = "read"
  /\ IF hit # {} THEN /\ x19' = Min(hit) /\ pc' = "mask" /\ UNCHANGED reg
     ELSE /\ reg' = reg + 1 /\ UNCHANGED x19
          /\ pc' = IF reg + 1 = Regs THEN "idle" ELSE "read"
  /\ UNCHANGED <<chip, patchVars, msiVars, pcieVars, ctl, w, src, masked, hist, asked>>

\* The vector is masked, then its status alone is cleared.
MsiMask ==
  /\ chip = "msi" /\ Goto("mask", "clear")
  /\ enable' = enable \ {x19}
  /\ UNCHANGED <<chip, patchVars, status, cache, pcieVars, ctl, reg, w, x19, src,
                 masked, hist, asked>>
MsiClear ==
  /\ chip = "msi" /\ Goto("clear", "handle")
  /\ status' = status \ {x19}
  /\ UNCHANGED <<chip, patchVars, enable, cache, pcieVars, ctl, reg, w, x19, src,
                 masked, hist, asked>>

-----------------------------------------------------------------------------
(* interrupt_id_qoriq_lsx_msi_v1 and _v2                                   *)

\* Reading a register clears it.
QoriqRead ==
  LET now == {v \in status : v \div Width = ctl * Regs + reg} IN
  /\ chip = "qoriq" /\ pc = "read"
  /\ w' = w \cup {v % Size : v \in now}
  /\ status' = status \ now
  /\ reg' = reg + 1
  /\ pc' = IF reg + 1 = Regs THEN "pick" ELSE "read"
  /\ UNCHANGED <<chip, patchVars, enable, cache, pcieVars, ctl, x19, src, masked, hist,
                 asked>>

\* Mutant: what is left of the earlier registers is overwritten.
Merged_New == w

\* What was read and what was left over are merged.
Merged == w \cup cache[slot[ctl]]

\* The first vector is reported and the others saved; the kernel calls the
\* routine again until it reports none.
QoriqPick ==
  /\ chip = "qoriq" /\ pc = "pick" /\ w' = {}
  /\ IF Merged = {} THEN pc' = "idle" /\ UNCHANGED <<cache, x19>>
     ELSE /\ x19' = ctl * Size + Min(Merged)
          /\ cache' = [cache EXCEPT ![slot[ctl]] = Merged \ {Min(Merged)}]
          /\ pc' = "handle"
  /\ UNCHANGED <<chip, patchVars, status, enable, pcieVars, ctl, reg, src, masked, hist,
                 asked>>

-----------------------------------------------------------------------------
(* interrupt_id_t18x_pcie and interrupt_id_t18x_pcie_ic6                   *)

\* The controller's line is turned off until the end of the interrupt, and
\* the interrupt masked, except for the cascade.
PcieId ==
  /\ chip = "pcie" /\ pc = "code"
  /\ afi' = FALSE
  /\ x19' = code - 1
  /\ enable' = IF code - 1 \in {None, Cascade} THEN enable
               ELSE enable \ {Bit(code - 1)}
  /\ pc' = IF code = 0 THEN "idle" ELSE IF code - 1 = Cascade THEN "ic6" ELSE "handle"
  /\ UNCHANGED <<chip, patchVars, status, cache, pend, code, msg, sm_enable, ctl, reg,
                 w, src, masked, hist, asked>>

\* The id of a message: its enable bit, and 16 more for port 1. The kernel's
\* numbers for the cascade start at 16 here, above those of the other codes.
MsgId(b) == 16 + SmBit(b % 16) + 16 * (b \div 16)

\* The lowest bit of MSG0 is taken; an unassigned bit is spurious.
Ic6Id ==
  LET b == Min(msg) IN
  /\ chip = "pcie" /\ pc = "ic6"
  /\ IF msg = {} \/ SmBit(b % 16) = None
     THEN pc' = "eoi" /\ UNCHANGED <<x19, src, sm_enable>>
     ELSE /\ x19' = MsgId(b) /\ src' = b /\ pc' = "handle"
          /\ sm_enable' = (sm_enable \ {SmBit(b % 16)}) \cap SmBits
  /\ UNCHANGED <<chip, patchVars, msiVars, afi, pend, code, msg, ctl, reg, w, masked,
                 hist, asked>>

-----------------------------------------------------------------------------
(* The kernel, eoi, mask and unmask                                        *)

IsMsg(v) == chip = "pcie" /\ v >= 16
Source == IF IsMsg(x19) THEN Message + src ELSE x19

\* The kernel runs the driver, which serves its device.
Handle ==
  /\ Goto("handle", "eoi")
  /\ due' = due \ {Source}
  /\ msg' = IF IsMsg(x19) THEN msg \ {src} ELSE msg
  /\ UNCHANGED <<chip, patchVars, msiVars, afi, pend, code, sm_enable, ctl, reg, w, x19,
                 src, masked, seen, raised, asked>>

\* interrupt_eoi_t18x_msi: unmasked if the mask count is zero.
EoiMsi ==
  /\ chip = "msi" /\ Goto("eoi", "idle") /\ x19' = None
  /\ enable' = IF x19 \in masked THEN enable ELSE enable \cup {x19}
  /\ UNCHANGED <<chip, patchVars, status, cache, pcieVars, ctl, reg, w, src, masked,
                 hist, asked>>

\* The QorIQ eoi does nothing, and the id routine is called again.
EoiQoriq ==
  /\ chip = "qoriq" /\ Goto("eoi", "read") /\ x19' = None /\ reg' = 0
  /\ UNCHANGED <<chip, patchVars, msiVars, pcieVars, ctl, w, src, masked, hist, asked>>

\* interrupt_eoi_t18x_pcie_ic6, for the id of a message.
EoiIc6(v) == IF v \in masked THEN sm_enable ELSE (sm_enable \cup {v % 16}) \cap SmBits

\* Mutant: an interrupt that was masked meanwhile leaves the line off.
EoiLine_Masked(v) == v \notin masked

\* The line is turned on again whether or not the interrupt is masked.
EoiLine(v) == TRUE

\* interrupt_eoi_t18x_pcie, after that of a cascade.
EoiPcie ==
  /\ chip = "pcie" /\ Goto("eoi", "idle") /\ x19' = None /\ src' = None
  /\ code' = 0
  /\ afi' = EoiLine(x19)
  /\ sm_enable' = IF IsMsg(x19) THEN EoiIc6(x19) ELSE sm_enable
  /\ enable' = IF IsMsg(x19) \/ x19 = Cascade \/ x19 \in masked THEN enable
               ELSE enable \cup {Bit(x19)}
  /\ UNCHANGED <<chip, patchVars, status, cache, pend, msg, ctl, reg, w, masked, hist,
                 asked>>

\* The kernel counts masks and calls the callouts when the count leaves or
\* reaches zero.
Ids == CASE chip = "pcie"  -> {c - 1 : c \in Codes} \cup {MsgId(b) : b \in Ports}
         [] chip = "msi"   -> Used \cap Vec
         [] chip = "qoriq" -> Used
Asks(v, on) == /\ pc \in {"idle", "handle"} /\ asked < MaxAsk /\ asked' = asked + 1
               /\ v \in Ids /\ on = (v \in masked)
               /\ masked' = IF on THEN masked \ {v} ELSE masked \cup {v}
               /\ UNCHANGED <<chip, patchVars, status, cache, afi, pend, code, msg, pc,
                              ctl, reg, w, x19, src, hist>>
Set(bits, b, on) == IF on THEN bits \cup {b} ELSE bits \ {b}

\* The callouts change the enable bit; the QorIQ controllers have none, and
\* the ports share those of code 6.
MaskMsi(v, on) ==
  chip = "msi" /\ Asks(v, on) /\ enable' = Set(enable, v, on) /\ UNCHANGED sm_enable
MaskQoriq(v, on) ==
  chip = "qoriq" /\ Asks(v, on) /\ UNCHANGED <<enable, sm_enable>>
MaskPcie(v, on) ==
  /\ chip = "pcie" /\ ~ IsMsg(v) /\ Asks(v, on)
  /\ enable' = IF v = Cascade THEN enable ELSE Set(enable, Bit(v), on)
  /\ UNCHANGED sm_enable
MaskIc6(v, on) ==
  /\ IsMsg(v) /\ Asks(v, on) /\ UNCHANGED enable
  /\ sm_enable' = Set(sm_enable, v % 16, on) \cap SmBits

-----------------------------------------------------------------------------
Kernel == \/ PatchQoriq \/ PatchMsi \/ PatchPcie \/ (\E c \in Ctl : TakeIrq(c))
          \/ MsiRead \/ MsiMask \/ MsiClear \/ QoriqRead \/ QoriqPick
          \/ PcieId \/ Ic6Id \/ Handle \/ EoiMsi \/ EoiQoriq \/ EoiPcie
Devices == \/ \E v \in Used : RaiseMsi(v)
           \/ \E c \in Codes : RaisePcie(c - 1)
           \/ \E b \in Ports : RaiseMsg(b)
Masking == \E v \in Used \cup 0 .. 47, on \in BOOLEAN :
             MaskMsi(v, on) \/ MaskQoriq(v, on) \/ MaskPcie(v, on) \/ MaskIc6(v, on)
Next == Kernel \/ Latch \/ Devices \/ Masking

\* A CPU that is interrupted goes on, the GIC gives every controller's line
\* its turn, and the controller codes its events.
Spec == Init /\ [][Next]_vars /\ WF_vars(Kernel) /\ WF_vars(Latch)

-----------------------------------------------------------------------------
(* Properties                                                              *)

\* A message that has come since its vector was last served is still in a
\* status register, among the bits just read, in its controller's word of
\* the callouts' storage or on its way to its driver: reading clears the
\* registers, but nothing is lost.
NoLostMsi ==
  chip # "pcie" => \A v \in due :
    \/ v \in status \/ v = x19
    \/ /\ chip = "qoriq"
       /\ \/ v \div Size = ctl /\ v % Size \in w
          \/ v % Size \in cache[slot[v \div Size]]

\* The id reported belongs to a device that has raised an interrupt: the
\* words of two controllers are not taken for each other, and for a message
\* of a port it is the id that the layouts of MSG0 and SM_INTR_ENABLE0 give
\* its bit: pins A to D, correctable, non-fatal and fatal errors, PME,
\* hotplug, root port.
Layouts == [msg0 |-> <<8, 9, 10, 11, 13, 14, 15, 4, 7, 12>>,
            sm   |-> <<0, 1, 2, 3, 8, 9, 10, 11, 12, 13>>]
SourceRight ==
  pc \in {"handle", "eoi"} /\ x19 # Cascade =>
    /\ Source \in seen
    /\ IsMsg(x19) => \E k \in 1 .. 10 : /\ src % 16 = Layouts.msg0[k]
                                        /\ x19 % 16 = Layouts.sm[k]
                                        /\ (x19 \div 16) - 1 = src \div 16

\* In the end every interrupt whose driver has not masked it is served: no
\* order of messages, reads, masks and ends leaves the controller's line off
\* or a vector disabled. Ports that share an enable bit share a mask.
Blocked(x) ==
  IF x >= Message THEN \E v \in masked : IsMsg(v) /\ v % 16 = SmBit((x - Message) % 16)
  ELSE x \in masked
Served == <>[](\A x \in due : Blocked(x))
=============================================================================
