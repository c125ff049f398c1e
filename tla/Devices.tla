------------------------------ MODULE Devices ------------------------------
(***************************************************************************)
(* Three devices that move on by themselves while the code looks at them,  *)
(* the watchdog, the MSI controllers and the UART of the console, and the  *)
(* address space section, which tells where the devices and the memory     *)
(* are, side by side. They share no state.                                 *)
(***************************************************************************)
EXTENDS Watchdog

CONSTANTS MsiChips, Ctls, Regs, MsiWidth, Used, Codes, Ports, MaxRaise, MaxAsk
VARIABLES msiChip, paddr_first, slot, vaddr, status, enable, cache, afi, pend, code, msg, sm_enable,
          msiPc, ctl, reg, w, x19, src, masked, due, seen, raised, asked
MSI == INSTANCE Msi WITH Chips <- MsiChips, Width <- MsiWidth, chip <- msiChip, pc <- msiPc

\* Vectors are those the controllers have, a code is one that the callout
\* knows but for the cascade's, and a message a bit of MSG0.
ASSUME MsiAssumption ==
  /\ MsiChips \subseteq {"msi", "qoriq", "pcie"}
  /\ Ctls \in 1 .. 4 /\ Regs \in Nat \ {0} /\ MsiWidth \in Nat \ {0}
  /\ Used \subseteq 0 .. Ctls * (Regs * MsiWidth) - 1
  /\ Codes \subseteq (1 .. 14) \ {6} /\ Ports \subseteq 0 .. 31

\* No message is lost between the status registers and its driver, and the
\* id reported is that of a device that raised it: see Msi.
MsiRight == MSI!NoLostMsi /\ MSI!SourceRight

CONSTANTS Tables, Opts, Bars, Msg, KMsg, Keys, Depth, Polls
VARIABLES table, opt, chosen, line, cfg, divisor, txq, wire, up, stops, conPc, todo, polls,
          given, late, rxq, keys, typed
CON == INSTANCE Console WITH pc <- conPc

\* A board's devices are of kinds there are drivers for, and what is typed
\* are characters and breaks.
ASSUME ConsoleAssumption ==
  /\ \A t \in Tables : Len(t) \in Nat /\ \A i \in 1 .. Len(t) : t[i].kind \in CON!Kinds
  /\ Depth \in Nat /\ Keys \in Seq(Int)

\* No character is lost on the line of the console, in either direction: see
\* Console.
LineRight == CON!LineRight

CONSTANTS MemEnd, Below4G, Banks, Areas, Requests, MaxEntries
VARIABLES asinfo, memFree, sysram_added, served, noMemory
AI == INSTANCE AsInfo WITH free <- memFree, last <- served, crashed <- noMemory

\* Addresses end at MemEnd, and ranges are not empty.
ASSUME AsInfoAssumption ==
  /\ MemEnd \in Nat /\ Below4G \in 0 .. MemEnd
  /\ \A r \in Banks \cup Areas : r[1] \in 0 .. MemEnd /\ r[2] \in r[1] .. MemEnd
  /\ \A q \in Requests :
       /\ q.start \in 0 .. MemEnd /\ q.end \in q.start .. MemEnd
       /\ q.container \in {"ram", "memory"} /\ q.overlay \in BOOLEAN

\* The address space section says where everything is: see AsInfo.
AsInfoRight == AI!AsInfoRight
=============================================================================
