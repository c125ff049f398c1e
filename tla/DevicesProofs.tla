--------------------------- MODULE DevicesProofs ---------------------------
(***************************************************************************)
(* Proofs about the devices and the address space section of Devices.      *)
(*                                                                         *)
(* The watchdog strikes only for a cause, for every timeout, boot time,    *)
(* latency and command line. ResetForCause says nothing of the time that   *)
(* is left before the watchdog strikes. Margin does: as long as there is   *)
(* no cause, what is left is more than the program may still take before   *)
(* the next kick.                                                          *)
(*                                                                         *)
(* No message of an MSI controller is lost between its registers and the   *)
(* driver, and each id reported was raised, for any number of controllers  *)
(* and registers of any width. What a read has cleared is in the register  *)
(* of the callout or in the controller's word of the callouts' storage     *)
(* (WordInv), and that word is its own (SlotInv).                          *)
(*                                                                         *)
(* No character of the console is lost on its line, for any depth of the   *)
(* transmitter: one that was ready stays so until the character is written *)
(* (OutInv), and what was typed is in one of three places (InInv).         *)
(*                                                                         *)
(* The address space section (AsInfo). Before add_sysram() a later entry   *)
(* lies in an earlier one or beside it, so that the last entry that has an *)
(* address is the innermost; as_add_containing() is followed through the   *)
(* list it cuts (PiecesOk) to the entries it makes (Serves). Afterwards    *)
(* the entries for the kernel are what is free (SysramOk). InfoInv.        *)
(***************************************************************************)
EXTENDS Devices, FiniteSets, FiniteSetTheorems, WellFoundedInduction, TLAPS

-----------------------------------------------------------------------------
(* The watchdog                                                            *)


Booting == {"main", "options", "boot", "parse", "configure"}

\* What is left covers the rest of the boot, of the delay and the latency.
Margin ==
  /\ pc # "delay" => wait = 0
  /\ ~ dead /\ on /\ pc \in Booting => slack < left
  /\ ~ dead /\ on /\ pc = "kick" /\ KicksFit => slack < left
  /\ ~ dead /\ on /\ pc = "delay" /\ KicksFit => wait + slack < left

\* Where the watchdog was to be stopped, and was not refused to be, it is.
StopInv ==
  /\ dead => on
  /\ pc \notin {"main", "options"} /\ ~ wdt_enable /\ ~ refused => ~ on

IInv == TypeOK /\ Margin /\ ResetForCause /\ StopInv

\* A remainder fits its type.
LEMMA Remainder ==
  ASSUME NEW a \in Int, NEW n \in Nat \ {0}
  PROVE  a % n \in 0 .. n - 1
BY SMT

\* An element of a sequence.
LEMMA Element ==
  ASSUME NEW S, NEW s \in Seq(S), NEW i \in 1 .. Len(s)
  PROVE  s[i] \in S
BY SMT

\* The watchdog starts with more than startup may take.
LEMMA InitIInv == Init => IInv
<1> SUFFICES ASSUME Init PROVE IInv
  OBVIOUS
<1> USE TimeAssumption, BootAssumption, OptionAssumption DEF Init
<1>1. Len(argv) \in Nat
  BY SMT
<1>2. TypeOK
  <2>1. optind \in 1 .. Len(argv) + 1 /\ smc_id \in Int /\ kick_time \in Int
    BY <1>1, SMT DEF NoTime
  <2>2. left \in 0 .. Timeout /\ left # 0 /\ wait \in 0 .. Width - 1 /\ slack \in Nat
    BY SMT
  <2> QED
    BY <2>1, <2>2, Zenon DEF TypeOK
<1>3. Margin
  BY SMT DEF Margin, Booting
<1>4. ResetForCause /\ StopInv
  BY Zenon DEF ResetForCause, StopInv
<1> QED
  BY <1>2, <1>3, <1>4 DEF IInv

\* Types are kept by every step.
LEMMA TypeStep == TypeOK /\ Margin /\ [Next]_vars => TypeOK'
<1> SUFFICES ASSUME TypeOK, Margin, [Next]_vars PROVE TypeOK'
  OBVIOUS
<1> USE TimeAssumption DEF TypeOK, Goto, cmd, wdi, timer
<1>1. CASE WdtReset
  BY <1>1, SMT DEF WdtReset, Pet
<1>2. CASE WdtStop
  <2>1. on' \in BOOLEAN /\ refused' \in BOOLEAN
    BY <1>2, Zenon DEF WdtStop
  <2>2. pc' = "boot" /\ UNCHANGED <<cmd, optind, wdi, left, dead, wait, slack>>
    BY <1>2, Zenon DEF WdtStop
  <2> QED
    BY <2>1, <2>2, SMT
<1>3. CASE Boot
  BY <1>3, SMT DEF Boot
<1>4. CASE ParseOption
  <2>0. argv \in Seq([opt : {"i", "t", "v"}, val : Int, erange : BOOLEAN])
    BY OptionAssumption
  <2>1. argv[optind] \in [opt : {"i", "t", "v"}, val : Int, erange : BOOLEAN]
    <3>1. optind \in 1 .. Len(argv)
      BY <1>4, <2>0, SMT DEF ParseOption
    <3> QED
      BY <2>0, <3>1, Element
  <2>3. smc_id' \in Int /\ kick_time' \in Int
    BY <1>4, <2>1, Zenon DEF ParseOption
  <2>5. optind' \in 1 .. Len(argv) + 1
    BY <1>4, <2>0, SMT DEF ParseOption
  <2>4. pc' = "parse" /\ UNCHANGED <<cmd, timer, wait, slack>>
    BY <1>4, Zenon DEF ParseOption
  <2> QED
    BY <2>3, <2>4, <2>5, SMT
<1>5. CASE EvaluateParams
  BY <1>5, SMT DEF EvaluateParams
<1>6. CASE ConfigureThread
  BY <1>6, SMT DEF ConfigureThread
<1>7. CASE Kick
  <2>1. kick_time % Width \in 0 .. Width - 1
    BY Remainder
  <2> QED
    BY <1>7, <2>1, SMT DEF Kick, Pet
<1>8. CASE Woken
  BY <1>8, SMT DEF Woken
<1>9. CASE Tick
  <2>1. left' \in 0 .. Timeout /\ dead' = (left' = 0)
    BY <1>9, SMT DEF Tick
  <2>2. wait' \in 0 .. Width - 1 /\ slack' \in Nat
    BY <1>9, SMT DEF Tick
  <2> QED
    BY <1>9, <2>1, <2>2, SMT DEF Tick
<1>10. CASE UNCHANGED vars
  BY <1>10, SMT DEF vars
<1> QED
  BY <1>1, <1>2, <1>3, <1>4, <1>5, <1>6, <1>7, <1>8, <1>9, <1>10 DEF Next

\* A step takes no more of the margin than the time that passes.
LEMMA MarginStep == IInv /\ [Next]_vars => Margin'
<1> SUFFICES ASSUME IInv, [Next]_vars PROVE Margin'
  OBVIOUS
<1> USE TimeAssumption, BootAssumption
    DEF IInv, TypeOK, Margin, Booting, KicksFit, Goto, cmd, wdi, timer
<1>1. CASE WdtReset
  BY <1>1, SMT DEF WdtReset, Pet
<1>2. CASE WdtStop
  <2>1. on' => on
    BY <1>2, Zenon DEF WdtStop
  <2>2. ~ dead /\ pc = "options" /\ pc' = "boot" /\ UNCHANGED <<dead, left, wait, slack>>
    BY <1>2, Zenon DEF WdtStop
  <2> QED
    BY <2>1, <2>2, Zenon
<1>3. CASE Boot
  BY <1>3, SMT DEF Boot
<1>4. CASE ParseOption
  BY <1>4, SMT DEF ParseOption
<1>5. CASE EvaluateParams
  BY <1>5, SMT DEF EvaluateParams
<1>6. CASE ConfigureThread
  BY <1>6, SMT DEF ConfigureThread
<1>7. CASE Kick
  <2>1. kick_time % Width \in 0 .. Width - 1
    BY Remainder
  <2> QED
    BY <1>7, <2>1, SMT DEF Kick, Pet
<1>8. CASE Woken
  BY <1>8, SMT DEF Woken
<1>9. CASE Tick
  BY <1>9, SMT DEF Tick
<1>10. CASE UNCHANGED vars
  BY <1>10, SMT DEF vars
<1> QED
  BY <1>1, <1>2, <1>3, <1>4, <1>5, <1>6, <1>7, <1>8, <1>9, <1>10 DEF Next

\* Only time makes the watchdog strike, and only where the margin is gone.
LEMMA CauseStep == IInv /\ [Next]_vars => ResetForCause'
<1> SUFFICES ASSUME IInv, [Next]_vars PROVE ResetForCause'
  OBVIOUS
<1> USE DEF IInv, TypeOK, ResetForCause, KicksFit, Goto, cmd, wdi, timer
<1>1. CASE Tick
  BY <1>1, TimeAssumption, SMT DEF Tick, Margin, Booting
<1>2. CASE UNCHANGED vars
  BY <1>2, SMT DEF vars
<1>3. CASE Next /\ ~ Tick
  <2>1. ~ dead'
    BY <1>3, Zenon DEF Next, WdtReset, WdtStop, Boot, ParseOption, EvaluateParams,
       ConfigureThread, Kick, Woken
  <2> QED
    BY <2>1
<1> QED
  BY <1>1, <1>2, <1>3

\* The watchdog is switched by nothing but startup's call.
LEMMA StopStep == IInv /\ [Next]_vars => StopInv'
<1> SUFFICES ASSUME IInv, [Next]_vars PROVE StopInv'
  OBVIOUS
<1> USE DEF IInv, TypeOK, StopInv, Goto, cmd, wdi, timer
<1>1. CASE WdtStop
  <2>1. ~ dead'
    BY <1>1, Zenon DEF WdtStop
  <2>2. wdt_enable' \/ (on' => refused')
    BY <1>1, Zenon DEF WdtStop
  <2> QED
    BY <2>1, <2>2, Zenon
<1>2. CASE Tick
  BY <1>2, SMT DEF Tick
<1>3. CASE WdtReset \/ Boot \/ ParseOption \/ EvaluateParams \/ ConfigureThread \/ Kick \/ Woken
  BY <1>3, SMT DEF WdtReset, Boot, ParseOption, EvaluateParams, ConfigureThread,
     Kick, Woken
<1>4. CASE UNCHANGED vars
  BY <1>4, SMT DEF vars
<1> QED
  BY <1>1, <1>2, <1>3, <1>4 DEF Next

\* The inductive invariant of startup, wdtkick and the watchdog.
THEOREM Invariance == Spec => []IInv
<1>1. IInv /\ [Next]_vars => IInv'
  BY TypeStep, MarginStep, CauseStep, StopStep DEF IInv
<1> QED
  BY InitIInv, <1>1, PTL DEF Spec

\* Type correctness.
THEOREM TypeCorrect == Spec => []TypeOK
<1>1. IInv => TypeOK
  BY DEF IInv
<1> QED
  BY Invariance, <1>1, PTL

\* The watchdog resets the board only when wdtkick has ended or was told a
\* wrong id or a period that does not fit: for every timeout that exceeds
\* the boot times.
THEOREM OnlyForCause == Spec => []ResetForCause
<1>1. IInv => ResetForCause
  BY DEF IInv
<1> QED
  BY Invariance, <1>1, PTL

\* Without -W the board is not reset unless the firmware refused the stop.
THEOREM StaysStopped == Spec => []StoppedWithoutW
<1>1. IInv => StoppedWithoutW
  BY SMT DEF IInv, StoppedWithoutW, StopInv, ResetForCause
<1> QED
  BY Invariance, <1>1, PTL

-----------------------------------------------------------------------------
(* The MSI controllers                                                     *)


\* The least element of a set of numbers.
LEMMA LeastIn ==
  ASSUME NEW S \in SUBSET Nat, S # {}
  PROVE  MSI!Min(S) \in S
<1>1. PICK x \in S : \A y \in S : ~ (<<y, x>> \in OpToRel(<, Nat))
  <2>1. S \subseteq Nat
    OBVIOUS
  <2> QED BY <2>1, WFMin, NatLessThanWellFounded
<1>2. ASSUME NEW y \in S PROVE x <= y
  <2>1. ~ (y < x)
    BY <1>1 DEF OpToRel
  <2> QED BY <2>1
<1> QED BY <1>2 DEF MSI!Min

\* A vector is told by its controller and its place there.
LEMMA VectorIs ==
  ASSUME NEW v \in Nat
  PROVE  /\ v \div MSI!Size \in Nat /\ v % MSI!Size \in 0 .. MSI!Size - 1
         /\ v = (v \div MSI!Size) * MSI!Size + (v % MSI!Size)
         /\ MSI!Size \in Nat \ {0}
<1>1. MSI!Size \in Nat \ {0}
  BY MsiAssumption, SMT DEF MSI!Size
<1>2. \A z \in Nat \ {0} : v \div z \in Nat /\ v % z \in 0 .. z - 1 /\ v = (v \div z) * z + (v % z)
  BY SMT
<1> QED BY <1>1, <1>2

\* The registers of a controller hold its vectors.
LEMMA RegisterIs ==
  ASSUME NEW v \in Nat, NEW c \in Nat, NEW r \in 0 .. Regs - 1, v \div MsiWidth = c * Regs + r
  PROVE  v \div MSI!Size = c
<1> DEFINE q == v \div MsiWidth
           e == v % MsiWidth
<1>1. MsiWidth \in Nat \ {0} /\ Regs \in Nat \ {0}
  BY MsiAssumption
<1>2. q \in Nat /\ e \in 0 .. MsiWidth - 1 /\ v = q * MsiWidth + e
  BY <1>1, SMT
<1>3. q = c * Regs + r
  OBVIOUS
<1> HIDE DEF q, e
<1> DEFINE d == r * MsiWidth + e
<1>4. d \in Nat
  BY <1>1, <1>2, SMT
<1>5. d < Regs * MsiWidth
  <2>1. (Regs - 1 - r) * MsiWidth >= 0
    BY <1>1, SMT
  <2>2. (Regs - 1 - r) * MsiWidth = Regs * MsiWidth - MsiWidth - r * MsiWidth
    BY <1>1, SMT
  <2> QED BY <2>1, <2>2, <1>1, <1>2, SMT
<1>6. v = c * (Regs * MsiWidth) + d
  BY <1>1, <1>2, <1>3, SMT
<1> HIDE DEF d
<1>7. \A z \in Nat \ {0} : v = c * z + d /\ d < z => v \div z = c
  BY <1>4, SMT
<1>8. Regs * MsiWidth \in Nat \ {0}
  BY <1>1, SMT
<1> QED BY <1>5, <1>6, <1>7, <1>8 DEF MSI!Size

\* Vectors of the registers and of the history.
Vectors == status \subseteq Used /\ status \subseteq seen /\ due \subseteq Used

\* T18x: a vector in hand is cleared only when it is on its way to its driver.
MsiInv ==
  /\ msiPc \in {"patch", "idle", "read", "mask", "clear", "handle", "eoi"}
  /\ Vectors
  /\ msiPc \in {"mask", "clear", "handle", "eoi"} => x19 \in seen
  /\ \A v \in due : v \in status \/ (msiPc = "handle" /\ v = x19)

\* QorIQ: each controller has a word of its own, and what was read is in the
\* register of the callout or in that word.
SlotInv ==
  /\ ctl \in MSI!Ctl /\ slot \in [MSI!Ctl -> Int]
  /\ msiPc = "patch" => /\ due = {} /\ paddr_first = IF ctl = 0 THEN MSI!None ELSE MSI!Page(0)
                        /\ \A c \in 0 .. ctl - 1 : slot[c] = c
  /\ msiPc # "patch" => slot = [c \in MSI!Ctl |-> c]
WordInv ==
  /\ cache \in [0 .. 3 -> SUBSET (0 .. MSI!Size - 1)] /\ w \subseteq 0 .. MSI!Size - 1
  /\ msiPc \notin {"read", "pick"} => w = {}
  /\ msiPc = "read" => reg \in 0 .. Regs - 1
  /\ \A u \in w : ctl * MSI!Size + u \in seen
  /\ \A c \in MSI!Ctl : \A u \in cache[c] : c * MSI!Size + u \in seen
  /\ msiPc \in {"handle", "eoi"} => x19 \in seen
QoriqInv ==
  /\ msiPc \in {"patch", "idle", "read", "pick", "handle", "eoi"}
  /\ Vectors /\ SlotInv /\ WordInv
  /\ \A v \in due :
       \/ v \in status
       \/ msiPc = "handle" /\ v = x19
       \/ v \div MSI!Size = ctl /\ v % MSI!Size \in w
       \/ v % MSI!Size \in cache[v \div MSI!Size]

\* PCIe: the codes and messages in the registers were raised, and so was the
\* one in hand.
PcieInv ==
  /\ msiPc \in {"patch", "idle", "code", "ic6", "handle", "eoi"}
  /\ pend \subseteq 0 .. 13 /\ pend \subseteq seen
  /\ code \in 0 .. 14 /\ (code \notin {0, 6} => code - 1 \in seen)
  /\ msg \subseteq 0 .. 31 /\ \A b \in msg : MSI!Message + b \in seen
  /\ msiPc = "ic6" => x19 = MSI!Cascade
  /\ msiPc \in {"handle", "eoi"} /\ x19 # MSI!Cascade =>
       \/ x19 \in 0 .. 15 /\ x19 \in seen
       \/ /\ src \in 0 .. 31 /\ MSI!Message + src \in seen
          /\ MSI!SmBit(src % 16) # MSI!None /\ x19 = MSI!MsgId(src)

\* The inductive invariant, for each kind of controller.
MInv ==
  /\ msiChip \in {"msi", "qoriq", "pcie"}
  /\ msiChip = "msi" => MsiInv
  /\ msiChip = "qoriq" => QoriqInv
  /\ msiChip = "pcie" => PcieInv

\* The kernel has read nothing when the callouts are patched.
LEMMA InitMInv == MSI!Init => MInv
<1> SUFFICES ASSUME MSI!Init PROVE MInv
  OBVIOUS
<1> USE MsiAssumption DEF MSI!Init
<1>1. msiChip \in {"msi", "qoriq", "pcie"} /\ msiPc = "patch"
  OBVIOUS
<1>2. Vectors /\ due = {}
  BY Zenon DEF Vectors
<1>3. MsiInv
  BY <1>1, <1>2, Zenon DEF MsiInv
<1>4. SlotInv
  <2>1. 0 \in MSI!Ctl
    BY SMT DEF MSI!Ctl
  <2>2. MSI!None \in Int
    BY DEF MSI!None
  <2> QED BY <1>1, <1>2, <2>1, <2>2, SMT DEF SlotInv
<1>5. WordInv
  <2>1. MSI!Ctl \subseteq 0 .. 3
    BY SMT DEF MSI!Ctl
  <2> QED BY <1>1, <2>1, SMT DEF WordInv
<1>6. QoriqInv
  BY <1>1, <1>2, <1>4, <1>5, Zenon DEF QoriqInv
<1>7. PcieInv
  BY <1>1, SMT DEF PcieInv
<1> QED BY <1>1, <1>3, <1>6, <1>7 DEF MInv

\* A vector that is cleared is in hand (callout_interrupt_t18x_msi.S).
LEMMA MsiStep ==
  ASSUME msiChip = "msi", MsiInv, MSI!Next
  PROVE  msiChip' = "msi" /\ MsiInv'
<1> USE DEF MSI!Goto, MSI!patchVars, MSI!msiVars, MSI!pcieVars, MSI!hist
<1>0. Used \subseteq Nat
  BY MsiAssumption, SMT
<1>1. CASE MSI!PatchMsi
  BY <1>1, Zenon DEF MSI!PatchMsi, MsiInv, Vectors
<1>2. CASE \E c \in MSI!Ctl : MSI!TakeIrq(c)
  BY <1>2, Zenon DEF MSI!TakeIrq, MsiInv, Vectors
<1>3. CASE MSI!MsiRead
  <2> DEFINE hit == {v \in status \cap enable : v \div MsiWidth = reg}
  <2>1. hit # {} => MSI!Min(hit) \in status
    <3>1. hit \in SUBSET Nat
      BY <1>0, Zenon DEF MsiInv, Vectors
    <3> QED BY <3>1, LeastIn, Zenon
  <2>2. \/ hit # {} /\ x19' = MSI!Min(hit) /\ msiPc' = "mask"
        \/ msiPc' \in {"idle", "read"}
    BY <1>3, Zenon DEF MSI!MsiRead
  <2>3. msiPc = "read" /\ UNCHANGED <<msiChip, status, due, seen>>
    BY <1>3, Zenon DEF MSI!MsiRead
  <2> QED BY <2>1, <2>2, <2>3, Zenon DEF MsiInv, Vectors
<1>4. CASE MSI!MsiMask
  BY <1>4, Zenon DEF MSI!MsiMask, MsiInv, Vectors
<1>5. CASE MSI!MsiClear
  BY <1>5, Zenon DEF MSI!MsiClear, MsiInv, Vectors
<1>6. CASE MSI!Handle
  <2>1. MSI!Source = x19
    BY Zenon DEF MSI!Source, MSI!IsMsg
  <2> QED BY <1>6, <2>1, Zenon DEF MSI!Handle, MsiInv, Vectors
<1>7. CASE MSI!EoiMsi
  BY <1>7, Zenon DEF MSI!EoiMsi, MsiInv, Vectors
<1>8. CASE \E v \in Used : MSI!RaiseMsi(v)
  BY <1>8, Zenon DEF MSI!RaiseMsi, MSI!Raised, MsiInv, Vectors
<1>9. CASE MSI!Masking
  <2>1. msiPc' = msiPc /\ UNCHANGED <<msiChip, status, due, seen, x19>>
    BY <1>9, ZenonT(40) DEF MSI!Masking, MSI!MaskMsi, MSI!MaskQoriq, MSI!MaskPcie,
       MSI!MaskIc6, MSI!Asks
  <2> QED BY <2>1, Zenon DEF MsiInv, Vectors
<1>10. ~ (MSI!PatchQoriq \/ MSI!PatchPcie \/ MSI!QoriqRead \/ MSI!QoriqPick \/ MSI!PcieId \/ MSI!Ic6Id
          \/ MSI!EoiQoriq \/ MSI!EoiPcie \/ MSI!Latch)
  BY Zenon DEF MSI!PatchQoriq, MSI!PatchPcie, MSI!QoriqRead, MSI!QoriqPick, MSI!PcieId, MSI!Ic6Id,
     MSI!EoiQoriq, MSI!EoiPcie, MSI!Latch
<1>11. ~ ((\E c \in Codes : MSI!RaisePcie(c - 1)) \/ (\E b \in Ports : MSI!RaiseMsg(b)))
  BY Zenon DEF MSI!RaisePcie, MSI!RaiseMsg
<1> QED BY <1>1, <1>2, <1>3, <1>4, <1>5, <1>6, <1>7, <1>8, <1>9, <1>10, <1>11, Zenon
       DEF MSI!Next, MSI!Kernel, MSI!Devices

\* A controller's place in the storage is its own.
LEMMA ControllerOf ==
  ASSUME NEW v \in Used
  PROVE  v \in Nat /\ v \div MSI!Size \in MSI!Ctl /\ v % MSI!Size \in 0 .. MSI!Size - 1
         /\ v = (v \div MSI!Size) * MSI!Size + (v % MSI!Size)
<1>1. v \in 0 .. Ctls * MSI!Size - 1 /\ Ctls \in 1 .. 4
  BY MsiAssumption DEF MSI!Size
<1>2. v \in Nat
  BY <1>1, SMT
<1> DEFINE c == v \div MSI!Size
           u == v % MSI!Size
           z == MSI!Size
<1>3. c \in Nat /\ u \in 0 .. z - 1 /\ v = c * z + u /\ z \in Nat \ {0}
  BY <1>2, VectorIs
<1>4. v \in 0 .. Ctls * z - 1
  BY <1>1
<1> HIDE DEF c, u, z
<1>5. c < Ctls
  <2> SUFFICES ASSUME c >= Ctls PROVE FALSE
    BY <1>1, <1>3, SMT
  <2>1. c * z >= Ctls * z
    <3>1. (c - Ctls) * z >= 0
      BY <1>1, <1>3, SMT
    <3>2. (c - Ctls) * z = c * z - Ctls * z
      BY <1>1, <1>3, SMT
    <3>3. c * z \in Int /\ Ctls * z \in Int
      BY <1>1, <1>3, SMT
    <3> QED BY <3>1, <3>2, <3>3, SMT
  <2>2. c * z \in Int /\ Ctls * z \in Int
    BY <1>1, <1>3, SMT
  <2> QED BY <1>3, <1>4, <2>1, <2>2, SMT
<1>6. c \in MSI!Ctl
  BY <1>1, <1>3, <1>5, SMT DEF MSI!Ctl
<1> QED BY <1>2, <1>3, <1>6 DEF c, u, z

\* The controllers' words lie one behind the other from the first.
LEMMA PatchQoriqStep ==
  ASSUME msiChip = "qoriq", QoriqInv, MSI!PatchQoriq
  PROVE  QoriqInv'
<1> USE DEF MSI!patchVars, MSI!msiVars, MSI!pcieVars, MSI!hist, QoriqInv
<1>1. msiPc = "patch" /\ UNCHANGED <<msiChip, status, cache, w, x19, reg, due, seen>>
  BY Zenon DEF MSI!PatchQoriq
<1>2. msiPc' \in {"patch", "idle"}
  BY <1>1, Zenon DEF MSI!PatchQoriq
<1>3. Ctls \in 1 .. 4
  BY MsiAssumption
<1>4. SlotInv'
  <2> DEFINE first == IF paddr_first = MSI!None THEN MSI!Page(ctl) ELSE paddr_first
  <2>1. ctl \in 0 .. Ctls - 1 /\ slot \in [MSI!Ctl -> Int] /\ due = {}
        /\ paddr_first = (IF ctl = 0 THEN MSI!None ELSE MSI!Page(0))
        /\ \A c \in 0 .. ctl - 1 : slot[c] = c
    BY <1>1, Zenon DEF SlotInv, MSI!Ctl
  <2>2. first = MSI!Page(0)
    BY <2>1, SMT DEF MSI!Page, MSI!None
  <2>3. slot' = [slot EXCEPT ![ctl] = ctl] /\ paddr_first' = MSI!Page(0)
    <3>1. paddr_first' = first /\ slot' = [slot EXCEPT ![ctl] = MSI!Word(first, ctl)]
      BY Zenon DEF MSI!PatchQoriq
    <3>2. MSI!Word(MSI!Page(0), ctl) = ctl
      BY <2>1, SMT DEF MSI!Word, MSI!Page
    <3> QED BY <2>2, <3>1, <3>2
  <2>4. \A c \in 0 .. ctl : slot'[c] = c
    BY <2>1, <2>3, <1>3, SMT DEF MSI!Ctl
  <2>5. slot' \in [MSI!Ctl -> Int]
    BY <2>1, <2>3, <1>3, SMT DEF MSI!Ctl
  <2>6. CASE ctl + 1 = Ctls
    <3>1. msiPc' = "idle" /\ ctl' = 0
      BY <2>6, Zenon DEF MSI!PatchQoriq
    <3>2. slot' = [c \in MSI!Ctl |-> c]
      BY <2>1, <2>4, <2>5, <2>6, <1>3, SMT DEF MSI!Ctl
    <3>3. ctl' \in MSI!Ctl
      BY <3>1, <1>3, SMT DEF MSI!Ctl
    <3> QED BY <2>5, <3>1, <3>2, <3>3, Zenon DEF SlotInv
  <2>7. CASE ctl + 1 # Ctls
    <3>1. msiPc' = "patch" /\ ctl' = ctl + 1
      BY <1>1, <2>7, Zenon DEF MSI!PatchQoriq
    <3>2. ctl' \in MSI!Ctl /\ ctl' # 0 /\ 0 .. ctl' - 1 = 0 .. ctl
      BY <2>1, <2>7, <3>1, <1>3, SMT DEF MSI!Ctl
    <3> QED BY <1>1, <2>1, <2>3, <2>4, <2>5, <3>1, <3>2, Zenon DEF SlotInv
  <2> QED BY <2>6, <2>7
<1>5. due = {} /\ w = {}
  BY <1>1, Zenon DEF SlotInv, WordInv
<1>6. WordInv'
  BY <1>1, <1>2, <1>5, Zenon DEF WordInv
<1>7. Vectors'
  BY <1>1, Zenon DEF Vectors
<1> QED BY <1>1, <1>2, <1>4, <1>5, <1>6, <1>7, Zenon

\* What a read clears is in the callout's register.
LEMMA QoriqReadStep ==
  ASSUME msiChip = "qoriq", QoriqInv, MSI!QoriqRead
  PROVE  QoriqInv'
<1> USE DEF MSI!patchVars, MSI!msiVars, MSI!pcieVars, MSI!hist, QoriqInv
<1> DEFINE now == {v \in status : v \div MsiWidth = ctl * Regs + reg}
<1>1. msiPc = "read" /\ UNCHANGED <<msiChip, slot, paddr_first, cache, ctl, x19, due, seen>>
      /\ w' = w \cup {v % MSI!Size : v \in now} /\ status' = status \ now /\ reg' = reg + 1
      /\ msiPc' = IF reg + 1 = Regs THEN "pick" ELSE "read"
  BY Zenon DEF MSI!QoriqRead
<1>2. ctl \in MSI!Ctl /\ ctl \in Nat /\ reg \in 0 .. Regs - 1 /\ status \subseteq Used
      /\ status \subseteq seen
  BY <1>1, SMT DEF SlotInv, WordInv, Vectors, MSI!Ctl
<1>3. ASSUME NEW v \in now
      PROVE  v \div MSI!Size = ctl /\ v % MSI!Size \in 0 .. MSI!Size - 1
             /\ ctl * MSI!Size + (v % MSI!Size) = v /\ v \in seen
  <2>1. v \in Used /\ v \in seen /\ v \div MsiWidth = ctl * Regs + reg
    BY <1>2
  <2>2. v \in Nat /\ v % MSI!Size \in 0 .. MSI!Size - 1 /\ v = (v \div MSI!Size) * MSI!Size + (v % MSI!Size)
    BY <2>1, ControllerOf
  <2>3. v \div MSI!Size = ctl
    BY <1>2, <2>1, <2>2, RegisterIs
  <2> QED BY <2>1, <2>2, <2>3
<1> HIDE DEF now
<1>4. Vectors'
  BY <1>1, Zenon DEF Vectors
<1>5. SlotInv'
  BY <1>1, Zenon DEF SlotInv
<1>6. WordInv'
  <2>1. w' \subseteq 0 .. MSI!Size - 1
    BY <1>1, <1>3, Zenon DEF WordInv
  <2>2. \A u \in w' : ctl * MSI!Size + u \in seen
    BY <1>1, <1>3, Zenon DEF WordInv
  <2>3. msiPc' = "read" => reg' \in 0 .. Regs - 1
    <3>1. Regs \in Nat \ {0}
      BY MsiAssumption
    <3> QED BY <1>1, <1>2, <3>1, SMT
  <2>4. msiPc' \in {"read", "pick"}
    BY <1>1
  <2> QED BY <1>1, <2>1, <2>2, <2>3, <2>4, Zenon DEF WordInv
<1>7. ASSUME NEW v \in due
      PROVE  \/ v \in status'
             \/ v \div MSI!Size = ctl /\ v % MSI!Size \in w'
             \/ v % MSI!Size \in cache[v \div MSI!Size]
  <2>1. CASE v \in now
    BY <1>1, <1>3, <2>1
  <2>2. CASE v \notin now
    BY <1>1, <2>2, Zenon
  <2> QED BY <2>1, <2>2
<1> QED BY <1>1, <1>4, <1>5, <1>6, <1>7, Zenon

\* One of the bits is reported, the others are kept.
LEMMA QoriqPickStep ==
  ASSUME msiChip = "qoriq", QoriqInv, MSI!QoriqPick
  PROVE  QoriqInv'
<1> USE DEF MSI!patchVars, MSI!msiVars, MSI!pcieVars, MSI!hist, QoriqInv
<1>1. msiPc = "pick" /\ w' = {} /\ UNCHANGED <<msiChip, slot, paddr_first, status, ctl, due, seen>>
  BY Zenon DEF MSI!QoriqPick
<1>2. ctl \in MSI!Ctl /\ slot[ctl] = ctl /\ ctl \in 0 .. 3
  <2>1. ctl \in MSI!Ctl /\ slot = [c \in MSI!Ctl |-> c]
    BY <1>1, Zenon DEF SlotInv
  <2> QED BY <2>1, MsiAssumption, SMT DEF MSI!Ctl
<1> DEFINE all == MSI!Merged
<1>3. all = w \cup cache[ctl]
  BY <1>2, Zenon DEF MSI!Merged
<1>4. all \subseteq 0 .. MSI!Size - 1 /\ \A u \in all : ctl * MSI!Size + u \in seen
  BY <1>2, <1>3, Zenon DEF WordInv
<1>5. Vectors'
  BY <1>1, Zenon DEF Vectors
<1>6. SlotInv'
  <2>1. msiPc' # "patch"
    BY <1>1, Zenon DEF MSI!QoriqPick
  <2> QED BY <1>1, <2>1, Zenon DEF SlotInv
<1>7. cache \in [0 .. 3 -> SUBSET (0 .. MSI!Size - 1)] /\ MSI!Ctl \subseteq 0 .. 3
  BY MsiAssumption, SMT DEF WordInv, MSI!Ctl
<1>8. CASE all = {}
  <2>1. msiPc' = "idle" /\ UNCHANGED <<cache, x19>>
    BY <1>8, Zenon DEF MSI!QoriqPick
  <2>2. w = {}
    BY <1>3, <1>8
  <2>3. WordInv'
    BY <1>1, <2>1, <2>2, Zenon DEF WordInv
  <2> QED BY <1>1, <1>5, <1>6, <2>1, <2>2, <2>3, Zenon
<1>9. CASE all # {}
  <2> DEFINE min == MSI!Min(all)
  <2>1. msiPc' = "handle" /\ x19' = ctl * MSI!Size + min
        /\ cache' = [cache EXCEPT ![ctl] = all \ {min}]
    BY <1>2, <1>9, Zenon DEF MSI!QoriqPick
  <2>2. min \in all
    <3>1. all \in SUBSET Nat
      BY <1>4, SMT
    <3> QED BY <1>9, <3>1, LeastIn, Zenon
  <2> HIDE DEF all, min
  <2>3. cache'[ctl] = all \ {min} /\ \A c \in 0 .. 3 : c # ctl => cache'[c] = cache[c]
    BY <1>2, <1>7, <2>1, Zenon
  <2>4. WordInv'
    <3>1. cache' \in [0 .. 3 -> SUBSET (0 .. MSI!Size - 1)]
      BY <1>2, <1>4, <1>7, <2>1, <2>3, Zenon
    <3>2. x19' \in seen
      BY <1>4, <2>1, <2>2
    <3>3. \A c \in MSI!Ctl : \A u \in cache'[c] : c * MSI!Size + u \in seen
      BY <1>4, <1>7, <2>3, Zenon DEF WordInv
    <3> QED BY <1>1, <2>1, <3>1, <3>2, <3>3, Zenon DEF WordInv
  <2>5. ASSUME NEW v \in due
        PROVE  v \in status \/ v = x19' \/ v % MSI!Size \in cache'[v \div MSI!Size]
    <3>1. v \in Used
      BY Zenon DEF Vectors
    <3>2. v \div MSI!Size \in 0 .. 3 /\ v = (v \div MSI!Size) * MSI!Size + (v % MSI!Size)
      BY <1>7, <3>1, ControllerOf
    <3>3. CASE v \div MSI!Size = ctl /\ v % MSI!Size \in all
      <4>1. CASE v % MSI!Size = min
        BY <2>1, <3>2, <3>3, <4>1
      <4>2. CASE v % MSI!Size # min
        BY <2>3, <3>3, <4>2
      <4> QED BY <4>1, <4>2
    <3>4. CASE v \div MSI!Size # ctl /\ v % MSI!Size \in cache[v \div MSI!Size]
      BY <2>3, <3>2, <3>4
    <3> QED BY <1>1, <1>3, <3>3, <3>4, Zenon
  <2> QED BY <1>1, <1>5, <1>6, <2>1, <2>4, <2>5, Zenon
<1> QED BY <1>8, <1>9

\* The steps of the QorIQ controllers and of their devices.
LEMMA QoriqStep ==
  ASSUME msiChip = "qoriq", QoriqInv, MSI!Next
  PROVE  msiChip' = "qoriq" /\ QoriqInv'
<1> USE DEF MSI!Goto, MSI!patchVars, MSI!msiVars, MSI!pcieVars, MSI!hist
<1>1. CASE MSI!PatchQoriq
  BY <1>1, PatchQoriqStep DEF MSI!PatchQoriq
<1>2. CASE \E c \in MSI!Ctl : MSI!TakeIrq(c)
  <2>1. PICK c \in MSI!Ctl : MSI!TakeIrq(c)
    BY <1>2
  <2>2. msiPc = "idle" /\ msiPc' = "read" /\ ctl' = c /\ reg' = 0 /\ w' = {}
        /\ UNCHANGED <<msiChip, slot, paddr_first, status, cache, x19, due, seen>>
    BY <2>1, Zenon DEF MSI!TakeIrq
  <2>3. w = {}
    BY <2>2, Zenon DEF QoriqInv, WordInv
  <2>4. 0 \in 0 .. Regs - 1
    BY MsiAssumption, SMT
  <2>5. SlotInv' /\ Vectors'
    BY <2>2, Zenon DEF QoriqInv, SlotInv, Vectors
  <2>6. WordInv'
    BY <2>2, <2>4, Zenon DEF QoriqInv, WordInv
  <2> QED BY <2>2, <2>3, <2>5, <2>6, Zenon DEF QoriqInv
<1>3. CASE MSI!QoriqRead
  BY <1>3, QoriqReadStep DEF MSI!QoriqRead
<1>4. CASE MSI!QoriqPick
  BY <1>4, QoriqPickStep DEF MSI!QoriqPick
<1>5. CASE MSI!Handle
  <2>1. MSI!Source = x19
    BY Zenon DEF MSI!Source, MSI!IsMsg
  <2>2. msiPc = "handle" /\ msiPc' = "eoi" /\ due' = due \ {x19}
        /\ UNCHANGED <<msiChip, slot, paddr_first, status, cache, ctl, reg, w, x19, seen>>
    BY <1>5, <2>1, Zenon DEF MSI!Handle
  <2>3. SlotInv' /\ Vectors' /\ WordInv'
    BY <2>2, Zenon DEF QoriqInv, SlotInv, Vectors, WordInv
  <2> QED BY <2>2, <2>3, Zenon DEF QoriqInv
<1>6. CASE MSI!EoiQoriq
  <2>1. msiPc = "eoi" /\ msiPc' = "read" /\ reg' = 0
        /\ UNCHANGED <<msiChip, slot, paddr_first, status, cache, ctl, w, due, seen>>
    BY <1>6, Zenon DEF MSI!EoiQoriq
  <2>2. 0 \in 0 .. Regs - 1
    BY MsiAssumption, SMT
  <2>3. SlotInv' /\ Vectors'
    BY <2>1, Zenon DEF QoriqInv, SlotInv, Vectors
  <2>4. WordInv'
    BY <2>1, <2>2, Zenon DEF QoriqInv, WordInv
  <2> QED BY <2>1, <2>3, <2>4, Zenon DEF QoriqInv
<1>7. CASE \E v \in Used : MSI!RaiseMsi(v)
  <2>1. PICK v \in Used : MSI!RaiseMsi(v)
    BY <1>7
  <2>2. msiPc # "patch" /\ due' = due \cup {v} /\ seen' = seen \cup {v} /\ status' = status \cup {v}
        /\ UNCHANGED <<msiChip, msiPc, slot, paddr_first, cache, ctl, reg, w, x19>>
    BY <2>1, Zenon DEF MSI!RaiseMsi, MSI!Raised
  <2>3. SlotInv' /\ Vectors'
    BY <2>2, Zenon DEF QoriqInv, SlotInv, Vectors
  <2>4. WordInv'
    BY <2>2, Zenon DEF QoriqInv, WordInv
  <2> QED BY <2>2, <2>3, <2>4, Zenon DEF QoriqInv
<1>8. CASE MSI!Masking
  <2>1. UNCHANGED <<msiChip, msiPc, slot, paddr_first, status, cache, ctl, reg, w, x19, due, seen>>
    BY <1>8, ZenonT(40) DEF MSI!Masking, MSI!MaskMsi, MSI!MaskQoriq, MSI!MaskPcie,
       MSI!MaskIc6, MSI!Asks
  <2>2. SlotInv' /\ Vectors' /\ WordInv'
    BY <2>1, Zenon DEF QoriqInv, SlotInv, Vectors, WordInv
  <2> QED BY <2>1, <2>2, Zenon DEF QoriqInv
<1>9. ~ (MSI!PatchMsi \/ MSI!PatchPcie \/ MSI!MsiRead \/ MSI!MsiMask \/ MSI!MsiClear \/ MSI!PcieId \/ MSI!Ic6Id
         \/ MSI!EoiMsi \/ MSI!EoiPcie \/ MSI!Latch)
  BY Zenon DEF MSI!PatchMsi, MSI!PatchPcie, MSI!MsiRead, MSI!MsiMask, MSI!MsiClear, MSI!PcieId, MSI!Ic6Id,
     MSI!EoiMsi, MSI!EoiPcie, MSI!Latch
<1>10. ~ ((\E c \in Codes : MSI!RaisePcie(c - 1)) \/ (\E b \in Ports : MSI!RaiseMsg(b)))
  BY Zenon DEF MSI!RaisePcie, MSI!RaiseMsg
<1> QED BY <1>1, <1>2, <1>3, <1>4, <1>5, <1>6, <1>7, <1>8, <1>9, <1>10, Zenon
       DEF MSI!Next, MSI!Kernel, MSI!Devices

\* Ids of messages lie above those of the codes.
LEMMA MessageId ==
  ASSUME NEW b \in 0 .. 31, MSI!SmBit(b % 16) # MSI!None
  PROVE  /\ MSI!MsgId(b) >= 16 /\ MSI!MsgId(b) \in Nat /\ (MSI!MsgId(b) \div 16) - 1 = b \div 16
         /\ \E k \in 1 .. 10 : /\ b % 16 = MSI!Layouts.msg0[k]
                               /\ MSI!MsgId(b) % 16 = MSI!Layouts.sm[k]
<1> DEFINE p == b % 16
           q == b \div 16
           s == MSI!SmBit(p)
<1>1. p \in {4, 7, 8, 9, 10, 11, 12, 13, 14, 15} /\ q \in 0 .. 1
  <2>1. p \in 0 .. 15 /\ q \in 0 .. 1
    BY SMT
  <2>2. p \notin {0, 1, 2, 3, 5, 6}
    BY SMT DEF MSI!SmBit, MSI!None
  <2> HIDE DEF p
  <2> QED BY <2>1, <2>2, SMT
<1>2. s \in 0 .. 15 /\ \E k \in 1 .. 10 : p = MSI!Layouts.msg0[k] /\ s = MSI!Layouts.sm[k]
  <2> HIDE DEF p
  <2>1. /\ p = 4 => p = MSI!Layouts.msg0[8] /\ s = MSI!Layouts.sm[8]
        /\ p = 7 => p = MSI!Layouts.msg0[9] /\ s = MSI!Layouts.sm[9]
        /\ p = 8 => p = MSI!Layouts.msg0[1] /\ s = MSI!Layouts.sm[1]
        /\ p = 9 => p = MSI!Layouts.msg0[2] /\ s = MSI!Layouts.sm[2]
        /\ p = 10 => p = MSI!Layouts.msg0[3] /\ s = MSI!Layouts.sm[3]
    BY SMT DEF MSI!SmBit, MSI!Layouts
  <2>2. /\ p = 11 => p = MSI!Layouts.msg0[4] /\ s = MSI!Layouts.sm[4]
        /\ p = 12 => p = MSI!Layouts.msg0[10] /\ s = MSI!Layouts.sm[10]
        /\ p = 13 => p = MSI!Layouts.msg0[5] /\ s = MSI!Layouts.sm[5]
        /\ p = 14 => p = MSI!Layouts.msg0[6] /\ s = MSI!Layouts.sm[6]
        /\ p = 15 => p = MSI!Layouts.msg0[7] /\ s = MSI!Layouts.sm[7]
    BY SMT DEF MSI!SmBit, MSI!Layouts
  <2>3. s \in 0 .. 15
    BY <1>1, SMT DEF MSI!SmBit
  <2> HIDE DEF s
  <2>4. \E k \in 1 .. 10 : p = MSI!Layouts.msg0[k] /\ s = MSI!Layouts.sm[k]
    <3>1. {1, 2, 3, 4, 5, 6, 7, 8, 9, 10} = 1 .. 10
      BY SMT
    <3> QED BY <1>1, <2>1, <2>2, <3>1, Zenon
  <2> QED BY <2>3, <2>4
<1>3. MSI!MsgId(b) = 16 + s + 16 * q
  BY DEF MSI!MsgId
<1> HIDE DEF p, q, s
<1>4. MSI!MsgId(b) >= 16 /\ MSI!MsgId(b) \in Nat /\ MSI!MsgId(b) \div 16 = q + 1 /\ MSI!MsgId(b) % 16 = s
  BY <1>1, <1>2, <1>3, SMT
<1>5. (MSI!MsgId(b) \div 16) - 1 = q
  BY <1>1, <1>4, SMT
<1> QED BY <1>2, <1>4, <1>5 DEF p, q

\* A code or a bit in hand is one that was raised.
LEMMA PcieStep ==
  ASSUME msiChip = "pcie", PcieInv, MSI!Next
  PROVE  msiChip' = "pcie" /\ PcieInv'
<1> USE DEF MSI!Goto, MSI!patchVars, MSI!msiVars, MSI!pcieVars, MSI!hist
<1>1. CASE MSI!PatchPcie
  <2>1. msiPc = "patch" /\ msiPc' = "idle" /\ UNCHANGED <<msiChip, pend, code, msg, x19, src, seen>>
    BY <1>1, Zenon DEF MSI!PatchPcie
  <2> QED BY <2>1, Zenon DEF PcieInv
<1>2. CASE \E c \in MSI!Ctl : MSI!TakeIrq(c)
  <2>1. msiPc = "idle" /\ msiPc' = "code" /\ UNCHANGED <<msiChip, pend, code, msg, x19, src, seen>>
    BY <1>2, Zenon DEF MSI!TakeIrq
  <2> QED BY <2>1, Zenon DEF PcieInv
<1>3. CASE MSI!PcieId
  <2>1. /\ msiPc = "code" /\ x19' = code - 1 /\ UNCHANGED <<msiChip, pend, code, msg, src, seen>>
        /\ msiPc' = IF code = 0 THEN "idle" ELSE IF code - 1 = MSI!Cascade THEN "ic6" ELSE "handle"
    BY <1>3, Zenon DEF MSI!PcieId
  <2>2. code \in 0 .. 14 /\ (code \notin {0, 6} => code - 1 \in seen)
    BY DEF PcieInv
  <2>3. msiPc' \in {"idle", "ic6", "handle"} /\ (msiPc' = "ic6" => x19' = MSI!Cascade)
        /\ (msiPc' = "handle" => x19' \in 0 .. 15 /\ x19' \in seen)
    BY <2>1, <2>2, SMT DEF MSI!Cascade
  <2> QED BY <2>1, <2>3, Zenon DEF PcieInv
<1>4. CASE MSI!Ic6Id
  <2> DEFINE b == MSI!Min(msg)
  <2>1. /\ msiPc = "ic6" /\ UNCHANGED <<msiChip, pend, code, msg, seen>>
        /\ \/ msiPc' = "eoi" /\ x19' = x19 /\ src' = src
           \/ /\ msg # {} /\ MSI!SmBit(b % 16) # MSI!None
              /\ msiPc' = "handle" /\ x19' = MSI!MsgId(b) /\ src' = b
    BY <1>4, Zenon DEF MSI!Ic6Id
  <2>2. x19 = MSI!Cascade /\ msg \subseteq 0 .. 31 /\ \A m \in msg : MSI!Message + m \in seen
    BY <2>1, Zenon DEF PcieInv
  <2>3. msg # {} => b \in msg
    <3>1. msg \in SUBSET Nat
      BY <2>2, SMT
    <3> QED BY <3>1, LeastIn, Zenon
  <2> HIDE DEF b
  <2> QED BY <2>1, <2>2, <2>3, Zenon DEF PcieInv
<1>5. CASE MSI!Handle
  <2>1. msiPc = "handle" /\ msiPc' = "eoi" /\ msg' \subseteq msg
        /\ UNCHANGED <<msiChip, pend, code, x19, src, seen>>
    BY <1>5, Zenon DEF MSI!Handle
  <2> QED BY <2>1, Zenon DEF PcieInv
<1>6. CASE MSI!EoiPcie
  <2>1. msiPc = "eoi" /\ msiPc' = "idle" /\ code' = 0 /\ UNCHANGED <<msiChip, pend, msg, seen>>
    BY <1>6, Zenon DEF MSI!EoiPcie
  <2>2. 0 \in 0 .. 14
    BY SMT
  <2> QED BY <2>1, <2>2, Zenon DEF PcieInv
<1>7. CASE MSI!Latch
  <2>1. UNCHANGED <<msiChip, msiPc, msg, x19, src, seen>> /\ code = 0
    BY <1>7, Zenon DEF MSI!Latch
  <2>2. \/ \E v \in pend : code' = v + 1 /\ pend' = pend \ {v}
        \/ code' = 6 /\ pend' = pend
    BY <1>7, SMT DEF MSI!Latch, MSI!Cascade
  <2>3. pend \subseteq 0 .. 13 /\ pend \subseteq seen
    BY DEF PcieInv
  <2>4. code' \in 0 .. 14 /\ (code' \notin {0, 6} => code' - 1 \in seen) /\ pend' \subseteq pend
    <3>1. CASE code' = 6 /\ pend' = pend
      BY <3>1, SMT
    <3>2. ASSUME NEW v \in pend, code' = v + 1, pend' = pend \ {v}
          PROVE  code' \in 0 .. 14 /\ code' - 1 \in seen /\ pend' \subseteq pend
      <4>1. v \in 0 .. 13 /\ v \in seen
        BY <2>3
      <4>2. code' - 1 = v /\ code' \in 0 .. 14
        BY <3>2, <4>1, SMT
      <4> QED BY <3>2, <4>1, <4>2
    <3> QED BY <2>2, <3>1, <3>2
  <2> QED BY <2>1, <2>3, <2>4, Zenon DEF PcieInv
<1>8. CASE \E c \in Codes : MSI!RaisePcie(c - 1)
  <2>1. PICK c \in Codes : MSI!RaisePcie(c - 1)
    BY <1>8
  <2>2. UNCHANGED <<msiChip, msiPc, code, msg, x19, src>> /\ seen' = seen \cup {c - 1}
        /\ pend' = pend \cup {c - 1}
    BY <2>1, Zenon DEF MSI!RaisePcie, MSI!Raised
  <2>3. c - 1 \in 0 .. 13
    BY MsiAssumption, SMT
  <2> QED BY <2>2, <2>3, Zenon DEF PcieInv
<1>9. CASE \E b \in Ports : MSI!RaiseMsg(b)
  <2>1. PICK b \in Ports : MSI!RaiseMsg(b)
    BY <1>9
  <2>2. UNCHANGED <<msiChip, msiPc, code, pend, x19, src>> /\ seen' = seen \cup {MSI!Message + b}
        /\ msg' = msg \cup {b}
    BY <2>1, Zenon DEF MSI!RaiseMsg, MSI!Raised
  <2>3. b \in 0 .. 31
    BY MsiAssumption
  <2> QED BY <2>2, <2>3, Zenon DEF PcieInv
<1>10. CASE MSI!Masking
  <2>1. UNCHANGED <<msiChip, msiPc, pend, code, msg, x19, src, seen>>
    BY <1>10, ZenonT(40) DEF MSI!Masking, MSI!MaskMsi, MSI!MaskQoriq, MSI!MaskPcie,
       MSI!MaskIc6, MSI!Asks
  <2> QED BY <2>1, Zenon DEF PcieInv
<1>11. ~ (MSI!PatchQoriq \/ MSI!PatchMsi \/ MSI!MsiRead \/ MSI!MsiMask \/ MSI!MsiClear \/ MSI!QoriqRead
          \/ MSI!QoriqPick \/ MSI!EoiMsi \/ MSI!EoiQoriq)
  BY Zenon DEF MSI!PatchQoriq, MSI!PatchMsi, MSI!MsiRead, MSI!MsiMask, MSI!MsiClear, MSI!QoriqRead,
     MSI!QoriqPick, MSI!EoiMsi, MSI!EoiQoriq
<1>12. ~ \E v \in Used : MSI!RaiseMsi(v)
  BY Zenon DEF MSI!RaiseMsi
<1> QED BY <1>1, <1>2, <1>3, <1>4, <1>5, <1>6, <1>7, <1>8, <1>9, <1>10, <1>11, <1>12, Zenon
       DEF MSI!Next, MSI!Kernel, MSI!Devices

\* What the invariant says of the property.
LEMMA MInvRight == MInv => MsiRight
<1> SUFFICES ASSUME MInv PROVE MSI!NoLostMsi /\ MSI!SourceRight
  BY DEF MsiRight
<1>1. CASE msiChip = "msi"
  <2>1. MsiInv
    BY <1>1 DEF MInv
  <2>2. MSI!Source = x19
    BY <1>1, Zenon DEF MSI!Source, MSI!IsMsg
  <2> QED BY <1>1, <2>1, <2>2, Zenon DEF MsiInv, MSI!NoLostMsi, MSI!SourceRight, MSI!IsMsg
<1>2. CASE msiChip = "qoriq"
  <2>1. QoriqInv
    BY <1>2 DEF MInv
  <2>2. MSI!Source = x19
    BY <1>2, Zenon DEF MSI!Source, MSI!IsMsg
  <2>3. MSI!SourceRight
    BY <1>2, <2>1, <2>2, Zenon DEF QoriqInv, WordInv, MSI!SourceRight, MSI!IsMsg
  <2>4. MSI!NoLostMsi
    <3> SUFFICES ASSUME NEW v \in due
                 PROVE  \/ v \in status \/ v = x19
                        \/ v \div MSI!Size = ctl /\ v % MSI!Size \in w
                        \/ v % MSI!Size \in cache[slot[v \div MSI!Size]]
      BY <1>2, Zenon DEF MSI!NoLostMsi
    <3>1. msiPc # "patch"
      BY <2>1, Zenon DEF QoriqInv, SlotInv
    <3>2. v \div MSI!Size \in MSI!Ctl
      BY <2>1, ControllerOf DEF QoriqInv, Vectors
    <3>3. slot[v \div MSI!Size] = v \div MSI!Size
      BY <2>1, <3>1, <3>2, Zenon DEF QoriqInv, SlotInv
    <3> QED BY <2>1, <3>3, Zenon DEF QoriqInv
  <2> QED BY <2>3, <2>4
<1>3. CASE msiChip = "pcie"
  <2>1. PcieInv
    BY <1>3 DEF MInv
  <2>2. MSI!NoLostMsi
    BY <1>3 DEF MSI!NoLostMsi
  <2>3. ASSUME msiPc \in {"handle", "eoi"}, x19 # MSI!Cascade
        PROVE  /\ MSI!Source \in seen
               /\ MSI!IsMsg(x19) => \E k \in 1 .. 10 : /\ src % 16 = MSI!Layouts.msg0[k]
                                                     /\ x19 % 16 = MSI!Layouts.sm[k]
                                                     /\ (x19 \div 16) - 1 = src \div 16
    <3>1. CASE x19 \in 0 .. 15 /\ x19 \in seen
      <4>1. ~ MSI!IsMsg(x19)
        BY <3>1, SMT DEF MSI!IsMsg
      <4> QED BY <3>1, <4>1 DEF MSI!Source
    <3>2. CASE /\ src \in 0 .. 31 /\ MSI!Message + src \in seen
               /\ MSI!SmBit(src % 16) # MSI!None /\ x19 = MSI!MsgId(src)
      <4>1. MSI!IsMsg(x19)
        BY <1>3, <3>2, MessageId DEF MSI!IsMsg
      <4>2. MSI!Source \in seen
        BY <3>2, <4>1 DEF MSI!Source
      <4> QED BY <3>2, <4>2, MessageId
    <3> QED BY <2>1, <2>3, <3>1, <3>2 DEF PcieInv
  <2> QED BY <2>2, <2>3 DEF MSI!SourceRight
<1> QED BY <1>1, <1>2, <1>3 DEF MInv

\* No message is lost between the status registers and its driver, although
\* reading a register clears it, and the id reported is that of a device that
\* has raised it: for every controller, any vectors, masks and interleaving of
\* devices with the callouts.
THEOREM MessagesAreRight == MSI!Spec => []MsiRight
<1>1. MInv /\ [MSI!Next]_MSI!vars => MInv'
  <2> SUFFICES ASSUME MInv, [MSI!Next]_MSI!vars PROVE MInv'
    OBVIOUS
  <2>1. CASE MSI!Next
    BY <2>1, MsiStep, QoriqStep, PcieStep DEF MInv
  <2>2. CASE UNCHANGED MSI!vars
    <3>1. UNCHANGED <<msiChip, msiPc, ctl, slot, paddr_first, status, cache, reg, w, x19, src,
                      pend, code, msg, due, seen>>
      BY <2>2 DEF MSI!vars, MSI!patchVars, MSI!msiVars, MSI!pcieVars, MSI!hist
    <3>2. /\ MsiInv => MsiInv'
          /\ QoriqInv => QoriqInv'
          /\ PcieInv => PcieInv'
      BY <3>1, Zenon DEF MsiInv, QoriqInv, PcieInv, Vectors, SlotInv, WordInv
    <3> QED BY <3>1, <3>2 DEF MInv
  <2> QED BY <2>1, <2>2
<1> QED BY InitMInv, MInvRight, <1>1, PTL DEF MSI!Spec

\* Induction over the natural numbers, for a set: a least counterexample
\* would have a predecessor.
LEMMA Induct ==
  ASSUME NEW S, 0 \in S, \A n \in Nat : n \in S => n + 1 \in S
  PROVE  \A n \in Nat : n \in S
<1> DEFINE T == Nat \ S
<1>1. SUFFICES ASSUME T # {} PROVE FALSE
  OBVIOUS
<1>2. PICK x \in T : \A y \in T : ~ (<<y, x>> \in OpToRel(<, Nat))
  <2>1. T \subseteq Nat
    OBVIOUS
  <2> HIDE DEF T
  <2> QED BY <1>1, <2>1, WFMin, NatLessThanWellFounded
<1>3. x # 0 /\ x - 1 \in Nat /\ x - 1 < x
  OBVIOUS
<1>4. <<x - 1, x>> \in OpToRel(<, Nat)
  BY <1>3 DEF OpToRel
<1>5. x - 1 \in S
  BY <1>2, <1>3, <1>4
<1> QED BY <1>3, <1>5

-----------------------------------------------------------------------------
(* The address space section: tables of entries                            *)

EntryName == {"memory", "below4G", "ram", "imagefs", "io", "reserved", "sysram"}
EntryType ==
  [start : 0 .. MemEnd, end : 0 .. MemEnd, attr : SUBSET {AI!Kids, AI!Continued},
   name : EntryName, owner : Nat, priority : {AI!Default, AI!High}]

\* Entries are not empty, and owners come first.
Table(tb) ==
  /\ tb \in Seq(EntryType)
  /\ \A i \in DOMAIN tb : tb[i].start <= tb[i].end /\ tb[i].owner < i

\* All are under the first one, "memory", which has all addresses.
Rooted(tb) ==
  /\ tb # << >> /\ tb[1].name = "memory" /\ tb[1].start = 0 /\ tb[1].end = MemEnd
  /\ \A i \in DOMAIN tb : i # 1 => tb[i].owner # 0

\* What an entry has, and two that have nothing in common.
Has(e, a) == e.start <= a /\ a <= e.end
Covers(e, d) == e.start <= d.start /\ d.end <= e.end
Apart(e, d) == e.end < d.start \/ d.end < e.start

\* A later entry lies in an earlier one or beside it.
Nested(tb) ==
  \A i, j \in DOMAIN tb : i < j => Covers(tb[i], tb[j]) \/ Apart(tb[i], tb[j])

\* Ranges that have nothing in common have no address in common.
LEMMA NoneOfBoth ==
  ASSUME NEW e, NEW d, NEW x \in Int, e.start \in Int, e.end \in Int,
         d.start \in Int, d.end \in Int, Has(e, x), Has(d, x)
  PROVE  ~ Apart(e, d)
BY DEF Has, Apart

\* Nor have what lies in them.
LEMMA ApartWithin ==
  ASSUME NEW e, NEW d, NEW e1, NEW d1, Apart(e, d), Covers(e, e1), Covers(d, d1),
         e.start \in Nat, e.end \in Nat, d.start \in Nat, d.end \in Nat,
         e1.start \in Nat, e1.end \in Nat, d1.start \in Nat, d1.end \in Nat
  PROVE  Apart(e1, d1)
BY DEF Apart, Covers

\* The last entry that has an address is under a container.
Inner(tb, a, i, c) ==
  /\ i \in DOMAIN tb /\ AI!MatchName(tb, i, c) /\ Has(tb[i], a)
  /\ \A j \in DOMAIN tb : j > i => ~ Has(tb[j], a)

\* The entries of a table stay in a longer one, perhaps with other marks.
Kept(tb, ub) ==
  /\ Len(tb) <= Len(ub)
  /\ \A i \in DOMAIN tb :
       /\ ub[i].start = tb[i].start /\ ub[i].end = tb[i].end /\ ub[i].name = tb[i].name
       /\ ub[i].owner = tb[i].owner /\ ub[i].priority = tb[i].priority

Kin(tb, ub) ==
  /\ Len(tb) <= Len(ub)
  /\ \A i \in DOMAIN tb : ub[i].name = tb[i].name /\ ub[i].owner = tb[i].owner

\* What a table is made of.
LEMMA TableFacts ==
  ASSUME NEW tb, Table(tb)
  PROVE  /\ Len(tb) \in Nat /\ DOMAIN tb = 1 .. Len(tb)
         /\ \A i \in DOMAIN tb :
              /\ i \in Nat /\ i >= 1 /\ tb[i] \in EntryType
              /\ tb[i].start \in 0 .. MemEnd /\ tb[i].end \in tb[i].start .. MemEnd
              /\ tb[i].owner \in 0 .. i - 1 /\ tb[i].name \in EntryName
              /\ tb[i].attr \subseteq {AI!Kids, AI!Continued}
              /\ tb[i].priority \in {AI!Default, AI!High}
<1>1. Len(tb) \in Nat /\ DOMAIN tb = 1 .. Len(tb) /\ \A i \in DOMAIN tb : tb[i] \in EntryType
  BY DEF Table
<1>2. ASSUME NEW i \in DOMAIN tb
      PROVE  /\ tb[i].start \in 0 .. MemEnd /\ tb[i].end \in tb[i].start .. MemEnd
             /\ tb[i].owner \in 0 .. i - 1 /\ tb[i].name \in EntryName
             /\ tb[i].attr \subseteq {AI!Kids, AI!Continued}
             /\ tb[i].priority \in {AI!Default, AI!High}
  <2>1. tb[i] \in EntryType /\ tb[i].start <= tb[i].end /\ tb[i].owner < i /\ i \in Nat
    BY <1>1 DEF Table
  <2> QED BY <2>1, AsInfoAssumption DEF EntryType
<1> QED BY <1>1, <1>2

\* match_name() goes from an entry to its owner.
LEMMA MatchDef ==
  ASSUME NEW tb, Table(tb), NEW i \in DOMAIN tb, NEW nm
  PROVE  AI!MatchName(tb, i, nm)
           <=> tb[i].name = nm \/ (tb[i].owner # 0 /\ AI!MatchName(tb, tb[i].owner, nm))
<1> DEFINE E(g, j) == tb[j].name = nm \/ (tb[j].owner # AI!AS_NULL_OFF /\ g[tb[j].owner])
           Graph(n, g) == g = [j \in 1 .. n |-> E(g, j)]
           Some(n) == \E g : Graph(n, g)
           S == {n \in Nat : n <= Len(tb) => Some(n)}
           N == Len(tb)
           under == CHOOSE g : g = [j \in DOMAIN tb |-> E(g, j)]
<1>0. N \in Nat /\ DOMAIN tb = 1 .. N /\ \A j \in DOMAIN tb : tb[j].owner \in 0 .. j - 1
  BY TableFacts
<1>a. ASSUME NEW g, NEW f, NEW j, tb[j].owner # 0 => f[tb[j].owner] = g[tb[j].owner]
      PROVE  E(f, j) = E(g, j)
  BY <1>a DEF AI!AS_NULL_OFF
<1>b. \A j \in DOMAIN tb : AI!MatchName(tb, j, nm) = under[j]
  BY DEF AI!MatchName
<1>c. \A g, j : E(g, j) <=> tb[j].name = nm \/ (tb[j].owner # 0 /\ g[tb[j].owner])
  BY DEF AI!AS_NULL_OFF
<1> HIDE DEF N, E
<1>1. 0 \in S
  <2> DEFINE g == [j \in 1 .. 0 |-> TRUE]
  <2>1. Graph(0, g)
    OBVIOUS
  <2>2. Some(0)
    <3> HIDE DEF g
    <3> QED BY <2>1
  <2> HIDE DEF Some
  <2> QED BY <2>2
<1>2. ASSUME NEW n \in Nat, n \in S PROVE n + 1 \in S
  <2> SUFFICES ASSUME n + 1 <= N PROVE Some(n + 1)
    BY DEF N
  <2>1. PICK g : Graph(n, g)
    BY <1>0, <1>2 DEF N
  <2> DEFINE f == [j \in 1 .. n + 1 |-> IF j = n + 1 THEN E(g, j) ELSE g[j]]
  <2>2. ASSUME NEW j \in 1 .. n + 1 PROVE f[j] = E(f, j)
    <3>1. tb[j].owner \in 0 .. j - 1
      BY <1>0
    <3>2. tb[j].owner # 0 => tb[j].owner \in 1 .. n /\ tb[j].owner # n + 1
      BY <3>1
    <3>3. tb[j].owner # 0 => f[tb[j].owner] = g[tb[j].owner]
      BY <3>2
    <3>4. E(f, j) = E(g, j)
      <4> HIDE DEF f
      <4> QED BY <1>a, <3>3
    <3>5. CASE j = n + 1
      BY <3>4, <3>5
    <3>6. CASE j # n + 1
      <4>1. j \in 1 .. n /\ f[j] = g[j]
        BY <3>6
      <4>2. g[j] = E(g, j)
        BY <2>1, <4>1
      <4> QED BY <3>4, <4>1, <4>2
    <3> QED BY <3>5, <3>6
  <2>3. f = [j \in 1 .. n + 1 |-> f[j]]
    OBVIOUS
  <2> HIDE DEF f
  <2>4. Graph(n + 1, f)
    BY <2>2, <2>3, Zenon
  <2> QED BY <2>4
<1> HIDE DEF S
<1>3. N \in S
  BY <1>0, <1>1, <1>2, Induct
<1>4. under = [j \in DOMAIN tb |-> E(under, j)]
  <2>1. Some(N)
    BY <1>0, <1>3 DEF S, N
  <2>2. PICK g : g = [j \in DOMAIN tb |-> E(g, j)]
    BY <1>0, <2>1
  <2> QED BY <2>2
<1> HIDE DEF under
<1>5. tb[i].owner # 0 => tb[i].owner \in DOMAIN tb
  BY <1>0
<1>6. under[i] = E(under, i)
  BY <1>4
<1> QED BY <1>b, <1>c, <1>5, <1>6

\* What an entry is under depends on its name and its owners only.
LEMMA MatchKin ==
  ASSUME NEW tb, NEW ub, Table(tb), Table(ub), Kin(tb, ub), NEW nm
  PROVE  \A i \in DOMAIN tb : AI!MatchName(ub, i, nm) <=> AI!MatchName(tb, i, nm)
<1> DEFINE S == {n \in Nat : \A i \in DOMAIN tb : i <= n =>
                   (AI!MatchName(ub, i, nm) <=> AI!MatchName(tb, i, nm))}
<1>0. /\ Len(tb) \in Nat /\ DOMAIN tb = 1 .. Len(tb) /\ DOMAIN ub = 1 .. Len(ub) /\ Len(ub) \in Nat
      /\ \A i \in DOMAIN tb : tb[i].owner \in 0 .. i - 1
  BY TableFacts
<1>1. 0 \in S
  BY <1>0
<1>2. ASSUME NEW n \in Nat, n \in S PROVE n + 1 \in S
  <2> SUFFICES ASSUME NEW i \in DOMAIN tb, i <= n + 1
               PROVE  AI!MatchName(ub, i, nm) <=> AI!MatchName(tb, i, nm)
    OBVIOUS
  <2>1. i \in DOMAIN ub /\ ub[i].name = tb[i].name /\ ub[i].owner = tb[i].owner
    BY <1>0 DEF Kin
  <2>2. tb[i].owner # 0 => /\ tb[i].owner \in DOMAIN tb /\ tb[i].owner <= n
    BY <1>0
  <2>3. tb[i].owner # 0 => (AI!MatchName(ub, tb[i].owner, nm) <=> AI!MatchName(tb, tb[i].owner, nm))
    BY <1>2, <2>2
  <2>4. /\ AI!MatchName(ub, i, nm)
             <=> ub[i].name = nm \/ (ub[i].owner # 0 /\ AI!MatchName(ub, ub[i].owner, nm))
        /\ AI!MatchName(tb, i, nm)
             <=> tb[i].name = nm \/ (tb[i].owner # 0 /\ AI!MatchName(tb, tb[i].owner, nm))
    BY <2>1, MatchDef
  <2> QED BY <2>1, <2>3, <2>4
<1> HIDE DEF S
<1>3. \A n \in Nat : n \in S
  BY <1>1, <1>2, Induct
<1> QED BY <1>0, <1>3 DEF S

\* match_name() of an entry does not change when entries are added.
LEMMA MatchKept ==
  ASSUME NEW tb, NEW ub, Table(tb), Table(ub), Kept(tb, ub), NEW nm
  PROVE  \A i \in DOMAIN tb : AI!MatchName(ub, i, nm) <=> AI!MatchName(tb, i, nm)
<1>1. Kin(tb, ub)
  BY DEF Kept, Kin
<1> QED BY <1>1, MatchKin

\* Everything is in "memory".
LEMMA AllInMemory ==
  ASSUME NEW tb, Table(tb), Rooted(tb)
  PROVE  \A i \in DOMAIN tb : AI!MatchName(tb, i, "memory")
<1> DEFINE S == {n \in Nat : \A i \in DOMAIN tb : i <= n => AI!MatchName(tb, i, "memory")}
<1>0. Len(tb) \in Nat /\ DOMAIN tb = 1 .. Len(tb) /\ \A i \in DOMAIN tb : tb[i].owner \in 0 .. i - 1
  BY TableFacts
<1>1. 0 \in S
  BY <1>0
<1>2. ASSUME NEW n \in Nat, n \in S PROVE n + 1 \in S
  <2> SUFFICES ASSUME NEW i \in DOMAIN tb, i <= n + 1 PROVE AI!MatchName(tb, i, "memory")
    OBVIOUS
  <2>1. CASE i = 1
    BY <2>1, MatchDef DEF Rooted
  <2>2. CASE i # 1
    <3>1. tb[i].owner # 0 /\ tb[i].owner \in DOMAIN tb /\ tb[i].owner <= n
      BY <1>0, <2>2 DEF Rooted
    <3> QED BY <1>2, <3>1, MatchDef
  <2> QED BY <2>1, <2>2
<1> HIDE DEF S
<1>3. \A n \in Nat : n \in S
  BY <1>1, <1>2, Induct
<1> QED BY <1>0, <1>3 DEF S

\* A least and a greatest element.
LEMMA LowestIs ==
  ASSUME NEW S \in SUBSET Int, NEW m \in S, \A y \in S : m <= y
  PROVE  AI!Min(S) = m
<1>1. AI!Min(S) \in S /\ \A y \in S : AI!Min(S) <= y
  BY DEF AI!Min
<1>2. AI!Min(S) \in Int /\ m \in Int /\ AI!Min(S) <= m /\ m <= AI!Min(S)
  BY <1>1
<1> QED BY <1>2

\* The greatest of a set.
LEMMA LastIs ==
  ASSUME NEW S \in SUBSET Int, NEW m \in S, \A y \in S : y <= m
  PROVE  AI!Max(S) = m
<1>0. \A y \in S : m >= y
  OBVIOUS
<1>1. AI!Max(S) \in S /\ \A y \in S : AI!Max(S) >= y
  BY <1>0 DEF AI!Max
<1>2. AI!Max(S) \in Int /\ m \in Int /\ AI!Max(S) >= m /\ m >= AI!Max(S)
  BY <1>1
<1> QED BY <1>2

\* A set of numbers up to n has a greatest one.
LEMMA LastExists ==
  ASSUME NEW n \in Nat, NEW T \in SUBSET (1 .. n), T # {}
  PROVE  \E m \in T : \A y \in T : y <= m
<1> DEFINE Ok(U) == U # {} => \E m \in U : \A y \in U : y <= m
           S == {x \in Nat : \A U \in SUBSET (1 .. x) : Ok(U)}
<1>1. 0 \in S
  <2>1. \A U \in SUBSET (1 .. 0) : U = {}
    OBVIOUS
  <2>2. \A U \in SUBSET (1 .. 0) : Ok(U)
    BY <2>1
  <2> HIDE DEF Ok
  <2> QED BY <2>2
<1>2. ASSUME NEW x \in Nat, x \in S PROVE x + 1 \in S
  <2>0. ASSUME NEW U \in SUBSET (1 .. x + 1) PROVE Ok(U)
    <3>1. CASE x + 1 \in U
      BY <3>1
    <3>2. CASE x + 1 \notin U
      <4>1. U \in SUBSET (1 .. x)
        BY <3>2
      <4> QED BY <1>2, <4>1
    <3> QED BY <3>1, <3>2
  <2> HIDE DEF Ok
  <2> QED BY <2>0
<1> HIDE DEF S
<1>3. n \in S
  BY <1>1, <1>2, Induct
<1> QED BY <1>3 DEF S

\* A table with marks on some of its entries and with new ones behind them.
Longer(tb, owners, new, ub) ==
  /\ Table(ub) /\ Kept(tb, ub) /\ Len(ub) = Len(tb) + Len(new)
  /\ \A i \in DOMAIN tb :
       ub[i].attr = IF i \in owners THEN tb[i].attr \cup {AI!Kids} ELSE tb[i].attr
  /\ \A j \in 1 .. Len(new) : ub[Len(tb) + j] = new[j]

\* Marking changes nothing else.
LEMMA KidsDo ==
  ASSUME NEW tb, Table(tb), NEW owners
  PROVE  Longer(tb, owners, << >>, AI!WithKids(tb, owners))
<1> DEFINE ub == AI!WithKids(tb, owners)
<1>1. Len(tb) \in Nat /\ DOMAIN tb = 1 .. Len(tb) /\ \A i \in DOMAIN tb : tb[i] \in EntryType
  BY TableFacts
<1>2. DOMAIN ub = 1 .. Len(tb) /\ Len(ub) = Len(tb)
  BY <1>1 DEF AI!WithKids
<1>3. ASSUME NEW i \in DOMAIN tb
      PROVE  /\ ub[i] \in EntryType
             /\ ub[i].start = tb[i].start /\ ub[i].end = tb[i].end /\ ub[i].name = tb[i].name
             /\ ub[i].owner = tb[i].owner /\ ub[i].priority = tb[i].priority
             /\ ub[i].attr = IF i \in owners THEN tb[i].attr \cup {AI!Kids} ELSE tb[i].attr
  <2>1. tb[i] \in EntryType
    BY <1>1
  <2>2. ub[i] = IF i \in owners THEN [tb[i] EXCEPT !.attr = tb[i].attr \cup {AI!Kids}] ELSE tb[i]
    BY DEF AI!WithKids
  <2> QED BY <2>1, <2>2 DEF EntryType
<1> HIDE DEF ub
<1>4. ub \in Seq(EntryType)
  <2>1. ub = [i \in 1 .. Len(tb) |-> ub[i]]
    <3>1. ub = [i \in DOMAIN tb |-> IF i \in owners
                   THEN [tb[i] EXCEPT !.attr = tb[i].attr \cup {AI!Kids}] ELSE tb[i]]
      BY DEF ub, AI!WithKids
    <3> QED BY <1>1, <3>1
  <2>2. \A i \in 1 .. Len(tb) : ub[i] \in EntryType
    BY <1>1, <1>3
  <2> QED BY <1>1, <2>1, <2>2
<1>5. \A i \in DOMAIN ub : ub[i].start <= ub[i].end /\ ub[i].owner < i
  BY <1>1, <1>2, <1>3 DEF Table
<1>6. Table(ub)
  BY <1>4, <1>5 DEF Table
<1>7. Kept(tb, ub)
  <2>1. Len(tb) <= Len(ub)
    BY <1>1, <1>2
  <2> QED BY <1>3, <2>1, Zenon DEF Kept
<1>8. Len(ub) = Len(tb) + Len(<< >>) /\ \A j \in 1 .. Len(<< >>) : ub[Len(tb) + j] = << >>[j]
  BY <1>1, <1>2
<1>9. Longer(tb, owners, << >>, ub)
  BY <1>3, <1>6, <1>7, <1>8, Zenon DEF Longer
<1> QED BY <1>9 DEF ub

\* Entries at the end leave the others as they are.
LEMMA ConcatDoes ==
  ASSUME NEW tb, Table(tb), NEW new \in Seq(EntryType),
         \A j \in 1 .. Len(new) : new[j].start <= new[j].end /\ new[j].owner < Len(tb) + j
  PROVE  /\ Table(tb \o new) /\ Kept(tb, tb \o new) /\ Len(tb \o new) = Len(tb) + Len(new)
         /\ \A i \in DOMAIN tb : (tb \o new)[i] = tb[i]
         /\ \A j \in 1 .. Len(new) : (tb \o new)[Len(tb) + j] = new[j]
<1> DEFINE ub == tb \o new
<1>1. Len(tb) \in Nat /\ DOMAIN tb = 1 .. Len(tb) /\ tb \in Seq(EntryType)
  BY TableFacts DEF Table
<1>2. Len(new) \in Nat
  OBVIOUS
<1>3. ub \in Seq(EntryType) /\ Len(ub) = Len(tb) + Len(new) /\ DOMAIN ub = 1 .. Len(tb) + Len(new)
  BY <1>1
<1>4. \A i \in DOMAIN tb : ub[i] = tb[i]
  BY <1>1
<1>5. \A j \in 1 .. Len(new) : ub[Len(tb) + j] = new[j]
  BY <1>1, <1>2
<1> HIDE DEF ub
<1>6. ASSUME NEW i \in DOMAIN ub PROVE ub[i].start <= ub[i].end /\ ub[i].owner < i
  <2>1. CASE i <= Len(tb)
    <3>1. i \in DOMAIN tb
      BY <1>1, <1>3, <2>1
    <3> QED BY <1>4, <3>1 DEF Table
  <2>2. CASE ~ (i <= Len(tb))
    <3> DEFINE j == i - Len(tb)
    <3>1. j \in 1 .. Len(new) /\ i = Len(tb) + j
      BY <1>1, <1>2, <1>3, <2>2
    <3> QED BY <1>5, <3>1
  <2> QED BY <2>1, <2>2
<1>7. Table(ub)
  BY <1>3, <1>6 DEF Table
<1>8. Kept(tb, ub)
  <2>1. Len(tb) <= Len(ub)
    BY <1>1, <1>2, <1>3
  <2> QED BY <1>4, <2>1, Zenon DEF Kept
<1> QED BY <1>3, <1>4, <1>5, <1>7, <1>8 DEF ub

\* What a longer section keeps, one that is longer still keeps.
LEMMA KeptTrans ==
  ASSUME NEW tb, NEW ub, NEW wb, Table(tb), Table(ub), Table(wb), Kept(tb, ub), Kept(ub, wb)
  PROVE  Kept(tb, wb)
<1>1. /\ Len(tb) \in Nat /\ DOMAIN tb = 1 .. Len(tb) /\ Len(ub) \in Nat /\ DOMAIN ub = 1 .. Len(ub)
      /\ Len(wb) \in Nat
  BY TableFacts
<1>2. \A i \in DOMAIN tb : i \in DOMAIN ub
  BY <1>1 DEF Kept
<1> QED BY <1>1, <1>2 DEF Kept

\* Both at once.
LEMMA GrowDoes ==
  ASSUME NEW tb, Table(tb), NEW owners, NEW new \in Seq(EntryType),
         \A j \in 1 .. Len(new) : new[j].start <= new[j].end /\ new[j].owner < Len(tb) + j
  PROVE  Longer(tb, owners, new, AI!WithKids(tb, owners) \o new)
<1> DEFINE wb == AI!WithKids(tb, owners)
<1>1. Longer(tb, owners, << >>, wb)
  BY KidsDo
<1> HIDE DEF wb
<1>2. /\ Table(wb) /\ Kept(tb, wb) /\ Len(wb) = Len(tb) + Len(<< >>)
      /\ \A i \in DOMAIN tb :
           wb[i].attr = IF i \in owners THEN tb[i].attr \cup {AI!Kids} ELSE tb[i].attr
  BY <1>1 DEF Longer
<1>3. Len(wb) = Len(tb) /\ DOMAIN wb = DOMAIN tb /\ Len(tb) \in Nat
  BY <1>2, TableFacts
<1>4. \A j \in 1 .. Len(new) : new[j].start <= new[j].end /\ new[j].owner < Len(wb) + j
  BY <1>3
<1>5. /\ Table(wb \o new) /\ Kept(wb, wb \o new) /\ Len(wb \o new) = Len(wb) + Len(new)
      /\ \A i \in DOMAIN wb : (wb \o new)[i] = wb[i]
      /\ \A j \in 1 .. Len(new) : (wb \o new)[Len(wb) + j] = new[j]
  BY <1>2, <1>4, ConcatDoes
<1>6. Kept(tb, wb \o new)
  BY <1>2, <1>5, KeptTrans
<1>7. \A i \in DOMAIN tb : (wb \o new)[i].attr
         = IF i \in owners THEN tb[i].attr \cup {AI!Kids} ELSE tb[i].attr
  BY <1>2, <1>3, <1>5, Zenon
<1>8. Longer(tb, owners, new, wb \o new)
  BY <1>3, <1>5, <1>6, <1>7, Zenon DEF Longer
<1> QED BY <1>8 DEF wb

\* One entry more.
LEMMA AddEntryDoes ==
  ASSUME NEW tb, Table(tb), NEW b \in 0 .. MemEnd, NEW e \in b .. MemEnd,
         NEW at \in SUBSET {AI!Kids, AI!Continued}, NEW nm \in EntryName, NEW ow \in 0 .. Len(tb)
  PROVE  Longer(tb, {ow}, <<[start |-> b, end |-> e, attr |-> at, name |-> nm, owner |-> ow,
                            priority |-> AI!Default]>>,
               AI!AddEntry(tb, b, e, at, nm, ow))
<1> DEFINE x == [start |-> b, end |-> e, attr |-> at, name |-> nm, owner |-> ow,
                 priority |-> AI!Default]
           wb == AI!WithKids(tb, {ow})
<1>0. Len(tb) \in Nat
  BY TableFacts
<1>1. AI!Entry(b, e, at, nm, ow) = x
  BY DEF AI!Entry
<1>2. x \in EntryType /\ x.start <= x.end /\ x.owner < Len(tb) + 1
  BY <1>0, AsInfoAssumption DEF EntryType
<1> HIDE DEF x
<1>3. <<x>> \in Seq(EntryType) /\ Len(<<x>>) = 1 /\ <<x>>[1] = x
  BY <1>2
<1>4. \A j \in 1 .. Len(<<x>>) : <<x>>[j].start <= <<x>>[j].end /\ <<x>>[j].owner < Len(tb) + j
  BY <1>2, <1>3
<1>5. Longer(tb, {ow}, <<x>>, wb \o <<x>>)
  BY <1>3, <1>4, GrowDoes
<1>6. AI!AddEntry(tb, b, e, at, nm, ow) = wb \o <<x>>
  <2>1. wb \in Seq(EntryType)
    BY KidsDo DEF Longer, Table
  <2> HIDE DEF wb
  <2>2. Append(wb, x) = wb \o <<x>>
    BY <1>2, <2>1
  <2> QED BY <1>1, <2>2 DEF AI!AddEntry, wb
<1> QED BY <1>5, <1>6 DEF x

\* What grows stays rooted, nested and with the same innermost entries, when
\* what is new is.
LEMMA RootedGrows ==
  ASSUME NEW tb, NEW ub, Table(tb), Table(ub), Kept(tb, ub), Rooted(tb),
         \A j \in DOMAIN ub : j > Len(tb) => ub[j].owner # 0
  PROVE  Rooted(ub)
<1>1. /\ Len(tb) \in Nat /\ DOMAIN tb = 1 .. Len(tb) /\ Len(ub) \in Nat /\ DOMAIN ub = 1 .. Len(ub)
  BY TableFacts
<1>2. 1 \in DOMAIN tb /\ ub # << >>
  BY <1>1 DEF Rooted, Kept, Table
<1> QED BY <1>1, <1>2 DEF Rooted, Kept

\* A section stays nested when each new entry lies in an earlier one or beside it.
LEMMA NestedGrows ==
  ASSUME NEW tb, NEW ub, Table(tb), Table(ub), Kept(tb, ub), Nested(tb),
         \A j \in DOMAIN ub : j > Len(tb) =>
            \A i \in DOMAIN ub : i < j => Covers(ub[i], ub[j]) \/ Apart(ub[i], ub[j])
  PROVE  Nested(ub)
<1>1. /\ Len(tb) \in Nat /\ DOMAIN tb = 1 .. Len(tb) /\ Len(ub) \in Nat /\ DOMAIN ub = 1 .. Len(ub)
  BY TableFacts
<1> SUFFICES ASSUME NEW i \in DOMAIN ub, NEW j \in DOMAIN ub, i < j, j <= Len(tb)
             PROVE  Covers(ub[i], ub[j]) \/ Apart(ub[i], ub[j])
  BY <1>1 DEF Nested
<1>2. i \in DOMAIN tb /\ j \in DOMAIN tb
  BY <1>1
<1> QED BY <1>2 DEF Nested, Kept, Covers, Apart

\* An innermost entry stays innermost when nothing new has the address.
LEMMA InnerGrows ==
  ASSUME NEW tb, NEW ub, Table(tb), Table(ub), Kept(tb, ub), NEW a, NEW i, NEW c, Inner(tb, a, i, c),
         \A j \in DOMAIN ub : j > Len(tb) => ~ Has(ub[j], a)
  PROVE  Inner(ub, a, i, c)
<1>1. /\ Len(tb) \in Nat /\ DOMAIN tb = 1 .. Len(tb) /\ Len(ub) \in Nat /\ DOMAIN ub = 1 .. Len(ub)
  BY TableFacts
<1>2. i \in DOMAIN ub /\ AI!MatchName(ub, i, c) /\ Has(ub[i], a)
  <2>1. i \in DOMAIN tb /\ AI!MatchName(tb, i, c) /\ Has(tb[i], a)
    BY DEF Inner
  <2>2. AI!MatchName(ub, i, c)
    BY <2>1, MatchKept
  <2>3. i \in DOMAIN ub /\ Has(ub[i], a)
    BY <1>1, <2>1 DEF Kept, Has
  <2> QED BY <2>2, <2>3
<1>3. ASSUME NEW j \in DOMAIN ub, j > i PROVE ~ Has(ub[j], a)
  <2>1. CASE j <= Len(tb)
    <3>1. j \in DOMAIN tb
      BY <1>1, <2>1
    <3> QED BY <1>3, <3>1 DEF Inner, Kept, Has
  <2>2. CASE ~ (j <= Len(tb))
    BY <1>1, <2>2
  <2> QED BY <2>1, <2>2
<1> QED BY <1>2, <1>3 DEF Inner

\* Every address has an innermost entry, which is in "memory".
LEMMA InnerInMemory ==
  ASSUME NEW tb, Table(tb), Rooted(tb), NEW a \in 0 .. MemEnd
  PROVE  \E i : Inner(tb, a, i, "memory")
<1> DEFINE T == {i \in DOMAIN tb : Has(tb[i], a)}
<1>1. Len(tb) \in Nat /\ DOMAIN tb = 1 .. Len(tb)
  BY TableFacts
<1>2. 1 \in T
  BY <1>1, AsInfoAssumption DEF Rooted, Table, Has
<1>3. PICK i \in T : \A y \in T : y <= i
  BY <1>1, <1>2, LastExists
<1>4. \A j \in DOMAIN tb : j > i => ~ Has(tb[j], a)
  BY <1>1, <1>3
<1> QED BY <1>3, <1>4, AllInMemory DEF Inner

-----------------------------------------------------------------------------
(* The address space section: the pieces of a request                      *)

PieceType == [start : 0 .. MemEnd, end : 0 .. MemEnd, owner : Nat]

\* The last of the first o entries that is under a container and has an address.
InnerAt(tb, o, c, a, i) ==
  /\ i \in 1 .. o /\ AI!MatchName(tb, i, c) /\ Has(tb[i], a)
  /\ \A j \in 1 .. o : j > i /\ AI!MatchName(tb, j, c) => ~ Has(tb[j], a)

\* A range is not empty; two ranges of a list have nothing in common.
Full(ls) == \A j \in DOMAIN ls : ls[j].start <= ls[j].end
AllApart(ls) == \A j, u \in DOMAIN ls : j # u => Apart(ls[j], ls[u])

\* One element of a list gives way to others.
Replaced(ls, i, ms, rs) ==
  /\ Len(rs) = Len(ls) - 1 + Len(ms)
  /\ \A m \in 1 .. Len(rs) :
       rs[m] = IF m < i THEN ls[m]
               ELSE IF m < i + Len(ms) THEN ms[m - i + 1] ELSE ls[m - Len(ms) + 1]

\* The elements of two lists of ranges, one behind the other.
LEMMA ConcatAt ==
  ASSUME NEW fs \in Seq(PieceType), NEW bs \in Seq(PieceType)
  PROVE  /\ fs \o bs \in Seq(PieceType) /\ Len(fs \o bs) = Len(fs) + Len(bs)
         /\ Len(fs) \in Nat /\ Len(bs) \in Nat
         /\ \A m \in 1 .. Len(fs) + Len(bs) :
              (fs \o bs)[m] = IF m <= Len(fs) THEN fs[m] ELSE bs[m - Len(fs)]
<1>1. Len(fs) \in Nat /\ Len(bs) \in Nat
  OBVIOUS
<1>2. fs \o bs \in Seq(PieceType) /\ Len(fs \o bs) = Len(fs) + Len(bs)
  OBVIOUS
<1>3. ASSUME NEW m \in 1 .. Len(fs) + Len(bs)
      PROVE  (fs \o bs)[m] = IF m <= Len(fs) THEN fs[m] ELSE bs[m - Len(fs)]
  <2>1. m \in Nat /\ m >= 1
    BY <1>1
  <2> QED BY <1>1, <2>1
<1> QED BY <1>1, <1>2, <1>3

\* The list that PutPiece() makes of the parts.
LEMMA ReplaceDoes ==
  ASSUME NEW ls \in Seq(PieceType), NEW i \in DOMAIN ls, NEW ms \in Seq(PieceType)
  PROVE  /\ SubSeq(ls, 1, i - 1) \o ms \o SubSeq(ls, i + 1, Len(ls)) \in Seq(PieceType)
         /\ Replaced(ls, i, ms, SubSeq(ls, 1, i - 1) \o ms \o SubSeq(ls, i + 1, Len(ls)))
<1> DEFINE fs == SubSeq(ls, 1, i - 1)
           bs == SubSeq(ls, i + 1, Len(ls))
           hs == fs \o ms
           rs == hs \o bs
           N == Len(ls)
<1>0. N \in Nat /\ i \in 1 .. N /\ Len(ms) \in Nat
  OBVIOUS
<1>1. fs \in Seq(PieceType) /\ Len(fs) = i - 1 /\ \A m \in 1 .. i - 1 : fs[m] = ls[m]
  BY <1>0
<1>2. bs \in Seq(PieceType) /\ Len(bs) = N - i /\ \A m \in 1 .. N - i : bs[m] = ls[i + m]
  BY <1>0
<1> HIDE DEF fs, bs
<1>3. /\ hs \in Seq(PieceType) /\ Len(hs) = i - 1 + Len(ms)
      /\ \A m \in 1 .. i - 1 + Len(ms) : hs[m] = IF m < i THEN ls[m] ELSE ms[m - i + 1]
  <2>0. /\ hs \in Seq(PieceType) /\ Len(hs) = Len(fs) + Len(ms)
        /\ \A m \in 1 .. Len(fs) + Len(ms) :
             hs[m] = IF m <= Len(fs) THEN fs[m] ELSE ms[m - Len(fs)]
    BY <1>1, ConcatAt
  <2> HIDE DEF hs
  <2>1. hs \in Seq(PieceType) /\ Len(hs) = i - 1 + Len(ms)
    BY <1>0, <1>1, <2>0
  <2>2. ASSUME NEW m \in 1 .. i - 1 + Len(ms)
        PROVE  hs[m] = IF m < i THEN ls[m] ELSE ms[m - i + 1]
    <3>1. hs[m] = IF m <= Len(fs) THEN fs[m] ELSE ms[m - Len(fs)]
      BY <1>0, <1>1, <2>0
    <3> QED BY <1>0, <1>1, <3>1
  <2> QED BY <2>1, <2>2
<1> HIDE DEF hs
<1>c. /\ rs \in Seq(PieceType) /\ Len(rs) = Len(hs) + Len(bs)
      /\ \A m \in 1 .. Len(hs) + Len(bs) :
           rs[m] = IF m <= Len(hs) THEN hs[m] ELSE bs[m - Len(hs)]
  BY <1>2, <1>3, ConcatAt
<1> HIDE DEF rs
<1>4. rs \in Seq(PieceType) /\ Len(rs) = N - 1 + Len(ms)
  BY <1>0, <1>2, <1>3, <1>c
<1>5. ASSUME NEW m \in 1 .. Len(rs)
      PROVE  rs[m] = IF m < i THEN ls[m]
                     ELSE IF m < i + Len(ms) THEN ms[m - i + 1] ELSE ls[m - Len(ms) + 1]
  <2>1. rs[m] = IF m <= Len(hs) THEN hs[m] ELSE bs[m - Len(hs)]
    BY <1>0, <1>2, <1>3, <1>4, <1>c
  <2>2. CASE m <= Len(hs)
    BY <1>0, <1>3, <2>1, <2>2
  <2>3. CASE ~ (m <= Len(hs))
    <3> DEFINE x == m - Len(hs)
    <3>0. Len(hs) = i - 1 + Len(ms) /\ m \in 1 .. N - 1 + Len(ms)
      BY <1>3, <1>4
    <3>1. x \in 1 .. N - i /\ i + x = m - Len(ms) + 1 /\ ~ (m < i) /\ ~ (m < i + Len(ms))
      <4>1. x >= 1 /\ x <= N - i
        BY <1>0, <2>3, <3>0
      <4>2. i + x = m - Len(ms) + 1
        BY <1>0, <3>0
      <4>3. ~ (m < i) /\ ~ (m < i + Len(ms))
        BY <1>0, <2>3, <3>0
      <4>4. x \in Int /\ N - i \in Int
        BY <1>0, <3>0
      <4> QED BY <4>1, <4>2, <4>3, <4>4
    <3> QED BY <1>2, <2>1, <2>3, <3>1
  <2> QED BY <2>2, <2>3
<1>6. Replaced(ls, i, ms, rs)
  BY <1>4, <1>5 DEF Replaced
<1> QED BY <1>4, <1>6 DEF rs, hs, fs, bs

\* The list has the new elements and the others of the old ones, which stay
\* apart.
LEMMA ReplaceKeeps ==
  ASSUME NEW ls \in Seq(PieceType), NEW i \in DOMAIN ls, NEW ms \in Seq(PieceType),
         NEW rs \in Seq(PieceType), Replaced(ls, i, ms, rs),
         AllApart(ls), AllApart(ms),
         \A t \in DOMAIN ms : \A u \in DOMAIN ls : u # i => Apart(ls[u], ms[t])
  PROVE  /\ AllApart(rs)
         /\ \A m \in DOMAIN rs : \/ \E t \in DOMAIN ms : rs[m] = ms[t]
                                 \/ \E u \in DOMAIN ls : u # i /\ rs[m] = ls[u]
         /\ \A t \in DOMAIN ms : \E m \in DOMAIN rs : rs[m] = ms[t]
         /\ \A u \in DOMAIN ls : u # i => \E m \in DOMAIN rs : rs[m] = ls[u]
<1> DEFINE N == Len(ls)
           M == Len(ms)
<1>0. /\ N \in Nat /\ M \in Nat /\ i \in 1 .. N /\ DOMAIN ls = 1 .. N /\ DOMAIN ms = 1 .. M
      /\ DOMAIN rs = 1 .. N - 1 + M
  BY DEF Replaced
<1>1. \A m \in 1 .. N - 1 + M :
        /\ m < i => m \in DOMAIN ls /\ m # i /\ rs[m] = ls[m]
        /\ m >= i /\ m < i + M => m - i + 1 \in DOMAIN ms /\ rs[m] = ms[m - i + 1]
        /\ m >= i + M => m - M + 1 \in DOMAIN ls /\ m - M + 1 # i /\ rs[m] = ls[m - M + 1]
  BY <1>0 DEF Replaced
<1> HIDE DEF N, M
<1>2. ASSUME NEW m \in DOMAIN rs, NEW n \in DOMAIN rs, m < n PROVE Apart(rs[m], rs[n])
  <2>0. m \in 1 .. N - 1 + M /\ n \in 1 .. N - 1 + M
    BY <1>0
  <2>1. CASE n < i
    BY <1>0, <1>1, <1>2, <2>0, <2>1 DEF AllApart
  <2>2. CASE n >= i /\ n < i + M
    <3>1. n - i + 1 \in DOMAIN ms /\ rs[n] = ms[n - i + 1]
      BY <1>1, <2>0, <2>2
    <3>2. CASE m < i
      BY <1>1, <2>0, <3>1, <3>2
    <3>3. CASE m >= i
      <4>1. m - i + 1 \in DOMAIN ms /\ rs[m] = ms[m - i + 1] /\ m - i + 1 # n - i + 1
        BY <1>0, <1>1, <1>2, <2>0, <2>2, <3>3
      <4> QED BY <3>1, <4>1 DEF AllApart
    <3> QED BY <1>0, <2>0, <3>2, <3>3
  <2>3. CASE n >= i + M
    <3>1. n - M + 1 \in DOMAIN ls /\ n - M + 1 # i /\ rs[n] = ls[n - M + 1]
      BY <1>1, <2>0, <2>3
    <3>2. CASE m < i
      <4>1. m \in DOMAIN ls /\ rs[m] = ls[m] /\ m # n - M + 1
        BY <1>0, <1>1, <2>0, <2>3, <3>2
      <4> QED BY <3>1, <4>1 DEF AllApart
    <3>3. CASE m >= i /\ m < i + M
      <4>1. m - i + 1 \in DOMAIN ms /\ rs[m] = ms[m - i + 1]
        BY <1>1, <2>0, <3>3
      <4>2. Apart(ls[n - M + 1], ms[m - i + 1])
        BY <3>1, <4>1
      <4> QED BY <3>1, <4>1, <4>2 DEF Apart
    <3>4. CASE m >= i + M
      <4>1. m - M + 1 \in DOMAIN ls /\ rs[m] = ls[m - M + 1] /\ m - M + 1 # n - M + 1
        BY <1>0, <1>1, <1>2, <2>0, <3>4
      <4> QED BY <3>1, <4>1 DEF AllApart
    <3> QED BY <1>0, <2>0, <3>2, <3>3, <3>4
  <2> QED BY <1>0, <2>0, <2>1, <2>2, <2>3
<1>3. AllApart(rs)
  <2> SUFFICES ASSUME NEW m \in DOMAIN rs, NEW n \in DOMAIN rs, m # n PROVE Apart(rs[m], rs[n])
    BY DEF AllApart
  <2>1. CASE m < n
    BY <1>2, <2>1
  <2>2. CASE n < m
    BY <1>2, <2>2 DEF Apart
  <2> QED BY <1>0, <2>1, <2>2
<1>4. ASSUME NEW m \in DOMAIN rs
      PROVE  \/ \E t \in DOMAIN ms : rs[m] = ms[t]
             \/ \E u \in DOMAIN ls : u # i /\ rs[m] = ls[u]
  <2>1. m \in 1 .. N - 1 + M /\ (m < i \/ (m >= i /\ m < i + M) \/ m >= i + M)
    BY <1>0
  <2> QED BY <1>1, <2>1
<1>5. ASSUME NEW t \in DOMAIN ms PROVE \E m \in DOMAIN rs : rs[m] = ms[t]
  <2> DEFINE m == t + i - 1
  <2>1. m \in 1 .. N - 1 + M /\ m >= i /\ m < i + M /\ m - i + 1 = t /\ m \in DOMAIN rs
    BY <1>0
  <2> QED BY <1>1, <2>1
<1>6. ASSUME NEW u \in DOMAIN ls, u # i PROVE \E m \in DOMAIN rs : rs[m] = ls[u]
  <2>1. CASE u < i
    <3>1. u \in 1 .. N - 1 + M /\ u \in DOMAIN rs
      BY <1>0, <2>1
    <3> QED BY <1>1, <2>1, <3>1
  <2>2. CASE u > i
    <3> DEFINE m == u + M - 1
    <3>1. m \in 1 .. N - 1 + M /\ m >= i + M /\ m - M + 1 = u /\ m \in DOMAIN rs
      BY <1>0, <2>2
    <3> QED BY <1>1, <3>1
  <2> QED BY <1>0, <1>6, <2>1, <2>2
<1> QED BY <1>3, <1>4, <1>5, <1>6

\* What is left of a range before and behind a piece.
BeforeOf(curr, p, r) ==
  r.start = curr.start /\ r.end = p.start - 1 /\ r.owner = curr.owner /\ curr.start < p.start
RestOf(curr, p, r) ==
  r.start = p.end + 1 /\ r.end = curr.end /\ r.owner = curr.owner /\ p.end < curr.end

\* What is made of a range that gives way to a piece.
LEMMA SplitDoes ==
  ASSUME NEW curr \in PieceType, NEW p \in PieceType, p.start <= p.end, Covers(curr, p)
  PROVE  LET ms == AI!Split(curr, p) IN
         /\ ms \in Seq(PieceType) /\ AllApart(ms)
         /\ \A t \in DOMAIN ms : ms[t] = p \/ BeforeOf(curr, p, ms[t]) \/ RestOf(curr, p, ms[t])
         /\ \E t \in DOMAIN ms : ms[t] = p
         /\ \A a \in Int : Has(curr, a) => \E t \in DOMAIN ms : Has(ms[t], a)
<1> DEFINE before == [curr EXCEPT !.end = p.start - 1]
           rest == [curr EXCEPT !.start = p.end + 1]
           Does(ms) ==
             /\ ms \in Seq(PieceType) /\ AllApart(ms)
             /\ \A t \in DOMAIN ms :
                  ms[t] = p \/ BeforeOf(curr, p, ms[t]) \/ RestOf(curr, p, ms[t])
             /\ \E t \in DOMAIN ms : ms[t] = p
             /\ \A a \in Int : Has(curr, a) => \E t \in DOMAIN ms : Has(ms[t], a)
<1>0. /\ curr.start \in Nat /\ curr.end \in Nat /\ p.start \in Nat /\ p.end \in Nat
      /\ curr.start <= p.start /\ p.end <= curr.end /\ curr.end <= MemEnd /\ MemEnd \in Nat
  BY AsInfoAssumption DEF PieceType, Covers
<1>1. curr.start # p.start => before \in PieceType /\ BeforeOf(curr, p, before)
  BY <1>0 DEF PieceType, BeforeOf
<1>2. curr.end # p.end => rest \in PieceType /\ RestOf(curr, p, rest)
  BY <1>0 DEF PieceType, RestOf
<1>3. AI!Split(curr, p) =
        CASE curr.start = p.start /\ curr.end = p.end -> <<p>>
          [] curr.start = p.start /\ curr.end # p.end -> <<p, rest>>
          [] curr.start # p.start /\ curr.end = p.end -> <<before, p>>
          [] OTHER -> <<before, p, rest>>
  BY DEF AI!Split
<1> HIDE DEF before, rest
<1>4. CASE curr.start = p.start /\ curr.end = p.end
  <2>1. AI!Split(curr, p) = <<p>>
    BY <1>3, <1>4
  <2>2. Does(<<p>>)
    BY <1>0, <1>4 DEF AllApart, Has
  <2> QED BY <2>1, <2>2
<1>5. CASE curr.start = p.start /\ curr.end # p.end
  <2>1. AI!Split(curr, p) = <<p, rest>>
    BY <1>3, <1>5
  <2>2. Does(<<p, rest>>)
    BY <1>0, <1>2, <1>5 DEF AllApart, Has, RestOf, Apart
  <2> QED BY <2>1, <2>2
<1>6. CASE curr.start # p.start /\ curr.end = p.end
  <2>1. AI!Split(curr, p) = <<before, p>>
    BY <1>3, <1>6
  <2>2. Does(<<before, p>>)
    BY <1>0, <1>1, <1>6 DEF AllApart, Has, BeforeOf, Apart
  <2> QED BY <2>1, <2>2
<1>7. CASE curr.start # p.start /\ curr.end # p.end
  <2>1. AI!Split(curr, p) = <<before, p, rest>>
    BY <1>3, <1>7
  <2>2. Does(<<before, p, rest>>)
    BY <1>0, <1>1, <1>2, <1>7 DEF AllApart, Has, BeforeOf, RestOf, Apart
  <2> QED BY <2>1, <2>2
<1> QED BY <1>4, <1>5, <1>6, <1>7

\* A piece in a list in which it meets nothing, or lies in one range.
Put(ls, p, rs) ==
  /\ rs \in Seq(PieceType) /\ AllApart(rs)
  /\ \A m \in DOMAIN rs :
       \/ rs[m] = p
       \/ \E u \in DOMAIN ls :
            \/ rs[m] = ls[u] /\ Apart(ls[u], p)
            \/ Covers(ls[u], p) /\ (BeforeOf(ls[u], p, rs[m]) \/ RestOf(ls[u], p, rs[m]))
  /\ \E m \in DOMAIN rs : rs[m] = p
  /\ \A u \in DOMAIN ls : \A a \in Int : Has(ls[u], a) => \E m \in DOMAIN rs : Has(rs[m], a)

\* A piece in the list: what it has is the piece's, the rest as before.
LEMMA PutDoes ==
  ASSUME NEW ls \in Seq(PieceType), Full(ls), AllApart(ls), NEW p \in PieceType, p.start <= p.end,
         \A u \in DOMAIN ls : Apart(ls[u], p) \/ Covers(ls[u], p)
  PROVE  Put(ls, p, AI!PutPiece(ls, p))
<1> DEFINE hits == {i \in DOMAIN ls : ls[i].start <= p.start /\ ls[i].end >= p.start}
           i == AI!Min(hits)
           M == AI!Split(ls[i], p)
           R == SubSeq(ls, 1, i - 1) \o M \o SubSeq(ls, i + 1, Len(ls))
<1>0. /\ Len(ls) \in Nat /\ DOMAIN ls = 1 .. Len(ls) /\ \A u \in DOMAIN ls : ls[u] \in PieceType
  OBVIOUS
<1>t. \A x \in PieceType : x.start \in Nat /\ x.end \in Nat
  BY AsInfoAssumption DEF PieceType
<1>1. AI!PutPiece(ls, p) = IF hits = {} THEN Append(ls, p) ELSE R
  BY DEF AI!PutPiece
<1>2. \A u \in DOMAIN ls : u \in hits <=> Covers(ls[u], p)
  BY <1>0, <1>t DEF Covers, Apart
<1>3. \A u \in DOMAIN ls : u \notin hits => Apart(ls[u], p)
  BY <1>2
<1>4. CASE hits = {}
  <2> DEFINE rs == Append(ls, p)
             n == Len(ls) + 1
  <2>1. rs \in Seq(PieceType) /\ Len(rs) = n /\ DOMAIN rs = 1 .. n
    BY <1>0
  <2>2. rs[n] = p /\ \A m \in DOMAIN ls : rs[m] = ls[m]
    BY <1>0
  <2> HIDE DEF rs
  <2>3. \A u \in DOMAIN ls : Apart(ls[u], p)
    BY <1>3, <1>4
  <2>4. \A m \in DOMAIN rs : m = n \/ m \in DOMAIN ls
    BY <1>0, <2>1
  <2>5. AllApart(rs)
    <3> SUFFICES ASSUME NEW m1 \in DOMAIN rs, NEW m2 \in DOMAIN rs, m1 # m2
                 PROVE  Apart(rs[m1], rs[m2])
      BY DEF AllApart
    <3>1. CASE m1 \in DOMAIN ls /\ m2 \in DOMAIN ls
      BY <2>2, <3>1 DEF AllApart
    <3>2. CASE m1 = n
      BY <2>2, <2>3, <2>4, <3>2 DEF Apart
    <3>3. CASE m2 = n
      BY <2>2, <2>3, <2>4, <3>3 DEF Apart
    <3> QED BY <2>4, <3>1, <3>2, <3>3
  <2>6. \A m \in DOMAIN rs : rs[m] = p \/ \E u \in DOMAIN ls : rs[m] = ls[u] /\ Apart(ls[u], p)
    BY <2>2, <2>3, <2>4
  <2>7. n \in DOMAIN rs /\ \A u \in DOMAIN ls : u \in DOMAIN rs
    BY <1>0, <2>1
  <2>8. Put(ls, p, rs)
    BY <2>1, <2>2, <2>5, <2>6, <2>7, Zenon DEF Put
  <2> QED BY <1>1, <1>4, <2>8 DEF rs
<1>5. CASE hits # {}
  <2>1. PICK x \in hits : TRUE
    BY <1>5
  <2>2. x \in DOMAIN ls /\ Covers(ls[x], p)
    BY <1>2, <2>1
  <2>3. \A y \in DOMAIN ls : y # x => ~ Covers(ls[y], p)
    <3> SUFFICES ASSUME NEW y \in DOMAIN ls, y # x, Covers(ls[y], p) PROVE FALSE
      OBVIOUS
    <3>1. Apart(ls[x], ls[y])
      BY <2>2 DEF AllApart
    <3> QED BY <1>0, <1>t, <2>2, <3>1 DEF Apart, Covers
  <2>4. hits = {x}
    BY <1>2, <2>2, <2>3
  <2>5. i = x
    <3>1. {x} \in SUBSET Int /\ x \in {x} /\ \A y \in {x} : x <= y
      BY <1>0, <2>2
    <3>2. AI!Min({x}) = x
      BY <3>1, LowestIs
    <3> QED BY <2>4, <3>2
  <2> DEFINE ms == AI!Split(ls[x], p)
             rs == SubSeq(ls, 1, x - 1) \o ms \o SubSeq(ls, x + 1, Len(ls))
  <2>6. /\ ms \in Seq(PieceType) /\ AllApart(ms)
        /\ \A t \in DOMAIN ms : ms[t] = p \/ BeforeOf(ls[x], p, ms[t]) \/ RestOf(ls[x], p, ms[t])
        /\ \E t \in DOMAIN ms : ms[t] = p
        /\ \A a \in Int : Has(ls[x], a) => \E t \in DOMAIN ms : Has(ms[t], a)
    <3>1. ls[x] \in PieceType
      BY <1>0, <2>2
    <3> QED BY <2>2, <3>1, SplitDoes
  <2>7. AI!PutPiece(ls, p) = rs
    <3> HIDE DEF hits, i
    <3> QED BY <1>1, <1>5, <2>5
  <2> HIDE DEF ms, hits, i
  <2>8. rs \in Seq(PieceType) /\ Replaced(ls, x, ms, rs)
    BY <2>2, <2>6, ReplaceDoes
  <2> HIDE DEF rs
  <2>9. \A t \in DOMAIN ms : \A u \in DOMAIN ls : u # x => Apart(ls[u], ms[t])
    <3> SUFFICES ASSUME NEW t \in DOMAIN ms, NEW u \in DOMAIN ls, u # x PROVE Apart(ls[u], ms[t])
      OBVIOUS
    <3>1. Apart(ls[u], ls[x]) /\ ls[x] \in PieceType /\ ls[u] \in PieceType
      BY <1>0, <2>2 DEF AllApart
    <3>2. ms[t] = p \/ BeforeOf(ls[x], p, ms[t]) \/ RestOf(ls[x], p, ms[t])
      BY <2>6
    <3> QED BY <1>t, <2>2, <3>1, <3>2 DEF Apart, Covers, BeforeOf, RestOf
  <2>10. /\ AllApart(rs)
         /\ \A m \in DOMAIN rs : \/ \E t \in DOMAIN ms : rs[m] = ms[t]
                                 \/ \E u \in DOMAIN ls : u # x /\ rs[m] = ls[u]
         /\ \A t \in DOMAIN ms : \E m \in DOMAIN rs : rs[m] = ms[t]
         /\ \A u \in DOMAIN ls : u # x => \E m \in DOMAIN rs : rs[m] = ls[u]
    BY <2>2, <2>6, <2>8, <2>9, ReplaceKeeps
  <2>11. ASSUME NEW m \in DOMAIN rs
         PROVE  \/ rs[m] = p
                \/ \E u \in DOMAIN ls :
                     \/ rs[m] = ls[u] /\ Apart(ls[u], p)
                     \/ Covers(ls[u], p) /\ (BeforeOf(ls[u], p, rs[m]) \/ RestOf(ls[u], p, rs[m]))
    <3>1. CASE \E t \in DOMAIN ms : rs[m] = ms[t]
      BY <2>2, <2>6, <3>1
    <3>2. CASE \E u \in DOMAIN ls : u # x /\ rs[m] = ls[u]
      <4>1. PICK u \in DOMAIN ls : u # x /\ rs[m] = ls[u]
        BY <3>2
      <4>2. Apart(ls[u], p)
        BY <1>3, <2>4, <4>1
      <4> QED BY <4>1, <4>2
    <3> QED BY <2>10, <3>1, <3>2
  <2>12. \E m \in DOMAIN rs : rs[m] = p
    BY <2>6, <2>10
  <2>13. ASSUME NEW u \in DOMAIN ls, NEW a \in Int, Has(ls[u], a)
         PROVE  \E m \in DOMAIN rs : Has(rs[m], a)
    <3>1. CASE u = x
      <4>1. PICK t \in DOMAIN ms : Has(ms[t], a)
        BY <2>6, <2>13, <3>1
      <4> QED BY <2>10, <4>1
    <3>2. CASE u # x
      BY <2>10, <2>13, <3>2
    <3> QED BY <3>1, <3>2
  <2>14. Put(ls, p, rs)
    BY <2>8, <2>10, <2>11, <2>12, <2>13, Zenon DEF Put
  <2> QED BY <2>7, <2>14
<1> QED BY <1>4, <1>5

\* The next entry takes over the addresses it has, if it is under the container.
LEMMA InnerStep ==
  ASSUME NEW tb, NEW o \in Nat, o >= 1, NEW c, NEW a, NEW i
  PROVE  /\ AI!MatchName(tb, o, c) /\ Has(tb[o], a) => (InnerAt(tb, o, c, a, i) <=> i = o)
         /\ ~ (AI!MatchName(tb, o, c) /\ Has(tb[o], a)) =>
              (InnerAt(tb, o, c, a, i) <=> InnerAt(tb, o - 1, c, a, i))
<1> DEFINE Takes(x) == AI!MatchName(tb, x, c) /\ Has(tb[x], a)
<1>1. \A y : InnerAt(tb, y, c, a, i) <=> i \in 1 .. y /\ Takes(i) /\ \A j \in 1 .. y : j > i => ~ Takes(j)
  BY DEF InnerAt
<1> HIDE DEF Takes
<1>2. Takes(o) => (InnerAt(tb, o, c, a, i) <=> i = o)
  BY <1>1
<1>3. ~ Takes(o) => (InnerAt(tb, o, c, a, i) <=> InnerAt(tb, o - 1, c, a, i))
  <2>1. 1 .. o = 1 .. (o - 1) \cup {o}
    OBVIOUS
  <2> QED BY <1>1, <2>1
<1> QED BY <1>2, <1>3 DEF Takes

\* An address has one innermost entry.
LEMMA InnerOne ==
  ASSUME NEW tb, NEW o \in Nat, NEW c, NEW a, NEW i, NEW j,
         InnerAt(tb, o, c, a, i), InnerAt(tb, o, c, a, j)
  PROVE  i = j
<1>1. i \in 1 .. o /\ j \in 1 .. o /\ ~ (i > j) /\ ~ (j > i)
  BY DEF InnerAt
<1> QED BY <1>1

\* A range of the list is what the request has of one entry before another
\* one of them begins; the ranges have all of the request that is under the
\* container.
PieceOk(tb, o, b, e, c, p) ==
  /\ b <= p.start /\ p.start <= p.end /\ p.end <= e
  /\ \A a \in p.start .. p.end : InnerAt(tb, o, c, a, p.owner)
  /\ b <= p.start - 1 => ~ InnerAt(tb, o, c, p.start - 1, p.owner)
  /\ p.end + 1 <= e => ~ InnerAt(tb, o, c, p.end + 1, p.owner)
PiecesOk(tb, o, b, e, c, ls) ==
  /\ ls \in Seq(PieceType) /\ AllApart(ls)
  /\ \A j \in DOMAIN ls : PieceOk(tb, o, b, e, c, ls[j])
  /\ \A a \in b .. e : \A i \in 1 .. o :
       InnerAt(tb, o, c, a, i) => \E j \in DOMAIN ls : Has(ls[j], a)

\* as_find_containing() finds what has an address of the request.
LEMMA TouchIs ==
  ASSUME NEW tb, Table(tb), NEW o \in DOMAIN tb, NEW b \in 0 .. MemEnd, NEW e \in b .. MemEnd
  PROVE  /\ AI!Touches(tb[o], b, e) <=> tb[o].start <= e /\ b <= tb[o].end
         /\ AI!Touches(tb[o], b, e) => AI!Part(tb, o, b, e) \in PieceType
         /\ AI!Touches(tb[o], b, e) =>
              LET p == AI!Part(tb, o, b, e) IN
              /\ p.start <= p.end /\ p.owner = o
              /\ \A a \in Int : Has(p, a) <=> a \in b .. e /\ Has(tb[o], a)
<1>1. /\ tb[o].start \in Nat /\ tb[o].end \in Nat /\ tb[o].start <= tb[o].end /\ tb[o].end <= MemEnd
      /\ o \in Nat
  BY TableFacts, AsInfoAssumption
<1>2. b \in Nat /\ e \in Nat /\ b <= e /\ e <= MemEnd /\ MemEnd \in Nat
  BY AsInfoAssumption
<1>3. AI!Touches(tb[o], b, e) <=> tb[o].start <= e /\ b <= tb[o].end
  BY <1>1, <1>2 DEF AI!Touches
<1> DEFINE p == AI!Part(tb, o, b, e)
<1>4. /\ p.start = IF tb[o].start > b THEN tb[o].start ELSE b
      /\ p.end = IF tb[o].end < e THEN tb[o].end ELSE e
      /\ p.owner = o
  BY DEF AI!Part
<1>5. ASSUME AI!Touches(tb[o], b, e) PROVE p \in PieceType
  <2>1. p = [start |-> IF tb[o].start > b THEN tb[o].start ELSE b,
             end |-> IF tb[o].end < e THEN tb[o].end ELSE e, owner |-> o]
    BY DEF AI!Part
  <2> HIDE DEF p
  <2> QED BY <1>1, <1>2, <2>1 DEF PieceType
<1> HIDE DEF p
<1>6. ASSUME AI!Touches(tb[o], b, e)
      PROVE  p.start <= p.end /\ \A a \in Int : Has(p, a) <=> a \in b .. e /\ Has(tb[o], a)
  BY <1>1, <1>2, <1>3, <1>4, <1>6 DEF Has
<1> QED BY <1>3, <1>4, <1>5, <1>6 DEF p

\* One container more: the list has the innermost owners of the first o entries.
LEMMA PiecesStep ==
  ASSUME NEW tb, Table(tb), Nested(tb), NEW b \in 0 .. MemEnd, NEW e \in b .. MemEnd, NEW c,
         NEW o \in DOMAIN tb, NEW ls, PiecesOk(tb, o - 1, b, e, c, ls)
  PROVE  PiecesOk(tb, o, b, e, c,
           IF o \in AI!AsFindContaining(tb, b, e, c) THEN AI!PutPiece(ls, AI!Part(tb, o, b, e)) ELSE ls)
<1> DEFINE p == AI!Part(tb, o, b, e)
           rs == AI!PutPiece(ls, p)
           Takes(a) == AI!MatchName(tb, o, c) /\ Has(tb[o], a)
<1>0. /\ DOMAIN tb = 1 .. Len(tb) /\ Len(tb) \in Nat /\ o \in Nat /\ o >= 1
      /\ \A i \in DOMAIN tb : tb[i].start \in Nat /\ tb[i].end \in Nat /\ tb[i].start <= tb[i].end
  BY TableFacts, AsInfoAssumption
<1>b. b \in Nat /\ e \in Nat /\ b <= e /\ e <= MemEnd
  BY AsInfoAssumption
<1>p. \A x \in PieceType : x.start \in Nat /\ x.end \in Nat
  BY AsInfoAssumption DEF PieceType
<1>l. /\ ls \in Seq(PieceType) /\ AllApart(ls) /\ \A j \in DOMAIN ls : ls[j] \in PieceType
      /\ \A j \in DOMAIN ls : PieceOk(tb, o - 1, b, e, c, ls[j])
      /\ \A a \in b .. e : \A i \in 1 .. o - 1 :
           InnerAt(tb, o - 1, c, a, i) => \E j \in DOMAIN ls : Has(ls[j], a)
  BY DEF PiecesOk
<1>1. o \in AI!AsFindContaining(tb, b, e, c) <=> AI!MatchName(tb, o, c) /\ AI!Touches(tb[o], b, e)
  BY DEF AI!AsFindContaining
<1>2. \A a, i : /\ Takes(a) => (InnerAt(tb, o, c, a, i) <=> i = o)
                /\ ~ Takes(a) => (InnerAt(tb, o, c, a, i) <=> InnerAt(tb, o - 1, c, a, i))
  BY <1>0, InnerStep
<1>3. CASE o \notin AI!AsFindContaining(tb, b, e, c)
  <2>1. ASSUME NEW a \in b .. e PROVE ~ Takes(a)
    <3>1. Has(tb[o], a) => AI!Touches(tb[o], b, e)
      BY <1>0, <1>b, TouchIs DEF Has
    <3> QED BY <1>1, <1>3, <3>1
  <2>2. \A a \in b .. e : \A i : InnerAt(tb, o, c, a, i) <=> InnerAt(tb, o - 1, c, a, i)
    BY <1>2, <2>1
  <2>3. ASSUME NEW j \in DOMAIN ls PROVE PieceOk(tb, o, b, e, c, ls[j])
    <3>1. PieceOk(tb, o - 1, b, e, c, ls[j]) /\ ls[j].start \in Nat /\ ls[j].end \in Nat
      BY <1>p, <1>l
    <3> QED BY <1>b, <2>2, <3>1 DEF PieceOk
  <2>4. ASSUME NEW a \in b .. e, NEW i \in 1 .. o, InnerAt(tb, o, c, a, i)
        PROVE  \E j \in DOMAIN ls : Has(ls[j], a)
    <3>1. InnerAt(tb, o - 1, c, a, i)
      BY <2>2, <2>4
    <3>2. i \in 1 .. o - 1
      BY <3>1 DEF InnerAt
    <3> QED BY <1>l, <3>1, <3>2
  <2> QED BY <1>l, <1>3, <2>3, <2>4 DEF PiecesOk
<1>4. CASE o \in AI!AsFindContaining(tb, b, e, c)
  <2>1. /\ p \in PieceType /\ p.start <= p.end /\ p.owner = o
        /\ \A a \in Int : Has(p, a) <=> a \in b .. e /\ Has(tb[o], a)
        /\ AI!MatchName(tb, o, c)
    BY <1>1, <1>4, TouchIs
  <2> HIDE DEF p
  <2>2. p.start \in Nat /\ p.end \in Nat /\ Has(p, p.start) /\ Has(p, p.end)
    BY <1>p, <2>1 DEF Has
  <2>3. b <= p.start /\ p.end <= e
    BY <1>b, <2>1, <2>2
  <2>4. \A a \in b .. e : Takes(a) <=> Has(p, a)
    BY <1>b, <2>1
  <2>5. \A a \in b .. e : \A i :
          /\ Has(p, a) => (InnerAt(tb, o, c, a, i) <=> i = o)
          /\ ~ Has(p, a) => (InnerAt(tb, o, c, a, i) <=> InnerAt(tb, o - 1, c, a, i))
    BY <1>2, <2>4
  <2>6. ASSUME NEW u \in DOMAIN ls
        PROVE  /\ ls[u].start \in Nat /\ ls[u].end \in Nat
               /\ PieceOk(tb, o - 1, b, e, c, ls[u])
               /\ b <= ls[u].start /\ ls[u].start <= ls[u].end /\ ls[u].end <= e
               /\ ls[u].owner \in 1 .. o - 1
               /\ \A a \in ls[u].start .. ls[u].end : InnerAt(tb, o - 1, c, a, ls[u].owner)
    <3>1. ls[u].start \in Nat /\ ls[u].end \in Nat /\ PieceOk(tb, o - 1, b, e, c, ls[u])
      BY <1>p, <1>l
    <3>2. InnerAt(tb, o - 1, c, ls[u].start, ls[u].owner)
      BY <3>1 DEF PieceOk
    <3>3. ls[u].owner \in 1 .. o - 1
      BY <3>2 DEF InnerAt
    <3> QED BY <3>1, <3>3 DEF PieceOk
  <2>7. ASSUME NEW u \in DOMAIN ls PROVE Apart(ls[u], p) \/ Covers(ls[u], p)
    <3> SUFFICES ASSUME ~ Apart(ls[u], p) PROVE Covers(ls[u], p)
      OBVIOUS
    <3> DEFINE a == IF ls[u].start > p.start THEN ls[u].start ELSE p.start
               q == ls[u].owner
    <3>1. a \in ls[u].start .. ls[u].end /\ Has(p, a) /\ a \in b .. e /\ a \in Nat
      BY <1>b, <2>1, <2>2, <2>3, <2>6 DEF Apart, Has
    <3> HIDE DEF a
    <3>2. InnerAt(tb, o - 1, c, a, q) /\ Has(tb[o], a)
      BY <2>1, <2>6, <3>1
    <3>3. /\ q \in 1 .. o - 1 /\ AI!MatchName(tb, q, c) /\ Has(tb[q], a)
          /\ \A j \in 1 .. o - 1 : j > q /\ AI!MatchName(tb, j, c) => ~ Has(tb[j], a)
      BY <3>2 DEF InnerAt
    <3>4. ASSUME NEW j \in 1 .. o - 1, Has(tb[o], a)
          PROVE  /\ Has(tb[j], a) => Covers(tb[j], tb[o])
                 /\ \A x \in Int : Has(tb[j], x) /\ Has(tb[o], x) => Covers(tb[j], tb[o])
      <4>1. j \in DOMAIN tb /\ j < o
        BY <1>0
      <4>2. Covers(tb[j], tb[o]) \/ Apart(tb[j], tb[o])
        BY <4>1 DEF Nested
      <4>3. ASSUME NEW x \in Int, Has(tb[j], x), Has(tb[o], x) PROVE Covers(tb[j], tb[o])
        <5>0. /\ tb[j].start \in Int /\ tb[j].end \in Int
              /\ tb[o].start \in Int /\ tb[o].end \in Int
          <6>1. j \in DOMAIN tb /\ o \in DOMAIN tb
            BY <1>0, <4>1
          <6> QED BY <1>0, <6>1
        <5>1. ~ Apart(tb[j], tb[o])
          BY <4>3, <5>0, NoneOfBoth
        <5> QED BY <4>2, <5>1
      <4>4. a \in Int
        BY <3>1
      <4> QED BY <3>4, <4>3, <4>4, Zenon
    <3>5. ASSUME NEW x \in Int, Has(p, x) PROVE InnerAt(tb, o - 1, c, x, q)
      <4>1. Has(tb[o], x) /\ Has(tb[o], a)
        BY <2>1, <3>2, <3>5
      <4>2. Covers(tb[q], tb[o]) /\ q \in DOMAIN tb
        BY <1>0, <3>3, <3>4, <4>1
      <4>3. Has(tb[q], x)
        BY <1>0, <4>1, <4>2 DEF Covers, Has
      <4>4. ASSUME NEW j \in 1 .. o - 1, j > q, AI!MatchName(tb, j, c), Has(tb[j], x) PROVE FALSE
        <5>1. Covers(tb[j], tb[o]) /\ j \in DOMAIN tb
          BY <1>0, <3>4, <4>1, <4>4
        <5>2. Has(tb[j], a)
          BY <1>0, <3>1, <4>1, <5>1 DEF Covers, Has
        <5> QED BY <3>3, <4>4, <5>2
      <4> QED BY <3>3, <4>3, <4>4 DEF InnerAt
    <3>6. ls[u].start <= p.start
      <4> SUFFICES ASSUME ls[u].start > p.start PROVE FALSE
        BY <2>2, <2>6
      <4>1. ls[u].start - 1 \in Int /\ Has(p, ls[u].start - 1) /\ b <= ls[u].start - 1
        BY <1>b, <2>2, <2>3, <2>6, <3>1 DEF Has
      <4> QED BY <2>6, <3>5, <4>1 DEF PieceOk
    <3>7. p.end <= ls[u].end
      <4> SUFFICES ASSUME ls[u].end < p.end PROVE FALSE
        BY <2>2, <2>6
      <4>1. ls[u].end + 1 \in Int /\ Has(p, ls[u].end + 1) /\ ls[u].end + 1 <= e
        BY <1>b, <2>2, <2>3, <2>6, <3>1 DEF Has
      <4> QED BY <2>6, <3>5, <4>1 DEF PieceOk
    <3> QED BY <3>6, <3>7 DEF Covers
  <2>8. Put(ls, p, rs)
    <3>1. Full(ls)
      BY <2>6 DEF Full
    <3> QED BY <1>l, <2>1, <2>7, <3>1, PutDoes
  <2> HIDE DEF rs
  <2>9. ASSUME NEW u \in DOMAIN ls
        PROVE  /\ b <= ls[u].start - 1 => ~ InnerAt(tb, o, c, ls[u].start - 1, ls[u].owner)
               /\ ls[u].end + 1 <= e => ~ InnerAt(tb, o, c, ls[u].end + 1, ls[u].owner)
    BY <1>b, <2>5, <2>6, <2>9 DEF PieceOk
  <2>10. ASSUME NEW m \in DOMAIN rs PROVE PieceOk(tb, o, b, e, c, rs[m])
    <3>1. CASE rs[m] = p
      <4>1. \A a \in p.start .. p.end : Has(p, a) /\ a \in b .. e
        BY <1>b, <2>2, <2>3 DEF Has
      <4>2. ~ Has(p, p.start - 1) /\ ~ Has(p, p.end + 1)
        BY <2>2 DEF Has
      <4>3. \A a : ~ InnerAt(tb, o - 1, c, a, o)
        BY <1>0 DEF InnerAt
      <4>4. b <= p.start - 1 => ~ InnerAt(tb, o, c, p.start - 1, o)
        BY <1>b, <2>1, <2>2, <2>3, <2>5, <4>2, <4>3
      <4>5. p.end + 1 <= e => ~ InnerAt(tb, o, c, p.end + 1, o)
        BY <1>b, <2>1, <2>2, <2>3, <2>5, <4>2, <4>3
      <4> QED BY <2>1, <2>3, <2>5, <3>1, <4>1, <4>4, <4>5 DEF PieceOk
    <3>2. CASE \E u \in DOMAIN ls : rs[m] = ls[u] /\ Apart(ls[u], p)
      <4>1. PICK u \in DOMAIN ls : rs[m] = ls[u] /\ Apart(ls[u], p)
        BY <3>2
      <4>2. \A a \in ls[u].start .. ls[u].end : ~ Has(p, a) /\ a \in b .. e
        BY <1>b, <2>2, <2>6, <4>1 DEF Has, Apart
      <4> QED BY <2>5, <2>6, <2>9, <4>1, <4>2 DEF PieceOk
    <3>3. CASE \E u \in DOMAIN ls : Covers(ls[u], p) /\ BeforeOf(ls[u], p, rs[m])
      <4>1. PICK u \in DOMAIN ls : Covers(ls[u], p) /\ BeforeOf(ls[u], p, rs[m])
        BY <3>3
      <4> DEFINE r == rs[m]
      <4>2. /\ r.start = ls[u].start /\ r.end = p.start - 1 /\ r.owner = ls[u].owner
            /\ ls[u].start < p.start /\ p.end <= ls[u].end
        BY <4>1 DEF BeforeOf, Covers
      <4> HIDE DEF r
      <4>3. \A a \in r.start .. r.end :
              ~ Has(p, a) /\ a \in b .. e /\ a \in ls[u].start .. ls[u].end
        BY <1>b, <2>1, <2>2, <2>6, <4>2 DEF Has
      <4>4. ~ InnerAt(tb, o, c, r.end + 1, r.owner)
        <5>1. r.end + 1 = p.start /\ p.start \in b .. e /\ r.owner # o
          BY <1>b, <1>0, <2>1, <2>2, <2>3, <2>6, <4>2
        <5> QED BY <2>2, <2>5, <5>1
      <4>5. \A a \in r.start .. r.end : InnerAt(tb, o, c, a, r.owner)
        BY <2>5, <2>6, <4>2, <4>3
      <4>6. b <= r.start /\ r.start <= r.end /\ r.end <= e
        BY <1>b, <2>1, <2>2, <2>3, <2>6, <4>2
      <4> QED BY <2>9, <4>2, <4>4, <4>5, <4>6 DEF PieceOk, r
    <3>4. CASE \E u \in DOMAIN ls : Covers(ls[u], p) /\ RestOf(ls[u], p, rs[m])
      <4>1. PICK u \in DOMAIN ls : Covers(ls[u], p) /\ RestOf(ls[u], p, rs[m])
        BY <3>4
      <4> DEFINE r == rs[m]
      <4>2. /\ r.start = p.end + 1 /\ r.end = ls[u].end /\ r.owner = ls[u].owner
            /\ p.end < ls[u].end /\ ls[u].start <= p.start
        BY <4>1 DEF RestOf, Covers
      <4> HIDE DEF r
      <4>3. \A a \in r.start .. r.end :
              ~ Has(p, a) /\ a \in b .. e /\ a \in ls[u].start .. ls[u].end
        BY <1>b, <2>1, <2>2, <2>6, <4>2 DEF Has
      <4>4. ~ InnerAt(tb, o, c, r.start - 1, r.owner)
        <5>1. r.start - 1 = p.end /\ p.end \in b .. e /\ r.owner # o
          BY <1>b, <1>0, <2>1, <2>2, <2>3, <2>6, <4>2
        <5> QED BY <2>2, <2>5, <5>1
      <4>5. \A a \in r.start .. r.end : InnerAt(tb, o, c, a, r.owner)
        BY <2>5, <2>6, <4>2, <4>3
      <4>6. b <= r.start /\ r.start <= r.end /\ r.end <= e
        BY <1>b, <2>1, <2>2, <2>3, <2>6, <4>2
      <4> QED BY <2>9, <4>2, <4>4, <4>5, <4>6 DEF PieceOk, r
    <3> QED BY <2>8, <3>1, <3>2, <3>3, <3>4 DEF Put
  <2>11. ASSUME NEW a \in b .. e, NEW i \in 1 .. o, InnerAt(tb, o, c, a, i)
         PROVE  \E m \in DOMAIN rs : Has(rs[m], a)
    <3>1. CASE Has(p, a)
      BY <2>8, <3>1 DEF Put
    <3>2. CASE ~ Has(p, a)
      <4>1. InnerAt(tb, o - 1, c, a, i)
        BY <2>5, <2>11, <3>2
      <4>2. i \in 1 .. o - 1 /\ a \in Int
        BY <1>b, <4>1 DEF InnerAt
      <4>3. \E j \in DOMAIN ls : Has(ls[j], a)
        BY <1>l, <4>1, <4>2
      <4> QED BY <2>8, <4>2, <4>3 DEF Put
    <3> QED BY <3>1, <3>2
  <2>12. rs \in Seq(PieceType) /\ AllApart(rs)
    BY <2>8 DEF Put
  <2>13. PiecesOk(tb, o, b, e, c, rs)
    BY <2>10, <2>11, <2>12 DEF PiecesOk
  <2> QED BY <1>4, <2>13 DEF rs, p
<1> QED BY <1>3, <1>4

\* A least one, too.
LEMMA FirstExists ==
  ASSUME NEW n \in Nat, NEW T \in SUBSET (0 .. n), T # {}
  PROVE  \E m \in T : \A y \in T : m <= y
<1> DEFINE V == {v \in 1 .. n + 1 : n + 1 - v \in T}
<1>0. \A y \in T : y \in 0 .. n /\ n + 1 - y \in 1 .. n + 1 /\ n + 1 - (n + 1 - y) = y
  OBVIOUS
<1>1. V \in SUBSET (1 .. n + 1) /\ n + 1 \in Nat
  OBVIOUS
<1>2. \A y \in T : n + 1 - y \in V
  BY <1>0
<1> HIDE DEF V
<1>3. PICK v \in V : \A y \in V : y <= v
  BY <1>1, <1>2, LastExists
<1>4. n + 1 - v \in T /\ v \in 1 .. n + 1
  BY <1>3 DEF V
<1>5. \A y \in T : n + 1 - v <= y
  BY <1>0, <1>2, <1>3, <1>4
<1> QED BY <1>4, <1>5

\* as_add_containing()'s list after all containers.
LEMMA PieceListDoes ==
  ASSUME NEW tb, Table(tb), Nested(tb), NEW b \in 0 .. MemEnd, NEW e \in b .. MemEnd, NEW c
  PROVE  PiecesOk(tb, Len(tb), b, e, c, AI!PieceList(tb, b, e, c))
<1> DEFINE IN_ == AI!AsFindContaining(tb, b, e, c)
           Put1(g, o) == IF o \in IN_ THEN AI!PutPiece(g, AI!Part(tb, o, b, e)) ELSE g
           E(g, o) == IF o = 0 THEN << >>
                      ELSE IF o \in IN_ THEN AI!PutPiece(g[o - 1], AI!Part(tb, o, b, e)) ELSE g[o - 1]
           N == Len(tb)
           Graph(n, g) == g = [o \in 0 .. n |-> E(g, o)]
           Some(n) == \E g : Graph(n, g)
           S == {n \in Nat : Some(n)}
           list == CHOOSE g : g = [o \in 0 .. N |-> E(g, o)]
<1>0. N \in Nat /\ DOMAIN tb = 1 .. N
  BY TableFacts
<1>a. ASSUME NEW g, NEW f, NEW o, o # 0 => f[o - 1] = g[o - 1] PROVE E(f, o) = E(g, o)
  BY <1>a
<1>b. AI!PieceList(tb, b, e, c) = list[N]
  BY DEF AI!PieceList
<1>c. \A g : E(g, 0) = << >>
  OBVIOUS
<1>d. \A g : \A o \in Nat : o # 0 => E(g, o) = Put1(g[o - 1], o)
  OBVIOUS
<1>e. \A o \in DOMAIN tb : \A g : Put1(g, o) = IF o \in AI!AsFindContaining(tb, b, e, c)
                                   THEN AI!PutPiece(g, AI!Part(tb, o, b, e)) ELSE g
  OBVIOUS
<1> HIDE DEF N, E, Put1
<1>1. 0 \in S
  <2> DEFINE g == [o \in 0 .. 0 |-> << >>]
  <2>1. \A o \in 0 .. 0 : o = 0
    OBVIOUS
  <2>2. Graph(0, g)
    BY <1>c, <2>1
  <2> HIDE DEF Graph, g
  <2> QED BY <2>2
<1>2. ASSUME NEW n \in Nat, n \in S PROVE n + 1 \in S
  <2>1. PICK g : Graph(n, g)
    BY <1>2
  <2> DEFINE f == [o \in 0 .. n + 1 |-> IF o = n + 1 THEN E(g, o) ELSE g[o]]
  <2>2. ASSUME NEW o \in 0 .. n + 1 PROVE f[o] = E(f, o)
    <3>1. o # 0 => f[o - 1] = g[o - 1]
      OBVIOUS
    <3>2. E(f, o) = E(g, o)
      <4> HIDE DEF f
      <4> QED BY <1>a, <3>1
    <3>3. CASE o = n + 1
      BY <3>2, <3>3
    <3>4. CASE o # n + 1
      <4>1. o \in 0 .. n /\ f[o] = g[o]
        BY <3>4
      <4>2. g[o] = E(g, o)
        BY <2>1, <4>1
      <4> QED BY <3>2, <4>1, <4>2
    <3> QED BY <3>3, <3>4
  <2>3. f = [o \in 0 .. n + 1 |-> f[o]]
    OBVIOUS
  <2> HIDE DEF f
  <2>4. Graph(n + 1, f)
    BY <2>2, <2>3, Zenon
  <2> HIDE DEF Graph
  <2> QED BY <2>4
<1> HIDE DEF S
<1>3. N \in S
  BY <1>0, <1>1, <1>2, Induct
<1>4. list = [o \in 0 .. N |-> E(list, o)]
  <2>1. PICK g : g = [o \in 0 .. N |-> E(g, o)]
    BY <1>3 DEF S
  <2> QED BY <2>1
<1> HIDE DEF list
<1>5. list[0] = << >> /\ \A o \in 1 .. N : list[o] = Put1(list[o - 1], o)
  <2>1. \A o \in 0 .. N : list[o] = E(list, o)
    BY <1>4, Zenon
  <2> QED BY <1>0, <1>c, <1>d, <2>1
<1> DEFINE Z == {n \in Nat : n <= N => PiecesOk(tb, n, b, e, c, list[n])}
<1>6. 0 \in Z
  <2>1. PiecesOk(tb, 0, b, e, c, << >>)
    BY DEF PiecesOk, AllApart
  <2> QED BY <1>5, <2>1
<1>7. ASSUME NEW n \in Nat, n \in Z PROVE n + 1 \in Z
  <2> SUFFICES ASSUME n + 1 <= N PROVE PiecesOk(tb, n + 1, b, e, c, list[n + 1])
    OBVIOUS
  <2>1. n + 1 \in DOMAIN tb /\ n + 1 - 1 = n /\ list[n + 1] = Put1(list[n], n + 1)
    BY <1>0, <1>5
  <2>2. PiecesOk(tb, n + 1 - 1, b, e, c, list[n])
    BY <1>0, <1>7, <2>1
  <2>3. PiecesOk(tb, n + 1, b, e, c,
           IF n + 1 \in AI!AsFindContaining(tb, b, e, c)
           THEN AI!PutPiece(list[n], AI!Part(tb, n + 1, b, e)) ELSE list[n])
    BY <2>1, <2>2, PiecesStep
  <2> QED BY <1>e, <2>1, <2>3
<1> HIDE DEF Z
<1>8. N \in Z
  BY <1>0, <1>6, <1>7, Induct
<1> QED BY <1>0, <1>b, <1>8 DEF Z, N

\* No range is left out when none is empty.
LEMMA NotEmptyDoes ==
  ASSUME NEW ls \in Seq(PieceType), Full(ls)
  PROVE  AI!NotEmpty(ls) = ls
<1> DEFINE Put1(g, j) == IF ls[j].start <= ls[j].end THEN Append(g, ls[j]) ELSE g
           E(g, j) == IF j = 0 THEN << >>
                      ELSE IF ls[j].start <= ls[j].end THEN Append(g[j - 1], ls[j]) ELSE g[j - 1]
           N == Len(ls)
           Graph(n, g) == g = [j \in 0 .. n |-> E(g, j)]
           Some(n) == \E g : Graph(n, g)
           S == {n \in Nat : Some(n)}
           list == CHOOSE g : g = [j \in 0 .. N |-> E(g, j)]
<1>0. N \in Nat /\ DOMAIN ls = 1 .. N
  OBVIOUS
<1>a. ASSUME NEW g, NEW f, NEW j, j # 0 => f[j - 1] = g[j - 1] PROVE E(f, j) = E(g, j)
  BY <1>a
<1>b. AI!NotEmpty(ls) = list[N]
  BY DEF AI!NotEmpty
<1>c. \A g : E(g, 0) = << >>
  OBVIOUS
<1>d. ASSUME NEW g, NEW n \in 0 .. N - 1 PROVE E(g, n + 1) = Append(g[n], ls[n + 1])
  <2>1. n + 1 \in DOMAIN ls /\ n + 1 # 0 /\ n + 1 - 1 = n
    BY <1>0
  <2>2. ls[n + 1].start <= ls[n + 1].end
    BY <2>1 DEF Full
  <2> QED BY <2>1, <2>2
<1> HIDE DEF N, E
<1>1. 0 \in S
  <2> DEFINE g == [j \in 0 .. 0 |-> << >>]
  <2>1. \A j \in 0 .. 0 : j = 0
    OBVIOUS
  <2>2. Graph(0, g)
    BY <1>c, <2>1
  <2> HIDE DEF Graph, g
  <2> QED BY <2>2
<1>2. ASSUME NEW n \in Nat, n \in S PROVE n + 1 \in S
  <2>1. PICK g : Graph(n, g)
    BY <1>2
  <2> DEFINE f == [j \in 0 .. n + 1 |-> IF j = n + 1 THEN E(g, j) ELSE g[j]]
  <2>2. ASSUME NEW j \in 0 .. n + 1 PROVE f[j] = E(f, j)
    <3>1. j # 0 => f[j - 1] = g[j - 1]
      OBVIOUS
    <3>2. E(f, j) = E(g, j)
      <4> HIDE DEF f
      <4> QED BY <1>a, <3>1
    <3>3. CASE j = n + 1
      BY <3>2, <3>3
    <3>4. CASE j # n + 1
      <4>1. j \in 0 .. n /\ f[j] = g[j]
        BY <3>4
      <4>2. g[j] = E(g, j)
        BY <2>1, <4>1
      <4> QED BY <3>2, <4>1, <4>2
    <3> QED BY <3>3, <3>4
  <2>3. f = [j \in 0 .. n + 1 |-> f[j]]
    OBVIOUS
  <2> HIDE DEF f
  <2>4. Graph(n + 1, f)
    BY <2>2, <2>3, Zenon
  <2> HIDE DEF Graph
  <2> QED BY <2>4
<1> HIDE DEF S
<1>3. N \in S
  BY <1>0, <1>1, <1>2, Induct
<1>4. list = [j \in 0 .. N |-> E(list, j)]
  <2>1. PICK g : g = [j \in 0 .. N |-> E(g, j)]
    BY <1>3 DEF S
  <2> QED BY <2>1
<1> HIDE DEF list
<1>5. list[0] = << >> /\ \A n \in 0 .. N - 1 : list[n + 1] = Append(list[n], ls[n + 1])
  <2>1. \A j \in 0 .. N : list[j] = E(list, j)
    BY <1>4, Zenon
  <2>2. \A n \in 0 .. N - 1 : n + 1 \in 0 .. N
    BY <1>0
  <2> QED BY <1>0, <1>c, <1>d, <2>1, <2>2
<1> DEFINE Z == {n \in Nat : n <= N => list[n] = SubSeq(ls, 1, n)}
<1>6. 0 \in Z
  <2>1. SubSeq(ls, 1, 0) = << >>
    OBVIOUS
  <2> QED BY <1>5, <2>1
<1>7. ASSUME NEW n \in Nat, n \in Z PROVE n + 1 \in Z
  <2> SUFFICES ASSUME n + 1 <= N PROVE list[n + 1] = SubSeq(ls, 1, n + 1)
    OBVIOUS
  <2>1. n + 1 \in 1 .. N /\ n + 1 - 1 = n /\ list[n] = SubSeq(ls, 1, n)
    BY <1>0, <1>7
  <2>2. list[n + 1] = Append(SubSeq(ls, 1, n), ls[n + 1])
    <3>1. n \in 0 .. N - 1
      BY <1>0
    <3> QED BY <1>5, <2>1, <3>1, Zenon
  <2>3. Append(SubSeq(ls, 1, n), ls[n + 1]) = SubSeq(ls, 1, n + 1)
    BY <1>0, <2>1 DEF N
  <2> QED BY <2>2, <2>3
<1> HIDE DEF Z
<1>8. N \in Z
  BY <1>0, <1>6, <1>7, Induct
<1>9. SubSeq(ls, 1, Len(ls)) = ls
  OBVIOUS
<1> QED BY <1>0, <1>b, <1>8, <1>9 DEF Z, N

-----------------------------------------------------------------------------
(* The address space section: a request is served                          *)

\* The entries made for a request b .. e under the container c: n pieces and
\* perhaps their overlays.
Made(tb, n) == Len(tb) + 1 .. Len(tb) + n
Serves(tb, b, e, c, nm, ub, n) ==
  /\ Table(ub) /\ Kept(tb, ub) /\ n \in Nat /\ n # 0 /\ Len(tb) + n <= Len(ub)
  /\ \A i \in DOMAIN ub : i > Len(tb) =>
       ub[i].name = nm /\ ub[i].owner # 0 /\ ub[i].priority = AI!Default
  /\ \A i \in Made(tb, n) :
       /\ b <= ub[i].start /\ ub[i].end <= e
       /\ \A a \in ub[i].start .. ub[i].end : Inner(tb, a, ub[i].owner, c)
       /\ AI!Continued \in ub[i].attr <=> i # Len(tb) + n
       /\ \A j \in Made(tb, n) : i # j => Apart(ub[i], ub[j])
  /\ \A a \in b .. e : \E i \in Made(tb, n) : Has(ub[i], a)
  /\ \A i \in DOMAIN ub : i > Len(tb) + n =>
       /\ ub[i].owner \in Made(tb, n)
       /\ ub[i].start = ub[ub[i].owner].start /\ ub[i].end = ub[ub[i].owner].end

\* All of a range is under a container, innermost.
Under(tb, b, e, c) == \A a \in b .. e : \E i : Inner(tb, a, i, c)

\* Each range becomes an entry.
LEMMA PiecesDo ==
  ASSUME NEW tb, Table(tb), NEW b \in 0 .. MemEnd, NEW e \in b .. MemEnd, NEW c, NEW nm \in EntryName,
         Under(tb, b, e, c), NEW ls, PiecesOk(tb, Len(tb), b, e, c, ls)
  PROVE  /\ Full(ls)
         /\ Serves(tb, b, e, c, nm, AI!AddPieces(tb, ls, nm), Len(ls))
         /\ Len(AI!AddPieces(tb, ls, nm)) = Len(tb) + Len(ls)
<1> DEFINE mark(j) == IF j = Len(ls) THEN {} ELSE {AI!Continued}
           new == [j \in DOMAIN ls |-> AI!Entry(ls[j].start, ls[j].end, mark(j), nm, ls[j].owner)]
           owners == {ls[j].owner : j \in DOMAIN ls}
           ub == AI!AddPieces(tb, ls, nm)
           n == Len(ls)
           T == Len(tb)
<1>0. /\ T \in Nat /\ DOMAIN tb = 1 .. T
      /\ \A i \in DOMAIN tb : tb[i].start \in Nat /\ tb[i].end \in Nat /\ tb[i].start <= tb[i].end
  BY TableFacts, AsInfoAssumption
<1>b. b \in Nat /\ e \in Nat /\ b <= e /\ e <= MemEnd
  BY AsInfoAssumption
<1>l. /\ ls \in Seq(PieceType) /\ AllApart(ls) /\ \A j \in DOMAIN ls : PieceOk(tb, T, b, e, c, ls[j])
      /\ \A a \in b .. e : \A i \in 1 .. T :
           InnerAt(tb, T, c, a, i) => \E j \in DOMAIN ls : Has(ls[j], a)
  BY DEF PiecesOk
<1>n. n \in Nat /\ DOMAIN ls = 1 .. n /\ \A j \in DOMAIN ls : ls[j] \in PieceType
  BY <1>l
<1>1. \A a \in b .. e : \A i : Inner(tb, a, i, c) => InnerAt(tb, T, c, a, i)
  BY <1>0 DEF Inner, InnerAt
<1>2. ASSUME NEW j \in DOMAIN ls
      PROVE  /\ ls[j].start \in 0 .. MemEnd /\ ls[j].end \in 0 .. MemEnd
             /\ b <= ls[j].start /\ ls[j].start <= ls[j].end /\ ls[j].end <= e
             /\ \A a \in ls[j].start .. ls[j].end : Inner(tb, a, ls[j].owner, c)
             /\ ls[j].owner \in 1 .. T
  <2>1. /\ PieceOk(tb, T, b, e, c, ls[j]) /\ ls[j].start \in 0 .. MemEnd /\ ls[j].end \in 0 .. MemEnd
    BY <1>l, <1>n DEF PieceType
  <2>2. /\ b <= ls[j].start /\ ls[j].start <= ls[j].end /\ ls[j].end <= e
        /\ \A a \in ls[j].start .. ls[j].end : InnerAt(tb, T, c, a, ls[j].owner)
    BY <2>1 DEF PieceOk
  <2>3. ASSUME NEW a \in ls[j].start .. ls[j].end PROVE Inner(tb, a, ls[j].owner, c)
    <3>1. a \in b .. e
      BY <1>b, <2>1, <2>2
    <3>2. PICK i : Inner(tb, a, i, c)
      BY <3>1 DEF Under
    <3>3. i = ls[j].owner
      BY <1>0, <1>1, <2>2, <3>1, <3>2, InnerOne
    <3> QED BY <3>2, <3>3
  <2>4. ls[j].owner \in 1 .. T
    <3>1. ls[j].start \in ls[j].start .. ls[j].end
      BY <1>b, <2>1, <2>2
    <3> QED BY <2>2, <3>1 DEF InnerAt
  <2> QED BY <2>1, <2>2, <2>3, <2>4
<1>3. Full(ls)
  BY <1>2 DEF Full
<1>4. ASSUME NEW j \in DOMAIN ls
      PROVE  /\ new[j] \in EntryType
             /\ new[j].start = ls[j].start /\ new[j].end = ls[j].end /\ new[j].owner = ls[j].owner
             /\ new[j].name = nm /\ new[j].priority = AI!Default /\ new[j].attr = mark(j)
  <2>1. new[j] = [start |-> ls[j].start, end |-> ls[j].end, attr |-> mark(j), name |-> nm,
                  owner |-> ls[j].owner, priority |-> AI!Default]
    BY DEF AI!Entry
  <2>2. mark(j) \in SUBSET {AI!Kids, AI!Continued}
    OBVIOUS
  <2> HIDE DEF new, mark
  <2>3. ls[j].owner \in Nat
    BY <1>0, <1>2
  <2> QED BY <1>2, <2>1, <2>2, <2>3 DEF EntryType
<1>5. new \in Seq(EntryType) /\ Len(new) = n
  <2>1. new = [j \in 1 .. n |-> new[j]]
    BY <1>n, Zenon
  <2> HIDE DEF new, mark
  <2>2. \A j \in 1 .. n : new[j] \in EntryType
    BY <1>n, <1>4
  <2> QED BY <1>n, <2>1, <2>2
<1>6. ub = AI!WithKids(tb, owners) \o new
  BY DEF AI!AddPieces
<1> HIDE DEF new, ub, owners
<1>7. \A j \in 1 .. Len(new) : new[j].start <= new[j].end /\ new[j].owner < Len(tb) + j
  <2> SUFFICES ASSUME NEW j \in DOMAIN ls PROVE new[j].start <= new[j].end /\ new[j].owner < T + j
    BY <1>5, <1>n
  <2> QED BY <1>0, <1>n, <1>2, <1>4
<1>8. Longer(tb, owners, new, ub)
  BY <1>5, <1>6, <1>7, GrowDoes
<1>9. /\ Table(ub) /\ Kept(tb, ub) /\ Len(ub) = T + n
      /\ \A j \in 1 .. n : ub[T + j] = new[j]
  BY <1>5, <1>8 DEF Longer
<1>10. n # 0
  <2>1. PICK i : Inner(tb, b, i, c)
    BY <1>b DEF Under
  <2>2. InnerAt(tb, T, c, b, i) /\ b \in b .. e /\ i \in 1 .. T
    BY <1>0, <1>1, <1>b, <2>1 DEF Inner
  <2>3. PICK j \in DOMAIN ls : Has(ls[j], b)
    BY <1>l, <2>2
  <2> QED BY <1>n
<1> HIDE DEF n, T
<1>11. ASSUME NEW i \in Made(tb, n)
       PROVE  /\ i - T \in DOMAIN ls /\ i \in DOMAIN ub /\ ub[i] = new[i - T]
              /\ ub[i].start = ls[i - T].start /\ ub[i].end = ls[i - T].end
              /\ ub[i].owner = ls[i - T].owner
              /\ ub[i].name = nm /\ ub[i].priority = AI!Default /\ ub[i].attr = mark(i - T)
  <2>1. i - T \in 1 .. n /\ T + (i - T) = i
    BY <1>0, <1>n DEF Made, T
  <2>2. ub[i] = new[i - T]
    BY <1>9, <2>1
  <2>3. i \in DOMAIN ub
    BY <1>0, <1>9, <1>n, <2>1, TableFacts
  <2> HIDE DEF mark
  <2> QED BY <1>4, <1>n, <2>1, <2>2, <2>3
<1>12. \A i \in DOMAIN ub : i > T => i \in Made(tb, n)
  BY <1>0, <1>9, <1>n, TableFacts DEF Made, T
<1>13. \A i \in DOMAIN ub : i > T => ub[i].name = nm /\ ub[i].owner # 0 /\ ub[i].priority = AI!Default
  <2> SUFFICES ASSUME NEW i \in DOMAIN ub, i > T
               PROVE  ub[i].name = nm /\ ub[i].owner # 0 /\ ub[i].priority = AI!Default
    OBVIOUS
  <2>1. i \in Made(tb, n)
    BY <1>12
  <2> QED BY <1>2, <1>11, <2>1
<1>14. ASSUME NEW i \in Made(tb, n)
       PROVE  /\ b <= ub[i].start /\ ub[i].end <= e
              /\ \A a \in ub[i].start .. ub[i].end : Inner(tb, a, ub[i].owner, c)
              /\ AI!Continued \in ub[i].attr <=> i # T + n
              /\ \A j \in Made(tb, n) : i # j => Apart(ub[i], ub[j])
  <2>1. i - T \in DOMAIN ls
    BY <1>11
  <2>2. AI!Continued \in mark(i - T) <=> i - T # n
    BY DEF n
  <2>3. i - T # n <=> i # T + n
    BY <1>0, <1>n DEF Made, T
  <2>4. ASSUME NEW j \in Made(tb, n), i # j PROVE Apart(ub[i], ub[j])
    <3>1. j - T \in DOMAIN ls /\ j - T # i - T
      BY <1>0, <1>n, <1>11, <2>4 DEF Made, T
    <3>2. Apart(ls[i - T], ls[j - T])
      BY <1>l, <2>1, <3>1 DEF AllApart
    <3> QED BY <1>11, <2>4, <3>2 DEF Apart
  <2> HIDE DEF mark
  <2> QED BY <1>2, <1>11, <2>1, <2>2, <2>3, <2>4
<1>15. ASSUME NEW a \in b .. e PROVE \E i \in Made(tb, n) : Has(ub[i], a)
  <2>1. PICK i : Inner(tb, a, i, c)
    BY DEF Under
  <2>2. InnerAt(tb, T, c, a, i) /\ i \in 1 .. T
    BY <1>0, <1>1, <2>1 DEF Inner
  <2>3. PICK j \in DOMAIN ls : Has(ls[j], a)
    BY <1>l, <2>2
  <2>4. T + j \in Made(tb, n) /\ (T + j) - T = j
    BY <1>0, <1>n DEF Made, T
  <2>5. Has(ub[T + j], a)
    BY <1>11, <2>3, <2>4 DEF Has
  <2> QED BY <2>4, <2>5
<1>16. \A i \in DOMAIN ub : ~ (i > T + n)
  BY <1>0, <1>9, <1>n, TableFacts
<1>17. Serves(tb, b, e, c, nm, ub, n)
  <2>1. T + n <= Len(ub)
    BY <1>0, <1>9, <1>n
  <2> QED BY <1>9, <1>10, <1>n, <1>13, <1>14, <1>15, <1>16, <2>1 DEF Serves, T
<1> QED BY <1>3, <1>9, <1>17 DEF ub, n, T

\* Overlays lie on the pieces.
LEMMA OverlaysDo ==
  ASSUME NEW tb, Table(tb), NEW b, NEW e, NEW c, NEW nm \in EntryName, NEW wb, NEW n,
         Serves(tb, b, e, c, nm, wb, n), Len(wb) = Len(tb) + n
  PROVE  Serves(tb, b, e, c, nm, AI!AddOverlays(wb, Len(tb) + 1, n, nm), n)
<1> DEFINE T == Len(tb)
           ov(j) == AI!Entry(wb[T + 1 + j - 1].start, wb[T + 1 + j - 1].end, {}, nm, T + 1 + j - 1)
           new == [j \in 1 .. n |-> ov(j)]
           owners == T + 1 .. T + 1 + n - 1
           ub == AI!AddOverlays(wb, T + 1, n, nm)
<1>0. /\ T \in Nat /\ DOMAIN tb = 1 .. T
  BY TableFacts
<1>1. /\ Table(wb) /\ Kept(tb, wb) /\ n \in Nat /\ n # 0 /\ DOMAIN wb = 1 .. T + n
      /\ \A i \in DOMAIN wb : i > T => wb[i].name = nm /\ wb[i].owner # 0 /\ wb[i].priority = AI!Default
      /\ \A i \in Made(tb, n) :
           /\ b <= wb[i].start /\ wb[i].end <= e
           /\ \A a \in wb[i].start .. wb[i].end : Inner(tb, a, wb[i].owner, c)
           /\ AI!Continued \in wb[i].attr <=> i # T + n
           /\ \A j \in Made(tb, n) : i # j => Apart(wb[i], wb[j])
      /\ \A a \in b .. e : \E i \in Made(tb, n) : Has(wb[i], a)
  BY TableFacts DEF Serves
<1>2. \A i \in Made(tb, n) : i \in DOMAIN wb
  BY <1>0, <1>1 DEF Made, T
<1>3. ASSUME NEW j \in 1 .. n
      PROVE  /\ new[j] \in EntryType /\ new[j].start = wb[T + j].start /\ new[j].end = wb[T + j].end
             /\ new[j].owner = T + j /\ new[j].name = nm /\ new[j].priority = AI!Default
             /\ T + j \in Made(tb, n)
  <2>1. T + 1 + j - 1 = T + j /\ T + j \in Made(tb, n) /\ T + j \in Nat
    BY <1>0, <1>1 DEF Made, T
  <2>2. new[j] = [start |-> wb[T + 1 + j - 1].start, end |-> wb[T + 1 + j - 1].end, attr |-> {},
                  name |-> nm, owner |-> T + 1 + j - 1, priority |-> AI!Default]
    BY DEF AI!Entry
  <2>3. wb[T + j].start \in 0 .. MemEnd /\ wb[T + j].end \in 0 .. MemEnd
    BY <1>1, <1>2, <2>1, TableFacts, AsInfoAssumption
  <2> HIDE DEF new, T
  <2> QED BY <2>1, <2>2, <2>3 DEF EntryType
<1>4. new \in Seq(EntryType) /\ Len(new) = n
  <2>1. new = [j \in 1 .. n |-> new[j]]
    BY Zenon
  <2> HIDE DEF new
  <2> QED BY <1>1, <1>3, <2>1
<1>5. ub = AI!WithKids(wb, owners) \o new
  BY DEF AI!AddOverlays
<1> HIDE DEF new, ub, owners, T
<1>6. \A j \in 1 .. Len(new) : new[j].start <= new[j].end /\ new[j].owner < Len(wb) + j
  <2> SUFFICES ASSUME NEW j \in 1 .. n PROVE new[j].start <= new[j].end /\ new[j].owner < T + n + j
    BY <1>4 DEF T
  <2>1. wb[T + j].start <= wb[T + j].end
    BY <1>1, <1>2, <1>3 DEF Table
  <2> QED BY <1>0, <1>1, <1>3, <2>1
<1>7. Longer(wb, owners, new, ub)
  BY <1>1, <1>4, <1>5, <1>6, GrowDoes
<1>8. /\ Table(ub) /\ Kept(wb, ub) /\ Len(ub) = T + n + n
      /\ \A i \in DOMAIN wb : ub[i].attr = IF i \in owners THEN wb[i].attr \cup {AI!Kids} ELSE wb[i].attr
      /\ \A j \in 1 .. n : ub[T + n + j] = new[j]
  BY <1>4, <1>7 DEF Longer, T
<1>9. Kept(tb, ub)
  BY <1>1, <1>8, KeptTrans
<1>10. ASSUME NEW i \in Made(tb, n)
       PROVE  /\ i \in DOMAIN wb /\ ub[i].start = wb[i].start /\ ub[i].end = wb[i].end
              /\ ub[i].owner = wb[i].owner
              /\ ub[i].name = nm /\ wb[i].owner # 0 /\ ub[i].priority = AI!Default
              /\ AI!Continued \in ub[i].attr <=> AI!Continued \in wb[i].attr
  <2>1. i \in DOMAIN wb /\ i > T
    BY <1>0, <1>2 DEF Made, T
  <2>2. AI!Continued # AI!Kids
    BY DEF AI!Continued, AI!Kids
  <2>3. /\ ub[i].start = wb[i].start /\ ub[i].end = wb[i].end /\ ub[i].owner = wb[i].owner
        /\ ub[i].name = wb[i].name /\ ub[i].priority = wb[i].priority
    BY <1>8, <2>1 DEF Kept
  <2>4. wb[i].name = nm /\ wb[i].owner # 0 /\ wb[i].priority = AI!Default
    BY <1>1, <2>1
  <2>5. ub[i].attr = IF i \in owners THEN wb[i].attr \cup {AI!Kids} ELSE wb[i].attr
    BY <1>8, <2>1
  <2>6. AI!Continued \in ub[i].attr <=> AI!Continued \in wb[i].attr
    BY <2>2, <2>5
  <2> QED BY <2>1, <2>3, <2>4, <2>6
<1>11. ASSUME NEW i \in DOMAIN ub, i > T, i \notin Made(tb, n)
       PROVE  /\ ub[i].owner \in Made(tb, n) /\ ub[i].owner # 0
              /\ ub[i].start = ub[ub[i].owner].start /\ ub[i].end = ub[ub[i].owner].end
              /\ ub[i].name = nm /\ ub[i].priority = AI!Default
  <2> DEFINE j == i - (T + n)
  <2>1. j \in 1 .. n /\ T + n + j = i
    BY <1>0, <1>1, <1>8, <1>11, TableFacts DEF Made, T
  <2> HIDE DEF j
  <2>2. ub[i] = new[j]
    BY <1>8, <2>1
  <2>3. T + j # 0
    BY <1>0, <2>1
  <2> QED BY <1>3, <1>10, <2>1, <2>2, <2>3
<1>12. \A i \in DOMAIN ub : i > T =>
         ub[i].name = nm /\ ub[i].owner # 0 /\ ub[i].priority = AI!Default
  BY <1>10, <1>11
<1>13. \A i \in Made(tb, n) :
           /\ b <= ub[i].start /\ ub[i].end <= e
           /\ \A a \in ub[i].start .. ub[i].end : Inner(tb, a, ub[i].owner, c)
           /\ AI!Continued \in ub[i].attr <=> i # T + n
           /\ \A j \in Made(tb, n) : i # j => Apart(ub[i], ub[j])
  BY <1>1, <1>10 DEF Apart
<1>14. \A a \in b .. e : \E i \in Made(tb, n) : Has(ub[i], a)
  BY <1>1, <1>10 DEF Has
<1>15. \A i \in DOMAIN ub : i > T + n =>
       /\ ub[i].owner \in Made(tb, n)
       /\ ub[i].start = ub[ub[i].owner].start /\ ub[i].end = ub[ub[i].owner].end
  <2> SUFFICES ASSUME NEW i \in DOMAIN ub, i > T + n
               PROVE  /\ ub[i].owner \in Made(tb, n)
                      /\ ub[i].start = ub[ub[i].owner].start /\ ub[i].end = ub[ub[i].owner].end
    OBVIOUS
  <2>1. i > T /\ i \notin Made(tb, n)
    BY <1>0, <1>1, <1>8, TableFacts DEF Made, T
  <2> QED BY <1>11, <2>1
<1>16. T + n <= Len(ub)
  BY <1>0, <1>1, <1>8
<1>17. Serves(tb, b, e, c, nm, ub, n)
  BY <1>1, <1>8, <1>9, <1>12, <1>13, <1>14, <1>15, <1>16, Zenon DEF Serves, T
<1> QED BY <1>17 DEF ub, T

\* as_add_containing() as a whole.
LEMMA AddContainingDoes ==
  ASSUME NEW tb, Table(tb), Nested(tb), NEW q, q.start \in 0 .. MemEnd, q.end \in q.start .. MemEnd,
         NEW nm \in EntryName,
         Under(tb, q.start, q.end, q.container)
  PROVE  LET res == AI!AsAddContaining(tb, q, nm) IN
         /\ Serves(tb, q.start, q.end, q.container, nm, res.as, res.n)
         /\ q.overlay = FALSE => Len(res.as) = Len(tb) + res.n
<1> DEFINE b == q.start
           e == q.end
           c == q.container
           ls == AI!PieceList(tb, b, e, c)
           wb == AI!AddPieces(tb, ls, nm)
           ub == AI!AddOverlays(wb, Len(tb) + 1, Len(ls), nm)
<1>0. b \in 0 .. MemEnd /\ e \in b .. MemEnd /\ Under(tb, b, e, c)
  OBVIOUS
<1>a. AI!AsAddContaining(tb, q, nm)
        = [as |-> IF q.overlay THEN AI!AddOverlays(AI!AddPieces(tb, AI!NotEmpty(ls), nm), Len(tb) + 1,
                                                   Len(AI!NotEmpty(ls)), nm)
                  ELSE AI!AddPieces(tb, AI!NotEmpty(ls), nm),
           n |-> Len(AI!NotEmpty(ls))]
  BY DEF AI!AsAddContaining
<1> HIDE DEF b, e, c
<1>1. PiecesOk(tb, Len(tb), b, e, c, ls)
  BY <1>0, PieceListDoes
<1> HIDE DEF ls
<1>2. Full(ls) /\ Serves(tb, b, e, c, nm, wb, Len(ls)) /\ Len(wb) = Len(tb) + Len(ls)
  BY <1>0, <1>1, PiecesDo
<1>3. AI!NotEmpty(ls) = ls
  BY <1>1, <1>2, NotEmptyDoes DEF PiecesOk
<1> HIDE DEF wb
<1>4. Serves(tb, b, e, c, nm, ub, Len(ls))
  BY <1>2, OverlaysDo
<1> HIDE DEF ub
<1>5. AI!AsAddContaining(tb, q, nm) = [as |-> IF q.overlay THEN ub ELSE wb, n |-> Len(ls)]
  BY <1>3, <1>a DEF ub, wb
<1> QED BY <1>2, <1>4, <1>5 DEF b, e, c

\* The last request has been served exactly, as long as no other entry is made.
ExactIn(tb, la) ==
  la.pieces > 0 =>
    LET made == la.before + 1 .. la.before + la.pieces
        q == la.req
    IN /\ la.before \in Nat /\ la.pieces \in Nat /\ la.before + la.pieces <= Len(tb)
       /\ la.prio \in BOOLEAN /\ q.start \in Nat /\ q.end \in Nat
       /\ \A i \in made :
            /\ q.start <= tb[i].start /\ tb[i].end <= q.end
            /\ \A a \in tb[i].start .. tb[i].end :
                 InnerAt(tb, la.before, q.container, a, tb[i].owner)
            /\ AI!Continued \in tb[i].attr <=> i # la.before + la.pieces
            /\ \A j \in made : i # j => Apart(tb[i], tb[j])
       /\ \A a \in q.start .. q.end : \E i \in made : Has(tb[i], a)
       /\ \A i \in la.before + 1 .. Len(tb) : tb[i].priority = AI!High <=> la.prio /\ i \in made

\* Before add_sysram(): what is free is RAM that nothing else lies on.
BeforeSysram(tb, fr) ==
  /\ Nested(tb)
  /\ \A i \in DOMAIN tb : tb[i].name # "sysram"
  /\ \A a \in fr : \E i : Inner(tb, a, i, "ram")

\* Afterwards: the entries for the kernel are what is free, each in its RAM.
SysramOk(tb, fr) ==
  /\ \A i \in DOMAIN tb : tb[i].owner # 0 => tb[tb[i].owner].name # "sysram"
  /\ \A i, j \in DOMAIN tb :
       tb[i].name = "sysram" /\ tb[j].name = "sysram" /\ i # j => Apart(tb[i], tb[j])
  /\ \A i \in DOMAIN tb : tb[i].name = "sysram" =>
       /\ tb[i].owner # 0 /\ AI!MatchName(tb, tb[i].owner, "ram")
       /\ Covers(tb[tb[i].owner], tb[i])
       /\ \A a \in tb[i].start .. tb[i].end : a \in fr
  /\ \A a \in fr : \E i \in DOMAIN tb : tb[i].name = "sysram" /\ Has(tb[i], a)

\* What is remembered of a request.
Request(la) ==
  la.pieces > 0 =>
    la \in [pieces : Nat, before : Nat, req : {la.req}, prio : BOOLEAN]

InfoInv ==
  /\ Table(asinfo) /\ memFree \subseteq 0 .. MemEnd
  /\ sysram_added \in BOOLEAN /\ noMemory \in BOOLEAN
  /\ asinfo = << >> => memFree = {}
  /\ ExactIn(asinfo, served) /\ Request(served)
  /\ ~ sysram_added => BeforeSysram(asinfo, memFree) /\ (asinfo # << >> => Rooted(asinfo))
  /\ sysram_added => served = AI!None /\ (~ noMemory => SysramOk(asinfo, memFree))

\* The section with a request served stays rooted and nested.
LEMMA ServesKeeps ==
  ASSUME NEW tb, Table(tb), Rooted(tb), Nested(tb), NEW b, NEW e, NEW c, NEW nm, NEW ub, NEW n,
         Serves(tb, b, e, c, nm, ub, n)
  PROVE  /\ Rooted(ub) /\ Nested(ub)
         /\ \A i \in DOMAIN ub : i > Len(tb) => b <= ub[i].start /\ ub[i].end <= e
<1>0. /\ Len(tb) \in Nat /\ DOMAIN tb = 1 .. Len(tb) /\ DOMAIN ub = 1 .. Len(ub) /\ Len(ub) \in Nat
      /\ \A i \in DOMAIN ub : ub[i].start \in Nat /\ ub[i].end \in Nat /\ ub[i].start <= ub[i].end
      /\ \A i \in DOMAIN tb : tb[i].start \in Nat /\ tb[i].end \in Nat
  BY TableFacts, AsInfoAssumption DEF Serves
<1>1. /\ Table(ub) /\ Kept(tb, ub) /\ n \in Nat /\ Len(tb) + n <= Len(ub)
      /\ \A i \in DOMAIN ub : i > Len(tb) => ub[i].owner # 0
  BY DEF Serves
<1>2. Rooted(ub)
  BY <1>1, RootedGrows
<1>3. ASSUME NEW i \in DOMAIN ub, i > Len(tb)
      PROVE  \E m \in Made(tb, n) : ub[i].start = ub[m].start /\ ub[i].end = ub[m].end
  <2>1. CASE i > Len(tb) + n
    BY <2>1 DEF Serves
  <2>2. CASE ~ (i > Len(tb) + n)
    BY <1>0, <1>1, <1>3, <2>2 DEF Made
  <2> QED BY <2>1, <2>2
<1>4. \A i \in Made(tb, n) :
        /\ b <= ub[i].start /\ ub[i].end <= e
        /\ \A a \in ub[i].start .. ub[i].end : Inner(tb, a, ub[i].owner, c)
        /\ \A j \in Made(tb, n) : i # j => Apart(ub[i], ub[j])
  BY DEF Serves
<1>5. \A i \in Made(tb, n) : i \in DOMAIN ub
  BY <1>0, <1>1 DEF Made
<1>6. \A i \in DOMAIN ub : i > Len(tb) => b <= ub[i].start /\ ub[i].end <= e
  BY <1>3, <1>4
<1>7. ASSUME NEW i \in DOMAIN tb, NEW m \in Made(tb, n)
      PROVE  Covers(tb[i], ub[m]) \/ Apart(tb[i], ub[m])
  <2> SUFFICES ASSUME ~ Apart(tb[i], ub[m]) PROVE Covers(tb[i], ub[m])
    OBVIOUS
  <2> DEFINE a == IF ub[m].start > tb[i].start THEN ub[m].start ELSE tb[i].start
             q == ub[m].owner
  <2>1. m \in DOMAIN ub /\ ub[m].start \in Nat /\ ub[m].end \in Nat /\ ub[m].start <= ub[m].end
    BY <1>0, <1>5
  <2>2. tb[i].start \in Nat /\ tb[i].end \in Nat /\ tb[i].start <= tb[i].end
    BY <1>0 DEF Table
  <2>3. a \in ub[m].start .. ub[m].end /\ Has(tb[i], a) /\ a \in Nat
    BY <2>1, <2>2 DEF Apart, Has
  <2> HIDE DEF a, q
  <2>4. \A x \in ub[m].start .. ub[m].end : Inner(tb, x, q, c)
    BY <1>4 DEF q
  <2>5. Inner(tb, a, q, c)
    BY <2>3, <2>4
  <2>6. /\ q \in DOMAIN tb /\ Has(tb[q], a) /\ ~ (i > q) /\ i \in Nat /\ q \in Nat
    BY <1>0, <2>3, <2>5 DEF Inner
  <2>7. \A x \in ub[m].start .. ub[m].end : Has(tb[q], x)
    BY <2>4 DEF Inner
  <2>8. Covers(tb[q], ub[m])
    BY <2>1, <2>7 DEF Covers, Has
  <2>9. CASE i = q
    BY <2>8, <2>9
  <2>10. CASE i < q
    <3>1. Covers(tb[i], tb[q]) \/ Apart(tb[i], tb[q])
      BY <2>6, <2>10 DEF Nested
    <3>2. tb[q].start \in Nat /\ tb[q].end \in Nat
      BY <1>0, <2>6
    <3>3. Covers(tb[i], tb[q])
      BY <2>2, <2>3, <2>6, <3>1, <3>2 DEF Apart, Has
    <3> QED BY <2>1, <2>2, <2>8, <3>2, <3>3 DEF Covers
  <2> QED BY <2>6, <2>9, <2>10
<1>8. ASSUME NEW j \in DOMAIN ub, j > Len(tb), NEW i \in DOMAIN ub, i < j
      PROVE  Covers(ub[i], ub[j]) \/ Apart(ub[i], ub[j])
  <2>1. PICK m \in Made(tb, n) : ub[j].start = ub[m].start /\ ub[j].end = ub[m].end
    BY <1>3, <1>8
  <2>2. CASE i > Len(tb)
    <3>1. PICK x \in Made(tb, n) : ub[i].start = ub[x].start /\ ub[i].end = ub[x].end
      BY <1>3, <2>2
    <3>2. CASE x = m
      BY <1>0, <2>1, <3>1, <3>2 DEF Covers
    <3>3. CASE x # m
      <4>1. Apart(ub[x], ub[m])
        BY <1>4, <3>3
      <4> QED BY <2>1, <3>1, <4>1 DEF Apart
    <3> QED BY <3>2, <3>3
  <2>3. CASE ~ (i > Len(tb))
    <3>1. i \in DOMAIN tb
      BY <1>0, <2>3
    <3>2. ub[i].start = tb[i].start /\ ub[i].end = tb[i].end
      BY <1>1, <3>1 DEF Kept
    <3>3. Covers(tb[i], ub[m]) \/ Apart(tb[i], ub[m])
      BY <1>7, <3>1
    <3> QED BY <2>1, <3>2, <3>3 DEF Covers, Apart
  <2> QED BY <2>2, <2>3
<1>9. Nested(ub)
  BY <1>1, <1>8, NestedGrows
<1> QED BY <1>2, <1>6, <1>9

\* It is served exactly.
LEMMA ServesExact ==
  ASSUME NEW tb, Table(tb), NEW q, q.start \in 0 .. MemEnd, q.end \in q.start .. MemEnd, NEW nm,
         NEW ub, NEW n, Serves(tb, q.start, q.end, q.container, nm, ub, n)
  PROVE  ExactIn(ub, [pieces |-> n, before |-> Len(tb), req |-> q, prio |-> FALSE])
<1> DEFINE la == [pieces |-> n, before |-> Len(tb), req |-> q, prio |-> FALSE]
           T == Len(tb)
<1>0. T \in Nat /\ DOMAIN tb = 1 .. T /\ DOMAIN ub = 1 .. Len(ub) /\ Len(ub) \in Nat
  BY TableFacts DEF Serves
<1>1. /\ Table(ub) /\ Kept(tb, ub) /\ n \in Nat /\ T + n <= Len(ub)
      /\ \A i \in DOMAIN ub : i > T => ub[i].priority = AI!Default
      /\ \A i \in Made(tb, n) :
           /\ q.start <= ub[i].start /\ ub[i].end <= q.end
           /\ \A a \in ub[i].start .. ub[i].end : Inner(tb, a, ub[i].owner, q.container)
           /\ AI!Continued \in ub[i].attr <=> i # T + n
           /\ \A j \in Made(tb, n) : i # j => Apart(ub[i], ub[j])
      /\ \A a \in q.start .. q.end : \E i \in Made(tb, n) : Has(ub[i], a)
  BY DEF Serves
<1>2. ASSUME NEW a, NEW i, Inner(tb, a, i, q.container)
      PROVE  InnerAt(ub, T, q.container, a, i)
  <2>1. \A j \in DOMAIN tb : Has(ub[j], a) <=> Has(tb[j], a)
    BY <1>1 DEF Kept, Has
  <2>2. AI!MatchName(ub, i, q.container)
    BY <1>1, <1>2, MatchKept DEF Inner
  <2> QED BY <1>0, <1>2, <2>1, <2>2 DEF Inner, InnerAt
<1>3. AI!Default # AI!High
  BY DEF AI!Default, AI!High
<1>4. \A i \in T + 1 .. Len(ub) : ub[i].priority # AI!High
  BY <1>0, <1>1, <1>3
<1>5. la.pieces = n /\ la.before = T /\ la.req = q /\ la.prio = FALSE
  OBVIOUS
<1>6. q.start \in Nat /\ q.end \in Nat
  BY AsInfoAssumption
<1>7. Made(tb, n) = la.before + 1 .. la.before + la.pieces
  BY DEF Made
<1> HIDE DEF la, T
<1> QED BY <1>0, <1>1, <1>2, <1>4, <1>5, <1>6, <1>7 DEF ExactIn, la

\* The marks hold the pieces together.
LEMMA ChainIs ==
  ASSUME NEW tb, Table(tb), NEW la, ExactIn(tb, la), la.pieces > 0
  PROVE  AI!Chain(tb, la.before + 1) = la.before + 1 .. la.before + la.pieces
<1> DEFINE bef == la.before
           n == la.pieces
           ends == {i \in bef + 1 .. Len(tb) : AI!Continued \notin tb[i].attr}
<1>1. /\ bef \in Nat /\ n \in Nat /\ bef + n <= Len(tb) /\ n > 0 /\ Len(tb) \in Nat
      /\ \A i \in bef + 1 .. bef + n : AI!Continued \in tb[i].attr <=> i # bef + n
  BY TableFacts DEF ExactIn
<1>2. AI!Chain(tb, bef + 1) = bef + 1 .. (IF ends = {} THEN Len(tb) ELSE AI!Min(ends))
  BY DEF AI!Chain
<1> HIDE DEF bef, n
<1>3. ends \in SUBSET Int /\ bef + n \in ends /\ \A y \in ends : bef + n <= y
  BY <1>1
<1> HIDE DEF ends
<1>4. AI!Min(ends) = bef + n
  BY <1>3, LowestIs
<1> QED BY <1>2, <1>3, <1>4 DEF bef, n

\* What the invariant says of the last request is what is promised.
LEMMA ExactIs ==
  ASSUME Table(asinfo), ExactIn(asinfo, served)
  PROVE  AI!PiecesExact
<1> SUFFICES ASSUME served.pieces > 0
             PROVE  AI!PiecesExact
  BY DEF AI!PiecesExact
<1> DEFINE bef == served.before
           n == served.pieces
           q == served.req
           made == bef + 1 .. bef + n
           inside == {a \in q.start .. q.end : \E i \in 1 .. bef :
                        AI!MatchName(asinfo, i, q.container) /\ a \in AI!Span(asinfo[i])}
<1>0. /\ Len(asinfo) \in Nat /\ DOMAIN asinfo = 1 .. Len(asinfo)
      /\ \A i \in DOMAIN asinfo : /\ asinfo[i].start \in Nat /\ asinfo[i].end \in Nat
                                  /\ asinfo[i].start <= asinfo[i].end
  BY TableFacts, AsInfoAssumption
<1>1. /\ bef \in Nat /\ n \in Nat /\ n > 0 /\ bef + n <= Len(asinfo)
      /\ q.start \in Nat /\ q.end \in Nat /\ served.prio \in BOOLEAN
      /\ \A i \in made :
           /\ q.start <= asinfo[i].start /\ asinfo[i].end <= q.end
           /\ \A a \in asinfo[i].start .. asinfo[i].end :
                InnerAt(asinfo, bef, q.container, a, asinfo[i].owner)
           /\ \A j \in made : i # j => Apart(asinfo[i], asinfo[j])
      /\ \A a \in q.start .. q.end : \E i \in made : Has(asinfo[i], a)
      /\ \A i \in bef + 1 .. Len(asinfo) :
           asinfo[i].priority = AI!High <=> served.prio /\ i \in made
  BY DEF ExactIn
<1>2. AI!Chain(asinfo, bef + 1) = made
  BY ChainIs
<1>s. \A i : AI!Span(asinfo[i]) = asinfo[i].start .. asinfo[i].end
  BY DEF AI!Span
<1> HIDE DEF bef, n, q
<1>3. \A i \in made : i \in DOMAIN asinfo /\ i \in bef + 1 .. Len(asinfo)
  BY <1>0, <1>1
<1>4. AI!Disjoint(made)
  <2> SUFFICES ASSUME NEW i \in made, NEW j \in made, i # j
               PROVE  AI!Span(asinfo[i]) \cap AI!Span(asinfo[j]) = {}
    BY DEF AI!Disjoint
  <2>1. Apart(asinfo[i], asinfo[j])
    BY <1>1
  <2> QED BY <1>0, <1>3, <1>s, <2>1 DEF Apart
<1>5. \A i \in made : \A a \in AI!Span(asinfo[i]) :
        a \in q.start .. q.end /\ InnerAt(asinfo, bef, q.container, a, asinfo[i].owner)
  <2> SUFFICES ASSUME NEW i \in made, NEW a \in AI!Span(asinfo[i])
               PROVE  a \in q.start .. q.end
                      /\ InnerAt(asinfo, bef, q.container, a, asinfo[i].owner)
    OBVIOUS
  <2> HIDE DEF made
  <2>1. asinfo[i].start \in Nat /\ asinfo[i].end \in Nat
    BY <1>0, <1>3
  <2>2. a \in asinfo[i].start .. asinfo[i].end
    BY <1>s
  <2>3. q.start <= asinfo[i].start /\ asinfo[i].end <= q.end /\ q.start \in Nat /\ q.end \in Nat
    BY <1>1
  <2>4. InnerAt(asinfo, bef, q.container, a, asinfo[i].owner)
    BY <1>1, <2>2
  <2> QED BY <2>1, <2>2, <2>3, <2>4
<1>6. \A a, i : InnerAt(asinfo, bef, q.container, a, i) =>
        i \in 1 .. bef /\ AI!MatchName(asinfo, i, q.container) /\ Has(asinfo[i], a)
  BY DEF InnerAt
<1>h. \A a \in Int : \A i \in DOMAIN asinfo : Has(asinfo[i], a) <=> a \in AI!Span(asinfo[i])
  BY <1>0, <1>s DEF Has
<1>7. UNION {AI!Span(asinfo[i]) : i \in made} = inside
  <2>1. ASSUME NEW i \in made, NEW a \in AI!Span(asinfo[i]) PROVE a \in inside
    <3>1. a \in q.start .. q.end /\ InnerAt(asinfo, bef, q.container, a, asinfo[i].owner)
      BY <1>5
    <3>2. /\ asinfo[i].owner \in 1 .. bef /\ AI!MatchName(asinfo, asinfo[i].owner, q.container)
          /\ Has(asinfo[asinfo[i].owner], a)
      BY <1>6, <3>1
    <3>3. asinfo[i].owner \in DOMAIN asinfo /\ a \in Int
      BY <1>0, <1>1, <3>1, <3>2
    <3> QED BY <1>h, <3>1, <3>2, <3>3
  <2>2. ASSUME NEW a \in inside PROVE \E i \in made : a \in AI!Span(asinfo[i])
    <3>1. a \in q.start .. q.end /\ a \in Int
      BY <1>1
    <3>2. PICK i \in made : Has(asinfo[i], a)
      BY <1>1, <3>1
    <3> QED BY <1>3, <1>h, <3>1, <3>2
  <2> HIDE DEF made, inside
  <2>3. \A a \in UNION {AI!Span(asinfo[i]) : i \in made} : a \in inside
    BY <2>1
  <2>4. \A a \in inside : a \in UNION {AI!Span(asinfo[i]) : i \in made}
    BY <2>2
  <2> QED BY <2>3, <2>4
<1>8. ASSUME NEW i \in made, NEW a \in AI!Span(asinfo[i])
      PROVE  asinfo[i].owner = AI!Innermost(a, bef, q.container)
  <2> DEFINE V == {j \in 1 .. bef : AI!MatchName(asinfo, j, q.container) /\ a \in AI!Span(asinfo[j])}
  <2>1. a \in q.start .. q.end /\ a \in Int /\ InnerAt(asinfo, bef, q.container, a, asinfo[i].owner)
    BY <1>1, <1>5
  <2>2. /\ asinfo[i].owner \in 1 .. bef /\ AI!MatchName(asinfo, asinfo[i].owner, q.container)
        /\ Has(asinfo[asinfo[i].owner], a)
        /\ \A j \in 1 .. bef : j > asinfo[i].owner /\ AI!MatchName(asinfo, j, q.container)
             => ~ Has(asinfo[j], a)
    BY <2>1 DEF InnerAt
  <2>3. \A j \in 1 .. bef : j \in DOMAIN asinfo
    BY <1>0, <1>1
  <2>4. V \in SUBSET Int /\ asinfo[i].owner \in V
    BY <1>h, <2>1, <2>2, <2>3
  <2>5. ASSUME NEW y \in V PROVE y <= asinfo[i].owner
    <3>1. y \in 1 .. bef /\ AI!MatchName(asinfo, y, q.container) /\ Has(asinfo[y], a)
      BY <1>h, <2>1, <2>3
    <3> QED BY <2>2, <3>1
  <2> HIDE DEF V
  <2>6. AI!Max(V) = asinfo[i].owner
    BY <2>4, <2>5, LastIs
  <2> QED BY <2>6 DEF AI!Innermost, V
<1>9. served.prio => \A i \in bef + 1 .. Len(asinfo) : asinfo[i].priority = AI!High <=> i \in made
  BY <1>1
<1> QED BY <1>2, <1>4, <1>7, <1>8, <1>9 DEF AI!PiecesExact, bef, n, q

\* An address outside of the request keeps its innermost entry.
LEMMA InnerServes ==
  ASSUME NEW tb, Table(tb), Rooted(tb), Nested(tb), NEW b, NEW e, NEW c, NEW nm, NEW ub, NEW n,
         Serves(tb, b, e, c, nm, ub, n), b \in Nat, e \in Nat,
         NEW a \in Nat, a \notin b .. e, NEW i, NEW d, Inner(tb, a, i, d)
  PROVE  Inner(ub, a, i, d)
<1>1. Table(ub) /\ Kept(tb, ub)
  BY DEF Serves
<1>2. \A j \in DOMAIN ub : j > Len(tb) => b <= ub[j].start /\ ub[j].end <= e
  BY ServesKeeps
<1>3. \A j \in DOMAIN ub : ub[j].start \in Nat /\ ub[j].end \in Nat
  BY <1>1, TableFacts, AsInfoAssumption
<1>4. \A j \in DOMAIN ub : j > Len(tb) => ~ Has(ub[j], a)
  BY <1>2, <1>3 DEF Has
<1> QED BY <1>1, <1>4, InnerGrows

\* add_ram(): a bank becomes RAM.
LEMMA RamServes ==
  ASSUME NEW tb, Table(tb), Rooted(tb), NEW fr, fr \subseteq 0 .. MemEnd, BeforeSysram(tb, fr),
         NEW b \in 0 .. MemEnd, NEW e \in b .. MemEnd, NEW c, NEW ub, NEW n,
         Serves(tb, b, e, c, "ram", ub, n), Len(ub) = Len(tb) + n
  PROVE  Table(ub) /\ Rooted(ub) /\ BeforeSysram(ub, fr \cup (b .. e))
<1>0. /\ Len(tb) \in Nat /\ DOMAIN tb = 1 .. Len(tb) /\ DOMAIN ub = 1 .. Len(ub) /\ Len(ub) \in Nat
      /\ \A i \in DOMAIN ub : ub[i].start \in Nat /\ ub[i].end \in Nat
  BY TableFacts, AsInfoAssumption DEF Serves
<1>b. b \in Nat /\ e \in Nat /\ MemEnd \in Nat
  BY AsInfoAssumption
<1>1. /\ Table(ub) /\ Kept(tb, ub) /\ n \in Nat
      /\ \A i \in DOMAIN ub : i > Len(tb) => ub[i].name = "ram"
      /\ \A i \in Made(tb, n) : \A j \in Made(tb, n) : i # j => Apart(ub[i], ub[j])
      /\ \A a \in b .. e : \E i \in Made(tb, n) : Has(ub[i], a)
  BY DEF Serves
<1>2. Nested(tb) /\ \A i \in DOMAIN tb : tb[i].name # "sysram"
  BY DEF BeforeSysram
<1>3. Rooted(ub) /\ Nested(ub)
  BY <1>2, ServesKeeps
<1>4. \A i \in DOMAIN ub : ub[i].name # "sysram"
  <2> SUFFICES ASSUME NEW i \in DOMAIN ub PROVE ub[i].name # "sysram"
    OBVIOUS
  <2>1. CASE i > Len(tb)
    BY <1>1, <2>1
  <2>2. CASE ~ (i > Len(tb))
    <3>1. i \in DOMAIN tb
      BY <1>0, <2>2
    <3> QED BY <1>1, <1>2, <3>1 DEF Kept
  <2> QED BY <2>1, <2>2
<1>5. ASSUME NEW a \in fr \cup (b .. e) PROVE \E i : Inner(ub, a, i, "ram")
  <2>1. CASE a \in b .. e
    <3>1. PICK m \in Made(tb, n) : Has(ub[m], a)
      BY <1>1, <2>1
    <3>2. m \in DOMAIN ub /\ m > Len(tb) /\ a \in Nat
      BY <1>0, <1>1, <1>b, <2>1 DEF Made
    <3>3. AI!MatchName(ub, m, "ram")
      BY <1>1, <3>2, MatchDef
    <3>4. ASSUME NEW j \in DOMAIN ub, j > m PROVE ~ Has(ub[j], a)
      <4>1. j \in Made(tb, n) /\ j # m
        BY <1>0, <1>1, <3>2, <3>4 DEF Made
      <4>2. Apart(ub[m], ub[j])
        BY <1>1, <4>1
      <4> QED BY <1>0, <3>1, <3>2, <4>2 DEF Apart, Has
    <3> QED BY <3>1, <3>2, <3>3, <3>4 DEF Inner
  <2>2. CASE a \notin b .. e
    <3>1. PICK i : Inner(tb, a, i, "ram")
      BY <2>2 DEF BeforeSysram
    <3>2. a \in Nat
      BY <1>b, <2>2
    <3>3. Inner(ub, a, i, "ram")
      BY <1>2, <1>b, <2>2, <3>1, <3>2, InnerServes
    <3> QED BY <3>3
  <2> QED BY <2>1, <2>2
<1> QED BY <1>1, <1>3, <1>4, <1>5 DEF BeforeSysram

\* reserve_ram() and fdt_asinfo(): a range is taken.
LEMMA RangeServes ==
  ASSUME NEW tb, Table(tb), Rooted(tb), NEW fr, fr \subseteq 0 .. MemEnd, BeforeSysram(tb, fr),
         NEW b \in 0 .. MemEnd, NEW e \in b .. MemEnd, NEW c, NEW nm, nm # "sysram", NEW ub, NEW n,
         Serves(tb, b, e, c, nm, ub, n)
  PROVE  Table(ub) /\ Rooted(ub) /\ BeforeSysram(ub, fr \ (b .. e))
<1>0. /\ Len(tb) \in Nat /\ DOMAIN tb = 1 .. Len(tb) /\ DOMAIN ub = 1 .. Len(ub) /\ Len(ub) \in Nat
  BY TableFacts DEF Serves
<1>b. b \in Nat /\ e \in Nat /\ MemEnd \in Nat
  BY AsInfoAssumption
<1>1. /\ Table(ub) /\ Kept(tb, ub)
      /\ \A i \in DOMAIN ub : i > Len(tb) => ub[i].name = nm
  BY DEF Serves
<1>2. Nested(tb) /\ \A i \in DOMAIN tb : tb[i].name # "sysram"
  BY DEF BeforeSysram
<1>3. Rooted(ub) /\ Nested(ub)
  BY <1>2, ServesKeeps
<1>4. \A i \in DOMAIN ub : ub[i].name # "sysram"
  <2> SUFFICES ASSUME NEW i \in DOMAIN ub PROVE ub[i].name # "sysram"
    OBVIOUS
  <2>1. CASE i > Len(tb)
    BY <1>1, <2>1
  <2>2. CASE ~ (i > Len(tb))
    <3>1. i \in DOMAIN tb
      BY <1>0, <2>2
    <3> QED BY <1>1, <1>2, <3>1 DEF Kept
  <2> QED BY <2>1, <2>2
<1>5. ASSUME NEW a \in fr \ (b .. e) PROVE \E i : Inner(ub, a, i, "ram")
  <2>1. PICK i : Inner(tb, a, i, "ram")
    BY DEF BeforeSysram
  <2>2. a \in Nat /\ a \notin b .. e
    BY <1>b
  <2>3. Inner(ub, a, i, "ram")
    BY <1>2, <1>b, <2>1, <2>2, InnerServes
  <2> QED BY <2>3
<1> QED BY <1>1, <1>3, <1>4, <1>5 DEF BeforeSysram

\* as_add64() of a range that each entry has, or has nothing of.
Extended(tb, fr, b, e, ub) ==
  /\ Table(ub) /\ Rooted(ub) /\ BeforeSysram(ub, fr \ (b .. e)) /\ Kept(tb, ub)
  /\ Len(ub) = Len(tb) + 1 /\ ub[Len(ub)].start = b /\ ub[Len(ub)].end = e

\* An entry more that lies in each other one or beside it.
LEMMA OneEntry ==
  ASSUME NEW tb, Table(tb), Rooted(tb), NEW fr, fr \subseteq 0 .. MemEnd, BeforeSysram(tb, fr),
         NEW b \in 0 .. MemEnd, NEW e \in b .. MemEnd, NEW nm \in EntryName, nm # "sysram",
         NEW ow \in 1 .. Len(tb),
         \A i \in DOMAIN tb : (tb[i].start <= b /\ e <= tb[i].end) \/ tb[i].end < b \/ e < tb[i].start
  PROVE  Extended(tb, fr, b, e, AI!AddEntry(tb, b, e, {}, nm, ow))
<1> DEFINE x == [start |-> b, end |-> e, attr |-> {}, name |-> nm, owner |-> ow,
                 priority |-> AI!Default]
           ub == AI!AddEntry(tb, b, e, {}, nm, ow)
           N == Len(tb) + 1
<1>0. /\ Len(tb) \in Nat /\ DOMAIN tb = 1 .. Len(tb)
      /\ \A i \in DOMAIN tb : tb[i].start \in Nat /\ tb[i].end \in Nat
  BY TableFacts, AsInfoAssumption
<1>b. b \in Nat /\ e \in Nat /\ b <= e /\ MemEnd \in Nat
  BY AsInfoAssumption
<1>1. Longer(tb, {ow}, <<x>>, ub)
  <2>1. {} \in SUBSET {AI!Kids, AI!Continued} /\ ow \in 0 .. Len(tb)
    BY <1>0
  <2> QED BY <2>1, AddEntryDoes
<1>2. /\ x.start = b /\ x.end = e /\ x.name = nm /\ x.owner = ow
  OBVIOUS
<1> HIDE DEF x, ub
<1>3. /\ Table(ub) /\ Kept(tb, ub) /\ Len(ub) = N /\ ub[N] = x /\ DOMAIN ub = 1 .. N
  BY <1>0, <1>1, TableFacts DEF Longer
<1>d. DOMAIN ub = 1 .. Len(tb) + 1
  BY <1>3
<1>n. Len(tb) \in Nat
  BY <1>0
<1>4. \A i \in DOMAIN ub : i > Len(tb) => i = N
  BY <1>d, <1>n
<1>5. Rooted(ub)
  <2>1. ow # 0
    BY <1>0
  <2> QED BY <1>2, <1>3, <1>4, <2>1, RootedGrows
<1>6. Nested(ub)
  <2>1. ASSUME NEW i \in DOMAIN ub, i < N PROVE Covers(ub[i], ub[N]) \/ Apart(ub[i], ub[N])
    <3>1. i \in DOMAIN tb
      BY <1>0, <1>3, <2>1
    <3>2. ub[i].start = tb[i].start /\ ub[i].end = tb[i].end
      BY <1>3, <3>1 DEF Kept
    <3> QED BY <1>2, <1>3, <3>1, <3>2 DEF Covers, Apart
  <2>2. Nested(tb)
    BY DEF BeforeSysram
  <2> QED BY <1>3, <1>4, <2>1, <2>2, NestedGrows
<1>7. \A i \in DOMAIN ub : ub[i].name # "sysram"
  <2> SUFFICES ASSUME NEW i \in DOMAIN ub PROVE ub[i].name # "sysram"
    OBVIOUS
  <2>1. CASE i = N
    BY <1>2, <1>3, <2>1
  <2>2. CASE i # N
    <3>1. i \in DOMAIN tb
      BY <1>0, <1>d, <2>2
    <3> QED BY <1>3, <3>1 DEF Kept, BeforeSysram
  <2> QED BY <2>1, <2>2
<1>8. ASSUME NEW a \in fr \ (b .. e) PROVE \E i : Inner(ub, a, i, "ram")
  <2>1. PICK i : Inner(tb, a, i, "ram")
    BY DEF BeforeSysram
  <2>0. a \in 0 .. MemEnd /\ a \notin b .. e
    OBVIOUS
  <2>2. a \in Nat /\ a \notin b .. e
    BY <2>0, <1>b
  <2>3. ~ Has(ub[N], a)
    BY <1>2, <1>3, <1>b, <2>2 DEF Has
  <2>4. Inner(ub, a, i, "ram")
    BY <1>3, <1>4, <2>1, <2>3, InnerGrows
  <2> QED BY <2>4
<1>9. Extended(tb, fr, b, e, ub)
  BY <1>2, <1>3, <1>5, <1>6, <1>7, <1>8 DEF Extended, BeforeSysram
<1> QED BY <1>9 DEF ub

\* An area, perhaps with an overlay of the same range.
LEMMA AreaDoes ==
  ASSUME NEW tb, Table(tb), Rooted(tb), NEW fr, fr \subseteq 0 .. MemEnd, BeforeSysram(tb, fr),
         NEW b \in 0 .. MemEnd, NEW e \in b .. MemEnd, NEW ov \in BOOLEAN,
         \A i \in DOMAIN tb : (tb[i].start <= b /\ e <= tb[i].end) \/ tb[i].end < b \/ e < tb[i].start
  PROVE  LET ub == AI!AsAdd64(tb, b, e, ov, "imagefs", AI!AsFind(tb, "memory")) IN
         Table(ub) /\ Rooted(ub) /\ BeforeSysram(ub, fr \ (b .. e))
<1> DEFINE one == AI!AddEntry(tb, b, e, {}, "imagefs", 1)
           two == AI!AddEntry(one, b, e, {}, "io", Len(one))
<1>0. /\ Len(tb) \in Nat /\ DOMAIN tb = 1 .. Len(tb) /\ 1 \in DOMAIN tb /\ tb[1].name = "memory"
  BY TableFacts DEF Rooted, Table
<1>b. b \in Nat /\ e \in Nat /\ b <= e
  BY AsInfoAssumption
<1>1. AI!AsFind(tb, "memory") = 1
  <2> DEFINE hits == {i \in DOMAIN tb : tb[i].name = "memory"}
  <2>1. AI!AsFind(tb, "memory") = IF hits = {} THEN AI!AS_NULL_OFF ELSE AI!Min(hits)
    BY DEF AI!AsFind
  <2>2. hits \in SUBSET Int /\ 1 \in hits /\ \A y \in hits : 1 <= y
    BY <1>0
  <2> HIDE DEF hits
  <2>3. AI!Min(hits) = 1
    BY <2>2, LowestIs
  <2> QED BY <2>1, <2>2, <2>3
<1>2. AI!AsAdd64(tb, b, e, ov, "imagefs", AI!AsFind(tb, "memory")) = IF ov THEN two ELSE one
  BY <1>1 DEF AI!AsAdd64
<1>3. Extended(tb, fr, b, e, one)
  <2>1. 1 \in 1 .. Len(tb) /\ "imagefs" \in EntryName /\ "imagefs" # "sysram"
    BY <1>0 DEF EntryName
  <2> QED BY <2>1, OneEntry
<1> HIDE DEF one
<1>4. /\ Table(one) /\ Rooted(one) /\ BeforeSysram(one, fr \ (b .. e)) /\ Kept(tb, one)
      /\ Len(one) = Len(tb) + 1 /\ one[Len(one)].start = b /\ one[Len(one)].end = e
      /\ DOMAIN one = 1 .. Len(tb) + 1
  BY <1>0, <1>3, TableFacts DEF Extended
<1>5. Extended(one, fr \ (b .. e), b, e, two)
  <2>1. ASSUME NEW i \in DOMAIN one
        PROVE  (one[i].start <= b /\ e <= one[i].end) \/ one[i].end < b \/ e < one[i].start
    <3>1. CASE i = Len(one)
      BY <1>4, <1>b, <3>1
    <3>2. CASE i # Len(one)
      <4>1. i \in DOMAIN tb
        BY <1>0, <1>4, <3>2
      <4> QED BY <1>4, <4>1 DEF Kept
    <3> QED BY <3>1, <3>2
  <2>2. Len(one) \in 1 .. Len(one) /\ "io" \in EntryName /\ "io" # "sysram"
    BY <1>0, <1>4 DEF EntryName
  <2>3. fr \ (b .. e) \subseteq 0 .. MemEnd
    OBVIOUS
  <2> QED BY <1>4, <2>1, <2>2, <2>3, OneEntry
<1> HIDE DEF two
<1>6. (fr \ (b .. e)) \ (b .. e) = fr \ (b .. e)
  OBVIOUS
<1> QED BY <1>2, <1>4, <1>5, <1>6 DEF Extended

\* The first entries: "memory" has all addresses.
LEMMA RootDoes ==
  LET root == AI!AsAdd64(<< >>, 0, MemEnd, FALSE, "memory", AI!AS_NULL_OFF)
      ub == AI!AsAdd64(root, 0, Below4G, FALSE, "below4G", 1)
  IN  Table(ub) /\ Rooted(ub) /\ BeforeSysram(ub, {})
<1> DEFINE root == AI!AddEntry(<< >>, 0, MemEnd, {}, "memory", 0)
           ub == AI!AddEntry(root, 0, Below4G, {}, "below4G", 1)
           x == [start |-> 0, end |-> MemEnd, attr |-> {}, name |-> "memory", owner |-> 0,
                 priority |-> AI!Default]
<1>m. MemEnd \in Nat /\ Below4G \in 0 .. MemEnd /\ 0 \in 0 .. MemEnd /\ MemEnd \in 0 .. MemEnd
  BY AsInfoAssumption
<1>1. AI!AsAdd64(<< >>, 0, MemEnd, FALSE, "memory", AI!AS_NULL_OFF) = root
  BY DEF AI!AsAdd64, AI!AS_NULL_OFF
<1>2. AI!AsAdd64(root, 0, Below4G, FALSE, "below4G", 1) = ub
  BY DEF AI!AsAdd64
<1>3. Table(<< >>)
  BY DEF Table
<1>4. Longer(<< >>, {0}, <<x>>, root)
  <2>1. {} \in SUBSET {AI!Kids, AI!Continued} /\ "memory" \in EntryName /\ 0 \in 0 .. Len(<< >>)
    BY DEF EntryName
  <2> QED BY <1>3, <1>m, <2>1, AddEntryDoes
<1>5. x.start = 0 /\ x.end = MemEnd /\ x.name = "memory" /\ x.owner = 0
  OBVIOUS
<1> HIDE DEF root, x
<1>6. Table(root) /\ Len(root) = 1 /\ root[1] = x /\ DOMAIN root = 1 .. 1
  BY <1>4, TableFacts DEF Longer
<1>7. Rooted(root)
  <2>1. root # << >>
    BY <1>6
  <2>2. /\ root[1].name = "memory" /\ root[1].start = 0 /\ root[1].end = MemEnd
        /\ \A i \in DOMAIN root : i = 1
    BY <1>5, <1>6
  <2> QED BY <2>1, <2>2 DEF Rooted
<1>8. BeforeSysram(root, {})
  BY <1>5, <1>6 DEF BeforeSysram, Nested
<1>9. Extended(root, {}, 0, Below4G, ub)
  <2>1. \A i \in DOMAIN root : (root[i].start <= 0 /\ Below4G <= root[i].end)
                               \/ root[i].end < 0 \/ Below4G < root[i].start
    BY <1>5, <1>6, <1>m
  <2>2. "below4G" \in EntryName /\ "below4G" # "sysram" /\ 1 \in 1 .. Len(root)
    BY <1>6 DEF EntryName
  <2> QED BY <1>6, <1>7, <1>8, <1>m, <2>1, <2>2, OneEntry
<1> HIDE DEF ub
<1>10. {} \ (0 .. Below4G) = {}
  OBVIOUS
<1>11. Table(ub) /\ Rooted(ub) /\ BeforeSysram(ub, {})
  BY <1>9, <1>10 DEF Extended
<1> QED BY <1>1, <1>2, <1>11

\* as_set_priority() changes priorities only.
Raised(tb, run, ub) ==
  ub = [i \in DOMAIN tb |-> IF i \in run THEN [tb[i] EXCEPT !.priority = AI!High] ELSE tb[i]]

\* Ranges, names, owners and marks stay.
LEMMA PriorityDoes ==
  ASSUME NEW tb, Table(tb), NEW run, NEW ub, Raised(tb, run, ub)
  PROVE  /\ Table(ub) /\ Len(ub) = Len(tb) /\ DOMAIN ub = DOMAIN tb
         /\ \A i \in DOMAIN tb :
              /\ ub[i].start = tb[i].start /\ ub[i].end = tb[i].end /\ ub[i].name = tb[i].name
              /\ ub[i].owner = tb[i].owner /\ ub[i].attr = tb[i].attr
              /\ ub[i].priority = IF i \in run THEN AI!High ELSE tb[i].priority
<1>1. Len(tb) \in Nat /\ DOMAIN tb = 1 .. Len(tb) /\ \A i \in DOMAIN tb : tb[i] \in EntryType
  BY TableFacts
<1>2. DOMAIN ub = 1 .. Len(tb) /\ Len(ub) = Len(tb)
  BY <1>1 DEF Raised
<1>3. ASSUME NEW i \in DOMAIN tb
      PROVE  /\ ub[i] \in EntryType
             /\ ub[i].start = tb[i].start /\ ub[i].end = tb[i].end /\ ub[i].name = tb[i].name
             /\ ub[i].owner = tb[i].owner /\ ub[i].attr = tb[i].attr
             /\ ub[i].priority = IF i \in run THEN AI!High ELSE tb[i].priority
  <2>1. tb[i] \in EntryType
    BY <1>1
  <2>2. ub[i] = IF i \in run THEN [tb[i] EXCEPT !.priority = AI!High] ELSE tb[i]
    BY DEF Raised
  <2> QED BY <2>1, <2>2 DEF EntryType
<1>4. ub \in Seq(EntryType)
  <2>1. ub = [i \in 1 .. Len(tb) |-> IF i \in run THEN [tb[i] EXCEPT !.priority = AI!High]
                                     ELSE tb[i]]
    BY <1>1 DEF Raised
  <2>2. \A i \in 1 .. Len(tb) : ub[i] \in EntryType
    BY <1>1, <1>3
  <2> QED BY <1>1, <2>1, <2>2
<1>5. \A i \in DOMAIN ub : ub[i].start <= ub[i].end /\ ub[i].owner < i
  BY <1>1, <1>2, <1>3 DEF Table
<1>6. Table(ub)
  BY <1>4, <1>5 DEF Table
<1> QED BY <1>1, <1>2, <1>3, <1>6

\* The run of the offset is raised, and nothing else has been.
LEMMA PriorityKeeps ==
  ASSUME NEW tb, Table(tb), Rooted(tb), NEW fr, BeforeSysram(tb, fr),
         NEW la, ExactIn(tb, la), la.pieces > 0,
         NEW lb, lb.pieces = la.pieces, lb.before = la.before, lb.req = la.req, lb.prio = TRUE,
         NEW ub, Raised(tb, AI!Chain(tb, la.before + 1), ub)
  PROVE  Table(ub) /\ Rooted(ub) /\ BeforeSysram(ub, fr) /\ ExactIn(ub, lb)
<1> DEFINE run == AI!Chain(tb, la.before + 1)
<1>1. run = la.before + 1 .. la.before + la.pieces
  BY ChainIs
<1> HIDE DEF run
<1>2. /\ Table(ub) /\ Len(ub) = Len(tb) /\ DOMAIN ub = DOMAIN tb
      /\ \A i \in DOMAIN tb :
           /\ ub[i].start = tb[i].start /\ ub[i].end = tb[i].end /\ ub[i].name = tb[i].name
           /\ ub[i].owner = tb[i].owner /\ ub[i].attr = tb[i].attr
           /\ ub[i].priority = IF i \in run THEN AI!High ELSE tb[i].priority
  BY PriorityDoes DEF run
<1>0. Len(tb) \in Nat /\ DOMAIN tb = 1 .. Len(tb)
  BY TableFacts
<1>3. Rooted(ub)
  <2>1. 1 \in DOMAIN tb /\ ub # << >>
    BY <1>0, <1>2 DEF Rooted, Table
  <2> QED BY <1>2, <2>1 DEF Rooted
<1>4. \A i \in DOMAIN tb : \A nm : AI!MatchName(ub, i, nm) <=> AI!MatchName(tb, i, nm)
  <2>1. Kin(tb, ub)
    BY <1>0, <1>2 DEF Kin
  <2> QED BY <1>2, <2>1, MatchKin
<1>5. \A i \in DOMAIN tb : \A a : Has(ub[i], a) <=> Has(tb[i], a)
  BY <1>2 DEF Has
<1>6. BeforeSysram(ub, fr)
  <2>1. Nested(ub)
    BY <1>2 DEF BeforeSysram, Nested, Covers, Apart
  <2>2. \A i \in DOMAIN ub : ub[i].name # "sysram"
    BY <1>2 DEF BeforeSysram
  <2>3. ASSUME NEW a \in fr PROVE \E i : Inner(ub, a, i, "ram")
    <3>1. PICK i : Inner(tb, a, i, "ram")
      BY DEF BeforeSysram
    <3>2. Inner(ub, a, i, "ram")
      BY <1>2, <1>4, <1>5, <3>1 DEF Inner
    <3> QED BY <3>2
  <2> QED BY <2>1, <2>2, <2>3 DEF BeforeSysram
<1>7. ExactIn(ub, lb)
  <2> DEFINE bef == la.before
             n == la.pieces
             q == la.req
             made == bef + 1 .. bef + n
  <2>1. /\ bef \in Nat /\ n \in Nat /\ bef + n <= Len(tb)
        /\ q.start \in Nat /\ q.end \in Nat
        /\ \A i \in made :
             /\ q.start <= tb[i].start /\ tb[i].end <= q.end
             /\ \A a \in tb[i].start .. tb[i].end : InnerAt(tb, bef, q.container, a, tb[i].owner)
             /\ AI!Continued \in tb[i].attr <=> i # bef + n
             /\ \A j \in made : i # j => Apart(tb[i], tb[j])
        /\ \A a \in q.start .. q.end : \E i \in made : Has(tb[i], a)
    BY DEF ExactIn
  <2>2. \A i \in bef + 1 .. Len(tb) : tb[i].priority = AI!High => i \in made
    BY DEF ExactIn
  <2>3. lb.pieces = n /\ lb.before = bef /\ lb.req = q /\ run = made
    BY <1>1
  <2> HIDE DEF bef, n, q
  <2>4. \A i \in made : i \in DOMAIN tb
    BY <1>0, <2>1
  <2>5. \A i \in bef + 1 .. Len(tb) : i \in DOMAIN tb /\ (ub[i].priority = AI!High <=> i \in made)
    BY <1>0, <1>2, <2>1, <2>2, <2>3
  <2>6. \A a, i : InnerAt(tb, bef, q.container, a, i) => InnerAt(ub, bef, q.container, a, i)
    <3>1. \A i \in 1 .. bef : i \in DOMAIN tb
      BY <1>0, <2>1
    <3> QED BY <1>4, <1>5, <3>1 DEF InnerAt
  <2>7. \A i \in made :
             /\ q.start <= ub[i].start /\ ub[i].end <= q.end
             /\ \A a \in ub[i].start .. ub[i].end : InnerAt(ub, bef, q.container, a, ub[i].owner)
             /\ AI!Continued \in ub[i].attr <=> i # bef + n
             /\ \A j \in made : i # j => Apart(ub[i], ub[j])
    BY <1>2, <2>1, <2>4, <2>6 DEF Apart
  <2>8. \A a \in q.start .. q.end : \E i \in made : Has(ub[i], a)
    BY <1>5, <2>1, <2>4
  <2>9. \A i \in bef + 1 .. Len(ub) : ub[i].priority = AI!High <=> lb.prio /\ i \in made
    BY <1>2, <2>5
  <2>10. lb.prio \in BOOLEAN /\ bef + n <= Len(ub)
    BY <1>2, <2>1
  <2> HIDE DEF made
  <2> QED BY <2>1, <2>3, <2>7, <2>8, <2>9, <2>10, Zenon DEF ExactIn, made
<1> QED BY <1>2, <1>3, <1>6, <1>7

-----------------------------------------------------------------------------
(* The address space section: add_sysram()                                 *)

\* ram_list has each free address in exactly one run.
LEMMA RunsDo ==
  ASSUME memFree \subseteq 0 .. MemEnd
  PROVE  /\ \A r \in AI!RamList :
              /\ r.start \in 0 .. MemEnd /\ r.end \in r.start .. MemEnd
              /\ \A a \in r.start .. r.end : a \in memFree
         /\ \A a \in memFree : \E r \in AI!RamList : Has(r, a)
         /\ \A r1, r2 \in AI!RamList : \A a \in Int : Has(r1, a) /\ Has(r2, a) => r1 = r2
         /\ \A r1, r2 \in AI!RamList : r1.start = r2.start => r1 = r2
<1>m. MemEnd \in Nat
  BY AsInfoAssumption
<1>1. ASSUME NEW r \in AI!RamList
      PROVE  /\ r.start \in 0 .. MemEnd /\ r.end \in r.start .. MemEnd
             /\ r \in [start : memFree, end : memFree]
             /\ \A a \in r.start .. r.end : a \in memFree
             /\ r.start - 1 \notin memFree /\ r.end + 1 \notin memFree
  <2>1. /\ r \in [start : memFree, end : memFree] /\ r.start <= r.end
        /\ r.start .. r.end \subseteq memFree
        /\ r.start - 1 \notin memFree /\ r.end + 1 \notin memFree
    BY DEF AI!RamList
  <2>2. r.start \in memFree /\ r.end \in memFree
    BY <2>1
  <2>3. r.start \in 0 .. MemEnd /\ r.end \in 0 .. MemEnd
    BY <2>2
  <2> QED BY <1>m, <2>1, <2>3
<1>2. ASSUME NEW a \in memFree PROVE \E r \in AI!RamList : Has(r, a)
  <2>0. a \in 0 .. MemEnd /\ a \in Nat
    BY <1>m
  <2>1. \E s \in 0 .. a : s - 1 \notin memFree /\ \A y \in 1 .. a : y - 1 \notin memFree => y <= s
    <3> DEFINE V == {y \in 1 .. a : y - 1 \notin memFree}
    <3>1. CASE V = {}
      <4>1. 0 \in 0 .. a /\ 0 - 1 \notin memFree
        BY <1>m, <2>0
      <4> QED BY <3>1, <4>1
    <3>2. CASE V # {}
      <4>1. V \in SUBSET (1 .. a)
        OBVIOUS
      <4> HIDE DEF V
      <4>2. PICK s \in V : \A y \in V : y <= s
        BY <2>0, <3>2, <4>1, LastExists
      <4>3. s \in 0 .. a /\ s - 1 \notin memFree
        BY <4>1, <4>2 DEF V
      <4> QED BY <4>2, <4>3 DEF V
    <3> QED BY <3>1, <3>2
  <2>2. PICK s \in 0 .. a : s - 1 \notin memFree /\ \A y \in 1 .. a : y - 1 \notin memFree => y <= s
    BY <2>1
  <2>3. \E t \in a .. MemEnd :
          t + 1 \notin memFree /\ \A y \in a .. MemEnd : y + 1 \notin memFree => t <= y
    <3> DEFINE V == {y \in a .. MemEnd : y + 1 \notin memFree}
    <3>1. V \in SUBSET (0 .. MemEnd) /\ MemEnd \in V
      BY <1>m, <2>0
    <3> HIDE DEF V
    <3>2. PICK t \in V : \A y \in V : t <= y
      BY <1>m, <3>1, FirstExists
    <3> QED BY <3>2 DEF V
  <2>4. PICK t \in a .. MemEnd :
          t + 1 \notin memFree /\ \A y \in a .. MemEnd : y + 1 \notin memFree => t <= y
    BY <2>3
  <2>5. ASSUME NEW x \in s .. t PROVE x \in memFree
    <3> SUFFICES ASSUME x \notin memFree PROVE FALSE
      OBVIOUS
    <3>1. CASE x < a
      <4>1. x + 1 \in 1 .. a /\ (x + 1) - 1 = x
        BY <2>0, <3>1
      <4>2. x + 1 <= s
        BY <2>2, <4>1
      <4> QED BY <2>0, <4>2
    <3>2. CASE x > a
      <4>1. x - 1 \in a .. MemEnd /\ (x - 1) + 1 = x
        BY <1>m, <2>0, <3>2
      <4>2. t <= x - 1
        BY <2>4, <4>1
      <4> QED BY <1>m, <2>0, <4>2
    <3> QED BY <2>0, <3>1, <3>2
  <2> DEFINE r == [start |-> s, end |-> t]
  <2>6. s \in memFree /\ t \in memFree /\ s <= t /\ s .. t \subseteq memFree
    BY <1>m, <2>0, <2>5
  <2>7. r \in AI!RamList
    BY <2>2, <2>4, <2>6 DEF AI!RamList
  <2>8. Has(r, a)
    BY <2>0 DEF Has
  <2> QED BY <2>7, <2>8
<1>3. ASSUME NEW r1 \in AI!RamList, NEW r2 \in AI!RamList, NEW a \in Int, Has(r1, a), Has(r2, a)
      PROVE  r1.start <= r2.start /\ r2.end <= r1.end
  <2>1. /\ r1.start \in 0 .. MemEnd /\ r1.end \in r1.start .. MemEnd
        /\ r2.start \in 0 .. MemEnd /\ r2.end \in r2.start .. MemEnd
        /\ \A x \in r2.start .. r2.end : x \in memFree
        /\ r1.start - 1 \notin memFree /\ r1.end + 1 \notin memFree
    BY <1>1
  <2>2. r1.start <= a /\ a <= r1.end /\ r2.start <= a /\ a <= r2.end
    BY <1>3 DEF Has
  <2>3. ~ (r1.start > r2.start)
    <3> SUFFICES ASSUME r1.start > r2.start PROVE FALSE
      OBVIOUS
    <3>1. r1.start - 1 \in r2.start .. r2.end
      BY <1>m, <2>1, <2>2
    <3> QED BY <2>1, <3>1
  <2>4. ~ (r1.end < r2.end)
    <3> SUFFICES ASSUME r1.end < r2.end PROVE FALSE
      OBVIOUS
    <3>1. r1.end + 1 \in r2.start .. r2.end
      BY <1>m, <2>1, <2>2
    <3> QED BY <2>1, <3>1
  <2> QED BY <1>m, <2>1, <2>3, <2>4
<1>4. ASSUME NEW r1 \in AI!RamList, NEW r2 \in AI!RamList, NEW a \in Int, Has(r1, a), Has(r2, a)
      PROVE  r1 = r2
  <2>1. /\ r1.start <= r2.start /\ r2.end <= r1.end /\ r2.start <= r1.start /\ r1.end <= r2.end
    BY <1>3, <1>4
  <2>2. /\ r1 \in [start : memFree, end : memFree] /\ r2 \in [start : memFree, end : memFree]
        /\ r1.start \in Nat /\ r2.start \in Nat /\ r1.end \in Nat /\ r2.end \in Nat
    BY <1>1, <1>m
  <2>3. r1.start = r2.start /\ r1.end = r2.end
    BY <2>1, <2>2
  <2> QED BY <2>2, <2>3
<1>5. ASSUME NEW r1 \in AI!RamList, NEW r2 \in AI!RamList, r1.start = r2.start PROVE r1 = r2
  <2>1. Has(r1, r1.start) /\ Has(r2, r1.start) /\ r1.start \in Int
    BY <1>1, <1>5, <1>m DEF Has
  <2> QED BY <1>4, <2>1
<1> QED BY <1>1, <1>2, <1>4, <1>5

\* The section tb with the runs that start before x.
SysSoFar(tb, x, wb) ==
  /\ Table(wb) /\ Kept(tb, wb) /\ Rooted(wb) /\ Nested(wb)
  /\ \A i \in DOMAIN wb : i > Len(tb) =>
       /\ wb[i].name = "sysram" /\ wb[i].owner \in DOMAIN tb
       /\ AI!MatchName(wb, wb[i].owner, "ram") /\ Covers(wb[wb[i].owner], wb[i])
       /\ \E r \in AI!RamList : r.start < x /\ Covers(r, wb[i])
  /\ \A i, j \in DOMAIN wb : i > Len(tb) /\ j > Len(tb) /\ i # j => Apart(wb[i], wb[j])
  /\ \A r \in AI!RamList : r.start < x =>
       \A a \in r.start .. r.end : \E i \in DOMAIN wb : i > Len(tb) /\ Has(wb[i], a)
  /\ \A r \in AI!RamList : ~ (r.start < x) => Under(wb, r.start, r.end, "ram")

\* One run more.
LEMMA RunServes ==
  ASSUME memFree \subseteq 0 .. MemEnd, NEW tb, Table(tb), NEW x \in Nat, NEW wb, SysSoFar(tb, x, wb),
         NEW r \in AI!RamList, r.start = x, NEW ub, NEW n,
         Serves(wb, r.start, r.end, "ram", "sysram", ub, n), Len(ub) = Len(wb) + n
  PROVE  SysSoFar(tb, x + 1, ub)
<1>r. /\ \A y \in AI!RamList : y.start \in 0 .. MemEnd /\ y.end \in y.start .. MemEnd
      /\ \A y \in AI!RamList : \A a \in Int : Has(y, a) /\ Has(r, a) => y = r
      /\ \A y \in AI!RamList : y.start = r.start => y = r
  BY RunsDo
<1>m. MemEnd \in Nat
  BY AsInfoAssumption
<1>w. /\ Table(wb) /\ Kept(tb, wb) /\ Rooted(wb) /\ Nested(wb)
      /\ \A i \in DOMAIN wb : i > Len(tb) =>
           /\ wb[i].name = "sysram" /\ wb[i].owner \in DOMAIN tb
           /\ AI!MatchName(wb, wb[i].owner, "ram") /\ Covers(wb[wb[i].owner], wb[i])
           /\ \E y \in AI!RamList : y.start < x /\ Covers(y, wb[i])
      /\ \A i, j \in DOMAIN wb : i > Len(tb) /\ j > Len(tb) /\ i # j => Apart(wb[i], wb[j])
      /\ \A y \in AI!RamList : y.start < x =>
           \A a \in y.start .. y.end : \E i \in DOMAIN wb : i > Len(tb) /\ Has(wb[i], a)
      /\ \A y \in AI!RamList : ~ (y.start < x) => Under(wb, y.start, y.end, "ram")
  BY DEF SysSoFar
<1>s. /\ Table(ub) /\ Kept(wb, ub) /\ n \in Nat
      /\ \A i \in DOMAIN ub : i > Len(wb) => ub[i].name = "sysram" /\ ub[i].owner # 0
      /\ \A i \in Made(wb, n) :
           /\ r.start <= ub[i].start /\ ub[i].end <= r.end
           /\ \A a \in ub[i].start .. ub[i].end : Inner(wb, a, ub[i].owner, "ram")
           /\ \A j \in Made(wb, n) : i # j => Apart(ub[i], ub[j])
      /\ \A a \in r.start .. r.end : \E i \in Made(wb, n) : Has(ub[i], a)
  BY DEF Serves
<1>0. /\ Len(tb) \in Nat /\ DOMAIN tb = 1 .. Len(tb) /\ Len(wb) \in Nat /\ DOMAIN wb = 1 .. Len(wb)
      /\ Len(tb) <= Len(wb) /\ DOMAIN ub = 1 .. Len(wb) + n
      /\ \A i \in DOMAIN ub : ub[i].start \in Nat /\ ub[i].end \in Nat /\ ub[i].start <= ub[i].end
      /\ \A i \in DOMAIN wb : wb[i].start \in Nat /\ wb[i].end \in Nat /\ wb[i].start <= wb[i].end
  BY <1>w, <1>s, TableFacts, AsInfoAssumption DEF Kept
<1>1. Kept(tb, ub) /\ Rooted(ub) /\ Nested(ub)
  BY <1>w, <1>s, KeptTrans, ServesKeeps
<1>2. ASSUME NEW i \in DOMAIN wb
      PROVE  /\ i \in DOMAIN ub /\ ub[i].start = wb[i].start /\ ub[i].end = wb[i].end
             /\ ub[i].name = wb[i].name /\ ub[i].owner = wb[i].owner
             /\ AI!MatchName(ub, i, "ram") <=> AI!MatchName(wb, i, "ram")
  <2>1. i \in DOMAIN ub
    BY <1>0, <1>s
  <2>2. AI!MatchName(ub, i, "ram") <=> AI!MatchName(wb, i, "ram")
    BY <1>w, <1>s, MatchKept
  <2> QED BY <1>s, <2>1, <2>2 DEF Kept
<1>3. \A i \in DOMAIN ub : i \in DOMAIN wb \/ i \in Made(wb, n)
  BY <1>0, <1>s DEF Made
<1>4. \A i \in Made(wb, n) : i \in DOMAIN ub /\ i > Len(wb) /\ i > Len(tb)
  BY <1>0, <1>s DEF Made
<1>5. \A i \in DOMAIN tb : i \in DOMAIN wb
  BY <1>0
<1>6. ASSUME NEW i \in DOMAIN wb, i > Len(tb), NEW a \in Int, Has(wb[i], a) PROVE ~ Has(r, a)
  <2>1. PICK y \in AI!RamList : y.start < x /\ Covers(y, wb[i])
    BY <1>w, <1>6
  <2>2. Has(y, a)
    BY <1>0, <1>r, <1>m, <1>6, <2>1 DEF Has, Covers
  <2>3. y # r
    BY <1>r, <1>m, <2>1
  <2> QED BY <1>r, <2>2, <2>3
<1>7. ASSUME NEW i \in Made(wb, n)
      PROVE  /\ ub[i].owner \in DOMAIN tb /\ AI!MatchName(ub, ub[i].owner, "ram")
             /\ Covers(ub[ub[i].owner], ub[i])
             /\ Covers(r, ub[i])
  <2> DEFINE q == ub[i].owner
  <2>1. \A a \in ub[i].start .. ub[i].end : Inner(wb, a, q, "ram")
    BY <1>s
  <2>2. /\ ub[i].start \in Nat /\ ub[i].end \in Nat /\ ub[i].start <= ub[i].end
    BY <1>0, <1>4
  <2> HIDE DEF q
  <2>3. Inner(wb, ub[i].start, q, "ram") /\ Inner(wb, ub[i].end, q, "ram")
    BY <2>1, <2>2
  <2>4. /\ q \in DOMAIN wb /\ AI!MatchName(wb, q, "ram")
        /\ Has(wb[q], ub[i].start) /\ Has(wb[q], ub[i].end)
    BY <2>3 DEF Inner
  <2>5. Covers(r, ub[i])
    BY <1>s DEF Covers
  <2>6. ~ (q > Len(tb))
    <3>1. Has(r, ub[i].start)
      BY <1>r, <1>m, <2>2, <2>5 DEF Covers, Has
    <3> QED BY <1>6, <2>2, <2>4, <3>1
  <2>7. q \in DOMAIN tb
    BY <1>0, <2>4, <2>6
  <2>8. Covers(ub[q], ub[i])
    BY <1>2, <2>4 DEF Covers, Has
  <2> QED BY <1>2, <2>4, <2>5, <2>7, <2>8 DEF q
<1>8. ASSUME NEW i \in DOMAIN ub, i > Len(tb)
      PROVE  /\ ub[i].name = "sysram" /\ ub[i].owner \in DOMAIN tb
             /\ AI!MatchName(ub, ub[i].owner, "ram") /\ Covers(ub[ub[i].owner], ub[i])
             /\ \E y \in AI!RamList : y.start < x + 1 /\ Covers(y, ub[i])
  <2>1. CASE i \in Made(wb, n)
    BY <1>s, <1>4, <1>7, <2>1
  <2>2. CASE i \in DOMAIN wb
    <3>1. /\ wb[i].name = "sysram" /\ wb[i].owner \in DOMAIN tb
          /\ AI!MatchName(wb, wb[i].owner, "ram") /\ Covers(wb[wb[i].owner], wb[i])
      BY <1>w, <1>8, <2>2
    <3>2. PICK y \in AI!RamList : y.start < x /\ Covers(y, wb[i])
      BY <1>w, <1>8, <2>2
    <3>3. y.start < x + 1
      BY <1>r, <1>m, <3>2
    <3>4. wb[i].owner \in DOMAIN wb
      BY <1>5, <3>1
    <3> QED BY <1>2, <2>2, <3>1, <3>2, <3>3, <3>4 DEF Covers
  <2> QED BY <1>3, <2>1, <2>2
<1>9. ASSUME NEW i \in DOMAIN wb, i > Len(tb), NEW j \in Made(wb, n)
      PROVE  Apart(ub[i], ub[j])
  <2> SUFFICES ASSUME ~ Apart(ub[i], ub[j]) PROVE FALSE
    OBVIOUS
  <2> DEFINE a == IF ub[j].start > wb[i].start THEN ub[j].start ELSE wb[i].start
  <2>1. /\ wb[i].start \in Nat /\ wb[i].end \in Nat /\ wb[i].start <= wb[i].end
        /\ ub[j].start \in Nat /\ ub[j].end \in Nat /\ ub[j].start <= ub[j].end
        /\ ub[i].start = wb[i].start /\ ub[i].end = wb[i].end
    BY <1>0, <1>2, <1>4
  <2>2. a \in Int /\ Has(wb[i], a) /\ Has(ub[j], a)
    BY <2>1 DEF Apart, Has
  <2> HIDE DEF a
  <2>3. Has(r, a)
    BY <1>7, <1>r, <1>m, <2>1, <2>2 DEF Covers, Has
  <2> QED BY <1>6, <1>9, <2>2, <2>3
<1>10. ASSUME NEW i \in DOMAIN ub, NEW j \in DOMAIN ub, i > Len(tb), j > Len(tb), i # j
       PROVE  Apart(ub[i], ub[j])
  <2>1. CASE i \in DOMAIN wb /\ j \in DOMAIN wb
    BY <1>2, <1>w, <1>10, <2>1 DEF Apart
  <2>2. CASE i \in DOMAIN wb /\ j \in Made(wb, n)
    BY <1>9, <1>10, <2>2
  <2>3. CASE i \in Made(wb, n) /\ j \in DOMAIN wb
    BY <1>9, <1>10, <2>3 DEF Apart
  <2>4. CASE i \in Made(wb, n) /\ j \in Made(wb, n)
    BY <1>s, <1>10, <2>4
  <2> QED BY <1>3, <2>1, <2>2, <2>3, <2>4
<1>11. ASSUME NEW y \in AI!RamList, y.start < x + 1, NEW a \in y.start .. y.end
       PROVE  \E i \in DOMAIN ub : i > Len(tb) /\ Has(ub[i], a)
  <2>1. CASE y.start < x
    <3>1. PICK i \in DOMAIN wb : i > Len(tb) /\ Has(wb[i], a)
      BY <1>w, <2>1
    <3> QED BY <1>2, <3>1 DEF Has
  <2>2. CASE ~ (y.start < x)
    <3>1. y.start = r.start
      BY <1>r, <1>m, <1>11, <2>2
    <3>2. y = r
      BY <1>r, <3>1
    <3> QED BY <1>s, <1>4, <3>2
  <2> QED BY <2>1, <2>2
<1>12. ASSUME NEW y \in AI!RamList, ~ (y.start < x + 1) PROVE Under(ub, y.start, y.end, "ram")
  <2>1. ~ (y.start < x) /\ y # r
    BY <1>r, <1>m, <1>12
  <2>2. Under(wb, y.start, y.end, "ram")
    BY <1>w, <2>1
  <2>3. ASSUME NEW a \in y.start .. y.end PROVE \E i : Inner(ub, a, i, "ram")
    <3>1. PICK i : Inner(wb, a, i, "ram")
      BY <2>2 DEF Under
    <3>2. a \in Nat /\ Has(y, a)
      BY <1>r, <1>m DEF Has
    <3>3. ~ Has(r, a)
      BY <1>r, <2>1, <3>2
    <3>4. a \notin r.start .. r.end /\ r.start \in Nat /\ r.end \in Nat
      BY <1>r, <1>m, <3>2, <3>3 DEF Has
    <3>5. Inner(ub, a, i, "ram")
      BY <1>w, <3>1, <3>2, <3>4, InnerServes
    <3> QED BY <3>5
  <2> QED BY <2>3 DEF Under
<1> QED BY <1>s, <1>1, <1>8, <1>10, <1>11, <1>12 DEF SysSoFar

\* One address: the run that starts there, if any.
LEMMA SysStep ==
  ASSUME memFree \subseteq 0 .. MemEnd, NEW tb, Table(tb), NEW x \in Nat, NEW wb, SysSoFar(tb, x, wb)
  PROVE  SysSoFar(tb, x + 1, AI!AddRun(wb, {r \in AI!RamList : r.start = x}))
<1> DEFINE runs == {r \in AI!RamList : r.start = x}
<1>r. /\ \A y \in AI!RamList : y.start \in 0 .. MemEnd /\ y.end \in y.start .. MemEnd
      /\ \A y, z \in AI!RamList : y.start = z.start => y = z
  BY RunsDo
<1>m. MemEnd \in Nat
  BY AsInfoAssumption
<1>1. CASE runs = {}
  <2>1. AI!AddRun(wb, runs) = wb
    BY <1>1 DEF AI!AddRun
  <2>2. \A y \in AI!RamList : y.start < x + 1 <=> y.start < x
    BY <1>1, <1>r, <1>m
  <2>3. \A p : (\E r \in AI!RamList : r.start < x /\ Covers(r, p))
               => \E r \in AI!RamList : r.start < x + 1 /\ Covers(r, p)
    BY <2>2
  <2> HIDE DEF runs
  <2>4. SysSoFar(tb, x + 1, wb)
    BY <2>2, <2>3 DEF SysSoFar
  <2> QED BY <2>1, <2>4 DEF runs
<1>2. CASE runs # {}
  <2> DEFINE r == CHOOSE r \in runs : TRUE
             q == AI!Range4(r.start, r.end, "ram")
             res == AI!AsAddContaining(wb, q, "sysram")
  <2>1. r \in runs
    BY <1>2
  <2>2. r \in AI!RamList /\ r.start = x
    BY <2>1
  <2>3. AI!AddRun(wb, runs) = res.as
    BY <1>2 DEF AI!AddRun
  <2> HIDE DEF r, runs
  <2>4. q.start = r.start /\ q.end = r.end /\ q.container = "ram" /\ q.overlay = FALSE
    BY DEF AI!Range4
  <2> HIDE DEF q
  <2>5. r.start \in 0 .. MemEnd /\ r.end \in r.start .. MemEnd /\ ~ (r.start < x)
    BY <1>r, <1>m, <2>2
  <2>6. Table(wb) /\ Nested(wb) /\ Under(wb, r.start, r.end, "ram")
    BY <2>2, <2>5 DEF SysSoFar
  <2>7. "sysram" \in EntryName
    BY DEF EntryName
  <2>8. /\ Serves(wb, q.start, q.end, q.container, "sysram", res.as, res.n)
        /\ Len(res.as) = Len(wb) + res.n
    BY <2>4, <2>5, <2>6, <2>7, AddContainingDoes
  <2> HIDE DEF res
  <2>9. SysSoFar(tb, x + 1, res.as)
    BY <2>2, <2>4, <2>8, RunServes
  <2> QED BY <2>3, <2>9 DEF runs
<1> QED BY <1>1, <1>2

\* add_sysram()
LEMMA AddSysramDoes ==
  ASSUME Table(asinfo), Rooted(asinfo), memFree \subseteq 0 .. MemEnd, BeforeSysram(asinfo, memFree),
         AI!AddSysram
  PROVE  Table(asinfo') /\ SysramOk(asinfo', memFree)
<1> DEFINE E(g, x) == IF x = 0 THEN asinfo
                      ELSE AI!AddRun(g[x - 1], {r \in AI!RamList : r.start = x - 1})
           N == MemEnd + 1
           Graph(n, g) == g = [x \in 0 .. n |-> E(g, x)]
           Some(n) == \E g : Graph(n, g)
           S == {n \in Nat : Some(n)}
           list == CHOOSE g : g = [x \in 0 .. N |-> E(g, x)]
<1>0. N \in Nat /\ MemEnd \in Nat
  BY AsInfoAssumption
<1>a. ASSUME NEW g, NEW f, NEW x, x # 0 => f[x - 1] = g[x - 1] PROVE E(f, x) = E(g, x)
  BY <1>a
<1>b. asinfo' = list[N]
  BY DEF AI!AddSysram
<1>c. \A g : E(g, 0) = asinfo
  OBVIOUS
<1>d. ASSUME NEW g, NEW n \in Nat
      PROVE  E(g, n + 1) = AI!AddRun(g[n], {r \in AI!RamList : r.start = n})
  <2>1. n + 1 # 0 /\ (n + 1) - 1 = n
    OBVIOUS
  <2> QED BY <2>1
<1> HIDE DEF N, E
<1>1. 0 \in S
  <2> DEFINE g == [x \in 0 .. 0 |-> asinfo]
  <2>1. \A x \in 0 .. 0 : x = 0
    OBVIOUS
  <2>2. Graph(0, g)
    BY <1>c, <2>1
  <2> HIDE DEF Graph, g
  <2> QED BY <2>2
<1>2. ASSUME NEW n \in Nat, n \in S PROVE n + 1 \in S
  <2>1. PICK g : Graph(n, g)
    BY <1>2
  <2> DEFINE f == [x \in 0 .. n + 1 |-> IF x = n + 1 THEN E(g, x) ELSE g[x]]
  <2>2. ASSUME NEW x \in 0 .. n + 1 PROVE f[x] = E(f, x)
    <3>1. x # 0 => f[x - 1] = g[x - 1]
      OBVIOUS
    <3>2. E(f, x) = E(g, x)
      <4> HIDE DEF f
      <4> QED BY <1>a, <3>1
    <3>3. CASE x = n + 1
      BY <3>2, <3>3
    <3>4. CASE x # n + 1
      <4>1. x \in 0 .. n /\ f[x] = g[x]
        BY <3>4
      <4>2. g[x] = E(g, x)
        BY <2>1, <4>1
      <4> QED BY <3>2, <4>1, <4>2
    <3> QED BY <3>3, <3>4
  <2>3. f = [x \in 0 .. n + 1 |-> f[x]]
    OBVIOUS
  <2> HIDE DEF f
  <2>4. Graph(n + 1, f)
    BY <2>2, <2>3, Zenon
  <2> HIDE DEF Graph
  <2> QED BY <2>4
<1> HIDE DEF S
<1>3. N \in S
  BY <1>0, <1>1, <1>2, Induct
<1>4. list = [x \in 0 .. N |-> E(list, x)]
  <2>1. PICK g : g = [x \in 0 .. N |-> E(g, x)]
    BY <1>3 DEF S
  <2> QED BY <2>1
<1> HIDE DEF list
<1>5. /\ list[0] = asinfo
      /\ \A n \in 0 .. N - 1 : list[n + 1] = AI!AddRun(list[n], {r \in AI!RamList : r.start = n})
  <2>1. \A x \in 0 .. N : list[x] = E(list, x)
    BY <1>4, Zenon
  <2>2. \A n \in 0 .. N - 1 : n + 1 \in 0 .. N /\ n \in Nat
    BY <1>0
  <2>3. \A n \in 0 .. N - 1 : list[n + 1] = E(list, n + 1)
    BY <2>1, <2>2, Zenon
  <2>4. \A n \in 0 .. N - 1 :
          E(list, n + 1) = AI!AddRun(list[n], {r \in AI!RamList : r.start = n})
    BY <1>d, <2>2, Zenon
  <2>5. 0 \in 0 .. N
    BY <1>0
  <2>6. list[0] = asinfo
    BY <1>c, <2>1, <2>5, Zenon
  <2> QED BY <2>3, <2>4, <2>6, Zenon
<1> DEFINE Z == {n \in Nat : n <= N => SysSoFar(asinfo, n, list[n])}
<1>r. \A y \in AI!RamList : /\ y.start \in 0 .. MemEnd /\ y.end \in y.start .. MemEnd
                            /\ \A a \in y.start .. y.end : a \in memFree
  BY RunsDo
<1>6. 0 \in Z
  <2>1. Kept(asinfo, asinfo) /\ \A i \in DOMAIN asinfo : ~ (i > Len(asinfo))
    BY TableFacts DEF Kept
  <2>2. \A r \in AI!RamList : ~ (r.start < 0)
    BY <1>0, <1>r
  <2>3. \A r \in AI!RamList : Under(asinfo, r.start, r.end, "ram")
    BY <1>r DEF Under, BeforeSysram
  <2>4. SysSoFar(asinfo, 0, asinfo)
    BY <2>1, <2>2, <2>3 DEF SysSoFar, BeforeSysram
  <2> QED BY <1>5, <2>4
<1>7. ASSUME NEW n \in Nat, n \in Z PROVE n + 1 \in Z
  <2> SUFFICES ASSUME n + 1 <= N PROVE SysSoFar(asinfo, n + 1, list[n + 1])
    OBVIOUS
  <2>1. n \in 0 .. N - 1 /\ SysSoFar(asinfo, n, list[n])
    BY <1>0, <1>7
  <2>2. list[n + 1] = AI!AddRun(list[n], {r \in AI!RamList : r.start = n})
    BY <1>5, <2>1, Zenon
  <2>3. SysSoFar(asinfo, n + 1, AI!AddRun(list[n], {r \in AI!RamList : r.start = n}))
    BY <2>1, SysStep
  <2> QED BY <2>2, <2>3
<1> HIDE DEF Z
<1>8. N \in Z
  BY <1>0, <1>6, <1>7, Induct
<1> DEFINE ub == asinfo'
<1>9. SysSoFar(asinfo, N, ub)
  BY <1>0, <1>b, <1>8 DEF Z
<1> HIDE DEF ub
<1>10. /\ Table(ub) /\ Kept(asinfo, ub)
       /\ \A i \in DOMAIN ub : i > Len(asinfo) =>
            /\ ub[i].name = "sysram" /\ ub[i].owner \in DOMAIN asinfo
            /\ AI!MatchName(ub, ub[i].owner, "ram") /\ Covers(ub[ub[i].owner], ub[i])
            /\ \E r \in AI!RamList : r.start < N /\ Covers(r, ub[i])
       /\ \A i, j \in DOMAIN ub : i > Len(asinfo) /\ j > Len(asinfo) /\ i # j => Apart(ub[i], ub[j])
       /\ \A r \in AI!RamList : r.start < N =>
            \A a \in r.start .. r.end : \E i \in DOMAIN ub : i > Len(asinfo) /\ Has(ub[i], a)
  BY <1>9 DEF SysSoFar
<1>11. /\ Len(asinfo) \in Nat /\ DOMAIN asinfo = 1 .. Len(asinfo)
       /\ \A i \in DOMAIN asinfo : asinfo[i].owner \in 0 .. i - 1
       /\ DOMAIN ub = 1 .. Len(ub) /\ Len(ub) \in Nat
       /\ \A i \in DOMAIN ub : ub[i].start \in Nat /\ ub[i].end \in Nat
  BY <1>10, TableFacts, AsInfoAssumption
<1>12. ASSUME NEW i \in DOMAIN ub PROVE ub[i].name = "sysram" <=> i > Len(asinfo)
  <2>1. CASE i > Len(asinfo)
    BY <1>10, <2>1
  <2>2. CASE ~ (i > Len(asinfo))
    <3>1. i \in DOMAIN asinfo
      BY <1>11, <2>2
    <3>2. ub[i].name = asinfo[i].name /\ asinfo[i].name # "sysram"
      BY <1>10, <3>1 DEF Kept, BeforeSysram
    <3> QED BY <2>2, <3>2
  <2> QED BY <2>1, <2>2
<1>13. \A i \in DOMAIN asinfo : i \in DOMAIN ub /\ ~ (i > Len(asinfo))
  BY <1>10, <1>11 DEF Kept
<1>14. ASSUME NEW i \in DOMAIN ub, ub[i].owner # 0 PROVE ub[ub[i].owner].name # "sysram"
  <2>1. ub[i].owner \in DOMAIN asinfo
    <3>1. CASE i > Len(asinfo)
      BY <1>10, <3>1
    <3>2. CASE ~ (i > Len(asinfo))
      <4>1. i \in DOMAIN asinfo
        BY <1>11, <3>2
      <4>2. ub[i].owner = asinfo[i].owner
        BY <1>10, <4>1 DEF Kept
      <4> QED BY <1>11, <1>14, <4>1, <4>2
    <3> QED BY <3>1, <3>2
  <2> QED BY <1>12, <1>13, <2>1
<1>15. ASSUME NEW i \in DOMAIN ub, ub[i].name = "sysram"
       PROVE  /\ ub[i].owner # 0 /\ AI!MatchName(ub, ub[i].owner, "ram")
              /\ Covers(ub[ub[i].owner], ub[i])
              /\ \A a \in ub[i].start .. ub[i].end : a \in memFree
  <2>1. i > Len(asinfo)
    BY <1>12, <1>15
  <2>2. PICK r \in AI!RamList : r.start < N /\ Covers(r, ub[i])
    BY <1>10, <2>1
  <2>3. /\ r.start \in Nat /\ r.end \in Nat /\ r.start <= ub[i].start /\ ub[i].end <= r.end
        /\ \A a \in r.start .. r.end : a \in memFree
    BY <1>0, <1>r, <2>2 DEF Covers
  <2>4. \A a \in ub[i].start .. ub[i].end : a \in memFree
    BY <1>11, <2>3
  <2>5. ub[i].owner # 0
    BY <1>10, <1>11, <2>1
  <2> QED BY <1>10, <2>1, <2>4, <2>5
<1>16. ASSUME NEW a \in memFree PROVE \E i \in DOMAIN ub : ub[i].name = "sysram" /\ Has(ub[i], a)
  <2>1. PICK r \in AI!RamList : Has(r, a)
    BY RunsDo
  <2>2. a \in 0 .. MemEnd
    OBVIOUS
  <2>3. r.start < N /\ a \in r.start .. r.end
    BY <1>0, <1>r, <2>1, <2>2 DEF Has, N
  <2>4. PICK i \in DOMAIN ub : i > Len(asinfo) /\ Has(ub[i], a)
    BY <1>10, <2>3
  <2> QED BY <1>12, <2>4
<1>17. SysramOk(ub, memFree)
  BY <1>10, <1>12, <1>14, <1>15, <1>16 DEF SysramOk
<1> QED BY <1>10, <1>17 DEF ub

-----------------------------------------------------------------------------
(* The address space section: alloc_ram() after add_sysram()               *)

\* as_find_containing() finds the entries of the kernel, nothing is below them.
LEMMA SysramFound ==
  ASSUME NEW tb, Table(tb),
         \A i \in DOMAIN tb : tb[i].owner # 0 => tb[tb[i].owner].name # "sysram"
  PROVE  \A i \in DOMAIN tb : AI!MatchName(tb, i, "sysram") <=> tb[i].name = "sysram"
<1> DEFINE S == {n \in Nat : \A i \in DOMAIN tb : i <= n =>
                   (AI!MatchName(tb, i, "sysram") => tb[i].name = "sysram")}
<1>0. Len(tb) \in Nat /\ DOMAIN tb = 1 .. Len(tb) /\ \A i \in DOMAIN tb : tb[i].owner \in 0 .. i - 1
  BY TableFacts
<1>1. 0 \in S
  BY <1>0
<1>2. ASSUME NEW n \in Nat, n \in S PROVE n + 1 \in S
  <2> SUFFICES ASSUME NEW i \in DOMAIN tb, i <= n + 1, AI!MatchName(tb, i, "sysram"),
                      tb[i].name # "sysram"
               PROVE  FALSE
    OBVIOUS
  <2>1. tb[i].owner # 0 /\ AI!MatchName(tb, tb[i].owner, "sysram")
    BY MatchDef
  <2>2. tb[i].owner \in DOMAIN tb /\ tb[i].owner <= n
    BY <1>0, <2>1
  <2> QED BY <1>2, <2>1, <2>2
<1> HIDE DEF S
<1>3. \A n \in Nat : n \in S
  BY <1>1, <1>2, Induct
<1>4. \A i \in DOMAIN tb : AI!MatchName(tb, i, "sysram") => tb[i].name = "sysram"
  BY <1>0, <1>3 DEF S
<1>5. \A i \in DOMAIN tb : tb[i].name = "sysram" => AI!MatchName(tb, i, "sysram")
  BY MatchDef
<1> QED BY <1>4, <1>5

\* An entry with another range.
Trimmed(wb, o, s, t, ub) ==
  /\ Table(ub) /\ Len(ub) = Len(wb)
  /\ \A i \in DOMAIN wb : i # o => ub[i] = wb[i]
  /\ ub[o].start = s /\ ub[o].end = t /\ ub[o].name = wb[o].name /\ ub[o].owner = wb[o].owner

\* An entry whose range is replaced.
LEMMA TrimDoes ==
  ASSUME NEW wb, Table(wb), NEW o \in DOMAIN wb, NEW x \in EntryType, x.start <= x.end,
         x.name = wb[o].name, x.owner = wb[o].owner, NEW ub, ub = [wb EXCEPT ![o] = x]
  PROVE  Trimmed(wb, o, x.start, x.end, ub)
<1>1. /\ Len(wb) \in Nat /\ DOMAIN wb = 1 .. Len(wb) /\ \A i \in DOMAIN wb : wb[i] \in EntryType
      /\ wb \in Seq(EntryType)
  BY TableFacts DEF Table
<1>2. ub \in Seq(EntryType) /\ Len(ub) = Len(wb) /\ DOMAIN ub = DOMAIN wb
  BY <1>1
<1>3. ub[o] = x /\ \A i \in DOMAIN wb : i # o => ub[i] = wb[i]
  BY <1>1
<1>4. \A i \in DOMAIN ub : ub[i].start <= ub[i].end /\ ub[i].owner < i
  BY <1>2, <1>3 DEF Table
<1>5. Table(ub)
  BY <1>2, <1>4 DEF Table
<1> QED BY <1>2, <1>3, <1>5 DEF Trimmed

\* Its start is moved.
LEMMA StartDoes ==
  ASSUME NEW wb, Table(wb), NEW o \in DOMAIN wb, NEW s \in 0 .. MemEnd, s <= wb[o].end
  PROVE  Trimmed(wb, o, s, wb[o].end, [wb EXCEPT ![o].start = s])
<1> DEFINE x == [wb[o] EXCEPT !.start = s]
<1>1. wb[o] \in EntryType
  BY TableFacts
<1>2. /\ x \in EntryType /\ x.start = s /\ x.end = wb[o].end
      /\ x.name = wb[o].name /\ x.owner = wb[o].owner
  BY <1>1 DEF EntryType
<1>3. [wb EXCEPT ![o].start = s] = [wb EXCEPT ![o] = x]
  OBVIOUS
<1> HIDE DEF x
<1>4. Trimmed(wb, o, x.start, x.end, [wb EXCEPT ![o] = x])
  BY <1>2, TrimDoes
<1> QED BY <1>2, <1>3, <1>4

\* Its end is moved.
LEMMA EndDoes ==
  ASSUME NEW wb, Table(wb), NEW o \in DOMAIN wb, NEW t \in 0 .. MemEnd, wb[o].start <= t
  PROVE  Trimmed(wb, o, wb[o].start, t, [wb EXCEPT ![o].end = t])
<1> DEFINE x == [wb[o] EXCEPT !.end = t]
<1>1. wb[o] \in EntryType
  BY TableFacts
<1>2. /\ x \in EntryType /\ x.start = wb[o].start /\ x.end = t
      /\ x.name = wb[o].name /\ x.owner = wb[o].owner
  BY <1>1 DEF EntryType
<1>3. [wb EXCEPT ![o].end = t] = [wb EXCEPT ![o] = x]
  OBVIOUS
<1> HIDE DEF x
<1>4. Trimmed(wb, o, x.start, x.end, [wb EXCEPT ![o] = x])
  BY <1>2, TrimDoes
<1> QED BY <1>2, <1>3, <1>4

\* The allocated range lies inside of an entry.
Inside(tb, h, b, e) == tb[h].start < b /\ e < tb[h].end

\* The entries hs among the first o of tb have been cut; if the range lies
\* inside of one of them there is one entry more.
CutSo(tb, hs, b, e, o, wb) ==
  /\ Table(wb) /\ (Len(wb) = Len(tb) \/ Len(wb) = Len(tb) + 1)
  /\ \A i \in DOMAIN tb :
       /\ wb[i].name = tb[i].name /\ wb[i].owner = tb[i].owner
       /\ wb[i].start = IF i \in hs /\ i <= o /\ b <= tb[i].start THEN e + 1 ELSE tb[i].start
       /\ wb[i].end = IF i \in hs /\ i <= o /\ ~ (b <= tb[i].start) THEN b - 1 ELSE tb[i].end
  /\ Len(wb) = Len(tb) + 1 =>
       \E h \in hs : /\ h <= o /\ Inside(tb, h, b, e)
                     /\ wb[Len(wb)].name = "sysram" /\ wb[Len(wb)].owner = tb[h].owner
                     /\ wb[Len(wb)].start = e + 1 /\ wb[Len(wb)].end = tb[h].end
  /\ \A h \in hs : h <= o /\ Inside(tb, h, b, e) => Len(wb) = Len(tb) + 1

\* What is touched but not as a whole.
Hits(tb, b, e, hs) ==
  /\ hs \subseteq DOMAIN tb
  /\ \A i \in DOMAIN tb :
       i \in hs <=> tb[i].name = "sysram" /\ tb[i].start <= e /\ b <= tb[i].end
  /\ \A i \in hs : ~ (b <= tb[i].start /\ e >= tb[i].end)

\* The range lies inside of one entry at most.
LEMMA InsideOne ==
  ASSUME NEW tb, Table(tb), NEW fr, SysramOk(tb, fr), NEW b \in Nat, NEW e \in Nat, b <= e,
         NEW hs, Hits(tb, b, e, hs), NEW h \in hs, NEW o \in hs,
         Inside(tb, h, b, e), Inside(tb, o, b, e)
  PROVE  h = o
<1> SUFFICES ASSUME h # o PROVE FALSE
  OBVIOUS
<1>1. h \in DOMAIN tb /\ o \in DOMAIN tb /\ tb[h].name = "sysram" /\ tb[o].name = "sysram"
  BY DEF Hits
<1>2. Apart(tb[h], tb[o])
  BY <1>1 DEF SysramOk
<1>3. /\ tb[h].start \in Nat /\ tb[h].end \in Nat /\ tb[o].start \in Nat /\ tb[o].end \in Nat
  BY <1>1, TableFacts, AsInfoAssumption
<1> QED BY <1>2, <1>3 DEF Apart, Inside

\* One turn of the loop over the entries that are touched.
LEMMA CutStep ==
  ASSUME NEW tb, Table(tb), NEW fr, SysramOk(tb, fr),
         NEW b \in 0 .. MemEnd, NEW e \in b .. MemEnd, NEW hs, Hits(tb, b, e, hs),
         NEW o \in DOMAIN tb, NEW wb, CutSo(tb, hs, b, e, o - 1, wb)
  PROVE  CutSo(tb, hs, b, e, o, IF o \in hs THEN AI!CutSysram(wb, o, b, e) ELSE wb)
<1> DEFINE N == Len(tb)
<1>b. b \in Nat /\ e \in Nat /\ b <= e /\ e <= MemEnd /\ MemEnd \in Nat
  BY AsInfoAssumption
<1>0. /\ N \in Nat /\ DOMAIN tb = 1 .. N /\ o \in Nat /\ o >= 1 /\ o <= N
      /\ \A i \in DOMAIN tb : /\ i \in Nat /\ tb[i].start \in Nat /\ tb[i].end \in Nat
                              /\ tb[i].start <= tb[i].end /\ tb[i].end <= MemEnd
                              /\ tb[i].owner \in 0 .. i - 1
  BY TableFacts, AsInfoAssumption
<1>h. /\ hs \subseteq DOMAIN tb
      /\ \A i \in hs : /\ tb[i].name = "sysram" /\ tb[i].start <= e /\ b <= tb[i].end
                       /\ ~ (b <= tb[i].start /\ e >= tb[i].end)
  BY DEF Hits
<1>w. /\ Table(wb) /\ (Len(wb) = N \/ Len(wb) = N + 1)
      /\ \A i \in DOMAIN tb :
           /\ wb[i].name = tb[i].name /\ wb[i].owner = tb[i].owner
           /\ wb[i].start = IF i \in hs /\ i <= o - 1 /\ b <= tb[i].start THEN e + 1 ELSE tb[i].start
           /\ wb[i].end = IF i \in hs /\ i <= o - 1 /\ ~ (b <= tb[i].start) THEN b - 1 ELSE tb[i].end
      /\ \A h \in hs : h <= o - 1 /\ Inside(tb, h, b, e) => Len(wb) = N + 1
  BY DEF CutSo
<1>x. Len(wb) = N + 1 =>
       \E h \in hs : /\ h <= o - 1 /\ Inside(tb, h, b, e)
                     /\ wb[N + 1].name = "sysram" /\ wb[N + 1].owner = tb[h].owner
                     /\ wb[N + 1].start = e + 1 /\ wb[N + 1].end = tb[h].end
  BY DEF CutSo
<1> HIDE DEF N
<1>d. DOMAIN wb = 1 .. Len(wb) /\ Len(wb) \in Nat /\ \A i \in DOMAIN tb : i \in DOMAIN wb
  BY <1>0, <1>w, TableFacts
<1>y. \A i \in DOMAIN tb : /\ i <= o - 1 => i <= o /\ i # o
                           /\ i <= o => i <= o - 1 \/ i = o
  BY <1>0
<1>1. CASE o \notin hs
  <2>1. \A i \in hs : i <= o <=> i <= o - 1
    BY <1>1, <1>h, <1>y
  <2>2. \A i \in DOMAIN tb :
           /\ wb[i].start = IF i \in hs /\ i <= o /\ b <= tb[i].start THEN e + 1 ELSE tb[i].start
           /\ wb[i].end = IF i \in hs /\ i <= o /\ ~ (b <= tb[i].start) THEN b - 1 ELSE tb[i].end
    BY <1>w, <2>1
  <2>3. CutSo(tb, hs, b, e, o, wb)
    BY <1>w, <1>x, <2>1, <2>2 DEF CutSo, N
  <2> QED BY <1>1, <2>3
<1>2. CASE o \in hs
  <2>0. /\ wb[o].start = tb[o].start /\ wb[o].end = tb[o].end /\ wb[o].owner = tb[o].owner
        /\ wb[o].name = "sysram"
    BY <1>0, <1>2, <1>h, <1>w
  <2>1. CASE b <= tb[o].start
    <3> DEFINE ub == [wb EXCEPT ![o].start = e + 1]
    <3>1. AI!CutSysram(wb, o, b, e) = ub
      BY <2>0, <2>1 DEF AI!CutSysram
    <3>2. e + 1 \in 0 .. MemEnd /\ e + 1 <= wb[o].end
      BY <1>0, <1>2, <1>b, <1>h, <2>0, <2>1
    <3>3. Trimmed(wb, o, e + 1, wb[o].end, ub)
      BY <1>d, <1>w, <3>2, StartDoes
    <3> HIDE DEF ub
    <3>4. /\ Table(ub) /\ Len(ub) = Len(wb) /\ \A i \in DOMAIN wb : i # o => ub[i] = wb[i]
          /\ ub[o].start = e + 1 /\ ub[o].end = tb[o].end
          /\ ub[o].name = tb[o].name /\ ub[o].owner = tb[o].owner
      BY <1>w, <2>0, <3>3 DEF Trimmed
    <3>5. ASSUME NEW i \in DOMAIN tb
          PROVE  /\ ub[i].name = tb[i].name /\ ub[i].owner = tb[i].owner
                 /\ ub[i].start = IF i \in hs /\ i <= o /\ b <= tb[i].start THEN e + 1 ELSE tb[i].start
                 /\ ub[i].end = IF i \in hs /\ i <= o /\ ~ (b <= tb[i].start) THEN b - 1 ELSE tb[i].end
      <4>1. CASE i = o
        BY <1>0, <1>2, <2>1, <3>4, <4>1
      <4>2. CASE i # o
        <5>1. ub[i] = wb[i] /\ (i <= o <=> i <= o - 1)
          BY <1>d, <1>y, <3>4, <4>2
        <5> QED BY <1>w, <5>1
      <4> QED BY <4>1, <4>2
    <3>6. Len(wb) = N + 1 => ub[N + 1] = wb[N + 1] /\ Len(ub) = N + 1
      BY <1>0, <1>d, <3>4
    <3>7. ~ Inside(tb, o, b, e)
      BY <1>0, <1>b, <2>1 DEF Inside
    <3>8. \A h \in hs : h <= o /\ Inside(tb, h, b, e) => Len(ub) = N + 1
      BY <1>h, <1>w, <1>y, <3>4, <3>7
    <3>9. ASSUME Len(ub) = N + 1
          PROVE  \E h \in hs : /\ h <= o /\ Inside(tb, h, b, e)
                     /\ ub[N + 1].name = "sysram" /\ ub[N + 1].owner = tb[h].owner
                     /\ ub[N + 1].start = e + 1 /\ ub[N + 1].end = tb[h].end
      <4>1. ub[N + 1] = wb[N + 1] /\ Len(wb) = N + 1
        BY <3>4, <3>6, <3>9
      <4>2. PICK h \in hs : /\ h <= o - 1 /\ Inside(tb, h, b, e)
                     /\ wb[N + 1].name = "sysram" /\ wb[N + 1].owner = tb[h].owner
                     /\ wb[N + 1].start = e + 1 /\ wb[N + 1].end = tb[h].end
        BY <1>x, <4>1
      <4>3. h <= o
        BY <1>h, <1>y, <4>2
      <4> QED BY <4>1, <4>2, <4>3
    <3>10. CutSo(tb, hs, b, e, o, ub)
      BY <1>w, <3>4, <3>5, <3>8, <3>9 DEF CutSo, N
    <3> QED BY <1>2, <3>1, <3>10
  <2>2. CASE ~ (b <= tb[o].start)
    <3> DEFINE cb == [wb EXCEPT ![o].end = b - 1]
    <3>1. AI!CutSysram(wb, o, b, e) = IF tb[o].end > e
            THEN AI!AddEntry(cb, e + 1, tb[o].end, {}, "sysram", tb[o].owner) ELSE cb
      BY <2>0, <2>2 DEF AI!CutSysram
    <3>2. b - 1 \in 0 .. MemEnd /\ wb[o].start <= b - 1
      BY <1>0, <1>b, <2>0, <2>2
    <3>3. Trimmed(wb, o, wb[o].start, b - 1, cb)
      BY <1>d, <1>w, <3>2, EndDoes
    <3> HIDE DEF cb
    <3>4. /\ Table(cb) /\ Len(cb) = Len(wb) /\ \A i \in DOMAIN wb : i # o => cb[i] = wb[i]
          /\ cb[o].start = tb[o].start /\ cb[o].end = b - 1
          /\ cb[o].name = tb[o].name /\ cb[o].owner = tb[o].owner
      BY <1>w, <2>0, <3>3 DEF Trimmed
    <3>5. ASSUME NEW i \in DOMAIN tb
          PROVE  /\ cb[i].name = tb[i].name /\ cb[i].owner = tb[i].owner
                 /\ cb[i].start = IF i \in hs /\ i <= o /\ b <= tb[i].start THEN e + 1 ELSE tb[i].start
                 /\ cb[i].end = IF i \in hs /\ i <= o /\ ~ (b <= tb[i].start) THEN b - 1 ELSE tb[i].end
      <4>1. CASE i = o
        BY <1>0, <1>2, <2>2, <3>4, <4>1
      <4>2. CASE i # o
        <5>1. cb[i] = wb[i] /\ (i <= o <=> i <= o - 1)
          BY <1>d, <1>y, <3>4, <4>2
        <5> QED BY <1>w, <5>1
      <4> QED BY <4>1, <4>2
    <3>6. CASE ~ (tb[o].end > e)
      <4>1. ~ Inside(tb, o, b, e)
        BY <1>0, <1>b, <3>6 DEF Inside
      <4>2. \A h \in hs : h <= o /\ Inside(tb, h, b, e) => Len(cb) = N + 1
        BY <1>h, <1>w, <1>y, <3>4, <4>1
      <4>3. ASSUME Len(cb) = N + 1
            PROVE  \E h \in hs : /\ h <= o /\ Inside(tb, h, b, e)
                       /\ cb[N + 1].name = "sysram" /\ cb[N + 1].owner = tb[h].owner
                       /\ cb[N + 1].start = e + 1 /\ cb[N + 1].end = tb[h].end
        <5>1. cb[N + 1] = wb[N + 1] /\ Len(wb) = N + 1
          BY <1>0, <1>d, <3>4, <4>3
        <5>2. PICK h \in hs : /\ h <= o - 1 /\ Inside(tb, h, b, e)
                       /\ wb[N + 1].name = "sysram" /\ wb[N + 1].owner = tb[h].owner
                       /\ wb[N + 1].start = e + 1 /\ wb[N + 1].end = tb[h].end
          BY <1>x, <5>1
        <5>3. h <= o
          BY <1>h, <1>y, <5>2
        <5> QED BY <5>1, <5>2, <5>3
      <4>4. CutSo(tb, hs, b, e, o, cb)
        BY <1>w, <3>4, <3>5, <4>2, <4>3 DEF CutSo, N
      <4> QED BY <1>2, <3>1, <3>6, <4>4
    <3>7. CASE tb[o].end > e
      <4> DEFINE x == [start |-> e + 1, end |-> tb[o].end, attr |-> {}, name |-> "sysram",
                       owner |-> tb[o].owner, priority |-> AI!Default]
                 ub == AI!AddEntry(cb, e + 1, tb[o].end, {}, "sysram", tb[o].owner)
      <4>1. Inside(tb, o, b, e)
        BY <1>0, <1>b, <2>2, <3>7 DEF Inside
      <4>2. Len(cb) = N
        <5> SUFFICES ASSUME Len(wb) = N + 1 PROVE FALSE
          BY <1>w, <3>4
        <5>1. PICK h \in hs : h <= o - 1 /\ Inside(tb, h, b, e)
          BY <1>x
        <5>2. h = o
          BY <1>2, <1>b, <4>1, <5>1, InsideOne
        <5> QED BY <1>0, <5>1, <5>2
      <4>3. Longer(cb, {tb[o].owner}, <<x>>, ub)
        <5>1. /\ e + 1 \in 0 .. MemEnd /\ tb[o].end \in e + 1 .. MemEnd /\ "sysram" \in EntryName
              /\ {} \in SUBSET {AI!Kids, AI!Continued} /\ tb[o].owner \in 0 .. Len(cb)
          BY <1>0, <1>b, <3>7, <4>2 DEF EntryName
        <5> QED BY <3>4, <5>1, AddEntryDoes
      <4>4. x.start = e + 1 /\ x.end = tb[o].end /\ x.name = "sysram" /\ x.owner = tb[o].owner
        OBVIOUS
      <4> HIDE DEF x, ub
      <4>5. Table(ub) /\ Kept(cb, ub) /\ Len(ub) = N + 1 /\ ub[N + 1] = x
        BY <1>0, <4>2, <4>3 DEF Longer
      <4>6. \A i \in DOMAIN tb : i \in DOMAIN cb
        BY <1>0, <3>4, <4>2, TableFacts
      <4>7. \A i \in DOMAIN tb :
              /\ ub[i].name = tb[i].name /\ ub[i].owner = tb[i].owner
              /\ ub[i].start = IF i \in hs /\ i <= o /\ b <= tb[i].start THEN e + 1 ELSE tb[i].start
              /\ ub[i].end = IF i \in hs /\ i <= o /\ ~ (b <= tb[i].start) THEN b - 1 ELSE tb[i].end
        BY <3>5, <4>5, <4>6 DEF Kept
      <4>8. o <= o
        BY <1>0
      <4>9. CutSo(tb, hs, b, e, o, ub)
        BY <1>2, <4>1, <4>4, <4>5, <4>7, <4>8 DEF CutSo, N
      <4> QED BY <1>2, <3>1, <3>7, <4>9 DEF ub
    <3> QED BY <3>6, <3>7
  <2> QED BY <2>1, <2>2
<1> QED BY <1>1, <1>2

\* When all are cut, what is left is what is left free.
LEMMA CutKeeps ==
  ASSUME NEW tb, Table(tb), NEW fr, fr \subseteq 0 .. MemEnd, SysramOk(tb, fr),
         NEW b \in 0 .. MemEnd, NEW e \in b .. MemEnd, NEW hs, Hits(tb, b, e, hs),
         NEW ub, CutSo(tb, hs, b, e, Len(tb), ub)
  PROVE  SysramOk(ub, fr \ (b .. e))
<1> DEFINE N == Len(tb)
           nf == fr \ (b .. e)
<1>b. b \in Nat /\ e \in Nat /\ b <= e /\ e <= MemEnd /\ MemEnd \in Nat
  BY AsInfoAssumption
<1>0. /\ N \in Nat /\ DOMAIN tb = 1 .. N
      /\ \A i \in DOMAIN tb : /\ i \in Nat /\ tb[i].start \in Nat /\ tb[i].end \in Nat
                              /\ tb[i].start <= tb[i].end /\ tb[i].owner \in 0 .. i - 1
  BY TableFacts, AsInfoAssumption
<1>h. /\ hs \subseteq DOMAIN tb
      /\ \A i \in DOMAIN tb :
           i \in hs <=> tb[i].name = "sysram" /\ tb[i].start <= e /\ b <= tb[i].end
      /\ \A i \in hs : ~ (b <= tb[i].start /\ e >= tb[i].end)
  BY DEF Hits
<1>w. /\ Table(ub) /\ (Len(ub) = N \/ Len(ub) = N + 1)
      /\ \A i \in DOMAIN tb :
           /\ ub[i].name = tb[i].name /\ ub[i].owner = tb[i].owner
           /\ ub[i].start = IF i \in hs /\ b <= tb[i].start THEN e + 1 ELSE tb[i].start
           /\ ub[i].end = IF i \in hs /\ ~ (b <= tb[i].start) THEN b - 1 ELSE tb[i].end
      /\ \A h \in hs : Inside(tb, h, b, e) => Len(ub) = N + 1
      /\ Len(ub) = N + 1 =>
           \E h \in hs : /\ Inside(tb, h, b, e)
                         /\ ub[N + 1].name = "sysram" /\ ub[N + 1].owner = tb[h].owner
                         /\ ub[N + 1].start = e + 1 /\ ub[N + 1].end = tb[h].end
  <2>1. \A i \in DOMAIN tb : i <= Len(tb)
    BY <1>0
  <2>2. Table(ub) /\ (Len(ub) = N \/ Len(ub) = N + 1)
    BY DEF CutSo
  <2>3. ASSUME NEW i \in DOMAIN tb
        PROVE  /\ ub[i].name = tb[i].name /\ ub[i].owner = tb[i].owner
               /\ ub[i].start = IF i \in hs /\ b <= tb[i].start THEN e + 1 ELSE tb[i].start
               /\ ub[i].end = IF i \in hs /\ ~ (b <= tb[i].start) THEN b - 1 ELSE tb[i].end
    BY <2>1 DEF CutSo
  <2>4. \A h \in hs : Inside(tb, h, b, e) => Len(ub) = N + 1
    BY <1>h, <2>1 DEF CutSo
  <2>5. ASSUME Len(ub) = N + 1
        PROVE  \E h \in hs : /\ Inside(tb, h, b, e)
                         /\ ub[N + 1].name = "sysram" /\ ub[N + 1].owner = tb[h].owner
                         /\ ub[N + 1].start = e + 1 /\ ub[N + 1].end = tb[h].end
    BY <2>5 DEF CutSo
  <2> QED BY <2>2, <2>3, <2>4, <2>5
<1>s. /\ \A i \in DOMAIN tb : tb[i].owner # 0 => tb[tb[i].owner].name # "sysram"
      /\ \A i, j \in DOMAIN tb :
           tb[i].name = "sysram" /\ tb[j].name = "sysram" /\ i # j => Apart(tb[i], tb[j])
      /\ \A i \in DOMAIN tb : tb[i].name = "sysram" =>
           /\ tb[i].owner # 0 /\ AI!MatchName(tb, tb[i].owner, "ram")
           /\ Covers(tb[tb[i].owner], tb[i])
           /\ \A a \in tb[i].start .. tb[i].end : a \in fr
      /\ \A a \in fr : \E i \in DOMAIN tb : tb[i].name = "sysram" /\ Has(tb[i], a)
  BY DEF SysramOk
<1> HIDE DEF N
<1>d. /\ DOMAIN ub = 1 .. Len(ub) /\ Len(ub) \in Nat
      /\ \A i \in DOMAIN ub : ub[i].start \in Nat /\ ub[i].end \in Nat /\ ub[i].start <= ub[i].end
      /\ \A i \in DOMAIN tb : i \in DOMAIN ub
      /\ \A i \in DOMAIN ub : i \in DOMAIN tb \/ (i = N + 1 /\ Len(ub) = N + 1)
  BY <1>0, <1>w, TableFacts, AsInfoAssumption
<1>k. Kin(tb, ub)
  BY <1>0, <1>w DEF Kin, N
\* What is left of an entry lies in it, beside the allocated range.
<1>1. ASSUME NEW i \in DOMAIN tb, tb[i].name = "sysram"
      PROVE  Covers(tb[i], ub[i]) /\ (ub[i].end < b \/ e < ub[i].start)
  <2>0. tb[i].start \in Nat /\ tb[i].end \in Nat /\ tb[i].start <= tb[i].end
    BY <1>0
  <2>1. CASE i \notin hs
    <3>1. ub[i].start = tb[i].start /\ ub[i].end = tb[i].end
      BY <1>w, <2>1
    <3>2. ~ (tb[i].start <= e /\ b <= tb[i].end)
      BY <1>h, <1>1, <2>1
    <3> QED BY <1>b, <2>0, <3>1, <3>2 DEF Covers
  <2>2. CASE i \in hs /\ b <= tb[i].start
    <3>1. ub[i].start = e + 1 /\ ub[i].end = tb[i].end
      BY <1>w, <2>2
    <3>2. tb[i].start <= e
      BY <1>h, <2>2
    <3> QED BY <1>b, <2>0, <3>1, <3>2 DEF Covers
  <2>3. CASE i \in hs /\ ~ (b <= tb[i].start)
    <3>1. ub[i].start = tb[i].start /\ ub[i].end = b - 1
      BY <1>w, <2>3
    <3>2. b <= tb[i].end
      BY <1>h, <2>3
    <3> QED BY <1>b, <2>0, <2>3, <3>1, <3>2 DEF Covers
  <2> QED BY <2>1, <2>2, <2>3
\* What has no part in the range is left, too.
<1>2. ASSUME NEW i \in DOMAIN tb, tb[i].name = "sysram", NEW a \in Nat, Has(tb[i], a), a \notin b .. e
      PROVE  Has(ub[i], a) \/ (Len(ub) = N + 1 /\ Has(ub[N + 1], a))
  <2>1. CASE i \notin hs
    BY <1>w, <1>2, <2>1 DEF Has
  <2>2. CASE i \in hs /\ b <= tb[i].start
    <3>1. ub[i].start = e + 1 /\ ub[i].end = tb[i].end
      BY <1>w, <2>2
    <3>2. tb[i].start \in Nat /\ tb[i].end \in Nat
      BY <1>0
    <3>3. tb[i].start <= a /\ a <= tb[i].end
      BY <1>2 DEF Has
    <3>4. ub[i].start <= a /\ a <= ub[i].end
      BY <1>b, <1>2, <2>2, <3>1, <3>2, <3>3
    <3> QED BY <3>4 DEF Has
  <2>3. CASE i \in hs /\ ~ (b <= tb[i].start)
    <3>0. ub[i].start = tb[i].start /\ ub[i].end = b - 1
      BY <1>w, <2>3
    <3>1. CASE a < b
      BY <1>0, <1>b, <1>2, <2>3, <3>0, <3>1 DEF Has
    <3>2. CASE ~ (a < b)
      <4>1. e < a /\ a <= tb[i].end
        BY <1>b, <1>2, <3>2 DEF Has
      <4>2. Inside(tb, i, b, e)
        BY <1>0, <1>b, <2>3, <4>1 DEF Inside
      <4>3. Len(ub) = N + 1
        BY <1>w, <2>3, <4>2
      <4>4. PICK h \in hs : /\ Inside(tb, h, b, e)
                            /\ ub[N + 1].start = e + 1 /\ ub[N + 1].end = tb[h].end
        BY <1>w, <4>3
      <4>5. h = i
        BY <1>b, <2>3, <4>2, <4>4, InsideOne
      <4> QED BY <1>b, <4>1, <4>3, <4>4, <4>5 DEF Has
    <3> QED BY <3>1, <3>2
  <2> QED BY <2>1, <2>2, <2>3
\* The entry that has been added is the end of one that was cut.
<1>3. ASSUME Len(ub) = N + 1
      PROVE  \E h \in hs :
               /\ h \in DOMAIN tb /\ tb[h].name = "sysram" /\ ub[N + 1].name = "sysram"
               /\ ub[N + 1].owner = tb[h].owner
               /\ Covers(tb[h], ub[N + 1]) /\ e < ub[N + 1].start
               /\ ub[h].end = b - 1
  <2>1. PICK h \in hs : /\ Inside(tb, h, b, e)
                        /\ ub[N + 1].name = "sysram" /\ ub[N + 1].owner = tb[h].owner
                        /\ ub[N + 1].start = e + 1 /\ ub[N + 1].end = tb[h].end
    BY <1>3, <1>w
  <2>2. h \in DOMAIN tb /\ tb[h].name = "sysram"
    BY <1>h
  <2>3. Covers(tb[h], ub[N + 1]) /\ e < ub[N + 1].start
    BY <1>0, <1>b, <2>1, <2>2 DEF Inside, Covers
  <2>4. ub[h].end = b - 1
    BY <1>0, <1>b, <1>w, <2>1, <2>2 DEF Inside
  <2> QED BY <2>1, <2>2, <2>3, <2>4
<1>4. ASSUME NEW i \in DOMAIN ub, NEW j \in DOMAIN ub, NEW k1 \in DOMAIN tb, NEW k2 \in DOMAIN tb,
             Apart(tb[k1], tb[k2]), Covers(tb[k1], ub[i]), Covers(tb[k2], ub[j])
      PROVE  Apart(ub[i], ub[j])
  <2>1. /\ tb[k1].start \in Nat /\ tb[k1].end \in Nat /\ tb[k2].start \in Nat /\ tb[k2].end \in Nat
    BY <1>0
  <2>2. /\ ub[i].start \in Nat /\ ub[i].end \in Nat /\ ub[j].start \in Nat /\ ub[j].end \in Nat
    BY <1>d
  <2> QED BY <1>4, <2>1, <2>2, ApartWithin, Zenon
<1>5. ASSUME NEW i \in DOMAIN tb, tb[i].name = "sysram", Len(ub) = N + 1
      PROVE  Apart(ub[i], ub[N + 1])
  <2>1. PICK h \in hs : /\ h \in DOMAIN tb /\ tb[h].name = "sysram"
                        /\ Covers(tb[h], ub[N + 1]) /\ e < ub[N + 1].start /\ ub[h].end = b - 1
    BY <1>3, <1>5
  <2>2. N + 1 \in DOMAIN ub /\ i \in DOMAIN ub
    BY <1>0, <1>d, <1>5
  <2>3. CASE i = h
    BY <1>b, <1>d, <2>1, <2>2, <2>3 DEF Apart
  <2>4. CASE i # h
    <3>1. Apart(tb[i], tb[h])
      BY <1>s, <1>5, <2>1, <2>4
    <3>2. Covers(tb[i], ub[i])
      BY <1>1, <1>5
    <3> QED BY <1>4, <2>1, <2>2, <3>1, <3>2
  <2> QED BY <2>3, <2>4
\* The four parts of SysramOk.
<1>6. ASSUME NEW i \in DOMAIN ub, ub[i].owner # 0 PROVE ub[ub[i].owner].name # "sysram"
  <2>1. \E j \in DOMAIN tb : ub[i].owner = tb[j].owner
    <3>1. CASE i \in DOMAIN tb
      BY <1>w, <3>1
    <3>2. CASE i = N + 1 /\ Len(ub) = N + 1
      BY <1>3, <3>2
    <3> QED BY <1>d, <3>1, <3>2
  <2>2. PICK j \in DOMAIN tb : ub[i].owner = tb[j].owner
    BY <2>1
  <2>3. tb[tb[j].owner].name # "sysram" /\ tb[j].owner \in DOMAIN tb
    BY <1>0, <1>s, <1>6, <2>2
  <2> QED BY <1>w, <2>2, <2>3
<1>7. ASSUME NEW i \in DOMAIN ub, NEW j \in DOMAIN ub, ub[i].name = "sysram", ub[j].name = "sysram", i # j
      PROVE  Apart(ub[i], ub[j])
  <2>1. CASE i \in DOMAIN tb /\ j \in DOMAIN tb
    <3>1. tb[i].name = "sysram" /\ tb[j].name = "sysram"
      BY <1>w, <1>7, <2>1
    <3>2. Apart(tb[i], tb[j]) /\ Covers(tb[i], ub[i]) /\ Covers(tb[j], ub[j])
      BY <1>1, <1>7, <1>s, <2>1, <3>1
    <3> QED BY <1>4, <2>1, <3>2
  <2>2. CASE i \in DOMAIN tb /\ j = N + 1 /\ Len(ub) = N + 1
    BY <1>5, <1>7, <1>w, <2>2
  <2>3. CASE j \in DOMAIN tb /\ i = N + 1 /\ Len(ub) = N + 1
    BY <1>5, <1>7, <1>w, <2>3 DEF Apart
  <2> QED BY <1>7, <1>d, <2>1, <2>2, <2>3
<1>8. ASSUME NEW i \in DOMAIN ub, ub[i].name = "sysram"
      PROVE  /\ ub[i].owner # 0 /\ AI!MatchName(ub, ub[i].owner, "ram")
             /\ Covers(ub[ub[i].owner], ub[i])
             /\ \A a \in ub[i].start .. ub[i].end : a \in nf
  <2>1. \E h \in DOMAIN tb : /\ tb[h].name = "sysram" /\ ub[i].owner = tb[h].owner
                             /\ Covers(tb[h], ub[i]) /\ (ub[i].end < b \/ e < ub[i].start)
    <3>1. CASE i \in DOMAIN tb
      BY <1>1, <1>8, <1>w, <3>1
    <3>2. CASE i = N + 1 /\ Len(ub) = N + 1
      BY <1>3, <3>2
    <3> QED BY <1>d, <3>1, <3>2
  <2>2. PICK h \in DOMAIN tb : /\ tb[h].name = "sysram" /\ ub[i].owner = tb[h].owner
                             /\ Covers(tb[h], ub[i]) /\ (ub[i].end < b \/ e < ub[i].start)
    BY <2>1
  <2> DEFINE q == tb[h].owner
  <2>3. /\ q # 0 /\ AI!MatchName(tb, q, "ram") /\ Covers(tb[q], tb[h]) /\ q \in DOMAIN tb
        /\ tb[q].name # "sysram" /\ \A a \in tb[h].start .. tb[h].end : a \in fr
    BY <1>0, <1>s, <2>2
  <2> HIDE DEF q
  <2>4. ub[q].start = tb[q].start /\ ub[q].end = tb[q].end
    BY <1>h, <1>w, <2>3
  <2>5. AI!MatchName(ub, q, "ram")
    BY <1>k, <1>w, <2>3, MatchKin
  <2>9. /\ tb[q].start \in Nat /\ tb[q].end \in Nat /\ tb[h].start \in Nat /\ tb[h].end \in Nat
        /\ ub[i].start \in Nat /\ ub[i].end \in Nat
    BY <1>0, <1>d, <2>3
  <2>6. Covers(ub[q], ub[i])
    BY <2>2, <2>3, <2>4, <2>9 DEF Covers
  <2>7. ASSUME NEW a \in ub[i].start .. ub[i].end PROVE a \in nf
    <3>2. a \in Int /\ ub[i].start <= a /\ a <= ub[i].end
      BY <2>9
    <3>3. /\ tb[h].start <= ub[i].start /\ ub[i].end <= tb[h].end
          /\ ub[i].end < b \/ e < ub[i].start
      BY <2>2 DEF Covers
    <3>4. a \in tb[h].start .. tb[h].end
      BY <2>9, <3>2, <3>3
    <3>5. a \notin b .. e
      BY <2>9, <3>2, <3>3
    <3> QED BY <1>b, <2>3, <3>4, <3>5
  <2>8. ub[i].owner = q
    BY <2>2 DEF q
  <2> QED BY <2>3, <2>5, <2>6, <2>7, <2>8
<1>9. ASSUME NEW a \in nf PROVE \E i \in DOMAIN ub : ub[i].name = "sysram" /\ Has(ub[i], a)
  <2>1. a \in fr /\ a \in Nat /\ a \notin b .. e
    BY <1>b
  <2>2. PICK i \in DOMAIN tb : tb[i].name = "sysram" /\ Has(tb[i], a)
    BY <1>s, <2>1
  <2>3. Has(ub[i], a) \/ (Len(ub) = N + 1 /\ Has(ub[N + 1], a))
    BY <1>2, <2>1, <2>2
  <2>4. CASE Has(ub[i], a)
    BY <1>d, <1>w, <2>2, <2>4
  <2>5. CASE Len(ub) = N + 1 /\ Has(ub[N + 1], a)
    <3>1. N + 1 \in DOMAIN ub /\ ub[N + 1].name = "sysram"
      BY <1>0, <1>3, <1>d, <2>5
    <3> QED BY <2>5, <3>1
  <2> QED BY <2>3, <2>4, <2>5
<1> HIDE DEF nf
<1>10. SysramOk(ub, nf)
  BY <1>6, <1>7, <1>8, <1>9 DEF SysramOk
<1> QED BY <1>10 DEF nf

\* alloc_ram() leaves the rest of the memory to the kernel, exactly.
LEMMA AllocDoes ==
  ASSUME Table(asinfo), memFree \subseteq 0 .. MemEnd, SysramOk(asinfo, memFree),
         NEW b \in 0 .. MemEnd, NEW e \in b .. MemEnd,
         AI!AllocRam(b, e), noMemory' = FALSE, noMemory = FALSE
  PROVE  Table(asinfo') /\ SysramOk(asinfo', memFree \ (b .. e))
<1> DEFINE hs == AI!AsFindContaining(asinfo, b, e, "sysram")
           E(g, o) == IF o = 0 THEN asinfo
                      ELSE IF o \in hs THEN AI!CutSysram(g[o - 1], o, b, e) ELSE g[o - 1]
           N == Len(asinfo)
           Graph(n, g) == g = [o \in 0 .. n |-> E(g, o)]
           Some(n) == \E g : Graph(n, g)
           S == {n \in Nat : Some(n)}
           list == CHOOSE g : g = [o \in 0 .. N |-> E(g, o)]
<1>0. N \in Nat /\ DOMAIN asinfo = 1 .. N
  BY TableFacts
<1>a. ASSUME NEW g, NEW f, NEW o, o # 0 => f[o - 1] = g[o - 1] PROVE E(f, o) = E(g, o)
  BY <1>a
<1>b. asinfo' = list[N] /\ ~ \E o \in hs : AI!Whole(asinfo[o], b, e)
  BY DEF AI!AllocRam
<1>c. \A g : E(g, 0) = asinfo
  OBVIOUS
<1>d. ASSUME NEW g, NEW n \in Nat
      PROVE  E(g, n + 1) = IF n + 1 \in hs THEN AI!CutSysram(g[n], n + 1, b, e) ELSE g[n]
  <2>1. n + 1 # 0 /\ (n + 1) - 1 = n
    OBVIOUS
  <2> QED BY <2>1
<1>h. Hits(asinfo, b, e, hs)
  <2>1. \A i \in DOMAIN asinfo : asinfo[i].owner # 0 => asinfo[asinfo[i].owner].name # "sysram"
    BY DEF SysramOk
  <2>2. \A i \in DOMAIN asinfo : AI!MatchName(asinfo, i, "sysram") <=> asinfo[i].name = "sysram"
    BY <2>1, SysramFound
  <2>3. \A i \in DOMAIN asinfo :
          AI!Touches(asinfo[i], b, e) <=> asinfo[i].start <= e /\ b <= asinfo[i].end
    BY TouchIs
  <2>4. \A i \in hs : ~ (b <= asinfo[i].start /\ e >= asinfo[i].end)
    BY <1>b DEF AI!Whole
  <2>5. hs = {i \in DOMAIN asinfo : AI!MatchName(asinfo, i, "sysram") /\ AI!Touches(asinfo[i], b, e)}
    BY DEF AI!AsFindContaining
  <2> HIDE DEF hs
  <2> QED BY <2>2, <2>3, <2>4, <2>5 DEF Hits
<1> HIDE DEF N, E, hs
<1>1. 0 \in S
  <2> DEFINE g == [o \in 0 .. 0 |-> asinfo]
  <2>1. \A o \in 0 .. 0 : o = 0
    OBVIOUS
  <2>2. Graph(0, g)
    BY <1>c, <2>1
  <2> HIDE DEF Graph, g
  <2> QED BY <2>2
<1>2. ASSUME NEW n \in Nat, n \in S PROVE n + 1 \in S
  <2>1. PICK g : Graph(n, g)
    BY <1>2
  <2> DEFINE f == [o \in 0 .. n + 1 |-> IF o = n + 1 THEN E(g, o) ELSE g[o]]
  <2>2. ASSUME NEW o \in 0 .. n + 1 PROVE f[o] = E(f, o)
    <3>1. o # 0 => f[o - 1] = g[o - 1]
      OBVIOUS
    <3>2. E(f, o) = E(g, o)
      <4> HIDE DEF f
      <4> QED BY <1>a, <3>1
    <3>3. CASE o = n + 1
      BY <3>2, <3>3
    <3>4. CASE o # n + 1
      <4>1. o \in 0 .. n /\ f[o] = g[o]
        BY <3>4
      <4>2. g[o] = E(g, o)
        BY <2>1, <4>1
      <4> QED BY <3>2, <4>1, <4>2
    <3> QED BY <3>3, <3>4
  <2>3. f = [o \in 0 .. n + 1 |-> f[o]]
    OBVIOUS
  <2> HIDE DEF f
  <2>4. Graph(n + 1, f)
    BY <2>2, <2>3, Zenon
  <2> HIDE DEF Graph
  <2> QED BY <2>4
<1> HIDE DEF S
<1>3. N \in S
  BY <1>0, <1>1, <1>2, Induct
<1>4. list = [o \in 0 .. N |-> E(list, o)]
  <2>1. PICK g : g = [o \in 0 .. N |-> E(g, o)]
    BY <1>3 DEF S
  <2> QED BY <2>1
<1> HIDE DEF list
<1>5. /\ list[0] = asinfo
      /\ \A n \in 0 .. N - 1 :
           list[n + 1] = IF n + 1 \in hs THEN AI!CutSysram(list[n], n + 1, b, e) ELSE list[n]
  <2>1. \A o \in 0 .. N : list[o] = E(list, o)
    BY <1>4, Zenon
  <2>2. \A n \in 0 .. N - 1 : n + 1 \in 0 .. N /\ n \in Nat
    BY <1>0
  <2>3. \A n \in 0 .. N - 1 : list[n + 1] = E(list, n + 1)
    BY <2>1, <2>2, Zenon
  <2>4. \A n \in 0 .. N - 1 :
          E(list, n + 1) = IF n + 1 \in hs THEN AI!CutSysram(list[n], n + 1, b, e) ELSE list[n]
    BY <1>d, <2>2, Zenon
  <2>5. 0 \in 0 .. N
    BY <1>0
  <2>6. list[0] = asinfo
    BY <1>c, <2>1, <2>5, Zenon
  <2> QED BY <2>3, <2>4, <2>6, Zenon
<1> DEFINE Z == {n \in Nat : n <= N => CutSo(asinfo, hs, b, e, n, list[n])}
<1>6. 0 \in Z
  <2>1. \A i \in DOMAIN asinfo : ~ (i <= 0)
    BY <1>0
  <2>2. \A i \in hs : ~ (i <= 0)
    BY <1>h, <2>1 DEF Hits
  <2>3. ~ (Len(asinfo) = Len(asinfo) + 1)
    <3>1. \A x \in Nat : ~ (x = x + 1)
      OBVIOUS
    <3>2. Len(asinfo) \in Nat
      BY TableFacts
    <3> QED BY <3>1, <3>2
  <2>4. CutSo(asinfo, hs, b, e, 0, asinfo)
    BY <2>1, <2>2, <2>3 DEF CutSo
  <2> QED BY <1>5, <2>4
<1>7. ASSUME NEW n \in Nat, n \in Z PROVE n + 1 \in Z
  <2> SUFFICES ASSUME n + 1 <= N PROVE CutSo(asinfo, hs, b, e, n + 1, list[n + 1])
    OBVIOUS
  <2>1. n \in 0 .. N - 1 /\ n <= N /\ n + 1 \in DOMAIN asinfo /\ (n + 1) - 1 = n
    BY <1>0
  <2>2. CutSo(asinfo, hs, b, e, n, list[n])
    BY <1>7, <2>1
  <2>3. CutSo(asinfo, hs, b, e, n + 1,
              IF n + 1 \in hs THEN AI!CutSysram(list[n], n + 1, b, e) ELSE list[n])
    BY <1>h, <2>1, <2>2, CutStep
  <2> QED BY <1>5, <2>1, <2>3
<1> HIDE DEF Z
<1>8. N \in Z
  BY <1>0, <1>6, <1>7, Induct
<1> DEFINE ub == asinfo'
<1>9. CutSo(asinfo, hs, b, e, Len(asinfo), ub)
  BY <1>0, <1>b, <1>8 DEF Z, N
<1> HIDE DEF ub
<1>10. SysramOk(ub, memFree \ (b .. e)) /\ Table(ub)
  BY <1>9, <1>h, CutKeeps DEF CutSo
<1> QED BY <1>10 DEF ub

-----------------------------------------------------------------------------
(* The address space section: the invariant                                *)

\* What is remembered of a request has all its parts.
LEMMA ServedIs ==
  ASSUME NEW tb, Table(tb), NEW q, NEW res, res.n \in Nat
  PROVE  Request(AI!Served(tb, q, res))
BY TableFacts DEF AI!Served, Request

\* One request of as_add_containing() that is served.
LEMMA RequestDoes ==
  ASSUME NEW tb, Table(tb), Rooted(tb), NEW fr, fr \subseteq 0 .. MemEnd, BeforeSysram(tb, fr),
         NEW q, q.start \in 0 .. MemEnd, q.end \in q.start .. MemEnd,
         q.container = "memory" \/ (q.start .. q.end \subseteq fr /\ q.container = "ram"),
         NEW nm \in EntryName
  PROVE  LET res == AI!AsAddContaining(tb, q, nm) IN
         /\ Serves(tb, q.start, q.end, q.container, nm, res.as, res.n)
         /\ q.overlay = FALSE => Len(res.as) = Len(tb) + res.n
         /\ ExactIn(res.as, AI!Served(tb, q, res)) /\ Request(AI!Served(tb, q, res))
<1> DEFINE res == AI!AsAddContaining(tb, q, nm)
<1>1. Under(tb, q.start, q.end, q.container)
  <2>1. CASE q.container = "memory"
    <3>1. \A a \in q.start .. q.end : a \in 0 .. MemEnd
      BY AsInfoAssumption
    <3>2. \A a \in q.start .. q.end : \E i : Inner(tb, a, i, "memory")
      BY <3>1, InnerInMemory
    <3> QED BY <2>1, <3>2 DEF Under
  <2>2. CASE q.start .. q.end \subseteq fr /\ q.container = "ram"
    BY <2>2 DEF Under, BeforeSysram
  <2> QED BY <2>1, <2>2
<1>2. Nested(tb)
  BY DEF BeforeSysram
<1>3. /\ Serves(tb, q.start, q.end, q.container, nm, res.as, res.n)
      /\ q.overlay = FALSE => Len(res.as) = Len(tb) + res.n
  BY <1>1, <1>2, AddContainingDoes
<1> HIDE DEF res
<1>4. ExactIn(res.as, [pieces |-> res.n, before |-> Len(tb), req |-> q, prio |-> FALSE])
  BY <1>3, ServesExact
<1>5. ExactIn(res.as, AI!Served(tb, q, res))
  BY <1>4 DEF AI!Served
<1>6. Request(AI!Served(tb, q, res))
  BY <1>3, ServedIs DEF Serves
<1> QED BY <1>3, <1>5, <1>6 DEF res

\* Without a request there is nothing to serve.
LEMMA NoneExact ==
  ASSUME NEW tb
  PROVE  ExactIn(tb, AI!None) /\ Request(AI!None)
<1>1. ~ (AI!None.pieces > 0)
  BY DEF AI!None
<1> QED BY <1>1 DEF ExactIn, Request

\* The section is empty at first.
LEMMA InfoInit == AI!Init => InfoInv
<1> SUFFICES ASSUME AI!Init PROVE InfoInv
  OBVIOUS
<1>1. /\ asinfo = << >> /\ memFree = {} /\ sysram_added = FALSE
      /\ served = AI!None /\ noMemory = FALSE
  BY DEF AI!Init
<1>2. Table(asinfo)
  BY <1>1 DEF Table
<1>3. BeforeSysram(asinfo, memFree)
  BY <1>1 DEF BeforeSysram, Nested
<1> QED BY <1>1, <1>2, <1>3, NoneExact DEF InfoInv

\* A bank of add_ram(): the first one makes the root, too.
LEMMA AddRamKeeps ==
  ASSUME InfoInv, NEW r \in Banks, AI!AddRam(r)
  PROVE  InfoInv'
<1> DEFINE root == AI!AsAdd64(<< >>, 0, MemEnd, FALSE, "memory", AI!AS_NULL_OFF)
           base == IF asinfo = << >> THEN AI!AsAdd64(root, 0, Below4G, FALSE, "below4G", 1)
                   ELSE asinfo
           q == AI!Range4(r[1], r[2], "memory")
           res == AI!AsAddContaining(base, q, "ram")
<1>1. /\ ~ sysram_added /\ asinfo' = res.as /\ served' = AI!Served(base, q, res)
      /\ memFree' = memFree \cup (r[1] .. r[2])
      /\ sysram_added' = sysram_added /\ noMemory' = noMemory
  BY DEF AI!AddRam
<1>2. r[1] \in 0 .. MemEnd /\ r[2] \in r[1] .. MemEnd
  BY AsInfoAssumption
<1>3. /\ q.start = r[1] /\ q.end = r[2] /\ q.container = "memory" /\ q.overlay = FALSE
  BY DEF AI!Range4
<1>4. Table(base) /\ Rooted(base) /\ BeforeSysram(base, memFree)
  <2>1. CASE asinfo = << >>
    <3>1. memFree = {}
      BY <2>1 DEF InfoInv
    <3> QED BY <2>1, <3>1, RootDoes
  <2>2. CASE asinfo # << >>
    BY <1>1, <2>2 DEF InfoInv
  <2> QED BY <2>1, <2>2
<1>5. "ram" \in EntryName /\ memFree \subseteq 0 .. MemEnd
  BY DEF EntryName, InfoInv
<1> HIDE DEF base, root, q
<1>q. q.start \in 0 .. MemEnd /\ q.end \in q.start .. MemEnd
  BY <1>2, <1>3
<1>6. /\ Serves(base, q.start, q.end, q.container, "ram", res.as, res.n)
      /\ q.overlay = FALSE => Len(res.as) = Len(base) + res.n
      /\ ExactIn(res.as, AI!Served(base, q, res)) /\ Request(AI!Served(base, q, res))
  <2>1. q.container = "memory" \/ (q.start .. q.end \subseteq memFree /\ q.container = "ram")
    BY <1>3
  <2> QED BY <1>4, <1>5, <1>q, <2>1, RequestDoes
<1> HIDE DEF res
<1>7. /\ Serves(base, r[1], r[2], "memory", "ram", asinfo', res.n)
      /\ Len(asinfo') = Len(base) + res.n
      /\ ExactIn(asinfo', served') /\ Request(served')
  BY <1>1, <1>3, <1>6
<1> DEFINE ub == asinfo'
           b == r[1]
           e == r[2]
<1> HIDE DEF ub, b, e
<1>8. Table(ub) /\ Rooted(ub) /\ BeforeSysram(ub, memFree \cup (b .. e))
  <2>1. b \in 0 .. MemEnd /\ e \in b .. MemEnd
    BY <1>2 DEF b, e
  <2>2. Serves(base, b, e, "memory", "ram", ub, res.n) /\ Len(ub) = Len(base) + res.n
    BY <1>7 DEF ub, b, e
  <2> QED BY <1>4, <1>5, <2>1, <2>2, RamServes
<1>9. Table(asinfo') /\ Rooted(asinfo') /\ BeforeSysram(asinfo', memFree')
  BY <1>1, <1>8 DEF ub, b, e
<1>10. memFree' \subseteq 0 .. MemEnd
  <2>1. b \in 0 .. MemEnd /\ e \in b .. MemEnd
    BY <1>2 DEF b, e
  <2>2. b .. e \subseteq 0 .. MemEnd
    BY <2>1, AsInfoAssumption
  <2> QED BY <1>1, <1>5, <2>2 DEF b, e
<1>11. asinfo' # << >>
  BY <1>9 DEF Rooted
<1> QED BY <1>1, <1>7, <1>9, <1>10, <1>11 DEF InfoInv

\* An area of as_add(): it lies in each entry or beside it.
LEMMA AsAddKeeps ==
  ASSUME InfoInv, NEW r \in Areas, NEW ov \in BOOLEAN, AI!AsAdd(r, ov)
  PROVE  InfoInv'
<1> DEFINE b == r[1]
           e == r[2]
           ub == AI!AsAdd64(asinfo, b, e, ov, "imagefs", AI!AsFind(asinfo, "memory"))
<1>1. /\ asinfo # << >> /\ ~ sysram_added /\ asinfo' = ub
      /\ served' = AI!None /\ memFree' = memFree \ (b .. e)
      /\ sysram_added' = sysram_added /\ noMemory' = noMemory
      /\ \A i \in AI!InUse(r) : AI!Within(r, asinfo[i])
  BY DEF AI!AsAdd
<1>2. b \in 0 .. MemEnd /\ e \in b .. MemEnd
  BY AsInfoAssumption
<1>3. /\ Table(asinfo) /\ memFree \subseteq 0 .. MemEnd
      /\ Rooted(asinfo) /\ BeforeSysram(asinfo, memFree)
  BY <1>1 DEF InfoInv
<1>4. ASSUME NEW i \in DOMAIN asinfo
      PROVE  \/ asinfo[i].start <= b /\ e <= asinfo[i].end
             \/ asinfo[i].end < b \/ e < asinfo[i].start
  <2>1. AI!Touches(asinfo[i], b, e) <=> asinfo[i].start <= e /\ b <= asinfo[i].end
    BY <1>2, <1>3, TouchIs
  <2>2. asinfo[i].start \in Nat /\ asinfo[i].end \in Nat /\ b \in Nat /\ e \in Nat
    BY <1>2, <1>3, TableFacts, AsInfoAssumption
  <2>3. AI!Touches(asinfo[i], b, e) => asinfo[i].start <= b /\ e <= asinfo[i].end
    BY <1>1 DEF AI!InUse, AI!Within
  <2> HIDE DEF b, e
  <2> QED BY <2>1, <2>2, <2>3
<1> HIDE DEF b, e
<1>5. Table(ub) /\ Rooted(ub) /\ BeforeSysram(ub, memFree \ (b .. e))
  BY <1>2, <1>3, <1>4, AreaDoes
<1> HIDE DEF ub
<1>6. Table(asinfo') /\ Rooted(asinfo') /\ BeforeSysram(asinfo', memFree')
  BY <1>1, <1>5
<1>7. memFree' \subseteq 0 .. MemEnd /\ asinfo' # << >>
  BY <1>1, <1>3, <1>6 DEF Rooted
<1> QED BY <1>1, <1>6, <1>7, NoneExact DEF InfoInv

\* A request of reserve_ram() or fdt_asinfo().
LEMMA AddContainingKeeps ==
  ASSUME InfoInv, NEW q \in Requests, AI!AddContaining(q)
  PROVE  InfoInv'
<1> DEFINE res == AI!AsAddContaining(asinfo, q, "reserved")
<1>1. /\ asinfo # << >> /\ ~ sysram_added /\ asinfo' = res.as
      /\ served' = AI!Served(asinfo, q, res)
      /\ memFree' = memFree \ (q.start .. q.end)
      /\ sysram_added' = sysram_added /\ noMemory' = noMemory
      /\ q.container = "ram" => q.start .. q.end \subseteq memFree
  BY DEF AI!AddContaining
<1>2. /\ q.start \in 0 .. MemEnd /\ q.end \in q.start .. MemEnd
      /\ q.container \in {"ram", "memory"}
  BY AsInfoAssumption
<1>3. /\ Table(asinfo) /\ memFree \subseteq 0 .. MemEnd
      /\ Rooted(asinfo) /\ BeforeSysram(asinfo, memFree)
  BY <1>1 DEF InfoInv
<1>4. "reserved" \in EntryName /\ "reserved" # "sysram"
  BY DEF EntryName
<1>5. q.container = "memory" \/ (q.start .. q.end \subseteq memFree /\ q.container = "ram")
  BY <1>1, <1>2
<1>6. /\ Serves(asinfo, q.start, q.end, q.container, "reserved", res.as, res.n)
      /\ ExactIn(res.as, AI!Served(asinfo, q, res)) /\ Request(AI!Served(asinfo, q, res))
  BY <1>2, <1>3, <1>4, <1>5, RequestDoes
<1> HIDE DEF res
<1> DEFINE ub == res.as
<1> HIDE DEF ub
<1>7. Table(ub) /\ Rooted(ub) /\ BeforeSysram(ub, memFree \ (q.start .. q.end))
  <2>1. Serves(asinfo, q.start, q.end, q.container, "reserved", ub, res.n)
    BY <1>6 DEF ub
  <2> QED BY <1>2, <1>3, <1>4, <2>1, RangeServes
<1>8. Table(asinfo') /\ Rooted(asinfo') /\ BeforeSysram(asinfo', memFree')
  BY <1>1, <1>7 DEF ub
<1>9. memFree' \subseteq 0 .. MemEnd /\ asinfo' # << >> /\ ExactIn(asinfo', served')
      /\ Request(served')
  BY <1>1, <1>3, <1>6, <1>8 DEF Rooted
<1> QED BY <1>1, <1>8, <1>9 DEF InfoInv

\* as_set_priority() of the request that has just been served.
LEMMA PrioKeeps ==
  ASSUME InfoInv, AI!AsSetPriority
  PROVE  InfoInv'
<1> DEFINE run == AI!Chain(asinfo, served.before + 1)
<1>1. /\ served.pieces > 0 /\ served' = [served EXCEPT !.prio = TRUE]
      /\ asinfo' = [i \in DOMAIN asinfo |->
                  IF i \in run THEN [asinfo[i] EXCEPT !.priority = AI!High] ELSE asinfo[i]]
      /\ memFree' = memFree /\ sysram_added' = sysram_added /\ noMemory' = noMemory
  BY DEF AI!AsSetPriority
<1>2. ~ (AI!None.pieces > 0)
  BY DEF AI!None
<1>3. ~ sysram_added
  BY <1>1, <1>2 DEF InfoInv
<1>4. asinfo # << >>
  <2> SUFFICES ASSUME asinfo = << >> PROVE FALSE
    OBVIOUS
  <2>1. ExactIn(asinfo, served)
    BY DEF InfoInv
  <2>2. /\ served.before \in Nat /\ served.pieces \in Nat
        /\ served.before + served.pieces <= Len(asinfo)
    BY <1>1, <2>1 DEF ExactIn
  <2>3. Len(asinfo) = 0
    OBVIOUS
  <2> QED BY <1>1, <2>2, <2>3
<1>5. /\ Table(asinfo) /\ memFree \subseteq 0 .. MemEnd /\ ExactIn(asinfo, served)
      /\ Rooted(asinfo) /\ BeforeSysram(asinfo, memFree)
  BY <1>3, <1>4 DEF InfoInv
<1>6. Raised(asinfo, run, asinfo')
  BY <1>1 DEF Raised
<1>7. /\ served'.pieces = served.pieces /\ served'.before = served.before
      /\ served'.req = served.req /\ served'.prio = TRUE /\ Request(served')
  <2>1. served \in [pieces : Nat, before : Nat, req : {served.req}, prio : BOOLEAN]
    BY <1>1 DEF InfoInv, Request
  <2>2. /\ served'.pieces = served.pieces /\ served'.before = served.before
        /\ served'.req = served.req /\ served'.prio = TRUE
        /\ served' \in [pieces : Nat, before : Nat, req : {served.req}, prio : BOOLEAN]
    BY <1>1, <2>1
  <2> QED BY <2>2 DEF Request
<1> HIDE DEF run
<1>8. Table(asinfo') /\ Rooted(asinfo') /\ BeforeSysram(asinfo', memFree) /\ ExactIn(asinfo', served')
  <2> DEFINE ub == asinfo'
             lb == served'
  <2> HIDE DEF ub, lb
  <2>1. Raised(asinfo, run, ub)
    BY <1>6 DEF ub
  <2>2. lb.pieces = served.pieces /\ lb.before = served.before /\ lb.req = served.req /\ lb.prio = TRUE
    BY <1>7 DEF lb
  <2>3. Table(ub) /\ Rooted(ub) /\ BeforeSysram(ub, memFree) /\ ExactIn(ub, lb)
    BY <1>1, <1>5, <2>1, <2>2, PriorityKeeps DEF run
  <2> QED BY <2>3 DEF ub, lb
<1>9. asinfo' # << >>
  BY <1>8 DEF Rooted
<1> QED BY <1>1, <1>3, <1>5, <1>7, <1>8, <1>9 DEF InfoInv

\* add_sysram() of the runs of free memory.
LEMMA SysramKeeps ==
  ASSUME InfoInv, AI!AddSysram
  PROVE  InfoInv'
<1>1. /\ asinfo # << >> /\ ~ sysram_added /\ sysram_added' = TRUE /\ served' = AI!None
      /\ memFree' = memFree /\ noMemory' = noMemory
  BY DEF AI!AddSysram
<1>2. /\ Table(asinfo) /\ Rooted(asinfo) /\ memFree \subseteq 0 .. MemEnd
      /\ BeforeSysram(asinfo, memFree) /\ noMemory \in BOOLEAN
  BY <1>1 DEF InfoInv
<1>3. Table(asinfo') /\ SysramOk(asinfo', memFree)
  BY <1>2, AddSysramDoes
<1>4. asinfo' = << >> => memFree = {}
  BY <1>3 DEF SysramOk
<1>5. ExactIn(asinfo', AI!None) /\ Request(AI!None)
  BY NoneExact
<1> QED BY <1>1, <1>2, <1>3, <1>4, <1>5 DEF InfoInv

\* alloc_ram() of a part of a run; it crashes when a whole entry would have to go.
LEMMA AllocKeeps ==
  ASSUME InfoInv, NEW r \in AI!RamList, NEW b \in r.start .. r.end, NEW e \in b .. r.end,
         AI!AllocRam(b, e)
  PROVE  InfoInv'
<1>1. /\ sysram_added /\ ~ noMemory /\ sysram_added' = sysram_added /\ served' = AI!None
      /\ memFree' = memFree \ (b .. e)
      /\ (noMemory' = TRUE /\ asinfo' = asinfo) \/ noMemory' = noMemory
  BY DEF AI!AllocRam, AI!Room
<1>2. /\ Table(asinfo) /\ memFree \subseteq 0 .. MemEnd /\ SysramOk(asinfo, memFree)
      /\ noMemory = FALSE /\ sysram_added \in BOOLEAN /\ (asinfo = << >> => memFree = {})
  BY <1>1 DEF InfoInv
<1>3. r.start \in 0 .. MemEnd /\ r.end \in r.start .. MemEnd
  BY <1>2, RunsDo
<1>4. b \in 0 .. MemEnd /\ e \in b .. MemEnd
  BY <1>3, AsInfoAssumption
<1>5. memFree' \subseteq 0 .. MemEnd /\ ExactIn(asinfo', served') /\ Request(served')
  BY <1>1, <1>2, NoneExact
<1>6. CASE noMemory' = TRUE /\ asinfo' = asinfo
  BY <1>1, <1>2, <1>5, <1>6 DEF InfoInv
<1>7. CASE noMemory' = noMemory
  <2>1. Table(asinfo') /\ SysramOk(asinfo', memFree \ (b .. e))
    BY <1>2, <1>4, <1>7, AllocDoes
  <2>2. SysramOk(asinfo', memFree')
    BY <1>1, <2>1
  <2>3. asinfo' = << >> => memFree' = {}
    BY <2>2 DEF SysramOk
  <2> QED BY <1>1, <1>2, <1>5, <1>7, <2>1, <2>2, <2>3 DEF InfoInv
<1> QED BY <1>1, <1>6, <1>7

\* Each step keeps the invariant.
LEMMA InfoStep ==
  ASSUME InfoInv, [AI!Next]_(AI!vars)
  PROVE  InfoInv'
<1>1. CASE \E r \in Banks : AI!AddRam(r)
  BY <1>1, AddRamKeeps
<1>2. CASE \E r \in Areas : \E ov \in BOOLEAN : AI!AsAdd(r, ov)
  BY <1>2, AsAddKeeps
<1>3. CASE \E q \in Requests : AI!AddContaining(q)
  BY <1>3, AddContainingKeeps
<1>4. CASE AI!AsSetPriority
  BY <1>4, PrioKeeps
<1>5. CASE AI!AddSysram
  BY <1>5, SysramKeeps
<1>6. CASE \E r \in AI!RamList : \E b \in r.start .. r.end : \E e \in b .. r.end : AI!AllocRam(b, e)
  BY <1>6, AllocKeeps
<1>7. CASE UNCHANGED AI!vars
  BY <1>7 DEF AI!vars, InfoInv
<1> QED BY <1>1, <1>2, <1>3, <1>4, <1>5, <1>6, <1>7 DEF AI!Next

\* The invariant says what the section has to.
LEMMA InfoShows == InfoInv => AsInfoRight
<1> SUFFICES ASSUME InfoInv PROVE AsInfoRight
  OBVIOUS
<1>0. /\ Table(asinfo) /\ memFree \subseteq 0 .. MemEnd
      /\ sysram_added \in BOOLEAN /\ noMemory \in BOOLEAN /\ ExactIn(asinfo, served)
  BY DEF InfoInv
<1>1. AI!TypeOK
  <2>1. \A i \in DOMAIN asinfo :
          /\ asinfo[i].start \in 0 .. MemEnd /\ asinfo[i].end \in asinfo[i].start .. MemEnd
          /\ asinfo[i].owner \in 0 .. i - 1 /\ asinfo[i].name \in EntryName
          /\ asinfo[i].attr \subseteq {AI!Kids, AI!Continued}
          /\ asinfo[i].priority \in {AI!Default, AI!High}
    BY <1>0, TableFacts
  <2> QED BY <1>0, <2>1 DEF AI!TypeOK, EntryName
<1>2. AI!PiecesExact
  BY <1>0, ExactIs
<1>3. AI!SysramExact
  <2> SUFFICES ASSUME sysram_added, ~ noMemory
               PROVE  /\ AI!Disjoint(AI!Named("sysram"))
                      /\ UNION {AI!Span(asinfo[i]) : i \in AI!Named("sysram")} = memFree
                      /\ \A i \in AI!Named("sysram") :
                           /\ AI!MatchName(asinfo, asinfo[i].owner, "ram")
                           /\ AI!Span(asinfo[i]) \subseteq AI!Span(asinfo[asinfo[i].owner])
    BY DEF AI!SysramExact
  <2>1. /\ \A i \in DOMAIN asinfo : asinfo[i].name = "sysram" =>
             /\ asinfo[i].owner # 0 /\ AI!MatchName(asinfo, asinfo[i].owner, "ram")
             /\ Covers(asinfo[asinfo[i].owner], asinfo[i])
             /\ \A a \in asinfo[i].start .. asinfo[i].end : a \in memFree
        /\ \A i, j \in DOMAIN asinfo :
             asinfo[i].name = "sysram" /\ asinfo[j].name = "sysram" /\ i # j
               => Apart(asinfo[i], asinfo[j])
        /\ \A a \in memFree : \E i \in DOMAIN asinfo : asinfo[i].name = "sysram" /\ Has(asinfo[i], a)
    BY DEF InfoInv, SysramOk
  <2>2. /\ DOMAIN asinfo = 1 .. Len(asinfo) /\ Len(asinfo) \in Nat
        /\ \A i \in DOMAIN asinfo : /\ asinfo[i].start \in Nat /\ asinfo[i].end \in Nat
                                    /\ asinfo[i].owner \in 0 .. i - 1
    BY <1>0, TableFacts, AsInfoAssumption
  <2>3. ASSUME NEW i \in AI!Named("sysram"), NEW j \in AI!Named("sysram"), i # j
        PROVE  AI!Span(asinfo[i]) \cap AI!Span(asinfo[j]) = {}
    <3>1. Apart(asinfo[i], asinfo[j]) /\ i \in DOMAIN asinfo /\ j \in DOMAIN asinfo
      BY <2>1, <2>3 DEF AI!Named
    <3> QED BY <2>2, <3>1 DEF AI!Span, Apart
  <2>4. ASSUME NEW a \in memFree
        PROVE  a \in UNION {AI!Span(asinfo[i]) : i \in AI!Named("sysram")}
    <3>1. PICK i \in DOMAIN asinfo : asinfo[i].name = "sysram" /\ Has(asinfo[i], a)
      BY <2>1
    <3>2. a \in Nat
      BY <1>0, AsInfoAssumption
    <3>3. i \in AI!Named("sysram") /\ a \in AI!Span(asinfo[i])
      BY <2>2, <3>1, <3>2 DEF AI!Named, AI!Span, Has
    <3> QED BY <3>3
  <2>5. ASSUME NEW i \in AI!Named("sysram")
        PROVE  /\ AI!MatchName(asinfo, asinfo[i].owner, "ram")
               /\ AI!Span(asinfo[i]) \subseteq memFree
               /\ AI!Span(asinfo[i]) \subseteq AI!Span(asinfo[asinfo[i].owner])
    <3>1. i \in DOMAIN asinfo /\ asinfo[i].name = "sysram"
      BY DEF AI!Named
    <3>2. /\ asinfo[i].owner # 0 /\ AI!MatchName(asinfo, asinfo[i].owner, "ram")
          /\ Covers(asinfo[asinfo[i].owner], asinfo[i])
          /\ \A a \in asinfo[i].start .. asinfo[i].end : a \in memFree
      BY <2>1, <3>1
    <3>3. asinfo[i].owner \in DOMAIN asinfo
      BY <2>2, <3>1, <3>2
    <3>4. /\ asinfo[i].start \in Nat /\ asinfo[i].end \in Nat
          /\ asinfo[asinfo[i].owner].start \in Nat /\ asinfo[asinfo[i].owner].end \in Nat
      BY <2>2, <3>1, <3>3
    <3>5. AI!Span(asinfo[i]) \subseteq AI!Span(asinfo[asinfo[i].owner])
      BY <3>2, <3>4 DEF AI!Span, Covers
    <3>6. AI!Span(asinfo[i]) \subseteq memFree
      BY <3>2 DEF AI!Span
    <3> QED BY <3>2, <3>5, <3>6
  <2>6. UNION {AI!Span(asinfo[i]) : i \in AI!Named("sysram")} = memFree
    BY <2>4, <2>5
  <2> QED BY <2>3, <2>5, <2>6 DEF AI!Disjoint
<1> QED BY <1>1, <1>2, <1>3 DEF AsInfoRight, AI!AsInfoRight

\* Whatever banks, areas and requests come in whatever order, the section
\* serves each request of as_add_containing() exactly, keeps its pieces
\* together for as_set_priority(), and gives the kernel what is free, once.
THEOREM SectionIsRight == AI!Spec => []AsInfoRight
<1>1. AI!Init => InfoInv
  BY InfoInit
<1>2. InfoInv /\ [AI!Next]_(AI!vars) => InfoInv'
  BY InfoStep
<1>3. InfoInv => AsInfoRight
  BY InfoShows
<1> QED BY <1>1, <1>2, <1>3, PTL DEF AI!Spec

-----------------------------------------------------------------------------
(* The console: sequences                                                  *)

\* The keys without the breaks, up to each of a sequence.
Keeps(s, g) ==
  /\ g[0] = << >>
  /\ \A j \in 1 .. Len(s) :
       g[j] = IF s[j] = CON!Brk THEN g[j - 1] ELSE Append(g[j - 1], s[j])

\* The keys without the breaks are found key by key.
LEMMA KeepsExists ==
  ASSUME NEW s \in Seq(Int)
  PROVE  \E g : Keeps(s, g) /\ CON!NoBreaks(s) = g[Len(s)]
<1> DEFINE N == Len(s)
           E(g, j) == IF j = 0 THEN << >>
                      ELSE IF s[j] = CON!Brk THEN g[j - 1] ELSE Append(g[j - 1], s[j])
           Graph(n, g) == g = [j \in 0 .. n |-> E(g, j)]
           Some(n) == \E g : Graph(n, g)
           S == {n \in Nat : Some(n)}
           kept == CHOOSE g : g = [j \in 0 .. N |-> E(g, j)]
<1>0. N \in Nat
  OBVIOUS
<1>a. ASSUME NEW g, NEW f, NEW j, j # 0 => f[j - 1] = g[j - 1] PROVE E(f, j) = E(g, j)
  BY <1>a
<1>b. CON!NoBreaks(s) = kept[N]
  BY DEF CON!NoBreaks
<1>c. \A g : E(g, 0) = << >>
  OBVIOUS
<1>d. ASSUME NEW g, NEW j \in 1 .. N
      PROVE E(g, j) = IF s[j] = CON!Brk THEN g[j - 1] ELSE Append(g[j - 1], s[j])
  <2>1. j # 0
    BY <1>0
  <2> QED BY <2>1
<1> HIDE DEF N, E
<1>1. 0 \in S
  <2> DEFINE g == [j \in 0 .. 0 |-> << >>]
  <2>1. \A j \in 0 .. 0 : j = 0
    OBVIOUS
  <2>2. Graph(0, g)
    BY <1>c, <2>1
  <2> HIDE DEF Graph, g
  <2> QED BY <2>2
<1>2. ASSUME NEW n \in Nat, n \in S PROVE n + 1 \in S
  <2>1. PICK g : Graph(n, g)
    BY <1>2
  <2> DEFINE f == [j \in 0 .. n + 1 |-> IF j = n + 1 THEN E(g, j) ELSE g[j]]
  <2>2. ASSUME NEW j \in 0 .. n + 1 PROVE f[j] = E(f, j)
    <3>1. j # 0 => f[j - 1] = g[j - 1]
      OBVIOUS
    <3>2. E(f, j) = E(g, j)
      <4> HIDE DEF f
      <4> QED BY <1>a, <3>1
    <3>3. CASE j = n + 1
      BY <3>2, <3>3
    <3>4. CASE j # n + 1
      <4>1. j \in 0 .. n /\ f[j] = g[j]
        BY <3>4
      <4>2. g[j] = E(g, j)
        BY <2>1, <4>1
      <4> QED BY <3>2, <4>1, <4>2
    <3> QED BY <3>3, <3>4
  <2>3. f = [j \in 0 .. n + 1 |-> f[j]]
    OBVIOUS
  <2> HIDE DEF f
  <2>4. Graph(n + 1, f)
    BY <2>2, <2>3, Zenon
  <2> HIDE DEF Graph
  <2> QED BY <2>4
<1> HIDE DEF S
<1>3. N \in S
  BY <1>0, <1>1, <1>2, Induct
<1>4. kept = [j \in 0 .. N |-> E(kept, j)]
  <2>1. PICK g : g = [j \in 0 .. N |-> E(g, j)]
    BY <1>3 DEF S
  <2> QED BY <2>1
<1> HIDE DEF kept
<1>5. ASSUME NEW j \in 0 .. N PROVE kept[j] = E(kept, j)
  BY <1>4
<1>6. kept[0] = << >>
  BY <1>0, <1>c, <1>5
<1>7. ASSUME NEW j \in 1 .. N
      PROVE kept[j] = IF s[j] = CON!Brk THEN kept[j - 1] ELSE Append(kept[j - 1], s[j])
  <2>1. j \in 0 .. N
    BY <1>0
  <2>2. kept[j] = E(kept, j)
    BY <1>5, <2>1
  <2>3. E(kept, j) = IF s[j] = CON!Brk THEN kept[j - 1] ELSE Append(kept[j - 1], s[j])
    BY <1>d
  <2> QED BY <2>2, <2>3
<1>8. Keeps(s, kept)
  BY <1>6, <1>7 DEF Keeps, N
<1>9. CON!NoBreaks(s) = kept[Len(s)]
  BY <1>b DEF N
<1> HIDE DEF N
<1> QED BY <1>8, <1>9, Zenon

\* Concatenation.
LEMMA Concat ==
  ASSUME NEW S, NEW a \in Seq(S), NEW b \in Seq(S)
  PROVE  /\ a \o b \in Seq(S) /\ Len(a \o b) = Len(a) + Len(b)
         /\ \A i \in 1 .. Len(a) + Len(b) :
              (a \o b)[i] = IF i <= Len(a) THEN a[i] ELSE b[i - Len(a)]
OBVIOUS

\* Sequences are the same that have the same elements.
LEMMA SameSeq ==
  ASSUME NEW S, NEW a \in Seq(S), NEW b \in Seq(S), Len(a) = Len(b),
         \A i \in 1 .. Len(a) : a[i] = b[i]
  PROVE  a = b
OBVIOUS

\* Concatenation is associative.
LEMMA ConcatAssoc ==
  ASSUME NEW S, NEW a \in Seq(S), NEW b \in Seq(S), NEW c \in Seq(S)
  PROVE  (a \o b) \o c = a \o (b \o c)
<1>1. /\ a \o b \in Seq(S) /\ b \o c \in Seq(S)
      /\ Len(a) \in Nat /\ Len(b) \in Nat /\ Len(c) \in Nat
      /\ Len(a \o b) = Len(a) + Len(b) /\ Len(b \o c) = Len(b) + Len(c)
  BY Concat
<1>2. /\ (a \o b) \o c \in Seq(S) /\ a \o (b \o c) \in Seq(S)
      /\ Len((a \o b) \o c) = Len(a) + Len(b) + Len(c)
      /\ Len(a \o (b \o c)) = Len(a) + Len(b) + Len(c)
  BY <1>1, Concat
<1>3. ASSUME NEW i \in 1 .. Len(a) + Len(b) + Len(c)
      PROVE  ((a \o b) \o c)[i] = (a \o (b \o c))[i]
  <2>1. ((a \o b) \o c)[i] = IF i <= Len(a) + Len(b) THEN (a \o b)[i] ELSE c[i - (Len(a) + Len(b))]
    BY <1>1, Concat
  <2>2. (a \o (b \o c))[i] = IF i <= Len(a) THEN a[i] ELSE (b \o c)[i - Len(a)]
    BY <1>1, Concat
  <2>3. i <= Len(a) + Len(b) => (a \o b)[i] = IF i <= Len(a) THEN a[i] ELSE b[i - Len(a)]
    BY <1>1, Concat
  <2>4. i > Len(a) =>
          (b \o c)[i - Len(a)] = IF i - Len(a) <= Len(b) THEN b[i - Len(a)]
                                 ELSE c[i - Len(a) - Len(b)]
    BY <1>1, Concat
  <2>5. i - (Len(a) + Len(b)) = i - Len(a) - Len(b)
    BY <1>1
  <2> QED BY <1>1, <2>1, <2>2, <2>3, <2>4, <2>5
<1> QED BY <1>2, <1>3, SameSeq

\* That three sequences can be grouped either way, as one fact about them.
Grouped(a, b, c) == (a \o b) \o c = a \o (b \o c)

LEMMA GroupedAll ==
  ASSUME NEW S
  PROVE  \A a, b, c \in Seq(S) : Grouped(a, b, c)
BY ConcatAssoc DEF Grouped

\* The first of one sequence goes to the end of the one before it.
LEMMA HeadMoves ==
  ASSUME NEW S, NEW a \in Seq(S), NEW b \in Seq(S), b # << >>
  PROVE  /\ Append(a, Head(b)) \in Seq(S) /\ Tail(b) \in Seq(S)
         /\ Append(a, Head(b)) \o Tail(b) = a \o b
<1>1. /\ Append(a, Head(b)) \in Seq(S) /\ Tail(b) \in Seq(S)
      /\ Len(Append(a, Head(b))) = Len(a) + 1 /\ Len(Tail(b)) = Len(b) - 1
      /\ Len(a) \in Nat /\ Len(b) \in Nat \ {0}
  OBVIOUS
<1>2. /\ Len(Append(a, Head(b)) \o Tail(b)) = Len(a) + Len(b)
      /\ Append(a, Head(b)) \o Tail(b) \in Seq(S)
  BY <1>1, Concat
<1>3. ASSUME NEW i \in 1 .. Len(a) + Len(b)
      PROVE  (Append(a, Head(b)) \o Tail(b))[i] = (a \o b)[i]
  <2>1. (a \o b)[i] = IF i <= Len(a) THEN a[i] ELSE b[i - Len(a)]
    BY Concat
  <2>2. (Append(a, Head(b)) \o Tail(b))[i]
          = IF i <= Len(a) + 1 THEN Append(a, Head(b))[i] ELSE Tail(b)[i - (Len(a) + 1)]
    BY <1>1, Concat
  <2>3. CASE i <= Len(a)
    BY <1>1, <2>1, <2>2, <2>3
  <2>4. CASE i = Len(a) + 1
    BY <1>1, <2>1, <2>2, <2>4
  <2>5. CASE i > Len(a) + 1
    <3>1. Tail(b)[i - (Len(a) + 1)] = b[i - (Len(a) + 1) + 1]
      BY <1>1, <2>5
    <3>2. i - (Len(a) + 1) + 1 = i - Len(a)
      BY <1>1
    <3> QED BY <1>1, <2>1, <2>2, <2>5, <3>1, <3>2
  <2> QED BY <1>1, <2>3, <2>4, <2>5
<1> QED BY <1>1, <1>2, <1>3, Concat, SameSeq

\* What is added to the second is added to both.
LEMMA EndMoves ==
  ASSUME NEW S, NEW a \in Seq(S), NEW b \in Seq(S), NEW x \in S
  PROVE  a \o Append(b, x) = Append(a \o b, x)
<1>1. <<x>> \in Seq(S) /\ Append(b, x) = b \o <<x>> /\ Append(a \o b, x) = (a \o b) \o <<x>>
  BY Concat
<1>2. Grouped(a, b, <<x>>)
  BY <1>1, GroupedAll
<1>3. (a \o b) \o <<x>> = a \o (b \o <<x>>)
  BY <1>2, Zenon DEF Grouped
<1> QED BY <1>1, <1>3, Zenon

\* A key on its own.
One(x) == IF x = CON!Brk THEN << >> ELSE <<x>>

\* Two such functions agree where their sequences do.
LEMMA KeepsAgree ==
  ASSUME NEW s \in Seq(Int), NEW t \in Seq(Int), NEW f, NEW g, Keeps(s, f), Keeps(t, g),
         Len(s) <= Len(t), \A i \in 1 .. Len(s) : s[i] = t[i]
  PROVE  f[Len(s)] = g[Len(s)]
<1> DEFINE S == {n \in Nat : n <= Len(s) => f[n] = g[n]}
<1>1. 0 \in S
  BY DEF Keeps
<1>2. ASSUME NEW n \in Nat, n \in S PROVE n + 1 \in S
  <2>1. CASE n + 1 <= Len(s)
    <3>1. n + 1 \in 1 .. Len(s) /\ n + 1 \in 1 .. Len(t) /\ n + 1 - 1 = n /\ n <= Len(s)
      BY <2>1
    <3>2. f[n] = g[n] /\ s[n + 1] = t[n + 1]
      BY <1>2, <3>1
    <3>3. f[n + 1] = IF s[n + 1] = CON!Brk THEN f[n] ELSE Append(f[n], s[n + 1])
      BY <3>1 DEF Keeps
    <3>4. g[n + 1] = IF t[n + 1] = CON!Brk THEN g[n] ELSE Append(g[n], t[n + 1])
      BY <3>1 DEF Keeps
    <3> QED BY <3>2, <3>3, <3>4
  <2> QED BY <2>1
<1> HIDE DEF S
<1>3. Len(s) \in Nat
  OBVIOUS
<1>4. Len(s) \in S
  BY <1>1, <1>2, <1>3, Induct
<1> QED BY <1>3, <1>4 DEF S

\* What is left are keys.
LEMMA NoBreaksType ==
  ASSUME NEW s \in Seq(Int)
  PROVE  CON!NoBreaks(s) \in Seq(Int)
<1>0. PICK f : Keeps(s, f) /\ CON!NoBreaks(s) = f[Len(s)]
  BY KeepsExists
<1> DEFINE S == {n \in Nat : n <= Len(s) => f[n] \in Seq(Int)}
<1>1. 0 \in S
  <2>1. f[0] = << >>
    BY <1>0 DEF Keeps
  <2>2. << >> \in Seq(Int)
    OBVIOUS
  <2>3. f[0] \in Seq(Int)
    BY <2>1, <2>2, Zenon
  <2> QED BY <2>3
<1>2. ASSUME NEW n \in Nat, n \in S PROVE n + 1 \in S
  <2>1. CASE n + 1 <= Len(s)
    <3>1. n + 1 \in 1 .. Len(s) /\ n + 1 - 1 = n /\ n <= Len(s)
      BY <2>1
    <3>2. f[n] \in Seq(Int) /\ s[n + 1] \in Int
      BY <1>2, <3>1
    <3>3. f[n + 1] = IF s[n + 1] = CON!Brk THEN f[n] ELSE Append(f[n], s[n + 1])
      BY <1>0, <3>1 DEF Keeps
    <3>4. Append(f[n], s[n + 1]) \in Seq(Int)
      BY <3>2
    <3>5. f[n + 1] \in Seq(Int)
      BY <3>2, <3>3, <3>4, Zenon
    <3> QED BY <3>5
  <2> QED BY <2>1
<1> HIDE DEF S
<1>3. Len(s) \in Nat
  OBVIOUS
<1>4. Len(s) \in S
  BY <1>1, <1>2, <1>3, Induct
<1> QED BY <1>0, <1>3, <1>4 DEF S

\* A key at the end.
LEMMA NoBreaksAppend ==
  ASSUME NEW s \in Seq(Int), NEW x \in Int
  PROVE  CON!NoBreaks(Append(s, x)) = CON!NoBreaks(s) \o One(x)
<1> DEFINE t == Append(s, x)
<1>1. /\ t \in Seq(Int) /\ Len(s) \in Nat /\ Len(t) = Len(s) + 1 /\ t[Len(s) + 1] = x
      /\ \A i \in 1 .. Len(s) : s[i] = t[i]
  OBVIOUS
<1> HIDE DEF t
<1>2. PICK f : Keeps(s, f) /\ CON!NoBreaks(s) = f[Len(s)]
  BY KeepsExists
<1>3. PICK g : Keeps(t, g) /\ CON!NoBreaks(t) = g[Len(t)]
  BY <1>1, KeepsExists
<1>4. f[Len(s)] = g[Len(s)]
  BY <1>1, <1>2, <1>3, KeepsAgree
<1>5. Len(s) + 1 \in 1 .. Len(t) /\ Len(s) + 1 - 1 = Len(s)
  BY <1>1
<1>6. g[Len(s) + 1] = IF x = CON!Brk THEN g[Len(s)] ELSE Append(g[Len(s)], x)
  BY <1>1, <1>3, <1>5 DEF Keeps
<1>7. f[Len(s)] \in Seq(Int)
  BY <1>2, NoBreaksType
<1>8. CASE x = CON!Brk
  <2>1. f[Len(s)] \o << >> = f[Len(s)]
    BY <1>7
  <2> QED BY <1>1, <1>2, <1>3, <1>4, <1>6, <1>8, <2>1 DEF One, t
<1>9. CASE x # CON!Brk
  <2>1. f[Len(s)] \o <<x>> = Append(f[Len(s)], x)
    BY <1>7
  <2> QED BY <1>1, <1>2, <1>3, <1>4, <1>6, <1>9, <2>1 DEF One, t
<1> QED BY <1>8, <1>9

\* A key at the front.
LEMMA NoBreaksHead ==
  ASSUME NEW s \in Seq(Int), s # << >>
  PROVE  CON!NoBreaks(s) = One(Head(s)) \o CON!NoBreaks(Tail(s))
<1> DEFINE t == Tail(s)
           a == One(Head(s))
<1>1. /\ t \in Seq(Int) /\ Len(s) \in Nat /\ Len(t) \in Nat /\ Len(s) = Len(t) + 1
      /\ s[1] = Head(s) /\ Head(s) \in Int
      /\ \A i \in 1 .. Len(t) : t[i] = s[i + 1]
  OBVIOUS
<1>2. a \in Seq(Int)
  BY <1>1 DEF One
<1>3. PICK f : Keeps(s, f) /\ CON!NoBreaks(s) = f[Len(s)]
  BY KeepsExists
<1>4. PICK g : Keeps(t, g) /\ CON!NoBreaks(t) = g[Len(t)]
  BY <1>1, KeepsExists
<1> HIDE DEF t, a
<1>9. ASSUME NEW b \in Seq(Int), NEW x \in Int PROVE a \o Append(b, x) = Append(a \o b, x)
  BY <1>2, EndMoves
<1> DEFINE Q(n) == g[n] \in Seq(Int) /\ f[n + 1] = a \o g[n]
           S == {n \in Nat : n <= Len(t) => Q(n)}
<1>5. 0 \in S
  <2>1. g[0] = << >> /\ f[0] = << >>
    BY <1>3, <1>4 DEF Keeps
  <2>2. 1 \in 1 .. Len(s) /\ 1 - 1 = 0
    BY <1>1
  <2>3. f[1] = IF s[1] = CON!Brk THEN f[0] ELSE Append(f[0], s[1])
    BY <1>3, <2>2 DEF Keeps
  <2>4. f[1] = a
    BY <1>1, <2>1, <2>3 DEF One, a
  <2>5. a \o << >> = a
    BY <1>2
  <2>6. g[0] \in Seq(Int) /\ f[0 + 1] = a \o g[0]
    BY <2>1, <2>4, <2>5
  <2>7. Q(0)
    BY <2>6
  <2> HIDE DEF Q
  <2> QED BY <2>7
<1>6. ASSUME NEW n \in Nat, n \in S PROVE n + 1 \in S
  <2>1. CASE n + 1 <= Len(t)
    <3>1. /\ n + 1 \in 1 .. Len(t) /\ n + 1 - 1 = n /\ n <= Len(t)
          /\ n + 2 \in 1 .. Len(s) /\ n + 2 - 1 = n + 1 /\ n + 1 + 1 = n + 2
      BY <1>1, <2>1
    <3>0. g[n] \in Seq(Int) /\ f[n + 1] = a \o g[n]
      <4>1. Q(n)
        <5> HIDE DEF Q
        <5> QED BY <1>6, <3>1
      <4> QED BY <4>1
    <3>9. t[n + 1] = s[n + 1 + 1] /\ t[n + 1] \in Int
      BY <1>1, <3>1
    <3>2. g[n] \in Seq(Int) /\ f[n + 1] = a \o g[n] /\ t[n + 1] = s[n + 2] /\ t[n + 1] \in Int
      BY <3>0, <3>1, <3>9
    <3>3. g[n + 1] = IF t[n + 1] = CON!Brk THEN g[n] ELSE Append(g[n], t[n + 1])
      BY <1>4, <3>1 DEF Keeps
    <3>4. f[n + 2] = IF s[n + 2] = CON!Brk THEN f[n + 1] ELSE Append(f[n + 1], s[n + 2])
      BY <1>3, <3>1 DEF Keeps
    <3>5. a \o Append(g[n], t[n + 1]) = Append(a \o g[n], t[n + 1])
      BY <1>9, <3>2
    <3>6. Append(g[n], t[n + 1]) \in Seq(Int)
      BY <3>2
    <3>7. g[n + 1] \in Seq(Int)
      BY <3>2, <3>3, <3>6
    <3>8. f[n + 2] = a \o g[n + 1]
      BY <3>2, <3>3, <3>4, <3>5
    <3>10. f[n + 1 + 1] = a \o g[n + 1]
      BY <3>1, <3>8
    <3>11. Q(n + 1)
      BY <3>7, <3>10
    <3> HIDE DEF Q
    <3> QED BY <3>11
  <2> QED BY <2>1
<1> HIDE DEF S
<1>7. Len(t) \in S
  BY <1>1, <1>5, <1>6, Induct
<1>8. f[Len(t) + 1] = a \o g[Len(t)]
  BY <1>1, <1>7 DEF S
<1> QED BY <1>1, <1>3, <1>4, <1>8 DEF t, a

-----------------------------------------------------------------------------
(* The console: its invariant                                              *)

ConType ==
  /\ \E S : wire \in Seq(S) /\ txq \in Seq(S) /\ given \in Seq(S)
  /\ rxq \in Seq(Int) /\ keys \in Seq(Int) /\ typed \in Seq(Int)

\* The device chosen is one of the board's.
KindInv == table \in Tables /\ chosen[0] \in 0 .. Len(table)

\* All that was written has been sent or is in the transmitter, for an
\* stm32mp2 perhaps without the character the loader left.
Whole ==
  \/ wire \o txq = given
  \/ CON!Kind = "stm32mp2" /\ given # << >> /\ wire \o txq = Tail(given)

\* Before the UART is set up there is at most that character. No driver stops
\* it during start-up, and as long as none does the UART is enabled, and a
\* transmitter that was ready stays so until the character is written.
OutInv ==
  /\ conPc \in {"select", "parse", "init"} => wire \o txq = given /\ Len(given) <= 1
  /\ conPc \in {"select", "parse", "init", "print"} => ~ stops
  /\ ~ stops => up
  /\ ~ stops /\ CON!Kind # "linflexd" => Whole
  /\ ~ stops /\ conPc = "write" => CON!TxReady

InInv ==
  CON!NoBreaks(keys) \o CON!NoBreaks(rxq) \o CON!NoBreaks(typed) = CON!NoBreaks(Keys)

ConInv == ConType /\ KindInv /\ OutInv /\ InInv

\* A sequence over a set is one over a larger set.
LEMMA SeqGrows ==
  ASSUME NEW S, NEW T, S \subseteq T, NEW s \in Seq(S)
  PROVE  s \in Seq(T)
OBVIOUS

\* The kinds of devices: the one chosen has a driver.
LEMMA KindIs ==
  ASSUME KindInv
  PROVE  CON!Kind \in CON!Kinds
<1>1. CASE chosen[0] = 0
  BY <1>1 DEF CON!Kind, CON!Kinds
<1>2. CASE chosen[0] # 0
  <2>1. Len(table) \in Nat /\ \A i \in 1 .. Len(table) : table[i].kind \in CON!Kinds
    BY ConsoleAssumption DEF KindInv
  <2>2. chosen[0] \in 1 .. Len(table)
    BY <1>2, <2>1 DEF KindInv
  <2> QED BY <1>2, <2>1, <2>2 DEF CON!Kind
<1> QED BY <1>1, <1>2

\* select_one() finds one of the board's devices, or none.
LEMMA SelectIs ==
  ASSUME table \in Tables, NEW c
  PROVE  CON!SelectOne(c)[1] \in 0 .. Len(table)
<1> DEFINE devs    == {i \in 1 .. Len(table) : table[i].defaults[c + 1] # CON!Null}
           named   == {i \in devs : table[i].name = opt[c].name}
           default == {i \in devs : table[i].defaults[c + 1] # << >>}
<1>1. Len(table) \in Nat
  BY ConsoleAssumption
<1>2. ASSUME NEW D \in SUBSET (1 .. Len(table)), D # {} PROVE CON!Min(D) \in 0 .. Len(table)
  <2>1. MSI!Min(D) \in D
    BY <1>1, <1>2, LeastIn
  <2>2. CON!Min(D) \in D
    BY <2>1, Zenon DEF CON!Min, MSI!Min
  <2>3. \A x \in D : x \in 0 .. Len(table)
    BY <1>1
  <2> QED BY <2>2, <2>3, Zenon
<1>3. devs \in SUBSET (1 .. Len(table)) /\ named \in SUBSET (1 .. Len(table))
      /\ default \in SUBSET (1 .. Len(table))
  OBVIOUS
<1>4. CON!SelectOne(c) =
        IF ~ opt[c].given THEN (IF devs = {} THEN <<0, <<>>>> ELSE <<CON!Min(devs), <<>>>>)
        ELSE IF named # {} THEN <<CON!Min(named), opt[c].line>>
        ELSE IF default # {} THEN <<CON!Min(default), CON!Whole(opt[c])>>
        ELSE <<0, <<>>>>
  BY DEF CON!SelectOne
<1> HIDE DEF devs, named, default
<1>5. 0 \in 0 .. Len(table)
  BY <1>1
<1>6. CON!SelectOne(c)[1] \in {0} \cup {CON!Min(D) : D \in {E \in {devs, named, default} : E # {}}}
  BY <1>4
<1> QED BY <1>2, <1>3, <1>5, <1>6

\* The end and the front of a sequence.
LEMMA TailAppend ==
  ASSUME NEW S, NEW s \in Seq(S), s # << >>, NEW x \in S
  PROVE  Tail(Append(s, x)) = Append(Tail(s), x)
<1>1. /\ Append(s, x) \in Seq(S) /\ Tail(s) \in Seq(S) /\ Len(s) \in Nat \ {0}
      /\ Len(Append(s, x)) = Len(s) + 1 /\ Len(Tail(s)) = Len(s) - 1
  OBVIOUS
<1>2. /\ Tail(Append(s, x)) \in Seq(S) /\ Len(Tail(Append(s, x))) = Len(s)
      /\ Append(Tail(s), x) \in Seq(S) /\ Len(Append(Tail(s), x)) = Len(s)
  <2>1. Append(s, x) # << >>
    BY <1>1
  <2>2. Tail(Append(s, x)) \in Seq(S) /\ Len(Tail(Append(s, x))) = Len(Append(s, x)) - 1
    BY <1>1, <2>1
  <2>3. Append(Tail(s), x) \in Seq(S) /\ Len(Append(Tail(s), x)) = Len(Tail(s)) + 1
    BY <1>1
  <2> QED BY <1>1, <2>2, <2>3
<1>4. ASSUME NEW q \in Seq(S), NEW j \in 1 .. Len(q) PROVE Append(q, x)[j] = q[j]
  OBVIOUS
<1>5. Len(s) \in Nat
  OBVIOUS
<1>3. ASSUME NEW i \in 1 .. Len(s)
      PROVE  Tail(Append(s, x))[i] = Append(Tail(s), x)[i]
  <2>5. i \in Nat /\ 1 <= i /\ i <= Len(s)
    OBVIOUS
  <2>1. Tail(Append(s, x))[i] = Append(s, x)[i + 1]
    BY <1>1, <1>2
  <2>2. CASE i < Len(s)
    <3>1. Append(s, x)[i + 1] = s[i + 1] /\ Tail(s)[i] = s[i + 1]
      BY <1>1, <2>2
    <3>3. i \in 1 .. Len(Tail(s))
      BY <1>1, <2>2, <2>5
    <3>2. Append(Tail(s), x)[i] = Tail(s)[i]
      BY <1>1, <1>4, <3>3, Zenon
    <3> QED BY <2>1, <3>1, <3>2
  <2>3. CASE i = Len(s)
    <3>1. Append(s, x)[i + 1] = x
      BY <1>1, <2>3
    <3>2. Append(Tail(s), x)[i] = x
      BY <1>1, <2>3
    <3> QED BY <2>1, <3>1, <3>2
  <2>4. i < Len(s) \/ i = Len(s)
    BY <1>5, <2>5
  <2> QED BY <2>2, <2>3, <2>4, Zenon
<1> QED BY <1>2, <1>3, SameSeq

\* Writing to a transmitter that is ready.
LEMMA WriteDoes ==
  ASSUME ConType, Whole, NEW c, CON!Write(c), CON!TxReady, CON!Kind' = CON!Kind
  PROVE  /\ \E S : wire' \in Seq(S) /\ txq' \in Seq(S) /\ given' \in Seq(S)
         /\ Whole'
<1>1. PICK S : wire \in Seq(S) /\ txq \in Seq(S) /\ given \in Seq(S)
  BY DEF ConType
<1> DEFINE T == S \cup {c}
<1>2. wire \in Seq(T) /\ txq \in Seq(T) /\ given \in Seq(T) /\ c \in T
  BY <1>1, SeqGrows
<1> HIDE DEF T
<1>3. wire' = wire /\ txq' = Append(txq, c) /\ given' = Append(given, c)
  BY DEF CON!Write
<1>4. wire' \in Seq(T) /\ txq' \in Seq(T) /\ given' \in Seq(T)
  BY <1>2, <1>3
<1>5. wire' \o txq' = Append(wire \o txq, c)
  BY <1>2, <1>3, EndMoves
<1>6. ASSUME wire \o txq = given PROVE Whole'
  <2>1. wire' \o txq' = given'
    BY <1>3, <1>5, <1>6, Zenon
  <2> QED BY <2>1 DEF Whole
<1>7. ASSUME CON!Kind = "stm32mp2", given # << >>, wire \o txq = Tail(given) PROVE Whole'
  <2>1. Append(Tail(given), c) = Tail(given')
    BY <1>2, <1>3, <1>7, TailAppend
  <2>2. given' # << >>
    BY <1>2, <1>3
  <2>3. wire' \o txq' = Tail(given')
    BY <1>5, <1>7, <2>1, Zenon
  <2> QED BY <1>7, <2>2, <2>3 DEF Whole
<1>8. Whole'
  BY <1>6, <1>7, Zenon DEF Whole
<1> QED BY <1>4, <1>8

\* The transmitter sends.
LEMMA SendDoes ==
  ASSUME ConInv, CON!Send
  PROVE  ConInv'
<1>1. PICK S : wire \in Seq(S) /\ txq \in Seq(S) /\ given \in Seq(S)
  BY DEF ConInv, ConType
<1>2. /\ up /\ txq # << >> /\ wire' = Append(wire, Head(txq)) /\ txq' = Tail(txq)
      /\ given' = given /\ table' = table /\ chosen' = chosen /\ stops' = stops /\ up' = up
      /\ conPc' = conPc /\ rxq' = rxq /\ keys' = keys /\ typed' = typed
  BY DEF CON!Send, CON!keyVars
<1>3. wire' \in Seq(S) /\ txq' \in Seq(S) /\ wire' \o txq' = wire \o txq
  BY <1>1, <1>2, HeadMoves
<1>4. ConType'
  BY <1>1, <1>2, <1>3 DEF ConInv, ConType
<1>5. KindInv'
  BY <1>2 DEF ConInv, KindInv
<1>6. CON!Kind' = CON!Kind
  BY <1>2 DEF CON!Kind
<1>7. CON!TxReady => CON!TxReady'
  <2>1. Len(txq') = Len(txq) - 1 /\ Len(txq) \in Nat
    BY <1>1, <1>2
  <2> QED BY <1>2, <2>1, ConsoleAssumption DEF CON!TxReady
<1>8. OutInv'
  BY <1>2, <1>3, <1>6, <1>7 DEF ConInv, OutInv, Whole
<1>9. InInv'
  BY <1>2 DEF ConInv, InInv
<1> QED BY <1>4, <1>5, <1>8, <1>9 DEF ConInv

\* What most steps leave alone.
Quiet == UNCHANGED <<table, chosen, wire, txq, given, up, stops>>

\* They keep the invariant.
LEMMA QuietDoes ==
  ASSUME ConInv, Quiet, rxq' = rxq, keys' = keys, typed' = typed,
         conPc' \in {"select", "parse", "init"} => conPc \in {"select", "parse", "init"},
         conPc' = "print" => conPc = "print",
         conPc' = "write" => conPc = "write" \/ CON!TxReady
  PROVE  ConInv'
<1>1. ConType'
  BY DEF ConInv, ConType, Quiet
<1>2. KindInv' /\ CON!Kind' = CON!Kind /\ (CON!TxReady => CON!TxReady')
  BY DEF ConInv, KindInv, Quiet, CON!Kind, CON!TxReady
<1>3. OutInv'
  BY <1>2 DEF ConInv, OutInv, Whole, Quiet
<1>4. InInv'
  BY DEF ConInv, InInv
<1> QED BY <1>1, <1>2, <1>3, <1>4 DEF ConInv

\* A write of the CPU to the transmitter.
LEMMA WriteStep ==
  ASSUME ConInv, NEW c, CON!Write(c), ~ stops /\ CON!Kind # "linflexd" => CON!TxReady,
         UNCHANGED <<table, chosen, up, stops, rxq, keys, typed>>,
         conPc' \notin {"select", "parse", "init", "write"}, conPc' = "print" => conPc = "print"
  PROVE  ConInv'
<1>1. CON!Kind' = CON!Kind
  BY DEF CON!Kind
<1>2. PICK S : wire \in Seq(S) /\ txq \in Seq(S) /\ given \in Seq(S)
  BY DEF ConInv, ConType
<1> DEFINE T == S \cup {c}
<1>3. wire \in Seq(T) /\ txq \in Seq(T) /\ given \in Seq(T) /\ c \in T
  BY <1>2, SeqGrows
<1> HIDE DEF T
<1>4. wire' = wire /\ (txq' = Append(txq, c) \/ txq' = txq) /\ given' = Append(given, c)
  BY DEF CON!Write
<1>5. wire' \in Seq(T) /\ txq' \in Seq(T) /\ given' \in Seq(T)
  BY <1>3, <1>4
<1>6. ConType' /\ KindInv' /\ InInv'
  BY <1>5 DEF ConInv, ConType, KindInv, InInv
<1>7. ~ stops /\ CON!Kind # "linflexd" => Whole'
  BY <1>1, WriteDoes DEF ConInv, OutInv
<1>8. OutInv'
  BY <1>1, <1>7 DEF ConInv, OutInv
<1> QED BY <1>6, <1>8 DEF ConInv

\* The choice of the device.
LEMMA SelectDoes ==
  ASSUME ConInv, CON!Select
  PROVE  ConInv'
<1>1. /\ conPc = "select" /\ conPc' = "parse" /\ table' = table
      /\ UNCHANGED <<wire, txq, given, up, stops, rxq, keys, typed>>
  BY DEF CON!Select, CON!uart, CON!keyVars
<1>2. chosen'[0] \in 0 .. Len(table)
  <2>1. PICK sel \in {[c \in CON!Channels |-> IF c = 0 \/ opt[1].given THEN CON!SelectOne(c)
                                              ELSE <<0, <<>>>>]} :
          chosen' = [c \in CON!Channels |-> sel[c][1]]
    BY Zenon DEF CON!Select
  <2>2. 0 \in CON!Channels
    BY DEF CON!Channels
  <2>3. sel[0] = CON!SelectOne(0)
    BY <2>2
  <2>4. chosen'[0] = CON!SelectOne(0)[1]
    BY <2>1, <2>2, <2>3
  <2> QED BY <2>4, SelectIs DEF ConInv, KindInv
<1>3. ConType' /\ InInv'
  BY <1>1 DEF ConInv, ConType, InInv
<1>4. KindInv'
  BY <1>1, <1>2 DEF ConInv, KindInv
<1>5. OutInv'
  BY <1>1 DEF ConInv, OutInv, Whole
<1> QED BY <1>3, <1>4, <1>5 DEF ConInv

\* Which drivers disable the UART, and wait for what the loader left before.
LEMMA DriverIs ==
  ASSUME CON!Kind \in CON!Kinds, CON!Driver.disables
  PROVE  CON!Kind = "stm32mp2" \/ (CON!Kind = "pl011" /\ CON!Driver.waits)
<1>1. CASE CON!Kind = "stm32mp2"
  BY <1>1
<1>2. CASE CON!Kind = "pl011"
  <2>1. CON!Driver = CON!init_pl011
    BY <1>2 DEF CON!Driver
  <2> QED BY <1>2, <2>1 DEF CON!init_pl011, CON!LeftAlone, CON!Setup
<1>3. CASE CON!Kind \in {"8250", "8250_pci"}
  <2>1. CON!Driver = CON!init_8250_common
    BY <1>3 DEF CON!Driver
  <2> QED BY <2>1 DEF CON!init_8250_common, CON!LeftAlone, CON!Setup
<1>4. CASE CON!Kind = "8250_32b"
  <2>1. CON!Driver = CON!init_8250_32b
    BY <1>4 DEF CON!Driver
  <2> QED BY <2>1 DEF CON!init_8250_32b, CON!LeftAlone, CON!Setup
<1>5. CASE CON!Kind = "linflexd"
  <2>1. CON!Driver = CON!init_linflexd
    BY <1>5 DEF CON!Driver
  <2> QED BY <2>1 DEF CON!init_linflexd, CON!LeftAlone, CON!Setup
<1>6. CASE CON!Kind \in {"tegra", "dummy"}
  <2>1. CON!Driver = CON!init_dummy
    BY <1>6 DEF CON!Driver
  <2> QED BY <2>1 DEF CON!init_dummy, CON!LeftAlone, CON!Setup
<1> QED BY <1>1, <1>2, <1>3, <1>4, <1>5, <1>6 DEF CON!Kinds

\* Sequences of none and of one.
LEMMA Short ==
  ASSUME NEW S, NEW s \in Seq(S)
  PROVE  /\ Len(s) = 0 => s = << >>
         /\ Len(s) = 1 => s # << >> /\ Tail(s) = << >>
<1>1. Len(s) = 0 => s = << >>
  OBVIOUS
<1>2. ASSUME Len(s) = 1 PROVE s # << >> /\ Tail(s) = << >>
  <2>1. s # << >>
    BY <1>2
  <2>2. Tail(s) \in Seq(S) /\ Len(Tail(s)) = Len(s) - 1
    BY <2>1
  <2>3. Len(Tail(s)) = 0
    BY <1>2, <2>2
  <2>4. ASSUME NEW q \in Seq(S), Len(q) = 0 PROVE q = << >>
    BY <2>4
  <2> QED BY <2>1, <2>2, <2>3, <2>4
<1> QED BY <1>1, <1>2

\* The set-up of the UART.
LEMMA ProgramDoes ==
  ASSUME ConInv, CON!Program
  PROVE  ConInv'
<1>1. /\ conPc = "init" /\ conPc' \in {"crash", "print"}
      /\ UNCHANGED <<table, chosen, wire, given, up, stops, rxq, keys, typed>>
  BY DEF CON!Program, CON!uart, CON!keyVars
<1>2. CON!Kind' = CON!Kind
  BY <1>1 DEF CON!Kind
<1>3. wire \o txq = given /\ Len(given) <= 1
  BY <1>1 DEF ConInv, OutInv
<1>4. PICK S : wire \in Seq(S) /\ txq \in Seq(S) /\ given \in Seq(S)
  BY DEF ConInv, ConType
<1>5. txq' = txq \/ (txq' = << >> /\ CON!Driver.disables /\ (CON!Driver.waits => txq = << >>))
  BY DEF CON!Program, CON!uart
<1>6. txq' \in Seq(S)
  <2>1. << >> \in Seq(S)
    OBVIOUS
  <2> QED BY <1>4, <1>5, <2>1, Zenon
<1>7. ConType' /\ KindInv' /\ InInv'
  BY <1>1, <1>4, <1>6 DEF ConInv, ConType, KindInv, InInv
<1>8. Whole'
  <2>1. CASE txq' = txq
    BY <1>1, <1>3, <2>1 DEF Whole
  <2>2. CASE txq' = << >> /\ txq # << >> /\ CON!Kind = "stm32mp2"
    <3>1. Len(wire) \in Nat /\ Len(txq) \in Nat \ {0} /\ Len(wire) + Len(txq) = Len(given)
      BY <1>3, <1>4, <2>2, Concat
    <3>2. Len(wire) = 0 /\ Len(given) = 1
      BY <1>3, <3>1
    <3>3. wire = << >> /\ given # << >> /\ Tail(given) = << >>
      BY <1>4, <3>2, Short
    <3>4. wire \o << >> = << >>
      BY <3>3
    <3> QED BY <1>1, <1>2, <2>2, <3>3, <3>4 DEF Whole
  <2>3. CON!Driver.disables => CON!Kind = "stm32mp2" \/ (CON!Kind = "pl011" /\ CON!Driver.waits)
    BY KindIs, DriverIs DEF ConInv
  <2> QED BY <1>5, <2>1, <2>2, <2>3
<1>9. OutInv'
  BY <1>1, <1>2, <1>8 DEF ConInv, OutInv
<1> QED BY <1>7, <1>9 DEF ConInv

\* What comes from the keyboard to the receiver and to the kernel.
LEMMA KeysDo ==
  ASSUME ConInv, CON!Type \/ CON!PollKey \/ CON!BreakDetect
  PROVE  ConInv'
<1>0. /\ rxq \in Seq(Int) /\ keys \in Seq(Int) /\ typed \in Seq(Int)
      /\ CON!NoBreaks(rxq) \in Seq(Int) /\ CON!NoBreaks(keys) \in Seq(Int)
      /\ CON!NoBreaks(typed) \in Seq(Int)
  BY NoBreaksType DEF ConInv, ConType
<1>g. \A a, b, c \in Seq(Int) : Grouped(a, b, c)
  BY GroupedAll
<1>b. CON!Kind \in CON!Kinds
  BY KindIs DEF ConInv
<1>1. UNCHANGED <<table, chosen, wire, txq, given, up, stops, conPc>>
  BY DEF CON!Type, CON!PollKey, CON!BreakDetect, CON!uart
<1>2. KindInv' /\ CON!Kind' = CON!Kind /\ (CON!TxReady => CON!TxReady')
  BY <1>1 DEF ConInv, KindInv, CON!Kind, CON!TxReady
<1>3. OutInv'
  BY <1>1, <1>2 DEF ConInv, OutInv, Whole
\* A key that goes from the front of one sequence to the end of another.
<1>4. ASSUME NEW a \in Seq(Int), NEW b \in Seq(Int), b # << >>
      PROVE  CON!NoBreaks(Append(a, Head(b))) \o CON!NoBreaks(Tail(b))
               = CON!NoBreaks(a) \o CON!NoBreaks(b)
  <2>1. Head(b) \in Int /\ Tail(b) \in Seq(Int)
    BY <1>4
  <2>2. One(Head(b)) \in Seq(Int)
    BY <2>1 DEF One
  <2>3. CON!NoBreaks(a) \in Seq(Int) /\ CON!NoBreaks(Tail(b)) \in Seq(Int)
    BY <2>1, NoBreaksType
  <2>4. CON!NoBreaks(Append(a, Head(b))) = CON!NoBreaks(a) \o One(Head(b))
    BY <2>1, NoBreaksAppend
  <2>5. CON!NoBreaks(b) = One(Head(b)) \o CON!NoBreaks(Tail(b))
    BY <1>4, NoBreaksHead
  <2>6. (CON!NoBreaks(a) \o One(Head(b))) \o CON!NoBreaks(Tail(b))
          = CON!NoBreaks(a) \o (One(Head(b)) \o CON!NoBreaks(Tail(b)))
    <3>1. Grouped(CON!NoBreaks(a), One(Head(b)), CON!NoBreaks(Tail(b)))
      BY <1>g, <2>2, <2>3, Zenon
    <3> QED BY <3>1, Zenon DEF Grouped
  <2> QED BY <2>4, <2>5, <2>6, Zenon
<1>5. ASSUME NEW a \in Seq(Int), NEW b \in Seq(Int), b # << >>
      PROVE  Append(a, Head(b)) \in Seq(Int) /\ Tail(b) \in Seq(Int)
  BY <1>5, HeadMoves
<1>6. (CON!NoBreaks(keys) \o CON!NoBreaks(rxq)) \o CON!NoBreaks(typed)
        = CON!NoBreaks(keys) \o (CON!NoBreaks(rxq) \o CON!NoBreaks(typed))
  <2>1. Grouped(CON!NoBreaks(keys), CON!NoBreaks(rxq), CON!NoBreaks(typed))
    BY <1>0, <1>g, Zenon
  <2> QED BY <2>1, Zenon DEF Grouped
<1>7. CASE CON!Type
  <2>1. /\ typed # << >> /\ rxq' = Append(rxq, Head(typed)) /\ typed' = Tail(typed)
        /\ keys' = keys
    BY <1>7 DEF CON!Type
  <2>2. rxq' \in Seq(Int) /\ typed' \in Seq(Int)
    BY <1>0, <1>5, <2>1
  <2>3. CON!NoBreaks(rxq') \in Seq(Int) /\ CON!NoBreaks(typed') \in Seq(Int)
    BY <2>2, NoBreaksType
  <2>4. CON!NoBreaks(rxq') \o CON!NoBreaks(typed') = CON!NoBreaks(rxq) \o CON!NoBreaks(typed)
    BY <1>0, <1>4, <2>1, Zenon
  <2>5. (CON!NoBreaks(keys) \o CON!NoBreaks(rxq')) \o CON!NoBreaks(typed')
          = CON!NoBreaks(keys) \o (CON!NoBreaks(rxq') \o CON!NoBreaks(typed'))
    <3>1. Grouped(CON!NoBreaks(keys), CON!NoBreaks(rxq'), CON!NoBreaks(typed'))
      BY <1>0, <1>g, <2>3, Zenon
    <3> QED BY <3>1, Zenon DEF Grouped
  <2>6. InInv'
    BY <1>6, <2>1, <2>4, <2>5, Zenon DEF ConInv, InInv
  <2>7. ConType'
    BY <1>0, <1>1, <2>1, <2>2 DEF ConInv, ConType
  <2> QED BY <1>2, <1>3, <2>6, <2>7 DEF ConInv
<1>8. CASE CON!PollKey
  <2>0. rxq # << >>
    BY <1>8, <1>b DEF CON!Kinds, CON!PollKey, CON!KeyReady, CON!Received, CON!stm32mp2_uart_poll_key, CON!poll_key_8250,
                CON!poll_key_8250_32b, CON!poll_key_linflexd, CON!poll_key_pl011, CON!poll_key_tegra,
                CON!poll_key_dummy
  <2>1. keys' = Append(keys, Head(rxq)) /\ rxq' = Tail(rxq) /\ typed' = typed
    BY <1>8 DEF CON!PollKey
  <2>2. keys' \in Seq(Int) /\ rxq' \in Seq(Int)
    BY <1>0, <1>5, <2>0, <2>1
  <2>3. CON!NoBreaks(keys') \o CON!NoBreaks(rxq') = CON!NoBreaks(keys) \o CON!NoBreaks(rxq)
    BY <1>0, <1>4, <2>0, <2>1, Zenon
  <2>4. InInv'
    BY <2>1, <2>3, Zenon DEF ConInv, InInv
  <2>5. ConType'
    BY <1>0, <1>1, <2>1, <2>2 DEF ConInv, ConType
  <2> QED BY <1>2, <1>3, <2>4, <2>5 DEF ConInv
<1>9. CASE CON!BreakDetect
  <2>0. rxq # << >> /\ Head(rxq) = CON!Brk
    BY <1>9, <1>b DEF CON!Kinds, CON!BreakDetect, CON!Eats, CON!IsBreak, CON!break_detect_8250, CON!break_detect_8250_32b,
                CON!break_detect_linflexd, CON!break_detect_pl011, CON!break_detect_tegra,
                CON!break_detect_dummy, CON!stm32mp2_uart_break_detect
  <2>1. keys' = keys /\ rxq' = Tail(rxq) /\ typed' = typed
    BY <1>9 DEF CON!BreakDetect
  <2>2. rxq' \in Seq(Int)
    BY <1>0, <1>5, <2>0, <2>1
  <2>3. CON!NoBreaks(rxq) = << >> \o CON!NoBreaks(rxq')
    BY <1>0, <2>0, <2>1, NoBreaksHead DEF One
  <2>4. CON!NoBreaks(rxq') \in Seq(Int)
    BY <2>2, NoBreaksType
  <2>5. ASSUME NEW q \in Seq(Int) PROVE << >> \o q = q
    OBVIOUS
  <2>6. CON!NoBreaks(rxq) = CON!NoBreaks(rxq')
    BY <2>3, <2>4, <2>5
  <2>7. InInv'
    BY <2>1, <2>6, Zenon DEF ConInv, InInv
  <2>8. ConType'
    BY <1>0, <1>1, <2>1, <2>2 DEF ConInv, ConType
  <2> QED BY <1>2, <1>3, <2>7, <2>8 DEF ConInv
<1> QED BY <1>7, <1>8, <1>9

\* The kernel's display_char() of each kind but the linflexd's waits before
\* it writes, or does not write.
LEMMA DisplayIs ==
  ASSUME CON!Kind \in CON!Kinds, CON!Kind # "linflexd"
  PROVE  CON!Display.when \in {"never", "before"}
BY DEF CON!Kinds, CON!Display, CON!display_char_stm32mp2, CON!display_char_8250,
       CON!display_char_8250_32b, CON!display_char_tegra, CON!display_char_pl011,
       CON!display_char_dummy, CON!NoWait, CON!WaitBefore

\* A character for the transmitter.
LEMMA PrintDoes ==
  ASSUME ConInv, CON!Put
  PROVE  ConInv'
<1>1. /\ conPc = "print" /\ conPc' = conPc
      /\ UNCHANGED <<table, chosen, up, stops, rxq, keys, typed>>
  BY DEF CON!Put, CON!keyVars
<1>2. CASE CON!Kind = "dummy"
  <2>1. UNCHANGED <<wire, txq, given>>
    BY <1>2 DEF CON!Put, CON!uart
  <2> QED BY <1>1, <2>1, QuietDoes DEF Quiet
<1>3. CASE CON!Kind # "dummy"
  <2>1. CON!PutReady /\ CON!Write(Head(todo))
    BY <1>3 DEF CON!Put
  <2>2. CON!TxReady
    BY <2>1 DEF CON!PutReady, CON!put_8250, CON!put_8250_32b, CON!put_pl011, CON!put_linflexd,
                CON!stm32mp2_uart_put_char
  <2> QED BY <1>1, <2>1, <2>2, WriteStep
<1> QED BY <1>2, <1>3

\* display_char() of each kind, begun, polling and done.
LEMMA DisplayDoes ==
  ASSUME ConInv, CON!DisplayChar \/ CON!Poll \/ CON!WriteChar \/ CON!PollAfter
  PROVE  ConInv'
<1>1. UNCHANGED <<table, chosen, up, stops, rxq, keys, typed>>
  BY DEF CON!DisplayChar, CON!Poll, CON!WriteChar, CON!PollAfter, CON!calloutFrame, CON!keyVars
<1>2. CASE CON!DisplayChar
  <2>0. conPc = "kernel"
    BY <1>2 DEF CON!DisplayChar
  <2>1. CASE CON!Kind # "linflexd"
    <3>1. CON!Display.when \in {"never", "before"}
      BY <2>1, KindIs, DisplayIs DEF ConInv
    <3>2. UNCHANGED <<wire, txq, given>> /\ conPc' \in {"kernel", "poll"}
      BY <1>2, <2>0, <3>1 DEF CON!DisplayChar, CON!uart
    <3> QED BY <1>1, <3>2, QuietDoes DEF Quiet
  <2>2. CASE CON!Kind = "linflexd"
    <3>1. CON!Display.when = "after"
      BY <2>2 DEF CON!Display, CON!display_char_linflexd
    <3>2. CON!Write(Head(todo)) /\ conPc' = "after"
      BY <1>2, <3>1 DEF CON!DisplayChar
    <3> QED BY <1>1, <2>2, <3>2, WriteStep
  <2> QED BY <2>1, <2>2
<1>3. CASE CON!Poll
  <2>1. /\ UNCHANGED <<wire, txq, given>> /\ conPc' \in {"kernel", "write", "poll"}
        /\ conPc' = "write" => CON!TxReady
    BY <1>3 DEF CON!Poll, CON!uart
  <2> QED BY <1>1, <2>1, QuietDoes DEF Quiet
<1>4. CASE CON!WriteChar
  <2>1. conPc = "write" /\ conPc' = "kernel" /\ CON!Write(Head(todo))
    BY <1>4 DEF CON!WriteChar
  <2>2. ~ stops => CON!TxReady
    BY <2>1 DEF ConInv, OutInv
  <2> QED BY <1>1, <2>1, <2>2, WriteStep
<1>5. CASE CON!PollAfter
  <2>1. UNCHANGED <<wire, txq, given>> /\ conPc' \in {"kernel", "after"}
    BY <1>5 DEF CON!PollAfter, CON!uart
  <2> QED BY <1>1, <2>1, QuietDoes DEF Quiet
<1> QED BY <1>2, <1>3, <1>4, <1>5

\* The driver that may take the UART over.
LEMMA OthersDo ==
  ASSUME ConInv, CON!Parse \/ CON!HandOver \/ CON!DriverOff \/ CON!DriverOn
  PROVE  ConInv'
<1>1. UNCHANGED <<table, chosen, wire, txq, given, rxq, keys, typed>>
  BY DEF CON!Parse, CON!HandOver, CON!DriverOff, CON!DriverOn, CON!uart, CON!keyVars
<1>2. CON!Kind' = CON!Kind /\ KindInv' /\ ConType' /\ InInv'
  BY <1>1 DEF ConInv, KindInv, ConType, InInv, CON!Kind
<1>3. CASE CON!Parse
  <2>1. conPc = "parse" /\ conPc' = "init" /\ UNCHANGED <<up, stops>>
    BY <1>3 DEF CON!Parse
  <2> QED BY <1>1, <2>1, QuietDoes DEF Quiet
<1>4. CASE CON!HandOver
  <2>1. conPc = "print" /\ conPc' = "kernel" /\ up' = up
    BY <1>4 DEF CON!HandOver
  <2>2. OutInv'
    BY <1>1, <1>2, <2>1 DEF ConInv, OutInv, Whole
  <2> QED BY <1>2, <2>2 DEF ConInv
<1>5. CASE CON!DriverOff \/ CON!DriverOn
  <2>1. conPc' = conPc /\ stops' = stops /\ (CON!DriverOff => stops) /\ (CON!DriverOn => up')
    BY <1>5 DEF CON!DriverOff, CON!DriverOn
  <2>2. OutInv'
    BY <1>1, <1>2, <1>5, <2>1 DEF ConInv, OutInv, Whole, CON!TxReady
  <2> QED BY <1>2, <2>2 DEF ConInv
<1> QED BY <1>3, <1>4, <1>5

\* The console before start-up has chosen it.
LEMMA InitConInv == CON!Init => ConInv
<1> SUFFICES ASSUME CON!Init PROVE ConInv
  OBVIOUS
<1>1. /\ table \in Tables /\ chosen[0] = 0 /\ txq \in {<< >>, <<1>>} /\ wire = << >> /\ given = txq
      /\ up = TRUE /\ stops = FALSE /\ conPc = "select" /\ rxq = << >> /\ keys = << >> /\ typed = Keys
  BY DEF CON!Init, CON!Channels
<1>2. wire \in Seq(Int) /\ txq \in Seq(Int) /\ given \in Seq(Int)
  <2>1. << >> \in Seq(Int) /\ <<1>> \in Seq(Int)
    OBVIOUS
  <2> QED BY <1>1, <2>1, Zenon
<1>3. << >> \in Seq(Int) /\ Keys \in Seq(Int)
  BY ConsoleAssumption
<1>4. ConType
  BY <1>1, <1>2, <1>3 DEF ConType
<1>5. KindInv
  BY <1>1, ConsoleAssumption DEF KindInv
<1>6. ASSUME NEW q \in Seq(Int) PROVE << >> \o q = q
  OBVIOUS
<1>7. OutInv
  <2>1. wire \o txq = given
    BY <1>1, <1>2, <1>6
  <2>3. Len(<< >>) <= 1 /\ Len(<<1>>) <= 1
    OBVIOUS
  <2>2. Len(given) <= 1
    BY <1>1, <2>3, Zenon
  <2> QED BY <1>1, <2>1, <2>2 DEF OutInv, Whole
<1>8. InInv
  <2>1. PICK g : Keeps(<< >>, g) /\ CON!NoBreaks(<< >>) = g[Len(<< >>)]
    BY <1>3, KeepsExists
  <2>2. CON!NoBreaks(<< >>) = << >>
    BY <2>1 DEF Keeps
  <2>3. CON!NoBreaks(Keys) \in Seq(Int)
    BY <1>3, NoBreaksType
  <2>4. (<< >> \o << >>) \o CON!NoBreaks(Keys) = CON!NoBreaks(Keys)
    BY <1>3, <1>6, <2>3
  <2> QED BY <1>1, <2>2, <2>4 DEF InInv
<1> QED BY <1>4, <1>5, <1>7, <1>8 DEF ConInv

\* Every step of the CPU, the UART, the keyboard and the driver.
LEMMA ConStep == ConInv /\ [CON!Next]_CON!vars => ConInv'
<1> SUFFICES ASSUME ConInv, [CON!Next]_CON!vars PROVE ConInv'
  OBVIOUS
<1>1. CASE CON!Next
  BY <1>1, SelectDoes, OthersDo, ProgramDoes, PrintDoes, DisplayDoes, SendDoes, KeysDo
     DEF CON!Next, CON!Cpu
<1>2. CASE UNCHANGED CON!vars
  <2>1. UNCHANGED <<table, chosen, wire, txq, given, up, stops, conPc, rxq, keys, typed>>
    BY <1>2 DEF CON!vars, CON!uart, CON!keyVars
  <2> QED BY <2>1, QuietDoes DEF Quiet
<1> QED BY <1>1, <1>2

\* Characters leave in the order in which they were written, each of them, and
\* the keys returned are those typed: for any board's devices, any options, any
\* depth of the transmitter, and a UART, a keyboard and polls in any order. The
\* cases that LineRight leaves out are told with it, in Console.
THEOREM NothingIsLost == CON!Spec => []LineRight
<1>1. ConInv => LineRight
  BY DEF ConInv, OutInv, InInv, Whole, LineRight, CON!LineRight
<1> QED BY InitConInv, ConStep, <1>1, PTL DEF CON!Spec
=============================================================================
