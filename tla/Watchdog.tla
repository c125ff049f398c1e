------------------------------ MODULE Watchdog ------------------------------
(***************************************************************************)
(* The watchdog of the secure firmware from the entry of startup to the    *)
(* running system: main() of the board (the -W option), stm32mp2_wdt.c and *)
(* the wdtkick utility. Time passes in units. A program that is to go on   *)
(* may be late by the latency but not more, unless it has ended.           *)
(***************************************************************************)
EXTENDS Integers, Sequences

CONSTANTS
  Timeout,      \* of the watchdog, in units
  StartTime,    \* longest time from reset to the first kick, in startup
  BootTime,     \* longest time from there to the first kick of wdtkick
  Latency,      \* longest delay of a woken wdtkick
  Width,        \* 2^32, of delay()'s argument
  WdtSmcId,     \* PSCI_ARM_WDT_SMC_ID
  CommandLines  \* options of wdtkick: [opt, val, erange]

NoTime == -1

ASSUME TimeAssumption ==
  /\ {Timeout, StartTime, BootTime, Width} \subseteq Nat \ {0}
  /\ Latency \in Nat
ASSUME BootAssumption == StartTime < Timeout /\ BootTime < Timeout
ASSUME OptionAssumption ==
  /\ CommandLines \subseteq Seq([opt : {"i", "t", "v"}, val : Int, erange : BOOLEAN])
  /\ WdtSmcId \in Int

VARIABLES
  wdt_enable,   \* startup was given -W
  argv,         \* options of wdtkick
  pc, optind,
  smc_id, kick_time,  \* of wdi
  on, left,     \* the watchdog runs, and the time it has left
  refused,      \* the firmware did not stop it
  dead,         \* it has reset the board
  wait, slack   \* time until the program goes on, and how late it may be

cmd == <<wdt_enable, argv>>
wdi == <<smc_id, kick_time>>
timer == <<on, left, refused, dead>>
vars == <<cmd, pc, optind, wdi, timer, wait, slack>>

Init ==
  /\ wdt_enable \in BOOLEAN /\ argv \in CommandLines
  /\ pc = "main" /\ optind = 1
  /\ smc_id = WdtSmcId /\ kick_time = NoTime
  /\ on \in BOOLEAN /\ left = Timeout /\ refused = FALSE /\ dead = FALSE
  /\ wait = 0 /\ slack = StartTime

Goto(from, to) == ~ dead /\ pc = from /\ pc' = to

\* The firmware's answer to SMCWD_PET.
Pet == left' = IF on THEN Timeout ELSE left

-----------------------------------------------------------------------------
(* startup                                                                 *)

\* Mutant: the first kick is left out.
WdtReset_NoPet ==
  /\ Goto("main", "options")
  /\ slack' = BootTime
  /\ UNCHANGED <<cmd, optind, wdi, timer, wait>>

\* stm32mp2_wdt_reset() in main()
WdtReset ==
  /\ Goto("main", "options")
  /\ Pet /\ slack' = BootTime
  /\ UNCHANGED <<cmd, optind, wdi, on, refused, dead, wait>>

\* stm32mp2_wdt_stop() unless -W was given. Its status is only printed.
WdtStop ==
  /\ Goto("options", "boot")
  /\ IF wdt_enable THEN UNCHANGED <<on, refused>>
     ELSE on' \in {FALSE, on} /\ refused' = on'
  /\ UNCHANGED <<cmd, optind, wdi, left, dead, wait, slack>>

\* The rest of startup, the kernel and the boot script.
Boot ==
  /\ Goto("boot", "parse")
  /\ UNCHANGED <<cmd, optind, wdi, timer, wait, slack>>

-----------------------------------------------------------------------------
(* wdtkick                                                                 *)

\* wd_parse_options(), one option; a value out of range is dropped.
ParseOption ==
  /\ Goto("parse", "parse") /\ optind <= Len(argv)
  /\ LET o == argv[optind] IN
     /\ smc_id' = IF o.opt = "i" /\ ~ o.erange THEN o.val ELSE smc_id
     /\ kick_time' = IF o.opt = "t" /\ ~ o.erange THEN o.val ELSE kick_time
  /\ optind' = optind + 1
  /\ UNCHANGED <<cmd, timer, wait, slack>>

\* wd_evaluate_params()
EvaluateParams ==
  /\ Goto("parse", IF smc_id = 0 \/ kick_time = -1 THEN "exited" ELSE "configure")
  /\ optind > Len(argv)
  /\ UNCHANGED <<cmd, optind, wdi, timer, wait, slack>>

\* wd_configure_thread(): the abilities, the I/O level, the daemon or the
\* scheduling parameters may be refused; a refused priority is not fatal.
ConfigureThread ==
  /\ Goto("configure", "kick") \/ Goto("configure", "exited")
  /\ UNCHANGED <<cmd, optind, wdi, timer, wait, slack>>

\* Mutant: a process that has failed leaves one behind that kicks.
Kick_Orphan ==
  /\ Goto("kick", "delay") \/ Goto("exited", "exited")
  /\ IF smc_id = WdtSmcId THEN Pet ELSE UNCHANGED left
  /\ wait' = kick_time % Width /\ slack' = Latency
  /\ UNCHANGED <<cmd, optind, wdi, on, refused, dead>>

\* The call to the firmware, which answers to its own id, and delay().
Kick ==
  /\ Goto("kick", "delay")
  /\ IF smc_id = WdtSmcId THEN Pet ELSE UNCHANGED left
  /\ wait' = kick_time % Width /\ slack' = Latency
  /\ UNCHANGED <<cmd, optind, wdi, on, refused, dead>>

\* delay() returns. The heartbeat message of -v is left out.
Woken ==
  /\ Goto("delay", "kick") /\ wait = 0
  /\ UNCHANGED <<cmd, optind, wdi, timer, wait, slack>>

-----------------------------------------------------------------------------
(* Time                                                                    *)

\* A unit of time, which cannot pass when a program has used up its latency.
Tick ==
  /\ ~ dead /\ (pc = "exited" \/ wait > 0 \/ slack > 0)
  /\ left' = IF on THEN left - 1 ELSE left
  /\ dead' = (left' = 0)
  /\ wait' = IF wait > 0 THEN wait - 1 ELSE wait
  /\ slack' = IF wait = 0 /\ slack > 0 THEN slack - 1 ELSE slack
  /\ UNCHANGED <<cmd, pc, optind, wdi, on, refused>>

Next == \/ WdtReset \/ WdtStop \/ Boot
        \/ ParseOption \/ EvaluateParams \/ ConfigureThread \/ Kick \/ Woken
        \/ Tick

Spec == Init /\ [][Next]_vars

\* Time does not stand still.
FairSpec == Spec /\ WF_vars(Tick)

-----------------------------------------------------------------------------
(* Properties                                                              *)

\* Types; the watchdog has no time left exactly when it has struck.
TypeOK ==
  /\ wdt_enable \in BOOLEAN /\ argv \in CommandLines
  /\ pc \in {"main", "options", "boot", "parse", "configure", "kick", "delay", "exited"}
  /\ optind \in 1 .. Len(argv) + 1
  /\ smc_id \in Int /\ kick_time \in Int
  /\ on \in BOOLEAN /\ left \in 0 .. Timeout
  /\ dead \in BOOLEAN /\ (dead <=> left = 0) /\ refused \in BOOLEAN
  /\ wait \in 0 .. Width - 1 /\ slack \in Nat

\* The kicks reach the firmware, and the period that delay() is really
\* given leaves room for the latency.
KicksFit == smc_id = WdtSmcId /\ (kick_time % Width) + Latency < Timeout

\* The board is reset only for a cause: wdtkick has ended, or was told a
\* wrong id or a period that does not fit. Neither the boot nor a late
\* wake-up is one.
ResetForCause ==
  dead => \/ pc = "exited"
          \/ pc \in {"kick", "delay"} /\ ~ KicksFit

\* Without -W, and unless the firmware refused to stop it, the watchdog
\* never resets the board, whatever becomes of wdtkick.
StoppedWithoutW == dead => wdt_enable \/ refused

\* A wdtkick that has ended, because of its options or because it was
\* refused a privilege, does not leave the board unattended.
UnattendedIsReset == (pc = "exited" /\ on) ~> dead
=============================================================================
