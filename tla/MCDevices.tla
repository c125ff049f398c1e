----------------------------- MODULE MCDevices -----------------------------
(***************************************************************************)
(* The watchdog, the console, the clock, the MSI controllers and the       *)
(* address space section, in one instance: a behaviour is one of them at   *)
(* work and the others idle. They share no state.                          *)
(***************************************************************************)
EXTENDS Devices

conVars == <<table, opt, chosen, line, cfg, divisor, txq, wire, given, up, stops, conPc, todo,
             polls, late, rxq, keys, typed>>

CONSTANTS Chips, Starts, MaxTicks, Freqs, Ticks, UMax, ULMax, NsScale
VARIABLES chip, dm, h24, cent_reg, dv, now, uip, frozen, held, clockPc, tm, read, time, shown,
          ticks, pace, hz, freq, quot, period, scale, n, per, ns, power
K == INSTANCE Clock WITH pc <- clockPc
clockVars == <<chip, dm, h24, cent_reg, dv, now, uip, frozen, held, clockPc, tm, read, time, shown,
               ticks, pace, hz, freq, quot, period, scale, n, per, ns, power>>

msiVars == <<msiChip, paddr_first, slot, vaddr, status, enable, cache, afi, pend, code, msg,
             sm_enable, msiPc, ctl, reg, w, x19, src, masked, due, seen, raised, asked>>

asinfoVars == <<asinfo, memFree, sysram_added, served, noMemory>>

\* The command lines of wdtkick; a unit is 500 ms or so: the shipped one (-i,
\* -t, -v) and others: no time, a negative one, one of more than 32 bits, one
\* that does not fit, values out of range, and wrong ids.
W(o, val) == [opt |-> o, val |-> val, erange |-> FALSE]
Bad(o) == [opt |-> o, val |-> 0, erange |-> TRUE]
Verbose == W("v", 0)
MCCommandLines ==
  {<<W("i", 3), W("t", 2), Verbose>>, << >>, <<W("t", -1)>>, <<W("t", -5)>>,
   <<W("t", Width + 2), Verbose>>, <<W("t", 3), W("t", 0)>>, <<W("t", 6)>>, <<W("t", 5)>>,
   <<W("t", 2), Bad("t"), Bad("i")>>, <<W("i", 4), W("t", 2)>>, <<W("i", 0), W("t", 2)>>}

\* As in Console.
Dot   == -1
Caret == -2
Colon == -4
Null == <<-5>>
NL  == 10
Brk == 0

Board == << [name |-> "stm32mp2_usart2", kind |-> "stm32mp2",
             defaults |-> <<<<1074659328, Caret, 0, Dot, 115200, Dot, 64000000, Dot, 16>>, Null>>] >>
Other(k, d, e) == << [name |-> "ser", kind |-> k, defaults |-> <<d, e>>],
                     [name |-> "spare", kind |-> "dummy", defaults |-> <<<<>>, <<>>>>] >>
MCTables == { Board,
              Other("8250", <<1016, Caret, 2, Dot, 115200, Dot, 1843200, Dot, 16>>, <<760>>),
              Other("8250_32b", <<1016, Dot, Dot, 48000000, Dot, 16>>, Null),
              Other("8250_pci", <<0, Colon, 3, Colon, 0, Colon, 1, Caret, 2, Dot, 9600, Dot, 1843200, Dot, 16>>, Null),
              Other("pl011", <<150994944, Dot, Dot, 24000000>>, <<>>),
              Other("linflexd", <<1074102272, Dot, 115200>>, Null),
              Other("tegra", <<51380224>>, Null) }
O(name, l) == [given |-> TRUE, name |-> name, line |-> l]
No == [given |-> FALSE, name |-> "", line |-> <<>>]
Asked == { No, O("ser", <<Dot, 38400>>), O("stm32mp2_usart2", <<Dot, 921600>>),
           O("", <<760, Caret, 1, Dot, Dot, 3686400>>), O("spare", <<>>), O("other", <<>>) }
MCOpts == {[c \in {0, 1} |-> IF c = 0 THEN o ELSE No] : o \in Asked}
          \cup {[c \in {0, 1} |-> IF c = 1 THEN O("", <<760, Caret, 1, Dot, Dot, 3686400>>) ELSE No]}
MCBars == [loc \in [1 .. 4 -> {0, 1, 3, 760}] |->
             IF loc[2] = 3 THEN [io |-> TRUE, m64 |-> FALSE, lo |-> 8192, hi |-> 0]
             ELSE [io |-> FALSE, m64 |-> TRUE, lo |-> 131072, hi |-> 1048576]]
T(c) == [num |-> c, radix |-> 0, dig |-> 0]
MCMsg == <<T(2), [num |-> 31, radix |-> 16, dig |-> 4], T(NL)>>
MCKMsg == <<3, 4>>
MCKeys == <<5, Brk, 6>>

D(y, mo, d, h, mi, s) == [y |-> y, mo |-> mo, d |-> d, h |-> h, mi |-> mi, s |-> s]
MCStarts == {D(1973, 12, 31, 23, 59, 59), D(2000, 2, 28, 23, 59, 58), D(2019, 3, 9, 11, 59, 59),
             D(2032, 2, 29, 23, 59, 59), D(1970, 1, 1, 0, 0, 0),
             D(1999, 12, 31, 23, 59, 59), D(2024, 7, 1, 0, 59, 59)}

\* Twelve addresses of which eight are below 4G, a bank across that limit
\* and another, images inside and across banks, requests in "ram" and in
\* "memory".
MCBanks == {<<4, 9>>, <<1, 3>>}
MCAreas == {<<5, 6>>, <<9, 9>>}
Req(s, e, c, o) == [start |-> s, end |-> e, container |-> c, overlay |-> o]
MCRequests == {Req(7, 8, "ram", FALSE), Req(2, 4, "memory", TRUE), Req(3, 5, "ram", TRUE)}

ClockIdle ==
  /\ chip = "timer" /\ clockPc = "idle" /\ dm = FALSE /\ h24 = FALSE /\ cent_reg = 0 /\ dv = "run"
  /\ now = 0 /\ uip = FALSE /\ frozen = FALSE /\ held = 0 /\ tm = 0 /\ read = 0 /\ time = 0
  /\ shown = {} /\ ticks = 0 /\ pace = 0 /\ hz = 0 /\ freq = 0 /\ quot = 0 /\ period = 0
  /\ scale = 0 /\ n = 0 /\ per = 0 /\ ns = 0 /\ power = 0
ConsoleIdle ==
  /\ table = <<>> /\ opt = [c \in {0, 1} |-> No]
  /\ chosen = [c \in {0, 1} |-> 0] /\ line = [c \in {0, 1} |-> <<>>]
  /\ cfg = [c \in {0, 1} |-> CON!NoCfg] /\ divisor = <<>> /\ txq = <<>> /\ wire = <<>>
  /\ given = <<>> /\ up = TRUE /\ stops = FALSE /\ conPc = "idle" /\ todo = <<>> /\ polls = 0
  /\ late = FALSE /\ rxq = <<>> /\ keys = <<>> /\ typed = Keys

MsiIdle ==
  /\ msiChip = "pcie" /\ paddr_first = 0 /\ slot = <<>> /\ vaddr = <<>> /\ status = {} /\ enable = {}
  /\ cache = <<>> /\ afi = FALSE /\ pend = {} /\ code = 0 /\ msg = {} /\ sm_enable = {}
  /\ msiPc = "off" /\ ctl = 0 /\ reg = 0 /\ w = {} /\ x19 = 0 /\ src = 0 /\ masked = {}
  /\ due = {} /\ seen = {} /\ raised = MaxRaise /\ asked = MaxAsk

\* A section that startup cannot add to.
AsInfoIdle == asinfo = << >> /\ memFree = {} /\ sysram_added = FALSE /\ served = AI!None /\ noMemory = TRUE

\* A watchdog that nobody has switched on.
Asleep ==
  /\ wdt_enable = FALSE /\ argv = << >> /\ pc = "asleep" /\ optind = 1
  /\ smc_id = WdtSmcId /\ kick_time = NoTime
  /\ on = FALSE /\ left = Timeout /\ refused = FALSE /\ dead = FALSE
  /\ wait = 0 /\ slack = 0

DevicesInit == \/ Init /\ ConsoleIdle /\ ClockIdle /\ MsiIdle /\ AsInfoIdle
               \/ Asleep /\ CON!Init /\ ClockIdle /\ MsiIdle /\ AsInfoIdle
               \/ Asleep /\ ConsoleIdle /\ K!Init /\ MsiIdle /\ AsInfoIdle
               \/ Asleep /\ ConsoleIdle /\ ClockIdle /\ MSI!Init /\ AsInfoIdle
               \/ Asleep /\ ConsoleIdle /\ ClockIdle /\ MsiIdle /\ AI!Init
DevicesNext == \/ Next /\ UNCHANGED <<conVars, clockVars, msiVars, asinfoVars>>
               \/ CON!Next /\ UNCHANGED <<vars, clockVars, msiVars, asinfoVars>>
               \/ K!Next /\ UNCHANGED <<vars, conVars, msiVars, asinfoVars>>
               \/ MSI!Next /\ UNCHANGED <<vars, conVars, clockVars, asinfoVars>>
               \/ AI!Next /\ UNCHANGED <<vars, conVars, clockVars, msiVars>>
\* The fairness of each: see Watchdog, Console and Msi.
DevicesSpec == /\ DevicesInit /\ [][DevicesNext]_<<vars, conVars, clockVars, msiVars, asinfoVars>>
               /\ WF_vars(Tick)
               /\ WF_conVars(CON!Cpu) /\ WF_conVars(CON!Send)
               /\ WF_msiVars(MSI!Kernel) /\ WF_msiVars(MSI!Latch)

\* A callout does not poll for ever: see Console.
CalloutReturns == CON!CalloutReturns

\* What the option lines of the console, the digits of a clock chip and the
\* timer's frequency are turned into is right: see Console and Clock.
ConversionsRight == CON!ConfigRight /\ K!TimeRight /\ K!TimerRight

\* Every interrupt that is not masked is served in the end: see Msi.
Served == MSI!Served
=============================================================================
