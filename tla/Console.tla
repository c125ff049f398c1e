------------------------------ MODULE Console ------------------------------
(***************************************************************************)
(* The debug console: the choice of a device for the console and for the   *)
(* kernel debugger, the option lines of the serial drivers, the set-up of  *)
(* the UART behind the loader's back, polled output during start-up and    *)
(* the callouts that display characters and poll keys for the kernel,      *)
(* while a serial driver may be taking over the same UART.                 *)
(*                                                                         *)
(* A line is a sequence of tokens: a number, or one of the signs below.    *)
(***************************************************************************)
EXTENDS Integers, Sequences, FiniteSets, FiniteSetsExt, SequencesExt

CONSTANTS
  Tables,     \* sequences of debug_device records [name, kind, defaults]
  Opts,       \* values of the -D and -K options, by channel
  Bars,       \* the base address registers of the PCI device
  Msg,        \* characters start-up prints
  KMsg,       \* characters the kernel displays
  Keys,       \* what is typed, breaks included
  Depth,      \* characters the transmitter holds
  Polls       \* 0x1500 or 0x400: how often a callout with a limit looks

Dot   == -1
Caret == -2
Nul   == -3
Colon == -4
Word  == -6   \* a word that is no number
Null == <<-5>>    \* no line: the device is not meant for the channel
Undef == -7       \* an automatic variable nobody has set
NL  == 10
CR  == 13
Brk == 0         \* the null character of a break

Kinds == {"stm32mp2", "8250", "8250_32b", "8250_pci", "pl011", "linflexd", "tegra", "dummy"}
Is8250(k) == k \in {"8250", "8250_32b", "8250_pci"}

VARIABLES
  table, opt,     \* the board's devices, and debug_opt
  chosen, line,   \* by channel: the selected device and its options
  cfg,            \* by channel: base, shift, what the lines set, and the
                  \* address spaces enabled for it
  divisor,        \* what the UART's rate was programmed to
  txq, wire,      \* the transmitter, and what has left it
  up, stops,      \* UART enabled; whether a driver ever disables it
  pc, todo,       \* the CPU, and the characters it has yet to give
  polls,          \* looks left
  given,          \* history: characters written to the transmitter
  late,           \* history: a callout has given up
  rxq, keys, typed  \* the receiver, keys returned, and keys yet to come

uart == <<txq, wire, given>>
keyVars == <<rxq, keys, typed>>
vars == <<table, opt, chosen, line, cfg, divisor, uart, up, stops, pc, todo,
          polls, late, keyVars>>

Channels == {0, 1}
NoCfg == [base |-> 0, shift |-> 0, baud |-> 0, clk |-> Undef, div |-> Undef,
          cmd |-> {}]

\* The loader may have left a character in the transmitter.
Init ==
  /\ table \in Tables
  /\ opt \in Opts
  /\ chosen = [c \in Channels |-> 0] /\ line = [c \in Channels |-> <<>>]
  /\ cfg = [c \in Channels |-> NoCfg] /\ divisor = <<>>
  /\ txq \in {<<>>, <<1>>} /\ wire = <<>> /\ given = txq
  /\ up = TRUE /\ stops = FALSE /\ pc = "select" /\ todo = <<>>
  /\ polls = 0 /\ late = FALSE
  /\ rxq = <<>> /\ keys = <<>> /\ typed = Keys

-----------------------------------------------------------------------------
(* select_one: which device, with which options                            *)

\* An option that names no device is taken, whole, for options of the first
\* device that has some of its own.
Whole(o) == IF o.name = "" THEN o.line ELSE <<Word>> \o o.line
SelectOne(c) ==
  LET devs    == {i \in 1 .. Len(table) : table[i].defaults[c + 1] # Null}
      named   == {i \in devs : table[i].name = opt[c].name}
      default == {i \in devs : table[i].defaults[c + 1] # <<>>}
  IN  IF ~ opt[c].given THEN (IF devs = {} THEN <<0, <<>>>> ELSE <<Min(devs), <<>>>>)
      ELSE IF named # {} THEN <<Min(named), opt[c].line>>
      ELSE IF default # {} THEN <<Min(default), Whole(opt[c])>>
      ELSE <<0, <<>>>>

-----------------------------------------------------------------------------
(* parse_line                                                              *)

\* The parser's moves are functions from positions in the line to positions.
At(l, j) == (l \o <<Nul>>)[j]
Places(l) == 1 .. Len(l) + 1

\* strtoul: a sign or a word is no number, gives 0 and is not passed over.
Number(t) == IF t >= 0 THEN t ELSE 0
Past(l) == [j \in Places(l) |-> IF At(l, j) >= 0 THEN j + 1 ELSE j]

\* Mutant: an empty field takes the value of the next one.
Skip_All(l) ==
  [j \in Places(l) |-> IF At(l, j) # Dot THEN j ELSE IF At(l, j + 1) = Dot THEN j + 2 ELSE j + 1]

Skip(l) == [j \in Places(l) |-> IF At(l, j) = Dot THEN j + 1 ELSE j]

\* The fields after the base, which ends at j0: what a line says of each,
\* None for an empty one, which keeps what it was.
None == -8
Value(t) == IF t \in {Dot, Nul} THEN None ELSE Number(t)
ParseFields(l) ==
  LET start == [j \in Places(l) |-> Skip(l)[Past(l)[j]]]
  IN  [j0 \in Places(l) |->
         LET first == Skip(l)[j0]
         IN  <<Value(At(l, first)), Value(At(l, start[first])), Value(At(l, start[start[first]]))>>]

\* The base, and the register stride after a caret.
NoLine(l) == At(l, 1) \in {Dot, Nul}
PastBase(l) == IF NoLine(l) THEN 1 ELSE Past(l)[1]
Stride(l, j) == IF At(l, j) = Caret THEN Number(At(l, j + 1)) ELSE None
PastStride(l) == [j \in Places(l) |-> IF At(l, j) = Caret THEN Past(l)[j + 1] ELSE j]

\* The PCI driver's base is a location, of at most four numbers, that is
\* looked up and whose address space is enabled.
Ends == {Caret, Dot, Nul}
Further(l) ==
  [j \in {0} \cup Places(l) |-> IF j = 0 \/ At(l, Past(l)[j]) \in Ends THEN 0 ELSE Past(l)[j] + 1]
LocationFrom(l) ==
  LET f == Further(l) IN <<1, f[1], f[f[1]], f[f[f[1]]]>>
Location(l, prev) ==
  LET from == LocationFrom(l) IN
  IF NoLine(l) THEN prev
  ELSE [k \in 1 .. 4 |-> IF from[k] = 0 THEN prev[k] ELSE Number(At(l, from[k]))]
PastLocation(l) ==
  LET end == Past(l)[Max(ToSet(LocationFrom(l)))] IN
  IF NoLine(l) THEN 1 ELSE IF At(l, end) \in Ends THEN end ELSE end + 1
BarAddr(bar) == IF bar.m64 /\ ~ bar.io THEN bar.lo + bar.hi ELSE bar.lo

\* What a line says, as a configuration with None for what it leaves alone.
BaseOf(k, l, loc) ==
  IF NoLine(l) THEN None
  ELSE IF k = "8250_pci" THEN BarAddr(Bars[loc]) ELSE Number(l[1])
Space(bar) == IF bar.io THEN 0 ELSE 1
SpaceOf(k, l, loc) ==
  IF NoLine(l) \/ k # "8250_pci" THEN {} ELSE {Space(Bars[loc])}
LineFrom(k, l, loc) ==
  [j0 \in Places(l) |->
     LET fields == ParseFields(l)[PastStride(l)[j0]]
     IN  [base |-> BaseOf(k, l, loc), shift |-> IF NoLine(l) THEN None ELSE Stride(l, j0),
          baud |-> fields[1], clk |-> fields[2],
          div |-> IF Is8250(k) THEN fields[3] ELSE None]]
parse_line(k, l, loc) ==
  LineFrom(k, l, loc)[IF k = "8250_pci" THEN PastLocation(l) ELSE PastBase(l)]

\* What the drivers start from.
start_pl011    == [NoCfg EXCEPT !.baud = 57600, !.clk = 14745600]
start_linflexd == [NoCfg EXCEPT !.clk = 66666667]
start_stm32mp2 == [NoCfg EXCEPT !.baud = 115200, !.clk = 64000000]
BuiltIn(k) ==
  CASE k = "stm32mp2" -> start_stm32mp2 [] k = "pl011" -> start_pl011
    [] k = "linflexd" -> start_linflexd [] OTHER       -> NoCfg

\* The line of the device's defaults, then that of the option.
Over(a, b) == IF a = None THEN b ELSE a
Parsed(k, defaults, options) ==
  LET loc1 == Location(defaults, <<0, 0, 0, 0>>)
      loc2 == Location(options, loc1)
      d == parse_line(k, defaults, loc1)
      o == parse_line(k, options, loc2)
  IN  IF k = "dummy" THEN NoCfg
      ELSE [f \in DOMAIN NoCfg |->
              IF f = "cmd" THEN SpaceOf(k, defaults, loc1) \cup SpaceOf(k, options, loc2)
              ELSE Over(o[f], Over(d[f], BuiltIn(k)[f]))]

\* select_debug: the kernel debugger's channel only if it was asked for;
\* the device's init parses its lines.
Select ==
  /\ pc = "select" /\ pc' = "parse"
  /\ \E sel \in {[c \in Channels |-> IF c = 0 \/ opt[1].given THEN SelectOne(c) ELSE <<0, <<>>>>]} :
       /\ chosen' = [c \in Channels |-> sel[c][1]]
       /\ line' = [c \in Channels |-> sel[c][2]]
  /\ UNCHANGED <<table, opt, cfg, divisor, uart, up, stops, todo, polls, late, keyVars>>
Parse ==
  /\ pc = "parse" /\ pc' = "init"
  /\ cfg' = [c \in Channels |->
               IF chosen[c] = 0 THEN NoCfg
               ELSE LET dev == table[chosen[c]] IN
                    Parsed(dev.kind, dev.defaults[c + 1], line[c])]
  /\ UNCHANGED <<table, opt, chosen, line, divisor, uart, up, stops, todo, polls, late, keyVars>>

-----------------------------------------------------------------------------
(* The drivers' set-up of the console's UART                               *)

Kind == IF chosen[0] = 0 THEN "dummy" ELSE table[chosen[0]].kind
C0 == cfg[0]

\* A base from 64 KB on is memory, and such an 8250 is left as it is.
Mmio == C0.base >= 65536

\* Where the start-up driver finds register off, and where the callouts
\* have been patched to look for the line status, in an immediate of 16 bits.
REG_LS == 5
chip_read8(off) == C0.base + off * 2 ^ C0.shift
patch_debug_8250     == C0.base + ((REG_LS * 2 ^ C0.shift) % 65536)
patch_debug_8250_32b == C0.base + ((REG_LS * 2 ^ C0.shift) % 65536)

\* The divisors: IBRD and FBRD of the pl011, BRR of the stm32mp2 in 16
\* times oversampling or twice the rate in 8 times, the 8250's latch.
Pl011Divisor(clk, baud) ==
  LET c == clk \div 16 IN
  <<c \div baud, ((c % baud) * 64 + (baud + 1) \div 2) \div baud>>
uart_div_sampling16(clk, baud) == ((clk + baud \div 2) \div baud) % 65536
uart_div_sampling8(clk, baud) ==
  LET d == (2 * clk + baud \div 2) \div baud IN d - (d % 16) + ((d % 16) \div 2)
uart_set_config(clk, baud) ==
  IF clk \div baud < 16 THEN <<uart_div_sampling8(clk, baud)>>
  ELSE <<uart_div_sampling16(clk, baud)>>
Latch(c) == <<(c.clk \div (c.baud * c.div)) % 65536>>

\* A driver's set-up: whether it lets the loader's characters out first,
\* whether it disables the UART, and the divisor it programs.
Setup(waits, disables, div) == [waits |-> waits, disables |-> disables, div |-> div]
LeftAlone == Setup(FALSE, FALSE, <<>>)

init_pl011 ==
  IF C0.baud = 0 THEN LeftAlone ELSE Setup(TRUE, TRUE, Pl011Divisor(C0.clk, C0.baud))
init_8250_common ==
  IF Mmio THEN LeftAlone
  ELSE Setup(TRUE, FALSE, IF C0.baud = 0 THEN <<>> ELSE Latch(C0))
init_8250_32b ==
  IF Mmio THEN LeftAlone
  ELSE Setup(TRUE, FALSE, IF C0.baud = 0 THEN <<>> ELSE Latch(C0))
init_linflexd == LeftAlone
init_dummy    == LeftAlone
stm32mp2_init_uart == Setup(FALSE, TRUE, uart_set_config(C0.clk, C0.baud))
Driver ==
  CASE Kind = "pl011" -> init_pl011 [] Kind = "8250_32b" -> init_8250_32b
    [] Kind \in {"8250", "8250_pci"} -> init_8250_common
    [] Kind = "linflexd" -> init_linflexd [] Kind = "stm32mp2" -> stm32mp2_init_uart
    [] OTHER -> init_dummy

\* A new line is given as a carriage return and a new line, and a number in
\* its radix, with zeros in front of it up to its number of digits.
one_char(c) == IF c = NL THEN <<CR, NL>> ELSE <<c>>
Digit(d) == 48 + d + (IF d > 9 THEN 39 ELSE 0)
vmsg(item) ==
  LET D[v \in 0 .. item.num] ==
        (IF v < item.radix THEN <<>> ELSE D[v \div item.radix]) \o <<Digit(v % item.radix)>>
      digits == D[item.num]
  IN  IF item.radix = 0 THEN one_char(item.num)
      ELSE [k \in 1 .. item.dig - Len(digits) |-> Digit(0)] \o digits

\* stm32mp2_init_uart stops the system for a rate of 0; a UART that is
\* disabled loses what it has not sent.
Program ==
  /\ pc = "init"
  /\ IF Kind = "stm32mp2" /\ C0.baud = 0
     THEN pc' = "crash" /\ UNCHANGED <<divisor, uart, todo>>
     ELSE /\ Driver.waits => txq = <<>>
          /\ pc' = "print" /\ divisor' = Driver.div
          /\ todo' = FlattenSeq([k \in DOMAIN Msg |-> vmsg(Msg[k])])
          /\ txq' = IF Driver.disables THEN <<>> ELSE txq
          /\ UNCHANGED <<wire, given>>
  /\ UNCHANGED <<table, opt, chosen, line, cfg, up, stops, polls, late, keyVars>>

-----------------------------------------------------------------------------
(* The UART                                                                *)

Send ==
  /\ up /\ txq # <<>>
  /\ wire' = Append(wire, Head(txq)) /\ txq' = Tail(txq)
  /\ UNCHANGED <<table, opt, chosen, line, cfg, divisor, up, stops, pc, todo, polls,
                 given, late, keyVars>>

TxReady == up /\ Len(txq) < Depth

\* A character written to a transmitter that is full or disabled is gone.
Write(c) ==
  /\ given' = Append(given, c)
  /\ txq' = IF TxReady THEN Append(txq, c) ELSE txq
  /\ UNCHANGED wire

Type ==
  /\ typed # <<>> /\ pc \in {"kernel", "poll", "write", "after"}
  /\ rxq' = Append(rxq, Head(typed)) /\ typed' = Tail(typed)
  /\ UNCHANGED <<table, opt, chosen, line, cfg, divisor, uart, up, stops, pc, todo,
                 polls, late, keys>>

-----------------------------------------------------------------------------
(* kprintf through put_8250, put_pl011, put_linflexd, ...                  *)

put_8250     == TxReady
put_8250_32b == TxReady
put_pl011    == TxReady
put_linflexd == TxReady
stm32mp2_uart_put_char == TxReady
PutReady ==
  CASE Kind \in {"8250", "8250_pci"} -> put_8250 [] Kind = "8250_32b" -> put_8250_32b
    [] Kind = "pl011" -> put_pl011               [] Kind = "linflexd" -> put_linflexd
    [] OTHER -> stm32mp2_uart_put_char

Put ==
  /\ pc = "print" /\ todo # <<>>
  /\ IF Kind = "dummy" THEN UNCHANGED uart ELSE PutReady /\ Write(Head(todo))
  /\ todo' = Tail(todo)
  /\ UNCHANGED <<table, opt, chosen, line, cfg, divisor, up, stops, pc, polls, late, keyVars>>

\* From here on there may be a driver that disables the UART.
HandOver ==
  /\ pc = "print" /\ todo = <<>> /\ pc' = "kernel" /\ todo' = KMsg
  /\ stops' \in BOOLEAN
  /\ UNCHANGED <<table, opt, chosen, line, cfg, divisor, uart, up, polls, late, keyVars>>

-----------------------------------------------------------------------------
(* The callouts                                                            *)

\* How a kind's display_char waits: not at all, without a limit, or with
\* one; before its write or after it.
NoWait     == [when |-> "never", limit |-> FALSE]
WaitBefore == [when |-> "before", limit |-> FALSE]
display_char_stm32mp2 == WaitBefore

\* Mutant: it polls without a limit.
display_char_8250_NoLimit == WaitBefore

display_char_8250     == [when |-> "before", limit |-> TRUE]
display_char_8250_32b == [when |-> "before", limit |-> TRUE]
display_char_tegra    == WaitBefore
display_char_pl011    == WaitBefore
display_char_linflexd == [when |-> "after", limit |-> TRUE]
display_char_dummy    == NoWait
Display ==
  CASE Kind = "stm32mp2" -> display_char_stm32mp2
    [] Kind \in {"8250", "8250_pci"} -> display_char_8250
    [] Kind = "8250_32b" -> display_char_8250_32b [] Kind = "tegra" -> display_char_tegra
    [] Kind = "pl011" -> display_char_pl011       [] Kind = "linflexd" -> display_char_linflexd
    [] Kind = "dummy" -> display_char_dummy

calloutFrame == <<table, opt, chosen, line, cfg, divisor, up, stops, keyVars>>

DisplayChar ==
  /\ pc = "kernel" /\ todo # <<>> /\ polls' = Polls
  /\ CASE Display.when = "never"  -> todo' = Tail(todo) /\ UNCHANGED <<pc, uart>>
       [] Display.when = "before" -> pc' = "poll" /\ UNCHANGED <<todo, uart>>
       [] Display.when = "after"  -> Write(Head(todo)) /\ todo' = Tail(todo) /\ pc' = "after"
  /\ UNCHANGED <<calloutFrame, late>>

\* The counter is decremented before each look, and the last gives up.
GivesUp == Display.limit /\ polls - 1 = 0

\* Mutant: the last look writes in any case.
Poll_LastWrites ==
  /\ pc = "poll"
  /\ polls' = IF Display.limit THEN polls - 1 ELSE polls
  /\ pc' = IF GivesUp \/ TxReady THEN "write" ELSE "poll"
  /\ UNCHANGED <<calloutFrame, uart, todo, late>>

Poll ==
  /\ pc = "poll"
  /\ polls' = IF Display.limit THEN polls - 1 ELSE polls
  /\ IF GivesUp THEN pc' = "kernel" /\ todo' = Tail(todo) /\ late' = TRUE
     ELSE pc' = (IF TxReady THEN "write" ELSE "poll") /\ UNCHANGED <<todo, late>>
  /\ UNCHANGED <<calloutFrame, uart>>
WriteChar ==
  /\ pc = "write" /\ pc' = "kernel"
  /\ Write(Head(todo)) /\ todo' = Tail(todo)
  /\ UNCHANGED <<calloutFrame, polls, late>>
PollAfter ==
  /\ pc = "after" /\ polls' = polls - 1
  /\ pc' = IF GivesUp \/ TxReady THEN "kernel" ELSE "after"
  /\ late' = (late \/ (GivesUp /\ ~ TxReady))
  /\ UNCHANGED <<calloutFrame, uart, todo>>

\* poll_key: -1 if nothing has come.
Received == rxq # <<>>
stm32mp2_uart_poll_key == Received
poll_key_8250     == Received
poll_key_8250_32b == Received
poll_key_linflexd == Received
poll_key_pl011    == Received
poll_key_tegra    == Received
poll_key_dummy    == FALSE
KeyReady ==
  CASE Kind = "stm32mp2" -> stm32mp2_uart_poll_key
    [] Kind \in {"8250", "8250_pci"} -> poll_key_8250
    [] Kind = "8250_32b" -> poll_key_8250_32b [] Kind = "linflexd" -> poll_key_linflexd
    [] Kind = "pl011" -> poll_key_pl011       [] Kind = "tegra" -> poll_key_tegra
    [] Kind = "dummy" -> poll_key_dummy
PollKey ==
  /\ pc = "kernel" /\ KeyReady
  /\ keys' = Append(keys, Head(rxq)) /\ rxq' = Tail(rxq)
  /\ UNCHANGED <<table, opt, chosen, line, cfg, divisor, uart, up, stops, pc, todo,
                 polls, late, typed>>

\* break_detect: the 8250's eat the null character that comes with a break,
\* the others never detect one.
IsBreak == rxq # <<>> /\ Head(rxq) = Brk
break_detect_8250     == IsBreak
break_detect_8250_32b == IsBreak
break_detect_linflexd == FALSE
break_detect_pl011    == FALSE
break_detect_tegra    == FALSE
break_detect_dummy    == FALSE
stm32mp2_uart_break_detect == FALSE
Eats ==
  CASE Kind = "stm32mp2" -> stm32mp2_uart_break_detect
    [] Kind \in {"8250", "8250_pci"} -> break_detect_8250
    [] Kind = "8250_32b" -> break_detect_8250_32b [] Kind = "linflexd" -> break_detect_linflexd
    [] Kind = "pl011" -> break_detect_pl011       [] Kind = "tegra" -> break_detect_tegra
    [] Kind = "dummy" -> break_detect_dummy
BreakDetect ==
  /\ pc = "kernel" /\ Eats
  /\ rxq' = Tail(rxq)
  /\ UNCHANGED <<table, opt, chosen, line, cfg, divisor, uart, up, stops, pc, todo,
                 polls, late, keys, typed>>

-----------------------------------------------------------------------------
(* The serial driver on another CPU                                        *)

\* It disables the UART to set it up, and enables it again when it is
\* scheduled, which it is not while a callout polls.
DriverOff ==
  /\ stops /\ up /\ pc \in {"kernel", "poll", "write", "after"} /\ up' = FALSE
  /\ UNCHANGED <<table, opt, chosen, line, cfg, divisor, uart, stops, pc, todo, polls,
                 late, keyVars>>
DriverOn ==
  /\ ~ up /\ pc = "kernel" /\ up' = TRUE
  /\ UNCHANGED <<table, opt, chosen, line, cfg, divisor, uart, stops, pc, todo, polls,
                 late, keyVars>>

-----------------------------------------------------------------------------
Cpu  == \/ Select \/ Parse \/ Program \/ Put \/ HandOver \/ DisplayChar \/ Poll \/ WriteChar \/ PollAfter
Next == \/ Cpu \/ PollKey \/ BreakDetect \/ Send \/ Type \/ DriverOff \/ DriverOn

\* The CPU runs and the UART sends.
Spec == Init /\ [][Next]_vars /\ WF_vars(Cpu) /\ WF_vars(Send)

-----------------------------------------------------------------------------
(* Properties                                                              *)

FieldsOf(k) == IF Is8250(k) THEN <<"baud", "clk", "div">> ELSE <<"baud", "clk">>

\* The pieces of a line between its dots, from the left.
Piece(l, k) ==
  LET dots == {j \in 1 .. Len(l) : l[j] = Dot}
      from == {j \in dots \cup {0} : Cardinality({d \in dots : d <= j}) = k}
  IN  IF from = {} THEN <<>>
      ELSE SubSeq(l, Min(from) + 1, Min({j \in dots : j > Min(from)} \cup {Len(l) + 1}) - 1)

\* The set-up is what the lines say: on both channels each field comes from
\* the option if it gives one there, else from the device's defaults, else
\* from the driver; and the divisor programmed is the nearest to clock over
\* rate that its register can hold, or for the 8250 the next below; and the
\* callouts look where the start-up driver looked. Three
\* cases are left out: options that name no device, the fraction of the
\* pl011 that rounds up to 64, and the stm32mp2's rates above a 16th of its
\* clock, for which OVER8 is computed but not written.
FieldRight(k, f, n, v, defaults, options) ==
  v = IF Piece(options, n) # <<>> THEN Piece(options, n)[1]
      ELSE IF Piece(defaults, n) # <<>> THEN Piece(defaults, n)[1] ELSE BuiltIn(k)[f]
LinesRight ==
  \A c \in Channels :
    chosen[c] # 0 /\ Word \notin ToSet(line[c]) =>
      LET dev == table[chosen[c]]
          F(f, n) == FieldRight(dev.kind, f, n, cfg[c][f], dev.defaults[c + 1], line[c])
      IN  dev.kind # "dummy" =>
            /\ \A n \in 1 .. Len(FieldsOf(dev.kind)) : F(FieldsOf(dev.kind)[n], n)
            /\ IF dev.kind = "8250_pci"
               THEN \E l \in DOMAIN Bars : /\ cfg[c].base = BarAddr(Bars[l])
                                           /\ Space(Bars[l]) \in cfg[c].cmd
               ELSE F("base", 0)
Near(err, step) == 2 * err \in -step - 1 .. step + 1
RateRight ==
  /\ Kind = "stm32mp2" /\ C0.clk \div C0.baud \in 16 .. 65534 =>
       Near(divisor[1] * C0.baud - C0.clk, C0.baud)
  /\ Kind = "pl011" /\ divisor # <<>> /\ divisor[2] # 64 =>
       Near(((C0.clk \div 16) % C0.baud) * 64 - divisor[2] * C0.baud, C0.baud)
  /\ Is8250(Kind) /\ divisor # <<>> =>
       C0.clk - divisor[1] * C0.baud * C0.div \in 0 .. C0.baud * C0.div - 1
AddressRight ==
  /\ Kind \in {"8250", "8250_pci"} => patch_debug_8250 = chip_read8(REG_LS)
  /\ Kind = "8250_32b" => patch_debug_8250_32b = chip_read8(REG_LS)
ConfigRight == pc = "print" => LinesRight /\ RateRight /\ AddressRight

\* The keys of a sequence, its breaks apart.
NoBreaks(s) ==
  LET kept[j \in 0 .. Len(s)] ==
        IF j = 0 THEN << >>
        ELSE IF s[j] = Brk THEN kept[j - 1] ELSE Append(kept[j - 1], s[j])
  IN kept[Len(s)]

\* Nothing is lost on the line in either direction: what was written has
\* been sent or is in the transmitter, in order, what the loader had left
\* there included, and the keys returned are those typed, breaks apart. An
\* stm32mp2, which does not wait for the loader's characters, a UART that
\* its driver disables, and a linflexd after its callout has given up or
\* written into a transmitter that was full are left out.
LineRight ==
  /\ ~ stops /\ Kind # "linflexd" =>
       wire \o txq = given \/ (Kind = "stm32mp2" /\ wire \o txq = Tail(given))
  /\ NoBreaks(keys) \o NoBreaks(rxq) \o NoBreaks(typed) = NoBreaks(Keys)

\* A callout that limits its polls comes back to the kernel even when the
\* driver that has disabled the UART cannot run; the others do as long as
\* nobody disables it.
CalloutReturns ==
  (pc \in {"poll", "after"} /\ (Is8250(Kind) \/ Kind = "linflexd" \/ ~ stops)) ~> (pc = "kernel")
=============================================================================
