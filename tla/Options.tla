------------------------------ MODULE Options ------------------------------
(***************************************************************************)
(* The command line: arguments packed behind startup's header and those    *)
(* the firmware or the device tree adds to them, the vectors main() gets,  *)
(* getopt(), which goes through them once for main() and again for each    *)
(* later pass, and what the options set. A pass may cut an argument short  *)
(* in place. Strings are sequences of characters; a number is one.         *)
(***************************************************************************)
EXTENDS Integers, Sequences, FiniteSets, FiniteSetsExt, SequencesExt

CONSTANTS
  Lines,      \* command lines: what mkifs packed and what the firmware adds
  MaxArgs,    \* elements of argv[], less the last
  Half,       \* 128: argc is an int8_t, whose largest value is one less
  Kilo,       \* 1024
  Thousand,   \* 1000
  NumberOf    \* the numbers, which are single characters: their values

Nul == ""
Space == " "
Comma == ","
Dash == "-"
Colon == ":"
Tilde == "~"

VARIABLES
  line,        \* where the firmware's part comes from, and the device tree
  boot_args,   \* argc, envc, and the bytes from shdr_addr's on
  next_arg,    \* what tweak_cmdline has not yet given to a program
  argv,
  g,           \* getopt's state: optind, last_optind, cp, opts_str
  pass,        \* what startup is doing
  set,         \* what the options have set
  fdtp,        \* fdt, fdt_paddr and fdt_size
  seen         \* history: the options each pass has seen

vars == <<line, boot_args, next_arg, argv, g, pass, set, fdtp, seen>>

-----------------------------------------------------------------------------
(* Packed arguments: do_adjust                                             *)

\* The bytes, from 1; a string is followed by Nul.
Pack(l) == FlattenSeq([i \in 1 .. Len(l) |-> Append(l[i], Nul)])
\* The ends of the strings from p on, and where the one behind n of them begins.
Ends(m, p) == SelectSeq([i \in 1 .. Len(m) + 1 - p |-> p + i - 1], LAMBDA k : m[k] = Nul)
SkipStrings(m, p, n) == IF n = 0 THEN p ELSE Ends(m, p)[n] + 1
StringAt(m, p) == SubSeq(m, p, Ends(m, p)[1] - 1)

\* Mutant: what lies behind the change is moved by the new length alone.
Moved_NoOld(m, p, add, sub) == SubSeq(m, p, Len(m))

\* memmove(): what lies behind the strings that go, up to the end.
Moved(m, p, add, sub) == SubSeq(m, p + sub, Len(m))

\* An old string is replaced, deleted when new is Absent, or one added.
Absent == <<"absent">>
Int8(x) == ((x + Half) % (2 * Half)) - Half
do_adjust(b, old, new, first, count) ==
  LET at == [i \in 0 .. count |-> SkipStrings(b.mem, first, i)]
      hits == {i \in 0 .. count - 1 : old # Absent /\ StringAt(b.mem, at[i]) = old}
      p == IF hits # {} THEN at[Min(hits)] ELSE at[count]
      sub == IF hits # {} THEN Len(old) + 1 ELSE 0
      add == IF new = Absent THEN << >> ELSE Append(new, Nul)
  IN  IF old # Absent /\ hits = {} THEN [ret |-> 0, count |-> count, mem |-> b.mem]
      ELSE [ret |-> 1,
            count |-> Int8(IF new = Absent THEN count - 1 ELSE IF old = Absent THEN count + 1 ELSE count),
            mem |-> SubSeq(b.mem, 1, p - 1) \o add \o Moved(b.mem, p, Len(add), sub)]
bootstrap_arg_adjust(b, old, new) ==
  LET a == do_adjust(b, old, new, 1, b.argc) IN [b EXCEPT !.argc = a.count, !.mem = a.mem]
bootstrap_env_adjust(b, old, new) ==
  LET a == do_adjust(b, old, new, SkipStrings(b.mem, 1, b.argc), b.envc)
  IN  [b EXCEPT !.envc = a.count, !.mem = a.mem]

-----------------------------------------------------------------------------
(* The device tree: t.at are the addresses with one                        *)

NoFdt == [fdt |-> FALSE, paddr |-> 0, size |-> 0]
SizeAt(t, paddr) == IF paddr \in t.at THEN 1 ELSE 0
\* fdt_init(): a tree is mapped once, and the address kept, tree or not.
fdt_init(f, paddr, t) ==
  IF f.fdt THEN f ELSE [fdt |-> paddr \in t.at, paddr |-> paddr, size |-> SizeAt(t, paddr)]
\* fdt_init_bootopt(), at -u: from a register, or a word of the arguments
\* it points at. What is there and no tree stops startup.
fdt_init_bootopt(f, where, t) ==
  LET paddr == IF where = "reg" THEN t.reg ELSE t.arg IN
  IF f.paddr # 0 \/ f.size # 0 THEN [fdt |-> f, crash |-> FALSE]
  ELSE IF paddr = 0 \/ paddr % 4 # 0 THEN [fdt |-> [f EXCEPT !.paddr = paddr], crash |-> FALSE]
  ELSE [fdt |-> [fdt |-> TRUE, paddr |-> paddr, size |-> SizeAt(t, paddr)], crash |-> paddr \notin t.at]

-----------------------------------------------------------------------------
(* What the firmware or the device tree adds                               *)

\* find_next_arg(): the next word of a line and what is behind it.
Behind(s, k) == SubSeq(s, k, Len(s))
SkipSpaces(s) == Behind(s, Min({k \in 1 .. Len(s) + 1 : k = Len(s) + 1 \/ s[k] # Space}))
find_next_arg(str) ==
  LET s == SkipSpaces(str)
      e == Min({k \in 1 .. Len(s) + 1 : k = Len(s) + 1 \/ s[k] = Space})
  IN  <<SubSeq(s, 1, e - 1), Behind(s, e + 1)>>

\* efi_convert_command_line() is what the firmware passed, up to a Nul, and
\* efi_tweak_cmdline() drops its first word unless it is an option.
efi_convert_command_line(raw) ==
  SubSeq(raw, 1, Min({k \in 1 .. Len(raw) + 1 : k = Len(raw) + 1 \/ raw[k] = Nul}) - 1)
EfiLine(raw) ==
  LET l == efi_convert_command_line(raw)
      w == find_next_arg(l)
  IN  IF raw = << >> THEN Absent
      ELSE IF w[1] = << >> \/ w[1][1] = Dash THEN SkipSpaces(l) ELSE w[2]

\* Mutant: where there is no tree yet, there are no words either.
FdtLine_Once(l, f, n) ==
  IF f.fdt /\ l.raw # Absent /\ (n = 1 \/ l.room) THEN l.raw ELSE << >>

\* fdt_tweak_cmdline(): what the tree has as bootargs, if there is a tree, with
\* some, and workspace to copy them: once memory is known it may be used up.
FdtLine(l, f, n) ==
  IF f.fdt /\ l.raw # Absent /\ (n = 1 \/ l.room) THEN l.raw ELSE Absent

\* Words up to "--" are for one program; the rest waits for the next.
EndMark == <<Dash, Dash>>
Tweak(b, rest) ==
  LET Scan(s, i) ==
        LET w == find_next_arg(s.rest) IN
        IF s.done THEN s
        ELSE IF w[1] \in {<< >>, EndMark} THEN [s EXCEPT !.done = TRUE, !.rest = w[2]]
        ELSE [s EXCEPT !.b = bootstrap_arg_adjust(s.b, Absent, w[1]), !.rest = w[2]]
  IN  FoldLeft(Scan, [done |-> FALSE, b |-> b, rest |-> rest], [i \in 1 .. Len(rest) + 1 |-> i])
\* For the n-th program. Who finds no line tries again for the next one.
tweak_cmdline(b, l, rest, f, n) ==
  LET first == rest = Absent
      tree == IF first /\ l.from = "fdt" THEN fdt_init(f, l.tree.reg, l.tree) ELSE f
      r == IF ~ first \/ l.from = "none" THEN rest
           ELSE IF l.from = "efi" THEN EfiLine(l.raw) ELSE FdtLine(l, tree, n)
      t == Tweak(b, r)
  IN  IF r = Absent THEN [b |-> b, rest |-> Absent, fdt |-> tree]
      ELSE [b |-> t.b, rest |-> t.rest, fdt |-> tree]

\* setup_cmdline(): argv has room for MaxArgs strings, others are dropped.
setup_cmdline(b) ==
  [i \in 1 .. Min({b.argc, MaxArgs}) |-> StringAt(b.mem, SkipStrings(b.mem, 1, i - 1))]

-----------------------------------------------------------------------------
(* getopt()                                                                *)

\* Lists of options: which take an argument.
Takes(with, without) == [ch \in with \cup without |-> ch \in with]
End == [opt |-> "end", arg |-> << >>, at |-> <<1, 1>>]
Unknown == "?"

\* optind behind an option at position at: the word again while it has more.
NextInd(gs, word, at, takes) ==
  IF at < Len(word) /\ ~ takes THEN gs.optind ELSE gs.optind + 1

\* Words are counted from 0, as argv is; KeepOpts is the list of the call
\* before. An option comes with its argument, and where that is in argv.
KeepOpts == [ch \in {} |-> FALSE]
getopt(gs0, av, opts) ==
  LET g1 == [gs0 EXCEPT !.opts_str = IF opts = KeepOpts THEN @ ELSE opts]
      gs == IF g1.optind = 0 THEN [g1 EXCEPT !.optind = 1, !.last_optind = 0] ELSE g1
      fresh == gs.last_optind # gs.optind
      word == av[gs.optind + 1]
      at == IF fresh THEN 2 ELSE gs.cp
      ch == word[at]
      known == ch \in DOMAIN gs.opts_str
      takes == known /\ gs.opts_str[ch]
      after == [gs EXCEPT !.last_optind = gs.optind, !.cp = at + 1,
                          !.optind = IF known THEN NextInd(gs, word, at, takes) ELSE @ + 1]
      Got(s, opt, w, k) ==
        [g |-> s, res |-> [opt |-> opt, arg |-> Behind(av[w], k), at |-> <<w, k>>]]
      here == gs.optind + 1
  IN  IF gs.optind >= Len(av) THEN [g |-> gs, res |-> End]
      ELSE IF fresh /\ (word = << >> \/ word[1] # Dash \/ Len(word) = 1)
      THEN [g |-> [gs EXCEPT !.last_optind = gs.optind], res |-> End]
      ELSE IF ch = Dash THEN [g |-> [after EXCEPT !.optind = gs.optind + 1], res |-> End]
      ELSE IF ~ known THEN Got(after, Unknown, here, at)
      ELSE IF ~ takes THEN Got(after, ch, here, at)
      ELSE IF at < Len(word) THEN Got(after, ch, here, at + 1)
      ELSE IF after.optind < Len(av)
      THEN Got([after EXCEPT !.optind = @ + 1], ch, here + 1, 1)
      ELSE Got(after, Unknown, here, at)

-----------------------------------------------------------------------------
(* Values                                                                  *)

\* strtoul(), without the bases: the digits of a number are one character.
strtoul(s) ==
  IF s # << >> /\ s[1] \in DOMAIN NumberOf THEN [v |-> NumberOf[s[1]], rest |-> Tail(s)]
  ELSE [v |-> 0, rest |-> s]
FirstOf(s) == IF s = << >> THEN Nul ELSE s[1]
Scale(ch) == IF ch \in {"G", "g"} THEN Kilo * Kilo * Kilo
             ELSE IF ch \in {"M", "m"} THEN Kilo * Kilo ELSE IF ch \in {"K", "k"} THEN Kilo ELSE 1
getsize(s) ==
  LET n == strtoul(s) IN
  [v |-> n.v * Scale(FirstOf(n.rest)), rest |-> IF Scale(FirstOf(n.rest)) > 1 THEN Tail(n.rest) ELSE n.rest]

\* A comma and a value behind it, or none.
AfterComma(s, value) == IF FirstOf(s) = Comma THEN value ELSE [v |-> 0, rest |-> s]
\* strchr(): the rest behind the first ch, or Absent.
Find(s, ch) == LET k == {i \in 1 .. Len(s) : s[i] = ch} IN IF k = {} THEN 0 ELSE Min(k)
Fields(s) ==
  LET cuts == <<0>> \o SelectSeq([i \in 1 .. Len(s) |-> i], LAMBDA i : s[i] = Comma) \o <<Len(s) + 1>>
  IN  [i \in 1 .. Len(cuts) - 1 |-> SubSeq(s, cuts[i] + 1, cuts[i + 1] - 1)]

\* get_freq(): m, k and h scale, a small number without one is in MHz, and
\* an empty field keeps the frequency.
get_freq(s, f) ==
  LET n == strtoul(s)
      ch == FirstOf(n.rest)
      scale == IF ch \in {"m", "M"} THEN Thousand * Thousand ELSE IF ch \in {"k", "K"} THEN Thousand
               ELSE IF ch \notin {"h", "H"} /\ n.v < Thousand THEN Thousand * Thousand ELSE 1
      rest == IF ch \in {"m", "M", "k", "K", "h", "H"} THEN Tail(n.rest) ELSE n.rest
      given == n.rest # s
      end == IF given THEN rest ELSE s
  IN  [v |-> IF given THEN n.v * scale ELSE f, rest |-> IF FirstOf(end) = Comma THEN Tail(end) ELSE end]
Freqs(s, f) ==
  LET a == get_freq(s, f[1])
      b == get_freq(a.rest, f[2])
      c == get_freq(b.rest, f[3])
  IN  <<a.v, b.v, c.v, strtoul(c.rest).v>>

\* cpu_cluster_add() for each name:mask of -c, as long as one is taken; a
\* name may not begin with the system's prefix.
SystemPrefix == "$"
cpu_cluster_add(c, name, mask) ==
  IF FirstOf(name) = SystemPrefix \/ mask = 0 THEN c ELSE [n \in DOMAIN c \cup {name} |-> IF n = name THEN mask ELSE c[n]]
Clusters(c, s) ==
  LET Add(l, i) ==
        LET k == Find(l.rest, Colon)
            name == SubSeq(l.rest, 1, k - 1)
            n == strtoul(Behind(l.rest, k + 1))
        IN  IF l.stop \/ k = 0 THEN [l EXCEPT !.stop = TRUE]
            ELSE [c |-> cpu_cluster_add(l.c, name, n.v), rest |-> Behind(n.rest, 2),
                  stop |-> \/ FirstOf(n.rest) # Comma \/ n.v = 0 \/ FirstOf(name) = SystemPrefix]
  IN  FoldLeft(Add, [c |-> c, rest |-> s, stop |-> FALSE], [i \in 1 .. Len(s) |-> i]).c

\* -R size,align,name,low.
Reserved(s) ==
  LET size == getsize(s)
      align == AfterComma(size.rest, getsize(Tail(size.rest)))
      named == FirstOf(align.rest) = Comma
      name == Behind(align.rest, 2)
      k == IF named THEN Find(name, Comma) ELSE 0
  IN  [size |-> size.v, align |-> align.v, low_region |-> strtoul(Behind(name, IF k = 0 THEN Len(name) + 1 ELSE k + 1)).v,
       name |-> IF ~ named THEN Absent ELSE IF k = 0 THEN name ELSE SubSeq(name, 1, k - 1)]

\* An address and a size; without a size there is no area.
Area(s) ==
  LET addr == getsize(s)
      size == AfterComma(addr.rest, getsize(Tail(addr.rest)))
  IN  IF FirstOf(addr.rest) # Comma THEN << >> ELSE <<<<addr.v, size.v, AfterComma(size.rest, strtoul(Tail(size.rest))).v>>>>

-----------------------------------------------------------------------------
(* What an option sets                                                     *)

Default ==
  [secure_system |-> FALSE, clusters |-> [n \in {} |-> 0], debug |-> [ch \in {} |-> << >>],
   freqs |-> <<0, 0, 0, 0>>, hostname |-> Absent, reserved |-> << >>, avoided |-> << >>,
   no_boottime |-> FALSE, max_cpus |-> 0, debug_flag |-> 0, nanospin |-> << >>, in_hvc |-> FALSE,
   snooped |-> FALSE, page |-> 0, errata |-> [e \in {"meltdown", "spectrev2", "ssbs"} |-> "cpu"],
   pauth |-> FALSE, sve |-> FALSE, fdt_boot_option |-> "none", hyp |-> {"enabled"},
   watchdog |-> FALSE, flags_on |-> {}, flags_off |-> {}, abnormal |-> FALSE, ram |-> << >>,
   jtag |-> << >>, tickless |-> FALSE, sections |-> << >>, crashed |-> FALSE]

\* The lists of -X, -E and -e: each known word sets something.
ExtOpt(s, f) ==
  LET page == strtoul(Behind(f, 3)).v IN
  IF f = <<"cachesnooped">> THEN [s EXCEPT !.snooped = TRUE]
  ELSE IF FirstOf(f) = "pagesize" THEN [s EXCEPT !.page = page, !.crashed = @ \/ page \notin {4, 64}]
  ELSE s
Erratum(s, f) ==
  IF f # << >> /\ Last(f) \in DOMAIN s.errata
  THEN [s EXCEPT !.errata[Last(f)] = IF f[1] = Tilde THEN "off" ELSE "on"] ELSE s
CpuExt(s, f) == IF f = <<"sve">> THEN [s EXCEPT !.sve = TRUE] ELSE s

\* -Q: the four texts there are.
HypOption(arg) ==
  IF arg = <<"enable">> THEN {"enabled"} ELSE IF arg = <<"disable">> THEN {}
  ELSE IF arg = <<"enable", Comma, "el1-host">> THEN {"enabled", "el1"}
  ELSE IF arg = <<"enable", Comma, "el2-host">> THEN {"enabled", "el2"} ELSE {"invalid"}

cpu_handle_common_option(s, opt, arg) ==
  IF opt = "X" THEN FoldLeft(ExtOpt, s, Fields(arg))
  ELSE IF opt = "E" THEN FoldLeft(Erratum, s, Fields(arg))
  ELSE IF opt = "e" THEN FoldLeft(CpuExt, s, Fields(arg))
  ELSE IF opt = "U" THEN [s EXCEPT !.pauth = TRUE]
  ELSE IF opt = "u" THEN [s EXCEPT !.fdt_boot_option = IF arg = <<"arg">> THEN "args" ELSE "reg"]
  ELSE [s EXCEPT !.hyp = HypOption(arg)]

\* main()'s pass.
Switch == [C |-> "secure_system", T |-> "no_boottime", H |-> "in_hvc", W |-> "watchdog"]
handle_common_option(s, opt, arg) ==
  IF opt \in {"X", "E", "e", "U", "u", "Q"} THEN cpu_handle_common_option(s, opt, arg)
  ELSE IF opt \in DOMAIN Switch THEN [s EXCEPT ![Switch[opt]] = TRUE]
  ELSE IF opt = "c" THEN [s EXCEPT !.clusters = Clusters(@, arg)]
  ELSE IF opt \in {"D", "K"} THEN [s EXCEPT !.debug = [ch \in DOMAIN @ \cup {opt} |-> IF ch = opt THEN arg ELSE @[ch]]]
  ELSE IF opt = "f" THEN [s EXCEPT !.freqs = Freqs(arg, @)]
  ELSE IF opt = "N" THEN [s EXCEPT !.hostname = arg]
  ELSE IF opt = "R" THEN [s EXCEPT !.reserved = <<Reserved(arg)>> \o @]
  ELSE IF opt = "r" THEN [s EXCEPT !.avoided = @ \o Area(arg)]
  ELSE IF opt = "P" THEN [s EXCEPT !.max_cpus = IF strtoul(arg).v > 0 THEN strtoul(arg).v ELSE @]
  ELSE IF opt = "v" THEN [s EXCEPT !.debug_flag = @ + 1]
  ELSE IF opt = "o" /\ FirstOf(strtoul(arg).rest) = Comma
  THEN [s EXCEPT !.nanospin = <<strtoul(arg).v, strtoul(Tail(strtoul(arg).rest)).v>>]
  ELSE s

\* The passes of init_system_private() and print_syspage(). A flag is a
\* number here and a set of bits in the code.
Flag(s, arg) ==
  LET off == FirstOf(arg) = Tilde
      f == {strtoul(IF off THEN Tail(arg) ELSE arg).v}
  IN  IF off THEN [s EXCEPT !.flags_off = @ \cup f, !.flags_on = @ \ f]
      ELSE [s EXCEPT !.flags_on = @ \cup f, !.flags_off = @ \ f]
Later(s, opt, arg) ==
  IF opt = "A" THEN [s EXCEPT !.abnormal = TRUE]
  ELSE IF opt = "Z" THEN [s EXCEPT !.tickless = TRUE]
  ELSE IF opt = "M" /\ Area(arg) = << >> THEN [s EXCEPT !.crashed = TRUE]
  ELSE IF opt = "M" THEN [s EXCEPT !.ram = Append(@, Area(arg)[1])]
  ELSE IF opt = "r" THEN [s EXCEPT !.jtag = @ \o Area(arg)]
  ELSE IF opt = "j" THEN [s EXCEPT !.jtag = Append(@, <<getsize(arg).v, 0, 0>>)]
  ELSE s
Handle(p, s, opt, arg) ==
  CASE p = "main" -> handle_common_option(s, opt, arg)
    [] p = "flags" -> IF opt = "F" THEN Flag(s, arg) ELSE s
    [] p = "more" -> Later(s, opt, arg)
    [] p = "print" -> IF opt = "S" THEN [s EXCEPT !.sections = Append(@, arg)] ELSE s

\* -c and -R write a Nul into their argument: where they do, from its start.
CutAt(p, opt, arg) ==
  IF p # "main" THEN 0
  ELSE IF opt = "c" THEN Find(arg, Colon)
  ELSE IF opt = "R" /\ Cardinality({i \in 1 .. Len(arg) : arg[i] = Comma}) > 2
  THEN Max({i \in 1 .. Len(arg) : Cardinality({j \in 1 .. i - 1 : arg[j] = Comma}) = 2}) 
  ELSE 0

-----------------------------------------------------------------------------
(* Start-up                                                                *)

\* A line tells what is meant (desc, env, extra) and how it is written.
Bytes(args, env) == Pack(args) \o Pack(env) \o <<"shdr">>
Packed(args, env) == [argc |-> Len(args), envc |-> Len(env), mem |-> Bytes(args, env)]
Init ==
  /\ line \in Lines
  /\ boot_args = <<Packed(line.args, line.env), Packed(line.args2, << >>)>>
  /\ next_arg = Absent /\ argv = << >> /\ pass = "adjust"
  /\ g = [optind |-> 0, last_optind |-> 0, cp |-> 1, opts_str |-> KeepOpts]
  /\ set = Default /\ fdtp = NoFdt
  /\ seen = [p \in {"main", "flags", "more", "print"} |-> << >>]

Go(from, to) == pass = from /\ pass' = to

\* A board's tweak_cmdline() changes what mkifs packed.
Adjust ==
  /\ Go("adjust", "tweak")
  /\ boot_args' = [boot_args EXCEPT ![1] =
       FoldLeft(LAMBDA b, a : IF a.env THEN bootstrap_env_adjust(b, a.old, a.new)
                              ELSE bootstrap_arg_adjust(b, a.old, a.new), @, line.adjust)]
  /\ UNCHANGED <<line, next_arg, argv, g, set, fdtp, seen>>

\* tweak_cmdline() for startup, and for the program it loads.
TweakFor(n, from, to) ==
  LET t == tweak_cmdline(boot_args[n], line, next_arg, fdtp, n) IN
  /\ Go(from, to)
  /\ boot_args' = [boot_args EXCEPT ![n] = t.b] /\ next_arg' = t.rest /\ fdtp' = t.fdt
TweakStartup ==
  /\ TweakFor(1, "tweak", "setup") /\ UNCHANGED <<line, argv, g, set, seen>>
SetupCmdline ==
  /\ Go("setup", "main") /\ argv' = setup_cmdline(boot_args[1])
  /\ UNCHANGED <<line, boot_args, next_arg, g, set, fdtp, seen>>
TweakBootstrap ==
  /\ TweakFor(2, "load", "more") /\ UNCHANGED <<line, argv, g, set, seen>>

\* One round of a pass, and its end. Later passes begin again and keep the
\* list of options; print_syspage() has a list of its own.
MainOpts ==
  Takes({"Q", "E", "X", "u", "e", "c", "D", "F", "f", "I", "i", "K", "M", "N", "o", "P", "R", "S", "r", "j"},
        {"U", "A", "C", "T", "v", "Z", "H", "W"})
OptsOf(p) == IF p = "main" THEN MainOpts ELSE IF p = "print" THEN Takes({"S"}, {}) ELSE KeepOpts
PassAfter(p) == CASE p = "main" -> "flags" [] p = "flags" -> "load"
              [] p = "more" -> "reserve" [] p = "print" -> "done"
Passes == {"main", "flags", "more", "print"}
Option ==
  /\ pass \in Passes
  /\ LET got == getopt(g, argv, OptsOf(pass))
         res == got.res
         cut == CutAt(pass, res.opt, res.arg)
         opted == pass = "main" /\ res.opt = "u"
         boot == fdt_init_bootopt(fdtp, IF res.arg = <<"arg">> THEN "args" ELSE "reg", line.tree)
     IN  /\ res.opt # "end" /\ g' = got.g
         /\ set' = [Handle(pass, set, res.opt, res.arg) EXCEPT
                      !.crashed = @ \/ set.crashed \/ (opted /\ boot.crash)]
         /\ fdtp' = IF opted THEN boot.fdt ELSE fdtp
         /\ seen' = [seen EXCEPT ![pass] = Append(@, <<res.opt, res.arg>>)]
         /\ argv' = IF cut = 0 THEN argv
                    ELSE [argv EXCEPT ![res.at[1]] = SubSeq(@, 1, res.at[2] + cut - 2)]
  /\ ~ set.crashed
  /\ UNCHANGED <<line, boot_args, next_arg, pass>>
EndPass ==
  /\ pass \in Passes /\ ~ set.crashed
  /\ getopt(g, argv, OptsOf(pass)).res.opt = "end"
  /\ pass' = PassAfter(pass) /\ g' = [getopt(g, argv, OptsOf(pass)).g EXCEPT !.optind = 0]
  /\ UNCHANGED <<line, boot_args, next_arg, argv, set, fdtp, seen>>

\* The memory -R asks for is reserved, the last option first; then the page
\* is printed with -v twice.
Reserve ==
  /\ pass = "reserve"
  /\ pass' = IF set.debug_flag > 1 THEN "print" ELSE "done"
  /\ UNCHANGED <<line, boot_args, next_arg, argv, g, set, fdtp, seen>>

Next ==
  \/ Adjust \/ TweakStartup \/ SetupCmdline \/ Option \/ EndPass \/ TweakBootstrap \/ Reserve
Spec == Init /\ [][Next]_vars

-----------------------------------------------------------------------------
(* Properties                                                              *)

\* The strings of packed arguments.
ArgsOf(b) == [i \in 1 .. b.argc |-> StringAt(b.mem, SkipStrings(b.mem, 1, i - 1))]
EnvOf(b) == [i \in 1 .. b.envc |-> StringAt(b.mem, SkipStrings(b.mem, 1, b.argc + i - 1))]

\* What is packed behind each program stays what was meant, whatever was
\* replaced, deleted or added: the arguments, the environment behind them
\* and the hidden address of the header at the end; each program gets the
\* words the firmware has for it. The words of a device tree begin with the
\* first program for which there is a tree with some.
ArgsRight ==
  LET b1 == boot_args[1]
      b2 == boot_args[2]
      Got(b, args) == ArgsOf(b) = args /\ b.mem = Bytes(args, EnvOf(b))
  IN  /\ pass \notin {"adjust", "tweak"} =>
           Got(b1, line.meant \o line.extra[1]) /\ EnvOf(b1) = line.meantenv
      /\ pass \in {"more", "reserve", "print", "done"} => Got(b2, line.args2 \o line.extra[2])

\* Every pass that uses main()'s list sees the options main() saw, with
\* their arguments, joined or not, but for the ends -c and -R cut off; with
\* words beyond MaxArgs, those behind are not there, or an argument is not.
Same(a, b) == a[1] = b[1] /\ (a[1] \in {"c", "R"} \/ a[2] = b[2] \/ ~ MainOpts[a[1]])
Agree(a, b) == Len(a) <= Len(b) /\ \A i \in 1 .. Len(a) : Same(a[i], b[i])
SeenRight ==
  LET Complete(p) == pass \in {"reserve", "print", "done"} \/ (p = "main" /\ pass \in {"flags", "load", "more"}) IN
  \A p \in {"main", "flags", "more"} :
    /\ Agree(seen[p], line.desc)
    /\ (Complete(p) /\ ~ set.crashed) => Len(seen[p]) = Len(line.desc)

\* What the options set is what the whole line asks for: the last word on a
\* flag or an erratum counts, clusters and areas add up in their order.
SetRight ==
  pass \in {"reserve", "print", "done"} /\ ~ set.crashed =>
    \A f \in DOMAIN line.want : set[f] = line.want[f]

\* However often the list of options is gone through, and cut up, by
\* getopt(), it means the same.
OptionsRight == SeenRight /\ SetRight

\* init_system_private.c says getopt() needs the full list of options "to
\* parse the options properly"; print_syspage() must find every -S, too.
SectionsSeen ==
  pass = "done" /\ set.debug_flag > 1 =>
    set.sections = [i \in 1 .. Len(line.S) |-> line.S[i]]
=============================================================================
