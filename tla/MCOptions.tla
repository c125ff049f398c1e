----------------------------- MODULE MCOptions -----------------------------
(***************************************************************************)
(* Command lines made from what they mean: each list of options is written *)
(* with arguments apart and joined and with switches in clusters; a part   *)
(* of it comes from the firmware or the device tree, and the board changes *)
(* what mkifs packed. Some have more words than argv has room for.         *)
(***************************************************************************)
EXTENDS Options, TLC

MCNumberOf == [x \in {"0", "1", "2", "3", "4", "5", "8", "24", "800", "4096"} |->
                 CASE x = "0" -> 0 [] x = "1" -> 1 [] x = "2" -> 2 [] x = "3" -> 3 [] x = "4" -> 4
                   [] x = "5" -> 5 [] x = "8" -> 8 [] x = "24" -> 24 [] x = "800" -> 800 [] x = "4096" -> 4096]

\* Words for a list of options: "apart", "joined", or switches "clustered".
Write(desc, style) ==
  LET Put(ws, d) ==
        LET takes == MainOpts[d[1]]
            prev == IF ws = << >> THEN << >> ELSE Last(ws)
            open == style = "clustered" /\ Len(prev) > 1 /\ prev[1] = Dash
                    /\ \A k \in 2 .. Len(prev) : prev[k] \in DOMAIN MainOpts /\ ~ MainOpts[prev[k]]
            word == IF open THEN Append(prev, d[1]) ELSE <<Dash, d[1]>>
            before == IF open THEN Front(ws) ELSE ws
        IN  IF takes /\ (style = "apart" \/ d[2] = << >>) THEN before \o <<word, d[2]>>
            ELSE Append(before, IF takes THEN word \o d[2] ELSE word)
  IN  FoldLeft(Put, << >>, desc)

Spaced(ws) == FlattenSeq([i \in 1 .. Len(ws) |-> ws[i] \o <<Space>>])
StartupName == <<"startup">>
Env == <<<<"A", "1">>, <<"B">>>>
O(ch, arg) == <<ch, arg>>
Sw(ch) == <<ch, << >>>>
NoTree == [reg |-> 0, arg |-> 0, at |-> {}]

\* A plan for a line: its options, of which n are with mkifs and the others
\* with the firmware, where program to (0 for none) is the first to get words;
\* from none, mkifs has all. more are words behind mkifs's.
Plan(desc, n, want) ==
  [desc |-> desc, style |-> "joined", n |-> n, from |-> "none", to |-> 0, tree |-> NoTree, adjust |-> "none",
   bootargs |-> TRUE, room |-> TRUE, more |-> << >>, want |-> want]

\* Startup finds the options that argv has room for: the last may lack its
\* argument.
Line(x) ==
  LET words == [k \in 0 .. Len(x.desc) |->
                  <<StartupName>> \o Write(SubSeq(x.desc, 1, Min({k, x.n})), x.style)
                    \o (IF k < x.n THEN << >> ELSE x.more \o Write(SubSeq(x.desc, x.n + 1, k), x.style))]
      mine == words[x.n]
      more == SubSeq(words[Len(x.desc)], Len(mine) + 1, Len(words[Len(x.desc)]))
      split == x.from # "none"
      last == IF split /\ x.to # 1 THEN x.n ELSE Len(x.desc)
      kept == Max({k \in 0 .. last : Len(words[k]) <= MaxArgs} \cup {0})
      found == SubSeq(x.desc, 1, kept)
               \o IF kept < last /\ Len(words[kept]) < MaxArgs THEN <<O("?", <<x.desc[kept + 1][1]>>)>> ELSE << >>
      sections == SelectSeq(found, LAMBDA d : d[1] = "S")
      replaced == x.adjust # "none"
      words2 == <<<<Dash, "q">>>>
  IN  [desc |-> found,
       args |-> (IF replaced THEN <<<<"old">>, <<"gone">>>> ELSE <<StartupName>>) \o Tail(mine)
                  \o (IF split THEN << >> ELSE more),
       env |-> IF replaced THEN Append(Env, <<"C">>) ELSE Env,
       args2 |-> <<<<"procnto">>>>,
       adjust |-> IF ~ replaced THEN << >>
                  ELSE <<[env |-> FALSE, old |-> <<"gone">>, new |-> Absent],
                         [env |-> FALSE, old |-> <<"old">>, new |-> StartupName],
                         [env |-> FALSE, old |-> <<"none">>, new |-> <<"x">>],
                         [env |-> TRUE, old |-> <<"A", "1">>, new |-> <<"A", "2", "3">>],
                         [env |-> TRUE, old |-> <<"B">>, new |-> Absent],
                         [env |-> TRUE, old |-> Absent, new |-> <<"D">>]>>,
       meant |-> mine \o (IF split THEN << >> ELSE more),
       meantenv |-> IF replaced THEN <<<<"A", "2", "3">>, <<"C">>, <<"D">>>> ELSE Env,
       extra |-> IF x.to = 1 THEN <<more, words2>> ELSE IF x.to = 2 THEN <<<< >>, more>> ELSE <<<< >>, << >>>>,
       from |-> x.from,
       raw |-> IF ~ x.bootargs THEN Absent
               ELSE (IF x.from = "efi" THEN Spaced(<<<<"loader">>>>) ELSE << >>)
                      \o Spaced(more) \o <<Space>> \o Spaced(<<EndMark>> \o words2)
                      \o (IF x.from = "efi" THEN <<Nul, "z">> ELSE << >>),
       room |-> x.room, tree |-> x.tree,
       S |-> [i \in 1 .. Len(sections) |-> sections[i][2]],
       want |-> x.want]

Memory ==
  <<O("r", <<"4096", Comma, "8">>), Sw("v"), Sw("T"),
    O("R", <<"2", "M", Comma, "4", Comma, "lo", Comma, "1">>), O("M", <<"1", "M", Comma, "4", "K", Comma, "1">>),
    O("R", <<"3">>), O("j", <<"4", "k">>), O("S", <<"cpu">>), Sw("v"),
    O("N", <<"host">>)>>
MemoryWant ==
  [hostname |-> <<"host">>, avoided |-> <<<<4096, 8, 0>>>>, debug_flag |-> 2, no_boottime |-> TRUE,
   reserved |-> <<[size |-> 3, align |-> 0, low_region |-> 0, name |-> Absent],
                  [size |-> 2 * Kilo * Kilo, align |-> 4, low_region |-> 1, name |-> <<"lo">>]>>,
   ram |-> <<<<Kilo * Kilo, 4 * Kilo, 1>>>>, jtag |-> <<<<4096, 8, 0>>, <<4 * Kilo, 0, 0>>>>]

Cpus ==
  <<O("c", <<"big", Colon, "3", Comma, "all", Colon, "5", Comma, "big", Colon, "1">>), Sw("U"),
    O("P", <<"2">>), O("X", <<"pagesize", "=", "4", Comma, "cachesnooped">>),
    O("e", <<"sve">>), O("Q", <<"enable", Comma, "el2-host">>), Sw("A"), Sw("Z")>>
CpusWant ==
  [clusters |-> (<<"big">> :> 1) @@ (<<"all">> :> 5), max_cpus |-> 2, page |-> 4, snooped |-> TRUE, sve |-> TRUE,
   pauth |-> TRUE, hyp |-> {"enabled", "el2"}, abnormal |-> TRUE, tickless |-> TRUE]
Core ==
  <<O("E", <<Tilde, "meltdown", Comma, "ssbs", Comma, "odd">>), O("E", <<"meltdown">>),
    O("f", <<"800", Comma, "24", "m", Comma, Comma, "5">>), O("f", <<Comma, "2", "k">>), O("K", <<"x">>), Sw("H")>>
CoreWant ==
  [errata |-> [meltdown |-> "on", spectrev2 |-> "cpu", ssbs |-> "on"],
   freqs |-> <<800 * Thousand * Thousand, 2 * Thousand, 0, 0>>, debug |-> ("K" :> <<"x">>), in_hvc |-> TRUE]

Flags ==
  <<Sw("C"), Sw("H"), O("F", <<"8">>), Sw("W"), O("F", <<Tilde, "8">>), O("F", <<"1">>), O("F", <<Tilde, "2">>),
    O("o", <<"5", Comma, "2">>), O("F", <<"2">>), O("D", << >>)>>
FlagsWant ==
  [secure_system |-> TRUE, in_hvc |-> TRUE, watchdog |-> TRUE, flags_on |-> {1, 2}, flags_off |-> {8},
   nanospin |-> <<5, 2>>, debug |-> ("D" :> << >>)]

Styles == {"apart", "joined", "clustered"}

\* More words than argv holds: of the last options one loses its argument
\* and the rest is not there, or two are not there, or all are.
Long == Flags \o Cpus \o <<Sw("T")>>
LongWant(style) ==
  (CASE style = "apart" -> [f \in DOMAIN CpusWant \cup {"no_boottime"} |-> Default[f]]
     [] style = "joined" -> [tickless |-> FALSE, no_boottime |-> FALSE] @@ CpusWant
     [] style = "clustered" -> [no_boottime |-> TRUE] @@ CpusWant) @@ FlagsWant

\* As many arguments as the counter in boot_args can hold: one of the
\* firmware's, that argv has no room for, or one that the board deletes.
Crowd(n) == [i \in 1 .. n |-> <<"x">>]
NotSeen == Plan(<<Sw("v")>>, 0, [debug_flag |-> 0])
FullPlans ==
  {[NotSeen EXCEPT !.from = "efi", !.to = 1, !.more = Crowd(Half - 3)],
   [NotSeen EXCEPT !.adjust = "some", !.more = Crowd(Half - 4)]}

\* Where trees are, and the program whose words come first, with -u first or
\* with bootargs only, in a tree at the register, or none.
A8 == [reg |-> 8, arg |-> 4, at |-> {4, 8}]     \* at either address
Late == [reg |-> 0, arg |-> 4, at |-> {4}]      \* no address in the register
Odd == [reg |-> 3, arg |-> 4, at |-> {}]
Other == [reg |-> 8, arg |-> 4, at |-> {4}]     \* a wrong one
\* The first program for which there are words: where the register's tree is
\* not there, -u may have brought one, if the register had no address.
First(u, t, bootargs, room) ==
  IF ~ bootargs THEN 0 ELSE IF t = A8 THEN 1 ELSE IF t = Late /\ u = "arg" /\ room THEN 2 ELSE 0
TreePlans ==
  {[Plan(<<O("u", <<a>>), Sw("v"), O("u", <<b>>)>>, 2, [debug_flag |-> 1]) EXCEPT
      !.from = f, !.to = IF f = "fdt" THEN First(a, t, has, room) ELSE 0, !.tree = t, !.bootargs = has, !.room = room] :
   a \in {"arg", "reg"}, b \in {"arg", "reg"}, f \in {"none", "fdt"}, t \in {A8, Late, Odd, Other},
   has \in BOOLEAN, room \in BOOLEAN}

\* The lists above in every style, from where and changed how they are.
StyledPlans ==
  {[Plan(Memory, 10, MemoryWant) EXCEPT !.style = s, !.adjust = "some"] : s \in Styles}
  \cup {[Plan(Cpus, n, CpusWant) EXCEPT !.style = s, !.from = f, !.to = 1, !.tree = A8] :
           s \in Styles, f \in {"efi", "fdt"}, n \in {0, 5}}
  \cup {[Plan(Core, 2, CoreWant) EXCEPT !.style = s, !.from = "efi", !.to = 1] : s \in Styles}
  \cup {[Plan(Flags, 10, FlagsWant) EXCEPT !.style = s, !.adjust = a] : s \in Styles, a \in {"none", "some"}}
  \cup {[Plan(Long, 10, LongWant(s)) EXCEPT !.style = s, !.from = f, !.to = IF f = "efi" THEN 1 ELSE 0,
            !.adjust = IF f = "efi" THEN "none" ELSE "some"] : s \in Styles, f \in {"efi", "none"}}
MCLines == {Line(x) : x \in StyledPlans \cup FullPlans \cup TreePlans}
=============================================================================
