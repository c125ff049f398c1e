------------------------------- MODULE MCFdt -------------------------------
(***************************************************************************)
(* Device trees encoded from what they mean. Two trees for interrupts: a   *)
(* controller found through the root, by phandle, through a node without   *)
(* cells, a phandle nobody has, a long one, and a loop. Three for CPUs:    *)
(* release addresses of their own, one for all, and a CPU without.         *)
(***************************************************************************)
EXTENDS Fdt

P(len, cells) == [len |-> len, cells |-> cells, str |-> << >>, nul |-> FALSE]
Cells(c) == P(4 * Len(c), c)
Str(s) == [len |-> 4, cells |-> << >>, str |-> <<s>>, nul |-> TRUE]
N(up, name, unit, prop) ==
  [up |-> Step * (up - 1), name |-> name, unit |-> unit,
   number |-> IF unit = "1" THEN 1 ELSE IF unit = "9" THEN 9 ELSE None, prop |-> prop]
Empty == [x \in {} |-> 0]

\* A node whose reg is a list of addresses and sizes, written with the
\* cells its parent says.
Digits(v, n) == IF n = 2 THEN <<v \div CellBase, v % CellBase>> ELSE IF n = 1 THEN <<v>> ELSE << >>
Encode(l, ac, sc) ==
  Cells(FlattenSeq([i \in 1 .. Len(l) |-> Digits(l[i][1], ac) \o Digits(l[i][2], sc)]))
Bus(ac, sc) == ("#address-cells" :> Cells(<<ac>>)) @@ ("#size-cells" :> Cells(<<sc>>))

\* Buses of every width with a device of two areas behind each.
Ranges(ac, sc) == <<<<IF ac = 2 THEN 37 ELSE 5, IF sc = 2 THEN 21 ELSE 3>>, <<7, 2>>>>
Widths == <<<<1, 0>>, <<1, 1>>, <<2, 1>>, <<2, 2>>, <<3, 1>>>>
BusNodes(i) ==
  LET w == Widths[i] IN
  <<N(1, "bus", "9", Bus(w[1], w[2])),
    N(2 * i, "dev", IF i = 1 THEN "x" ELSE "9",
      IF w[1] = 3 THEN ("reg" :> Cells(<<1, 2, 3, 4>>)) ELSE ("reg" :> Encode(Ranges(w[1], w[2]), w[1], w[2])))>>
RegTree ==
  [addr |-> 1,
   nodes |-> <<N(1, "", "", Bus(2, 1))>> \o FlattenSeq([i \in 1 .. 5 |-> BusNodes(i)])
             \o <<N(1, "odd", "1", Empty), N(2, "odd", "1", ("reg" :> Cells(<<1>>)))>>]

Gic == ("#interrupt-cells" :> Cells(<<2>>)) @@ ("phandle" :> Cells(<<4>>))
       @@ ("interrupt-controller" :> P(0, << >>))
Dev(x) == ("interrupts" :> Cells(<<1, 8, 0, 9>>)) @@ x
IntrTree(addr, cells) ==
  [addr |-> addr,
   nodes |-> <<
     N(1, "", "", ("interrupt-parent" :> Cells(<<4>>))),
     N(1, "pic", "1", [Gic EXCEPT !["#interrupt-cells"] = Cells(<<cells>>)]),
     N(1, "a", "", Dev(Empty)),
     N(1, "b", "", Dev("interrupt-parent" :> Cells(<<5>>))),
     N(1, "nexus", "", ("phandle" :> Cells(<<5>>))),
     N(1, "c", "", Dev("interrupt-parent" :> Cells(<<6>>))),
     N(1, "d", "", Dev("interrupt-parent" :> Cells(<<4, 4>>))),
     N(1, "e", "", Dev("interrupt-parent" :> Cells(<<7>>))),
     N(1, "ring", "", ("phandle" :> Cells(<<7>>)) @@ ("interrupt-parent" :> Cells(<<7>>)))>>]

\* CPUs by release address and number, behind what start-up reads besides.
CpuNode(x) ==
  N(2, "cpu", "", ("device_type" :> Str("cpu"))
      @@ (IF x[1] = << >> THEN Empty ELSE ("cpu-release-addr" :> Cells(x[1])))
      @@ (IF x[2] = << >> THEN Empty ELSE ("reg" :> Cells(x[2]))))
CpuTree(addr, l) ==
  [addr |-> addr,
   nodes |-> <<N(1, "", "", Bus(1, 0)), N(1, "cpus", "", Bus(1, 0))>>
             \o [i \in 1 .. Len(l) |-> CpuNode(l[i])]]
MCTrees ==
  {IntrTree(1, 2), IntrTree(2, 1),
   CpuTree(3, <<<<<< >>, <<0>>>>, <<<<6>>, <<1>>>>, <<<<7>>, <<2>>>>>>),
   CpuTree(4, <<<<<< >>, <<0>>>>, <<<<0, 6>>, <<1>>>>, <<<<0, 6>>, <<2>>>>, <<<<6>>, <<0, 3>>>>>>),
   CpuTree(5, <<<<<< >>, <<0>>>>, <<<<6>>, <<1>>>>, <<<<7>>, <<2, 1, 3>>>>>>),
   CpuTree(6, <<<<<< >>, <<0>>>>, <<<<6>>, <<1>>>>, <<<< >>, <<2>>>>>>)}

\* What drivers read with the helpers is what the tree was made from.
RegRight ==
  \A i \in 1 .. 5 :
    LET w == Widths[i]
        node == Step * (2 * i)
        Want(k, num) ==
          [e \in 1 .. Min({num, 2 - k}) |->
             <<Ranges(w[1], w[2])[k + e][1], IF w[2] = 0 THEN None ELSE Ranges(w[1], w[2])[k + e][2]>>]
        want == IF w[2] = 0 THEN {"addr"} ELSE {"addr", "size"}
    IN  IF w[1] = 3 THEN fdt_get_reg64(RegTree, node, 0, want) = Error(BADNCELLS)
        ELSE \A k \in 0 .. 1, num \in 0 .. 3 :
               fdt_get_reg64_cells(RegTree, node, k, num, want) = Answer(2 - k, Want(k, num))

\* A board: its timer, how firmware is called, nodes of two types.
Type(x) == IF x = "" THEN Empty ELSE "device_type" :> (IF x = "bad" THEN P(3, << >>) ELSE Str(x))
Compat(s) == "compatible" :> [Str(s) EXCEPT !.str = <<"x", s>>]
Kinds == <<"", "cpu", "CPU", "x", "bad", "cpu">>
Reg(i) == i + 3      \* the last two are beyond what an int holds
Board(d) ==
  [addr |-> 1,
   nodes |-> <<
     N(1, "", "", Bus(1, 0)),
     N(1, "timer", "", Compat("arm,armv8-timer") @@ ("clock-frequency" :> Cells(<<d.freq>>))
       @@ ("interrupts" :> Cells(<<1, 13, 8, 1, 14, 8, d.spi, d.intr, 8>>))),
     N(1, "psci", "", Compat("arm,psci") @@ ("cpu_on" :> Cells(<<d.on>>)) @@ ("method" :> Str(d.method)))>>
     \o [i \in 1 .. 6 |-> N(1, "k", IF i % 2 = 1 THEN "1" ELSE "", Type(Kinds[i]) @@ Compat("k")
                              @@ ("cpu-frequency" :> Cells(<<d.freq, 1>>)) @@ ("reg" :> Cells(<<Reg(i)>>)))]]
TimerBoards == [freq : {1, 9}, intr : {11, 2}, spi : 0 .. 1, on : {2}, method : {"smc", "hvc", "svc"}]

\* The nodes a search finds when it is started again behind each hit.
Found(Find(_), n) ==
  FoldLeft(LAMBDA l, i : IF l # << >> /\ Last(l) < 0 THEN l ELSE Append(l, Find(IF l = << >> THEN -1 ELSE Last(l))),
           << >>, [i \in 1 .. n |-> i])
Places(is) == [i \in 1 .. Len(is) |-> IF is[i] < 0 THEN is[i] ELSE (is[i] \div Step) - 2]
\* The same error, or the same value with any return that is none.
Alike(a, b) == IF b.r < 0 THEN a = b ELSE a.r >= 0 /\ a.v = b.v
BoardRight ==
  \A d \in TimerBoards :
    LET t == Board(d)
        psci == fdt_psci_configure(t, PsciDefault)
    IN  /\ fdt_qtime(t) = <<d.freq, d.intr + (IF d.spi = 0 THEN 32 ELSE 16)>>
        /\ fdt_get_cpu_freq(t) = d.freq
        /\ psci.r = 1 <=> d.method \in {"smc", "hvc"}
        /\ psci.r = 1 => \A c \in 1 .. 3 : psci_smp_start(psci.v, c) = <<d.on, d.method, c>>
        /\ Places(Found(LAMBDA n : fdt_find_node(t, n, "cpu", "k"), 9)) = <<2, 3, BADSTRUCTURE>>
        /\ Places(Found(LAMBDA n : fdt_find_node(t, n, "", "k"), 9)) = <<1, 2, 3, 4, 5, 6, NOTFOUND>>
        /\ Places(Found(LAMBDA n : fdt_find_node(t, n, "cpu", ""), 9)) = <<2, 6, NOTFOUND>>
        /\ Places(Found(LAMBDA n : fdt_node_offset_by_nodename(t, n, "k", "1"), 9)) = <<1, 3, 5, NOTFOUND>>
        /\ \A i \in 1 .. 6 : LET k == Step * (i + 2) IN
             /\ Alike(fdt_get_reg_addr(t, k), Answer(0, Reg(i)))
             /\ Alike(fdt_get_reg_int(t, k), IF 2 * Reg(i) < CellBase THEN Answer(0, Reg(i)) ELSE Error(BADSTRUCTURE))
             /\ fdt_get_reg32(t, k, 0, {"addr"}) = Answer(0, <<Reg(i), None>>)
             /\ fdt_get_num64(t, k, "cpu-frequency") = Answer(0, d.freq * CellBase + 1)
             /\ fdt_get_u64(t, k, 0, "cpu-frequency") = Answer(0, d.freq * CellBase + 1)
             /\ fdt_get_u32(t, k, 0, "cpu-frequency") = Answer(4, d.freq)
        /\ fdt_get_reg_addr(RegTree, Step * 11) = Answer(0, 1)   \* from its name

\* What the helpers return, from every width of cell and every board. Of
\* fdt_get_reg_addr() and fdt_get_reg_int(), which are described to return 0
\* and return a number of entries, it is only asked that it is no error.
FdtRight == RegRight /\ BoardRight
=============================================================================
