-------------------------------- MODULE Fdt --------------------------------
(***************************************************************************)
(* The device tree: the helpers on top of libfdt, the search for the       *)
(* interrupt parent with its cache, what start-up takes from the tree      *)
(* (timer, CPUs, PSCI), and fdt_smp_spin_start(), which releases one       *)
(* parked CPU at a time although firmware may park them all at one address.*)
(*                                                                         *)
(* A tree is a sequence of nodes in depth-first order; the offset of the   *)
(* i-th is Step * (i - 1). A cell holds a digit below CellBase, a 64-bit   *)
(* value is two of them.                                                   *)
(***************************************************************************)
EXTENDS Integers, Sequences, FiniteSets, FiniteSetsExt, SequencesExt

CONSTANTS
  Trees,      \* the blobs, each with the address libfdt finds it at
  CellBase,   \* 2^32
  FDT_MAX_NCELLS,
  MaxCalls,   \* calls of fdt_get_intr()
  MaxCpu      \* CPUs besides CPU 0

NOTFOUND == -1
BADOFFSET == -4
BADSTRUCTURE == -11
BADNCELLS == -14
Hang == -99           \* a search that never ends
NoPhandle == -1       \* (uint32_t)-1
None == -2

VARIABLES
  cache,              \* fdt, phandle, parent and cells of the last answer
  asked, ncalls,      \* the last call of fdt_get_intr() and its answer
  tree, cpu, spc,     \* CPU 0: the tree, the CPU it starts, and its steps
  shim_start, shim_id, release,  \* as memory has them
  dirty,              \* what CPU 0 has written and not cleaned: a function
  ap, event           \* the parked CPUs and their event registers

spinVars == <<tree, cpu, spc, shim_start, shim_id, release, dirty, ap, event>>
callVars == <<cache, asked, ncalls>>
vars == <<callVars, spinVars>>

-----------------------------------------------------------------------------
(* libfdt                                                                  *)

Step == 8
NodeAt(t, node) == t.nodes[(node \div Step) + 1]
IsNode(t, node) == node >= 0 /\ node % Step = 0 /\ node \div Step < Len(t.nodes)
Nodes(t) == {Step * (i - 1) : i \in 1 .. Len(t.nodes)}
NoProp(err) == [len |-> err, cells |-> << >>, str |-> << >>, nul |-> FALSE]
fdt_getprop(t, node, name) ==
  IF ~ IsNode(t, node) THEN NoProp(BADOFFSET)
  ELSE IF name \in DOMAIN NodeAt(t, node).prop THEN NodeAt(t, node).prop[name]
  ELSE NoProp(NOTFOUND)
fdt_parent_offset(t, node) ==
  IF ~ IsNode(t, node) THEN BADOFFSET
  ELSE IF node = 0 THEN NOTFOUND ELSE NodeAt(t, node).up
First(s) == IF s = {} THEN NOTFOUND ELSE Min(s)
After(t, node) == {k \in Nodes(t) : k > node}
fdt_next_node(t, node) == First(After(t, node))
fdt_node_offset_by_prop_value(t, node, name, s) ==
  First({k \in After(t, node) : fdt_getprop(t, k, name).str = <<s>>})
fdt_node_offset_by_compatible(t, node, s) ==
  First({k \in After(t, node) : s \in ToSet(fdt_getprop(t, k, "compatible").str)})
fdt_node_offset_by_phandle(t, h) ==
  First({k \in Nodes(t) : fdt_getprop(t, k, "phandle").cells = <<h>>})
NCells(t, node, name, default) ==
  LET p == fdt_getprop(t, node, name) IN IF p.len < 0 THEN default ELSE p.cells[1]
strcasecmp(a, b) == a = b \/ {a, b} \in {{"cpu", "CPU"}}

-----------------------------------------------------------------------------
(* The helpers: an answer is a return value r with what was stored         *)

Answer(r, v) == [r |-> r, v |-> v]
Error(r) == Answer(r, << >>)
Wide(cells, at, n) == IF n = 2 THEN cells[at] * CellBase + cells[at + 1] ELSE cells[at]

\* Numbers of n cells: fdt_get_u32 and fdt_get_u64 differ in n.
GetNumber(t, node, offset, name, n) ==
  LET p == fdt_getprop(t, node, name)
      end == offset + 4 * n
  IN  IF p.len < 0 THEN Error(p.len)
      ELSE IF end > p.len THEN Error(BADSTRUCTURE)
      ELSE Answer(IF end < p.len THEN end ELSE 0, Wide(p.cells, (offset \div 4) + 1, n))
fdt_get_u32(t, node, offset, name) == GetNumber(t, node, offset, name, 1)
fdt_get_u64(t, node, offset, name) == GetNumber(t, node, offset, name, 2)
fdt_get_int(t, node, offset, name) == fdt_get_u32(t, node, offset, name)
fdt_get_num64(t, node, name) ==
  LET p == fdt_getprop(t, node, name) IN
  IF p.len < 0 THEN Error(p.len)
  ELSE IF p.len \in {4, 8} THEN Answer(0, Wide(p.cells, 1, p.len \div 4))
  ELSE Error(BADSTRUCTURE)
fdt_get_str(t, node, name) ==
  LET p == fdt_getprop(t, node, name) IN
  IF p.len < 0 THEN Error(p.len)
  ELSE IF p.len < 1 \/ ~ p.nul THEN Error(BADSTRUCTURE) ELSE Answer(0, Head(p.str))

\* fdt_find_node(): the search goes on behind nodes of another or no type,
\* and ends at one with a broken type.
fdt_find_node(t, node, type, compatible) ==
  LET Kind(k) == fdt_get_str(t, k, "device_type")
      like == {k \in After(t, node) : compatible \in ToSet(fdt_getprop(t, k, "compatible").str)}
      ends == {k \in like : /\ Kind(k).r # NOTFOUND
                            /\ Kind(k).r < 0 \/ strcasecmp(Kind(k).v, type)}
  IN  IF compatible = "" /\ type = "" THEN fdt_next_node(t, node)
      ELSE IF compatible = ""
      THEN fdt_node_offset_by_prop_value(t, node, "device_type", type)
      ELSE IF type = "" THEN First(like)
      ELSE IF ends # {} /\ Kind(Min(ends)).r < 0 THEN Kind(Min(ends)).r ELSE First(ends)

\* A name without a unit address stands for every unit.
_fdt_nodename_eq(n, name, unit) == n.name = name /\ (unit = "" \/ n.unit = unit)
fdt_node_offset_by_nodename(t, start, name, unit) ==
  First({k \in After(t, start) : _fdt_nodename_eq(NodeAt(t, k), name, unit)})

\* fdt_get_reg64_cells() with the cells the parent gives: num entries from
\* index on, or fewer, and how many there are from index on. want has "addr",
\* "size" or both, as the caller passes pointers.
fdt_get_reg64_cells(t, node, index, num, want) ==
  LET p == fdt_getprop(t, node, "reg")
      up == fdt_parent_offset(t, node)
      ac == NCells(t, up, "#address-cells", 2)
      sc == NCells(t, up, "#size-cells", 1)
      n == p.len \div (4 * (ac + sc))
      Start(e) == (e - 1) * (ac + sc) + 1
  IN  IF p.len < 0 THEN Error(p.len) ELSE IF up < 0 THEN Error(up)
      ELSE IF ac \notin 1 .. 2 \/ sc \notin 0 .. 2 THEN Error(BADNCELLS)
      ELSE IF p.len % (4 * (ac + sc)) # 0 THEN Error(BADOFFSET)
      ELSE IF index \notin 0 .. n - 1 THEN Error(NOTFOUND)
      ELSE IF "addr" \notin want THEN Error(n - index)
      ELSE IF (sc = 0) # ("size" \notin want) THEN Error(BADNCELLS)
      ELSE Answer(n - index,
             [i \in 1 .. Min({num, n - index}) |->
                <<Wide(p.cells, Start(index + i), ac),
                  IF sc = 0 THEN None ELSE Wide(p.cells, Start(index + i) + ac, sc)>>])

\* One entry: fdt_get_reg64, and fdt_get_reg32 when limit is CellBase.
fdt_get_reg64(t, node, index, want) ==
  LET a == fdt_get_reg64_cells(t, node, index, 1, want) IN
  IF a.r < 0 THEN a ELSE IF "addr" \in want THEN Answer(0, a.v[1]) ELSE Error(a.r)
fdt_get_reg32(t, node, index, want) ==
  LET a == fdt_get_reg64(t, node, index, want) IN
  IF a.r = 0 /\ (a.v[1] >= CellBase \/ a.v[2] >= CellBase) THEN Error(BADSTRUCTURE) ELSE a

\* The address, or else the number in the node's name.
fdt_get_reg_addr(t, node) ==
  LET a == fdt_get_reg64_cells(t, node, 0, 1, {"addr"})
      n == NodeAt(t, node)
      v == IF a.r >= 0 THEN a.v[1][1] ELSE n.number
  IN  IF a.r < 0 /\ (a.r # NOTFOUND \/ n.unit = "" \/ n.number = None) THEN a
      ELSE IF v >= CellBase THEN Error(BADSTRUCTURE) ELSE Answer(IF a.r < 0 THEN 0 ELSE a.r, v)
fdt_get_reg_int(t, node) ==
  LET a == fdt_get_reg_addr(t, node) IN
  IF a.r >= 0 /\ 2 * a.v >= CellBase THEN Error(BADSTRUCTURE) ELSE a

-----------------------------------------------------------------------------
(* Interrupts                                                              *)

NoCache == [fdt |-> 0, phandle |-> NoPhandle, parent |-> 0, cells |-> 0]

\* Mutant: the tree of the cached answer is not looked at.
Hit_AnyTree(c, t, phandle) == c.fdt # 0 /\ phandle = c.phandle

Hit(c, t, phandle) == c.fdt = t.addr /\ phandle = c.phandle

\* The interrupt parent: by phandle, or in the tree. A property longer than
\* a cell gives the offset of the next one, which is taken for a node.
UpBy(t, node, a) ==
  IF a.r = 0 THEN fdt_node_offset_by_phandle(t, a.v)
  ELSE IF a.r = NOTFOUND THEN fdt_parent_offset(t, node) ELSE a.r

\* One round of the loop of fdt_get_intr_cells(), with the parent up and
\* its number of cells n.
Done(s, r) == [s EXCEPT !.done = TRUE, !.r = r]
IntrAt(t, s, phandle, up, n) ==
  IF up < 0 THEN Done(s, up)
  ELSE IF n.r = NOTFOUND THEN [s EXCEPT !.node = up]
  ELSE IF n.r < 0 THEN Done(s, n.r)
  ELSE IF n.r # 0 \/ n.v \notin 1 .. FDT_MAX_NCELLS THEN Done(s, BADNCELLS)
  ELSE [done |-> TRUE, r |-> n.v, node |-> up,
        c |-> IF phandle = NoPhandle THEN s.c
              ELSE [fdt |-> t.addr, phandle |-> phandle, parent |-> up, cells |-> n.v]]
IntrTo(t, s, phandle, up) ==
  IntrAt(t, s, phandle, up, fdt_get_int(t, up, 0, "#interrupt-cells"))
IntrBy(t, s, a) ==
  IF a.r = 0 /\ Hit(s.c, t, a.v)
  THEN [s EXCEPT !.done = TRUE, !.r = s.c.cells, !.node = s.c.parent]
  ELSE IntrTo(t, s, IF a.r >= 0 THEN a.v ELSE NoPhandle, UpBy(t, s.node, a))
IntrUp(t, s) ==
  IF s.done THEN s ELSE IntrBy(t, s, fdt_get_u32(t, s.node, 0, "interrupt-parent"))

fdt_get_intr_cells(t, c, node) ==
  FoldLeft(LAMBDA s, i : IntrUp(t, s),
           [done |-> FALSE, r |-> Hang, node |-> node, c |-> c],
           [i \in 1 .. Len(t.nodes) + 1 |-> i])

\* fdt_get_intr(): the specifiers from index on, num of them at most, n
\* cells each.
Specs(cells, at, n, count) ==
  [i \in 1 .. count |-> SubSeq(cells, (at + i - 1) * n + 1, (at + i) * n)]
IntrOf(t, p, up, index, num) ==
  LET left == p.len \div (4 * up.r) - index IN
  IF up.r < 0 THEN Error(up.r)
  ELSE IF \/ up.r >= FDT_MAX_NCELLS
          \/ fdt_getprop(t, up.node, "interrupt-controller").len < 0
          \/ p.len % (4 * up.r) # 0 THEN Error(BADSTRUCTURE)
  ELSE IF left <= 0 THEN Answer(0, <<up.node, << >>>>)
  ELSE Answer(Min({left, num}), <<up.node, Specs(p.cells, index, up.r, Min({left, num}))>>)
IntrFrom(t, p, up, index, num) == [ans |-> IntrOf(t, p, up, index, num), c |-> up.c]
fdt_get_intr(t, c, node, index, num) ==
  LET p == fdt_getprop(t, node, "interrupts") IN
  IF p.len < 0 THEN [ans |-> Error(p.len), c |-> c]
  ELSE IntrFrom(t, p, fdt_get_intr_cells(t, c, node), index, num)

\* A board's set-up asks for the interrupts of a device, in any order.
AskIntr ==
  /\ ncalls < MaxCalls /\ spc = "idle"
  /\ \E t \in Trees : \E node \in Nodes(t), index \in 0 .. 1 :
       LET call == fdt_get_intr(t, cache, node, index, 2) IN
       /\ cache' = call.c
       /\ asked' = [t |-> t, node |-> node, index |-> index, ans |-> call.ans]
  /\ ncalls' = ncalls + 1
  /\ UNCHANGED spinVars

-----------------------------------------------------------------------------
(* What start-up reads                                                     *)

CpuNodes(t) == {k \in Nodes(t) : fdt_getprop(t, k, "device_type").str = <<"cpu">>}
fdt_num_cpu(t) == Cardinality(CpuNodes(t))
fdt_get_cpu_freq(t) ==
  LET node == fdt_node_offset_by_prop_value(t, -1, "device_type", "cpu")
      own == fdt_getprop(t, node, "clock-frequency")
      p == IF own.len < 0 THEN fdt_getprop(t, node, "cpu-frequency") ELSE own
  IN  IF node <= 0 \/ p.len < 4 THEN 0 ELSE p.cells[1]

\* The third interrupt of the timer, the virtual one; Crash for a tree
\* that leaves anything out.
Crash == <<"crash">>
fdt_qtime(t) ==
  LET node == fdt_node_offset_by_compatible(t, -1, "arm,armv8-timer")
      intr == fdt_getprop(t, node, "interrupts")
      freq == fdt_getprop(t, node, "clock-frequency")
  IN  IF node <= 0 \/ intr.len < 36 \/ freq.len < 4 THEN Crash
      ELSE <<freq.cells[1], intr.cells[8] + 16 + (IF intr.cells[7] = 0 THEN 16 ELSE 0)>>

\* fdt_psci_configure() from what is configured: a command and a way to
\* call. It may fail with the command already taken.
Psci(on, method) == [on |-> on, method |-> method]
PsciDefault == Psci(None, "smc")
fdt_psci_configure(t, psci) ==
  LET node == fdt_node_offset_by_compatible(t, -1, "arm,psci")
      on == fdt_getprop(t, node, "cpu_on")
      way == fdt_getprop(t, node, "method")
  IN  IF psci.on # None THEN Answer(1, psci)
      ELSE IF node <= 0 \/ on.len < 4 THEN Answer(0, psci)
      ELSE IF way.len = 4 /\ way.str \in {<<"smc">>, <<"hvc">>}
      THEN Answer(1, Psci(on.cells[1], way.str[1]))
      ELSE Answer(0, [psci EXCEPT !.on = on.cells[1]])

\* psci_smp_start(): the command of PSCI 0.2 unless the tree gave one, with
\* psci_cpu_id()'s number for the CPU.
PSCI_CPU_ON == 3
psci_cpu_id(c) == c
psci_smp_start(psci, c) ==
  <<IF psci.on = None THEN PSCI_CPU_ON ELSE psci.on, psci.method, psci_cpu_id(c)>>

-----------------------------------------------------------------------------
(* fdt_smp_spin_start(): CPU 0 starts the CPUs of a tree in turn           *)

\* Nodes of the CPUs in order; the first is CPU 0's own.
CpuList(t) == SetToSortSeq(CpuNodes(t), <)
CpuProp(c, name) == fdt_getprop(tree, CpuList(tree)[c + 1], name)
Others == 1 .. fdt_num_cpu(tree) - 1
CellNumber(p) == Wide(p.cells, 1, p.len \div 4)
ReleaseAddr(c) == CellNumber(CpuProp(c, "cpu-release-addr"))
Mpidr(c) == CellNumber(CpuProp(c, "reg"))   \* of a tree that tells the truth
start == "smp_start"
Shim == "spin_shim_rtn"
Zero == "0"

\* What CPU 0 writes: two words of its own and the release addresses.
TheStart == <<"start", 0>>
TheId == <<"id", 0>>
At(a) == <<"at", a>>

\* Stores reach memory when cleaned, or earlier when their line is evicted.
Store(what, value) == dirty' = [w \in DOMAIN dirty \cup {what} |-> IF w = what THEN value ELSE dirty[w]]
Clean(what) ==
  /\ shim_start' = IF what = TheStart /\ what \in DOMAIN dirty THEN dirty[what] ELSE shim_start
  /\ shim_id' = IF what = TheId /\ what \in DOMAIN dirty THEN dirty[what] ELSE shim_id
  /\ release' = [a \in DOMAIN release |->
                   IF what = At(a) /\ what \in DOMAIN dirty THEN dirty[what] ELSE release[a]]
  /\ dirty' = [w \in DOMAIN dirty \ {what} |-> dirty[w]]
memory == <<shim_start, shim_id, release>>

\* External: a line is evicted.
Evict == /\ \E w \in DOMAIN dirty : Clean(w)
         /\ UNCHANGED <<callVars, tree, cpu, spc, ap, event>>

SIGNAL == event' = [c \in DOMAIN event |-> TRUE]
Goto(from, to) == spc = from /\ spc' = to /\ UNCHANGED <<callVars, tree>>

\* The routine the parked CPUs go to, and the one that starts them.
SetStart ==
  /\ Goto("start", "clean_start") /\ Store(TheStart, start)
  /\ UNCHANGED <<cpu, memory, ap, event>>
CleanStart ==
  /\ Goto("clean_start", "release") /\ Clean(TheStart) /\ UNCHANGED <<cpu, ap, event>>

\* A CPU without a node or a usable release address cannot be started.
Releasable == cpu \in Others /\ CpuProp(cpu, "cpu-release-addr").len \in {4, 8}
NotReleasable ==
  /\ Goto("release", "failed") /\ ~ Releasable /\ UNCHANGED <<cpu, memory, dirty, ap, event>>

\* Mutant: the release address is given the start routine itself.
Release_Direct ==
  /\ Goto("release", "clean_release") /\ Releasable /\ Store(At(ReleaseAddr(cpu)), start)
  /\ UNCHANGED <<cpu, memory, ap, event>>

Release ==
  /\ Goto("release", "clean_release") /\ Releasable /\ Store(At(ReleaseAddr(cpu)), Shim)
  /\ UNCHANGED <<cpu, memory, ap, event>>
CleanRelease ==
  /\ Goto("clean_release", "id") /\ Clean(At(ReleaseAddr(cpu))) /\ SIGNAL /\ UNCHANGED <<cpu, ap>>

\* The CPU's own number lets it out of the shim; without one in the tree
\* the firmware's loop is left and the shim is not.
SetId ==
  LET p == CpuProp(cpu, "reg") IN
  /\ Goto("id", IF p.len < 0 THEN "failed" ELSE IF p.len \in {4, 8} THEN "clean_id" ELSE "crash")
  /\ IF p.len \in {4, 8} THEN Store(TheId, CellNumber(p)) ELSE UNCHANGED dirty
  /\ UNCHANGED <<cpu, memory, ap, event>>

\* Mutant: the shim is not woken again.
CleanId_Quiet ==
  /\ Goto("clean_id", "wait") /\ Clean(TheId) /\ UNCHANGED <<cpu, ap, event>>

CleanId ==
  /\ Goto("clean_id", "wait") /\ Clean(TheId) /\ SIGNAL /\ UNCHANGED <<cpu, ap>>

\* start_aps(): the next CPU once this one runs; none may fail.
Running(c) == ap[c] = start
NextCpu ==
  /\ Goto("wait", IF cpu + 1 \in Others THEN "start" ELSE "done")
  /\ Running(cpu) /\ cpu' = cpu + 1 /\ UNCHANGED <<memory, dirty, ap, event>>

\* CPU c: firmware's loop, on to what it finds at the release address, and
\* the shim, on to what spin_shim_start holds.
Wake(c) == event[c] /\ event' = [event EXCEPT ![c] = FALSE]
ApOnly == UNCHANGED <<callVars, tree, cpu, spc, memory, dirty>>
Parked(c) ==
  /\ ap[c] = Zero /\ event[c]
  /\ ap' = [ap EXCEPT ![c] = release[ReleaseAddr(c)]]
  /\ event' = [event EXCEPT ![c] = (ap'[c] = Shim)]   \* sevl
  /\ ApOnly
spin_shim_rtn(c) ==
  /\ ap[c] = Shim /\ Wake(c)
  /\ ap' = IF shim_id = Mpidr(c) THEN [ap EXCEPT ![c] = shim_start] ELSE ap
  /\ ApOnly

\* start_aps() on a board whose firmware parks the CPUs of a tree.
Begin ==
  /\ spc = "idle" /\ asked.ans.r = NOTFOUND /\ ncalls = 0
  /\ tree' \in Trees /\ fdt_num_cpu(tree') > 1 /\ cpu' = 1 /\ spc' = "start"
  /\ LET cpus == 1 .. fdt_num_cpu(tree') - 1
         Value(c) == fdt_getprop(tree', CpuList(tree')[c + 1], "cpu-release-addr")
         parked == {c \in cpus : Value(c).len \in {4, 8}}
     IN  /\ release' = [a \in {CellNumber(Value(c)) : c \in parked} |-> Zero]
         /\ ap' = [c \in parked |-> Zero] /\ event' = [c \in parked |-> FALSE]
  /\ UNCHANGED <<callVars, shim_start, shim_id, dirty>>

Init ==
  /\ cache = NoCache /\ ncalls = 0
  /\ asked = [t |-> [addr |-> 0, nodes |-> << >>], node |-> 0, index |-> 0, ans |-> Error(NOTFOUND)]
  /\ tree = [addr |-> 0, nodes |-> << >>] /\ cpu = 0 /\ spc = "idle"
  /\ shim_start = Zero /\ shim_id = 0 /\ release = << >> /\ dirty = << >>
  /\ ap = << >> /\ event = << >>

SpinStart ==
  \/ SetStart \/ CleanStart \/ NotReleasable \/ Release \/ CleanRelease
  \/ SetId \/ CleanId \/ NextCpu
Parking(c) == c \in DOMAIN ap /\ (Parked(c) \/ spin_shim_rtn(c))
Next == AskIntr \/ Begin \/ SpinStart \/ Evict \/ \E c \in DOMAIN ap : Parking(c)

\* CPUs run; firmware's loop has no limit, start_aps() a very large one.
Fairness == WF_vars(SpinStart) /\ \A c \in 1 .. MaxCpu : WF_vars(Parking(c))
Spec == Init /\ [][Next]_vars /\ Fairness

-----------------------------------------------------------------------------
(* Properties                                                              *)

\* The interrupts found do not depend on what was asked before: the cached
\* parent is never that of another tree or another phandle.
IntrRight ==
  ncalls > 0 =>
    asked.ans = fdt_get_intr(asked.t, NoCache, asked.node, asked.index, 2).ans

\* However CPUs share release addresses, one runs start-up's code only when
\* it is its turn, and nothing but the start routine: fdt_smp_spin_start.c
\* promises that one at a time is released.
OneAtATime ==
  \A c \in DOMAIN ap : ap[c] \notin {Zero, Shim} => ap[c] = start /\ c <= cpu

\* A CPU that could be started has been when its turn is over, and start-up
\* gets there unless the tree lacks what it needs.
EachStarts ==
  /\ [](spc = "done" => \A c \in Others : Running(c))
  /\ (spc = "start" ~> spc \in {"done", "failed", "crash"})
=============================================================================
