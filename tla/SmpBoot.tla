------------------------------ MODULE SmpBoot ------------------------------
(***************************************************************************)
(* Bringing up the secondary cores (APs) and handing them to the kernel.   *)
(*                                                                         *)
(* CPU 0 runs init_smp, start_aps, init_system_private, _main and          *)
(* transfer_aps; every AP runs smp_start and then the smp_spin callout.    *)
(* The two sides meet only in the words cpu_starting, syspage_available,   *)
(* smp.pending and smp.start_addr, so one step of this module is at most   *)
(* one access of one CPU to a shared word.                                 *)
(***************************************************************************)
EXTENDS Integers, FiniteSets

CONSTANTS NumCpu,      \* board_smp_num_cpu(): cores of the package
          MaxCpuOpts,  \* values max_cpus can have after the -P option
          SpinLimit    \* 2^32: polls after which start_aps gives up

ASSUME NumCpuAssumption == NumCpu \in Nat \ {0}
ASSUME MaxCpuAssumption == MaxCpuOpts \subseteq Nat \ {0}
ASSUME SpinLimitAssumption == SpinLimit \in Nat \ {0}

CPU == 0 .. NumCpu - 1
AP  == 1 .. NumCpu - 1

\* Values of smp.start_addr: nothing, the kernel's entry point, and -1.
NoAddr == "zero"
Entry  == "entry"
Minus1 == "minus1"
Addr   == {NoAddr, Entry, Minus1}

NoCpu == -1   \* a cpuinfo slot nobody has filled

VARIABLES
  bsp,                \* where CPU 0 is
  i,                  \* loop variable of start_aps and transfer_aps
  count,              \* start_aps: polls so far, an unsigned that wraps
  hook,               \* smp_hook_rtn
  num_cpu,            \* lsp.syspage.p->num_cpu
  mmu,                \* MMU and data cache of CPU 0 are on
  written,            \* write_syspage_memory() has copied the system page
  cpu_starting,
  syspage_available,
  pending,            \* smp.pending, the value in memory
  total_size,         \* lsp.syspage.p->total_size, in grow steps
  grown,              \* completed calls of grow_syspage_section
  tmp,                \* total_size as a CPU inside a grow call has read it
  cpuinfo,            \* lsp.cpuinfo: the core each slot describes
  ap,                 \* where each AP is
  w19,                \* register w19 of each AP: its CPU number
  dirty,              \* the AP's cache holds pending = 0 not yet in memory
  start_addr,         \* smp.start_addr
  x4,                 \* register x4 in smp_spin
  monitor,            \* the AP's exclusive monitor is armed on start_addr
  event,              \* the AP's event register, which ends a wfe
  released            \* entry points the kernel has stored so far

bspVars == <<bsp, i, count, hook, num_cpu, mmu, written>>
lspVars == <<total_size, grown, tmp, cpuinfo>>
apVars  == <<ap, w19>>
spinVars == <<start_addr, x4, monitor, event, released>>
vars == <<bspVars, lspVars, apVars, spinVars,
          cpu_starting, syspage_available, pending, dirty>>

BspPc == {"init_smp", "init_mmu", "hook1", "start", "smp_start", "poll",
          "flags", "grow", "write", "hook2", "transfer", "release", "wait",
          "startnext", "kernel", "halt", "crashed"}
ApPc  == {"off", "smp_start", "read_num", "cpuinfo", "grow", "clear", "wait",
          "startnext", "spin", "clean", "ldaxr", "wfe", "stlxr", "branch",
          "putback", "wfi", "kernel", "dead"}
Hooks == {"hook_dummy", "start_aps", "transfer_aps"}

Init ==
  /\ bsp = "init_smp" /\ i = 1 /\ count = 0 /\ hook = "hook_dummy"
  /\ num_cpu = 1 /\ mmu = FALSE /\ written = FALSE
  /\ cpu_starting = 0 /\ syspage_available = 0 /\ pending = 0
  /\ total_size = 0 /\ grown = 0 /\ tmp = [c \in CPU |-> 0]
  /\ cpuinfo = [c \in CPU |-> NoCpu]
  /\ ap = [c \in AP |-> "off"] /\ w19 = [c \in AP |-> 0]
  /\ dirty = [c \in AP |-> FALSE]
  /\ start_addr = NoAddr /\ x4 = [c \in AP |-> NoAddr]
  /\ monitor = [c \in AP |-> FALSE] /\ event = [c \in AP |-> FALSE]
  /\ released = 0

-----------------------------------------------------------------------------
(* CPU 0: main() and start_aps()                                           *)

BspGoto(from, to) == bsp = from /\ bsp' = to

\* init_smp(): the -P option caps the board's number of cores.
InitSmp ==
  /\ BspGoto("init_smp", "init_mmu")
  /\ \E max_cpus \in MaxCpuOpts :
       LET n == IF max_cpus = 1 THEN 1
                ELSE IF NumCpu > max_cpus THEN max_cpus ELSE NumCpu
       IN /\ num_cpu' = n
          /\ hook' = IF n > 1 THEN "start_aps" ELSE hook
  /\ UNCHANGED <<i, count, mmu, written, lspVars, apVars, spinVars,
                 cpu_starting, syspage_available, pending, dirty>>

\* main(): init_mmu() and stm32mp2_board_mmu_enable(), then init_cpuinfo(),
\* which fills the slot of CPU 0 and grows the string section for its name.
InitMmuCpuinfo ==
  /\ BspGoto("init_mmu", "hook1")
  /\ mmu' = TRUE
  /\ cpuinfo' = [cpuinfo EXCEPT ![0] = 0]
  /\ total_size' = total_size + 1 /\ grown' = grown + 1
  /\ UNCHANGED <<i, count, hook, num_cpu, written, tmp, apVars, spinVars,
                 cpu_starting, syspage_available, pending, dirty>>

\* init_system_private(): the first call of smp_hook_rtn().
CallHook1 ==
  /\ BspGoto("hook1", IF hook = "start_aps" THEN "start" ELSE "flags")
  /\ i' = 1
  /\ UNCHANGED <<count, hook, num_cpu, mmu, written, lspVars, apVars,
                 spinVars, cpu_starting, syspage_available, pending, dirty>>

\* Mutant: the last core is left out.
StartLoop_LessOne ==
  /\ IF i < num_cpu - 1
     THEN /\ BspGoto("start", "smp_start")
          /\ cpu_starting' = i + 1
          /\ UNCHANGED hook
     ELSE /\ BspGoto("start", "flags")
          /\ hook' = "transfer_aps"
          /\ UNCHANGED cpu_starting
  /\ UNCHANGED <<i, count, num_cpu, mmu, written, lspVars, apVars, spinVars,
                 syspage_available, pending, dirty>>

\* start_aps(): head of the loop, and the hand-over to transfer_aps after it.
StartLoop ==
  /\ IF i < num_cpu
     THEN /\ BspGoto("start", "smp_start")
          /\ cpu_starting' = i + 1
          /\ UNCHANGED hook
     ELSE /\ BspGoto("start", "flags")
          /\ hook' = "transfer_aps"
          /\ UNCHANGED cpu_starting
  /\ UNCHANGED <<i, count, num_cpu, mmu, written, lspVars, apVars, spinVars,
                 syspage_available, pending, dirty>>

\* board_smp_start(): MMU and caches off, then PSCI CPU_ON. The firmware
\* starts the core, or accepts a core that never reports, or refuses, and a
\* refusal is a crash.
BoardSmpStart ==
  /\ mmu' = FALSE
  /\ \/ /\ BspGoto("smp_start", "poll")
        /\ count' = 0
        /\ \E pc \in {"smp_start", "dead"} : ap' = [ap EXCEPT ![i] = pc]
     \/ /\ BspGoto("smp_start", "crashed")
        /\ UNCHANGED <<count, ap>>
  /\ UNCHANGED <<i, hook, num_cpu, written, lspVars, w19, spinVars,
                 cpu_starting, syspage_available, pending, dirty>>

\* Mutant: the loop goes on whether or not the AP has reported.
PollStarting_NoWait ==
  /\ BspGoto("poll", "start")
  /\ i' = i + 1
  /\ UNCHANGED <<count, hook, num_cpu, mmu, written, lspVars, apVars,
                 spinVars, cpu_starting, syspage_available, pending, dirty>>

\* start_aps(): one turn of the polling loop. The counter is incremented and
\* tested before cpu_starting is read; when it wraps, ap_fail() crashes.
PollStarting ==
  /\ count' = (count + 1) % SpinLimit
  /\ \/ /\ count' = 0
        /\ BspGoto("poll", "crashed")
        /\ UNCHANGED i
     \/ /\ count' # 0 /\ cpu_starting # 0
        /\ BspGoto("poll", "poll")
        /\ UNCHANGED i
     \/ /\ count' # 0 /\ cpu_starting = 0
        /\ BspGoto("poll", "start")
        /\ i' = i + 1
  /\ UNCHANGED <<hook, num_cpu, mmu, written, lspVars, apVars, spinVars,
                 cpu_starting, syspage_available, pending, dirty>>

-----------------------------------------------------------------------------
(* CPU 0: the rest of init_system_private(), _main() and transfer_aps()    *)

\* The -F flags are applied to every cpuinfo slot; then add_sysram() and
\* the rest grow the system page: the size is read here ...
PropagateFlags ==
  /\ BspGoto("flags", "grow")
  /\ tmp' = [tmp EXCEPT ![0] = total_size]
  /\ UNCHANGED <<i, count, hook, num_cpu, mmu, written, total_size, grown,
                 cpuinfo, apVars, spinVars, cpu_starting, syspage_available,
                 pending, dirty>>

\* ... and written back here.
BspGrow ==
  /\ BspGoto("grow", "write")
  /\ total_size' = tmp[0] + 1 /\ grown' = grown + 1
  /\ UNCHANGED <<i, count, hook, num_cpu, mmu, written, tmp, cpuinfo, apVars,
                 spinVars, cpu_starting, syspage_available, pending, dirty>>

\* write_syspage_memory(): the local system page is copied to its final place.
WriteSyspage ==
  /\ BspGoto("write", "hook2")
  /\ written' = TRUE
  /\ UNCHANGED <<i, count, hook, num_cpu, mmu, lspVars, apVars, spinVars,
                 cpu_starting, syspage_available, pending, dirty>>

\* _main(): the second call of smp_hook_rtn().
CallHook2 ==
  /\ BspGoto("hook2", IF hook = "transfer_aps" THEN "transfer"
                                               ELSE "startnext")
  /\ i' = 1
  /\ UNCHANGED <<count, hook, num_cpu, mmu, written, lspVars, apVars,
                 spinVars, cpu_starting, syspage_available, pending, dirty>>

\* transfer_aps(): head of the loop; pending is set before ...
TransferLoop ==
  /\ IF i < num_cpu THEN BspGoto("transfer", "release") /\ pending' = 1
                    ELSE BspGoto("transfer", "startnext") /\ UNCHANGED pending
  /\ UNCHANGED <<i, count, hook, num_cpu, mmu, written, lspVars, apVars,
                 spinVars, cpu_starting, syspage_available, dirty>>

\* ... AP number i is let out of smp_start ...
ReleaseAp ==
  /\ BspGoto("release", "wait")
  /\ syspage_available' = i
  /\ UNCHANGED <<i, count, hook, num_cpu, mmu, written, lspVars, apVars,
                 spinVars, cpu_starting, pending, dirty>>

\* ... and CPU 0 waits, without a limit, until it is in smp_spin.
WaitPending ==
  /\ pending = 0
  /\ BspGoto("wait", "transfer")
  /\ i' = i + 1
  /\ UNCHANGED <<count, hook, num_cpu, mmu, written, lspVars, apVars,
                 spinVars, cpu_starting, syspage_available, pending, dirty>>

\* startnext(): crash when the image holds no next program, else run it.
StartNext ==
  /\ \/ BspGoto("startnext", "kernel") /\ mmu' = TRUE
     \/ BspGoto("startnext", "crashed") /\ UNCHANGED mmu
  /\ UNCHANGED <<i, count, hook, num_cpu, written, lspVars, apVars,
                 spinVars, cpu_starting, syspage_available, pending, dirty>>

-----------------------------------------------------------------------------
(* Secondary core c: smp_start                                             *)

ApGoto(c, from, to) == ap[c] = from /\ ap' = [ap EXCEPT ![c] = to]

\* Cache flush and sp = stack: from here on the shared stack is in use.
ApSmpStart(c) ==
  /\ ApGoto(c, "smp_start", "read_num")
  /\ UNCHANGED <<bspVars, lspVars, w19, spinVars, cpu_starting,
                 syspage_available, pending, dirty>>

\* w19 = board_smp_adjust_num(cpu_starting - 1), the identity on this board.
ApReadNum(c) ==
  /\ ApGoto(c, "read_num", "cpuinfo")
  /\ w19' = [w19 EXCEPT ![c] = cpu_starting - 1]
  /\ UNCHANGED <<bspVars, lspVars, spinVars, cpu_starting, syspage_available,
                 pending, dirty>>

\* hypervisor_init, cpu_startup, init_one_cpuinfo(w19): the core describes
\* itself in slot w19 and starts to grow the system page for its name; a
\* crash() in one of them leaves this core in wfi.
ApInitCpuinfo(c) ==
  /\ \/ /\ ApGoto(c, "cpuinfo", "grow")
        /\ cpuinfo' = [cpuinfo EXCEPT ![w19[c]] = c]
        /\ tmp' = [tmp EXCEPT ![c] = total_size]
     \/ ApGoto(c, "cpuinfo", "dead") /\ UNCHANGED <<cpuinfo, tmp>>
  /\ UNCHANGED <<bspVars, total_size, grown, w19, spinVars, cpu_starting,
                 syspage_available, pending, dirty>>

\* The new size is stored.
ApGrow(c) ==
  /\ ApGoto(c, "grow", "clear")
  /\ total_size' = tmp[c] + 1 /\ grown' = grown + 1
  /\ UNCHANGED <<bspVars, tmp, cpuinfo, w19, spinVars, cpu_starting,
                 syspage_available, pending, dirty>>

\* cpu_starting = 0 tells start_aps that the next core may start.
ApClear(c) ==
  /\ ApGoto(c, "clear", "wait")
  /\ cpu_starting' = 0
  /\ UNCHANGED <<bspVars, lspVars, w19, spinVars, syspage_available, pending,
                 dirty>>

\* The core spins until syspage_available holds its own number.
ApWait(c) ==
  /\ syspage_available = w19[c]
  /\ ApGoto(c, "wait", "startnext")
  /\ UNCHANGED <<bspVars, lspVars, w19, spinVars, cpu_starting,
                 syspage_available, pending, dirty>>

\* cpu_startnext() and vstart: MMU and caches on, jump to smp_spin.
ApStartNext(c) ==
  /\ ApGoto(c, "startnext", "spin")
  /\ UNCHANGED <<bspVars, lspVars, w19, spinVars, cpu_starting,
                 syspage_available, pending, dirty>>

-----------------------------------------------------------------------------
(* Secondary core c: the smp_spin callout                                  *)

\* str wzr, [pending]: the store stays in this core's cache ...
SpinStore(c) ==
  /\ ApGoto(c, "spin", "clean")
  /\ dirty' = [dirty EXCEPT ![c] = TRUE]
  /\ UNCHANGED <<bspVars, lspVars, w19, spinVars, cpu_starting,
                 syspage_available, pending>>

\* ... until the line is evicted (the hardware may do so at any time) ...
Evict(c) ==
  /\ dirty[c]
  /\ pending' = 0
  /\ dirty' = [dirty EXCEPT ![c] = FALSE]
  /\ UNCHANGED <<bspVars, lspVars, apVars, spinVars, cpu_starting,
                 syspage_available>>

\* Mutant: the cache line is not cleaned, so memory keeps pending = 1.
SpinClean_NoFlush(c) ==
  /\ ApGoto(c, "clean", "ldaxr")
  /\ UNCHANGED <<bspVars, lspVars, w19, spinVars, cpu_starting,
                 syspage_available, pending, dirty>>

\* ... or dc cvac cleans it.
SpinClean(c) ==
  /\ ApGoto(c, "clean", "ldaxr")
  /\ pending' = IF dirty[c] THEN 0 ELSE pending
  /\ dirty' = [dirty EXCEPT ![c] = FALSE]
  /\ UNCHANGED <<bspVars, lspVars, w19, spinVars, cpu_starting,
                 syspage_available>>

\* Mutant: an ordinary load, which arms no monitor.
Ldaxr_Plain(c) ==
  /\ ApGoto(c, "ldaxr", IF start_addr = NoAddr THEN "wfe" ELSE "stlxr")
  /\ x4' = [x4 EXCEPT ![c] = start_addr]
  /\ UNCHANGED <<bspVars, lspVars, w19, start_addr, monitor, event, released,
                 cpu_starting, syspage_available, pending, dirty>>

\* ldaxr x4, [start_addr] arms the monitor; zero sends the core to wfe.
Ldaxr(c) ==
  /\ ApGoto(c, "ldaxr", IF start_addr = NoAddr THEN "wfe" ELSE "stlxr")
  /\ x4' = [x4 EXCEPT ![c] = start_addr]
  /\ monitor' = [monitor EXCEPT ![c] = TRUE]
  /\ UNCHANGED <<bspVars, lspVars, w19, start_addr, event, released,
                 cpu_starting, syspage_available, pending, dirty>>

\* wfe waits for an event and consumes it.
Wfe(c) ==
  /\ event[c]
  /\ ApGoto(c, "wfe", "ldaxr")
  /\ event' = [event EXCEPT ![c] = FALSE]
  /\ UNCHANGED <<bspVars, lspVars, w19, start_addr, x4, monitor, released,
                 cpu_starting, syspage_available, pending, dirty>>

\* A store to start_addr clears every armed monitor, and a cleared monitor
\* is an event for its core; the cores in sevs get one from a sev.
StoreStartAddr(addr, sevs) ==
  /\ start_addr' = addr
  /\ monitor' = [c \in AP |-> FALSE]
  /\ event' = [c \in AP |-> event[c] \/ monitor[c] \/ c \in sevs]

\* Mutant: the address is cleared by a plain store.
Stlxr_Plain(c) ==
  /\ ApGoto(c, "stlxr", "branch")
  /\ StoreStartAddr(NoAddr, {})
  /\ UNCHANGED <<bspVars, lspVars, w19, x4, released, cpu_starting,
                 syspage_available, pending, dirty>>

\* stlxr w5, xzr, [start_addr]: takes the address if the monitor is still
\* armed, else loads it again.
Stlxr(c) ==
  /\ \/ /\ monitor[c]
        /\ ApGoto(c, "stlxr", "branch")
        /\ StoreStartAddr(NoAddr, {})
     \/ /\ ~ monitor[c]
        /\ ApGoto(c, "stlxr", "ldaxr")
        /\ UNCHANGED <<start_addr, monitor, event>>
  /\ UNCHANGED <<bspVars, lspVars, w19, x4, released, cpu_starting,
                 syspage_available, pending, dirty>>

\* Mutant: -1 is not put back for the other cores.
Branch_NoPutBack(c) ==
  /\ ApGoto(c, "branch", IF x4[c] = Minus1 THEN "wfi" ELSE "kernel")
  /\ UNCHANGED <<bspVars, lspVars, w19, spinVars, cpu_starting,
                 syspage_available, pending, dirty>>

\* br x4 enters the kernel; -1 is the request to shut down.
Branch(c) ==
  /\ ApGoto(c, "branch", IF x4[c] = Minus1 THEN "putback" ELSE "kernel")
  /\ UNCHANGED <<bspVars, lspVars, w19, spinVars, cpu_starting,
                 syspage_available, pending, dirty>>

\* The -1 is put back for the next core, sev wakes it, this core stays in wfi.
PutBack(c) ==
  /\ ApGoto(c, "putback", "wfi")
  /\ StoreStartAddr(x4[c], AP)
  /\ UNCHANGED <<bspVars, lspVars, w19, x4, released, cpu_starting,
                 syspage_available, pending, dirty>>

-----------------------------------------------------------------------------
(* The kernel on CPU 0, from how smp_spin uses start_addr                  *)

\* It stores its entry point once per AP, each time start_addr is zero again.
KernelRelease ==
  /\ bsp = "kernel" /\ start_addr = NoAddr /\ released < num_cpu - 1
  /\ StoreStartAddr(Entry, {})
  /\ released' = released + 1
  /\ UNCHANGED <<bspVars, lspVars, apVars, x4, cpu_starting,
                 syspage_available, pending, dirty>>

\* Or it stores -1, and nothing after it.
KernelShutdown ==
  /\ start_addr = NoAddr
  /\ BspGoto("kernel", "halt")
  /\ StoreStartAddr(Minus1, {})
  /\ UNCHANGED <<i, count, hook, num_cpu, mmu, written, lspVars, apVars, x4,
                 released, cpu_starting, syspage_available, pending, dirty>>

-----------------------------------------------------------------------------
Startup ==
  \/ InitSmp \/ InitMmuCpuinfo \/ CallHook1 \/ StartLoop \/ BoardSmpStart
  \/ PollStarting \/ PropagateFlags \/ BspGrow \/ WriteSyspage \/ CallHook2
  \/ TransferLoop \/ ReleaseAp \/ WaitPending \/ StartNext

Secondary(c) ==
  \/ ApSmpStart(c) \/ ApReadNum(c) \/ ApInitCpuinfo(c) \/ ApGrow(c)
  \/ ApClear(c) \/ ApWait(c) \/ ApStartNext(c)
  \/ SpinStore(c) \/ SpinClean(c) \/ Ldaxr(c) \/ Wfe(c) \/ Stlxr(c)
  \/ Branch(c) \/ PutBack(c)

Kernel == KernelRelease \/ KernelShutdown

Next == Startup \/ Kernel \/ \E c \in AP : Secondary(c) \/ Evict(c)

\* Every CPU that can execute its next instruction does; a cache line need
\* not be evicted and the kernel need not release or stop anybody.
Fairness == WF_vars(Startup) /\ \A c \in AP : WF_vars(Secondary(c))

Spec == Init /\ [][Next]_vars /\ Fairness

-----------------------------------------------------------------------------
(* Properties                                                              *)

\* Every variable stays in its type; w19 is a CPU number, the cpuinfo slots
\* hold core numbers, count stays below the wrap of the unsigned counter.
TypeOK ==
  /\ bsp \in BspPc /\ i \in Nat /\ count \in 0 .. SpinLimit - 1
  /\ hook \in Hooks /\ num_cpu \in 1 .. NumCpu
  /\ mmu \in BOOLEAN /\ written \in BOOLEAN
  /\ cpu_starting \in Nat /\ syspage_available \in Nat /\ pending \in {0, 1}
  /\ total_size \in Nat /\ grown \in Nat /\ tmp \in [CPU -> Nat]
  /\ cpuinfo \in [CPU -> CPU \cup {NoCpu}]
  /\ ap \in [AP -> ApPc] /\ w19 \in [AP -> CPU]
  /\ dirty \in [AP -> BOOLEAN] /\ start_addr \in Addr
  /\ x4 \in [AP -> Addr] /\ monitor \in [AP -> BOOLEAN]
  /\ event \in [AP -> BOOLEAN] /\ released \in Nat

\* Where an AP runs on the stack all APs share: from "mov sp" to the moment
\* it parks, and again in cpu_startnext.
Starting(c) == ap[c] \in {"smp_start", "read_num", "cpuinfo", "grow", "clear"}
OnStack(c) == ap[c] \in {"read_num", "cpuinfo", "grow", "clear", "startnext"}

\* smp_start.S promises that the cores "are serialized during startup to
\* avoid tripping over one another": no two APs are on the shared stack.
StackExclusive == \A c, d \in AP : OnStack(c) /\ OnStack(d) => c = d

\* The local system page has one writer at a time: no completed growth of
\* it, by CPU 0 or by an AP in init_one_cpuinfo, is overwritten by another.
NoLostGrowth == total_size = grown

\* A cpuinfo slot is only ever filled by the core of that number, and all of
\* them are filled when CPU 0 applies the -F flags to them.
CpuinfoRight ==
  /\ \A c \in CPU : cpuinfo[c] \in {NoCpu, c}
  /\ bsp = "flags" => \A c \in CPU : c < num_cpu => cpuinfo[c] = c

\* While CPU 0 finishes and copies the system page every started AP is
\* parked, so the copy the kernel gets is not torn.
CopyUndisturbed ==
  bsp \in {"flags", "grow", "write", "hook2"} =>
    \A c \in AP : ap[c] = IF c < num_cpu THEN "wait" ELSE "off"

\* No AP runs code of the final system page (the smp_spin callout) or leaves
\* startup before that page has been written.
SpinAfterWrite ==
  \A c \in AP : written \/ Starting(c) \/ ap[c] \in {"off", "wait", "dead"}

\* The system page is built, copied and used by one core at a time, in that
\* order: no growth is lost, the copy is not torn, no AP enters it too early.
PageUndisturbed == NoLostGrowth /\ CopyUndisturbed /\ SpinAfterWrite

\* smp_spin relies on "cpu0 is still running with MMU/caches disabled" when
\* it cleans only its own cache line: true throughout transfer_aps.
TransferUncached == bsp \in {"transfer", "release", "wait"} => ~ mmu

\* Every entry point the kernel stores is picked up by exactly one AP.
InFlight == {c \in AP : ap[c] = "branch" /\ x4[c] = Entry}
ReleaseExactlyOnce ==
  released = Cardinality({c \in AP : ap[c] = "kernel"})
             + Cardinality(InFlight)
             + (IF start_addr = Entry THEN 1 ELSE 0)

\* No AP sleeps in wfe, its wake-up gone, while start_addr holds an address.
NoLostWakeup ==
  \A c \in AP : ap[c] = "wfe" /\ start_addr # NoAddr => event[c]

\* Startup ends: CPU 0 reaches the kernel or a crash, also when a core that
\* PSCI accepted never reports.
BootEnds == <>(bsp \in {"kernel", "crashed"})

\* A shutdown reaches every AP that has not been released.
ShutdownReachesAll ==
  bsp = "halt" ~> \A c \in AP : ap[c] \in {"off", "kernel", "wfi"}

=============================================================================
