--------------------------- MODULE SmpBootProofs ---------------------------
(***************************************************************************)
(* Proofs about SmpBoot for any number of cores, any -P option and any     *)
(* poll limit. The inductive invariant says, for every place CPU 0 can be  *)
(* at, where each AP is and what the shared words hold.                    *)
(***************************************************************************)
EXTENDS SmpBoot, FiniteSetTheorems, TLAPS

InSpin == {"clean", "ldaxr", "wfe", "stlxr", "branch", "putback", "wfi",
           "kernel"}

\* The loop variable, the hook, the MMU and the copied flag follow CPU 0.
BspInv ==
  /\ bsp \in {"smp_start", "poll", "release", "wait"} => i \in 1 .. num_cpu - 1
  /\ bsp \in {"start", "transfer"} => i \in 1 .. num_cpu
  /\ bsp \in {"init_mmu", "hook1", "start", "smp_start", "poll"} =>
       hook = IF num_cpu > 1 THEN "start_aps" ELSE "hook_dummy"
  /\ bsp \in {"start", "smp_start", "poll"} => hook = "start_aps"
  /\ bsp \in {"flags", "grow", "write", "hook2"} =>
       hook = IF num_cpu > 1 THEN "transfer_aps" ELSE "hook_dummy"
  /\ bsp = "init_smp" => hook = "hook_dummy"
  /\ bsp = "start" /\ i > 1 => ~ mmu
  /\ bsp = "poll" => ~ mmu
  /\ hook = "transfer_aps" /\ bsp \notin {"kernel", "halt"} => ~ mmu
  /\ bsp \in {"transfer", "release", "wait"} => hook = "transfer_aps"
  /\ bsp \notin {"crashed", "hook2", "transfer", "release", "wait",
                 "startnext", "kernel", "halt"} => ~ written
  /\ bsp \in {"hook2", "transfer", "release", "wait", "startnext", "kernel",
              "halt"} => written

\* Where AP c is, for every place of CPU 0.
ApPlace(c) ==
  /\ bsp \in {"init_smp", "init_mmu", "hook1"} => ap[c] = "off"
  /\ bsp \in {"start", "smp_start"} =>
       ap[c] = IF c < i THEN "wait" ELSE "off"
  /\ bsp = "poll" \/ (bsp = "crashed" /\ ~ written) =>
       /\ c < i => ap[c] = "wait"
       /\ c > i => ap[c] = "off"
       /\ c = i => ap[c] = "wait" \/ ap[c] = "dead" \/ Starting(c)
                   \/ (ap[c] = "off" /\ bsp = "crashed")
  /\ bsp \in {"flags", "grow", "write", "hook2"} =>
       ap[c] = IF c < num_cpu THEN "wait" ELSE "off"
  /\ bsp \in {"transfer", "release"} =>
       /\ c < i => ap[c] \in InSpin
       /\ c >= i => ap[c] = IF c < num_cpu THEN "wait" ELSE "off"
  /\ bsp = "wait" =>
       /\ c < i => ap[c] \in InSpin
       /\ c = i => ap[c] \in InSpin \cup {"wait", "startnext", "spin"}
       /\ c > i => ap[c] = IF c < num_cpu THEN "wait" ELSE "off"
  /\ bsp \in {"startnext", "kernel", "halt"} \/ (bsp = "crashed" /\ written) =>
       IF c < num_cpu THEN ap[c] \in InSpin ELSE ap[c] = "off"

\* The words CPU 0 and the APs talk through.
WordsInv ==
  /\ bsp = "smp_start" => cpu_starting = i + 1
  /\ \A c \in AP : Starting(c) => cpu_starting = i + 1
  /\ \A c \in AP : bsp = "poll" /\ ap[c] = "dead" => cpu_starting = i + 1
  /\ \A c \in AP : ap[c] \notin {"off", "smp_start", "read_num", "dead"} =>
                     w19[c] = c
  /\ bsp \notin {"transfer", "release", "wait", "startnext", "kernel", "halt",
                 "crashed"} => syspage_available = 0
  /\ bsp = "crashed" /\ ~ written => syspage_available = 0
  /\ bsp \in {"transfer", "release"} => syspage_available = i - 1
  /\ bsp = "wait" => syspage_available = i
  /\ bsp = "release" => pending = 1
  /\ \A c \in AP : bsp = "wait" /\ c = i =>
        \/ ap[c] \in {"wait", "startnext", "spin"} /\ pending = 1 /\ ~ dirty[c]
        \/ ap[c] = "clean" /\ dirty[c] /\ pending = 1
        \/ ap[c] \in InSpin /\ ~ dirty[c]
  /\ \A c \in AP : dirty[c] => bsp = "wait" /\ c = i

\* The local system page has one writer, and each slot its own core.
LspInv ==
  /\ total_size = grown
  /\ bsp = "grow" => tmp[0] = total_size
  /\ \A c \in AP : ap[c] = "grow" => tmp[c] = total_size
  /\ \A c \in CPU : cpuinfo[c] \in {NoCpu, c}
  /\ bsp \notin {"init_smp", "init_mmu"} => cpuinfo[0] = 0
  /\ \A c \in AP : ap[c] \notin {"off", "smp_start", "read_num", "cpuinfo",
                                 "dead"} => cpuinfo[c] = c

\* A core in wfe has its monitor armed on a zero start_addr, or an event.
WakeInv ==
  \A c \in AP : ap[c] = "wfe" =>
                  event[c] \/ (monitor[c] /\ start_addr = NoAddr)

IInv == /\ TypeOK
        /\ BspInv
        /\ \A c \in AP : ApPlace(c)
        /\ WordsInv
        /\ LspInv
        /\ WakeInv

USE NumCpuAssumption, MaxCpuAssumption, SpinLimitAssumption
USE DEF CPU, AP, BspPc, ApPc, Hooks, Addr, NoAddr, Entry, Minus1, NoCpu,
        bspVars, lspVars, apVars, spinVars, BspGoto, ApGoto

-----------------------------------------------------------------------------
(* What the invariant says of an AP that is between two parking places.    *)

\* A core between smp_start and the store to cpu_starting is the one CPU 0
\* is waiting for, or has given up on, and cpu_starting still names it.
LEMMA StartingIsI ==
  ASSUME IInv, NEW c \in AP, Starting(c)
  PROVE  c = i /\ bsp \in {"poll", "crashed"} /\ ~ written
         /\ cpu_starting = c + 1
<1>1. bsp \in BspPc /\ ApPlace(c)
  BY DEF IInv, TypeOK
<1> QED BY <1>1, SMTT(60) DEF IInv, TypeOK, BspInv, ApPlace, WordsInv, Starting, InSpin

\* A core between syspage_available and smp_spin is the one that
\* transfer_aps is waiting for, and pending is still set.
LEMMA MovingIsI ==
  ASSUME IInv, NEW c \in AP, ap[c] \in {"startnext", "spin"} \/ dirty[c]
  PROVE  c = i /\ bsp = "wait" /\ pending = 1
<1>1. bsp \in BspPc /\ ApPlace(c)
  BY DEF IInv, TypeOK
<1> QED BY <1>1, SMTT(60) DEF IInv, TypeOK, BspInv, ApPlace, WordsInv, Starting, InSpin

\* A core in smp_spin has been let out of smp_start by transfer_aps.
LEMMA SpinningIsPast ==
  ASSUME IInv, NEW c \in AP, ap[c] \in InSpin
  PROVE  written /\ bsp \in {"transfer", "release", "wait", "startnext",
                             "kernel", "halt", "crashed"}
         /\ (bsp \in {"transfer", "release"} => c < i)
         /\ (bsp = "wait" => c <= i) /\ c < num_cpu
<1>1. bsp \in BspPc /\ ApPlace(c)
  BY DEF IInv, TypeOK
<1> QED BY <1>1, SMTT(60) DEF IInv, TypeOK, BspInv, ApPlace, WordsInv, Starting, InSpin

\* A core leaves its wait only for transfer_aps' current value of i.
LEMMA ReleasedIsI ==
  ASSUME IInv, NEW c \in AP, ap[c] = "wait", syspage_available = w19[c]
  PROVE  c = i /\ bsp = "wait" /\ pending = 1
<1>1. bsp \in BspPc /\ ApPlace(c)
  BY DEF IInv, TypeOK
<1>2. w19[c] = c /\ c \in Int /\ c > 0
  BY DEF IInv, WordsInv
<1>3. bsp = "wait"
  <2>1. bsp \notin {"transfer", "release"}
    BY <1>1, <1>2 DEF IInv, TypeOK, BspInv, ApPlace, WordsInv, InSpin
  <2>2. bsp \notin {"startnext", "kernel", "halt"} /\ ~ (bsp = "crashed" /\ written)
    BY <1>1, <1>2 DEF ApPlace, InSpin
  <2> QED BY <1>1, <1>2, <2>1, <2>2 DEF IInv, TypeOK, WordsInv
<1> QED BY <1>1, <1>2, <1>3 DEF IInv, WordsInv, InSpin

-----------------------------------------------------------------------------
(* The invariant holds initially.                                          *)

\* The inductive invariant holds at first.
LEMMA InitIInv == Init => IInv
<1> SUFFICES ASSUME Init PROVE IInv
  OBVIOUS
<1>1. TypeOK
  <2>1. num_cpu \in 1 .. NumCpu /\ count \in 0 .. SpinLimit - 1
    BY DEF Init
  <2>2. cpuinfo \in [CPU -> CPU \cup {NoCpu}] /\ tmp \in [CPU -> Nat]
    BY DEF Init
  <2>3. /\ ap \in [AP -> ApPc] /\ w19 \in [AP -> CPU]
        /\ x4 \in [AP -> Addr] /\ dirty \in [AP -> BOOLEAN]
        /\ monitor \in [AP -> BOOLEAN] /\ event \in [AP -> BOOLEAN]
    BY DEF Init
  <2> QED BY <2>1, <2>2, <2>3 DEF Init, TypeOK
<1>2. BspInv /\ (\A c \in AP : ApPlace(c)) /\ WordsInv /\ LspInv /\ WakeInv
  BY DEF Init, BspInv, ApPlace, WordsInv, LspInv, WakeInv, Starting
<1> QED BY <1>1, <1>2 DEF IInv

-----------------------------------------------------------------------------
(* Each conjunct of the invariant is preserved by each step.               *)

\* The steps of smp_spin after dc cvac touch only the spin variables.
SpinStep(c) ==
  /\ ap[c] \in InSpin \ {"clean"}
  /\ \E q \in InSpin \ {"clean"} : ap' = [ap EXCEPT ![c] = q]
  /\ UNCHANGED <<bspVars, lspVars, w19, cpu_starting, syspage_available,
                 pending, dirty>>

\* What an AP in smp_spin does with start_addr.
LEMMA SpinIsSpinStep ==
  ASSUME NEW c \in AP,
         Ldaxr(c) \/ Wfe(c) \/ Stlxr(c) \/ Branch(c) \/ PutBack(c)
  PROVE  SpinStep(c)
BY DEF SpinStep, Ldaxr, Wfe, Stlxr, Branch, PutBack, InSpin

\* Type correctness.
LEMMA TypeStep ==
  ASSUME IInv, Next
  PROVE  TypeOK'
<1>1. CASE InitSmp
  <2>1. num_cpu' \in 1 .. NumCpu /\ hook' \in Hooks
    BY <1>1 DEF InitSmp, IInv, TypeOK
  <2> QED BY <1>1, <2>1 DEF InitSmp, IInv, TypeOK
<1>2. CASE InitMmuCpuinfo
  BY <1>2 DEF InitMmuCpuinfo, IInv, TypeOK
<1>3. CASE CallHook1
  BY <1>3 DEF CallHook1, IInv, TypeOK
<1>4. CASE StartLoop
  BY <1>4, SMTT(60) DEF StartLoop, IInv, TypeOK
<1>5. CASE BoardSmpStart
  <2>1. \A pc \in {"smp_start", "dead"} :
          [ap EXCEPT ![i] = pc] \in [AP -> ApPc]
    BY DEF IInv, TypeOK
  <2>2. /\ bsp' \in BspPc /\ ap' \in [AP -> ApPc]
        /\ count' \in 0 .. SpinLimit - 1
    <3>1. CASE /\ BspGoto("smp_start", "poll") /\ count' = 0
               /\ \E pc \in {"smp_start", "dead"} : ap' = [ap EXCEPT ![i] = pc]
      BY <2>1, <3>1
    <3>2. CASE BspGoto("smp_start", "crashed") /\ UNCHANGED <<count, ap>>
      BY <3>2 DEF IInv, TypeOK
    <3> QED BY <1>5, <3>1, <3>2 DEF BoardSmpStart
  <2> QED BY <1>5, <2>1, <2>2 DEF BoardSmpStart, IInv, TypeOK
<1>6. CASE PollStarting
  <2>1. count' \in 0 .. SpinLimit - 1
    BY <1>6 DEF PollStarting, IInv, TypeOK
  <2>2. bsp' \in BspPc /\ i' \in Nat
    BY <1>6 DEF PollStarting, IInv, TypeOK
  <2> QED BY <1>6, <2>1, <2>2 DEF PollStarting, IInv, TypeOK
<1>7. CASE PropagateFlags
  BY <1>7 DEF PropagateFlags, IInv, TypeOK
<1>8. CASE BspGrow
  BY <1>8, SMTT(60) DEF BspGrow, IInv, TypeOK
<1>9. CASE WriteSyspage
  BY <1>9 DEF WriteSyspage, IInv, TypeOK
<1>10. CASE CallHook2
  BY <1>10 DEF CallHook2, IInv, TypeOK
<1>11. CASE TransferLoop
  BY <1>11 DEF TransferLoop, IInv, TypeOK
<1>12. CASE ReleaseAp
  BY <1>12 DEF ReleaseAp, IInv, TypeOK
<1>13. CASE WaitPending
  BY <1>13 DEF WaitPending, IInv, TypeOK
<1>14. CASE StartNext
  BY <1>14, ZenonT(60) DEF StartNext, IInv, TypeOK
<1>15. CASE KernelRelease
  BY <1>15 DEF KernelRelease, IInv, TypeOK, StoreStartAddr
<1>16. CASE KernelShutdown
  BY <1>16 DEF KernelShutdown, IInv, TypeOK, StoreStartAddr
<1>17. ASSUME NEW c \in AP, ApSmpStart(c) PROVE TypeOK'
  <2>1. ap' \in [AP -> ApPc]
    BY <1>17 DEF ApSmpStart, IInv, TypeOK
  <2> QED BY <1>17, <2>1, SMTT(60) DEF ApSmpStart, IInv, TypeOK
<1>18. ASSUME NEW c \in AP, ApReadNum(c) PROVE TypeOK'
  <2>1. cpu_starting - 1 = c
    BY <1>18, StartingIsI DEF ApReadNum, Starting
  <2>2. w19' \in [AP -> CPU] /\ ap' \in [AP -> ApPc]
    BY <1>18, <2>1 DEF ApReadNum, IInv, TypeOK
  <2> QED BY <1>18, <2>2, SMTT(60) DEF ApReadNum, IInv, TypeOK
<1>19. ASSUME NEW c \in AP, ApInitCpuinfo(c) PROVE TypeOK'
  <2>1. /\ [cpuinfo EXCEPT ![w19[c]] = c] \in [CPU -> CPU \cup {NoCpu}]
        /\ [tmp EXCEPT ![c] = total_size] \in [CPU -> Nat]
    BY DEF IInv, TypeOK
  <2>2. /\ cpuinfo' \in [CPU -> CPU \cup {NoCpu}] /\ tmp' \in [CPU -> Nat]
        /\ ap' \in [AP -> ApPc]
    <3>1. CASE ApGoto(c, "cpuinfo", "dead") /\ UNCHANGED <<cpuinfo, tmp>>
      BY <3>1 DEF IInv, TypeOK
    <3>2. CASE /\ ApGoto(c, "cpuinfo", "grow")
               /\ cpuinfo' = [cpuinfo EXCEPT ![w19[c]] = c]
               /\ tmp' = [tmp EXCEPT ![c] = total_size]
      BY <2>1, <3>2 DEF IInv, TypeOK
    <3> QED BY <1>19, <3>1, <3>2 DEF ApInitCpuinfo
  <2>3. UNCHANGED <<bspVars, total_size, grown, w19, spinVars, cpu_starting,
                    syspage_available, pending, dirty>>
    BY <1>19 DEF ApInitCpuinfo
  <2> QED BY <2>2, <2>3, SMTT(60) DEF IInv, TypeOK
<1>20. ASSUME NEW c \in AP, ApGrow(c) PROVE TypeOK'
  BY <1>20, SMTT(60) DEF ApGrow, IInv, TypeOK
<1>21. ASSUME NEW c \in AP, ApClear(c) PROVE TypeOK'
  BY <1>21, SMTT(60) DEF ApClear, IInv, TypeOK
<1>22. ASSUME NEW c \in AP, ApWait(c) PROVE TypeOK'
  BY <1>22, SMTT(60) DEF ApWait, IInv, TypeOK
<1>23. ASSUME NEW c \in AP, ApStartNext(c) PROVE TypeOK'
  BY <1>23, SMTT(60) DEF ApStartNext, IInv, TypeOK
<1>24. ASSUME NEW c \in AP, SpinStore(c) PROVE TypeOK'
  BY <1>24, SMTT(60) DEF SpinStore, IInv, TypeOK
<1>25. ASSUME NEW c \in AP, SpinClean(c) PROVE TypeOK'
  BY <1>25, SMTT(60) DEF SpinClean, IInv, TypeOK
<1>26. ASSUME NEW c \in AP, Evict(c) PROVE TypeOK'
  BY <1>26, SMTT(60) DEF Evict, IInv, TypeOK
<1>27. ASSUME NEW c \in AP, Ldaxr(c) PROVE TypeOK'
  BY <1>27 DEF Ldaxr, IInv, TypeOK
<1>28. ASSUME NEW c \in AP, Wfe(c) PROVE TypeOK'
  BY <1>28, SMTT(60) DEF Wfe, IInv, TypeOK
<1>29. ASSUME NEW c \in AP, Stlxr(c) PROVE TypeOK'
  <2>1. /\ monitor' \in [AP -> BOOLEAN] /\ event' \in [AP -> BOOLEAN]
        /\ start_addr' \in Addr
    BY <1>29, ZenonT(60) DEF Stlxr, StoreStartAddr, IInv, TypeOK
  <2>2. ap' \in [AP -> ApPc]
    BY <1>29, ZenonT(60) DEF Stlxr, IInv, TypeOK
  <2> QED BY <1>29, <2>1, <2>2, ZenonT(60) DEF Stlxr, IInv, TypeOK
<1>30. ASSUME NEW c \in AP, Branch(c) PROVE TypeOK'
  BY <1>30, SMTT(60) DEF Branch, IInv, TypeOK
<1>31. ASSUME NEW c \in AP, PutBack(c) PROVE TypeOK'
  BY <1>31, ZenonT(60) DEF PutBack, IInv, TypeOK, StoreStartAddr
<1> QED BY <1>1, <1>2, <1>3, <1>4, <1>5, <1>6, <1>7, <1>8, <1>9, <1>10,
  <1>11, <1>12, <1>13, <1>14, <1>15, <1>16, <1>17, <1>18, <1>19, <1>20,
  <1>21, <1>22, <1>23, <1>24, <1>25, <1>26, <1>27, <1>28, <1>29, <1>30, <1>31
  DEF Next, Startup, Kernel, Secondary

\* CPU 0.
LEMMA BspStep ==
  ASSUME IInv, Next
  PROVE  BspInv'
<1>1. CASE InitSmp
  BY <1>1 DEF InitSmp, IInv, TypeOK, BspInv
<1>2. CASE InitMmuCpuinfo
  BY <1>2 DEF InitMmuCpuinfo, IInv, TypeOK, BspInv
<1>3. CASE CallHook1
  BY <1>3 DEF CallHook1, IInv, TypeOK, BspInv
<1>4. CASE StartLoop
  BY <1>4, SMTT(60) DEF StartLoop, IInv, TypeOK, BspInv
<1>5. CASE BoardSmpStart
  BY <1>5 DEF BoardSmpStart, IInv, TypeOK, BspInv
<1>6. CASE PollStarting
  <2>1. /\ UNCHANGED <<hook, num_cpu, mmu, written>>
        /\ bsp = "poll" /\ bsp' \in {"crashed", "poll", "start"}
        /\ (bsp' = "poll" => UNCHANGED i) /\ (bsp' = "start" => i' = i + 1)
    BY <1>6, SMTT(60) DEF PollStarting
  <2>2. /\ i \in 1 .. num_cpu - 1 /\ num_cpu \in Nat
        /\ hook = "start_aps" /\ num_cpu > 1 /\ ~ mmu /\ ~ written
    BY <2>1, SMTT(60) DEF IInv, TypeOK, BspInv
  <2>3. (bsp' = "start" => i' \in 1 .. num_cpu)
        /\ (bsp' = "poll" => i' \in 1 .. num_cpu - 1)
    BY <2>1, <2>2, SMTT(60)
  <2> QED BY <2>1, <2>2, <2>3, SMTT(60) DEF BspInv
<1>7. CASE PropagateFlags
  BY <1>7 DEF PropagateFlags, IInv, TypeOK, BspInv
<1>8. CASE BspGrow
  BY <1>8 DEF BspGrow, IInv, TypeOK, BspInv
<1>9. CASE WriteSyspage
  BY <1>9 DEF WriteSyspage, IInv, TypeOK, BspInv
<1>10. CASE CallHook2
  BY <1>10 DEF CallHook2, IInv, TypeOK, BspInv
<1>11. CASE TransferLoop
  BY <1>11 DEF TransferLoop, IInv, TypeOK, BspInv
<1>12. CASE ReleaseAp
  BY <1>12 DEF ReleaseAp, IInv, TypeOK, BspInv
<1>13. CASE WaitPending
  BY <1>13 DEF WaitPending, IInv, TypeOK, BspInv
<1>14. CASE StartNext
  BY <1>14 DEF StartNext, IInv, TypeOK, BspInv
<1>15. CASE KernelRelease
  BY <1>15 DEF KernelRelease, IInv, TypeOK, BspInv
<1>16. CASE KernelShutdown
  BY <1>16 DEF KernelShutdown, IInv, TypeOK, BspInv
<1>17. ASSUME NEW c \in AP, Secondary(c) \/ Evict(c) PROVE BspInv'
  <2>1. UNCHANGED bspVars
    BY <1>17 DEF Secondary, Evict, ApSmpStart, ApReadNum, ApInitCpuinfo, ApGrow,
       ApClear, ApWait, ApStartNext, SpinStore, SpinClean, Ldaxr, Wfe, Stlxr,
       Branch, PutBack
  <2> QED BY <2>1 DEF IInv, BspInv
<1> QED BY <1>1, <1>2, <1>3, <1>4, <1>5, <1>6, <1>7, <1>8, <1>9, <1>10,
  <1>11, <1>12, <1>13, <1>14, <1>15, <1>16, <1>17 DEF Next, Startup, Kernel,
  Secondary

\* The places of the APs.
LEMMA PlaceStep ==
  ASSUME IInv, Next
  PROVE  (\A d \in AP : ApPlace(d))'
<1>1. CASE InitSmp
  BY <1>1 DEF InitSmp, IInv, TypeOK, BspInv, ApPlace, WordsInv, Starting,
    InSpin
<1>2. CASE InitMmuCpuinfo
  BY <1>2 DEF InitMmuCpuinfo, IInv, TypeOK, BspInv, ApPlace, WordsInv,
    Starting, InSpin
<1>3. CASE CallHook1
  BY <1>3 DEF CallHook1, IInv, TypeOK, BspInv, ApPlace, WordsInv, Starting,
    InSpin
<1>4. CASE StartLoop
  <2> SUFFICES ASSUME NEW d \in AP PROVE ApPlace(d)'
    OBVIOUS
  <2>1. ApPlace(d)
    BY DEF IInv
  <2>2. CASE i < num_cpu
    BY <1>4, <2>1, <2>2 DEF StartLoop, IInv, TypeOK, BspInv, ApPlace
  <2>3. CASE ~ (i < num_cpu)
    BY <1>4, <2>1, <2>3 DEF StartLoop, IInv, TypeOK, BspInv, ApPlace
  <2> QED BY <2>2, <2>3
<1>5. CASE BoardSmpStart
  <2> SUFFICES ASSUME NEW d \in AP PROVE ApPlace(d)'
    OBVIOUS
  <2>1. ApPlace(d)
    BY DEF IInv
  <2>2. i \in AP /\ ~ written
    BY <1>5 DEF BoardSmpStart, IInv, TypeOK, BspInv
  <2>3. CASE bsp' = "crashed"
    BY <1>5, <2>1, <2>2, <2>3 DEF BoardSmpStart, IInv, TypeOK, ApPlace
  <2>4. CASE bsp' = "poll"
    BY <1>5, <2>1, <2>2, <2>4, SMTT(60) DEF BoardSmpStart, IInv, TypeOK, ApPlace, Starting
  <2> QED BY <1>5, <2>3, <2>4 DEF BoardSmpStart
<1>6. CASE PollStarting
  <2> SUFFICES ASSUME NEW d \in AP PROVE ApPlace(d)'
    OBVIOUS
  <2>1. ApPlace(d)
    BY DEF IInv
  <2>2. ~ written /\ i \in AP
    BY <1>6 DEF PollStarting, IInv, TypeOK, BspInv
  <2>3. CASE bsp' = "crashed"
    BY <1>6, <2>1, <2>2, <2>3 DEF PollStarting, IInv, TypeOK, ApPlace, Starting
  <2>4. CASE bsp' = "poll"
    BY <1>6, <2>1, <2>2, <2>4 DEF PollStarting, IInv, TypeOK, ApPlace, Starting
  <2>5. CASE bsp' = "start"
    <3>1. cpu_starting = 0 /\ i' = i + 1 /\ bsp = "poll" /\ UNCHANGED <<ap, num_cpu>>
      BY <1>6, <2>5 DEF PollStarting
    <3>2. d = i => ap[d] = "wait"
      BY <2>1, <3>1 DEF ApPlace, IInv, WordsInv, TypeOK, Starting
    <3> QED BY <2>1, <2>2, <2>5, <3>1, <3>2 DEF ApPlace, IInv, TypeOK
  <2> QED BY <1>6, <2>3, <2>4, <2>5 DEF PollStarting
<1>7. CASE PropagateFlags
  BY <1>7 DEF PropagateFlags, IInv, TypeOK, BspInv, ApPlace, WordsInv,
    Starting, InSpin
<1>8. CASE BspGrow
  BY <1>8 DEF BspGrow, IInv, TypeOK, BspInv, ApPlace, WordsInv, Starting,
    InSpin
<1>9. CASE WriteSyspage
  BY <1>9 DEF WriteSyspage, IInv, TypeOK, BspInv, ApPlace, WordsInv,
    Starting, InSpin
<1>10. CASE CallHook2
  BY <1>10 DEF CallHook2, IInv, TypeOK, BspInv, ApPlace, WordsInv,
    Starting, InSpin
<1>11. CASE TransferLoop
  BY <1>11, SMTT(60) DEF TransferLoop, IInv, TypeOK, BspInv, ApPlace, WordsInv,
    Starting, InSpin
<1>12. CASE ReleaseAp
  BY <1>12 DEF ReleaseAp, IInv, TypeOK, BspInv, ApPlace, WordsInv,
    Starting, InSpin
<1>13. CASE WaitPending
  BY <1>13, SMTT(60) DEF WaitPending, IInv, TypeOK, BspInv, ApPlace, WordsInv,
    Starting, InSpin
<1>14. CASE StartNext
  BY <1>14 DEF StartNext, IInv, TypeOK, BspInv, ApPlace, WordsInv,
    Starting, InSpin
<1>15. CASE KernelRelease
  BY <1>15 DEF KernelRelease, IInv, TypeOK, BspInv, ApPlace, WordsInv,
    Starting, InSpin
<1>16. CASE KernelShutdown
  BY <1>16 DEF KernelShutdown, IInv, TypeOK, BspInv, ApPlace, WordsInv,
    Starting, InSpin
<1>17. ASSUME NEW c \in AP, ApSmpStart(c) PROVE (\A d \in AP : ApPlace(d))'
  BY <1>17, StartingIsI, ZenonT(60) DEF ApSmpStart, IInv, TypeOK, BspInv, ApPlace,
    WordsInv, Starting, InSpin
<1>18. ASSUME NEW c \in AP, ApReadNum(c) PROVE (\A d \in AP : ApPlace(d))'
  BY <1>18, StartingIsI, ZenonT(60) DEF ApReadNum, IInv, TypeOK, BspInv, ApPlace,
    WordsInv, Starting, InSpin
<1>19. ASSUME NEW c \in AP, ApInitCpuinfo(c) PROVE (\A d \in AP : ApPlace(d))'
  <2> SUFFICES ASSUME NEW d \in AP PROVE ApPlace(d)'
    OBVIOUS
  <2>1. ApPlace(d)
    BY DEF IInv
  <2>2. c = i /\ bsp \in {"poll", "crashed"} /\ ~ written
    BY <1>19, StartingIsI DEF ApInitCpuinfo, Starting
  <2>3. /\ UNCHANGED bspVars
        /\ d # c => ap'[d] = ap[d]
        /\ d = c => ap'[d] \in {"grow", "dead"}
    BY <1>19 DEF ApInitCpuinfo, IInv, TypeOK
  <2> QED BY <2>1, <2>2, <2>3 DEF ApPlace, Starting
<1>20. ASSUME NEW c \in AP, ApGrow(c) PROVE (\A d \in AP : ApPlace(d))'
  BY <1>20, StartingIsI, ZenonT(60) DEF ApGrow, IInv, TypeOK, BspInv, ApPlace,
    WordsInv, Starting, InSpin
<1>21. ASSUME NEW c \in AP, ApClear(c) PROVE (\A d \in AP : ApPlace(d))'
  BY <1>21, StartingIsI, ZenonT(60) DEF ApClear, IInv, TypeOK, BspInv, ApPlace,
    WordsInv, Starting, InSpin
<1>22. ASSUME NEW c \in AP, ApWait(c) PROVE (\A d \in AP : ApPlace(d))'
  <2> SUFFICES ASSUME NEW d \in AP PROVE ApPlace(d)'
    OBVIOUS
  <2>1. ApPlace(d)
    BY DEF IInv
  <2>2. c = i /\ bsp = "wait"
    BY <1>22, ReleasedIsI DEF ApWait
  <2>3. /\ UNCHANGED bspVars
        /\ d # c => ap'[d] = ap[d]
        /\ d = c => ap'[d] = "startnext"
    BY <1>22 DEF ApWait, IInv, TypeOK
  <2> QED BY <2>1, <2>2, <2>3 DEF ApPlace
<1>23. ASSUME NEW c \in AP, ApStartNext(c) PROVE (\A d \in AP : ApPlace(d))'
  BY <1>23, MovingIsI, ZenonT(60) DEF ApStartNext, IInv, TypeOK, BspInv, ApPlace,
    WordsInv, Starting, InSpin
<1>24. ASSUME NEW c \in AP, SpinStore(c) PROVE (\A d \in AP : ApPlace(d))'
  BY <1>24, MovingIsI, ZenonT(60) DEF SpinStore, IInv, TypeOK, BspInv, ApPlace,
    WordsInv, Starting, InSpin
<1>25. ASSUME NEW c \in AP, SpinClean(c) PROVE (\A d \in AP : ApPlace(d))'
  BY <1>25, SMTT(60) DEF SpinClean, IInv, TypeOK, BspInv, ApPlace, WordsInv,
    Starting, InSpin
<1>26. ASSUME NEW c \in AP, Evict(c) PROVE (\A d \in AP : ApPlace(d))'
  BY <1>26, MovingIsI, ZenonT(60) DEF Evict, IInv, TypeOK, BspInv, ApPlace, WordsInv,
    Starting, InSpin
<1>27. ASSUME NEW c \in AP, Ldaxr(c) \/ Wfe(c) \/ Stlxr(c) \/ Branch(c) \/ PutBack(c)
      PROVE  (\A d \in AP : ApPlace(d))'
  <2> SUFFICES ASSUME NEW d \in AP PROVE ApPlace(d)'
    OBVIOUS
  <2>1. ApPlace(d)
    BY DEF IInv
  <2>2. SpinStep(c)
    BY <1>27, SpinIsSpinStep
  <2>3. ap[c] \in InSpin /\ ap'[c] \in InSpin /\ UNCHANGED bspVars
    BY <2>2 DEF SpinStep, IInv, TypeOK
  <2>4. CASE d = c
    <3>1. /\ written /\ c < num_cpu
          /\ bsp \in {"transfer", "release", "wait", "startnext", "kernel",
                      "halt", "crashed"}
          /\ bsp \in {"transfer", "release"} => c < i
          /\ bsp = "wait" => c <= i
      BY <2>3, SpinningIsPast
    <3> QED BY <2>3, <2>4, <3>1 DEF ApPlace, IInv, TypeOK
  <2>5. CASE d # c
    <3>1. ap'[d] = ap[d]
      BY <2>2, <2>5 DEF SpinStep, IInv, TypeOK
    <3> QED BY <2>1, <2>3, <3>1 DEF ApPlace, Starting
  <2> QED BY <2>4, <2>5
<1> QED BY <1>1, <1>2, <1>3, <1>4, <1>5, <1>6, <1>7, <1>8, <1>9, <1>10,
  <1>11, <1>12, <1>13, <1>14, <1>15, <1>16, <1>17, <1>18, <1>19, <1>20,
  <1>21, <1>22, <1>23, <1>24, <1>25, <1>26, <1>27 DEF Next, Startup, Kernel,
  Secondary

\* The shared words.
LEMMA WordsStep ==
  ASSUME IInv, Next
  PROVE  WordsInv'
<1>1. CASE InitSmp
  BY <1>1 DEF InitSmp, IInv, TypeOK, BspInv, ApPlace, WordsInv, Starting,
    InSpin
<1>2. CASE InitMmuCpuinfo
  BY <1>2 DEF InitMmuCpuinfo, IInv, TypeOK, BspInv, ApPlace, WordsInv,
    Starting, InSpin
<1>3. CASE CallHook1
  BY <1>3 DEF CallHook1, IInv, TypeOK, BspInv, ApPlace, WordsInv, Starting,
    InSpin
<1>4. CASE StartLoop
  BY <1>4 DEF StartLoop, IInv, TypeOK, BspInv, ApPlace, WordsInv, Starting,
    InSpin
<1>5. CASE BoardSmpStart
  BY <1>5, ZenonT(60) DEF BoardSmpStart, IInv, TypeOK, BspInv, ApPlace, WordsInv,
    Starting, InSpin
<1>6. CASE PollStarting
  BY <1>6, SMTT(60) DEF PollStarting, IInv, TypeOK, BspInv, ApPlace, WordsInv,
    Starting, InSpin
<1>7. CASE PropagateFlags
  BY <1>7 DEF PropagateFlags, IInv, TypeOK, BspInv, ApPlace, WordsInv,
    Starting, InSpin
<1>8. CASE BspGrow
  BY <1>8 DEF BspGrow, IInv, TypeOK, BspInv, ApPlace, WordsInv, Starting,
    InSpin
<1>9. CASE WriteSyspage
  BY <1>9 DEF WriteSyspage, IInv, TypeOK, BspInv, ApPlace, WordsInv,
    Starting, InSpin
<1>10. CASE CallHook2
  <2>1. \A c \in AP : ~ Starting(c) /\ ap[c] # "dead" /\ ~ dirty[c]
    BY <1>10 DEF CallHook2, IInv, ApPlace, WordsInv, Starting
  <2>2. bsp' = "transfer" => i' = 1 /\ syspage_available = 0
    BY <1>10 DEF CallHook2, IInv, WordsInv
  <2>3. bsp' \in {"transfer", "startnext"}
    BY <1>10 DEF CallHook2
  <2> QED BY <1>10, <2>1, <2>2, <2>3 DEF CallHook2, IInv, WordsInv, Starting
<1>11. CASE TransferLoop
  BY <1>11 DEF TransferLoop, IInv, TypeOK, BspInv, ApPlace, WordsInv,
    Starting, InSpin
<1>12. CASE ReleaseAp
  BY <1>12 DEF ReleaseAp, IInv, TypeOK, BspInv, ApPlace, WordsInv,
    Starting, InSpin
<1>13. CASE WaitPending
  <2>1. \A c \in AP : ~ Starting(c) /\ ap[c] # "dead"
    <3> SUFFICES ASSUME NEW c \in AP PROVE ~ Starting(c) /\ ap[c] # "dead"
      OBVIOUS
    <3>1. ApPlace(c) /\ bsp = "wait"
      BY <1>13 DEF WaitPending, IInv
    <3> QED BY <3>1, SMTT(60) DEF IInv, TypeOK, ApPlace, Starting, InSpin
  <2>2. \A c \in AP : ~ dirty[c]
    BY <1>13, MovingIsI DEF WaitPending
  <2>3. syspage_available = i' - 1 /\ bsp' = "transfer"
    BY <1>13 DEF WaitPending, IInv, WordsInv, TypeOK
  <2> QED BY <1>13, <2>1, <2>2, <2>3 DEF WaitPending, IInv, WordsInv, Starting
<1>14. CASE StartNext
  BY <1>14 DEF StartNext, IInv, TypeOK, BspInv, ApPlace, WordsInv,
    Starting, InSpin
<1>15. CASE KernelRelease
  BY <1>15 DEF KernelRelease, IInv, TypeOK, BspInv, ApPlace, WordsInv,
    Starting, InSpin
<1>16. CASE KernelShutdown
  BY <1>16 DEF KernelShutdown, IInv, TypeOK, BspInv, ApPlace, WordsInv,
    Starting, InSpin
<1>17. ASSUME NEW c \in AP, ApSmpStart(c) PROVE WordsInv'
  BY <1>17, StartingIsI, ZenonT(60) DEF ApSmpStart, IInv, TypeOK, BspInv, ApPlace,
    WordsInv, Starting, InSpin
<1>18. ASSUME NEW c \in AP, ApReadNum(c) PROVE WordsInv'
  <2>1. c = i /\ bsp \in {"poll", "crashed"} /\ ~ written /\ cpu_starting = c + 1
    BY <1>18, StartingIsI DEF ApReadNum, Starting
  <2>2. \A d \in AP : d # c => ap'[d] = ap[d] /\ ~ Starting(d)
    BY <1>18, <2>1, StartingIsI DEF ApReadNum, IInv, TypeOK
  <2>3. \A d \in AP : ~ dirty[d]
    BY <2>1, MovingIsI
  <2>4. w19'[c] = c /\ ap'[c] = "cpuinfo" /\ \A d \in AP : d # c => w19'[d] = w19[d]
    BY <1>18, <2>1 DEF ApReadNum, IInv, TypeOK
  <2> QED BY <1>18, <2>1, <2>2, <2>3, <2>4 DEF ApReadNum, IInv, WordsInv, Starting
<1>19. ASSUME NEW c \in AP, ApInitCpuinfo(c) PROVE WordsInv'
  <2>1. c = i /\ bsp \in {"poll", "crashed"} /\ ~ written /\ cpu_starting = c + 1
    BY <1>19, StartingIsI DEF ApInitCpuinfo, Starting
  <2>2. \A d \in AP : d # c => ap'[d] = ap[d] /\ ~ Starting(d)
    BY <1>19, <2>1, StartingIsI DEF ApInitCpuinfo, IInv, TypeOK
  <2>3. \A d \in AP : ~ dirty[d]
    BY <2>1, MovingIsI
  <2>4. ap'[c] \in {"grow", "dead"} /\ w19[c] = c
    BY <1>19 DEF ApInitCpuinfo, IInv, TypeOK, WordsInv
  <2>5. UNCHANGED <<bspVars, w19, cpu_starting, syspage_available, pending, dirty>>
    BY <1>19 DEF ApInitCpuinfo
  <2> QED BY <2>1, <2>2, <2>3, <2>4, <2>5 DEF IInv, WordsInv, Starting
<1>20. ASSUME NEW c \in AP, ApGrow(c) PROVE WordsInv'
  BY <1>20, StartingIsI, ZenonT(60) DEF ApGrow, IInv, TypeOK, BspInv, ApPlace,
    WordsInv, Starting, InSpin
<1>21. ASSUME NEW c \in AP, ApClear(c) PROVE WordsInv'
  <2>1. c = i /\ bsp \in {"poll", "crashed"} /\ ~ written /\ cpu_starting = c + 1
    BY <1>21, StartingIsI DEF ApClear, Starting
  <2>2. \A d \in AP : d # c => ap'[d] = ap[d] /\ ~ Starting(d)
    BY <1>21, <2>1, StartingIsI DEF ApClear, IInv, TypeOK
  <2>3. \A d \in AP : ~ dirty[d]
    BY <2>1, MovingIsI
  <2>4. ap'[c] = "wait" /\ w19[c] = c
    BY <1>21 DEF ApClear, IInv, TypeOK, WordsInv
  <2>5. \A d \in AP : d # c => ap[d] # "dead"
    BY <2>1 DEF IInv, ApPlace, TypeOK
  <2> QED BY <1>21, <2>1, <2>2, <2>3, <2>4, <2>5 DEF ApClear, IInv, WordsInv, Starting
<1>22. ASSUME NEW c \in AP, ApWait(c) PROVE WordsInv'
  <2>1. c = i /\ bsp = "wait" /\ pending = 1
    BY <1>22, ReleasedIsI DEF ApWait
  <2>2. \A d \in AP : d # c => ap'[d] = ap[d] /\ ~ dirty[d]
    BY <1>22, <2>1, MovingIsI DEF ApWait, IInv, TypeOK
  <2>3. \A d \in AP : ~ Starting(d) /\ ~ Starting(d)'
    BY <1>22, <2>1, <2>2, StartingIsI DEF ApWait, IInv, TypeOK, Starting
  <2>4. ap'[c] = "startnext" /\ w19[c] = c /\ ~ dirty[c]
    BY <1>22, <2>1 DEF ApWait, IInv, TypeOK, WordsInv, InSpin
  <2>5. UNCHANGED <<bspVars, w19, cpu_starting, syspage_available, pending, dirty>>
    BY <1>22 DEF ApWait
  <2> QED BY <2>1, <2>2, <2>3, <2>4, <2>5 DEF IInv, WordsInv
<1>23. ASSUME NEW c \in AP, ApStartNext(c) PROVE WordsInv'
  BY <1>23, MovingIsI, ZenonT(60) DEF ApStartNext, IInv, TypeOK, BspInv, ApPlace,
    WordsInv, Starting, InSpin
<1>24. ASSUME NEW c \in AP, SpinStore(c) PROVE WordsInv'
  BY <1>24, MovingIsI, ZenonT(60) DEF SpinStore, IInv, TypeOK, BspInv, ApPlace,
    WordsInv, Starting, InSpin
<1>25. ASSUME NEW c \in AP, SpinClean(c) PROVE WordsInv'
  <2>1. /\ bsp \in {"transfer", "release", "wait", "startnext", "kernel", "halt",
                    "crashed"}
        /\ bsp \in {"transfer", "release"} => c < i
        /\ written
    BY <1>25, SpinningIsPast DEF SpinClean, InSpin
  <2>2. /\ ap'[c] = "ldaxr" /\ ~ dirty'[c] /\ w19[c] = c
        /\ \A d \in AP : d # c => ap'[d] = ap[d] /\ dirty'[d] = dirty[d]
    BY <1>25 DEF SpinClean, IInv, TypeOK, WordsInv
  <2>3. UNCHANGED <<bspVars, w19, cpu_starting, syspage_available>>
    BY <1>25 DEF SpinClean
  <2>4. \A d \in AP : Starting(d)' <=> Starting(d)
    BY <1>25, <2>2 DEF SpinClean, Starting
  <2>5. CASE dirty[c]
    <3>1. c = i /\ bsp = "wait" /\ \A d \in AP : ~ dirty'[d]
      BY <2>2, <2>5, MovingIsI
    <3> QED BY <2>2, <2>3, <2>4, <3>1 DEF IInv, WordsInv, InSpin
  <2>6. CASE ~ dirty[c]
    <3>1. pending' = pending /\ \A d \in AP : dirty'[d] <=> dirty[d]
      BY <1>25, <2>2, <2>6 DEF SpinClean
    <3> QED BY <2>1, <2>2, <2>3, <2>4, <3>1 DEF IInv, WordsInv, InSpin
  <2> QED BY <2>5, <2>6
<1>26. ASSUME NEW c \in AP, Evict(c) PROVE WordsInv'
  BY <1>26, MovingIsI, ZenonT(60) DEF Evict, IInv, TypeOK, BspInv, ApPlace, WordsInv,
    Starting, InSpin
<1>27. ASSUME NEW c \in AP, Ldaxr(c) \/ Wfe(c) \/ Stlxr(c) \/ Branch(c) \/ PutBack(c)
      PROVE  WordsInv'
  <2>1. SpinStep(c)
    BY <1>27, SpinIsSpinStep
  <2>2. /\ ap[c] \in InSpin \ {"clean"} /\ ap'[c] \in InSpin \ {"clean"}
        /\ \A d \in AP : d # c => ap'[d] = ap[d]
        /\ UNCHANGED <<bspVars, w19, cpu_starting, syspage_available, pending,
                       dirty>>
    BY <2>1 DEF SpinStep, IInv, TypeOK
  <2>3. \A d \in AP : Starting(d)' <=> Starting(d)
    BY <2>2 DEF Starting, InSpin
  <2>4. w19[c] = c /\ ap[c] # "dead" /\ ap'[c] # "dead"
    BY <2>2 DEF IInv, WordsInv, InSpin
  <2>5. \A d \in AP : bsp = "wait" /\ d = i =>
          \/ ap'[d] \in {"wait", "startnext", "spin"} /\ pending = 1 /\ ~ dirty[d]
          \/ ap'[d] = "clean" /\ dirty[d] /\ pending = 1
          \/ ap'[d] \in InSpin /\ ~ dirty[d]
    BY <2>2 DEF IInv, WordsInv, InSpin
  <2> QED BY <2>2, <2>3, <2>4, <2>5 DEF IInv, WordsInv
<1> QED BY <1>1, <1>2, <1>3, <1>4, <1>5, <1>6, <1>7, <1>8, <1>9, <1>10,
  <1>11, <1>12, <1>13, <1>14, <1>15, <1>16, <1>17, <1>18, <1>19, <1>20,
  <1>21, <1>22, <1>23, <1>24, <1>25, <1>26, <1>27 DEF Next, Startup, Kernel,
  Secondary

\* The local system page.
LEMMA LspStep ==
  ASSUME IInv, Next
  PROVE  LspInv'
<1>1. CASE InitSmp
  BY <1>1 DEF InitSmp, IInv, LspInv, TypeOK, BspInv, ApPlace, WordsInv,
    Starting, InSpin
<1>2. CASE InitMmuCpuinfo
  BY <1>2 DEF InitMmuCpuinfo, IInv, LspInv, TypeOK, BspInv, ApPlace,
    WordsInv, Starting, InSpin
<1>3. CASE CallHook1
  BY <1>3 DEF CallHook1, IInv, LspInv, TypeOK, BspInv, ApPlace, WordsInv,
    Starting, InSpin
<1>4. CASE StartLoop
  BY <1>4 DEF StartLoop, IInv, LspInv, TypeOK, BspInv, ApPlace, WordsInv,
    Starting, InSpin
<1>5. CASE BoardSmpStart
  <2>1. UNCHANGED lspVars /\ bsp = "smp_start" /\ bsp' \in {"poll", "crashed"}
    BY <1>5 DEF BoardSmpStart
  <2>2. \A c \in AP : ap'[c] = ap[c] \/ ap'[c] \in {"smp_start", "dead"}
    BY <1>5 DEF BoardSmpStart, IInv, TypeOK
  <2> QED BY <2>1, <2>2 DEF IInv, LspInv
<1>6. CASE PollStarting
  BY <1>6 DEF PollStarting, IInv, LspInv, TypeOK, BspInv, ApPlace,
    WordsInv, Starting, InSpin
<1>7. CASE PropagateFlags
  BY <1>7 DEF PropagateFlags, IInv, LspInv, TypeOK, BspInv, ApPlace,
    WordsInv, Starting, InSpin
<1>8. CASE BspGrow
  BY <1>8 DEF BspGrow, IInv, LspInv, TypeOK, BspInv, ApPlace, WordsInv,
    Starting, InSpin
<1>9. CASE WriteSyspage
  BY <1>9 DEF WriteSyspage, IInv, LspInv, TypeOK, BspInv, ApPlace,
    WordsInv, Starting, InSpin
<1>10. CASE CallHook2
  BY <1>10 DEF CallHook2, IInv, LspInv, TypeOK, BspInv, ApPlace, WordsInv,
    Starting, InSpin
<1>11. CASE TransferLoop
  BY <1>11 DEF TransferLoop, IInv, LspInv, TypeOK, BspInv, ApPlace,
    WordsInv, Starting, InSpin
<1>12. CASE ReleaseAp
  BY <1>12 DEF ReleaseAp, IInv, LspInv, TypeOK, BspInv, ApPlace, WordsInv,
    Starting, InSpin
<1>13. CASE WaitPending
  BY <1>13 DEF WaitPending, IInv, LspInv, TypeOK, BspInv, ApPlace,
    WordsInv, Starting, InSpin
<1>14. CASE StartNext
  BY <1>14 DEF StartNext, IInv, LspInv, TypeOK, BspInv, ApPlace, WordsInv,
    Starting, InSpin
<1>15. CASE KernelRelease
  BY <1>15 DEF KernelRelease, IInv, LspInv, TypeOK, BspInv, ApPlace,
    WordsInv, Starting, InSpin
<1>16. CASE KernelShutdown
  BY <1>16 DEF KernelShutdown, IInv, LspInv, TypeOK, BspInv, ApPlace,
    WordsInv, Starting, InSpin
<1>17. ASSUME NEW c \in AP, ApSmpStart(c) PROVE LspInv'
  BY <1>17, StartingIsI, SMTT(60) DEF ApSmpStart, IInv, LspInv, TypeOK, BspInv,
    ApPlace, WordsInv, Starting, InSpin
<1>18. ASSUME NEW c \in AP, ApReadNum(c) PROVE LspInv'
  BY <1>18, StartingIsI, SMTT(60) DEF ApReadNum, IInv, LspInv, TypeOK, BspInv,
    ApPlace, WordsInv, Starting, InSpin
<1>19. ASSUME NEW c \in AP, ApInitCpuinfo(c) PROVE LspInv'
  <2>1. c = i /\ bsp \in {"poll", "crashed"} /\ w19[c] = c
    BY <1>19, StartingIsI DEF ApInitCpuinfo, Starting, IInv, WordsInv
  <2>2. \A d \in AP : d # c => ap'[d] = ap[d] /\ ~ Starting(d)
    BY <1>19, <2>1, StartingIsI DEF ApInitCpuinfo, IInv, TypeOK
  <2>3. CASE ap'[c] = "dead"
    <3>1. UNCHANGED <<cpuinfo, tmp, total_size, grown, bsp>>
      BY <1>19, <2>3 DEF ApInitCpuinfo, IInv, TypeOK
    <3> QED BY <2>1, <2>2, <2>3, <3>1 DEF IInv, LspInv, Starting
  <2>4. CASE ap'[c] = "grow"
    <3>1. /\ cpuinfo' = [cpuinfo EXCEPT ![c] = c]
          /\ tmp' = [tmp EXCEPT ![c] = total_size]
          /\ UNCHANGED <<total_size, grown, bsp>>
      BY <1>19, <2>1, <2>4 DEF ApInitCpuinfo, IInv, TypeOK
    <3>2. /\ cpuinfo'[c] = c /\ tmp'[c] = total_size
          /\ \A d \in CPU : d # c => cpuinfo'[d] = cpuinfo[d] /\ tmp'[d] = tmp[d]
      BY <3>1 DEF IInv, TypeOK
    <3> QED BY <2>1, <2>2, <2>4, <3>1, <3>2 DEF IInv, LspInv, Starting
  <2> QED BY <1>19, <2>3, <2>4 DEF ApInitCpuinfo, IInv, TypeOK
<1>20. ASSUME NEW c \in AP, ApGrow(c) PROVE LspInv'
  <2>1. c = i /\ bsp \in {"poll", "crashed"} /\ w19[c] = c
    BY <1>20, StartingIsI DEF ApGrow, Starting, IInv, WordsInv
  <2>2. \A d \in AP : d # c => ap'[d] = ap[d] /\ ~ Starting(d)
    BY <1>20, <2>1, StartingIsI DEF ApGrow, IInv, TypeOK
  <2>3. /\ total_size' = grown' /\ ap'[c] = "clear" /\ cpuinfo[c] = c
        /\ UNCHANGED <<tmp, cpuinfo, bsp>>
    BY <1>20 DEF ApGrow, IInv, TypeOK, LspInv
  <2> QED BY <2>1, <2>2, <2>3 DEF IInv, LspInv, Starting
<1>21. ASSUME NEW c \in AP, ApClear(c) PROVE LspInv'
  BY <1>21, StartingIsI, ZenonT(60) DEF ApClear, IInv, LspInv, TypeOK, BspInv, ApPlace,
    WordsInv, Starting, InSpin
<1>22. ASSUME NEW c \in AP, ApWait(c) PROVE LspInv'
  BY <1>22, ReleasedIsI, ZenonT(60) DEF ApWait, IInv, LspInv, TypeOK, BspInv, ApPlace,
    WordsInv, Starting, InSpin
<1>23. ASSUME NEW c \in AP, ApStartNext(c) PROVE LspInv'
  BY <1>23, MovingIsI, ZenonT(60) DEF ApStartNext, IInv, LspInv, TypeOK, BspInv,
    ApPlace, WordsInv, Starting, InSpin
<1>24. ASSUME NEW c \in AP, SpinStore(c) PROVE LspInv'
  BY <1>24, MovingIsI, ZenonT(60) DEF SpinStore, IInv, LspInv, TypeOK, BspInv, ApPlace,
    WordsInv, Starting, InSpin
<1>25. ASSUME NEW c \in AP, SpinClean(c) PROVE LspInv'
  BY <1>25, ZenonT(60) DEF SpinClean, IInv, LspInv, TypeOK, BspInv, ApPlace, WordsInv,
    Starting, InSpin
<1>26. ASSUME NEW c \in AP, Evict(c) PROVE LspInv'
  BY <1>26, MovingIsI, ZenonT(60) DEF Evict, IInv, LspInv, TypeOK, BspInv, ApPlace,
    WordsInv, Starting, InSpin
<1>27. ASSUME NEW c \in AP, Ldaxr(c) \/ Wfe(c) \/ Stlxr(c) \/ Branch(c) \/ PutBack(c)
      PROVE  LspInv'
  <2>1. SpinStep(c)
    BY <1>27, SpinIsSpinStep
  <2>2. /\ ap[c] \in InSpin /\ ap'[c] \in InSpin
        /\ \A d \in AP : d # c => ap'[d] = ap[d]
        /\ UNCHANGED <<bsp, lspVars>>
    BY <2>1 DEF SpinStep, IInv, TypeOK
  <2> QED BY <2>2 DEF IInv, LspInv, InSpin
<1> QED BY <1>1, <1>2, <1>3, <1>4, <1>5, <1>6, <1>7, <1>8, <1>9, <1>10,
  <1>11, <1>12, <1>13, <1>14, <1>15, <1>16, <1>17, <1>18, <1>19, <1>20,
  <1>21, <1>22, <1>23, <1>24, <1>25, <1>26, <1>27 DEF Next, Startup, Kernel,
  Secondary

\* Sleeping cores.
LEMMA WakeStep ==
  ASSUME IInv, Next
  PROVE  WakeInv'
<1>1. CASE InitSmp
  BY <1>1 DEF InitSmp, IInv, TypeOK, WakeInv, StoreStartAddr
<1>2. CASE InitMmuCpuinfo
  BY <1>2 DEF InitMmuCpuinfo, IInv, TypeOK, WakeInv, StoreStartAddr
<1>3. CASE CallHook1
  BY <1>3 DEF CallHook1, IInv, TypeOK, WakeInv, StoreStartAddr
<1>4. CASE StartLoop
  BY <1>4 DEF StartLoop, IInv, TypeOK, WakeInv, StoreStartAddr
<1>5. CASE BoardSmpStart
  BY <1>5 DEF BoardSmpStart, IInv, TypeOK, WakeInv, StoreStartAddr
<1>6. CASE PollStarting
  BY <1>6 DEF PollStarting, IInv, TypeOK, WakeInv, StoreStartAddr
<1>7. CASE PropagateFlags
  BY <1>7 DEF PropagateFlags, IInv, TypeOK, WakeInv, StoreStartAddr
<1>8. CASE BspGrow
  BY <1>8 DEF BspGrow, IInv, TypeOK, WakeInv, StoreStartAddr
<1>9. CASE WriteSyspage
  BY <1>9 DEF WriteSyspage, IInv, TypeOK, WakeInv, StoreStartAddr
<1>10. CASE CallHook2
  BY <1>10 DEF CallHook2, IInv, TypeOK, WakeInv, StoreStartAddr
<1>11. CASE TransferLoop
  BY <1>11 DEF TransferLoop, IInv, TypeOK, WakeInv, StoreStartAddr
<1>12. CASE ReleaseAp
  BY <1>12 DEF ReleaseAp, IInv, TypeOK, WakeInv, StoreStartAddr
<1>13. CASE WaitPending
  BY <1>13 DEF WaitPending, IInv, TypeOK, WakeInv, StoreStartAddr
<1>14. CASE StartNext
  BY <1>14 DEF StartNext, IInv, TypeOK, WakeInv, StoreStartAddr
<1>15. CASE KernelRelease
  BY <1>15 DEF KernelRelease, IInv, TypeOK, WakeInv, StoreStartAddr
<1>16. CASE KernelShutdown
  BY <1>16 DEF KernelShutdown, IInv, TypeOK, WakeInv, StoreStartAddr
<1>17. ASSUME NEW c \in AP, ApSmpStart(c) PROVE WakeInv'
  BY <1>17 DEF ApSmpStart, IInv, TypeOK, WakeInv, StoreStartAddr
<1>18. ASSUME NEW c \in AP, ApReadNum(c) PROVE WakeInv'
  BY <1>18 DEF ApReadNum, IInv, TypeOK, WakeInv, StoreStartAddr
<1>19. ASSUME NEW c \in AP, ApInitCpuinfo(c) PROVE WakeInv'
  BY <1>19 DEF ApInitCpuinfo, IInv, TypeOK, WakeInv, StoreStartAddr
<1>20. ASSUME NEW c \in AP, ApGrow(c) PROVE WakeInv'
  BY <1>20 DEF ApGrow, IInv, TypeOK, WakeInv, StoreStartAddr
<1>21. ASSUME NEW c \in AP, ApClear(c) PROVE WakeInv'
  BY <1>21 DEF ApClear, IInv, TypeOK, WakeInv, StoreStartAddr
<1>22. ASSUME NEW c \in AP, ApWait(c) PROVE WakeInv'
  BY <1>22 DEF ApWait, IInv, TypeOK, WakeInv, StoreStartAddr
<1>23. ASSUME NEW c \in AP, ApStartNext(c) PROVE WakeInv'
  BY <1>23 DEF ApStartNext, IInv, TypeOK, WakeInv, StoreStartAddr
<1>24. ASSUME NEW c \in AP, SpinStore(c) PROVE WakeInv'
  BY <1>24 DEF SpinStore, IInv, TypeOK, WakeInv, StoreStartAddr
<1>25. ASSUME NEW c \in AP, SpinClean(c) PROVE WakeInv'
  BY <1>25 DEF SpinClean, IInv, TypeOK, WakeInv, StoreStartAddr
<1>26. ASSUME NEW c \in AP, Evict(c) PROVE WakeInv'
  BY <1>26 DEF Evict, IInv, TypeOK, WakeInv, StoreStartAddr
<1>27. ASSUME NEW c \in AP, Ldaxr(c) PROVE WakeInv'
  BY <1>27 DEF Ldaxr, IInv, TypeOK, WakeInv, StoreStartAddr
<1>28. ASSUME NEW c \in AP, Wfe(c) PROVE WakeInv'
  BY <1>28 DEF Wfe, IInv, TypeOK, WakeInv, StoreStartAddr
<1>29. ASSUME NEW c \in AP, Stlxr(c) PROVE WakeInv'
  BY <1>29, ZenonT(60) DEF Stlxr, IInv, TypeOK, WakeInv, StoreStartAddr
<1>30. ASSUME NEW c \in AP, Branch(c) PROVE WakeInv'
  BY <1>30 DEF Branch, IInv, TypeOK, WakeInv, StoreStartAddr
<1>31. ASSUME NEW c \in AP, PutBack(c) PROVE WakeInv'
  BY <1>31 DEF PutBack, IInv, TypeOK, WakeInv, StoreStartAddr
<1> QED BY <1>1, <1>2, <1>3, <1>4, <1>5, <1>6, <1>7, <1>8, <1>9, <1>10,
  <1>11, <1>12, <1>13, <1>14, <1>15, <1>16, <1>17, <1>18, <1>19, <1>20,
  <1>21, <1>22, <1>23, <1>24, <1>25, <1>26, <1>27, <1>28, <1>29, <1>30, <1>31
  DEF Next, Startup, Kernel, Secondary

-----------------------------------------------------------------------------
(* The theorems.                                                           *)

\* A step that changes nothing keeps it.
LEMMA StutterIInv == ASSUME IInv, UNCHANGED vars PROVE IInv'
<1>1. /\ UNCHANGED <<bspVars, lspVars, apVars, spinVars>>
      /\ UNCHANGED <<cpu_starting, syspage_available, pending, dirty>>
  BY DEF vars
<1>2. \A c \in AP : (Starting(c)' <=> Starting(c)) /\ (ApPlace(c)' <=> ApPlace(c))
  BY <1>1 DEF Starting, ApPlace
<1>3. TypeOK' /\ BspInv' /\ LspInv' /\ WakeInv'
  BY <1>1, SMTT(60) DEF IInv, TypeOK, BspInv, LspInv, WakeInv
<1>4. WordsInv'
  BY <1>1, <1>2 DEF IInv, WordsInv
<1> QED BY <1>2, <1>3, <1>4 DEF IInv

\* The invariant above holds in every reachable state of the start of the
\* secondary cores, from init_smp() to smp_spin.
THEOREM Invariance == Spec => []IInv
<1>1. Init => IInv
  BY InitIInv
<1>2. IInv /\ [Next]_vars => IInv'
  BY TypeStep, BspStep, PlaceStep, WordsStep, LspStep, WakeStep, StutterIInv
     DEF IInv
<1> QED BY <1>1, <1>2, PTL DEF Spec

\* Type correctness of the SMP start for any number of cores.
THEOREM TypeCorrect == Spec => []TypeOK
<1>1. IInv => TypeOK
  BY DEF IInv
<1> QED BY <1>1, Invariance, PTL

\* Two APs are never on the shared stack of smp_start.S at the same time.
THEOREM StackIsExclusive == Spec => []StackExclusive
<1>1. IInv => StackExclusive
  <2> SUFFICES ASSUME IInv, NEW c \in AP, OnStack(c) PROVE c = i
    BY DEF StackExclusive
  <2>1. CASE ap[c] = "startnext"
    BY <2>1, MovingIsI
  <2>2. CASE ap[c] # "startnext"
    BY <2>2, StartingIsI DEF OnStack, Starting
  <2> QED BY <2>1, <2>2
<1> QED BY <1>1, Invariance, PTL

\* No growth of the local system page by CPU 0 or an AP is ever lost.
THEOREM GrowthIsSerial == Spec => []NoLostGrowth
<1>1. IInv => NoLostGrowth
  BY DEF IInv, LspInv, NoLostGrowth
<1> QED BY <1>1, Invariance, PTL

\* Every cpuinfo slot is filled by its own core, before the flags are set.
THEOREM CpuinfoIsRight == Spec => []CpuinfoRight
<1>1. IInv => CpuinfoRight
  <2> SUFFICES ASSUME IInv, bsp = "flags", NEW c \in CPU, c < num_cpu
               PROVE  cpuinfo[c] = c
    BY DEF CpuinfoRight, IInv, LspInv
  <2>1. CASE c = 0
    BY <2>1 DEF IInv, LspInv
  <2>2. CASE c # 0
    BY <2>2 DEF IInv, LspInv, ApPlace
  <2> QED BY <2>1, <2>2
<1> QED BY <1>1, Invariance, PTL

\* While the system page is completed and copied every AP is parked.
THEOREM CopyIsUndisturbed == Spec => []CopyUndisturbed
<1>1. IInv => CopyUndisturbed
  BY DEF IInv, ApPlace, CopyUndisturbed
<1> QED BY <1>1, Invariance, PTL

\* No AP is let into the system page's code before the page is written.
THEOREM SpinIsAfterWrite == Spec => []SpinAfterWrite
<1>1. IInv => SpinAfterWrite
  <2> SUFFICES ASSUME IInv, NEW c \in AP, ~ written
               PROVE  Starting(c) \/ ap[c] \in {"off", "wait", "dead"}
    BY DEF SpinAfterWrite
  <2>1. bsp \in BspPc /\ ApPlace(c)
    BY DEF IInv, TypeOK
  <2> QED BY <2>1 DEF IInv, TypeOK, BspInv, ApPlace
<1> QED BY <1>1, Invariance, PTL

\* The system page is built, copied and used by one core at a time.
THEOREM PageIsUndisturbed == Spec => []PageUndisturbed
<1>1. NoLostGrowth /\ CopyUndisturbed /\ SpinAfterWrite => PageUndisturbed
  BY DEF PageUndisturbed
<1> QED BY <1>1, GrowthIsSerial, CopyIsUndisturbed, SpinIsAfterWrite, PTL

\* CPU 0 runs transfer_aps with its MMU and caches off.
THEOREM TransferIsUncached == Spec => []TransferUncached
<1>1. IInv => TransferUncached
  BY DEF IInv, BspInv, TransferUncached
<1> QED BY <1>1, Invariance, PTL

\* No AP sleeps in smp_spin with its wake-up lost.
THEOREM WakeupIsNotLost == Spec => []NoLostWakeup
<1>1. IInv => NoLostWakeup
  BY DEF IInv, WakeInv, NoLostWakeup
<1> QED BY <1>1, Invariance, PTL
-----------------------------------------------------------------------------
(* Every entry point the kernel stores is picked up exactly once. The      *)
(* count of released addresses is the number of APs in the kernel, plus    *)
(* those about to branch there, plus the one still in start_addr. It is    *)
(* kept because an AP whose monitor is armed has read what start_addr      *)
(* still holds, and because nothing is stored over an address: the kernel  *)
(* waits for zero, and -1 is put back only after the kernel has stopped.   *)

InKernel == {c \in AP : ap[c] = "kernel"}
Taking   == {"stlxr", "branch", "putback"}

ReleaseInv ==
  /\ ReleaseExactlyOnce
  /\ start_addr = Minus1 => bsp = "halt"
  /\ bsp = "halt" => start_addr # Entry
  /\ \A c \in AP :
       /\ ap[c] \in {"stlxr", "branch"} => x4[c] # NoAddr
       /\ ap[c] = "stlxr" /\ monitor[c] => x4[c] = start_addr
       /\ ap[c] = "putback" => x4[c] = Minus1
       /\ ap[c] \in Taking /\ x4[c] = Minus1 => bsp = "halt"

\* The counted sets are finite, so their cardinalities are numbers.
LEMMA CountedAreFinite ==
  /\ IsFiniteSet(InKernel) /\ Cardinality(InKernel) \in Nat
  /\ IsFiniteSet(InFlight) /\ Cardinality(InFlight) \in Nat
<1>1. IsFiniteSet(AP)
  BY FS_Interval DEF AP
<1>2. InKernel \in SUBSET AP /\ InFlight \in SUBSET AP
  BY DEF InKernel, InFlight
<1>3. IsFiniteSet(InKernel) /\ IsFiniteSet(InFlight)
  BY <1>1, <1>2, FS_Subset
<1> QED BY <1>3, FS_CardinalityType

\* A step that leaves start_addr and its monitors alone, and moves no AP to
\* or from the places where an address has been taken.
QuietStep ==
  /\ UNCHANGED spinVars
  /\ bsp = "halt" <=> bsp' = "halt"
  /\ \A c \in AP : \/ ap'[c] = ap[c]
                   \/ /\ ap[c] \notin Taking \cup {"kernel"}
                      /\ ap'[c] \notin Taking \cup {"kernel"}

\* A quiet step keeps what is known of the releases.
LEMMA QuietKeepsRelease ==
  ASSUME ReleaseInv, QuietStep
  PROVE  ReleaseInv'
<1>1. InKernel' = InKernel /\ InFlight' = InFlight
  BY DEF QuietStep, InKernel, InFlight, Taking
<1>2. ReleaseExactlyOnce'
  BY <1>1 DEF ReleaseInv, ReleaseExactlyOnce, QuietStep, InKernel
<1> QED BY <1>2 DEF ReleaseInv, QuietStep, Taking

\* Everything CPU 0's startup does, and an AP does before the loop of
\* smp_spin, is such a step.
LEMMA StartupIsQuiet ==
  ASSUME IInv, Startup
  PROVE  QuietStep
<1>1. CASE BoardSmpStart
  <2>1. ap[i] = "off" /\ i \in AP
    BY <1>1 DEF BoardSmpStart, IInv, TypeOK, BspInv, ApPlace
  <2>2. \A c \in AP : ap'[c] = ap[c]
                      \/ (c = i /\ ap'[c] \in {"smp_start", "dead"})
    BY <1>1 DEF BoardSmpStart, IInv, TypeOK
  <2>3. UNCHANGED spinVars /\ bsp # "halt" /\ bsp' # "halt"
    BY <1>1 DEF BoardSmpStart
  <2> QED BY <2>1, <2>2, <2>3 DEF QuietStep, Taking
<1>2. CASE PollStarting
  BY <1>2 DEF PollStarting, QuietStep
<1>3. CASE InitSmp \/ InitMmuCpuinfo \/ CallHook1 \/ StartLoop
  BY <1>3 DEF InitSmp, InitMmuCpuinfo, CallHook1, StartLoop, QuietStep
<1>4. CASE PropagateFlags \/ BspGrow \/ WriteSyspage \/ CallHook2
  BY <1>4 DEF PropagateFlags, BspGrow, WriteSyspage, CallHook2, QuietStep
<1>5. CASE TransferLoop \/ ReleaseAp \/ WaitPending \/ StartNext
  BY <1>5 DEF TransferLoop, ReleaseAp, WaitPending, StartNext, QuietStep
<1> QED BY <1>1, <1>2, <1>3, <1>4, <1>5 DEF Startup

\* What an AP does before it takes an address is quiet.
LEMMA EarlyApIsQuiet ==
  ASSUME IInv, NEW c \in AP,
         \/ ApSmpStart(c) \/ ApReadNum(c) \/ ApInitCpuinfo(c) \/ ApGrow(c)
         \/ ApClear(c) \/ ApWait(c) \/ ApStartNext(c) \/ SpinStore(c)
         \/ SpinClean(c) \/ Evict(c)
  PROVE  QuietStep
<1>1. UNCHANGED <<spinVars, bsp>>
  BY DEF ApSmpStart, ApReadNum, ApInitCpuinfo, ApGrow, ApClear, ApWait,
    ApStartNext, SpinStore, SpinClean, Evict
<1>2. \/ UNCHANGED ap
      \/ \E p, q \in ApPc \ (Taking \cup {"kernel"}) : ApGoto(c, p, q)
  <2>1. CASE ApInitCpuinfo(c)
    BY <2>1 DEF ApInitCpuinfo, Taking
  <2>2. CASE Evict(c)
    BY <2>2 DEF Evict
  <2>3. CASE ApSmpStart(c) \/ ApReadNum(c) \/ ApGrow(c) \/ ApClear(c)
    BY <2>3, ZenonT(30) DEF ApSmpStart, ApReadNum, ApGrow, ApClear, Taking
  <2>4. CASE ApWait(c) \/ ApStartNext(c) \/ SpinStore(c) \/ SpinClean(c)
    BY <2>4, ZenonT(30) DEF ApWait, ApStartNext, SpinStore, SpinClean, Taking
  <2> QED BY <2>1, <2>2, <2>3, <2>4
<1> QED BY <1>1, <1>2 DEF QuietStep, IInv, TypeOK

\* The kernel's stores: one more address counted, in start_addr.
LEMMA KernelKeepsRelease ==
  ASSUME IInv, ReleaseInv, Kernel
  PROVE  ReleaseInv'
<1>1. /\ start_addr = NoAddr /\ bsp = "kernel" /\ UNCHANGED <<ap, x4>>
      /\ monitor' = [c \in AP |-> FALSE]
  BY DEF Kernel, KernelRelease, KernelShutdown, StoreStartAddr
<1>2. InKernel' = InKernel /\ InFlight' = InFlight
  BY <1>1 DEF InKernel, InFlight
<1>3. CASE KernelRelease
  <2>1. start_addr' = Entry /\ released' = released + 1 /\ UNCHANGED bsp
    BY <1>3 DEF KernelRelease, StoreStartAddr
  <2>2. ReleaseExactlyOnce'
    BY <1>1, <1>2, <2>1, CountedAreFinite
       DEF ReleaseInv, ReleaseExactlyOnce, InKernel
  <2> QED BY <1>1, <2>1, <2>2 DEF ReleaseInv
<1>4. CASE KernelShutdown
  <2>1. start_addr' = Minus1 /\ bsp' = "halt" /\ UNCHANGED released
    BY <1>4 DEF KernelShutdown, StoreStartAddr
  <2>2. ReleaseExactlyOnce'
    BY <1>1, <1>2, <2>1 DEF ReleaseInv, ReleaseExactlyOnce, InKernel
  <2> QED BY <1>1, <2>1, <2>2 DEF ReleaseInv
<1> QED BY <1>3, <1>4 DEF Kernel

\* ldaxr and wfe take nothing; ldaxr remembers what start_addr holds.
LEMMA LoadKeepsRelease ==
  ASSUME IInv, ReleaseInv, NEW c \in AP, Ldaxr(c) \/ Wfe(c)
  PROVE  ReleaseInv'
<1>1. /\ UNCHANGED <<start_addr, released, bsp>> /\ ap[c] \in {"ldaxr", "wfe"}
      /\ \A d \in AP \ {c} : /\ ap'[d] = ap[d] /\ x4'[d] = x4[d]
                             /\ monitor'[d] = monitor[d]
  BY DEF Ldaxr, Wfe, IInv, TypeOK
<1>2. /\ ap'[c] \in {"ldaxr", "wfe", "stlxr"}
      /\ ap'[c] = "stlxr" => x4'[c] = start_addr /\ start_addr # NoAddr
  BY DEF Ldaxr, Wfe, IInv, TypeOK
<1>3. InKernel' = InKernel /\ InFlight' = InFlight
  BY <1>1, <1>2 DEF InKernel, InFlight
<1>4. ReleaseExactlyOnce'
  BY <1>1, <1>3 DEF ReleaseInv, ReleaseExactlyOnce, InKernel
<1> QED BY <1>1, <1>2, <1>4 DEF ReleaseInv, Taking

\* stlxr moves the address from start_addr to the AP, or fails and loads it
\* again: the monitor is what keeps two APs from taking the same one.
LEMMA StlxrKeepsRelease ==
  ASSUME IInv, ReleaseInv, NEW c \in AP, Stlxr(c)
  PROVE  ReleaseInv'
<1>1. /\ ap[c] = "stlxr" /\ UNCHANGED <<x4, released, bsp>>
      /\ \A d \in AP \ {c} : ap'[d] = ap[d]
  BY DEF Stlxr, IInv, TypeOK
<1>2. CASE ~ monitor[c]
  <2>1. ap'[c] = "ldaxr" /\ UNCHANGED <<start_addr, monitor>>
    BY <1>2 DEF Stlxr, IInv, TypeOK
  <2>2. InKernel' = InKernel /\ InFlight' = InFlight
    BY <1>1, <2>1 DEF InKernel, InFlight
  <2>3. ReleaseExactlyOnce'
    BY <1>1, <2>1, <2>2 DEF ReleaseInv, ReleaseExactlyOnce, InKernel
  <2> QED BY <1>1, <2>1, <2>3 DEF ReleaseInv, Taking
<1>3. CASE monitor[c]
  <2>1. /\ ap'[c] = "branch" /\ start_addr' = NoAddr
        /\ monitor' = [d \in AP |-> FALSE]
    BY <1>3 DEF Stlxr, StoreStartAddr, IInv, TypeOK
  <2>2. x4[c] = start_addr /\ start_addr \in {Entry, Minus1}
    BY <1>1, <1>3 DEF ReleaseInv, IInv, TypeOK
  <2>3. InKernel' = InKernel
    BY <1>1, <2>1 DEF InKernel
  <2>4. CASE start_addr = Entry
    <3>1. InFlight' = InFlight \cup {c} /\ c \notin InFlight
      BY <1>1, <2>1, <2>2, <2>4 DEF InFlight
    <3>2. Cardinality(InFlight') = Cardinality(InFlight) + 1
      BY <3>1, CountedAreFinite, FS_AddElement
    <3>3. released = Cardinality(InKernel) + Cardinality(InFlight) + 1
      BY <2>4 DEF ReleaseInv, ReleaseExactlyOnce, InKernel
    <3>4. released' = Cardinality(InKernel') + Cardinality(InFlight') + 0
      BY <1>1, <2>3, <3>2, <3>3, CountedAreFinite
    <3>5. ReleaseExactlyOnce'
      BY <2>1, <3>4 DEF ReleaseExactlyOnce, InKernel
    <3> QED BY <1>1, <2>1, <2>2, <2>4, <3>5 DEF ReleaseInv, Taking
  <2>5. CASE start_addr = Minus1
    <3>1. InFlight' = InFlight
      BY <1>1, <2>1, <2>2, <2>5 DEF InFlight
    <3>2. ReleaseExactlyOnce'
      BY <1>1, <2>1, <2>3, <2>5, <3>1
         DEF ReleaseInv, ReleaseExactlyOnce, InKernel
    <3> QED BY <1>1, <2>1, <2>2, <2>5, <3>2 DEF ReleaseInv, Taking
  <2> QED BY <2>2, <2>4, <2>5
<1> QED BY <1>2, <1>3

\* br x4 takes the AP from the ones about to enter the kernel to the ones in
\* it, or, with -1, to where it puts the -1 back.
LEMMA BranchKeepsRelease ==
  ASSUME IInv, ReleaseInv, NEW c \in AP, Branch(c)
  PROVE  ReleaseInv'
<1>1. /\ ap[c] = "branch" /\ UNCHANGED <<spinVars, bsp>>
      /\ ap'[c] = IF x4[c] = Minus1 THEN "putback" ELSE "kernel"
      /\ \A d \in AP \ {c} : ap'[d] = ap[d]
  BY DEF Branch, IInv, TypeOK
<1>2. x4[c] \in {Entry, Minus1}
  BY <1>1 DEF ReleaseInv, IInv, TypeOK
<1>3. CASE x4[c] = Entry
  <2>1. /\ InKernel' = InKernel \cup {c} /\ c \notin InKernel
        /\ InFlight' = InFlight \ {c} /\ c \in InFlight
    BY <1>1, <1>3 DEF InKernel, InFlight
  <2>2. /\ Cardinality(InKernel') = Cardinality(InKernel) + 1
        /\ Cardinality(InFlight') = Cardinality(InFlight) - 1
    BY <2>1, CountedAreFinite, FS_AddElement, FS_RemoveElement
  <2>3. released = Cardinality(InKernel) + Cardinality(InFlight)
                   + (IF start_addr = Entry THEN 1 ELSE 0)
    BY DEF ReleaseInv, ReleaseExactlyOnce, InKernel
  <2>4. released' = Cardinality(InKernel') + Cardinality(InFlight')
                    + (IF start_addr' = Entry THEN 1 ELSE 0)
    BY <1>1, <2>2, <2>3, CountedAreFinite
  <2>5. ReleaseExactlyOnce'
    BY <2>4 DEF ReleaseExactlyOnce, InKernel
  <2> QED BY <1>1, <1>3, <2>5 DEF ReleaseInv, Taking
<1>4. CASE x4[c] = Minus1
  <2>1. InKernel' = InKernel /\ InFlight' = InFlight
    BY <1>1, <1>4 DEF InKernel, InFlight
  <2>2. ReleaseExactlyOnce'
    BY <1>1, <2>1 DEF ReleaseInv, ReleaseExactlyOnce, InKernel
  <2> QED BY <1>1, <1>4, <2>2 DEF ReleaseInv, Taking
<1> QED BY <1>2, <1>3, <1>4

\* The -1 that is put back overwrites no entry point: the kernel has halted.
LEMMA PutBackKeepsRelease ==
  ASSUME IInv, ReleaseInv, NEW c \in AP, PutBack(c)
  PROVE  ReleaseInv'
<1>1. /\ ap[c] = "putback" /\ UNCHANGED <<x4, released, bsp>>
      /\ ap'[c] = "wfi" /\ \A d \in AP \ {c} : ap'[d] = ap[d]
      /\ start_addr' = x4[c] /\ monitor' = [d \in AP |-> FALSE]
  BY DEF PutBack, StoreStartAddr, IInv, TypeOK
<1>2. x4[c] = Minus1 /\ bsp = "halt" /\ start_addr # Entry
  BY <1>1 DEF ReleaseInv, Taking
<1>3. InKernel' = InKernel /\ InFlight' = InFlight
  BY <1>1 DEF InKernel, InFlight
<1>4. ReleaseExactlyOnce'
  BY <1>1, <1>2, <1>3 DEF ReleaseInv, ReleaseExactlyOnce, InKernel
<1> QED BY <1>1, <1>2, <1>4 DEF ReleaseInv, Taking

\* Every entry point the kernel stores in smp.start_addr is picked up by
\* exactly one AP, however the cores interleave in smp_spin.
THEOREM ReleasedExactlyOnce == Spec => []ReleaseExactlyOnce
<1>1. Init => ReleaseInv
  <2> SUFFICES ASSUME Init PROVE ReleaseInv
    OBVIOUS
  <2>1. InKernel = {} /\ InFlight = {}
    BY DEF Init, InKernel, InFlight
  <2>2. Cardinality(InKernel) = 0 /\ Cardinality(InFlight) = 0
    BY <2>1, FS_EmptySet
  <2>3. ReleaseExactlyOnce
    BY <2>2 DEF Init, ReleaseExactlyOnce, InKernel
  <2> QED BY <2>3 DEF Init, ReleaseInv, Taking
<1>2. ASSUME IInv, ReleaseInv, Next PROVE ReleaseInv'
  <2>1. CASE Startup
    BY <1>2, <2>1, StartupIsQuiet, QuietKeepsRelease
  <2>2. CASE Kernel
    BY <1>2, <2>2, KernelKeepsRelease
  <2>3. ASSUME NEW c \in AP, Secondary(c) \/ Evict(c) PROVE ReleaseInv'
    BY <1>2, <2>3, EarlyApIsQuiet, QuietKeepsRelease, LoadKeepsRelease,
      StlxrKeepsRelease, BranchKeepsRelease, PutBackKeepsRelease
      DEF Secondary
  <2> QED BY <1>2, <2>1, <2>2, <2>3 DEF Next
<1>3. ASSUME ReleaseInv, UNCHANGED vars PROVE ReleaseInv'
  BY <1>3, QuietKeepsRelease DEF vars, QuietStep
<1>4. ReleaseInv => ReleaseExactlyOnce
  BY DEF ReleaseInv
<1> QED BY <1>1, <1>2, <1>3, <1>4, Invariance, PTL DEF Spec
=============================================================================
