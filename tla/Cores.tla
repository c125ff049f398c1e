------------------------------- MODULE Cores -------------------------------
(***************************************************************************)
(* What startup finds out about each core. The boot core sets up its       *)
(* hypervisor mode and fills its entry of the cpuinfo section; each other  *)
(* core does so when it is started, one after the other (see SmpBoot),     *)
(* with registers of its own. Entries share the list of caches, and what   *)
(* the boot core chose binds the others. Flags are sets of their names.    *)
(***************************************************************************)
EXTENDS Integers, Sequences, FiniteSets, SequencesExt

CONSTANTS
  Boards,    \* records: the registers of the cores, options, board caches
  Known,     \* aarch64_cpuid[]: a function from MIDR to name
  AARCH64_IDDUMP_ENTRIES

VARIABLES
  board,
  pc,        \* <<what is next, the core it is for>>
  num_cpu,
  cpuinfo,   \* cores -> entry
  caches,    \* lsp.cacheattr
  idreg,     \* lsp.cpu.aarch64_idreg_dump: place -> the register there
  required_flags,
  mode,      \* cores -> "el1", "el2" or "vhe" (el2 as host)
  vectors,   \* the EL2 vector table is allocated
  hypinfo,
  crashed

vars == <<board, pc, num_cpu, cpuinfo, caches, idreg, required_flags, mode, vectors, hypinfo, crashed>>
Reg(cpu) == board.cpus[cpu + 1]

-----------------------------------------------------------------------------
(* Caches                                                                  *)

CACHE_LIST_END == -1
\* Mutant: sizes are not compared.
SameCache_AnySize(a, b) == [a EXCEPT !.size = b.size] = b

SameCache(a, b) == a = b
\* An entry that is there already is used again. Entries count from 0.
add_cache_ways(list, cache) ==
  LET same == {i \in 1 .. Len(list) : SameCache(list[i], cache)} IN
  IF same # {} THEN [list |-> list, i |-> (CHOOSE i \in same : \A j \in same : i <= j) - 1]
  ELSE [list |-> Append(list, cache), i |-> Len(list)]

Cache(next, kind, size) == [next |-> next, kind |-> kind, size |-> size]
\* cache_sizes() selects a level and kind, then reads what they are.
cache_sizes(cpu, csel) == Reg(cpu).ccsidr[csel + 1]
\* init_cache(): level 1 only, by CLIDR's first field.
init_cache(cpu, list, e) ==
  LET clidr == Reg(cpu).clidr
      ins == add_cache_ways(list, Cache(e.ins_cache, "ins", cache_sizes(cpu, 1)))
      l1 == IF clidr % 2 = 1 THEN ins.list ELSE list
      data == add_cache_ways(l1, Cache(e.data_cache, "data", cache_sizes(cpu, 0)))
      one == add_cache_ways(list, Cache(e.data_cache, "unified", cache_sizes(cpu, 0)))
  IN  IF (clidr \div 4) % 2 = 1 THEN [list |-> one.list, e |-> [e EXCEPT !.data_cache = one.i]]
      ELSE [list |-> IF (clidr \div 2) % 2 = 1 THEN data.list ELSE l1,
            e |-> [e EXCEPT !.ins_cache = IF clidr % 2 = 1 THEN ins.i ELSE @,
                            !.data_cache = IF (clidr \div 2) % 2 = 1 THEN data.i ELSE @]]

-----------------------------------------------------------------------------
(* Hypervisor                                                              *)

\* arch_hypervisor_validate_flags(): what the core can do, or "crash".
arch_hypervisor_validate_flags(cpu, option) ==
  LET vhe == Reg(cpu).vhe IN
  IF option = "invalid" THEN "crash"
  ELSE IF ~ Reg(cpu).el2 THEN (IF option = "disabled" THEN "disabled" ELSE "crash")
  ELSE IF option = "disabled" THEN "disabled"
  ELSE IF option = "el2" /\ ~ vhe THEN "crash"
  ELSE IF option = "el1" \/ ~ vhe THEN "el1" ELSE "el2"

Agrees(cpu, selected) == cpu = 0 \/ selected = required_flags
\* arch_hypervisor_init(): the boot core allocates the vector table.
ModeFor(flags) == IF flags = "el2" THEN "vhe" ELSE "el1"
hypervisor_init(cpu) ==
  LET selected == arch_hypervisor_validate_flags(cpu, board.hyp)
      ok == selected # "crash" /\ Agrees(cpu, selected)
      flags == IF cpu = 0 THEN selected ELSE required_flags
  IN  /\ crashed' = ~ ok
      /\ required_flags' = IF ok THEN flags ELSE required_flags
      /\ mode' = IF ok THEN [mode EXCEPT ![cpu] = ModeFor(flags)] ELSE mode
      /\ vectors' = (vectors \/ (ok /\ cpu = 0 /\ flags = "el1"))

-----------------------------------------------------------------------------
(* cpuinfo                                                                 *)

Flag(name, cond) == IF cond THEN {name} ELSE {}
\* Fields of the identification registers; 15 says there is no FP or SIMD.
FromRegisters(r) ==
  LET simd == r.simd # 15
      fpu == simd \/ r.fp # 15
  IN  Flag("FPU", fpu) \cup Flag("SIMD", simd) \cup Flag("VFP_D32", fpu)
      \cup Flag("LSE", r.lse = 2) \cup Flag("AES", r.aes \in {1, 2}) \cup Flag("PMULL", r.aes = 2)
      \cup Flag("SHA1", r.sha1 = 1) \cup Flag("SHA256", r.sha2 \in {1, 2}) \cup Flag("SHA512", r.sha2 = 2)
      \cup Flag("SHA3", r.sha3 = 1) \cup Flag("RNDR", r.rndr = 1) \cup Flag("ICACHE_COHERENT", r.dic)

aarch64_cpuid_find(cpu) == IF Reg(cpu).midr \in DOMAIN Known THEN Known[Reg(cpu).midr] ELSE "Unknown"
A57A72 == {"Cortex-A57", "Cortex-A72"}
Flags(cpu, n) ==
  LET o == board.opts
      r == Reg(cpu)
  IN  {"V6", "V7", "IDIV"} \cup FromRegisters(r)
      \cup Flag("MMU", "virtual" \in o) \cup Flag("SMP", n > 1) \cup Flag("V7_MP", n > 1)
      \cup Flag("SVE", "sve" \in o /\ r.sve = 1) \cup Flag("PAUTH", "pauth" \in o /\ r.apa)
      \cup Flag("SSBS", "ssbs" \in o)
      \cup (IF "spectre_v2" \notin o THEN {}
            ELSE IF aarch64_cpuid_find(cpu) \in A57A72 THEN {"SPECTRE_V2_MMU"} ELSE {"SPECTRE_V2_FIX"})

\* The dump of the identification registers, which MPIDR stands for.
DumpPlaces(cpu) == (cpu * AARCH64_IDDUMP_ENTRIES) .. (cpu + 1) * AARCH64_IDDUMP_ENTRIES - 1
Speed(cpu) == IF board.cpu_freq # 0 THEN board.cpu_freq \div 1000000 ELSE 0
init_one_cpuinfo(cpu, info, list, n) ==
  LET e == [info[cpu] EXCEPT !.cpu = Reg(cpu).midr, !.name = aarch64_cpuid_find(cpu),
                             !.smp_hwcoreid = Reg(cpu).mpidr, !.speed = Speed(cpu), !.flags = Flags(cpu, n)]
      c == init_cache(cpu, list, e)
  IN  /\ cpuinfo' = [info EXCEPT ![cpu] = c.e]
      /\ caches' = c.list
      /\ idreg' = [p \in 0 .. n * AARCH64_IDDUMP_ENTRIES - 1 |->
                     IF p \in DumpPlaces(cpu) THEN Reg(cpu).mpidr ELSE IF p \in DOMAIN idreg THEN idreg[p] ELSE 0]

-----------------------------------------------------------------------------
(* Start-up                                                                *)

Init ==
  /\ board \in Boards
  /\ pc = <<"hypervisor", 0>> /\ num_cpu = 1 /\ cpuinfo = [c \in {} |-> 0] /\ caches = << >>
  /\ idreg = [p \in {} |-> 0] /\ required_flags = "disabled" /\ hypinfo = {"none"} /\ vectors = FALSE
  /\ mode = [c \in 0 .. Len(board.cpus) - 1 |-> IF board.cpus[c + 1].el2 THEN "el2" ELSE "el1"]
  /\ crashed = FALSE

At(step, cpu) == pc = <<step, cpu>> /\ ~ crashed
hypervars == <<required_flags, mode, vectors>>
infovars == <<cpuinfo, caches, idreg>>

HypervisorInit ==
  /\ At("hypervisor", 0) /\ pc' = <<"smp", 0>> /\ hypervisor_init(0)
  /\ UNCHANGED <<board, num_cpu, infovars, hypinfo>>

\* init_smp(), of which SmpBoot has the rest.
InitSmp ==
  /\ At("smp", 0) /\ pc' = <<"cpuinfo", 0>>
  /\ num_cpu' = IF Len(board.cpus) < board.max_cpus THEN Len(board.cpus) ELSE board.max_cpus
  /\ UNCHANGED <<board, infovars, hypervars, hypinfo, crashed>>

\* A board's init_cacheattr() may add caches all cores share; then every
\* entry refers to them until its core adds its own. -F changes the boot
\* core's flags as soon as it is asked for.
OnOff(e) == [e EXCEPT !.flags = (@ \cup board.flags_on) \ board.flags_off]
InitCpuinfo ==
  LET empty == [cpu |-> "", name |-> "", smp_hwcoreid |-> 0, speed |-> 0, flags |-> {},
                ins_cache |-> IF board.shared = << >> THEN CACHE_LIST_END ELSE 0,
                data_cache |-> IF board.shared = << >> THEN CACHE_LIST_END ELSE 0]
  IN  /\ At("cpuinfo", 0) /\ pc' = <<"flags", 0>>
      /\ init_one_cpuinfo(0, [c \in 0 .. num_cpu - 1 |-> empty], board.shared, num_cpu)
      /\ UNCHANGED <<board, num_cpu, hypervars, hypinfo, crashed>>

FlagsOfBootCore ==
  /\ At("flags", 0) /\ pc' = IF num_cpu > 1 THEN <<"hypervisor", 1>> ELSE <<"propagate", 0>>
  /\ cpuinfo' = [cpuinfo EXCEPT ![0] = OnOff(@)]
  /\ UNCHANGED <<board, num_cpu, caches, idreg, hypervars, hypinfo, crashed>>

\* A started core.
ApHypervisor ==
  \E cpu \in 1 .. num_cpu - 1 :
    /\ At("hypervisor", cpu) /\ pc' = <<"cpuinfo", cpu>> /\ hypervisor_init(cpu)
    /\ UNCHANGED <<board, num_cpu, infovars, hypinfo>>
ApCpuinfo ==
  \E cpu \in 1 .. num_cpu - 1 :
    /\ At("cpuinfo", cpu)
    /\ pc' = IF cpu + 1 < num_cpu THEN <<"hypervisor", cpu + 1>> ELSE <<"propagate", 0>>
    /\ init_one_cpuinfo(cpu, cpuinfo, caches, num_cpu)
    /\ UNCHANGED <<board, num_cpu, hypervars, hypinfo, crashed>>

Propagated(cpu) == TRUE
Propagate ==
  /\ At("propagate", 0) /\ pc' = <<"done", 0>>
  /\ cpuinfo' = [c \in DOMAIN cpuinfo |-> IF Propagated(c) THEN OnOff(cpuinfo[c]) ELSE cpuinfo[c]]
  /\ hypinfo' = IF required_flags = "disabled" THEN {} ELSE {"HYPINFO_ENABLED"}
  /\ UNCHANGED <<board, num_cpu, caches, idreg, hypervars, crashed>>

Next == \/ HypervisorInit \/ InitSmp \/ InitCpuinfo \/ FlagsOfBootCore
        \/ ApHypervisor \/ ApCpuinfo \/ Propagate
Spec == Init /\ [][Next]_vars

-----------------------------------------------------------------------------
(* Properties                                                              *)

Started == {c \in DOMAIN cpuinfo : cpuinfo[c].name # ""}
\* The caches from an entry on, less their places in the list.
RECURSIVE Chain(_)
Chain(i) == IF i = CACHE_LIST_END THEN << >>
            ELSE <<<<caches[i + 1].kind, caches[i + 1].size>>>> \o Chain(caches[i + 1].next)
Shared == [i \in 1 .. Len(board.shared) |-> <<board.shared[i].kind, board.shared[i].size>>]

\* The kernel flushes the caches an entry leads to: they are the core's own
\* and the board's, however cores that differ or are equal share the list.
CachesRight ==
  \A c \in Started :
    LET r == Reg(c)
        Own(bit, kind, k) == IF (r.clidr \div bit) % 2 = 1 THEN <<<<kind, r.ccsidr[k]>>>> ELSE << >>
        unified == r.clidr \div 4 = 1
    IN  /\ Chain(cpuinfo[c].data_cache) =
             (IF unified THEN Own(4, "unified", 1) ELSE Own(2, "data", 1)) \o Shared
        /\ Chain(cpuinfo[c].ins_cache) = (IF unified THEN << >> ELSE Own(1, "ins", 2)) \o Shared
        /\ \A i, j \in 1 .. Len(caches) : caches[i] = caches[j] => i = j

\* A core's entry and its dump are its own; at the end the flags -F sets are
\* set on every core and those it clears on none.
EntriesRight ==
  /\ \A c \in Started :
       /\ cpuinfo[c].smp_hwcoreid = Reg(c).mpidr
       /\ \A k \in 0 .. AARCH64_IDDUMP_ENTRIES - 1 : idreg[c * AARCH64_IDDUMP_ENTRIES + k] = Reg(c).mpidr
  /\ pc[1] = "done" =>
       \A c \in 0 .. num_cpu - 1 :
         /\ c \in Started
         /\ cpuinfo[c].flags = (Flags(c, num_cpu) \cup board.flags_on) \ board.flags_off

\* Cores that run the system do so in one mode, which is what the system
\* page says, and one that was asked for; an EL1 host has its vectors.
SameMode ==
  pc[1] = "done" =>
    /\ \A c \in 0 .. num_cpu - 1 : mode[c] = mode[0]
    /\ mode[0] # "el2"
    /\ hypinfo = {} <=> board.hyp = "disabled"
    /\ mode[0] = "vhe" => "HYPINFO_ENABLED" \in hypinfo /\ \A c \in 0 .. num_cpu - 1 : Reg(c).vhe
    /\ hypinfo # {} /\ mode[0] = "el1" => vectors

\* What the kernel is told of each core is so, whatever the others are.
CoresRight == CachesRight /\ EntriesRight /\ SameMode
=============================================================================
