-------------------------------- MODULE Its --------------------------------
(***************************************************************************)
(* The interrupt translation service of a GICv3: its set-up by             *)
(* gic_v3_its_initialize, the mapping of one collection per CPU by         *)
(* gic_v3_its_mapc, and the command queue the LPI mask and unmask callouts *)
(* of all CPUs share. The ITS itself is external: it consumes the queue at *)
(* its own pace. GicV3 composes this module with the rest of the driver.   *)
(***************************************************************************)
EXTENDS Integers, Sequences, FiniteSets

CONSTANTS
  NumCpu,        \* lsp.syspage.p->num_cpu
  NumGicr,       \* redistributor frames
  GicrUnit,      \* the address of each frame, in units of 64 KB
  ProcNum,       \* GICR_TYPER.Processor_Number of each frame
  DevIdBits,     \* GITS_TYPER: bits of a device ID
  CidBits,       \* GITS_TYPER: bits of a collection ID
  DtEntry,       \* GITS_BASER: bytes of a device table entry
  CtEntry,       \* ... of a collection table entry, 0 without such a table
  HwCollections, \* GITS_TYPER: collections held in the ITS
  SlotsPerPage,  \* commands in a 4 KB page, 128 in the code
  Lpi,           \* the LPIs in use
  Tries,         \* polls of CREADR, 255 in the code
  MaxStall       \* bound on the stalls of the ITS

CPU  == 0 .. NumCpu - 1
Gicr == 0 .. NumGicr - 1
LpiBase == 8192
None == -1

PageSizes == {4096, 16384, 65536}
ASSUME ItsAssumption ==
  /\ NumCpu \in Nat \ {0} /\ NumGicr \in Nat \ {0} /\ NumCpu <= NumGicr
  \* gic_v3_its_mapc() takes the frame's address as a 32 bit unsigned
  /\ GicrUnit \in [Gicr -> 0 .. 2^16 - 1] /\ ProcNum \in [Gicr -> Nat]
  /\ \A i, j \in Gicr : GicrUnit[i] = GicrUnit[j] \/ ProcNum[i] = ProcNum[j]
                          => i = j
  /\ SlotsPerPage \in Nat /\ SlotsPerPage > 3
  /\ Tries \in Nat \ {0} /\ MaxStall \in Nat
  \* a collection ID has room for a CPU number, which gic_v3_its_mapc()
  \* masks to its bits and does not check
  /\ CidBits \in Nat /\ NumCpu <= 2^CidBits
  /\ Lpi \subseteq {n \in Nat : n >= LpiBase}
  \* the tables are sized by a division that rounds down
  /\ \A s \in PageSizes : 2^DevIdBits * DtEntry > s
                            => (2^DevIdBits * DtEntry) % s = 0

VARIABLES
  its_params,  \* its_params[0]
  tables,      \* GITS_BASER: the device and the collection table
  its_on,      \* GITS_CTLR.Enabled
  its_hw,      \* GITS_TYPER.PTA: redistributors are named by address; can
               \* the shareability bits be set
  stalled,     \* CREADR.Stalled
  stalls,      \* stalls so far
  cwriter, creadr, queue,  \* the command queue, in slots
  issued,      \* history: the commands issued and not yet consumed
  mapped,      \* the redistributor of each collection
  lock,        \* the command queue lock: its holder
  cfg,         \* LPI configuration table: the enabled LPIs
  cached       \* the enabled LPIs as the redistributors have cached them

tblVars == <<its_params, tables, its_hw>>
qVars   == <<cwriter, creadr, queue, issued>>
itsVars == <<tblVars, its_on, stalled, stalls, qVars, mapped, lock, cfg,
             cached>>

\* Attributes of a table: write-back, or "none" for not cached.
Attr == {"none", "wb"}

\* ARM_GIC_ITS_PARAMS_DFLT_INIT.
ItsParamsDflt ==
  [gits |-> FALSE, dt_page |-> 4096, dt_attr |-> "none", ct_page |-> 4096,
   ct_attr |-> "none", ct_ids |-> 0, q_attr |-> "none", q_pages |-> 2,
   num_collections |-> 0]
NoTable == [pages |-> 0, page |-> 0, attr |-> "none", valid |-> FALSE]

Slots == its_params.q_pages * SlotsPerPage
NoCmd == <<"none", 0, 0>>

ItsInit(b) ==
  /\ its_params = ItsParamsDflt
  /\ tables = [dt |-> NoTable, ct |-> NoTable]
  /\ its_hw = [pta |-> b.pta, settable |-> b.settable]
  /\ its_on = b.touched /\ stalled = FALSE /\ stalls = 0
  /\ cwriter = 0 /\ creadr = 0 /\ issued = <<>>
  /\ queue = <<>>
  /\ mapped = [c \in CPU |-> None]
  /\ lock = None /\ cfg = {} /\ cached = {}

-----------------------------------------------------------------------------
(* Set-up                                                                  *)

\* gic_v3_its_set_paddr().
ItsSetPaddr == its_params' = [its_params EXCEPT !.gits = TRUE]

\* gic_v3_its_set_dt_params() to gic_v3_its_set_cmd_q_num_pages(): one
\* field of its_params, of a value the function's assertions allow.
ItsSet(field, val) ==
  /\ field \in {"dt_page", "ct_page"} => val \in PageSizes
  /\ field \in {"dt_attr", "ct_attr", "q_attr"} => val \in Attr
  /\ its_params' = [its_params EXCEPT ![field] = val]

\* Pages of a table of n entries; the register holds at most 256.
TablePages(n, entry, page) ==
  IF n * entry < page THEN 1 ELSE (n * entry) \div page

\* The value for a GITS_BASER. Where the shareability bits cannot be set
\* the table must not be cached.
Baser(n, entry, page, attr) ==
  [pages |-> TablePages(n, entry, page), page |-> page,
   attr |-> IF its_hw.settable THEN attr ELSE "none", valid |-> TRUE]

\* The flat device table, for all device IDs.
DeviceTable ==
  Baser(2^DevIdBits, DtEntry, its_params.dt_page, its_params.dt_attr)

\* The collection table, where the ITS wants one: an entry for each CPU.
MemCollections ==
  IF CtEntry = 0 THEN 0 ELSE IF 2^CidBits < NumCpu THEN 2^CidBits ELSE NumCpu
CollectionTable ==
  IF CtEntry = 0 THEN NoTable
  ELSE Baser(MemCollections, CtEntry, its_params.ct_page, its_params.ct_attr)

\* The command queue, with a page for the lock at its end: CWRITER zeroed before
\* CBASER is written, which zeroes CREADR.
CommandQueue ==
  /\ queue' = [s \in 0 .. Slots - 1 |-> NoCmd]
  /\ cwriter' = 0 /\ creadr' = 0 /\ issued' = <<>> /\ lock' = None

\* gic_v3_its_initialize(): the ITS is disabled and waited for until it is
\* quiescent, then the three tables are made.
ItsInitialize ==
  /\ its_params.gits
  /\ its_on' = FALSE
  /\ CtEntry # 0 => HwCollections = 0
  /\ tables' = [dt |-> DeviceTable, ct |-> CollectionTable]
  /\ tables'.dt.pages <= 256 /\ tables'.ct.pages <= 256
  /\ its_params' = [its_params EXCEPT
       !.num_collections = HwCollections + MemCollections,
       !.dt_attr = tables'.dt.attr, !.ct_attr = tables'.ct.attr,
       !.q_attr = IF its_hw.settable THEN @ ELSE "none"]
  /\ its_params'.num_collections > 0
  /\ CommandQueue
  /\ UNCHANGED <<its_hw, stalled, stalls, mapped, cached>>

\* gic_v3_its_cmd_q_last_slot_offset().
LastSlot == Slots - 1

-----------------------------------------------------------------------------
(* gic_v3_its_mapc: one CPU at a time, without the lock                    *)

Put(q, s, cmd) == [q EXCEPT ![s] = cmd]

\* next_cmd_q_slot().
NextCmdQSlot(s) == (s + 1) % Slots

\* A redistributor's name: its address, or its processor number.
RDbase(i) == IF its_hw.pta THEN GicrUnit[i] % 2^16 ELSE ProcNum[i]

\* The commands for CPU c, whose frame is i: its collection has its number.
MapcCmds(c, i) ==
  <<<<"MAPC", c % 2^CidBits, RDbase(i)>>, <<"SYNC", 0, RDbase(i)>>,
    <<"INVALL", c % 2^CidBits, 0>>>>

\* The ITS is enabled, the commands are written from CWRITER on, and
\* CWRITER is moved with the Retry bit set, which restarts a stalled ITS.
MapcIssue(c, i) ==
  LET s1 == NextCmdQSlot(cwriter)
      s2 == NextCmdQSlot(s1)
      m  == MapcCmds(c, i)
  IN
  /\ its_on' = TRUE
  /\ queue' = Put(Put(Put(queue, cwriter, m[1]), s1, m[2]), s2, m[3])
  /\ cwriter' = NextCmdQSlot(s2)
  /\ issued' = issued \o m
  /\ stalled' = FALSE
  /\ UNCHANGED <<tblVars, stalls, creadr, mapped, lock, cfg, cached>>

\* Polling CREADR: a stalled ITS is told to retry.
Consumed == creadr = cwriter
MapcRetry ==
  /\ ~ Consumed /\ stalled' = FALSE
  /\ UNCHANGED <<tblVars, its_on, stalls, qVars, mapped, lock, cfg, cached>>

-----------------------------------------------------------------------------
(* interrupt_mask_gic_v3_lpi_its and interrupt_unmask_gic_v3_lpi_its       *)

\* Mutant: the lock is not taken.
LpiLock_None(c) ==
  UNCHANGED itsVars

\* ldaxr/stxr with wfe until the lock is free.
LpiLock(c) ==
  /\ lock = None /\ lock' = c
  /\ UNCHANGED <<tblVars, its_on, stalled, stalls, qVars, mapped, cfg, cached>>

\* The enable bit of the configuration table.
LpiConfig(n, on) ==
  /\ cfg' = IF on THEN cfg \cup {n} ELSE cfg \ {n}
  /\ UNCHANGED <<tblVars, its_on, stalled, stalls, qVars, mapped, lock, cached>>

\* The next queue offset; past the last slot it wraps.
Wrap(s) == IF s + 1 > LastSlot THEN 0 ELSE s + 1

\* The commands for the one collection that LPIs are routed to.
LpiCmds == <<<<"INVALL", 0, 0>>, <<"SYNC", 0, 0>>>>

\* INVALL and SYNC are written at offset x3, what CWRITER held.
LpiQueue(x3) ==
  /\ queue' = [s \in DOMAIN queue \cup {x3, Wrap(x3)} |->
                 IF s = Wrap(x3) THEN LpiCmds[2]
                 ELSE IF s = x3 THEN LpiCmds[1] ELSE queue[s]]
  /\ UNCHANGED <<tblVars, its_on, stalled, stalls, cwriter, creadr, issued,
                 mapped, lock, cfg, cached>>

\* CWRITER is moved past them and the lock released.
LpiCwriter(x3) ==
  /\ cwriter' = Wrap(Wrap(x3))
  /\ issued' = issued \o LpiCmds
  /\ lock' = None
  /\ UNCHANGED <<tblVars, its_on, stalled, stalls, creadr, queue, mapped, cfg,
                 cached>>

-----------------------------------------------------------------------------
(* The ITS                                                                 *)

FrameOf(rd) == CHOOSE i \in Gicr : RDbase(i) = rd

\* The ITS takes a command: MAPC maps a collection, INVALL makes its
\* redistributor read the configuration table again.
ItsConsume ==
  /\ its_on /\ ~ stalled /\ ~ Consumed
  /\ LET cmd == queue[creadr] IN
     /\ mapped' = IF cmd[1] = "MAPC" /\ cmd[2] \in CPU
                  THEN [mapped EXCEPT ![cmd[2]] = FrameOf(cmd[3])] ELSE mapped
     /\ cached' = IF cmd[1] = "INVALL" THEN cfg ELSE cached
  /\ creadr' = (creadr + 1) % Slots
  /\ issued' = IF issued = <<>> THEN issued ELSE Tail(issued)
  /\ UNCHANGED <<tblVars, its_on, stalled, stalls, cwriter, queue, lock, cfg>>

\* A redistributor may read an LPI's configuration at any time.
ItsPrefetch ==
  /\ \E n \in Lpi : /\ (n \in cached) # (n \in cfg)
                    /\ cached' = IF n \in cfg THEN cached \cup {n}
                                              ELSE cached \ {n}
  /\ UNCHANGED <<tblVars, its_on, stalled, stalls, qVars, mapped, lock, cfg>>

\* It may stall while the driver waits for it.
ItsStall ==
  /\ its_on /\ ~ stalled /\ ~ Consumed /\ stalls < MaxStall
  /\ stalled' = TRUE /\ stalls' = stalls + 1
  /\ UNCHANGED <<tblVars, its_on, qVars, mapped, lock, cfg, cached>>

-----------------------------------------------------------------------------
(* Properties                                                              *)

\* What the ITS will find between CREADR and CWRITER is exactly the commands
\* issued, in order: callouts on several CPUs neither overwrite each other's
\* commands nor move CWRITER back, also where the queue wraps.
QueueExact ==
  /\ Len(issued) = (cwriter - creadr) % Slots
  /\ \A i \in 1 .. Len(issued) :
       queue[(creadr + i - 1) % Slots] = issued[i]

\* Once the queue is consumed and no callout holds the lock, the
\* redistributors use the LPI configuration that is in memory.
NoStaleConfig == Consumed /\ lock = None => cached = cfg
=============================================================================
