-------------------------------- MODULE Uefi --------------------------------
(***************************************************************************)
(* A boot from UEFI: whether it is one, the console of the firmware, which *)
(* is put aside while other cores run and is gone with boot services, the  *)
(* ACPI tables, found one after the other, and SMBIOS structures. RamInfo  *)
(* has how boot services are left.                                         *)
(*                                                                         *)
(* Memory is a function from addresses to tables; SMBIOS data are a        *)
(* sequence of bytes, of which only a zero differs from the others.        *)
(***************************************************************************)
EXTENDS Integers, Sequences, FiniteSets, FiniteSetsExt, SequencesExt

CONSTANTS
  Machines,    \* what firmware gives: see Firmware below
  BufferSize,  \* characters of uefi_str[]
  MaxChars     \* bound on what is printed

NULL_PADDR == -1
Null == 0
CR == "CR"       \* kprintf() writes it before each newline

VARIABLES
  machine,          \* [regs, config, tables, late, name]
  pc,               \* where start-up is
  uefi,             \* is_uefi_boot()'s answer; "unknown" before
  efi_system_table, \* "null", "table" or "other"
  conout, cur_ConOut, suspend_cnt, uefi_init_cnt, services,
  uefi_str,         \* the characters that wait
  num_tbls, tbl_array, recorded_table,
  found, adds,      \* history: the tables found; the areas recorded
  said, shown       \* history: what startup printed; what firmware got

conVars == <<conout, cur_ConOut, suspend_cnt, uefi_str, said, shown>>
exitVars == <<uefi_init_cnt, services>>
bootVars == <<uefi, efi_system_table>>
acpiVars == <<num_tbls, tbl_array, recorded_table, found, adds>>
vars == <<machine, pc, bootVars, conVars, exitVars, acpiVars>>

-----------------------------------------------------------------------------
(* Console                                                                 *)

Con == [buf |-> uefi_str, shown |-> shown]
\* uefi_print_char(): nothing without a console.
uefi_print_char(con, c) ==
  LET b == Append(con.buf, c) IN
  IF efi_system_table = "null" \/ conout = "null" THEN con
  ELSE IF Len(b) = BufferSize - 1 \/ c = CR THEN [buf |-> << >>, shown |-> con.shown \o b]
  ELSE [con EXCEPT !.buf = b]
uefi_io_flush(con) == uefi_print_char(con, CR)
\* What is flushed counts as said; it is only a CR.
Flushed == /\ uefi_str' = uefi_io_flush(Con).buf /\ shown' = uefi_io_flush(Con).shown
           /\ said' = IF conout = "null" THEN said ELSE Append(said, CR)

\* kprintf() of whoever runs; what is said without a console is lost.
Say ==
  /\ pc \in {"start", "info", "aps", "next"} /\ Len(said) < MaxChars
  /\ \E c \in {"c", CR} :
       /\ uefi_str' = uefi_print_char(Con, c).buf /\ shown' = uefi_print_char(Con, c).shown
       /\ said' = IF conout = "null" THEN said ELSE Append(said, c)
  /\ UNCHANGED <<machine, pc, bootVars, conout, cur_ConOut, suspend_cnt, exitVars, acpiVars>>

\* Mutant: what waits is left to be shown later.
Suspend_NoFlush ==
  /\ pc = "info" /\ pc' = "aps"
  /\ suspend_cnt' = suspend_cnt + 1 /\ cur_ConOut' = conout /\ conout' = "null"
  /\ UNCHANGED <<uefi_str, shown, said>>
  /\ UNCHANGED <<machine, bootVars, exitVars, acpiVars>>

\* start_aps(): uefi_io_suspend(), the cores, uefi_io_resume().
Suspend ==
  /\ pc = "info" /\ pc' = "aps"
  /\ suspend_cnt' = suspend_cnt + 1
  /\ IF suspend_cnt = 0
     THEN /\ Flushed /\ cur_ConOut' = conout /\ conout' = "null"
     ELSE UNCHANGED <<uefi_str, shown, said, cur_ConOut, conout>>
  /\ UNCHANGED <<machine, bootVars, exitVars, acpiVars>>
Resume ==
  /\ pc = "aps" /\ pc' = "next"
  /\ conout' = IF suspend_cnt = 1 THEN cur_ConOut ELSE conout
  /\ suspend_cnt' = suspend_cnt - 1
  /\ UNCHANGED <<machine, bootVars, cur_ConOut, uefi_str, said, shown, exitVars, acpiVars>>

-----------------------------------------------------------------------------
(* The beginning and the end                                               *)

\* is_uefi_boot() takes what the registers held for the system table, looks
\* at it the first time only, and then forgets it if it is none.
is_uefi_boot ==
  LET good == machine.regs = "table" IN
  /\ uefi' = IF uefi = "unknown" THEN (IF good THEN "yes" ELSE "no") ELSE uefi
  /\ efi_system_table' = IF uefi = "unknown" /\ ~ good THEN "null" ELSE machine.regs

\* uefi_init() and, when the console is chosen, uefi_io_init(); a serial
\* console needs neither.
UefiInit ==
  /\ pc = "boot" /\ is_uefi_boot
  /\ pc' = IF uefi' = "yes" THEN "start" ELSE "no"
  /\ IF uefi' = "yes"
     THEN /\ conout' = "firmware" /\ services' = TRUE
          /\ uefi_init_cnt' = IF machine.late THEN 2 ELSE 1
     ELSE UNCHANGED <<conout, services, uefi_init_cnt>>
  /\ UNCHANGED <<machine, cur_ConOut, suspend_cnt, uefi_str, said, shown, acpiVars>>

\* _uefi_exit_boot_services(): called from init_raminfo_uefi(), then by
\* startnext(); whoever else wants services defers it.
Exit(from, to) ==
  /\ pc = from /\ pc' = to
  /\ IF services /\ uefi_init_cnt = 1
     THEN /\ Flushed /\ conout' = "null" /\ services' = FALSE
     ELSE UNCHANGED <<uefi_str, shown, said, conout, services>>
  /\ uefi_init_cnt' = IF services THEN uefi_init_cnt - 1 ELSE uefi_init_cnt
  /\ UNCHANGED <<machine, bootVars, cur_ConOut, suspend_cnt, acpiVars>>
init_raminfo_uefi == Exit("start", "info")
startnext == Exit("next", "done")

-----------------------------------------------------------------------------
(* ACPI                                                                    *)

\* The first entry of the configuration table with a GUID.
uefi_find_config_tbl(guid) ==
  LET hit == {i \in 1 .. Len(machine.config) : machine.config[i].guid = guid} IN
  IF hit = {} THEN Null ELSE machine.config[Min(hit)].ptr
\* That of ACPI 2.0 or else 1.0; the area is recorded once.
board_find_acpi_rsdp ==
  LET v2 == uefi_find_config_tbl("acpi20") IN
  IF uefi' = "no" THEN Null ELSE IF v2 # Null THEN v2 ELSE uefi_find_config_tbl("acpi10")

Table(p) == machine.tables[p]
\* The tables the root gives; the one that the FADT, of which a machine has
\* one, leads to follows it.
Listed(root) ==
  IF Table(root).rev = 0 \/ Table(root).xsdt = Null THEN Table(Table(root).rsdt).entries
  ELSE LET l == Table(Table(root).xsdt).entries
           With(p) == IF Table(p).sig = "FACP" /\ Table(p).dsdt # NULL_PADDR THEN <<p, Table(p).dsdt>> ELSE <<p>>
       IN  FlattenSeq([i \in 1 .. Len(l) |-> With(l[i])])

\* Where a search that goes on from a table may look.
Behind(arr, start) == {i \in 1 .. Len(arr) : \E k \in 1 .. i - 1 : arr[k] = start}
Searched(arr, name, start) ==
  LET from == IF start = NULL_PADDR THEN 1 .. Len(arr) ELSE Behind(arr, start)
      hit == {i \in from : Table(arr[i]).sig = name}
  IN  IF hit = {} THEN NULL_PADDR ELSE arr[Min(hit)]

\* acpi_find_table_next(), from the table found before; the tables are
\* listed the first time. No root, and no search is ever made.
acpi_find_table_next ==
  LET root == board_find_acpi_rsdp
      arr == IF tbl_array # << >> \/ root = Null THEN tbl_array ELSE Listed(root)
      last == IF found = << >> THEN NULL_PADDR ELSE Last(found)
  IN  /\ pc \in {"start", "info", "no"} /\ (found = << >> \/ last # NULL_PADDR)
      /\ IF num_tbls = 0 \/ tbl_array # << >> THEN UNCHANGED <<bootVars, recorded_table, adds>>
         ELSE /\ is_uefi_boot
              /\ recorded_table' = (recorded_table \/ root # Null)
              /\ adds' = IF root # Null /\ ~ recorded_table THEN Append(adds, root) ELSE adds
      /\ num_tbls' = IF num_tbls = 0 THEN 0 ELSE Len(arr)
      /\ tbl_array' = arr
      /\ found' = Append(found, Searched(arr, machine.name, last))
      /\ UNCHANGED <<machine, pc, conVars, exitVars>>

\* add_acpi_table() after a search: before one it would not end.
add_acpi_table ==
  /\ pc \in {"start", "info", "no"} /\ num_tbls # -1 /\ found # << >> /\ Last(found) = NULL_PADDR
  /\ Len(adds) <= 1
  /\ adds' = adds \o tbl_array
  /\ UNCHANGED <<machine, pc, bootVars, conVars, exitVars, num_tbls, tbl_array, recorded_table, found>>

\* acpi_spcr_parse(): a PL011 or SBSA port in memory becomes the console.
acpi_spcr_parse(spcr) ==
  IF spcr.type \in {"PL011", "SBSA"} /\ spcr.space = "memory"
  THEN [name |-> "acpi_spcr", kind |-> "pl011", base |-> spcr.addr] ELSE [name |-> "", kind |-> "", base |-> Null]

-----------------------------------------------------------------------------
(* SMBIOS                                                                  *)

\* Bytes count from 0; a structure is its type, its length, the rest of
\* that length, strings, and two zeros.
ByteAt(data, i) == data[i + 1]
EndOfStrings(data, i) ==
  Min({k \in i .. Len(data) - 2 : ByteAt(data, k) = Null /\ ByteAt(data, k + 1) = Null})
NextStructure(data, i) == EndOfStrings(data, i + ByteAt(data, i + 1)) + 2
LastType == 127
\* board_find_efi_smbios_by_type(): ends at the last type or with the data.
board_find_efi_smbios_by_type(data, type) ==
  LET Walk(s, k) ==
        IF s.stop THEN s
        ELSE IF ByteAt(data, s.i) = type THEN [stop |-> TRUE, i |-> s.i]
        ELSE IF ByteAt(data, s.i) = LastType \/ NextStructure(data, s.i) >= Len(data)
        THEN [stop |-> TRUE, i |-> NULL_PADDR]
        ELSE [s EXCEPT !.i = NextStructure(data, @)]
  IN  FoldLeft(Walk, [stop |-> FALSE, i |-> 0], [k \in 1 .. Len(data) |-> k]).i
\* get_smbios_string(): idx strings on; index 0 is no string.
EndOfString(data, i) == Min({k \in i .. Len(data) - 1 : ByteAt(data, k) = Null})
get_smbios_string(data, hdr, idx) ==
  LET start == FoldLeft(LAMBDA p, k : EndOfString(data, p) + 1, hdr + ByteAt(data, hdr + 1),
                        [k \in 1 .. idx - 1 |-> k])
  IN  IF idx = 0 THEN << >> ELSE SubSeq(data, start + 1, EndOfString(data, start))

-----------------------------------------------------------------------------
Init ==
  /\ machine \in Machines /\ pc = "boot"
  /\ uefi = "unknown" /\ efi_system_table = "null"
  /\ conout = "null" /\ cur_ConOut = "null" /\ suspend_cnt = 0
  /\ uefi_init_cnt = 0 /\ services = FALSE
  /\ uefi_str = << >> /\ said = << >> /\ shown = << >>
  /\ num_tbls = -1 /\ tbl_array = << >> /\ recorded_table = FALSE
  /\ found = << >> /\ adds = << >>

Next == UefiInit \/ Say \/ Suspend \/ Resume \/ init_raminfo_uefi \/ startnext
        \/ acpi_find_table_next \/ add_acpi_table
Spec == Init /\ [][Next]_vars

-----------------------------------------------------------------------------
(* Properties                                                              *)

\* The firmware gets every character printed while there is a console, once
\* and in order; none waits while other cores run or when services are
\* left, and none is passed to firmware then.
ConsoleRight ==
  /\ shown \o uefi_str = said
  /\ conout = "null" => uefi_str = << >>
  /\ pc = "aps" \/ ~ services => conout = "null"
  /\ pc = "done" => ~ services

\* A search from table to table finds those of a name in their order, each
\* once, and ends; the root is recorded once and each table once.
AcpiRight ==
  LET all == SelectSeq(machine.meant, LAMBDA p : Table(p).sig = machine.name)
      got == IF found # << >> /\ Last(found) = NULL_PADDR THEN Front(found) ELSE found
  IN  /\ IsPrefix(got, all)
      /\ got # found => got = all
      /\ Len(adds) > 1 => Tail(adds) = machine.meant

UefiRight == ConsoleRight /\ AcpiRight
=============================================================================
