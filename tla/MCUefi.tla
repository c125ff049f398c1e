------------------------------ MODULE MCUefi -------------------------------
(***************************************************************************)
(* What firmware gives: the system table in either register or not at all, *)
(* ACPI tables of either revision, with a DSDT that the list has not, a    *)
(* console found early or late. SMBIOS data of up to four structures.      *)
(***************************************************************************)
EXTENDS Uefi, TLC
Root(rev, rsdt, xsdt) == [rev |-> rev, rsdt |-> rsdt, xsdt |-> xsdt]
List(e) == [entries |-> e]
T(sig, d) == [sig |-> sig, dsdt |-> d]
Tables(d, rev, xsdt) ==
  (1 :> Root(rev, 2, xsdt)) @@ (2 :> List(<<11, 12, 13>>)) @@ (3 :> List(<<11, 12, 13, 14>>))
  @@ (11 :> T("SSDT", 0)) @@ (12 :> T("FACP", d)) @@ (13 :> T("SSDT", 0)) @@ (14 :> T("SPCR", 0)) @@ (15 :> T("SSDT", 0))
Meant(d, rev, xsdt) ==
  IF rev = 0 \/ xsdt = 0 THEN <<11, 12, 13>> ELSE IF d = NULL_PADDR THEN <<11, 12, 13, 14>> ELSE <<11, 12, 15, 13, 14>>
Guid(g, p) == [guid |-> g, ptr |-> p]
M(regs, guid, d, rev, xsdt, late, name) ==
  [regs |-> regs, config |-> <<Guid("smbios", 9), Guid(guid, 1)>>, tables |-> Tables(d, rev, xsdt),
   late |-> late, name |-> name,
   meant |-> IF regs = "table" /\ guid # "x" THEN Meant(d, rev, xsdt) ELSE << >>]
MCMachines ==
  {M("table", "acpi20", d, 2, x, l, n) : d \in {15, NULL_PADDR}, x \in {0, 3}, l \in BOOLEAN, n \in {"SSDT", "SPCR"}}
  \cup {M("table", g, 15, 0, 0, FALSE, "SSDT") : g \in {"acpi10", "x"}} \cup {M("other", "acpi20", 15, 2, 3, FALSE, "SSDT")}
\* SMBIOS
Struct(t, n, strs) ==
  <<t, n>> \o [k \in 1 .. n - 2 |-> 0]
  \o (IF strs = << >> THEN <<0, 0>> ELSE FlattenSeq([k \in 1 .. Len(strs) |-> Append(strs[k], 0)]) \o <<0>>)
Smbios(l) == FlattenSeq([k \in 1 .. Len(l) |-> Struct(l[k][1], l[k][2], l[k][3])])
Kinds == {<<0, 2, << >>>>, <<1, 4, <<<<7>>, <<5, 6>>>>>>, <<4, 5, <<<<3>>>>>>, <<127, 4, << >>>>}
Lists == UNION {[1 .. n -> Kinds] : n \in 1 .. 4}
SmbiosRight ==
  \A l \in Lists : \A t \in {0, 1, 4, 127} :
    LET data == Smbios(l)
        before(k) == Len(Smbios(SubSeq(l, 1, k - 1)))
        hits == {k \in 1 .. Len(l) : l[k][1] = t /\ \A j \in 1 .. k - 1 : l[j][1] # 127}
        at == board_find_efi_smbios_by_type(data, t)
    IN  IF hits = {} THEN at = NULL_PADDR
        ELSE /\ at = before(Min(hits))
             /\ \A k \in 1 .. Len(l[Min(hits)][3]) : get_smbios_string(data, at, k) = l[Min(hits)][3][k]
SpcrRight ==
  \A ty \in {"PL011", "SBSA", "16550"}, sp \in {"memory", "io"} :
    LET d == acpi_spcr_parse([type |-> ty, space |-> sp, addr |-> 8]) IN
    d.name = "acpi_spcr" <=> ty # "16550" /\ sp = "memory" /\ d.base = 8

\* A structure, a string or a console is found if and only if it is there.
ParsersRight == SmbiosRight /\ SpcrRight
=============================================================================
