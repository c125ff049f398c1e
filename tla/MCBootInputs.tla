---------------------------- MODULE MCBootInputs ----------------------------
(***************************************************************************)
(* What startup takes from outside and makes of it: the executables of the *)
(* image, the device tree, the command lines, the cores, what firmware     *)
(* gives, and the sections of the system page for devices and strings.     *)
(* A behaviour is one of them at work and the others idle; they            *)
(* share no state. The values of the constants come from instances of the  *)
(* same modules, whose own constants they do not need.                     *)
(***************************************************************************)
EXTENDS BootInputs, TLC

-----------------------------------------------------------------------------
(* The page tables: pages of two units; 64 pages in each half of the       *)
(* address space, as three levels of four entries or two of eight. Startup *)
(* lies across two L2 tables, and the automatic addresses fill the L2      *)
(* table of the startup mappings up to its recursive entry. The directory  *)
(* of the image is gone through before that.                               *)

\* Enough memory, and some that ends early: at the first tables, at those of
\* startup, or because no two free frames are together.
MCPools == {(1 .. 13) \cup (40 .. 55), 1 .. 3, 1 .. 6, {1, 3, 5, 7, 9, 11, 13, 15, 40, 42}}
MCStartup == <<29, 6>>

Phdr(vaddr, paddr, src, filesz, memsz, flags) ==
  [vaddr |-> vaddr, paddr |-> paddr, src |-> src, filesz |-> filesz,
   memsz |-> memsz, flags |-> flags]
V == 2 * 112
MCFiles ==
  { \* text and data in place, data with zeroes, that begins inside a page
    <<Phdr(V, 40, 0, 11, 11, {"x"}), Phdr(V + 19, 53, 0, 4, 8, {"w"})>>,
    \* padded data in place; text copied; data copied, with zeroes
    <<Phdr(V, 36, 0, 5, 5, {"w"}), Phdr(V + 9, 0, 43, 2, 2, {"x"}),
      Phdr(V + 12, 0, 46, 1, 5, {"w"})>>,
    \* zeroes only, in less and in more than a page, and a copied data segment
    \* without any
    <<Phdr(V + 2, 40, 0, 0, 3, {"w"}), Phdr(V + 7, 0, 43, 2, 2, {"w"})>>,
    \* linked below the base
    <<Phdr(2 * 70, 40, 0, 2, 2, {"x"})>> }

\* The registers of a device that do not begin a page, and a large area.
MCCallouts == {[paddr |-> 113, size |-> 2, flags |-> {"w", "nc", "dev"}],
               [paddr |-> 118, size |-> 9, flags |-> {"w"}]}

-----------------------------------------------------------------------------
(* The executables of the image. Images of up to three files in 32 units;  *)
(* the executables lie at 4, 10 and 16, with free memory from 20 on.       *)
Hdr(class, machine) ==
  [magic |-> TRUE, data |-> "lsb", class |-> class, machine |-> machine,
   phnum |-> 2, phentsize |-> class]
Load(offset, vaddr, paddr, filesz, memsz) ==
  [load |-> TRUE, offset |-> offset, vaddr |-> vaddr, paddr |-> paddr,
   filesz |-> filesz, memsz |-> memsz]
\* The notes of an executable, that are not loaded.
Note(offset) == [Load(offset, 0, 0, 1, 1) EXCEPT !.load = FALSE]
Exe(hdr, entry, segs) ==
  [bootstrap |-> TRUE, signature |-> TRUE, hdr |-> hdr, entry |-> entry, segs |-> segs]

Kernel == Exe(Hdr(64, "aarch64"), 4,
              <<Load(4, 4, 4, 3, 3), Note(9), Load(7, 20, 4, 2, 3)>>)
\* Its text goes up by one unit, over itself, its data down by one, with the
\* zeroes where the data was.
Moved == Exe(Hdr(64, "aarch64"), 10, <<Load(10, 11, 10, 2, 2), Load(14, 13, 14, 1, 2)>>)
Small == Exe(Hdr(32, "aarch64"), 24, <<Load(16, 24, 0, 2, 4)>>)
Script == [Exe([Hdr(64, "aarch64") EXCEPT !.magic = FALSE], 0, << >>)
             EXCEPT !.bootstrap = FALSE]
Unsigned == [Moved EXCEPT !.signature = FALSE]
Foreign == [Moved EXCEPT !.hdr = Hdr(64, "x86_64")]
Foreign32 == [Small EXCEPT !.hdr = Hdr(32, "arm")]
Swapped == [Moved EXCEPT !.hdr.data = "msb"]
Empty == [Moved EXCEPT !.hdr.phnum = 0, !.segs = << >>]

MCImages ==
  [inoBits : {TRUE}, virtual : BOOLEAN, free : {20 .. 31},
   dir : {<< >>, <<Script>>, <<Kernel>>, <<Script, Kernel>>} \cup
         {<<x, y, z>> : x \in {Kernel, Script}, y \in {Moved, Script, Unsigned, Foreign, Swapped},
                        z \in {Small, Script, Foreign32, Empty}}]
  \cup [inoBits : {FALSE}, virtual : {FALSE}, free : {{}}, dir : {<<Kernel>>}]

\* The tables are built once, after the directory of one of the images.
PagesInit == Init /\ B!Init
PagesNext == \/ /\ bpc = "done" /\ image.virtual /\ image.dir = <<Kernel>>
                /\ Next /\ UNCHANGED bootVars
             \/ B!Next /\ UNCHANGED vars
PagesIdle ==
  /\ large = TRUE /\ file = << >> /\ num_cpu = 1 /\ pc = "idle" /\ ttbr0 = 0 /\ L1 = 0
  /\ table = << >> /\ ram = << >> /\ free = {} /\ free_vaddr = 0
  /\ todo = << >> /\ va = 0 /\ end = 0 /\ pte = NoPte /\ k = 1 /\ half = FALSE
  /\ boot_vaddr = <<0, 0>> /\ asked = {} /\ mapped = << >>
  /\ image = [virtual |-> TRUE, dir |-> << >>] /\ bpc = "idle" /\ dir = 0 /\ seg = 0 /\ mem = << >> /\ bfree = {}
  /\ prev = 0 /\ first_bootstrap_start_vaddr = 0 /\ next_entry = << >> /\ loader = << >>

-----------------------------------------------------------------------------
(* The other parts.                                                        *)

treeVars == <<cache, treeAsked, ncalls, tree, cpu, spc, shim_start, shim_id, release, dirty, ap, event>>
FData == INSTANCE MCFdt WITH asked <- treeAsked, Trees <- {}
MCTrees == FData!MCTrees

CONSTANTS Lines, MaxArgs, Half, Kilo, Thousand, NumberOf
VARIABLES line, boot_args, next_arg, argv, g, pass, set, fdtp, seen
O == INSTANCE MCOptions
lineVars == <<line, boot_args, next_arg, argv, g, pass, set, fdtp, seen>>
OData == INSTANCE MCOptions WITH Lines <- {}, NumberOf <- << >>
MCLines == OData!MCLines
MCNumberOf == OData!MCNumberOf

CONSTANTS Boards, Known, AARCH64_IDDUMP_ENTRIES
VARIABLES board, corePc, coreNum, cpuinfo, caches, idreg, required_flags, mode, vectors, hypinfo, crashed
C == INSTANCE MCCores WITH pc <- corePc, num_cpu <- coreNum
coreVars == <<board, corePc, coreNum, cpuinfo, caches, idreg, required_flags, mode, vectors, hypinfo, crashed>>
CData == INSTANCE MCCores WITH pc <- corePc, num_cpu <- coreNum, Boards <- {}, Known <- {}
MCBoards == CData!MCBoards
MCKnown == CData!MCKnown

CONSTANTS Machines, BufferSize, MaxChars
VARIABLES machine, uefiPc, uefi, efi_system_table, conout, cur_ConOut, suspend_cnt, uefi_init_cnt, services,
          uefi_str, num_tbls, tbl_array, recorded_table, found, adds, said, shown
U == INSTANCE MCUefi WITH pc <- uefiPc
uefiVars == <<machine, uefiPc, uefi, efi_system_table, conout, cur_ConOut, suspend_cnt, uefi_init_cnt, services,
              uefi_str, num_tbls, tbl_array, recorded_table, found, adds, said, shown>>
UData == INSTANCE MCUefi WITH pc <- uefiPc, Machines <- {}
MCMachines == UData!MCMachines

CONSTANTS TagSize, TagAlign, Attrs, Names, MaxItems
VARIABLES h, items, nitems
H == INSTANCE HwInfo WITH tree <- items, ncalls <- nitems, MaxCalls <- MaxItems
hwVars == <<h, items, nitems>>
HData == INSTANCE HwInfo WITH tree <- items, ncalls <- nitems, MaxCalls <- MaxItems, TagSize <- << >>,
           TagAlign <- << >>, Attrs <- {}
\* Tags as large as the structures of <hw/sysinfo.h>, and two devices of
\* each class: one without further tags, and one with all of them.
MCTagSize ==
  [pad |-> 4, group |-> 12, bus |-> 12, device |-> 16, synonym |-> 16,
   location |-> 24, irq |-> 8, irqrange |-> 12, dll |-> 8, optstr |-> 8,
   errata |-> 8, dma |-> 8, inputclk |-> 12, busattr |-> 20, nicaddr |-> 16,
   nicphyaddr |-> 8, regname |-> 8, nanospin |-> 12]
MCTagAlign == [t \in DOMAIN MCTagSize |-> IF t = "location" THEN 8 ELSE 4]
MCAttrs ==
  LET bare == [HData!CommonAttr EXCEPT !.base = 1] @@ HData!EnetAttr @@ HData!RtcAttr @@ HData!I2cAttr
              @@ HData!PciAttr @@ HData!CanAttr
  IN  {bare,
       [bare EXCEPT !.num_irq = 2, !.num_errata = 1, !.num_dma = 1, !.dll = "d",
         !.optstr = "o", !.num_clks = 1, !.num_phys = 2, !.mac = 6,
         !.centreg = "c", !.num_busattr = 1, !.num_irqblks = 1, !.num_memaddr = 2]}

\* Strings of several lengths, none among them.
CONSTANTS Types, Texts, Word, Chunk, MaxAdds
VARIABLES typed, strings, stringsGiven, offsets
S == INSTANCE Strings WITH given <- stringsGiven
stringVars == <<typed, strings, stringsGiven, offsets>>
MCTexts == {<<>>, <<"a", "b", "c">>, <<"a", "b", "c", "d", "e", "f", "g">>, <<"b">>}
\* Typed strings first, then the others: the two sections share nothing.
StringsNext ==
  \/ offsets = << >> /\ \E t \in Types : S!DelTyped(t) \/ \E s \in Texts : S!AddTyped(t, s)
  \/ (offsets # << >> \/ stringsGiven = << >>) /\ \E s \in Texts : S!AddString(s)

-----------------------------------------------------------------------------
TreeIdle ==
  /\ cache = 0 /\ treeAsked = 0 /\ ncalls = 0 /\ tree = 0 /\ cpu = 0 /\ spc = "off"
  /\ shim_start = 0 /\ shim_id = 0 /\ release = << >> /\ dirty = << >> /\ ap = << >> /\ event = << >>
LineIdle ==
  /\ line = 0 /\ boot_args = << >> /\ next_arg = << >> /\ argv = << >> /\ g = 0 /\ pass = "off"
  /\ set = 0 /\ fdtp = 0 /\ seen = << >>
CoreIdle ==
  /\ board = 0 /\ corePc = <<"off", 0>> /\ coreNum = 0 /\ cpuinfo = << >> /\ caches = << >> /\ idreg = << >>
  /\ required_flags = "" /\ mode = << >> /\ vectors = FALSE /\ hypinfo = {} /\ crashed = FALSE
UefiIdle ==
  /\ machine = 0 /\ uefiPc = "off" /\ uefi = "" /\ efi_system_table = "" /\ conout = "" /\ cur_ConOut = ""
  /\ suspend_cnt = 0 /\ uefi_init_cnt = 0 /\ services = FALSE /\ uefi_str = << >> /\ num_tbls = 0
  /\ tbl_array = << >> /\ recorded_table = FALSE /\ found = << >> /\ adds = << >> /\ said = << >> /\ shown = << >>

VARIABLE active   \* what is at work
sectionVars == <<hwVars, stringVars>>
allVars == <<vars, bootVars, treeVars, lineVars, coreVars, uefiVars, sectionVars, active>>

SectionsIdle == S!Init /\ h = [size |-> 0, offset |-> 0, last_item |-> 0, mem |-> << >>] /\ items = << >> /\ nitems = 0
FirmwareIdle == TreeIdle /\ LineIdle /\ CoreIdle /\ UefiIdle
BootInit ==
  \/ active = "pages"   /\ PagesInit /\ FirmwareIdle /\ SectionsIdle
  \/ active = "tree"    /\ PagesIdle /\ F!Init /\ LineIdle /\ CoreIdle /\ UefiIdle /\ SectionsIdle
  \/ active = "options" /\ PagesIdle /\ TreeIdle /\ O!Init /\ CoreIdle /\ UefiIdle /\ SectionsIdle
  \/ active = "cores"   /\ PagesIdle /\ TreeIdle /\ LineIdle /\ C!Init /\ UefiIdle /\ SectionsIdle
  \/ active = "uefi"    /\ PagesIdle /\ TreeIdle /\ LineIdle /\ CoreIdle /\ U!Init /\ SectionsIdle
  \/ active = "hwinfo"  /\ PagesIdle /\ FirmwareIdle /\ H!Init /\ S!Init
  \/ active = "strings" /\ PagesIdle /\ FirmwareIdle /\ SectionsIdle
BootNext ==
  /\ \/ active = "pages"   /\ PagesNext /\ UNCHANGED <<treeVars, lineVars, coreVars, uefiVars, sectionVars>>
     \/ active = "tree"    /\ F!Next /\ UNCHANGED <<vars, bootVars, lineVars, coreVars, uefiVars, sectionVars>>
     \/ active = "options" /\ O!Next /\ UNCHANGED <<vars, bootVars, treeVars, coreVars, uefiVars, sectionVars>>
     \/ active = "cores"   /\ C!Next /\ UNCHANGED <<vars, bootVars, treeVars, lineVars, uefiVars, sectionVars>>
     \/ active = "uefi"    /\ U!Next /\ UNCHANGED <<vars, bootVars, treeVars, lineVars, coreVars, sectionVars>>
     \/ /\ \/ active = "hwinfo"  /\ H!Next /\ UNCHANGED stringVars
           \/ active = "strings" /\ StringsNext /\ UNCHANGED hwVars
        /\ UNCHANGED <<vars, bootVars, treeVars, lineVars, coreVars, uefiVars>>
  /\ UNCHANGED active
\* The fairness of Fdt.
BootSpec ==
  /\ BootInit /\ [][BootNext]_allVars
  /\ WF_treeVars(active = "tree" /\ F!SpinStart)
  /\ \A c \in 1 .. MaxCpu : WF_treeVars(active = "tree" /\ F!Parking(c))

\* The command lines alone.
LineSpec ==
  /\ active = "options" /\ PagesIdle /\ TreeIdle /\ O!Init /\ CoreIdle /\ UefiIdle /\ SectionsIdle
  /\ [][BootNext]_allVars

-----------------------------------------------------------------------------
\* Each core that can be started is: see Fdt.
EachStarts == F!EachStarts

\* What is packed behind each program, and the options that are read from
\* it, stay what was meant: see Options.
LinesRight == active = "options" => O!ArgsRight /\ O!OptionsRight

\* print_syspage() finds every -S: see Options.
SectionsSeen == active = "options" => O!SectionsSeen

\* What the kernel is told of each core is so: see Cores.
CoresRight == active = "cores" => C!CoresRight

\* What startup takes from firmware, or gives it, is whole: see Uefi, and
\* MCFdt for what the helpers make of a device tree.
FirmwareRight ==
  /\ active = "uefi" => U!UefiRight /\ (uefiPc = "boot" => U!ParsersRight)
  /\ active = "tree" /\ spc = "idle" /\ ncalls = 0 => FData!FdtRight

\* A driver finds the devices and the strings that were put into their
\* sections: see HwInfo and Strings.
SectionsRight == (active = "hwinfo" => H!TreeRight /\ H!SectionEnds) /\ S!StringsRight
=============================================================================
