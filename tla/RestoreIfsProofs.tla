-------------------------- MODULE RestoreIfsProofs --------------------------
(***************************************************************************)
(* Proofs about RestoreIfs for images, RAM and options of any size. The    *)
(* inductive invariant says what RAM holds at each place of a boot: the    *)
(* information is at the same address in every boot, it is invalid from    *)
(* the first store of startup to the last, and what it lists is in memory  *)
(* that nobody else is given.                                              *)
(***************************************************************************)
EXTENDS RestoreIfs, SequenceTheorems, TLAPS

\* What the theorems ask of a board, each for a known limit of the code: an
\* image that is not compressed has been stored where its header says, each
\* executable has one writable segment, a second image at a place of the
\* user's is always copied, and that place is not the one of rifs_info.
Supported ==
  /\ \A h \in Headers : h.comp \/ (h.imagefs_paddr # 0 /\ h.addr_off = 0)
  /\ \A im \in Images : \A i \in 1 .. Len(im) : Len(im[i]) <= 1
  /\ \A o \in Options : o.dst2 => ~ o.restore2
  /\ Ifs2Dst > 1

InPlace   == full_imagefs_paddr \in {0, ifs_paddr}
FirstFree == IF opt.enable THEN 2 ELSE 1
Checked   == opt.cksum \/ ~ hurt
RamAddr   == 1 .. RamSize
Elfs      == UNION {[1 .. n -> Elf] : n \in 0 .. MaxBootable}

\* Where memory has been handed out: every boot begins with the same steps,
\* so that the information is always found at address 1.
PlaceInv ==
  /\ k \in Nat \ {0}
  /\ pc = "restore" => free = RamAddr
  /\ pc \in {"copy", "rifs_init", "load", "temp", "room", "fill", "ifs2"} =>
       free = FirstFree .. RamSize
  /\ pc \notin {"off", "restore"} /\ opt.enable =>
       rifs_info = 1 /\ 1 \in RamAddr /\ 1 \notin free
  /\ pc \in {"restore", "load", "room", "restore2"} => k = 1
  /\ pc \in {"temp", "room"} => shdr.comp
  /\ pc = "fill" => shdr.comp \/ ~ InPlace

\* What the image holds at each place of a boot.
ImageInv ==
  /\ pc \in {"restore", "copy", "rifs_init", "load"} /\ ~ shdr.comp /\ InPlace =>
       \A u \in Unit : image[u] = Ok
  /\ pc = "fill" => \A u \in Unit : u < k => image[u] = Ok
  /\ \/ pc \in {"ifs2", "restore2", "load2", "boot", "save"}
     \/ pc = "rifs_init" /\ status = 0
     => /\ Checked => \A u \in Unit : image[u] = Ok
        /\ image[1] = Ok
  /\ pc \in {"copy", "kernel"} => image[1] = Ok

\* The information: invalid from rifs_init() until all is saved. Then, and
\* while it is being written, each executable entered has its entry.
Lists(e, n) ==
  /\ Len(e) = n
  /\ \A i \in 1 .. n : /\ segs[i] # << >> /\ e[i].unit = RifsReadelf(i)
                       /\ shdr.comp => e[i].data \in RamAddr \ (free \cup {1})
Holds(e) == shdr.comp => \A i \in 1 .. Len(e) : ram[e[i].data] = Saved(e[i].unit)
InfoInv ==
  /\ \A a \in RamAddr : ram[a].kind = "info" =>
       /\ a = 1 /\ opt.enable
       /\ \A i \in 1 .. Len(ram[a].elf) : ram[a].elf[i].unit # 1
  /\ \A a \in RamAddr : ValidInfo(a) =>
       pc \in {"off", "restore", "copy", "rifs_init", "kernel"}
  /\ pc \in {"copy", "rifs_init"} => opt.enable
  /\ pc = "copy" => ValidInfo(1)
  /\ pc \in {"load", "temp", "room", "fill", "ifs2", "restore2", "load2"}
     /\ opt.enable => ram[1] = Info(<< >>, FALSE)
  /\ pc \in {"boot", "save"} /\ opt.enable =>
       /\ ram[1].kind = "info" /\ Lists(ram[1].elf, k - 1)
       /\ Checked => Holds(ram[1].elf)
  /\ pc \in {"boot", "save"} => k - 1 <= Len(segs)
  /\ pc = "save" => k <= Len(segs)
  /\ pc = "kernel" /\ opt.enable => ValidInfo(1) /\ Lists(ram[1].elf, Len(segs))

\* Information that would be accepted describes the image; while startup
\* puts the data back, what is still to do.
ToDo(e, from) == \A u \in Unit : \/ image[u] = Ok
                                 \/ \E i \in from .. Len(e) : e[i].unit = u
WholeInv ==
  \A a \in RamAddr :
    ValidInfo(a) /\ ValidIfs /\ (~ hurt \/ (clean /\ opt.cksum)) =>
      /\ ToDo(ram[a].elf, IF pc = "copy" THEN k ELSE 1)
      /\ Holds(ram[a].elf)

\* After a completed boot the information is accepted.
CleanInv ==
  clean /\ opt.enable /\ ~ InPlace =>
    /\ pc \in {"kernel", "off", "restore"} => 1 \in RamAddr /\ ValidInfo(1) /\ ValidIfs
    /\ pc = "rifs_init" => status = 0
    /\ pc \notin {"load", "temp", "room", "fill"}

\* The second image: its place is not handed out again, nor that of
\* rifs2_info, which is never cleared memory.
Source == opt.src2 \/ full_imagefs_paddr # 0
Info2At == FirstFree + Ifs2Size
Place2 == Units(ifs2_paddr_dst, Ifs2Size)
Ifs2Inv ==
  /\ opt.ifs2 /\ opt.restore2 /\ Info2At \in RamAddr => ram[Info2At] # Zero
  /\ pc \in {"restore2", "load2"} => opt.ifs2
  /\ pc = "restore2" => opt.restore2
  /\ pc \in {"restore2", "load2", "boot", "save"} /\ opt.ifs2 =>
       /\ Place2 \subseteq RamAddr /\ (opt.enable => 1 \notin Place2)
       /\ ~ opt.dst2 => ifs2_paddr_dst = FirstFree /\ Place2 \cap free = {}
  /\ pc = "restore2" => free = FirstFree + Ifs2Size .. RamSize
  /\ pc \in {"load2", "boot", "save"} /\ opt.ifs2 /\ opt.restore2 =>
       rifs2_info = Info2At /\ Info2At \in RamAddr \ free
  /\ pc = "load2" => \A n \in 1 .. Ifs2Size : n < k /\ Source => ram[Ifs2At(n)] = Ifs2(n)
  /\ pc \in {"boot", "save"} /\ opt.ifs2 =>
       /\ Place2 \cap free = {}
       /\ Source /\ (opt.cksum2 \/ ~ opt.restore2) =>
            \A n \in 1 .. Ifs2Size : ram[Ifs2At(n)] = Ifs2(n)

IInv == /\ TypeOK /\ PlaceInv /\ ImageInv /\ InfoInv /\ WholeInv /\ CleanInv
        /\ Ifs2Inv

-----------------------------------------------------------------------------
(* Memory and what it holds.                                               *)

\* The constants that are sizes and addresses.
LEMMA Sizes ==
  /\ ImgSize \in Nat \ {0} /\ MaxBootable \in Nat
  /\ \A im \in Images : im \in Seq(Seq(2 .. ImgSize))
  /\ ImagePaddr \in Nat \ {0} /\ StartupSize \in Nat \ {0}
  /\ \A h \in Headers : h.imagefs_paddr \in Nat /\ h.addr_off \in Nat
  /\ TempSize \in Nat \ {0} /\ BssSize \in Nat \ {0} /\ Ifs2Size \in Nat \ {0}
  /\ RamSize \in Nat /\ Ifs2Dst \in Nat /\ Units(Ifs2Dst, Ifs2Size) \subseteq RamAddr
BY ImageAssumption, AddressAssumption, RamAssumption DEF Units, RamAddr

\* What find_ram() returns is free RAM.
LEMMA FindRamIs ==
  ASSUME free \subseteq RamAddr, NEW n \in Nat \ {0}, NEW a \in FindRam(n)
  PROVE  /\ a \in free /\ a \in Nat /\ Units(a, n) \subseteq free
         /\ a \in Units(a, n)
<1>1. a \in free /\ Units(a, n) \subseteq free
  BY DEF FindRam
<1>2. a \in Nat
  BY <1>1, Sizes DEF RamAddr
<1> QED BY <1>1, <1>2 DEF Units

\* Of memory that is free from f on, the lowest block begins there.
LEMMA FindRamFirst ==
  ASSUME NEW f \in Nat \ {0}, free = f .. RamSize, NEW n \in Nat \ {0},
         NEW a \in FindRam(n)
  PROVE  a = f
<1>1. a \in f .. RamSize /\ Units(a, n) \subseteq f .. RamSize
  BY DEF FindRam
<1>2. a + n - 1 \in Units(a, n) /\ a \in Nat
  BY <1>1, Sizes DEF Units
<1>3. a + n - 1 <= RamSize /\ f \in free
  BY <1>1, <1>2, Sizes
<1>4. Units(f, n) \subseteq free
  BY <1>1, <1>2, <1>3, Sizes DEF Units
<1>5. a <= f
  BY <1>3, <1>4 DEF FindRam
<1> QED BY <1>1, <1>2, <1>5

\* The executables of an image are a sequence of bounded length ...
LEMMA ElfSeqs == \A e : e \in Elfs <=> e \in Seq(Elf) /\ Len(e) <= MaxBootable
<1>1. ASSUME NEW e \in Elfs PROVE e \in Seq(Elf) /\ Len(e) <= MaxBootable
  <2>1. PICK n \in 0 .. MaxBootable : e \in [1 .. n -> Elf]
    BY <1>1 DEF Elfs
  <2>2. n \in Nat
    BY Sizes
  <2>3. e \in Seq(Elf) /\ Len(e) = n
    BY <2>1, <2>2
  <2> QED BY <2>1, <2>3, Sizes
<1>2. ASSUME NEW e \in Seq(Elf), Len(e) <= MaxBootable PROVE e \in Elfs
  <2>1. e \in [1 .. Len(e) -> Elf] /\ Len(e) \in 0 .. MaxBootable
    BY <1>2, Sizes
  <2> QED BY <2>1 DEF Elfs
<1> QED BY <1>1, <1>2

\* ... and an image may have none.
LEMMA NoElfs == << >> \in Elfs /\ Len(<< >>) = 0
<1>1. << >> \in Seq(Elf) /\ Len(<< >>) = 0
  OBVIOUS
<1>2. 0 <= MaxBootable
  BY Sizes
<1>3. Len(<< >>) <= MaxBootable
  BY <1>1, <1>2
<1> QED BY <1>1, <1>3, ElfSeqs

\* What units of RAM hold.
LEMMA RamUnits ==
  /\ \A e \in Elfs : \A b \in BOOLEAN : Info(e, b) \in RamUnit
  /\ Info2 \in RamUnit /\ Zero \in RamUnit /\ Lost \in RamUnit
  /\ \A n \in 1 .. Ifs2Size : Ifs2(n) \in RamUnit
  /\ \A u \in Unit : Saved(u) \in RamUnit
<1>1. \A e \in Elfs : \A b \in BOOLEAN :
        Info(e, b) \in [kind : {"info"}, elf : Elfs, cksum : BOOLEAN]
  BY DEF Info
<1> QED BY <1>1 DEF RamUnit, Elfs

\* The kinds of units are told apart.
LEMMA Kinds ==
  /\ \A e, b : Info(e, b).kind = "info" /\ Info(e, b).elf = e /\ Info(e, b).cksum = b
  /\ Lost.kind # "info" /\ Zero.kind # "info" /\ Info2.kind # "info"
  /\ \A n : Ifs2(n).kind # "info"
  /\ \A u : Saved(u).kind # "info"
  /\ \A u, v : Saved(u) = Saved(v) => u = v
  /\ Lost # Zero /\ Info2 # Zero
  /\ \A u : Saved(u) # Zero
  /\ \A n : Ifs2(n) # Zero
  /\ \A e, b : Info(e, b) # Zero
<1>1. /\ Lost.kind # "info" /\ Zero.kind # "info" /\ Info2.kind # "info"
      /\ Lost # Zero /\ Info2 # Zero
  BY DEF Lost, Zero, Info2
<1>2. \A n : Ifs2(n).kind # "info" /\ Ifs2(n).kind # Zero.kind
  BY DEF Ifs2, Zero
<1>3. \A u : Saved(u).kind # "info" /\ Saved(u).kind # Zero.kind /\ Saved(u).unit = u
  BY DEF Saved, Zero
<1>4. \A e, b : /\ Info(e, b).kind = "info" /\ Info(e, b).elf = e
                /\ Info(e, b).cksum = b /\ Info(e, b).kind # Zero.kind
  BY DEF Info, Zero
<1> QED BY <1>1, <1>2, <1>3, <1>4

\* What the information in memory is.
LEMMA InfoUnits ==
  ASSUME TypeOK, NEW a \in RamAddr, ram[a].kind = "info"
  PROVE  /\ ram[a].elf \in Seq(Elf) /\ Len(ram[a].elf) \in 0 .. MaxBootable
         /\ ram[a].elf \in Elfs
<1>1. ram[a] \in RamUnit
  BY DEF TypeOK, RamAddr
<1>2. ram[a] \in [kind : {"info"}, elf : Elfs, cksum : BOOLEAN]
  BY <1>1 DEF RamUnit, Elfs, Info2, Zero, Lost, Ifs2, Saved
<1>3. ram[a].elf \in Elfs
  BY <1>2
<1> QED BY <1>3, ElfSeqs, Sizes

-----------------------------------------------------------------------------
(* Types.                                                                  *)

Places == {"off", "restore", "copy", "rifs_init", "load", "temp", "room", "fill",
           "ifs2", "restore2", "load2", "boot", "save", "kernel", "crashed"}

\* A step whose changes have their types keeps TypeOK.
LEMMA Types ==
  ASSUME TypeOK, UNCHANGED header, image' \in [Unit -> {Ok, Junk}],
         DOMAIN ram' = RamAddr, \A a \in RamAddr : ram'[a] \in RamUnit,
         free' \subseteq RamAddr, pc' \in Places, k' \in Nat, status' \in {0, -1},
         rifs_info' \in 0 .. RamSize, rifs2_info' \in 0 .. RamSize,
         ifs2_paddr_dst' \in 0 .. RamSize
  PROVE  TypeOK'
<1>1. shdr' \in Headers /\ opt' \in Options /\ segs' \in Images
  BY DEF TypeOK, header
<1>2. \A a \in 1 .. RamSize : ram'[a] \in RamUnit'
  BY DEF RamAddr, RamUnit, Elf, Unit, Info2, Zero, Lost, Ifs2, Saved
<1> QED BY <1>1, <1>2 DEF TypeOK, RamAddr, Places, Unit

\* The image's header and the command line stay.
LEMMA Fixed ==
  ASSUME UNCHANGED header
  PROVE  /\ shdr' = shdr /\ opt' = opt /\ segs' = segs
         /\ InPlace' = InPlace /\ FirstFree' = FirstFree /\ Source' = Source
         /\ full_imagefs_paddr' = full_imagefs_paddr
BY DEF header, InPlace, FirstFree, Source, full_imagefs_paddr, full_image_paddr,
       ifs_paddr

\* What TypeOK says, with the names used here.
LEMMA Typed ==
  ASSUME TypeOK
  PROVE  /\ shdr \in Headers /\ opt \in Options /\ segs \in Images
         /\ image \in [Unit -> {Ok, Junk}] /\ 1 \in Unit
         /\ DOMAIN ram = RamAddr /\ \A a \in RamAddr : ram[a] \in RamUnit
         /\ free \subseteq RamAddr /\ pc \in Places /\ k \in Nat
         /\ status \in {0, -1} /\ rifs_info \in 0 .. RamSize
         /\ rifs2_info \in 0 .. RamSize /\ ifs2_paddr_dst \in 0 .. RamSize
BY Sizes DEF TypeOK, RamAddr, Places, Unit

-----------------------------------------------------------------------------
(* The steps of the board.                                                 *)

\* The boot loader brings the stored image.
LEMMA PowerOnStep ==
  ASSUME IInv, PowerOn
  PROVE  IInv'
<1>0. /\ TypeOK /\ PlaceInv /\ ImageInv /\ InfoInv /\ WholeInv /\ CleanInv /\ Ifs2Inv
      /\ pc = "off" /\ pc' = "restore" /\ UNCHANGED <<ram, clean, hurt, header>>
      /\ free' = RamAddr /\ k' = 1 /\ status' = 0 /\ rifs_info' = 0
      /\ rifs2_info' = 0 /\ ifs2_paddr_dst' = 0
      /\ image' = IF InPlace
                  THEN [u \in Unit |-> IF shdr.comp THEN Junk ELSE Ok] ELSE image
  BY DEF IInv, PowerOn, Goto, NullPaddr, RamAddr, InPlace, envVars
<1>t. /\ image \in [Unit -> {Ok, Junk}] /\ 1 \in Unit
      /\ DOMAIN ram = RamAddr /\ \A a \in RamAddr : ram[a] \in RamUnit
  BY <1>0, Typed
<1>f. /\ shdr' = shdr /\ opt' = opt /\ segs' = segs /\ InPlace' = InPlace
      /\ FirstFree' = FirstFree
  BY <1>0, Fixed
<1>1. TypeOK'
  <2>1. image' \in [Unit -> {Ok, Junk}]
    BY <1>0, <1>t
  <2>2. 0 \in 0 .. RamSize
    BY Sizes
  <2>3. /\ DOMAIN ram' = RamAddr /\ \A a \in RamAddr : ram'[a] \in RamUnit
        /\ free' \subseteq RamAddr /\ pc' \in Places /\ k' \in Nat
        /\ status' \in {0, -1} /\ rifs_info' \in 0 .. RamSize
        /\ rifs2_info' \in 0 .. RamSize /\ ifs2_paddr_dst' \in 0 .. RamSize
    BY <1>0, <1>t, <2>2 DEF Places
  <2> QED BY <1>0, <2>1, <2>3, Types
<1>2. PlaceInv'
  BY <1>0 DEF PlaceInv, RamAddr
<1>3. ImageInv'
  BY <1>0, <1>f DEF ImageInv, Unit
<1>4. InfoInv'
  BY <1>0, <1>f DEF InfoInv, ValidInfo, RamAddr
<1>5. WholeInv'
  BY <1>0, <1>f, <1>t DEF WholeInv, ValidInfo, ValidIfs, ToDo, Holds, RamAddr, Unit, Ok, Junk
<1>6. CleanInv'
  BY <1>0, <1>f DEF CleanInv, ValidInfo, ValidIfs, RamAddr
<1>7. Ifs2Inv'
  BY <1>0, <1>f DEF Ifs2Inv, Info2At, RamAddr, Zero
<1> QED BY <1>1, <1>2, <1>3, <1>4, <1>5, <1>6, <1>7 DEF IInv

\* The CPU loses power, RAM does not.
LEMMA ResetStep ==
  ASSUME IInv, Reset
  PROVE  IInv'
<1>0. /\ TypeOK /\ PlaceInv /\ ImageInv /\ InfoInv /\ WholeInv /\ CleanInv /\ Ifs2Inv
      /\ pc' = "off" /\ clean' = (clean /\ pc = "kernel")
      /\ UNCHANGED <<header, image, ram, free, k, status, rifs_info, rifs2_info,
                     ifs2_paddr_dst, hurt>>
  BY DEF IInv, Reset, infoVars
<1>t. /\ image \in [Unit -> {Ok, Junk}]
      /\ DOMAIN ram = RamAddr /\ \A a \in RamAddr : ram[a] \in RamUnit
      /\ free \subseteq RamAddr /\ k \in Nat
      /\ status \in {0, -1} /\ rifs_info \in 0 .. RamSize
      /\ rifs2_info \in 0 .. RamSize /\ ifs2_paddr_dst \in 0 .. RamSize
  BY <1>0, Typed
<1>f. shdr' = shdr /\ opt' = opt /\ segs' = segs /\ InPlace' = InPlace
      /\ FirstFree' = FirstFree
  BY <1>0, Fixed
<1>1. TypeOK'
  <2>1. /\ image' \in [Unit -> {Ok, Junk}]
        /\ DOMAIN ram' = RamAddr /\ \A a \in RamAddr : ram'[a] \in RamUnit
        /\ free' \subseteq RamAddr /\ pc' \in Places /\ k' \in Nat
        /\ status' \in {0, -1} /\ rifs_info' \in 0 .. RamSize
        /\ rifs2_info' \in 0 .. RamSize /\ ifs2_paddr_dst' \in 0 .. RamSize
    BY <1>0, <1>t DEF Places
  <2> QED BY <1>0, <2>1, Types
<1>2. PlaceInv'
  BY <1>0 DEF PlaceInv
<1>3. ImageInv'
  BY <1>0 DEF ImageInv
<1>4. InfoInv'
  BY <1>0, <1>f DEF InfoInv, ValidInfo, RamAddr
<1>5. WholeInv'
  <2>1. k \in Nat \ {0}
    BY <1>0 DEF PlaceInv
  <2>2. \A e : ToDo(e, k) => ToDo(e, 1)
    BY <2>1 DEF ToDo
  <2>3. \A a \in RamAddr : ValidInfo(a) /\ ValidIfs /\ (~ hurt \/ (clean /\ opt.cksum))
          => ToDo(ram[a].elf, 1) /\ Holds(ram[a].elf)
    BY <1>0, <2>2 DEF WholeInv
  <2> QED BY <1>0, <1>f, <2>3
          DEF WholeInv, ValidInfo, ValidIfs, RamAddr, ToDo, Holds, Unit
<1>6. CleanInv'
  BY <1>0, <1>f DEF CleanInv, ValidInfo, ValidIfs, RamAddr
<1>7. Ifs2Inv'
  BY <1>0, <1>f DEF Ifs2Inv, Info2At, RamAddr, Zero
<1> QED BY <1>1, <1>2, <1>3, <1>4, <1>5, <1>6, <1>7 DEF IInv

\* RAM loses units while the board is off.
LEMMA PowerLossStep ==
  ASSUME IInv, PowerLoss \/ Decay
  PROVE  IInv'
<1>0. /\ TypeOK /\ PlaceInv /\ InfoInv /\ Ifs2Inv
      /\ pc = "off" /\ pc' = "off" /\ clean' = FALSE
      /\ UNCHANGED <<header, free, k, status, rifs_info, rifs2_info, ifs2_paddr_dst>>
  BY DEF IInv, PowerLoss, Decay, infoVars
<1>t. /\ image \in [Unit -> {Ok, Junk}]
      /\ DOMAIN ram = RamAddr /\ \A a \in RamAddr : ram[a] \in RamUnit
      /\ free \subseteq RamAddr /\ k \in Nat
      /\ status \in {0, -1} /\ rifs_info \in 0 .. RamSize
      /\ rifs2_info \in 0 .. RamSize /\ ifs2_paddr_dst \in 0 .. RamSize
  BY <1>0, Typed
<1>f. shdr' = shdr /\ opt' = opt /\ segs' = segs /\ InPlace' = InPlace
      /\ FirstFree' = FirstFree
  BY <1>0, Fixed
<1>r. /\ DOMAIN ram' = RamAddr
      /\ \A a \in RamAddr : ram'[a] = ram[a] \/ ram'[a] = Lost
  BY <1>t DEF PowerLoss, Decay, RamAddr
<1>h. hurt' \/ \A a \in RamAddr : ram'[a] = Lost
  BY DEF PowerLoss, Decay, RamAddr
<1>l. Lost \in RamUnit /\ Lost.kind # "info" /\ Lost # Zero
  BY RamUnits, Kinds
<1>1. TypeOK'
  <2>1. image' \in [Unit -> {Ok, Junk}]
    BY <1>t DEF PowerLoss, Decay
  <2>2. /\ DOMAIN ram' = RamAddr /\ \A a \in RamAddr : ram'[a] \in RamUnit
        /\ free' \subseteq RamAddr /\ pc' \in Places /\ k' \in Nat
        /\ status' \in {0, -1} /\ rifs_info' \in 0 .. RamSize
        /\ rifs2_info' \in 0 .. RamSize /\ ifs2_paddr_dst' \in 0 .. RamSize
    BY <1>0, <1>t, <1>r, <1>l DEF Places
  <2> QED BY <1>0, <2>1, <2>2, Types
<1>2. PlaceInv'
  BY <1>0 DEF PlaceInv
<1>3. ImageInv'
  BY <1>0 DEF ImageInv
<1>4. InfoInv'
  BY <1>0, <1>f, <1>r, <1>l DEF InfoInv, ValidInfo, RamAddr
<1>5. WholeInv'
  BY <1>0, <1>h, <1>l DEF WholeInv, ValidInfo, RamAddr
<1>6. CleanInv'
  BY <1>0 DEF CleanInv
<1>7. Ifs2Inv'
  BY <1>0, <1>f, <1>r, <1>l DEF Ifs2Inv, Info2At, RamAddr, Zero
<1> QED BY <1>1, <1>2, <1>3, <1>4, <1>5, <1>6, <1>7 DEF IInv

\* The running system writes to data that the information lists and to
\* memory that it does not.
LEMMA KernelStep ==
  ASSUME Supported, IInv, KernelWrite
  PROVE  IInv'
<1>0. /\ TypeOK /\ PlaceInv /\ ImageInv /\ InfoInv /\ WholeInv /\ CleanInv /\ Ifs2Inv
      /\ pc = "kernel" /\ pc' = "kernel"
      /\ UNCHANGED <<header, free, k, status, rifs_info, rifs2_info, ifs2_paddr_dst,
                     clean, hurt>>
  BY DEF IInv, KernelWrite, infoVars, envVars
<1>t. /\ image \in [Unit -> {Ok, Junk}] /\ segs \in Images
      /\ DOMAIN ram = RamAddr /\ \A a \in RamAddr : ram[a] \in RamUnit
      /\ free \subseteq RamAddr /\ k \in Nat
      /\ status \in {0, -1} /\ rifs_info \in 0 .. RamSize
      /\ rifs2_info \in 0 .. RamSize /\ ifs2_paddr_dst \in 0 .. RamSize
  BY <1>0, Typed
<1>f. shdr' = shdr /\ opt' = opt /\ segs' = segs /\ InPlace' = InPlace
      /\ FirstFree' = FirstFree
  BY <1>0, Fixed
<1>l. Lost \in RamUnit /\ Lost.kind # "info" /\ Lost # Zero
  BY RamUnits, Kinds
<1>i. /\ image' \in [Unit -> {Ok, Junk}]
      /\ \A u \in Unit : image'[u] = image[u] \/ u \in Writable
  BY <1>t DEF KernelWrite
<1>r. /\ DOMAIN ram' = RamAddr
      /\ \A a \in RamAddr : ram'[a] = ram[a] \/ (ram'[a] = Lost /\ a \in free)
  BY <1>t DEF KernelWrite
<1>w. \A u \in Writable : \E i \in 1 .. Len(segs) : u = RifsReadelf(i) /\ u # 1
  <2>1. segs \in Seq(Seq(2 .. ImgSize)) /\ \A i \in 1 .. Len(segs) : Len(segs[i]) <= 1
    BY <1>t, Sizes DEF Supported
  <2>2. ASSUME NEW u \in Writable
        PROVE  \E i \in 1 .. Len(segs) : u = RifsReadelf(i) /\ u # 1
    <3>0. PICK e \in DOMAIN segs : \E i \in DOMAIN segs[e] : segs[e][i] = u
      BY DEF Writable
    <3>1. PICK i : i \in DOMAIN segs[e] /\ segs[e][i] = u
      BY <3>0
    <3>2. e \in 1 .. Len(segs) /\ segs[e] \in Seq(2 .. ImgSize)
      BY <2>1, <3>1
    <3>3. i = 1 /\ u \in 2 .. ImgSize
      <4>1. segs[e] \in Seq(2 .. ImgSize)
        BY <3>2
      <4>2. /\ DOMAIN segs[e] = 1 .. Len(segs[e])
            /\ segs[e] \in [1 .. Len(segs[e]) -> 2 .. ImgSize]
        BY <4>1, LenProperties
      <4>3. i \in 1 .. Len(segs[e])
        BY <3>1, <4>2
      <4>4. segs[e][i] \in 2 .. ImgSize
        BY <4>2, <4>3, Zenon
      <4>5. Len(segs[e]) <= 1 /\ Len(segs[e]) \in Nat
        BY <2>1, <3>2
      <4> QED BY <3>1, <4>3, <4>4, <4>5
    <3> QED BY <3>1, <3>2, <3>3, Sizes DEF RifsReadelf
  <2> QED BY <2>2
<1>1. TypeOK'
  <2>2. /\ DOMAIN ram' = RamAddr /\ \A a \in RamAddr : ram'[a] \in RamUnit
        /\ free' \subseteq RamAddr /\ pc' \in Places /\ k' \in Nat
        /\ status' \in {0, -1} /\ rifs_info' \in 0 .. RamSize
        /\ rifs2_info' \in 0 .. RamSize /\ ifs2_paddr_dst' \in 0 .. RamSize
    BY <1>0, <1>t, <1>r, <1>l DEF Places
  <2> QED BY <1>0, <1>i, <2>2, Types
<1>2. PlaceInv'
  BY <1>0, <1>f DEF PlaceInv, RamAddr
<1>3. ImageInv'
  <2>1. image[1] = Ok /\ 1 \in Unit /\ 1 \notin Writable
    BY <1>0, <1>w, Sizes DEF ImageInv, Unit
  <2> QED BY <1>0, <1>i, <2>1 DEF ImageInv
<1>a. \A a \in RamAddr : ram'[a].kind = "info" => ram'[a] = ram[a]
  BY <1>r, <1>l
<1>b. opt.enable => 1 \in RamAddr /\ ram'[1] = ram[1]
  <2>1. opt.enable => 1 \in RamAddr /\ 1 \notin free
    BY <1>0 DEF PlaceInv
  <2> QED BY <1>r, <2>1
<1>4. InfoInv'
  <2>1. \A a \in RamAddr : ram'[a].kind = "info" =>
          /\ a = 1 /\ opt.enable
          /\ \A i \in 1 .. Len(ram'[a].elf) : ram'[a].elf[i].unit # 1
    BY <1>0, <1>a DEF InfoInv
  <2>2. opt.enable => ram[1].kind = "info" /\ ram[1].cksum /\ Lists(ram[1].elf, Len(segs))
    BY <1>0 DEF InfoInv, ValidInfo
  <2>3. opt.enable => Lists(ram[1].elf, Len(segs))'
    BY <1>0, <1>f, <1>b, <2>2 DEF Lists, RifsReadelf, RamAddr
  <2> QED BY <1>0, <1>f, <1>b, <2>1, <2>2, <2>3 DEF InfoInv, ValidInfo, RamAddr
<1>5. WholeInv'
  <2> SUFFICES ASSUME NEW a \in RamAddr, ValidInfo(a)', ValidIfs',
                      ~ hurt \/ (clean /\ opt.cksum)
               PROVE  ToDo(ram[a].elf, 1)' /\ Holds(ram[a].elf)' /\ ram'[a] = ram[a]
    BY <1>0, <1>f DEF WholeInv, ToDo, Holds, RamAddr, Unit
  <2>1. ram'[a] = ram[a] /\ ValidInfo(a)
    BY <1>a DEF ValidInfo
  <2>2. a = 1 /\ opt.enable /\ Lists(ram[a].elf, Len(segs)) /\ ValidIfs
    BY <1>0, <2>1 DEF InfoInv, ValidInfo, ImageInv, ValidIfs
  <2>3. ToDo(ram[a].elf, 1) /\ Holds(ram[a].elf)
    BY <1>0, <2>1, <2>2 DEF WholeInv
  <2>4. ToDo(ram[a].elf, 1)'
    <3>1. \A i \in 1 .. Len(segs) : ram[a].elf[i].unit = RifsReadelf(i)
      BY <2>2 DEF Lists
    <3>2. \A u \in Writable : \E i \in 1 .. Len(ram[a].elf) : ram[a].elf[i].unit = u
      BY <1>w, <2>2, <3>1 DEF Lists
    <3> QED BY <1>i, <2>1, <2>3, <3>2 DEF ToDo, Unit
  <2>5. Holds(ram[a].elf)'
    <3>1. \A i \in 1 .. Len(ram[a].elf) : shdr.comp =>
             ram[a].elf[i].data \in RamAddr /\ ram[a].elf[i].data \notin free
      BY <2>2 DEF Lists
    <3> QED BY <1>f, <1>r, <2>1, <2>3, <3>1 DEF Holds
  <2> QED BY <2>1, <2>4, <2>5
<1>6. CleanInv'
  <2>1. image'[1] = image[1]
    BY <1>i, <1>w, Sizes DEF Unit
  <2> QED BY <1>0, <1>f, <1>b, <2>1 DEF CleanInv, ValidInfo, ValidIfs, RamAddr
<1>7. Ifs2Inv'
  BY <1>0, <1>f, <1>r, <1>l DEF Ifs2Inv, Info2At, RamAddr, Zero
<1> QED BY <1>1, <1>2, <1>3, <1>4, <1>5, <1>6, <1>7 DEF IInv

-----------------------------------------------------------------------------
(* The steps of startup on the image.                                      *)

\* rifs_restore_ifs() tests signatures and checksum.
LEMMA RifsRestoreIfsStep ==
  ASSUME IInv, RifsRestoreIfs
  PROVE  IInv'
<1>0. /\ TypeOK /\ PlaceInv /\ ImageInv /\ InfoInv /\ WholeInv /\ CleanInv /\ Ifs2Inv
      /\ pc = "restore" /\ k = 1 /\ free = RamAddr
      /\ UNCHANGED <<header, image, ram, k, rifs2_info, ifs2_paddr_dst, clean, hurt>>
  BY DEF IInv, RifsRestoreIfs, PlaceInv, envVars
<1>t. /\ image \in [Unit -> {Ok, Junk}]
      /\ DOMAIN ram = RamAddr /\ \A a \in RamAddr : ram[a] \in RamUnit
      /\ free \subseteq RamAddr /\ k \in Nat
      /\ status \in {0, -1} /\ rifs_info \in 0 .. RamSize
      /\ rifs2_info \in 0 .. RamSize /\ ifs2_paddr_dst \in 0 .. RamSize
  BY <1>0, Typed
<1>f. shdr' = shdr /\ opt' = opt /\ segs' = segs /\ InPlace' = InPlace
      /\ FirstFree' = FirstFree
  BY <1>0, Fixed
<1>p. CASE opt.enable
  <2>1. PICK a \in FindRam(1) :
          /\ rifs_info' = a /\ free' = free \ {a}
          /\ IF ValidIfs /\ ValidInfo(a)
             THEN pc' = "copy" /\ UNCHANGED status
             ELSE pc' = "rifs_init" /\ status' = -1
    BY <1>p DEF RifsRestoreIfs
  <2>2. a = 1
    <3>1. free = 1 .. RamSize
      BY <1>0 DEF RamAddr
    <3> QED BY <2>1, <3>1, FindRamFirst
  <2>3. a \in RamAddr
    BY <1>0, <2>1 DEF FindRam
  <2>4. 1 \in RamAddr /\ rifs_info' = 1 /\ free' = 2 .. RamSize
    BY <1>0, <2>1, <2>2, <2>3 DEF RamAddr
  <2>5. IF ValidIfs /\ ValidInfo(1)
        THEN pc' = "copy" /\ status' = status ELSE pc' = "rifs_init" /\ status' = -1
    BY <2>1, <2>2
  <2>6. TypeOK'
    <3>1. 1 \in 0 .. RamSize /\ 2 .. RamSize \subseteq RamAddr
      BY <2>4 DEF RamAddr
    <3>2. /\ image' \in [Unit -> {Ok, Junk}]
          /\ DOMAIN ram' = RamAddr /\ \A b \in RamAddr : ram'[b] \in RamUnit
          /\ free' \subseteq RamAddr /\ pc' \in Places /\ k' \in Nat
          /\ status' \in {0, -1} /\ rifs_info' \in 0 .. RamSize
          /\ rifs2_info' \in 0 .. RamSize /\ ifs2_paddr_dst' \in 0 .. RamSize
      BY <1>0, <1>t, <2>4, <2>5, <3>1 DEF Places
    <3> QED BY <1>0, <3>2, Types
  <2>7. PlaceInv'
    BY <1>0, <1>f, <1>p, <2>4, <2>5 DEF PlaceInv, FirstFree, RamAddr
  <2>8. ImageInv'
    BY <1>0, <1>f, <2>5 DEF ImageInv, ValidIfs, Unit
  <2>9. InfoInv'
    BY <1>0, <1>f, <1>p, <2>5 DEF InfoInv, ValidInfo, RamAddr
  <2>10. WholeInv'
    BY <1>0, <1>f, <2>5 DEF WholeInv, ValidInfo, ValidIfs, RamAddr, ToDo, Holds, Unit
  <2>11. CleanInv'
    BY <1>0, <1>f, <2>5 DEF CleanInv, ValidInfo, ValidIfs
  <2>12. Ifs2Inv'
    BY <1>0, <1>f, <2>5 DEF Ifs2Inv, Info2At, RamAddr, Zero
  <2> QED BY <2>6, <2>7, <2>8, <2>9, <2>10, <2>11, <2>12 DEF IInv
<1>q. CASE ~ opt.enable
  <2>1. pc' = "load" /\ UNCHANGED <<rifs_info, free, status>>
    BY <1>q DEF RifsRestoreIfs
  <2>2. TypeOK'
    <3>2. /\ image' \in [Unit -> {Ok, Junk}]
          /\ DOMAIN ram' = RamAddr /\ \A b \in RamAddr : ram'[b] \in RamUnit
          /\ free' \subseteq RamAddr /\ pc' \in Places /\ k' \in Nat
          /\ status' \in {0, -1} /\ rifs_info' \in 0 .. RamSize
          /\ rifs2_info' \in 0 .. RamSize /\ ifs2_paddr_dst' \in 0 .. RamSize
      BY <1>0, <1>t, <2>1 DEF Places
    <3> QED BY <1>0, <3>2, Types
  <2>3. PlaceInv'
    BY <1>0, <1>f, <1>q, <2>1 DEF PlaceInv, FirstFree, RamAddr
  <2>4. ImageInv'
    BY <1>0, <1>f, <2>1 DEF ImageInv, Unit
  <2>5. InfoInv'
    BY <1>0, <1>f, <1>q, <2>1 DEF InfoInv, ValidInfo, RamAddr
  <2>6. WholeInv'
    BY <1>0, <1>f, <2>1 DEF WholeInv, ValidInfo, ValidIfs, RamAddr, ToDo, Holds, Unit
  <2>7. CleanInv'
    BY <1>f, <1>q DEF CleanInv
  <2>8. Ifs2Inv'
    BY <1>0, <1>f, <2>1 DEF Ifs2Inv, Info2At, RamAddr, Zero
  <2> QED BY <2>2, <2>3, <2>4, <2>5, <2>6, <2>7, <2>8 DEF IInv
<1> QED BY <1>p, <1>q

\* The data of one executable is put back.
LEMMA RestoreDataStep ==
  ASSUME Supported, IInv, RestoreData
  PROVE  IInv'
<1>0. /\ TypeOK /\ PlaceInv /\ ImageInv /\ InfoInv /\ WholeInv /\ CleanInv /\ Ifs2Inv
      /\ pc = "copy" /\ pc' = "copy" /\ k' = k + 1
      /\ UNCHANGED <<header, ram, free, status, rifs_info, rifs2_info,
                     ifs2_paddr_dst, clean, hurt>>
  BY DEF IInv, RestoreData, Goto, envVars, infoVars
<1>t. /\ image \in [Unit -> {Ok, Junk}] /\ shdr \in Headers /\ 1 \in Unit
      /\ DOMAIN ram = RamAddr /\ \A a \in RamAddr : ram[a] \in RamUnit
      /\ free \subseteq RamAddr /\ k \in Nat
      /\ status \in {0, -1} /\ rifs_info \in 0 .. RamSize
      /\ rifs2_info \in 0 .. RamSize /\ ifs2_paddr_dst \in 0 .. RamSize
  BY <1>0, Typed
<1>f. shdr' = shdr /\ opt' = opt /\ segs' = segs /\ InPlace' = InPlace
      /\ FirstFree' = FirstFree
  BY <1>0, Fixed
<1>a. /\ opt.enable /\ rifs_info = 1 /\ 1 \in RamAddr /\ ValidInfo(1) /\ image[1] = Ok
      /\ k \in Nat \ {0}
  BY <1>0 DEF PlaceInv, InfoInv, ImageInv
<1> DEFINE elf == ram[1].elf
           u == elf[k].unit
<1>b. /\ elf \in Seq(Elf) /\ k \in 1 .. Len(elf)
      /\ image' = [image EXCEPT ![u] =
           IF shdr.comp THEN IF ram[elf[k].data] = Saved(u) THEN Ok ELSE Junk
           ELSE SourceUnit(full_imagefs_paddr, u)]
  <2>1. ram[1].kind = "info"
    BY <1>a DEF ValidInfo
  <2>2. elf \in Seq(Elf) /\ Len(elf) \in Nat
    BY <1>0, <1>a, <2>1, InfoUnits
  <2>3. elfinfo = elf
    BY <1>a DEF elfinfo
  <2>4. k <= Len(elf)
    BY <2>3 DEF RestoreData
  <2> QED BY <1>a, <2>2, <2>3, <2>4 DEF RestoreData
<1>c. u \in Unit /\ u # 1
  <2>1. elf[k] \in Elf
    BY <1>b
  <2>2. u \in Unit
    BY <2>1 DEF Elf
  <2>3. ram[1].kind = "info"
    BY <1>a DEF ValidInfo
  <2> QED BY <1>0, <1>a, <1>b, <2>2, <2>3 DEF InfoInv
<1>d. ~ shdr.comp => SourceUnit(full_imagefs_paddr, u) = Ok
  <2>1. ~ shdr.comp => full_imagefs_paddr # 0
    BY <1>t, Sizes DEF Supported, full_imagefs_paddr
  <2>2. ~ shdr.comp /\ full_imagefs_paddr = ifs_paddr => image[u] = Ok
    BY <1>0, <1>c DEF ImageInv, InPlace
  <2> QED BY <2>1, <2>2 DEF SourceUnit
<1>e. /\ image' \in [Unit -> {Ok, Junk}]
      /\ \A v \in Unit : v # u => image'[v] = image[v]
      /\ image'[u] \in {Ok, Junk}
      /\ ~ shdr.comp \/ ram[elf[k].data] = Saved(u) => image'[u] = Ok
  BY <1>b, <1>c, <1>d, <1>t
<1>1. TypeOK'
  <2>1. /\ DOMAIN ram' = RamAddr /\ \A b \in RamAddr : ram'[b] \in RamUnit
        /\ free' \subseteq RamAddr /\ pc' \in Places /\ k' \in Nat
        /\ status' \in {0, -1} /\ rifs_info' \in 0 .. RamSize
        /\ rifs2_info' \in 0 .. RamSize /\ ifs2_paddr_dst' \in 0 .. RamSize
    BY <1>0, <1>t DEF Places
  <2> QED BY <1>0, <1>e, <2>1, Types
<1>2. PlaceInv'
  BY <1>0, <1>f, <1>a DEF PlaceInv, RamAddr
<1>3. ImageInv'
  BY <1>0, <1>f, <1>a, <1>c, <1>e, <1>t DEF ImageInv, Unit
<1>4. InfoInv'
  BY <1>0, <1>f DEF InfoInv, ValidInfo, RamAddr
<1>5. WholeInv'
  <2> SUFFICES ASSUME NEW a \in RamAddr, ValidInfo(a)', ValidIfs',
                      ~ hurt \/ (clean /\ opt.cksum)
               PROVE  ToDo(ram[a].elf, k)' /\ Holds(ram[a].elf)'
    BY <1>0, <1>f DEF WholeInv, RamAddr, ToDo
  <2>1. a = 1 /\ ValidInfo(a)
    BY <1>0 DEF InfoInv, ValidInfo
  <2>2. ToDo(elf, k) /\ Holds(elf)
    BY <1>0, <1>a, <2>1 DEF WholeInv, ValidIfs
  <2>3. image'[u] = Ok
    BY <1>b, <1>e, <2>2 DEF Holds
  <2>4. \A i \in k .. Len(elf) : i = k \/ i \in k + 1 .. Len(elf)
    BY <1>a
  <2>5. ASSUME NEW v \in Unit, image'[v] # Ok
        PROVE  \E i \in k + 1 .. Len(elf) : elf[i].unit = v
    <3>1. v # u /\ image[v] # Ok
      BY <1>e, <2>3, <2>5
    <3>2. PICK i \in k .. Len(elf) : elf[i].unit = v
      BY <2>2, <3>1 DEF ToDo
    <3> QED BY <2>4, <3>1, <3>2
  <2> QED BY <1>0, <1>f, <2>1, <2>2, <2>5 DEF ToDo, Holds, Unit
<1>6. CleanInv'
  BY <1>0 DEF CleanInv
<1>7. Ifs2Inv'
  BY <1>0, <1>f DEF Ifs2Inv, Info2At, RamAddr, Zero
<1> QED BY <1>1, <1>2, <1>3, <1>4, <1>5, <1>6, <1>7 DEF IInv

\* The checksum of the whole image, if it is asked for.
LEMMA CheckIfsStep ==
  ASSUME IInv, CheckIfs
  PROVE  IInv'
<1>0. /\ TypeOK /\ PlaceInv /\ ImageInv /\ InfoInv /\ WholeInv /\ CleanInv /\ Ifs2Inv
      /\ pc = "copy" /\ pc' = "rifs_init" /\ k > Len(elfinfo)
      /\ status' = IF opt.cksum /\ \E u \in Unit : image[u] # Ok THEN -1 ELSE 0
      /\ UNCHANGED <<header, image, ram, free, k, rifs_info, rifs2_info,
                     ifs2_paddr_dst, clean, hurt>>
  BY DEF IInv, CheckIfs, Goto, envVars, infoVars
<1>t. /\ image \in [Unit -> {Ok, Junk}]
      /\ DOMAIN ram = RamAddr /\ \A a \in RamAddr : ram[a] \in RamUnit
      /\ free \subseteq RamAddr /\ k \in Nat
      /\ rifs_info \in 0 .. RamSize
      /\ rifs2_info \in 0 .. RamSize /\ ifs2_paddr_dst \in 0 .. RamSize
  BY <1>0, Typed
<1>f. shdr' = shdr /\ opt' = opt /\ segs' = segs /\ InPlace' = InPlace
      /\ FirstFree' = FirstFree
  BY <1>0, Fixed
<1>a. /\ opt.enable /\ rifs_info = 1 /\ 1 \in RamAddr /\ ValidInfo(1) /\ image[1] = Ok
      /\ k \in Nat \ {0}
  BY <1>0 DEF PlaceInv, InfoInv, ImageInv
<1>b. elfinfo = ram[1].elf /\ Len(ram[1].elf) \in Nat
  <2>1. ram[1].kind = "info"
    BY <1>a DEF ValidInfo
  <2>2. Len(ram[1].elf) \in Nat
    BY <1>0, <1>a, <2>1, InfoUnits
  <2> QED BY <1>a, <2>2 DEF elfinfo
\* All that was to be put back has been.
<1>c. ~ hurt \/ (clean /\ opt.cksum) => \A u \in Unit : image[u] = Ok
  <2>1. ~ hurt \/ (clean /\ opt.cksum) => ToDo(ram[1].elf, k)
    BY <1>0, <1>a DEF WholeInv, ValidIfs
  <2> QED BY <1>0, <1>a, <1>b, <2>1 DEF ToDo
<1>1. TypeOK'
  <2>1. /\ image' \in [Unit -> {Ok, Junk}] /\ status' \in {0, -1}
        /\ DOMAIN ram' = RamAddr /\ \A b \in RamAddr : ram'[b] \in RamUnit
        /\ free' \subseteq RamAddr /\ pc' \in Places /\ k' \in Nat
        /\ rifs_info' \in 0 .. RamSize
        /\ rifs2_info' \in 0 .. RamSize /\ ifs2_paddr_dst' \in 0 .. RamSize
    BY <1>0, <1>t DEF Places
  <2> QED BY <1>0, <2>1, Types
<1>2. PlaceInv'
  BY <1>0, <1>f, <1>a DEF PlaceInv, RamAddr
<1>3. ImageInv'
  BY <1>0, <1>f, <1>a, <1>c DEF ImageInv, Checked, Unit
<1>4. InfoInv'
  BY <1>0, <1>f, <1>a DEF InfoInv, ValidInfo, RamAddr
<1>5. WholeInv'
  BY <1>0, <1>f, <1>c DEF WholeInv, ValidInfo, ValidIfs, RamAddr, ToDo, Holds, Unit
<1>6. CleanInv'
  BY <1>0, <1>f, <1>c DEF CleanInv
<1>7. Ifs2Inv'
  BY <1>0, <1>f DEF Ifs2Inv, Info2At, RamAddr, Zero
<1> QED BY <1>1, <1>2, <1>3, <1>4, <1>5, <1>6, <1>7 DEF IInv

\* rifs_init() spoils the checksum of what was saved.
LEMMA RifsInitStep ==
  ASSUME IInv, RifsInit
  PROVE  IInv'
<1>0. /\ TypeOK /\ PlaceInv /\ ImageInv /\ InfoInv /\ WholeInv /\ CleanInv /\ Ifs2Inv
      /\ pc = "rifs_init" /\ pc' = (IF status = 0 THEN "ifs2" ELSE "load") /\ k' = 1
      /\ UNCHANGED <<header, image, free, status, rifs_info, rifs2_info,
                     ifs2_paddr_dst, clean, hurt>>
  BY DEF IInv, RifsInit, Goto, envVars, infoVars
<1>t. /\ image \in [Unit -> {Ok, Junk}] /\ status \in {0, -1}
      /\ DOMAIN ram = RamAddr /\ \A a \in RamAddr : ram[a] \in RamUnit
      /\ free \subseteq RamAddr /\ rifs_info \in 0 .. RamSize
      /\ rifs2_info \in 0 .. RamSize /\ ifs2_paddr_dst \in 0 .. RamSize
  BY <1>0, Typed
<1>f. shdr' = shdr /\ opt' = opt /\ segs' = segs /\ InPlace' = InPlace
      /\ FirstFree' = FirstFree
  BY <1>0, Fixed
<1>a. opt.enable /\ rifs_info = 1 /\ 1 \in RamAddr
  BY <1>0 DEF PlaceInv, InfoInv
<1>i. /\ Info(<< >>, FALSE) \in RamUnit /\ Info(<< >>, FALSE) # Zero
      /\ Info(<< >>, FALSE).elf = << >> /\ Info(<< >>, FALSE).cksum = FALSE
  BY NoElfs, RamUnits, Kinds
<1>r. /\ ram'[1] = Info(<< >>, FALSE) /\ DOMAIN ram' = RamAddr
      /\ \A b \in RamAddr : b # 1 => ram'[b] = ram[b]
  BY <1>a, <1>t DEF RifsInit
<1>1. TypeOK'
  <2>1. /\ image' \in [Unit -> {Ok, Junk}] /\ status' \in {0, -1}
        /\ DOMAIN ram' = RamAddr /\ \A b \in RamAddr : ram'[b] \in RamUnit
        /\ free' \subseteq RamAddr /\ pc' \in Places /\ k' \in Nat
        /\ rifs_info' \in 0 .. RamSize
        /\ rifs2_info' \in 0 .. RamSize /\ ifs2_paddr_dst' \in 0 .. RamSize
    BY <1>0, <1>t, <1>i, <1>r DEF Places
  <2> QED BY <1>0, <2>1, Types
<1>2. PlaceInv'
  BY <1>0, <1>f, <1>a DEF PlaceInv, RamAddr
<1>3. ImageInv'
  <2>1. pc' = "ifs2" => status = 0
    BY <1>0
  <2> QED BY <1>0, <1>f, <2>1 DEF ImageInv, Checked, Unit
<1>4. InfoInv'
  <2>1. \A b \in RamAddr : ram'[b].kind = "info" => b = 1
    BY <1>0, <1>r DEF InfoInv
  <2>2. Len(ram'[1].elf) = 0
    BY <1>i, <1>r, NoElfs
  <2> QED BY <1>0, <1>f, <1>a, <1>i, <1>r, <2>1, <2>2 DEF InfoInv, ValidInfo, RamAddr, Info
<1>5. WholeInv'
  <2>1. \A b \in RamAddr : ~ ValidInfo(b)'
    BY <1>0, <1>i, <1>r DEF InfoInv, ValidInfo
  <2> QED BY <2>1 DEF WholeInv, RamAddr
<1>6. CleanInv'
  BY <1>0, <1>f DEF CleanInv
<1>7. Ifs2Inv'
  BY <1>0, <1>f, <1>i, <1>r DEF Ifs2Inv, Info2At, RamAddr, Zero
<1> QED BY <1>1, <1>2, <1>3, <1>4, <1>5, <1>6, <1>7 DEF IInv

\* Which way the image is loaded, and whether there is room for it.
LEMMA LoadIfsStep ==
  ASSUME Supported, IInv, LoadIfs \/ CheckRoom
  PROVE  IInv'
<1>0. /\ TypeOK /\ PlaceInv /\ ImageInv /\ InfoInv /\ WholeInv /\ CleanInv /\ Ifs2Inv
      /\ pc \in {"load", "room"} /\ k = 1
      /\ UNCHANGED <<header, image, ram, free, k, status, rifs_info, rifs2_info,
                     ifs2_paddr_dst, clean, hurt>>
  BY DEF IInv, LoadIfs, CheckRoom, Goto, envVars, infoVars, PlaceInv
<1>t. /\ image \in [Unit -> {Ok, Junk}] /\ status \in {0, -1}
      /\ DOMAIN ram = RamAddr /\ \A a \in RamAddr : ram[a] \in RamUnit
      /\ free \subseteq RamAddr /\ rifs_info \in 0 .. RamSize /\ 1 \in Unit
      /\ rifs2_info \in 0 .. RamSize /\ ifs2_paddr_dst \in 0 .. RamSize
      /\ shdr \in Headers
  BY <1>0, Typed
<1>f. shdr' = shdr /\ opt' = opt /\ segs' = segs /\ InPlace' = InPlace
      /\ FirstFree' = FirstFree
  BY <1>0, Fixed
\* What has to be copied or unpacked, and what is in place.
<1>p. \/ pc' = "crashed"
      \/ pc' \in {"temp", "room"} /\ shdr.comp
      \/ pc' = "fill" /\ (shdr.comp \/ ~ InPlace)
      \/ pc = "load" /\ pc' = "ifs2" /\ ~ shdr.comp /\ InPlace
  BY <1>0 DEF LoadIfs, CheckRoom, Goto, InPlace, PlaceInv
<1>1. TypeOK'
  <2>1. /\ image' \in [Unit -> {Ok, Junk}] /\ status' \in {0, -1}
        /\ DOMAIN ram' = RamAddr /\ \A b \in RamAddr : ram'[b] \in RamUnit
        /\ free' \subseteq RamAddr /\ pc' \in Places /\ k' \in Nat
        /\ rifs_info' \in 0 .. RamSize
        /\ rifs2_info' \in 0 .. RamSize /\ ifs2_paddr_dst' \in 0 .. RamSize
    BY <1>0, <1>t, <1>p DEF Places
  <2> QED BY <1>0, <2>1, Types
<1>2. PlaceInv'
  BY <1>0, <1>f, <1>p DEF PlaceInv, RamAddr
<1>3. ImageInv'
  BY <1>0, <1>f, <1>p, <1>t DEF ImageInv, Checked, Unit
<1>4. InfoInv'
  BY <1>0, <1>f, <1>p DEF InfoInv, ValidInfo, RamAddr, Info
<1>5. WholeInv'
  BY <1>0 DEF WholeInv, InfoInv, ValidInfo, RamAddr
<1>6. CleanInv'
  BY <1>0, <1>f, <1>p DEF CleanInv
<1>7. Ifs2Inv'
  BY <1>0, <1>f, <1>p DEF Ifs2Inv, Info2At, RamAddr, Zero
<1> QED BY <1>1, <1>2, <1>3, <1>4, <1>5, <1>6, <1>7 DEF IInv

\* The compressed image is copied out of the way.
LEMMA CopyAwayStep ==
  ASSUME IInv, CopyAway
  PROVE  IInv'
<1>0. /\ TypeOK /\ PlaceInv /\ ImageInv /\ InfoInv /\ WholeInv /\ CleanInv /\ Ifs2Inv
      /\ pc = "temp" /\ shdr.comp /\ free = FirstFree .. RamSize
      /\ UNCHANGED <<header, image, free, status, rifs_info, rifs2_info,
                     ifs2_paddr_dst, clean, hurt>>
  BY DEF IInv, CopyAway, Goto, envVars, infoVars, PlaceInv
<1>t. /\ image \in [Unit -> {Ok, Junk}] /\ status \in {0, -1}
      /\ DOMAIN ram = RamAddr /\ \A a \in RamAddr : ram[a] \in RamUnit
      /\ free \subseteq RamAddr /\ rifs_info \in 0 .. RamSize
      /\ rifs2_info \in 0 .. RamSize /\ ifs2_paddr_dst \in 0 .. RamSize
  BY <1>0, Typed
<1>f. shdr' = shdr /\ opt' = opt /\ segs' = segs /\ InPlace' = InPlace
      /\ FirstFree' = FirstFree
  BY <1>0, Fixed
<1>k. k \in Nat \ {0} /\ k' \in Nat \ {0} /\ pc' \in {"temp", "room"}
      /\ (pc' = "room" => k' = 1)
  BY <1>0 DEF PlaceInv, CopyAway, Goto
<1>l. Lost \in RamUnit /\ Lost.kind # "info" /\ Lost # Zero
  BY RamUnits, Kinds
<1>r. /\ DOMAIN ram' = RamAddr
      /\ \A b \in RamAddr : ram'[b] = ram[b] \/ (ram'[b] = Lost /\ (opt.enable => b # 1))
  <2>1. CASE UNCHANGED ram
    BY <1>t, <2>1
  <2>2. ASSUME NEW a \in FindRam(TempSize), ram' = [ram EXCEPT ![a + k - 1] = Lost]
        PROVE  /\ DOMAIN ram' = RamAddr
               /\ \A b \in RamAddr : \/ ram'[b] = ram[b]
                                     \/ ram'[b] = Lost /\ (opt.enable => b # 1)
    <3>1. a \in free
      BY <2>2 DEF FindRam
    <3>2. a \in Nat /\ (opt.enable => a >= 2)
      BY <1>0, <3>1, Sizes DEF FirstFree
    <3> QED BY <1>t, <1>k, <2>2, <3>2
  <2> QED BY <2>1, <2>2 DEF CopyAway
<1>1. TypeOK'
  <2>1. /\ image' \in [Unit -> {Ok, Junk}] /\ status' \in {0, -1}
        /\ DOMAIN ram' = RamAddr /\ \A b \in RamAddr : ram'[b] \in RamUnit
        /\ free' \subseteq RamAddr /\ pc' \in Places /\ k' \in Nat
        /\ rifs_info' \in 0 .. RamSize
        /\ rifs2_info' \in 0 .. RamSize /\ ifs2_paddr_dst' \in 0 .. RamSize
    BY <1>0, <1>t, <1>k, <1>l, <1>r DEF Places
  <2> QED BY <1>0, <2>1, Types
<1>2. PlaceInv'
  BY <1>0, <1>f, <1>k DEF PlaceInv, RamAddr
<1>3. ImageInv'
  BY <1>0, <1>f, <1>k DEF ImageInv
<1>4. InfoInv'
  <2>1. opt.enable => 1 \in RamAddr /\ ram'[1] = ram[1]
    BY <1>0, <1>r DEF PlaceInv
  <2> QED BY <1>0, <1>f, <1>k, <1>l, <1>r, <2>1 DEF InfoInv, ValidInfo, RamAddr, Info
<1>5. WholeInv'
  BY <1>0, <1>l, <1>r DEF WholeInv, InfoInv, ValidInfo, RamAddr
<1>6. CleanInv'
  BY <1>0, <1>f DEF CleanInv
<1>7. Ifs2Inv'
  BY <1>0, <1>f, <1>k, <1>l, <1>r DEF Ifs2Inv, Info2At, RamAddr, Zero
<1> QED BY <1>1, <1>2, <1>3, <1>4, <1>5, <1>6, <1>7 DEF IInv

\* The image is unpacked or copied, unit by unit.
LEMMA FillStep ==
  ASSUME Supported, IInv, Fill
  PROVE  IInv'
<1>0. /\ TypeOK /\ PlaceInv /\ ImageInv /\ InfoInv /\ WholeInv /\ CleanInv /\ Ifs2Inv
      /\ pc = "fill" /\ k \in Nat \ {0} /\ (shdr.comp \/ ~ InPlace)
      /\ UNCHANGED <<header, ram, free, status, rifs_info, rifs2_info,
                     ifs2_paddr_dst, clean, hurt>>
  BY DEF IInv, Fill, Goto, envVars, infoVars, PlaceInv
<1>t. /\ image \in [Unit -> {Ok, Junk}] /\ status \in {0, -1}
      /\ DOMAIN ram = RamAddr /\ \A a \in RamAddr : ram[a] \in RamUnit
      /\ free \subseteq RamAddr /\ rifs_info \in 0 .. RamSize /\ 1 \in Unit
      /\ rifs2_info \in 0 .. RamSize /\ ifs2_paddr_dst \in 0 .. RamSize
      /\ shdr \in Headers
  BY <1>0, Typed
<1>f. shdr' = shdr /\ opt' = opt /\ segs' = segs /\ InPlace' = InPlace
      /\ FirstFree' = FirstFree
  BY <1>0, Fixed
<1>s. ~ shdr.comp => SourceUnit(shdr.imagefs_paddr, k) = Ok
  <2>1. ~ shdr.comp => shdr.imagefs_paddr # 0 /\ full_imagefs_paddr = shdr.imagefs_paddr
    BY <1>t, Sizes DEF Supported, full_imagefs_paddr
  <2> QED BY <1>0, <2>1 DEF SourceUnit, InPlace
<1>p. \/ /\ pc' = "fill" /\ k' = k + 1 /\ k <= ImgSize
         /\ image' = [image EXCEPT ![k] = Ok]
      \/ pc' = "ifs2" /\ k' = 1 /\ k > ImgSize /\ image' = image
  BY <1>s DEF Fill, Goto
<1>i. image' \in [Unit -> {Ok, Junk}]
  BY <1>t, <1>p
<1>u. \A u \in Unit : u < k => image[u] = Ok
  BY <1>0 DEF ImageInv
<1>1. TypeOK'
  <2>1. /\ status' \in {0, -1}
        /\ DOMAIN ram' = RamAddr /\ \A b \in RamAddr : ram'[b] \in RamUnit
        /\ free' \subseteq RamAddr /\ pc' \in Places /\ k' \in Nat
        /\ rifs_info' \in 0 .. RamSize
        /\ rifs2_info' \in 0 .. RamSize /\ ifs2_paddr_dst' \in 0 .. RamSize
    BY <1>0, <1>t, <1>p DEF Places
  <2> QED BY <1>0, <1>i, <2>1, Types
<1>2. PlaceInv'
  BY <1>0, <1>f, <1>p DEF PlaceInv, RamAddr
<1>3. ImageInv'
  <2>1. pc' = "fill" => \A u \in Unit : u < k' => image'[u] = Ok
    <3>1. ASSUME pc' = "fill" PROVE \A u \in Unit : u < k' => image'[u] = Ok
      <4>1. k' = k + 1 /\ image' = [image EXCEPT ![k] = Ok] /\ k \in Unit
        BY <1>0, <1>p, <3>1, Sizes DEF Unit
      <4>2. \A u \in Unit : u < k + 1 => u = k \/ u < k
        BY <1>0, Sizes DEF Unit
      <4> QED BY <1>t, <1>u, <4>1, <4>2
    <3> QED BY <3>1
  <2>2. pc' = "ifs2" => \A u \in Unit : image'[u] = Ok
    BY <1>0, <1>p, <1>u, Sizes DEF Unit
  <2> QED BY <1>f, <1>p, <1>t, <2>1, <2>2 DEF ImageInv, Unit
<1>4. InfoInv'
  BY <1>0, <1>f, <1>p DEF InfoInv, ValidInfo, RamAddr, Info
<1>5. WholeInv'
  BY <1>0 DEF WholeInv, InfoInv, ValidInfo, RamAddr
<1>6. CleanInv'
  BY <1>0, <1>f, <1>p DEF CleanInv
<1>7. Ifs2Inv'
  BY <1>0, <1>f, <1>p DEF Ifs2Inv, Info2At, RamAddr, Zero
<1> QED BY <1>1, <1>2, <1>3, <1>4, <1>5, <1>6, <1>7 DEF IInv

-----------------------------------------------------------------------------
(* The steps of startup on the second image.                               *)

\* load_ifs2_nonbootable() finds a place for the second image.
LEMMA LoadIfs2NonbootableStep ==
  ASSUME Supported, IInv, LoadIfs2Nonbootable
  PROVE  IInv'
<1>0. /\ TypeOK /\ PlaceInv /\ ImageInv /\ InfoInv /\ WholeInv /\ CleanInv /\ Ifs2Inv
      /\ pc = "ifs2" /\ k' = 1 /\ free = FirstFree .. RamSize
      /\ UNCHANGED <<header, image, ram, status, rifs_info, rifs2_info, clean, hurt>>
  BY DEF IInv, LoadIfs2Nonbootable, envVars, PlaceInv
<1>t. /\ image \in [Unit -> {Ok, Junk}] /\ status \in {0, -1} /\ segs \in Images
      /\ DOMAIN ram = RamAddr /\ \A a \in RamAddr : ram[a] \in RamUnit
      /\ free \subseteq RamAddr /\ rifs_info \in 0 .. RamSize /\ opt \in Options
      /\ rifs2_info \in 0 .. RamSize /\ ifs2_paddr_dst \in 0 .. RamSize
  BY <1>0, Typed
<1>f. /\ shdr' = shdr /\ opt' = opt /\ segs' = segs /\ InPlace' = InPlace
      /\ FirstFree' = FirstFree /\ Source' = Source
  BY <1>0, Fixed
<1>n. FirstFree \in {1, 2} /\ (opt.enable => FirstFree = 2) /\ Ifs2Size \in Nat \ {0}
      /\ RamSize \in Nat
  BY Sizes DEF FirstFree
<1>a. opt.enable => 1 \in RamAddr /\ rifs_info = 1 /\ ram[1] = Info(<< >>, FALSE)
  BY <1>0 DEF PlaceInv, InfoInv
\* Where the second image goes.
<1>p. \/ ~ opt.ifs2 /\ pc' = "boot" /\ free' = free /\ ifs2_paddr_dst' = ifs2_paddr_dst
      \/ /\ opt.ifs2 /\ opt.dst2 /\ ~ opt.restore2 /\ pc' = "load2"
         /\ ifs2_paddr_dst' = Ifs2Dst /\ free' = free
      \/ /\ opt.ifs2 /\ ~ opt.dst2
         /\ pc' = IF opt.restore2 THEN "restore2" ELSE "load2"
         /\ ifs2_paddr_dst' = FirstFree /\ free' = FirstFree + Ifs2Size .. RamSize
         /\ Units(FirstFree, Ifs2Size) \subseteq free
  <2>1. CASE ~ opt.ifs2
    BY <2>1 DEF LoadIfs2Nonbootable
  <2>2. CASE opt.ifs2 /\ opt.dst2
    <3>1. ~ opt.restore2
      BY <1>t, <2>2 DEF Supported
    <3> QED BY <2>2, <3>1 DEF LoadIfs2Nonbootable
  <2>3. CASE opt.ifs2 /\ ~ opt.dst2
    <3>1. /\ pc' = IF opt.restore2 THEN "restore2" ELSE "load2"
          /\ ifs2_paddr_dst' \in FindRam(Ifs2Size)
          /\ free' = free \ Units(ifs2_paddr_dst', Ifs2Size)
      BY <2>3 DEF LoadIfs2Nonbootable
    <3>2. ifs2_paddr_dst' = FirstFree
      <4>1. FirstFree \in Nat \ {0} /\ Ifs2Size \in Nat \ {0}
        BY <1>n
      <4> QED BY <1>0, <3>1, <4>1, FindRamFirst
    <3>3. Units(FirstFree, Ifs2Size) \subseteq free
      BY <3>1, <3>2 DEF FindRam
    <3>4. free' = FirstFree + Ifs2Size .. RamSize
      BY <1>0, <1>n, <3>1, <3>2 DEF Units
    <3> QED BY <2>3, <3>1, <3>2, <3>3, <3>4
  <2> QED BY <2>1, <2>2, <2>3
<1>q. /\ free' \subseteq free /\ pc' \in {"boot", "load2", "restore2"}
      /\ ifs2_paddr_dst' \in 0 .. RamSize
      /\ opt.ifs2 => /\ Units(ifs2_paddr_dst', Ifs2Size) \subseteq RamAddr
                     /\ opt.enable => 1 \notin Units(ifs2_paddr_dst', Ifs2Size)
  <2>1. \A s \in Int : Units(s, Ifs2Size) \subseteq RamAddr => s \in 1 .. RamSize
    <3>1. ASSUME NEW s \in Int, Units(s, Ifs2Size) \subseteq RamAddr
          PROVE  s \in 1 .. RamSize
      <4>1. s \in Units(s, Ifs2Size)
        BY <1>n, <3>1 DEF Units
      <4> QED BY <3>1, <4>1 DEF RamAddr
    <3> QED BY <3>1
  <2>2. CASE ~ opt.ifs2
    BY <1>p, <1>t, <2>2
  <2>3. CASE opt.ifs2 /\ opt.dst2
    <3>1. Units(Ifs2Dst, Ifs2Size) \subseteq RamAddr /\ Ifs2Dst > 1 /\ Ifs2Dst \in Nat
      BY Sizes DEF Supported
    <3>2. Ifs2Dst \in Units(Ifs2Dst, Ifs2Size) /\ 1 \notin Units(Ifs2Dst, Ifs2Size)
      BY <1>n, <3>1 DEF Units
    <3>3. Ifs2Dst \in 0 .. RamSize
      BY <3>1, <3>2 DEF RamAddr
    <3> QED BY <1>p, <2>3, <3>1, <3>2, <3>3
  <2>4. CASE opt.ifs2 /\ ~ opt.dst2
    <3>1. /\ ifs2_paddr_dst' = FirstFree /\ free' = FirstFree + Ifs2Size .. RamSize
          /\ Units(FirstFree, Ifs2Size) \subseteq RamAddr
          /\ pc' \in {"boot", "load2", "restore2"}
      BY <1>p, <1>t, <2>4
    <3>2. FirstFree \in 1 .. RamSize
      BY <1>n, <2>1, <3>1
    <3>3. opt.enable => 1 \notin Units(FirstFree, Ifs2Size)
      BY <1>n DEF Units
    <3>4. free' \subseteq free
      BY <1>0, <1>n, <3>1
    <3> QED BY <3>1, <3>2, <3>3, <3>4
  <2> QED BY <2>2, <2>3, <2>4
<1>1. TypeOK'
  <2>1. /\ image' \in [Unit -> {Ok, Junk}] /\ status' \in {0, -1}
        /\ DOMAIN ram' = RamAddr /\ \A b \in RamAddr : ram'[b] \in RamUnit
        /\ free' \subseteq RamAddr /\ pc' \in Places /\ k' \in Nat
        /\ rifs_info' \in 0 .. RamSize
        /\ rifs2_info' \in 0 .. RamSize /\ ifs2_paddr_dst' \in 0 .. RamSize
    BY <1>0, <1>t, <1>q DEF Places
  <2> QED BY <1>0, <2>1, Types
<1>2. PlaceInv'
  BY <1>0, <1>f, <1>q DEF PlaceInv, RamAddr
<1>3. ImageInv'
  BY <1>0, <1>f, <1>q DEF ImageInv, Checked, Unit
<1>4. InfoInv'
  <2>1. opt.enable => /\ ram'[1].kind = "info" /\ Len(ram'[1].elf) = 0
    <3>1. /\ Info(<< >>, FALSE).kind = "info" /\ Info(<< >>, FALSE).elf = << >>
          /\ Len(<< >>) = 0
      BY Kinds, NoElfs
    <3> QED BY <1>0, <1>a, <3>1
  <2>2. opt.enable => Lists(ram[1].elf, 0)' /\ Holds(ram[1].elf)'
    BY <2>1 DEF Lists, Holds
  <2>3. Len(segs) \in Nat
    BY <1>t, Sizes
  <2>4. /\ \A a \in RamAddr : ram'[a].kind = "info" =>
             /\ a = 1 /\ opt'.enable
             /\ \A i \in 1 .. Len(ram'[a].elf) : ram'[a].elf[i].unit # 1
        /\ \A a \in RamAddr : ~ ValidInfo(a)'
    BY <1>0, <1>f DEF InfoInv, ValidInfo
  <2>5. pc' \in {"load2", "restore2"} /\ opt'.enable => ram'[1] = Info(<< >>, FALSE)
    BY <1>0, <1>f, <1>a
  <2>6. pc' \in {"boot", "save"} /\ opt'.enable =>
          /\ ram'[1].kind = "info" /\ Lists(ram[1].elf, k - 1)'
          /\ Checked' => Holds(ram[1].elf)'
    BY <1>0, <1>f, <2>1, <2>2
  <2>7. k' - 1 <= Len(segs')
    BY <1>0, <1>f, <2>3
  <2> QED BY <1>q, <2>4, <2>5, <2>6, <2>7 DEF InfoInv, RamAddr, Info
<1>5. WholeInv'
  BY <1>0 DEF WholeInv, InfoInv, ValidInfo, RamAddr
<1>6. CleanInv'
  BY <1>0, <1>f, <1>q DEF CleanInv
<1>7. Ifs2Inv'
  <2>1. /\ Info2At' = Info2At
        /\ opt.ifs2 /\ opt.restore2 /\ Info2At \in RamAddr => ram[Info2At] # Zero
    BY <1>0, <1>f DEF Ifs2Inv, Info2At
  <2>2. CASE ~ opt.ifs2
    BY <1>0, <1>f, <1>p, <2>1, <2>2 DEF Ifs2Inv, RamAddr, Zero
  <2>3. CASE opt.ifs2 /\ opt.dst2
    <3>1. /\ Place2' \subseteq RamAddr /\ (opt.enable => 1 \notin Place2')
          /\ pc' = "load2" /\ ~ opt.restore2
      BY <1>p, <1>q, <2>3 DEF Place2, Units
    <3> QED BY <1>0, <1>f, <2>1, <2>3, <3>1 DEF Ifs2Inv, RamAddr, Zero
  <2>4. CASE opt.ifs2 /\ ~ opt.dst2
    <3>1. /\ Place2' \subseteq RamAddr /\ (opt.enable => 1 \notin Place2')
          /\ pc' = (IF opt.restore2 THEN "restore2" ELSE "load2")
          /\ ifs2_paddr_dst' = FirstFree /\ free' = FirstFree + Ifs2Size .. RamSize
      BY <1>p, <1>q, <2>4 DEF Place2, Units
    <3>2. Place2' \cap free' = {}
      BY <1>n, <3>1 DEF Place2, Units
    <3>3. pc' = "load2" => ~ opt.restore2
      BY <3>1
    <3> QED BY <1>0, <1>f, <2>1, <2>4, <3>1, <3>2, <3>3 DEF Ifs2Inv, RamAddr, Zero
  <2> QED BY <2>2, <2>3, <2>4
<1> QED BY <1>1, <1>2, <1>3, <1>4, <1>5, <1>6, <1>7 DEF IInv

\* rifs_restore_ifs2() tests a checksum only.
LEMMA RifsRestoreIfs2Step ==
  ASSUME Supported, IInv, RifsRestoreIfs2
  PROVE  IInv'
<1>0. /\ TypeOK /\ PlaceInv /\ ImageInv /\ InfoInv /\ WholeInv /\ CleanInv /\ Ifs2Inv
      /\ pc = "restore2" /\ k = 1 /\ opt.ifs2 /\ opt.restore2
      /\ UNCHANGED <<header, image, ram, k, status, rifs_info, ifs2_paddr_dst,
                     clean, hurt>>
  BY DEF IInv, RifsRestoreIfs2, envVars, PlaceInv, Ifs2Inv
<1>t. /\ image \in [Unit -> {Ok, Junk}] /\ status \in {0, -1} /\ segs \in Images
      /\ DOMAIN ram = RamAddr /\ \A a \in RamAddr : ram[a] \in RamUnit
      /\ free \subseteq RamAddr /\ rifs_info \in 0 .. RamSize /\ opt \in Options
      /\ rifs2_info \in 0 .. RamSize /\ ifs2_paddr_dst \in 0 .. RamSize
  BY <1>0, Typed
<1>f. /\ shdr' = shdr /\ opt' = opt /\ segs' = segs /\ InPlace' = InPlace
      /\ FirstFree' = FirstFree /\ Source' = Source
  BY <1>0, Fixed
<1>n. FirstFree \in {1, 2} /\ (opt.enable => FirstFree = 2) /\ Ifs2Size \in Nat \ {0}
      /\ RamSize \in Nat
  BY Sizes DEF FirstFree
<1>a. opt.enable => 1 \in RamAddr /\ rifs_info = 1 /\ ram[1] = Info(<< >>, FALSE)
  BY <1>0 DEF PlaceInv, InfoInv
<1>b. /\ ~ opt.dst2 /\ ifs2_paddr_dst = FirstFree /\ Place2 \subseteq RamAddr
      /\ (opt.enable => 1 \notin Place2) /\ Place2 \cap free = {}
      /\ free = FirstFree + Ifs2Size .. RamSize
  <2>1. ~ opt.dst2
    BY <1>0, <1>t DEF Supported
  <2> QED BY <1>0, <2>1 DEF Ifs2Inv
<1>p. PICK a \in FindRam(1) :
        LET size == IF ram[a] = Info2 THEN Ifs2Size ELSE 0 IN
        /\ rifs2_info' = a /\ free' = free \ {a}
        /\ pc' = IF /\ ram[ifs2_paddr_dst] = Ifs2(1)
                    /\ Info2Sums(a)
                    /\ opt.cksum2 => Ifs2Sound(size)
                 THEN "boot" ELSE "load2"
  BY DEF RifsRestoreIfs2
<1>c. a = Info2At /\ a \in free
  <2>1. FirstFree + Ifs2Size \in Nat \ {0} /\ 1 \in Nat \ {0}
    BY <1>n
  <2>2. a = FirstFree + Ifs2Size
    BY <1>b, <1>p, <2>1, FindRamFirst
  <2> QED BY <1>p, <2>2 DEF Info2At, FindRam
<1>d. rifs2_info' = Info2At /\ Info2At \in RamAddr /\ free' = free \ {Info2At}
  BY <1>c, <1>p, <1>t
\* That information is not cleared memory: the size is the image's.
<1>e. /\ pc' \in {"boot", "load2"}
      /\ pc' = "boot" /\ opt.cksum2 =>
           \A n \in 1 .. Ifs2Size : ram[Ifs2At(n)] = Ifs2(n)
  <2>1. ram[a] # Zero
    BY <1>0, <1>c, <1>d DEF Ifs2Inv
  <2>2. Info2Sums(a) => ram[a] = Info2
    BY <2>1 DEF Info2Sums
  <2> QED BY <1>p, <2>2 DEF Ifs2Sound
<1>1. TypeOK'
  <2>1. /\ image' \in [Unit -> {Ok, Junk}] /\ status' \in {0, -1}
        /\ DOMAIN ram' = RamAddr /\ \A b \in RamAddr : ram'[b] \in RamUnit
        /\ free' \subseteq RamAddr /\ pc' \in Places /\ k' \in Nat
        /\ rifs_info' \in 0 .. RamSize
        /\ rifs2_info' \in 0 .. RamSize /\ ifs2_paddr_dst' \in 0 .. RamSize
    BY <1>0, <1>t, <1>d, <1>e DEF Places, RamAddr
  <2> QED BY <1>0, <2>1, Types
<1>2. PlaceInv'
  BY <1>0, <1>f, <1>d, <1>e DEF PlaceInv, RamAddr
<1>3. ImageInv'
  BY <1>0, <1>f, <1>e DEF ImageInv, Checked, Unit
<1>4. InfoInv'
  <2>1. opt.enable => /\ ram'[1].kind = "info" /\ Len(ram'[1].elf) = 0
    <3>1. /\ Info(<< >>, FALSE).kind = "info" /\ Info(<< >>, FALSE).elf = << >>
          /\ Len(<< >>) = 0
      BY Kinds, NoElfs
    <3> QED BY <1>0, <1>a, <3>1
  <2>2. opt.enable => Lists(ram[1].elf, 0)' /\ Holds(ram[1].elf)'
    BY <2>1 DEF Lists, Holds
  <2>3. Len(segs) \in Nat
    BY <1>t, Sizes
  <2>4. /\ \A b \in RamAddr : ram'[b].kind = "info" =>
             /\ b = 1 /\ opt'.enable
             /\ \A i \in 1 .. Len(ram'[b].elf) : ram'[b].elf[i].unit # 1
        /\ \A b \in RamAddr : ~ ValidInfo(b)'
    BY <1>0, <1>f DEF InfoInv, ValidInfo
  <2>5. opt'.enable => ram'[1] = Info(<< >>, FALSE)
    BY <1>0, <1>f, <1>a
  <2>6. opt'.enable => /\ ram'[1].kind = "info" /\ Lists(ram[1].elf, k - 1)'
                       /\ Checked' => Holds(ram[1].elf)'
    BY <1>0, <1>f, <2>1, <2>2
  <2>7. k' - 1 <= Len(segs')
    BY <1>0, <1>f, <2>3
  <2> QED BY <1>e, <2>4, <2>5, <2>6, <2>7 DEF InfoInv, RamAddr, Info
<1>5. WholeInv'
  BY <1>0 DEF WholeInv, InfoInv, ValidInfo, RamAddr
<1>6. CleanInv'
  BY <1>0, <1>f, <1>e DEF CleanInv
<1>7. Ifs2Inv'
  <2>1. /\ Info2At' = Info2At /\ Place2' = Place2 /\ Place2 \cap free' = {}
        /\ Info2At \in RamAddr => ram[Info2At] # Zero
        /\ \A n : Ifs2At(n)' = Ifs2At(n)
    BY <1>0, <1>f, <1>b, <1>d DEF Ifs2Inv, Info2At, Place2, Units, Ifs2At
  <2>2. CASE pc' = "boot"
    BY <1>0, <1>f, <1>b, <1>d, <1>e, <2>1, <2>2 DEF Ifs2Inv, RamAddr, Zero, Ifs2, Ifs2At
  <2>3. CASE pc' = "load2"
    BY <1>0, <1>f, <1>b, <1>d, <1>e, <2>1, <2>3 DEF Ifs2Inv, RamAddr, Zero
  <2> QED BY <1>e, <2>2, <2>3
<1> QED BY <1>1, <1>2, <1>3, <1>4, <1>5, <1>6, <1>7 DEF IInv

\* rifs_load_ifs2() copies the second image and describes it.
LEMMA RifsLoadIfs2Step ==
  ASSUME Supported, IInv, RifsLoadIfs2
  PROVE  IInv'
<1>0. /\ TypeOK /\ PlaceInv /\ ImageInv /\ InfoInv /\ WholeInv /\ CleanInv /\ Ifs2Inv
      /\ pc = "load2" /\ opt.ifs2 /\ k \in Nat \ {0}
      /\ free' = (IF opt.dst2 THEN free \ Place2 ELSE free)
      /\ UNCHANGED <<header, image, status, rifs_info, rifs2_info, ifs2_paddr_dst,
                     clean, hurt>>
  BY DEF IInv, RifsLoadIfs2, envVars, infoVars, Goto, PlaceInv, Ifs2Inv, Place2
<1>t. /\ image \in [Unit -> {Ok, Junk}] /\ status \in {0, -1} /\ segs \in Images
      /\ DOMAIN ram = RamAddr /\ \A a \in RamAddr : ram[a] \in RamUnit
      /\ free \subseteq RamAddr /\ rifs_info \in 0 .. RamSize /\ opt \in Options
      /\ rifs2_info \in 0 .. RamSize /\ ifs2_paddr_dst \in 0 .. RamSize
  BY <1>0, Typed
<1>f. /\ shdr' = shdr /\ opt' = opt /\ segs' = segs /\ InPlace' = InPlace
      /\ FirstFree' = FirstFree /\ Source' = Source /\ Info2At' = Info2At
  <2>1. UNCHANGED header
    BY <1>0
  <2>2. /\ shdr' = shdr /\ opt' = opt /\ segs' = segs /\ InPlace' = InPlace
        /\ FirstFree' = FirstFree /\ Source' = Source
    BY <2>1, Fixed
  <2> QED BY <2>2 DEF Info2At
<1>n. FirstFree \in {1, 2} /\ (opt.enable => FirstFree = 2) /\ Ifs2Size \in Nat \ {0}
      /\ RamSize \in Nat
  BY Sizes DEF FirstFree
<1>a. opt.enable => /\ 1 \in RamAddr /\ rifs_info = 1 /\ ram[1] = Info(<< >>, FALSE)
                    /\ 1 \notin free
  BY <1>0 DEF PlaceInv, InfoInv
<1>b. /\ Place2 \subseteq RamAddr /\ (opt.enable => 1 \notin Place2)
      /\ ~ opt.dst2 => ifs2_paddr_dst = FirstFree /\ Place2 \cap free = {}
      /\ opt.restore2 => /\ rifs2_info = Info2At /\ Info2At \in RamAddr \ free
                         /\ ram[Info2At] # Zero
  BY <1>0 DEF Ifs2Inv
<1>c. opt.restore2 => ~ opt.dst2
  BY <1>t DEF Supported
<1>d. opt.restore2 => Info2At \notin Place2 /\ Info2At # 1
  BY <1>b, <1>c, <1>n DEF Info2At, Place2, Units
<1>e. Place2' = Place2 /\ free' \subseteq free /\ Place2 \cap free' = {}
  BY <1>0, <1>b DEF Place2, Units
<1>g. \A n : Ifs2At(n)' = Ifs2At(n)
  BY <1>0 DEF Ifs2At
<1>l. \A n \in 1 .. Ifs2Size : Ifs2At(n) \in Place2 /\ (Ifs2At(n) = Ifs2At(k) => n = k)
  BY <1>0, <1>t, <1>n DEF Ifs2At, Place2, Units
<1>s. ASSUME NEW n \in 1 .. Ifs2Size
      PROVE  /\ Ifs2Source(n) \in RamUnit /\ Ifs2Source(n).kind # "info"
             /\ Ifs2Source(n) # Zero /\ (Source => Ifs2Source(n) = Ifs2(n))
  <2>1. Ifs2Source(n) \in {Ifs2(n), Lost} /\ (Source => Ifs2Source(n) = Ifs2(n))
    BY DEF Ifs2Source, Source
  <2>2. Ifs2(n) \in RamUnit /\ Lost \in RamUnit
    BY RamUnits
  <2> QED BY <2>1, <2>2, Kinds
<1>i. Info2 \in RamUnit /\ Info2.kind # "info" /\ Info2 # Zero
  BY RamUnits, Kinds
\* A unit of the image is written, or when there are no more the information.
<1>p. \/ /\ k \in 1 .. Ifs2Size /\ pc' = "load2" /\ k' = k + 1
         /\ ram' = [ram EXCEPT ![Ifs2At(k)] = Ifs2Source(k)]
      \/ /\ k > Ifs2Size /\ pc' = "boot" /\ k' = 1
         /\ ram' = IF opt.restore2 THEN [ram EXCEPT ![Info2At] = Info2] ELSE ram
  <2>1. CASE k <= Ifs2Size
    BY <1>0, <1>n, <2>1 DEF RifsLoadIfs2, Goto
  <2>2. CASE ~ (k <= Ifs2Size)
    BY <1>0, <1>b, <1>n, <2>2 DEF RifsLoadIfs2, Goto
  <2> QED BY <2>1, <2>2
<1>r. /\ DOMAIN ram' = RamAddr
      /\ \A b \in RamAddr : \/ ram'[b] = ram[b]
                            \/ /\ ram'[b] \in RamUnit /\ ram'[b].kind # "info"
                               /\ ram'[b] # Zero /\ (opt.enable => b # 1)
  <2>1. CASE /\ k \in 1 .. Ifs2Size
             /\ ram' = [ram EXCEPT ![Ifs2At(k)] = Ifs2Source(k)]
    <3>1. Ifs2At(k) \in Place2
      BY <1>l, <2>1
    <3> QED BY <1>b, <1>s, <1>t, <2>1, <3>1
  <2>2. CASE opt.restore2 /\ ram' = [ram EXCEPT ![Info2At] = Info2]
    BY <1>d, <1>i, <1>t, <2>2
  <2>3. CASE ram' = ram
    BY <1>t, <2>3
  <2> QED BY <1>p, <2>1, <2>2, <2>3
<1>1. TypeOK'
  <2>1. /\ image' \in [Unit -> {Ok, Junk}] /\ status' \in {0, -1}
        /\ DOMAIN ram' = RamAddr /\ \A b \in RamAddr : ram'[b] \in RamUnit
        /\ free' \subseteq RamAddr /\ pc' \in Places /\ k' \in Nat
        /\ rifs_info' \in 0 .. RamSize
        /\ rifs2_info' \in 0 .. RamSize /\ ifs2_paddr_dst' \in 0 .. RamSize
    BY <1>0, <1>t, <1>e, <1>p, <1>r DEF Places
  <2> QED BY <1>0, <2>1, Types
<1>2. PlaceInv'
  BY <1>0, <1>a, <1>e, <1>f, <1>p DEF PlaceInv, RamAddr
<1>3. ImageInv'
  BY <1>0, <1>f, <1>p DEF ImageInv, Checked, Unit
<1>4. InfoInv'
  <2>0. opt.enable => ram'[1] = Info(<< >>, FALSE)
    BY <1>a, <1>r
  <2>1. opt.enable => /\ ram'[1].kind = "info" /\ Len(ram'[1].elf) = 0
    <3>1. /\ Info(<< >>, FALSE).kind = "info" /\ Info(<< >>, FALSE).elf = << >>
          /\ Len(<< >>) = 0
      BY Kinds, NoElfs
    <3> QED BY <2>0, <3>1
  <2>2. opt.enable => Lists(ram[1].elf, 0)' /\ Holds(ram[1].elf)'
    BY <2>1 DEF Lists, Holds
  <2>3. Len(segs) \in Nat
    BY <1>t, Sizes
  <2>4. /\ \A b \in RamAddr : ram'[b].kind = "info" =>
             /\ b = 1 /\ opt'.enable
             /\ \A i \in 1 .. Len(ram'[b].elf) : ram'[b].elf[i].unit # 1
        /\ \A b \in RamAddr : ~ ValidInfo(b)'
    BY <1>0, <1>f, <1>r DEF InfoInv, ValidInfo
  <2>5. opt'.enable => ram'[1] = Info(<< >>, FALSE)
    BY <1>f, <2>0
  <2>6. pc' = "boot" /\ opt'.enable =>
          /\ ram'[1].kind = "info" /\ Lists(ram[1].elf, k - 1)'
          /\ Checked' => Holds(ram[1].elf)'
    BY <1>f, <1>p, <2>1, <2>2
  <2>7. pc' = "boot" => k' - 1 <= Len(segs')
    BY <1>f, <1>p, <2>3
  <2>8. pc' \in {"load2", "boot"}
    BY <1>p
  <2> QED BY <2>4, <2>5, <2>6, <2>7, <2>8 DEF InfoInv, RamAddr, Info
<1>5. WholeInv'
  BY <1>0, <1>r DEF WholeInv, InfoInv, ValidInfo, RamAddr
<1>6. CleanInv'
  BY <1>0, <1>f, <1>p DEF CleanInv
<1>7. Ifs2Inv'
  <2>1. opt.ifs2 /\ opt.restore2 /\ Info2At \in RamAddr => ram'[Info2At] # Zero
    BY <1>b, <1>r
  <2>2. /\ Place2' \subseteq RamAddr /\ (opt.enable => 1 \notin Place2')
        /\ ~ opt.dst2 => ifs2_paddr_dst' = FirstFree /\ Place2' \cap free' = {}
        /\ opt.restore2 => rifs2_info' = Info2At /\ Info2At \in RamAddr \ free'
    BY <1>0, <1>b, <1>e
  <2>3. \A n \in 1 .. Ifs2Size : n < k /\ Source => ram[Ifs2At(n)] = Ifs2(n)
    BY <1>0 DEF Ifs2Inv
  <2>4. CASE pc' = "load2"
    <3>1. /\ k \in 1 .. Ifs2Size /\ k' = k + 1
          /\ ram' = [ram EXCEPT ![Ifs2At(k)] = Ifs2Source(k)]
      BY <1>p, <2>4
    <3>2. ASSUME NEW n \in 1 .. Ifs2Size, n < k', Source
          PROVE  ram'[Ifs2At(n)] = Ifs2(n)
      <4>1. Ifs2At(n) \in DOMAIN ram
        BY <1>b, <1>l, <1>t
      <4>2. CASE n = k
        BY <1>s, <3>1, <3>2, <4>1, <4>2
      <4>3. CASE n # k
        <5>1. n < k
          BY <3>1, <3>2, <4>3
        <5>2. Ifs2At(n) # Ifs2At(k)
          BY <1>l, <4>3
        <5> QED BY <2>3, <3>1, <3>2, <4>1, <5>1, <5>2
      <4> QED BY <4>2, <4>3
    <3>3. \A n \in 1 .. Ifs2Size : n < k' /\ Source' => ram'[Ifs2At(n)'] = Ifs2(n)
      BY <1>f, <1>g, <3>2
    <3> QED BY <1>0, <1>f, <2>1, <2>2, <2>4, <3>3 DEF Ifs2Inv, RamAddr, Zero, Ifs2
  <2>5. CASE pc' = "boot"
    <3>1. /\ k > Ifs2Size
          /\ ram' = IF opt.restore2 THEN [ram EXCEPT ![Info2At] = Info2] ELSE ram
      BY <1>p, <2>5
    <3>2. ASSUME NEW n \in 1 .. Ifs2Size, Source
          PROVE  ram'[Ifs2At(n)] = Ifs2(n)
      <4>1. n < k
        BY <1>0, <1>n, <3>1
      <4>2. ram'[Ifs2At(n)] = ram[Ifs2At(n)]
        BY <1>d, <1>l, <3>1
      <4> QED BY <2>3, <3>2, <4>1, <4>2
    <3>3. Source' => \A n \in 1 .. Ifs2Size : ram'[Ifs2At(n)'] = Ifs2(n)
      BY <1>f, <1>g, <3>2
    <3>4. Place2' \cap free' = {}
      BY <1>e
    <3> QED BY <1>0, <1>f, <2>1, <2>2, <2>5, <3>3, <3>4
            DEF Ifs2Inv, RamAddr, Zero, Ifs2
  <2> QED BY <1>p, <2>4, <2>5
<1> QED BY <1>1, <1>2, <1>3, <1>4, <1>5, <1>6, <1>7 DEF IInv

-----------------------------------------------------------------------------
(* The steps of startup on the executables.                                *)

\* load_elf() takes memory for an executable's bss.
LEMMA LoadElfStep ==
  ASSUME IInv, LoadElf
  PROVE  IInv'
<1>0. /\ TypeOK /\ PlaceInv /\ ImageInv /\ InfoInv /\ WholeInv /\ CleanInv /\ Ifs2Inv
      /\ pc = "boot" /\ pc' = "save" /\ k \in Nat \ {0} /\ k <= Len(segs)
      /\ UNCHANGED <<header, image, k, status, rifs_info, rifs2_info,
                     ifs2_paddr_dst, clean, hurt>>
  BY DEF IInv, LoadElf, envVars, infoVars, Goto, PlaceInv
<1>t. /\ image \in [Unit -> {Ok, Junk}] /\ status \in {0, -1}
      /\ DOMAIN ram = RamAddr /\ \A a \in RamAddr : ram[a] \in RamUnit
      /\ free \subseteq RamAddr /\ rifs_info \in 0 .. RamSize
      /\ rifs2_info \in 0 .. RamSize /\ ifs2_paddr_dst \in 0 .. RamSize
  BY <1>0, Typed
<1>f. /\ shdr' = shdr /\ opt' = opt /\ segs' = segs /\ InPlace' = InPlace
      /\ FirstFree' = FirstFree /\ Source' = Source /\ full_imagefs_paddr' = full_imagefs_paddr
  BY <1>0, Fixed
<1>g. /\ Info2At' = Info2At /\ Place2' = Place2 /\ \A n : Ifs2At(n)' = Ifs2At(n)
  BY <1>0, <1>f DEF Info2At, Place2, Ifs2At, Units
<1>z. Zero \in RamUnit /\ Zero.kind # "info"
  BY RamUnits, Kinds
<1>r. /\ DOMAIN ram' = RamAddr /\ free' \subseteq free
      /\ \A b \in RamAddr : ram'[b] = ram[b] \/ (ram'[b] = Zero /\ b \in free)
  <2>1. PICK a \in FindRam(BssSize) :
          /\ free' = free \ Units(a, BssSize)
          /\ ram' = [b \in DOMAIN ram |->
                       IF b \in Units(a, BssSize) THEN Zero ELSE ram[b]]
    BY DEF LoadElf
  <2>2. Units(a, BssSize) \subseteq free
    BY <2>1 DEF FindRam
  <2> QED BY <1>t, <2>1, <2>2
<1>k. \A b \in RamAddr \ free : ram'[b] = ram[b]
  BY <1>r
<1>a. opt.enable => /\ 1 \in RamAddr /\ 1 \notin free /\ ram'[1] = ram[1]
                    /\ ram[1].kind = "info" /\ Lists(ram[1].elf, k - 1)
                    /\ Checked => Holds(ram[1].elf)
  BY <1>0, <1>k DEF PlaceInv, InfoInv
<1>1. TypeOK'
  <2>1. /\ image' \in [Unit -> {Ok, Junk}] /\ status' \in {0, -1}
        /\ DOMAIN ram' = RamAddr /\ \A b \in RamAddr : ram'[b] \in RamUnit
        /\ free' \subseteq RamAddr /\ pc' \in Places /\ k' \in Nat
        /\ rifs_info' \in 0 .. RamSize
        /\ rifs2_info' \in 0 .. RamSize /\ ifs2_paddr_dst' \in 0 .. RamSize
    BY <1>0, <1>t, <1>r, <1>z DEF Places
  <2> QED BY <1>0, <2>1, Types
<1>2. PlaceInv'
  BY <1>0, <1>f, <1>r DEF PlaceInv, RamAddr
<1>3. ImageInv'
  BY <1>0, <1>f DEF ImageInv, Checked, Unit
<1>4. InfoInv'
  <2>1. opt.enable => Lists(ram[1].elf, k - 1)'
    BY <1>0, <1>a, <1>f, <1>r DEF Lists, RifsReadelf, RamAddr
  <2>2. opt.enable /\ Checked => Holds(ram[1].elf)'
    <3>1. ASSUME opt.enable, Checked, shdr.comp, NEW i \in 1 .. Len(ram[1].elf)
          PROVE  ram'[ram[1].elf[i].data] = Saved(ram[1].elf[i].unit)
      <4>1. ram[1].elf[i].data \in RamAddr \ free
        BY <1>a, <3>1 DEF Lists
      <4>2. ram[ram[1].elf[i].data] = Saved(ram[1].elf[i].unit)
        BY <1>a, <3>1 DEF Holds
      <4> QED BY <1>k, <4>1, <4>2
    <3> QED BY <1>a, <1>f, <3>1 DEF Holds
  <2>3. /\ \A b \in RamAddr : ram'[b].kind = "info" =>
             /\ b = 1 /\ opt'.enable
             /\ \A i \in 1 .. Len(ram'[b].elf) : ram'[b].elf[i].unit # 1
        /\ \A b \in RamAddr : ~ ValidInfo(b)'
    BY <1>0, <1>f, <1>r, <1>z DEF InfoInv, ValidInfo
  <2>4. /\ opt'.enable => /\ ram'[1].kind = "info" /\ Lists(ram[1].elf, k - 1)'
                          /\ Checked' => Holds(ram[1].elf)'
        /\ k' - 1 <= Len(segs') /\ k' <= Len(segs')
    BY <1>0, <1>a, <1>f, <2>1, <2>2 DEF Checked, InfoInv
  <2> QED BY <1>0, <2>3, <2>4 DEF InfoInv, RamAddr
<1>5. WholeInv'
  BY <1>0, <1>r, <1>z DEF WholeInv, InfoInv, ValidInfo, RamAddr
<1>6. CleanInv'
  BY <1>0, <1>f DEF CleanInv
<1>7. Ifs2Inv'
  <2>1. opt.ifs2 => /\ Place2 \subseteq RamAddr /\ (opt.enable => 1 \notin Place2)
                    /\ ~ opt.dst2 => ifs2_paddr_dst = FirstFree
                    /\ Place2 \cap free = {}
                    /\ opt.restore2 => rifs2_info = Info2At /\ Info2At \in RamAddr \ free
    BY <1>0 DEF Ifs2Inv
  <2>2. opt.ifs2 /\ opt.restore2 => ram'[Info2At] # Zero
    <3>1. opt.ifs2 /\ opt.restore2 /\ Info2At \in RamAddr => ram[Info2At] # Zero
      BY <1>0 DEF Ifs2Inv
    <3> QED BY <1>k, <2>1, <3>1
  <2>3. ASSUME opt.ifs2, Source, opt.cksum2 \/ ~ opt.restore2, NEW n \in 1 .. Ifs2Size
        PROVE  ram'[Ifs2At(n)] = Ifs2(n)
    <3>1. ram[Ifs2At(n)] = Ifs2(n)
      BY <1>0, <2>3 DEF Ifs2Inv
    <3>2. Ifs2At(n) \in Place2
      BY <1>t, Sizes DEF Ifs2At, Place2, Units
    <3> QED BY <1>k, <2>1, <2>3, <3>1, <3>2
  <2>4. opt'.ifs2 => /\ Place2' \cap free' = {}
                     /\ Source' /\ (opt'.cksum2 \/ ~ opt'.restore2) =>
                          \A n \in 1 .. Ifs2Size : ram'[Ifs2At(n)'] = Ifs2(n)
    BY <1>f, <1>g, <1>r, <2>1, <2>3
  <2>5. /\ Info2At' = Info2At /\ RamAddr' = RamAddr
        /\ opt'.ifs2 => /\ Place2' \subseteq RamAddr /\ (opt'.enable => 1 \notin Place2')
                        /\ ~ opt'.dst2 => ifs2_paddr_dst' = FirstFree'
                        /\ opt'.restore2 => /\ rifs2_info' = Info2At
                                            /\ Info2At \in RamAddr \ free'
    BY <1>0, <1>f, <1>g, <1>r, <2>1 DEF RamAddr
  <2> QED BY <1>0, <1>f, <2>2, <2>4, <2>5 DEF Ifs2Inv, Zero, Ifs2
<1> QED BY <1>1, <1>2, <1>3, <1>4, <1>5, <1>6, <1>7 DEF IInv

\* A sequence that is not empty has a first element.
LEMMA FirstOf ==
  ASSUME NEW S, NEW s \in Seq(S), s # << >>
  PROVE  s[1] \in S
<1>1. Len(s) \in Nat /\ s \in [1 .. Len(s) -> S] /\ Len(s) # 0
  BY EmptySeq, LenProperties
<1> QED BY <1>1

\* Entries of the information are units of the image.
LEMMA Entries ==
  ASSUME segs \in Images, NEW i \in 1 .. Len(segs), segs[i] # << >>
  PROVE  RifsReadelf(i) \in Unit /\ RifsReadelf(i) # 1
<1>1. segs \in Seq(Seq(2 .. ImgSize))
  BY Sizes
<1>2. segs[i] \in Seq(2 .. ImgSize)
  BY <1>1
<1>3. segs[i][1] \in 2 .. ImgSize
  BY <1>2, FirstOf
<1> QED BY <1>3, Sizes DEF RifsReadelf, Unit

\* rifs_set_cksum() marks what was saved as valid.
LEMMA RifsSetCksumStep ==
  ASSUME IInv, RifsSetCksum
  PROVE  IInv'
<1>0. /\ TypeOK /\ PlaceInv /\ ImageInv /\ InfoInv /\ WholeInv /\ CleanInv /\ Ifs2Inv
      /\ pc = "boot" /\ pc' = "kernel" /\ k \in Nat \ {0} /\ k > Len(segs) /\ clean' = TRUE
      /\ UNCHANGED <<header, image, free, k, status, rifs_info, rifs2_info,
                     ifs2_paddr_dst, hurt>>
  BY DEF IInv, RifsSetCksum, infoVars, Goto, PlaceInv
<1>t. /\ image \in [Unit -> {Ok, Junk}] /\ status \in {0, -1} /\ segs \in Images
      /\ DOMAIN ram = RamAddr /\ \A a \in RamAddr : ram[a] \in RamUnit
      /\ free \subseteq RamAddr /\ rifs_info \in 0 .. RamSize
      /\ rifs2_info \in 0 .. RamSize /\ ifs2_paddr_dst \in 0 .. RamSize
  BY <1>0, Typed
<1>f. /\ shdr' = shdr /\ opt' = opt /\ segs' = segs /\ InPlace' = InPlace
      /\ FirstFree' = FirstFree
  BY <1>0, Fixed
<1>k. k - 1 = Len(segs)
  <2>1. Len(segs) \in Nat
    BY <1>t, Sizes
  <2>2. k - 1 <= Len(segs)
    BY <1>0 DEF InfoInv
  <2> QED BY <1>0, <2>1, <2>2
<1>a. opt.enable => /\ 1 \in RamAddr /\ 1 \notin free /\ rifs_info = 1
                    /\ ram[1].kind = "info" /\ Lists(ram[1].elf, Len(segs))
                    /\ Checked => Holds(ram[1].elf)
  BY <1>0, <1>k DEF PlaceInv, InfoInv
<1> DEFINE info == Info(ram[1].elf, TRUE)
<1>i. /\ info.kind = "info" /\ info.elf = ram[1].elf /\ info.cksum = TRUE /\ info # Zero
      /\ opt.enable => info \in RamUnit
  <2>1. opt.enable => ram[1].elf \in Elfs
    BY <1>0, <1>a, InfoUnits
  <2>2. opt.enable => info \in RamUnit
    BY <2>1, RamUnits
  <2>3. info.kind = "info" /\ info.elf = ram[1].elf /\ info.cksum = TRUE /\ info # Zero
    BY Kinds
  <2> QED BY <2>2, <2>3
<1>r. /\ DOMAIN ram' = RamAddr
      /\ opt.enable => /\ ram'[1] = info
                       /\ \A b \in RamAddr : b # 1 => ram'[b] = ram[b]
      /\ ~ opt.enable => ram' = ram
  <2>1. opt.enable => ram' = [ram EXCEPT ![1] = info]
    BY <1>a DEF RifsSetCksum, elfinfo
  <2>2. ~ opt.enable => ram' = ram
    BY DEF RifsSetCksum
  <2> QED BY <1>a, <1>t, <2>1, <2>2
<1>1. TypeOK'
  <2>1. /\ image' \in [Unit -> {Ok, Junk}] /\ status' \in {0, -1}
        /\ DOMAIN ram' = RamAddr /\ \A b \in RamAddr : ram'[b] \in RamUnit
        /\ free' \subseteq RamAddr /\ pc' \in Places /\ k' \in Nat
        /\ rifs_info' \in 0 .. RamSize
        /\ rifs2_info' \in 0 .. RamSize /\ ifs2_paddr_dst' \in 0 .. RamSize
    BY <1>0, <1>t, <1>i, <1>r DEF Places
  <2> QED BY <1>0, <2>1, Types
<1>2. PlaceInv'
  BY <1>0, <1>f DEF PlaceInv, RamAddr
<1>3. ImageInv'
  BY <1>0, <1>f DEF ImageInv
<1>b. \A b \in RamAddr : ValidInfo(b)' => b = 1 /\ opt.enable
  BY <1>0, <1>i, <1>r DEF InfoInv, ValidInfo
<1>4. InfoInv'
  <2>1. \A b \in RamAddr : ram'[b].kind = "info" =>
          /\ b = 1 /\ opt.enable
          /\ \A i \in 1 .. Len(ram'[b].elf) : ram'[b].elf[i].unit # 1
    <3>1. \A b \in RamAddr : ram[b].kind = "info" =>
            /\ b = 1 /\ opt.enable
            /\ \A i \in 1 .. Len(ram[b].elf) : ram[b].elf[i].unit # 1
      BY <1>0 DEF InfoInv
    <3>2. \A b \in RamAddr : ram'[b].kind = "info" =>
            ram[b].kind = "info" /\ ram'[b].elf = ram[b].elf
      <4>1. CASE opt.enable
        <5>1. ram'[1].elf = ram[1].elf /\ ram[1].kind = "info"
          BY <1>a, <1>i, <1>r, <4>1
        <5>2. \A b \in RamAddr : b # 1 => ram'[b] = ram[b]
          BY <1>r, <4>1
        <5> QED BY <5>1, <5>2
      <4>2. CASE ~ opt.enable
        BY <1>r, <4>2
      <4> QED BY <4>1, <4>2
    <3> HIDE DEF info
    <3> QED BY <3>1, <3>2
  <2>2. opt.enable => ValidInfo(1)' /\ Lists(ram[1].elf, Len(segs))'
    BY <1>0, <1>a, <1>f, <1>i, <1>r DEF ValidInfo, Lists, RifsReadelf, RamAddr
  <2> QED BY <1>0, <1>f, <2>1, <2>2 DEF InfoInv, ValidInfo, RamAddr
<1>5. WholeInv'
  <2>1. image[1] = Ok /\ (Checked => \A u \in Unit : image[u] = Ok)
    BY <1>0 DEF ImageInv
  <2>2. opt.enable /\ Checked => Holds(ram[1].elf)'
    <3>1. ASSUME opt.enable, Checked, shdr.comp, NEW i \in 1 .. Len(ram[1].elf)
          PROVE  ram'[ram[1].elf[i].data] = Saved(ram[1].elf[i].unit)
      <4>1. ram[1].elf[i].data \in RamAddr /\ ram[1].elf[i].data # 1
        BY <1>a, <3>1 DEF Lists
      <4>2. ram[ram[1].elf[i].data] = Saved(ram[1].elf[i].unit)
        BY <1>a, <3>1 DEF Holds
      <4> QED BY <1>r, <3>1, <4>1, <4>2
    <3>2. opt.enable => ram'[1].elf = ram[1].elf
      BY <1>i, <1>r
    <3> QED BY <1>f, <3>1, <3>2 DEF Holds
  <2>3. ASSUME NEW b \in RamAddr, ValidInfo(b)', ~ hurt' \/ opt'.cksum
        PROVE  ToDo(ram[b].elf, 1)' /\ Holds(ram[b].elf)'
    <3>1. b = 1 /\ opt.enable /\ Checked
      BY <1>0, <1>b, <1>f, <2>3 DEF Checked
    <3> QED BY <1>0, <2>1, <2>2, <3>1 DEF ToDo, Unit
  <2> QED BY <1>0, <2>3 DEF WholeInv, RamAddr
<1>6. CleanInv'
  <2>1. image[1] = Ok
    BY <1>0 DEF ImageInv
  <2>2. opt.enable => 1 \in RamAddr /\ ValidInfo(1)'
    BY <1>a, <1>i, <1>r DEF ValidInfo
  <2> QED BY <1>0, <1>f, <2>1, <2>2 DEF CleanInv, ValidIfs, RamAddr
<1>7. Ifs2Inv'
  BY <1>0, <1>f, <1>i, <1>r DEF Ifs2Inv, Info2At, RamAddr, Zero
<1> QED BY <1>1, <1>2, <1>3, <1>4, <1>5, <1>6, <1>7 DEF IInv

\* An executable that is not saved: without -I, or the boot ends.
LEMMA NotSavedStep ==
  ASSUME IInv, RifsSaveElf32data, ~ (opt.enable /\ RifsSave)
  PROVE  IInv'
<1>0. /\ TypeOK /\ PlaceInv /\ ImageInv /\ InfoInv /\ WholeInv /\ CleanInv /\ Ifs2Inv
      /\ pc = "save" /\ k \in Nat \ {0} /\ k <= Len(segs)
      /\ \/ ~ opt.enable /\ pc' = "boot" /\ k' = k + 1
         \/ pc' = "crashed" /\ k' = k
      /\ UNCHANGED <<header, image, ram, free, status, rifs_info, rifs2_info,
                     ifs2_paddr_dst, clean, hurt>>
  BY DEF IInv, RifsSaveElf32data, infoVars, envVars, Goto, PlaceInv, InfoInv
<1>t. /\ image \in [Unit -> {Ok, Junk}] /\ status \in {0, -1} /\ segs \in Images
      /\ DOMAIN ram = RamAddr /\ \A a \in RamAddr : ram[a] \in RamUnit
      /\ free \subseteq RamAddr /\ rifs_info \in 0 .. RamSize
      /\ rifs2_info \in 0 .. RamSize /\ ifs2_paddr_dst \in 0 .. RamSize
  BY <1>0, Typed
<1>f. /\ shdr' = shdr /\ opt' = opt /\ segs' = segs /\ InPlace' = InPlace
      /\ FirstFree' = FirstFree /\ Source' = Source
  BY <1>0, Fixed
<1>1. TypeOK'
  <2>1. /\ image' \in [Unit -> {Ok, Junk}] /\ status' \in {0, -1}
        /\ DOMAIN ram' = RamAddr /\ \A b \in RamAddr : ram'[b] \in RamUnit
        /\ free' \subseteq RamAddr /\ pc' \in Places /\ k' \in Nat
        /\ rifs_info' \in 0 .. RamSize
        /\ rifs2_info' \in 0 .. RamSize /\ ifs2_paddr_dst' \in 0 .. RamSize
    BY <1>0, <1>t DEF Places
  <2> QED BY <1>0, <2>1, Types
<1>2. PlaceInv'
  BY <1>0, <1>f DEF PlaceInv, RamAddr
<1>3. ImageInv'
  BY <1>0, <1>f DEF ImageInv, Checked, Unit
<1>4. InfoInv'
  <2>1. /\ \A b \in RamAddr : ram'[b].kind = "info" =>
             /\ b = 1 /\ opt'.enable
             /\ \A i \in 1 .. Len(ram'[b].elf) : ram'[b].elf[i].unit # 1
        /\ \A b \in RamAddr : ~ ValidInfo(b)'
    BY <1>0, <1>f DEF InfoInv, ValidInfo
  <2>2. Len(segs) \in Nat
    BY <1>t, Sizes
  <2>3. k' - 1 <= Len(segs')
    BY <1>0, <1>f, <2>2
  <2> QED BY <1>0, <1>f, <2>1, <2>3 DEF InfoInv, RamAddr
<1>5. WholeInv'
  BY <1>0 DEF WholeInv, InfoInv, ValidInfo, RamAddr
<1>6. CleanInv'
  BY <1>0, <1>f DEF CleanInv
<1>7. Ifs2Inv'
  <2>1. /\ Info2At' = Info2At /\ Place2' = Place2 /\ \A n : Ifs2At(n)' = Ifs2At(n)
    BY <1>0, <1>f DEF Info2At, Place2, Ifs2At, Units
  <2> QED BY <1>0, <1>f, <2>1 DEF Ifs2Inv, RamAddr, Zero, Ifs2
<1> QED BY <1>1, <1>2, <1>3, <1>4, <1>5, <1>6, <1>7 DEF IInv

\* An entry is added for the executable: its data goes to memory that was free.
LEMMA RifsSaveStep ==
  ASSUME IInv, opt.enable, RifsSave
  PROVE  IInv'
<1>0. /\ TypeOK /\ PlaceInv /\ ImageInv /\ InfoInv /\ WholeInv /\ CleanInv /\ Ifs2Inv
      /\ pc = "save" /\ pc' = "boot" /\ k \in Nat \ {0} /\ k' = k + 1
      /\ k <= MaxBootable /\ segs[k] # << >>
      /\ UNCHANGED <<header, image, status, rifs_info, rifs2_info,
                     ifs2_paddr_dst, clean, hurt>>
  BY DEF IInv, RifsSave, infoVars, envVars, Goto, PlaceInv
<1>t. /\ image \in [Unit -> {Ok, Junk}] /\ status \in {0, -1} /\ segs \in Images
      /\ DOMAIN ram = RamAddr /\ \A a \in RamAddr : ram[a] \in RamUnit
      /\ free \subseteq RamAddr /\ rifs_info \in 0 .. RamSize
      /\ rifs2_info \in 0 .. RamSize /\ ifs2_paddr_dst \in 0 .. RamSize
  BY <1>0, Typed
<1>f. /\ shdr' = shdr /\ opt' = opt /\ segs' = segs /\ InPlace' = InPlace
      /\ FirstFree' = FirstFree /\ Source' = Source
  BY <1>0, Fixed
<1>g. /\ Info2At' = Info2At /\ Place2' = Place2 /\ \A n : Ifs2At(n)' = Ifs2At(n)
  BY <1>0, <1>f DEF Info2At, Place2, Ifs2At, Units
<1> DEFINE elf == ram[1].elf
           u == RifsReadelf(k)
<1>a. /\ 1 \in RamAddr /\ 1 \notin free /\ rifs_info = 1 /\ ram[1].kind = "info"
      /\ Lists(elf, k - 1) /\ (Checked => Holds(elf))
      /\ \A i \in 1 .. Len(elf) : elf[i].unit # 1
      /\ k <= Len(segs) /\ elfinfo = elf
  <2>1. 1 \in RamAddr /\ 1 \notin free /\ rifs_info = 1
    BY <1>0 DEF PlaceInv
  <2>2. /\ ram[1].kind = "info" /\ Lists(elf, k - 1) /\ (Checked => Holds(elf))
        /\ k <= Len(segs)
    BY <1>0 DEF InfoInv
  <2>3. \A i \in 1 .. Len(elf) : elf[i].unit # 1
    BY <1>0, <2>1, <2>2 DEF InfoInv
  <2> QED BY <2>1, <2>2, <2>3 DEF elfinfo
<1>b. elf \in Seq(Elf) /\ Len(elf) = k - 1
  <2>1. elf \in Seq(Elf)
    BY <1>0, <1>a, InfoUnits
  <2> QED BY <1>a, <2>1 DEF Lists
<1>u. u \in Unit /\ u # 1
  <2>1. k \in 1 .. Len(segs)
    <3>1. Len(segs) \in Nat
      BY <1>t, Sizes
    <3> QED BY <1>0, <1>a, <3>1
  <2> QED BY <1>0, <1>t, <2>1, Entries
\* Where the data goes, and what the information becomes.
<1>p. \E d \in 0 .. RamSize :
        LET e == Append(elf, [unit |-> u, data |-> d]) IN
        /\ shdr.comp => d \in free /\ free' = free \ {d}
        /\ ~ shdr.comp => free' = free
        /\ ram' = IF shdr.comp
                  THEN [ram EXCEPT ![1] = Info(e, FALSE),
                          ![d] = IF image[u] = Ok THEN Saved(u) ELSE Lost]
                  ELSE [ram EXCEPT ![1] = Info(e, FALSE)]
  <2>1. CASE shdr.comp
    <3>1. PICK d \in FindRam(1) :
            /\ free' = free \ {d}
            /\ ram' = [ram EXCEPT
                 ![rifs_info] = Info(Append(elfinfo, [unit |-> u, data |-> d]), FALSE),
                 ![d] = IF image[u] = Ok THEN Saved(u) ELSE Lost]
      BY <2>1 DEF RifsSave
    <3>2. d \in free /\ d \in 0 .. RamSize
      BY <1>t, <3>1, Sizes DEF FindRam, RamAddr
    <3>3. ram' = [ram EXCEPT ![1] = Info(Append(elf, [unit |-> u, data |-> d]), FALSE),
                    ![d] = IF image[u] = Ok THEN Saved(u) ELSE Lost]
      BY <1>a, <3>1
    <3> QED BY <2>1, <3>1, <3>2, <3>3
  <2>2. CASE ~ shdr.comp
    <3>1. /\ ram' = [ram EXCEPT ![rifs_info] =
                       Info(Append(elfinfo, [unit |-> u, data |-> NullPaddr]), FALSE)]
          /\ free' = free
      BY <2>2 DEF RifsSave
    <3>2. ram' = [ram EXCEPT ![1] = Info(Append(elf, [unit |-> u, data |-> 0]), FALSE)]
      BY <1>a, <3>1 DEF NullPaddr
    <3>3. 0 \in 0 .. RamSize
      BY Sizes
    <3> QED BY <2>2, <3>1, <3>2, <3>3
  <2> QED BY <2>1, <2>2
<1>q. PICK d \in 0 .. RamSize :
        LET e == Append(elf, [unit |-> u, data |-> d]) IN
        /\ shdr.comp => d \in free /\ free' = free \ {d}
        /\ ~ shdr.comp => free' = free
        /\ ram' = IF shdr.comp
                  THEN [ram EXCEPT ![1] = Info(e, FALSE),
                          ![d] = IF image[u] = Ok THEN Saved(u) ELSE Lost]
                  ELSE [ram EXCEPT ![1] = Info(e, FALSE)]
  BY <1>p
<1> DEFINE e == Append(elf, [unit |-> u, data |-> d])
<1>e. /\ e \in Elfs /\ Len(e) = k
      /\ \A i \in 1 .. k - 1 : e[i] = elf[i]
      /\ e[k] = [unit |-> u, data |-> d]
  <2>1. [unit |-> u, data |-> d] \in Elf
    BY <1>q, <1>u DEF Elf
  <2>2. /\ e \in Seq(Elf) /\ Len(e) = Len(elf) + 1
        /\ \A i \in 1 .. Len(elf) : e[i] = elf[i]
        /\ e[Len(elf) + 1] = [unit |-> u, data |-> d]
    BY <1>b, <2>1, AppendProperties
  <2>3. Len(e) = k /\ Len(elf) + 1 = k
    BY <1>0, <1>b, <2>2
  <2>4. Len(e) <= MaxBootable
    BY <1>0, <2>3
  <2>5. e \in Elfs
    BY <2>2, <2>4, ElfSeqs
  <2> HIDE DEF e
  <2> QED BY <1>b, <2>2, <2>3, <2>5
<1> HIDE DEF e
<1>d. shdr.comp => d \in free /\ d \in RamAddr /\ d # 1
  BY <1>a, <1>q, <1>t
<1>r. /\ DOMAIN ram' = RamAddr /\ ram'[1] = Info(e, FALSE)
      /\ shdr.comp => ram'[d] = (IF image[u] = Ok THEN Saved(u) ELSE Lost)
      /\ \A b \in RamAddr : b # 1 /\ ~ (shdr.comp /\ b = d) => ram'[b] = ram[b]
  <2>1. CASE shdr.comp
    <3>1. ram' = [ram EXCEPT ![1] = Info(e, FALSE),
                    ![d] = IF image[u] = Ok THEN Saved(u) ELSE Lost]
      BY <1>q, <2>1 DEF e
    <3> QED BY <1>a, <1>d, <1>t, <2>1, <3>1
  <2>2. CASE ~ shdr.comp
    <3>1. ram' = [ram EXCEPT ![1] = Info(e, FALSE)]
      BY <1>q, <2>2 DEF e
    <3> QED BY <1>a, <1>t, <2>2, <3>1
  <2> QED BY <2>1, <2>2
<1>h. free' \subseteq free /\ (shdr.comp => d \notin free')
  BY <1>q
<1>i. /\ Info(e, FALSE).kind = "info" /\ Info(e, FALSE).elf = e
      /\ Info(e, FALSE).cksum = FALSE /\ Info(e, FALSE) \in RamUnit
      /\ Info(e, FALSE) # Zero
  BY <1>e, RamUnits, Kinds, ZenonT(40)
<1>s. /\ shdr.comp => ram'[d] \in RamUnit /\ ram'[d].kind # "info" /\ ram'[d] # Zero
  <2>1. /\ Saved(u) \in RamUnit /\ Saved(u).kind # "info" /\ Saved(u) # Zero
        /\ Lost \in RamUnit /\ Lost.kind # "info" /\ Lost # Zero
    BY <1>u, RamUnits, Kinds
  <2> QED BY <1>r, <2>1
<1>1. TypeOK'
  <2>1. /\ image' \in [Unit -> {Ok, Junk}] /\ status' \in {0, -1}
        /\ free' \subseteq RamAddr /\ pc' \in Places /\ k' \in Nat
        /\ rifs_info' \in 0 .. RamSize
        /\ rifs2_info' \in 0 .. RamSize /\ ifs2_paddr_dst' \in 0 .. RamSize
    BY <1>0, <1>t, <1>h DEF Places
  <2>2. DOMAIN ram' = RamAddr /\ \A b \in RamAddr : ram'[b] \in RamUnit
    BY <1>i, <1>r, <1>s, <1>t
  <2> QED BY <1>0, <2>1, <2>2, Types
<1>2. PlaceInv'
  BY <1>0, <1>a, <1>f, <1>h DEF PlaceInv, RamAddr
<1>3. ImageInv'
  BY <1>0, <1>f DEF ImageInv, Checked, Unit
<1>4. InfoInv'
  <2>1. \A b \in RamAddr : ram'[b].kind = "info" => b = 1
    BY <1>0, <1>r, <1>s DEF InfoInv
  <2>2. ram'[1].elf = e /\ ram'[1].kind = "info" /\ ~ ram'[1].cksum
    BY <1>i, <1>r
  <2>3. \A i \in 1 .. k : i = k \/ i \in 1 .. k - 1
    BY <1>0
  <2>4. \A i \in 1 .. k : e[i].unit # 1
    <3>1. e[k].unit # 1
      BY <1>e, <1>u
    <3>2. \A i \in 1 .. k - 1 : e[i].unit # 1
      BY <1>a, <1>b, <1>e
    <3> QED BY <2>3, <3>1, <3>2
  <2>5. Lists(ram[1].elf, k - 1)'
    <3>1. ASSUME NEW i \in 1 .. k
          PROVE  /\ segs[i] # << >> /\ e[i].unit = RifsReadelf(i)
                 /\ shdr.comp => e[i].data \in RamAddr \ (free' \cup {1})
      <4>1. CASE i = k
        BY <1>0, <1>d, <1>e, <1>h, <4>1
      <4>2. CASE i \in 1 .. k - 1
        BY <1>a, <1>e, <1>h, <4>2 DEF Lists
      <4> QED BY <2>3, <4>1, <4>2
    <3>2. k' - 1 = k
      BY <1>0
    <3>3. Len(e) = k
      BY <1>e
    <3> QED BY <1>f, <2>2, <3>1, <3>2, <3>3 DEF Lists, RifsReadelf, RamAddr
  <2>6. Checked => Holds(ram[1].elf)'
    <3>1. ASSUME Checked, shdr.comp, NEW i \in 1 .. k
          PROVE  ram'[e[i].data] = Saved(e[i].unit)
      <4>1. CASE i = k
        <5>1. image[u] = Ok
          BY <1>0, <1>u, <3>1 DEF ImageInv
        <5> QED BY <1>e, <1>r, <3>1, <4>1, <5>1
      <4>2. CASE i \in 1 .. k - 1
        <5>1. elf[i].data \in RamAddr \ (free \cup {1})
          BY <1>a, <3>1, <4>2 DEF Lists
        <5>2. ram[elf[i].data] = Saved(elf[i].unit)
          BY <1>a, <1>b, <3>1, <4>2 DEF Holds
        <5>3. ram'[elf[i].data] = ram[elf[i].data]
          BY <1>d, <1>r, <3>1, <5>1
        <5> QED BY <1>e, <4>2, <5>2, <5>3
      <4> QED BY <2>3, <4>1, <4>2
    <3>2. Len(e) = k
      BY <1>e
    <3> QED BY <1>f, <2>2, <3>1, <3>2 DEF Holds
  <2>7. \A b \in RamAddr : ~ ValidInfo(b)'
    BY <2>1, <2>2 DEF ValidInfo
  <2>8. k' - 1 <= Len(segs') /\ Checked' = Checked
    BY <1>0, <1>a, <1>f DEF Checked
  <2>9. \A i \in 1 .. Len(ram'[1].elf) : ram'[1].elf[i].unit # 1
    BY <1>e, <2>2, <2>4
  <2> QED BY <1>0, <1>f, <2>1, <2>2, <2>5, <2>6, <2>7, <2>8, <2>9 DEF InfoInv, RamAddr
<1>5. WholeInv'
  BY <1>0, <1>i, <1>r, <1>s DEF WholeInv, InfoInv, ValidInfo, RamAddr
<1>6. CleanInv'
  BY <1>0, <1>f DEF CleanInv
<1>7. Ifs2Inv'
  <2>1. opt.ifs2 => /\ Place2 \subseteq RamAddr /\ (opt.enable => 1 \notin Place2)
                    /\ ~ opt.dst2 => ifs2_paddr_dst = FirstFree
                    /\ Place2 \cap free = {}
                    /\ opt.restore2 => rifs2_info = Info2At /\ Info2At \in RamAddr \ free
    BY <1>0 DEF Ifs2Inv
  <2>2. opt.ifs2 /\ opt.restore2 => ram'[Info2At] # Zero
    <3>1. opt.ifs2 /\ opt.restore2 /\ Info2At \in RamAddr => ram[Info2At] # Zero
      BY <1>0 DEF Ifs2Inv
    <3> QED BY <1>i, <1>r, <1>s, <2>1, <3>1
  <2>3. ASSUME opt.ifs2, Source, opt.cksum2 \/ ~ opt.restore2, NEW n \in 1 .. Ifs2Size
        PROVE  ram'[Ifs2At(n)] = Ifs2(n)
    <3>1. ram[Ifs2At(n)] = Ifs2(n)
      BY <1>0, <2>3 DEF Ifs2Inv
    <3>2. Ifs2At(n) \in Place2
      BY <1>t, Sizes DEF Ifs2At, Place2, Units
    <3> QED BY <1>d, <1>r, <2>1, <2>3, <3>1, <3>2
  <2>4. opt'.ifs2 => /\ Place2' \cap free' = {}
                     /\ Source' /\ (opt'.cksum2 \/ ~ opt'.restore2) =>
                          \A n \in 1 .. Ifs2Size : ram'[Ifs2At(n)'] = Ifs2(n)
    BY <1>f, <1>g, <1>h, <2>1, <2>3
  <2>5. /\ Info2At' = Info2At /\ RamAddr' = RamAddr
        /\ opt'.ifs2 => /\ Place2' \subseteq RamAddr /\ (opt'.enable => 1 \notin Place2')
                        /\ ~ opt'.dst2 => ifs2_paddr_dst' = FirstFree'
                        /\ opt'.restore2 => /\ rifs2_info' = Info2At
                                            /\ Info2At \in RamAddr \ free'
    BY <1>0, <1>f, <1>g, <1>h, <2>1 DEF RamAddr
  <2> QED BY <1>0, <1>f, <2>2, <2>4, <2>5 DEF Ifs2Inv, Zero, Ifs2
<1> QED BY <1>1, <1>2, <1>3, <1>4, <1>5, <1>6, <1>7 DEF IInv

-----------------------------------------------------------------------------
(* The theorems.                                                           *)

\* The inductive invariant holds at first.
LEMMA Start ==
  ASSUME Init
  PROVE  IInv
<1>0. /\ shdr \in Headers /\ opt \in Options /\ segs \in Images
      /\ image = [u \in Unit |-> Junk] /\ ram = [a \in RamAddr |-> Lost]
      /\ free = {} /\ pc = "off" /\ k = 1 /\ status = 0 /\ clean = FALSE
      /\ rifs_info = 0 /\ rifs2_info = 0 /\ ifs2_paddr_dst = 0
  BY DEF Init, RamAddr, NullPaddr
<1>l. Lost \in RamUnit /\ Lost.kind # "info" /\ Lost # Zero
  BY RamUnits, Kinds
<1>1. TypeOK
  <2>1. 0 \in 0 .. RamSize
    BY Sizes
  <2>2. image \in [Unit -> {Ok, Junk}]
    BY <1>0
  <2>3. DOMAIN ram = 1 .. RamSize /\ \A a \in 1 .. RamSize : ram[a] \in RamUnit
    BY <1>0, <1>l DEF RamAddr
  <2> QED BY <1>0, <2>1, <2>2, <2>3 DEF TypeOK
<1>2. PlaceInv
  BY <1>0 DEF PlaceInv
<1>3. ImageInv
  BY <1>0 DEF ImageInv
<1>4. InfoInv
  BY <1>0, <1>l DEF InfoInv, ValidInfo
<1>5. WholeInv
  BY <1>0, <1>l DEF WholeInv, ValidInfo
<1>6. CleanInv
  BY <1>0 DEF CleanInv
<1>7. Ifs2Inv
  BY <1>0, <1>l DEF Ifs2Inv
<1> QED BY <1>1, <1>2, <1>3, <1>4, <1>5, <1>6, <1>7 DEF IInv

\* A step that changes nothing keeps it.
LEMMA Stutter ==
  ASSUME IInv, UNCHANGED vars
  PROVE  IInv'
<1>0. UNCHANGED <<shdr, opt, segs, image, ram, free, pc, k, status, rifs_info,
                  rifs2_info, ifs2_paddr_dst, clean, hurt>>
  BY DEF vars, header, infoVars, envVars
<1>f. /\ InPlace' = InPlace /\ FirstFree' = FirstFree /\ Source' = Source
  BY <1>0 DEF InPlace, FirstFree, Source, full_imagefs_paddr, full_image_paddr, ifs_paddr
<1>1. TypeOK'
  BY <1>0 DEF IInv, TypeOK, RamUnit, Elf, Unit, Info2, Zero, Lost, Ifs2, Saved
<1>2. PlaceInv'
  BY <1>0, <1>f DEF IInv, PlaceInv, RamAddr
<1>3. ImageInv'
  BY <1>0, <1>f DEF IInv, ImageInv, Checked, Unit
<1>4. InfoInv'
  BY <1>0 DEF IInv, InfoInv, ValidInfo, RamAddr, Info, Lists, Holds, Checked,
              RifsReadelf, Saved
<1>5. WholeInv'
  BY <1>0 DEF IInv, WholeInv, ValidInfo, ValidIfs, ToDo, Holds, RamAddr, Unit, Saved
<1>6. CleanInv'
  BY <1>0, <1>f DEF IInv, CleanInv, ValidInfo, ValidIfs, RamAddr
<1>7. Ifs2Inv'
  <2>1. /\ Info2At' = Info2At /\ Place2' = Place2 /\ \A n : Ifs2At(n)' = Ifs2At(n)
    BY <1>0, <1>f DEF Info2At, Place2, Ifs2At, Units
  <2> QED BY <1>0, <1>f, <2>1 DEF IInv, Ifs2Inv, RamAddr, Zero, Ifs2
<1> QED BY <1>1, <1>2, <1>3, <1>4, <1>5, <1>6, <1>7 DEF IInv

\* The inductive invariant: every step of startup, of the board and of the
\* running system keeps it.
THEOREM Invariance ==
  ASSUME Supported
  PROVE  Spec => []IInv
<1>1. Init => IInv
  BY Start
<1>2. IInv /\ [Next]_vars => IInv'
  <2> SUFFICES ASSUME IInv, [Next]_vars PROVE IInv'
    OBVIOUS
  <2>1. CASE PowerOn
    BY <2>1, PowerOnStep
  <2>2. CASE Reset
    BY <2>2, ResetStep
  <2>3. CASE PowerLoss \/ Decay
    BY <2>3, PowerLossStep
  <2>4. CASE KernelWrite
    BY <2>4, KernelStep
  <2>5. CASE RifsRestoreIfs
    BY <2>5, RifsRestoreIfsStep
  <2>6. CASE RestoreData
    BY <2>6, RestoreDataStep
  <2>7. CASE CheckIfs
    BY <2>7, CheckIfsStep
  <2>8. CASE RifsInit
    BY <2>8, RifsInitStep
  <2>9. CASE LoadIfs \/ CheckRoom
    BY <2>9, LoadIfsStep
  <2>10. CASE CopyAway
    BY <2>10, CopyAwayStep
  <2>11. CASE Fill
    BY <2>11, FillStep
  <2>12. CASE LoadIfs2Nonbootable
    BY <2>12, LoadIfs2NonbootableStep
  <2>13. CASE RifsRestoreIfs2
    BY <2>13, RifsRestoreIfs2Step
  <2>14. CASE RifsLoadIfs2
    BY <2>14, RifsLoadIfs2Step
  <2>15. CASE LoadElf
    BY <2>15, LoadElfStep
  <2>16. CASE opt.enable /\ RifsSave
    BY <2>16, RifsSaveStep
  <2>17. CASE RifsSaveElf32data /\ ~ (opt.enable /\ RifsSave)
    BY <2>17, NotSavedStep
  <2>18. CASE RifsSetCksum
    BY <2>18, RifsSetCksumStep
  <2>19. CASE UNCHANGED vars
    BY <2>19, Stutter
  <2> QED BY <2>1, <2>2, <2>3, <2>4, <2>5, <2>6, <2>7, <2>8, <2>9, <2>10, <2>11, <2>12,
             <2>13, <2>14, <2>15, <2>16, <2>17, <2>18, <2>19 DEF Next, Startup, Board
<1> QED BY <1>1, <1>2, PTL DEF Spec

\* The system starts from images as they were built, whatever resets have cut
\* off earlier boots, and whatever the running system has written: the image
\* is loaded, unpacked or put back, and the second one is (load_ifs.c,
\* restore_ifs.c).
THEOREM ImagesAreIntact ==
  ASSUME Supported
  PROVE  Spec => []ImagesIntact
<1>1. IInv => ImagesIntact
  <2> SUFFICES ASSUME IInv PROVE ImagesIntact
    OBVIOUS
  <2>1. ImageIntact
    BY DEF IInv, ImageInv, ImageIntact, Booted, Checked
  <2>2. Ifs2Intact
    BY DEF IInv, Ifs2Inv, Ifs2Intact, Booted, Source
  <2> QED BY <2>1, <2>2 DEF ImagesIntact
<1>2. Spec => []IInv
  BY Invariance
<1> QED BY <1>1, <1>2, PTL

\* Information that a next boot would accept describes the image with which
\* it would be accepted, between any two stores of startup; and after a
\* completed boot it is accepted (rifs_init(), rifs_save_elf32data(),
\* rifs_set_cksum()).
THEOREM SavedIsRight ==
  ASSUME Supported
  PROVE  Spec => []SavedRight
<1>1. IInv => SavedRight
  <2> SUFFICES ASSUME IInv PROVE SavedRight
    OBVIOUS
  <2>0. TypeOK /\ PlaceInv /\ WholeInv /\ CleanInv
    BY DEF IInv
  <2>1. ASSUME NEW a \in RamAddr, ValidInfo(a), ValidIfs, ~ hurt
        PROVE  LET e == ram[a].elf IN
               /\ \A u \in Unit : image[u] = Ok \/ \E i \in DOMAIN e : e[i].unit = u
               /\ shdr.comp => \A i \in DOMAIN e : ram[e[i].data] = Saved(e[i].unit)
    <3>1. ram[a].kind = "info"
      BY <2>1 DEF ValidInfo
    <3>2. ram[a].elf \in Seq(Elf)
      BY <2>0, <2>1, <3>1, InfoUnits
    <3>3. DOMAIN ram[a].elf = 1 .. Len(ram[a].elf)
      BY <3>2, LenProperties
    <3>4. k \in Nat \ {0}
      BY <2>0 DEF PlaceInv
    <3>5. ToDo(ram[a].elf, IF pc = "copy" THEN k ELSE 1) /\ Holds(ram[a].elf)
      BY <2>0, <2>1 DEF WholeInv
    <3>6. ToDo(ram[a].elf, 1)
      BY <3>4, <3>5 DEF ToDo
    <3> QED BY <3>3, <3>5, <3>6 DEF ToDo, Holds
  <2>2. SavedIsWhole
    BY <2>1 DEF SavedIsWhole, RamAddr
  <2>3. NoNeedlessReload
    BY <2>0 DEF CleanInv, NoNeedlessReload, InPlace
  <2> QED BY <2>0, <2>2, <2>3 DEF SavedRight
<1>2. Spec => []IInv
  BY Invariance
<1> QED BY <1>1, <1>2, PTL
=============================================================================
