----------------------------- MODULE RestoreIfs -----------------------------
(***************************************************************************)
(* The image file system over resets: load_ifs.c, restore_ifs.c and the    *)
(* part of init_system_private() that calls them. With -I startup keeps a  *)
(* record of the writable data of the bootstrap executables, so that the   *)
(* next boot with RAM in self-refresh puts back that data instead of       *)
(* loading the whole image; with -i it does the like for a second image.   *)
(* A boot may be cut off between any two stores.                           *)
(*                                                                         *)
(* RAM is made of units. An image unit is Ok when it holds what the build  *)
(* put there, a checksum is zero exactly for the data it was made for.     *)
(***************************************************************************)
EXTENDS Integers, Sequences, FiniteSets

CONSTANTS
  ImgSize,      \* units of the image; the first has header and directory
  Images,       \* images: for each executable its writable segments' units
  Headers,      \* startup headers [comp, imagefs_paddr, addr_off]
  Options,      \* -I: enable, cksum; -i: ifs2, restore2, cksum2, src2, dst2
  MaxBootable,  \* RIFS_MAX_BOOTABLE
  ImagePaddr, StartupSize,
  Width,        \* 2^64
  RamSize,      \* units of RAM startup may hand out, at 1 .. RamSize
  TempSize,     \* units the stored image needs out of the way
  BssSize,      \* units load_elf() takes for an executable
  Ifs2Size, Ifs2Dst  \* second image: its size, and the place -i may give it

ASSUME ImageAssumption ==
  /\ ImgSize \in Nat \ {0} /\ MaxBootable \in Nat
  /\ \A im \in Images : im \in Seq(Seq(2 .. ImgSize))
ASSUME AddressAssumption ==
  /\ {ImagePaddr, StartupSize, Width} \subseteq Nat \ {0}
  /\ \A h \in Headers : h.imagefs_paddr \in Nat /\ h.addr_off \in Nat
ASSUME RamAssumption ==
  /\ {TempSize, BssSize, Ifs2Size} \subseteq Nat \ {0}
  /\ {RamSize, Ifs2Dst} \subseteq Nat
  /\ Ifs2Dst .. Ifs2Dst + Ifs2Size - 1 \subseteq 1 .. RamSize

VARIABLES
  shdr, opt, segs,  \* the image's header, command line and executables
  image,            \* units of the image at its final place
  ram,              \* units of the other RAM
  free,             \* RAM this boot has not handed out
  pc, k,            \* place in init_system_private() and its loops
  status,           \* of rifs_restore_ifs()
  rifs_info, rifs2_info, ifs2_paddr_dst,  \* addresses, NullPaddr if none
  clean,            \* the last boot was completed, and RAM kept since
  hurt              \* RAM has lost a unit while the board was off

header == <<shdr, opt, segs>>
infoVars == <<rifs_info, rifs2_info, ifs2_paddr_dst>>
envVars == <<clean, hurt>>
vars == <<header, image, ram, free, pc, k, status, infoVars, envVars>>

NullPaddr == 0
Ok == "ok"
Junk == "junk"

\* Units of RAM: the restore information with its ELF entries and whether
\* its checksum is right, the one of the second image, its units, saved
\* data of an image unit, and cleared memory.
Info(elf, cksum) == [kind |-> "info", elf |-> elf, cksum |-> cksum]
Info2 == [kind |-> "info2"]
Ifs2(n) == [kind |-> "ifs2", n |-> n]
Saved(u) == [kind |-> "data", unit |-> u]
Zero == [kind |-> "zero"]
Lost == [kind |-> "junk"]

Unit == 1 .. ImgSize
Writable == {u \in Unit : \E e \in DOMAIN segs :
                            \E i \in DOMAIN segs[e] : segs[e][i] = u}
Units(s, n) == s .. s + n - 1

\* find_ram(): the lowest block that is large enough. Its callers do not
\* look whether there is one: RAM is taken to suffice.
FindRam(n) == {s \in free :
                /\ Units(s, n) \subseteq free
                /\ \A t \in free : Units(t, n) \subseteq free => s <= t}

full_image_paddr == ImagePaddr + shdr.addr_off
full_imagefs_paddr == IF shdr.imagefs_paddr = 0 THEN 0
                      ELSE shdr.imagefs_paddr + shdr.addr_off
ifs_paddr == full_image_paddr + StartupSize

Init ==
  /\ shdr \in Headers /\ opt \in Options /\ segs \in Images
  /\ image = [u \in Unit |-> Junk] /\ ram = [a \in 1 .. RamSize |-> Lost]
  /\ free = {} /\ pc = "off" /\ k = 1 /\ status = 0
  /\ rifs_info = NullPaddr /\ rifs2_info = NullPaddr
  /\ ifs2_paddr_dst = NullPaddr
  /\ clean = FALSE /\ hurt = FALSE

Goto(from, to) == pc = from /\ pc' = to

-----------------------------------------------------------------------------
(* The board                                                               *)

\* The boot loader brings the stored image. Without an IPL that notes where
\* it is, or when that is the final place, it lands there.
PowerOn ==
  /\ Goto("off", "restore")
  /\ image' = IF full_imagefs_paddr \in {0, ifs_paddr}
              THEN [u \in Unit |-> IF shdr.comp THEN Junk ELSE Ok] ELSE image
  /\ free' = 1 .. RamSize
  /\ k' = 1 /\ status' = 0
  /\ rifs_info' = NullPaddr /\ rifs2_info' = NullPaddr
  /\ ifs2_paddr_dst' = NullPaddr
  /\ UNCHANGED <<header, ram, envVars>>

\* The CPU loses power, RAM does not.
Reset ==
  /\ pc # "off" /\ pc' = "off"
  /\ clean' = (clean /\ pc = "kernel")
  /\ UNCHANGED <<header, image, ram, free, k, status, infoVars, hurt>>

\* RAM loses everything ...
PowerLoss ==
  /\ pc = "off"
  /\ image' = [u \in Unit |-> Junk] /\ ram' = [a \in 1 .. RamSize |-> Lost]
  /\ clean' = FALSE /\ hurt' = FALSE
  /\ UNCHANGED <<header, free, pc, k, status, infoVars>>

\* ... or a single unit.
Decay ==
  /\ pc = "off" /\ ~ hurt
  /\ \/ \E u \in Unit : image' = [image EXCEPT ![u] = Junk] /\ UNCHANGED ram
     \/ \E a \in 1 .. RamSize : ram' = [ram EXCEPT ![a] = Lost] /\ UNCHANGED image
  /\ hurt' = TRUE /\ clean' = FALSE
  /\ UNCHANGED <<header, free, pc, k, status, infoVars>>

\* The system runs: executables write to their data, which is used in
\* place, and the kernel to the memory nobody was given.
KernelWrite ==
  /\ pc = "kernel"
  /\ \/ \E u \in Writable : image' = [image EXCEPT ![u] = Junk] /\ UNCHANGED ram
     \/ \E a \in free : ram' = [ram EXCEPT ![a] = Lost] /\ UNCHANGED image
  /\ UNCHANGED <<header, free, pc, k, status, infoVars, envVars>>

-----------------------------------------------------------------------------
(* The image                                                               *)

elfinfo == ram[rifs_info].elf

\* check_rifs_signature(), check_ifs_signature()
ValidInfo(a) == ram[a].kind = "info" /\ ram[a].cksum
ValidIfs == image[1] = Ok

\* rifs_restore_ifs() up to the check of both signatures and of the
\* information's checksum. Without -I the image is loaded.
RifsRestoreIfs ==
  /\ pc = "restore"
  /\ IF opt.enable
     THEN \E a \in FindRam(1) :
          /\ rifs_info' = a /\ free' = free \ {a}
          /\ IF ValidIfs /\ ValidInfo(a)
             THEN pc' = "copy" /\ UNCHANGED status
             ELSE pc' = "rifs_init" /\ status' = -1
     ELSE pc' = "load" /\ UNCHANGED <<rifs_info, free, status>>
  /\ UNCHANGED <<header, image, ram, k, rifs2_info, ifs2_paddr_dst, envVars>>

\* The source image at an offset. At address 0 there is none.
SourceUnit(paddr, u) ==
  IF paddr # full_imagefs_paddr \/ paddr = 0 THEN Junk
  ELSE IF paddr = ifs_paddr THEN image[u] ELSE Ok

\* One turn of the loop over the executables: their data is put back, from
\* the copy or from the source image.
RestoreData ==
  /\ Goto("copy", "copy") /\ k <= Len(elfinfo)
  /\ LET e == elfinfo[k] IN
     image' = [image EXCEPT ![e.unit] =
       IF shdr.comp THEN IF ram[e.data] = Saved(e.unit) THEN Ok ELSE Junk
       ELSE SourceUnit(full_imagefs_paddr, e.unit)]
  /\ k' = k + 1
  /\ UNCHANGED <<header, ram, free, status, infoVars, envVars>>

\* Mutant: the checksum is not looked at.
CheckIfs_NoCksum ==
  /\ Goto("copy", "rifs_init") /\ k > Len(elfinfo)
  /\ status' = 0
  /\ UNCHANGED <<header, image, ram, free, k, infoVars, envVars>>

\* The checksum of the whole image, if it is asked for.
CheckIfs ==
  /\ Goto("copy", "rifs_init") /\ k > Len(elfinfo)
  /\ status' = IF opt.cksum /\ \E u \in Unit : image[u] # Ok THEN -1 ELSE 0
  /\ UNCHANGED <<header, image, ram, free, k, infoVars, envVars>>

\* Mutant: valid information stays until it is written anew.
RifsInit_Keeps ==
  /\ Goto("rifs_init", IF status = 0 THEN "ifs2" ELSE "load")
  /\ ram' = IF ValidInfo(rifs_info) THEN ram
            ELSE [ram EXCEPT ![rifs_info] = Info(<< >>, FALSE)]
  /\ k' = 1
  /\ UNCHANGED <<header, image, free, status, infoVars, envVars>>

\* rifs_init(): from its first store on the checksum does not fit.
RifsInit ==
  /\ Goto("rifs_init", IF status = 0 THEN "ifs2" ELSE "load")
  /\ ram' = [ram EXCEPT ![rifs_info] = Info(<< >>, FALSE)]
  /\ k' = 1
  /\ UNCHANGED <<header, image, free, status, infoVars, envVars>>

\* load_ifs(): what is to be done.
LoadIfs ==
  /\ Goto("load", CASE shdr.comp /\ full_imagefs_paddr = 0 -> "temp"
                    [] shdr.comp /\ full_imagefs_paddr # 0 -> "room"
                    [] ~ shdr.comp /\ full_imagefs_paddr \notin {0, ifs_paddr} -> "fill"
                    [] OTHER -> "ifs2")
  /\ UNCHANGED <<header, image, ram, free, k, status, infoVars, envVars>>

\* The compressed image is copied out of the way, to memory that is found
\* but not allocated.
CopyAway ==
  /\ \/ /\ k <= TempSize /\ Goto("temp", "temp") /\ k' = k + 1
        /\ \E a \in FindRam(TempSize) : ram' = [ram EXCEPT ![a + k - 1] = Lost]
     \/ /\ k > TempSize /\ Goto("temp", "room") /\ k' = 1 /\ UNCHANGED ram
  /\ UNCHANGED <<header, image, free, status, infoVars, envVars>>

\* The unsigned difference that has to hold the uncompressed image.
CheckRoom ==
  /\ Goto("room", IF (full_imagefs_paddr - full_image_paddr) % Width < ImgSize
                  THEN "crashed" ELSE "fill")
  /\ UNCHANGED <<header, image, ram, free, k, status, infoVars, envVars>>

\* uncompress() or copy_memory(), unit by unit. The latter reads at
\* imagefs_paddr as the header has it.
Fill ==
  /\ \/ /\ k <= ImgSize /\ Goto("fill", "fill") /\ k' = k + 1
        /\ image' = [image EXCEPT ![k] =
             IF shdr.comp THEN Ok ELSE SourceUnit(shdr.imagefs_paddr, k)]
     \/ /\ k > ImgSize /\ Goto("fill", "ifs2") /\ k' = 1 /\ UNCHANGED image
  /\ UNCHANGED <<header, ram, free, status, infoVars, envVars>>

-----------------------------------------------------------------------------
(* The second image                                                        *)

Ifs2At(n) == ifs2_paddr_dst + n - 1

\* load_ifs2_nonbootable(): the place of the second image.
LoadIfs2Nonbootable ==
  /\ pc = "ifs2"
  /\ IF ~ opt.ifs2
     THEN pc' = "boot" /\ UNCHANGED <<free, ifs2_paddr_dst>>
     ELSE /\ pc' = IF opt.restore2 THEN "restore2" ELSE "load2"
          /\ ifs2_paddr_dst' \in IF opt.dst2 THEN {Ifs2Dst} ELSE FindRam(Ifs2Size)
          /\ free' = IF opt.dst2 THEN free
                     ELSE free \ Units(ifs2_paddr_dst', Ifs2Size)
  /\ k' = 1
  /\ UNCHANGED <<header, image, ram, status, rifs_info, rifs2_info, envVars>>

\* The second image has its checksum, over the size noted in rifs2_info.
Ifs2Sound(size) == \A n \in 1 .. size : ram[Ifs2At(n)] = Ifs2(n)

\* rifs_checksum() of rifs2_info is zero for cleared memory as well.
Info2Sums(a) == ram[a] \in {Info2, Zero}

\* rifs_restore_ifs2(): of rifs2_info only the checksum is tested; in
\* cleared memory the size is 0.
RifsRestoreIfs2 ==
  /\ pc = "restore2"
  /\ \E a \in FindRam(1) :
       LET size == IF ram[a] = Info2 THEN Ifs2Size ELSE 0 IN
       /\ rifs2_info' = a /\ free' = free \ {a}
       /\ pc' = IF /\ ram[ifs2_paddr_dst] = Ifs2(1)
                   /\ Info2Sums(a)
                   /\ opt.cksum2 => Ifs2Sound(size)
                THEN "boot" ELSE "load2"
  /\ UNCHANGED <<header, image, ram, k, status, rifs_info, ifs2_paddr_dst,
                 envVars>>

\* The source of the second image: given by the user, or behind the first
\* one, which is nowhere if imagefs_paddr is zero.
Ifs2Source(n) == IF opt.src2 \/ full_imagefs_paddr # 0 THEN Ifs2(n) ELSE Lost

\* rifs_load_ifs2(): a place given by the user is allocated, the image is
\* copied and then described.
RifsLoadIfs2 ==
  /\ free' = IF opt.dst2 THEN free \ Units(ifs2_paddr_dst, Ifs2Size) ELSE free
  /\ \/ /\ k <= Ifs2Size /\ Goto("load2", "load2") /\ k' = k + 1
        /\ ram' = [ram EXCEPT ![Ifs2At(k)] = Ifs2Source(k)]
     \/ /\ k > Ifs2Size /\ Goto("load2", "boot") /\ k' = 1
        /\ ram' = IF opt.restore2 THEN [ram EXCEPT ![rifs2_info] = Info2] ELSE ram
  /\ UNCHANGED <<header, image, status, infoVars, envVars>>

-----------------------------------------------------------------------------
(* The executables                                                         *)

\* load_elf() in load_bootstraps(): memory for an executable's bss. The
\* rest of its segments is used where it is.
LoadElf ==
  /\ k <= Len(segs)
  /\ Goto("boot", "save")
  /\ \E a \in FindRam(BssSize) :
     /\ free' = free \ Units(a, BssSize)
     /\ ram' = [b \in DOMAIN ram |-> IF b \in Units(a, BssSize) THEN Zero ELSE ram[b]]
  /\ UNCHANGED <<header, image, k, status, infoVars, envVars>>

\* rifs_readelf(): the first writable segment.
RifsReadelf(e) == segs[e][1]

\* rifs_save_elf32data() of an executable that can be entered; its data is
\* copied if the image is compressed.
RifsSave ==
  /\ Goto("save", "boot")
  /\ k <= MaxBootable /\ segs[k] # << >>
  /\ LET u == RifsReadelf(k)
         info(a) == Info(Append(elfinfo, [unit |-> u, data |-> a]), FALSE)
     IN IF shdr.comp
        THEN \E a \in FindRam(1) :
               /\ free' = free \ {a}
               /\ ram' = [ram EXCEPT ![rifs_info] = info(a),
                            ![a] = IF image[u] = Ok THEN Saved(u) ELSE Lost]
        ELSE /\ ram' = [ram EXCEPT ![rifs_info] = info(NullPaddr)]
             /\ UNCHANGED free
  /\ k' = k + 1
  /\ UNCHANGED <<header, image, status, infoVars, envVars>>

\* Without -I nothing is saved; what cannot be entered ends the boot.
RifsSaveElf32data ==
  \/ opt.enable /\ RifsSave
  \/ /\ ~ opt.enable /\ Goto("save", "boot") /\ k' = k + 1
     /\ UNCHANGED <<header, image, ram, free, status, infoVars, envVars>>
  \/ /\ Goto("save", "crashed")
     /\ opt.enable /\ (k > MaxBootable \/ segs[k] = << >>)
     /\ UNCHANGED <<header, image, ram, free, k, status, infoVars, envVars>>

\* rifs_set_cksum(), after which the system is started.
RifsSetCksum ==
  /\ k > Len(segs)
  /\ Goto("boot", "kernel")
  /\ ram' = IF opt.enable
            THEN [ram EXCEPT ![rifs_info] = Info(elfinfo, TRUE)] ELSE ram
  /\ clean' = TRUE
  /\ UNCHANGED <<header, image, free, k, status, infoVars, hurt>>

Startup == \/ RifsRestoreIfs \/ RestoreData \/ CheckIfs \/ RifsInit
           \/ LoadIfs \/ CopyAway \/ CheckRoom \/ Fill
           \/ LoadIfs2Nonbootable \/ RifsRestoreIfs2 \/ RifsLoadIfs2
           \/ LoadElf \/ RifsSaveElf32data \/ RifsSetCksum
Board == PowerOn \/ Reset \/ PowerLoss \/ Decay \/ KernelWrite
Next == Startup \/ Board
Spec == Init /\ [][Next]_vars

-----------------------------------------------------------------------------
(* Properties                                                              *)

Elf == [unit : Unit, data : 0 .. RamSize]
RamUnit == [kind : {"info"}, elf : UNION {[1 .. n -> Elf] : n \in 0 .. MaxBootable},
            cksum : BOOLEAN]
           \cup {Info2, Zero, Lost} \cup {Ifs2(n) : n \in 1 .. Ifs2Size}
           \cup {Saved(u) : u \in Unit}

\* Types; the addresses lie in RAM and were handed out once.
TypeOK ==
  /\ shdr \in Headers /\ opt \in Options /\ segs \in Images
  /\ image \in [Unit -> {Ok, Junk}]
  /\ DOMAIN ram = 1 .. RamSize /\ \A a \in 1 .. RamSize : ram[a] \in RamUnit
  /\ free \subseteq 1 .. RamSize
  /\ pc \in {"off", "restore", "copy", "rifs_init", "load", "temp", "room",
             "fill", "ifs2", "restore2", "load2", "boot", "save", "kernel",
             "crashed"}
  /\ k \in Nat /\ status \in {0, -1}
  /\ {rifs_info, rifs2_info, ifs2_paddr_dst} \subseteq 0 .. RamSize

Booted == pc = "boot" /\ k > Len(segs)

\* Whatever resets have happened before, and between whatever stores of
\* startup or of the running system: the system starts from an image that
\* is as built. A unit that RAM lost is found with -I1.
ImageIntact ==
  Booted /\ (opt.cksum \/ ~ hurt) => \A u \in Unit : image[u] = Ok

\* The second image too, if its checksum is asked for (-i...,K) or it is
\* always copied, and there is a source to copy.
Ifs2Intact ==
  /\ Booted /\ opt.ifs2 /\ (opt.cksum2 \/ ~ opt.restore2)
  /\ opt.src2 \/ full_imagefs_paddr # 0
  => \A n \in 1 .. Ifs2Size : ram[Ifs2At(n)] = Ifs2(n)

\* The system starts from images as they were built, wherever they come from
\* and however often a boot was cut off.
ImagesIntact == ImageIntact /\ Ifs2Intact

\* Information that would be accepted together with the image describes it:
\* all that is not put back is as built, and the copies are there. A boot
\* that is cut off while it replaces the image leaves no such information.
SavedIsWhole ==
  \A a \in 1 .. RamSize :
    ValidInfo(a) /\ ValidIfs /\ ~ hurt =>
      LET e == ram[a].elf IN
      /\ \A u \in Unit : image[u] = Ok \/ \E i \in DOMAIN e : e[i].unit = u
      /\ shdr.comp => \A i \in DOMAIN e : ram[e[i].data] = Saved(e[i].unit)

\* After a completed boot and with RAM kept the image is not loaded again,
\* if it was stored elsewhere than its final place.
NoNeedlessReload ==
  pc = "load" /\ opt.enable /\ full_imagefs_paddr \notin {0, ifs_paddr} => ~ clean

\* What is saved is whole when it counts, and it does count after a completed
\* boot.
SavedRight == TypeOK /\ SavedIsWhole /\ NoNeedlessReload

\* The memory of the second image is not the kernel's.
Ifs2Reserved ==
  pc = "kernel" /\ opt.ifs2 => Units(ifs2_paddr_dst, Ifs2Size) \cap free = {}
=============================================================================
