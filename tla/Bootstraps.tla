----------------------------- MODULE Bootstraps -----------------------------
(***************************************************************************)
(* The bootstrap executables of the image (the kernel is one of them):     *)
(* load_bootstraps() of init_system_private.c goes through the directory,  *)
(* elf.c, elf32.c and elf64.c load each executable, and each is told where *)
(* the next one starts. For an image without the VIRTUAL flag the loading  *)
(* is modelled here, one memory unit at a time; with the flag it is that   *)
(* of PageMap.                                                             *)
(***************************************************************************)
EXTENDS Integers, Sequences

CONSTANTS
  Images,     \* records: inoBits, virtual, free, dir (a sequence of files)
  MemSize,    \* units of memory
  EmNative, DataNative   \* EM_NATIVE, ELFDATANATIVE

VARIABLES
  image, pc,
  dir,        \* place in the directory
  seg,        \* program header
  mem, free,
  prev,       \* place of the last bootstrap executable, 0: none
  first_bootstrap_start_vaddr,
  next_entry, \* of each executable's bootstrap data
  loader      \* class of the loader that took it

imageVars == <<dir, seg, prev, first_bootstrap_start_vaddr, next_entry, loader>>
vars == <<image, pc, imageVars, mem, free>>

File == image.dir[dir]
Phdr == File.segs[seg]
Zero == "zero"
Junk == "junk"
Run(a, n) == a .. a + n - 1

\* The segments of the files of an image, and where each is and is to be.
Segments(img) == UNION {{f} \X DOMAIN img.dir[f].segs : f \in DOMAIN img.dir}
SegmentOf(img, h) == img.dir[h[1]].segs[h[2]]
Stored(p) == Run(p.offset, p.filesz)
Linked(p) == Run(p.vaddr, p.memsz)

\* What the files say.
Segment == {p \in [load : BOOLEAN, offset : Nat, vaddr : Nat, paddr : Nat, filesz : Nat,
                   memsz : Nat] : p.filesz <= p.memsz}
FileType == [bootstrap : BOOLEAN, signature : BOOLEAN, entry : Nat, segs : Seq(Segment),
             hdr : [magic : BOOLEAN, data : STRING, class : Nat, machine : STRING,
                    phnum : Nat, phentsize : Nat]]
ImageType == [inoBits : BOOLEAN, virtual : BOOLEAN, free : SUBSET Nat, dir : Seq(FileType)]

\* Segment g of the directory is loaded after segment h.
Later(g, h) == g[1] > h[1] \/ (g[1] = h[1] /\ g[2] > h[2])

\* An image as mkifs lays it out: the segments lie apart, one with the same
\* paddr and vaddr in the place it is linked at, each is linked to memory that
\* is either all free or not free at all, and no segment is loaded over one
\* that was loaded before it or that is still to be.
LaidOut(img) ==
  \A h \in Segments(img) : LET p == SegmentOf(img, h) IN
    /\ Stored(p) \cup Linked(p) \subseteq Run(0, MemSize)
    /\ p.load => Linked(p) \subseteq img.free \/ Linked(p) \cap img.free = {}
    /\ p.load /\ p.paddr = p.vaddr =>
         p.offset = p.vaddr /\ p.filesz = p.memsz /\ Linked(p) \cap img.free = {}
    /\ \A g \in Segments(img) : LET q == SegmentOf(img, g) IN
         /\ g # h => Stored(p) \cap Stored(q) = {}
         /\ p.load /\ q.load /\ Later(g, h) => Linked(p) \cap (Stored(q) \cup Linked(q)) = {}

\* The bytes of the files.
ImageUnit(img, u) ==
  LET hits == {h \in Segments(img) : u \in Stored(SegmentOf(img, h))}
  IN  IF hits = {} THEN <<Junk>>
      ELSE LET h == CHOOSE x \in hits : TRUE
           IN  <<h[1], h[2], u - SegmentOf(img, h).offset>>

Init ==
  /\ image \in Images
  /\ pc = IF image.inoBits THEN "dir" ELSE "crashed"
  /\ dir = 1 /\ seg = 1 /\ prev = 0 /\ first_bootstrap_start_vaddr = 0
  /\ mem = [u \in Run(0, MemSize) |-> ImageUnit(image, u)]
  /\ free = image.free
  /\ next_entry = [f \in DOMAIN image.dir |-> 0]
  /\ loader = [f \in DOMAIN image.dir |-> 0]

\* is_elf32() and is_elf64()
is_elf(hdr, class) ==
  /\ hdr.magic /\ hdr.data = DataNative /\ hdr.class = class
  /\ hdr.phnum # 0 /\ hdr.phentsize = class
is_elf32(hdr) == is_elf(hdr, 32)
is_elf64(hdr) == is_elf(hdr, 64)

\* Where elf32_phdr() finds program headers; it does not look at the class.
elf32_phdr(hdr) ==
  /\ hdr.magic /\ hdr.data = DataNative
  /\ hdr.machine = EmNative /\ hdr.phnum # 0 /\ hdr.phentsize = 32
\* Where elf64_phdr() does.
elf64_phdr(hdr) == is_elf64(hdr) /\ hdr.machine = EmNative

\* The loader that load_elf() gives a file to, 0: none takes it.
load_elf(hdr) ==
  IF is_elf32(hdr) THEN IF elf32_phdr(hdr) THEN 32 ELSE 0
  ELSE IF is_elf64(hdr) /\ elf64_phdr(hdr) THEN 64 ELSE 0

Crash ==
  /\ pc' = "crashed" /\ UNCHANGED <<image, imageVars, mem, free>>

\* An entry of the directory that is to be loaded.
Entry == dir <= Len(image.dir) /\ File.bootstrap

\* A file that is not a bootstrap executable.
NextEntry ==
  /\ pc = "dir" /\ dir <= Len(image.dir) /\ ~ Entry
  /\ dir' = dir + 1
  /\ UNCHANGED <<image, pc, seg, mem, free, prev, first_bootstrap_start_vaddr,
                 next_entry, loader>>

\* load_elf32() or load_elf64(), as far as its program headers.
LoadElf ==
  /\ pc = "dir" /\ Entry
  /\ LET class == load_elf(File.hdr) IN
     IF class = 0 THEN Crash
     ELSE /\ pc' = "phdr" /\ seg' = 1 /\ loader' = [loader EXCEPT ![dir] = class]
          /\ UNCHANGED <<image, dir, mem, free, prev, first_bootstrap_start_vaddr,
                         next_entry>>

\* Mutant: the zeroes are written first.
Placed_ZeroFirst(m, p) ==
  LET z == [u \in DOMAIN m |->
              IF u \in Run(p.vaddr + p.filesz, p.memsz - p.filesz) THEN <<Zero>> ELSE m[u]]
  IN  [u \in DOMAIN m |->
         IF u \in Run(p.vaddr, p.filesz) THEN z[p.offset + (u - p.vaddr)] ELSE z[u]]
\* memmove() of a segment to the place it is linked at, then memset() of the
\* rest of its memory. The two places may overlap.
Placed(m, p) ==
  [u \in DOMAIN m |->
     IF u \in Run(p.vaddr, p.filesz) THEN m[p.offset + (u - p.vaddr)]
     ELSE IF u \in Run(p.vaddr + p.filesz, p.memsz - p.filesz) THEN <<Zero>> ELSE m[u]]

\* alloc_ram() of what is asked for, whose answer is not looked at.
Taken(fr, p) == IF Linked(p) \subseteq fr THEN fr \ Linked(p) ELSE fr

\* A program header, one to one: a segment that is not in its place is moved.
LoadSegment ==
  /\ pc = "phdr" /\ ~ image.virtual /\ seg <= Len(File.segs)
  /\ IF Phdr.load /\ Phdr.paddr # Phdr.vaddr
     THEN mem' = Placed(mem, Phdr) /\ free' = Taken(free, Phdr)
     ELSE UNCHANGED <<mem, free>>
  /\ seg' = seg + 1
  /\ UNCHANGED <<image, pc, dir, prev, first_bootstrap_start_vaddr, next_entry, loader>>

\* Where the executable that starts at entry is remembered.
Chained(entry) ==
  IF prev # 0 THEN /\ next_entry' = [next_entry EXCEPT ![prev] = entry]
                   /\ UNCHANGED first_bootstrap_start_vaddr
  ELSE first_bootstrap_start_vaddr' = entry /\ UNCHANGED next_entry

\* The executable is loaded: it is linked to the one before it, and its
\* bootstrap data is looked for.
Link ==
  /\ pc = "phdr" /\ (image.virtual \/ seg = Len(File.segs) + 1)
  /\ Chained(File.entry)
  /\ IF File.signature
     THEN pc' = "dir" /\ prev' = dir /\ dir' = dir + 1
     ELSE pc' = "crashed" /\ UNCHANGED <<prev, dir>>
  /\ UNCHANGED <<image, seg, mem, free, loader>>

\* The end of the directory.
Done ==
  /\ pc = "dir" /\ dir > Len(image.dir)
  /\ pc' = IF prev = 0 THEN "crashed" ELSE "done"
  /\ UNCHANGED <<image, imageVars, mem, free>>

Next == NextEntry \/ LoadElf \/ LoadSegment \/ Link \/ Done

Spec == Init /\ [][Next]_vars

-----------------------------------------------------------------------------
(* Properties                                                              *)

Boots == {f \in DOMAIN image.dir : image.dir[f].bootstrap}
After(f) == {g \in Boots : g > f}
Least(S) == CHOOSE x \in S : \A y \in S : x <= y
EntryOf(S) == IF S = {} THEN 0 ELSE image.dir[Least(S)].entry

\* When startup goes on to start the first bootstrap executable, following
\* the chain runs each bootstrap executable of the image once, in the order
\* of the directory, and nothing else; and each is of the right machine and
\* was read as the class that it is.
ChainRight ==
  pc = "done" =>
    /\ first_bootstrap_start_vaddr = EntryOf(Boots)
    /\ \A f \in DOMAIN image.dir :
         next_entry[f] = IF f \in Boots THEN EntryOf(After(f)) ELSE 0
    /\ \A f \in Boots : LET h == image.dir[f].hdr IN
         h.machine = EmNative /\ h.data = DataNative /\ loader[f] = h.class

\* Every segment that was loaded so far has the contents of its file and then
\* zeroes at the place it is linked at, though it may have been moved over
\* itself, and memory for it is taken from the pool unless the image had it.
PlacesRight ==
  ~ image.virtual => \A f \in Boots : \A s \in DOMAIN image.dir[f].segs :
    LET p == image.dir[f].segs[s] IN
    p.load /\ (f < dir \/ (f = dir /\ pc = "phdr" /\ s < seg)) =>
      /\ \A i \in 0 .. p.memsz - 1 :
           mem[p.vaddr + i] = IF i < p.filesz THEN <<f, s, i>> ELSE <<Zero>>
      /\ free \cap Linked(p) = {}

BootstrapsRight == ChainRight /\ PlacesRight
=============================================================================
