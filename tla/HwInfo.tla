------------------------------- MODULE HwInfo -------------------------------
(***************************************************************************)
(* The hwinfo section of the system page: a sequence of tags, some of      *)
(* which are items (groups, buses, devices, synonyms) that own the tags    *)
(* after them and point to their parent item. A board adds items with all  *)
(* their tags, many of them placeholders, and sets the placeholders later. *)
(* Drivers walk the section with the functions of libc, modelled here from *)
(* their use. A string stands for its offset in the string section.        *)
(***************************************************************************)
EXTENDS Integers, Sequences, FiniteSets, SequencesExt

CONSTANTS
  TagSize, TagAlign,  \* bytes of each kind of tag, and its alignment
  Attrs,              \* attribute records that boards use
  Names,              \* names of devices
  MaxCalls            \* bound on the calls of a board

ItemTags == {"group", "bus", "device", "synonym"}
Prefix == 4
Null   == -1    \* HWI_NULL_OFF
Illegal == 0    \* HWI_ILLEGAL_VECTOR
Round(n, a) == ((n + a - 1) \div a) * a

VARIABLES
  h,      \* the section: size, offset, last_item, and its tags by offset
  tree,   \* history: the items asked for, with their tags and parents
  ncalls  \* calls made so far

vars == <<h, tree, ncalls>>

\* What zeroed memory reads as.
Zero == [tag |-> "", size |-> 0, val |-> 0, itemname |-> "", itemsize |-> 0,
         owner |-> 0, kids |-> 0]
At(s, o) == IF o \in DOMAIN s.mem THEN s.mem[o] ELSE Zero
Write(s, o, t) ==
  [s EXCEPT !.mem = [p \in DOMAIN s.mem \cup {o} |->
                       IF p = o THEN t ELSE s.mem[p]]]

-----------------------------------------------------------------------------
(* hwi_alloc.c                                                             *)

\* A tag, and the zero prefix after it that ends the section.
Need(size) == size + Prefix
Grown(s, size) ==
  LET spare == s.size - s.offset IN
  IF Need(size) > spare
  THEN [s EXCEPT !.size = @ + Round(Need(size) - spare, 128)] ELSE s

\* hwi_alloc_tag() without its alignment: the size is added to the last
\* item, the prefix written at the end of the section.
Enlarge(s, size) ==
  Write(s, s.last_item, [At(s, s.last_item) EXCEPT !.itemsize = @ + size \div 4])
WriteTag(s, name, val) ==
  [Write(s, s.offset, [At(s, s.offset) EXCEPT !.tag = name, !.val = val,
                                              !.size = TagSize[name] \div 4])
     EXCEPT !.offset = @ + TagSize[name]]
PutTag(s, name, val) ==
  WriteTag(Enlarge(Grown(s, TagSize[name]), TagSize[name]), name, val)

\* align_tag(): a pad tag before a tag that would not be aligned.
AlignTag(s, align) ==
  IF Round(s.offset, align) = s.offset THEN s ELSE PutTag(s, "pad", 0)

AllocTag(s, name, val) == PutTag(AlignTag(s, TagAlign[name]), name, val)

\* hwi_alloc_item(): padding belongs to the item before.
StartItem(s) == [s EXCEPT !.last_item = s.offset]
NameItem(s, itemname, owner) ==
  Write(s, s.last_item,
        [At(s, s.last_item) EXCEPT !.itemname = itemname, !.owner = owner])
AddKid(s, owner) ==
  IF owner = Null THEN s
  ELSE Write(s, owner, [At(s, owner) EXCEPT !.kids = @ + 1])
AllocItem(s, name, val, itemname, owner) ==
  AddKid(NameItem(AllocTag(StartItem(AlignTag(s, TagAlign[name])), name, val),
                  itemname, owner), owner)

\* The hwitag_add functions ignore the item they are given: a tag goes to
\* the item allocated last.
AddTags(s, tags) ==
  FoldLeft(LAMBDA acc, t : AllocTag(acc, t[1], t[2]), s, tags)

-----------------------------------------------------------------------------
(* Reading the section, as libc does                                       *)

\* The offsets of the tags from one on, by their sizes, up to the zero
\* prefix.
WalkFrom(s, from) ==
  LET f[o \in 0 .. s.size + 128] ==
        IF o >= s.size THEN <<Null>>
        ELSE IF At(s, o).size = 0 THEN <<>>
        ELSE <<o>> \o f[o + 4 * At(s, o).size]
  IN  f[from]
Walk(s) == WalkFrom(s, 0)
IsItem(s, o) == At(s, o).tag \in ItemTags
Items(s) == SelectSeq(Walk(s), LAMBDA o : IsItem(s, o))

\* hwi_find_item(HWI_NULL_OFF, ...): the first item of that name, below an
\* item of the other name if two are given.
Named(s, o, path) ==
  /\ At(s, o).itemname = Last(path)
  /\ Len(path) = 2 => /\ At(s, o).owner # Null
                      /\ At(s, At(s, o).owner).itemname = path[1]
FindItem(s, path) ==
  LET m == SelectSeq(Items(s), LAMBDA o : Named(s, o, path))
  IN  IF m = <<>> THEN Null ELSE m[1]

\* hwi_tag_find(): the tags of that name from the item to the next item.
TagsOf(s, item) ==
  LET after == Tail(WalkFrom(s, item))
      next  == SelectInSeq(after, LAMBDA o : IsItem(s, o))
  IN  IF next = 0 THEN after ELSE SubSeq(after, 1, next - 1)
TagsNamed(s, item, name) ==
  SelectSeq(TagsOf(s, item), LAMBDA o : At(s, o).tag = name)
TagFind(s, item, name, idx) ==
  LET m == TagsNamed(s, item, name)
  IN  IF idx < Len(m) THEN m[idx + 1] ELSE Null

-----------------------------------------------------------------------------
(* Attributes, and the tags of each class                                  *)

Rep(n, tag) == [i \in 1 .. n |-> tag]
If(c, tag) == IF c THEN <<tag>> ELSE <<>>

\* hwitag_add_location() and its like.
LocationTag(base) == <<"location", base>>
IrqTag(vector) == <<"irq", vector>>
IrqrangeTag(start) == <<"irqrange", start>>
DllTag(dll) == <<"dll", dll>>
OptstrTag(string) == <<"optstr", string>>
ErrataTag(num) == <<"errata", num>>
DmaTag(chnl) == <<"dma", chnl>>
InputclkTag(div) == <<"inputclk", div>>
BusattrTag == <<"busattr", 0>>
NicaddrTag(addr) == <<"nicaddr", addr>>
NicphyaddrTag(addr) == <<"nicphyaddr", addr>>
RegnameTag(name) == <<"regname", name>>

\* hwiattr_common_t and HWIATTR_COMMON_INITIALIZER.
CommonAttr == [base |-> 0, num_irq |-> 0, num_errata |-> 0, num_dma |-> 0,
               dll |-> "", optstr |-> ""]

\* hwitag_add_common(): placeholders for vectors, errata and DMA channels.
CommonTags(a) ==
  <<LocationTag(a.base)>> \o Rep(a.num_irq, IrqTag(Illegal))
  \o If(a.dll # "", DllTag(a.dll)) \o If(a.optstr # "", OptstrTag(a.optstr))
  \o Rep(a.num_errata, ErrataTag(0)) \o Rep(a.num_dma, DmaTag(0))

\* The further attributes of each class, as initialized.
UartAttr  == [num_clks |-> 0]
EnetAttr  == [num_clks |-> 0, num_phys |-> 0, mac |-> 0]
RtcAttr   == [centreg |-> ""]
TimerAttr == [num_clks |-> 0]
I2cAttr   == [num_clks |-> 0, num_busattr |-> 0]
SpiAttr   == [num_clks |-> 0, num_busattr |-> 0]
SdioAttr  == [num_clks |-> 0, num_busattr |-> 0]
PciAttr   == [num_irqblks |-> 0, num_busattr |-> 0]
CanAttr   == [num_clks |-> 0, num_memaddr |-> 0]

\* A default divisor of 1 "just in case".
Clks(a) == Rep(a.num_clks, InputclkTag(1))
Busattrs(a) == Rep(a.num_busattr, BusattrTag)

UartTags(a)  == CommonTags(a) \o Clks(a)
TimerTags(a) == CommonTags(a) \o Clks(a)
DmaTags(a)   == CommonTags(a)
EnetTags(a)  == CommonTags(a) \o [i \in 1 .. a.num_phys |-> NicphyaddrTag(i - 1)]
                \o Clks(a) \o If(a.mac # 0, NicaddrTag(a.mac))
RtcTags(a)   == CommonTags(a) \o If(a.centreg # "", RegnameTag(a.centreg))
I2cTags(a)   == CommonTags(a) \o Clks(a) \o Busattrs(a)
SpiTags(a)   == CommonTags(a) \o Clks(a) \o Busattrs(a)
SdioTags(a)  == CommonTags(a) \o Clks(a) \o Busattrs(a)
UsbTags(a)   == CommonTags(a)
PciTags(a)   == CommonTags(a) \o Rep(a.num_irqblks, IrqrangeTag(Illegal)) \o Busattrs(a)
CanTags(a)   == CommonTags(a) \o Clks(a) \o Rep(a.num_memaddr, LocationTag(0))

Devs == [uart |-> UartAttr, enet |-> EnetAttr, rtc |-> RtcAttr,
         timer |-> TimerAttr, dma |-> <<>>]
Buses == [i2c |-> I2cAttr, spi |-> SpiAttr, sdio |-> SdioAttr, usb |-> <<>>,
          pci |-> PciAttr, can |-> CanAttr]
Tags(c, a) ==
  CASE c = "uart" -> UartTags(a) [] c = "enet" -> EnetTags(a)
    [] c = "rtc" -> RtcTags(a)   [] c = "timer" -> TimerTags(a)
    [] c = "dma" -> DmaTags(a)   [] c = "i2c" -> I2cTags(a)
    [] c = "spi" -> SpiTags(a)   [] c = "sdio" -> SdioTags(a)
    [] c = "usb" -> UsbTags(a)   [] c = "pci" -> PciTags(a)
    [] c = "can" -> CanTags(a)

-----------------------------------------------------------------------------
(* The board's calls                                                       *)

Init == /\ h = [size |-> Prefix, offset |-> 0, last_item |-> 0, mem |-> <<>>]
        /\ tree = <<>> /\ ncalls = 0

Call == tree # <<>> /\ ncalls < MaxCalls /\ ncalls' = ncalls + 1

\* An item of the history. Parents are indices; 0 is no parent.
Item(kind, name, parent, tags) ==
  [kind |-> kind, name |-> name, parent |-> parent, tags |-> tags]
ItemNamed(name) == SelectInSeq(tree, LAMBDA i : i.name = name)
Ask(items) == tree' = tree \o items

\* hwi_default(): the root group and the bus of unknown devices.
HwiDefault ==
  /\ tree = <<>> /\ UNCHANGED ncalls
  /\ LET s == AllocItem(h, "group", 0, "hw", Null)
     IN  h' = AllocItem(s, "bus", 0, "unknown", s.last_item)
  /\ Ask(<<Item("group", "hw", 0, <<>>), Item("bus", "unknown", 1, <<>>)>>)

\* hwi_add_device(): the bus and the class are made when not found.
Enter(in, path) ==
  LET o   == FindItem(in.s, path)
      new == AllocItem(in.s, IF Len(path) = 1 THEN "bus" ELSE "group", 0, Last(path), in.at)
  IN  IF o # Null THEN [s |-> in.s, at |-> o] ELSE [s |-> new, at |-> new.last_item]
AddDevice(s, b, c, d) ==
  LET in == FoldLeft(Enter, [s |-> s, at |-> FindItem(s, <<"hw">>)], <<<<b>>, <<b, c>>>>)
  IN  AllocItem(in.s, "device", 0, d, in.at)

\* The items it adds to the history.
Added(b, c, d, tags) ==
  LET bk == ItemNamed(b)
      bi == IF bk = 0 THEN Len(tree) + 1 ELSE bk
      t1 == IF bk = 0 THEN Append(tree, Item("bus", b, 1, <<>>)) ELSE tree
      ck == SelectInSeq(t1, LAMBDA i : i.name = c /\ i.parent = bi)
      t2 == IF ck = 0 THEN Append(t1, Item("group", c, bi, <<>>)) ELSE t1
      ci == IF ck = 0 THEN Len(t2) ELSE ck
  IN  Append(t2, Item("device", d, ci, tags))

HwiAddDevice(b, c, d) ==
  /\ Call /\ h' = AddDevice(h, b, c, d) /\ tree' = Added(b, c, d, <<>>)

\* hwi_add_rtc(): a location, and the century register if there is one.
HwiAddRtc(d, base, cent) ==
  LET tags == <<LocationTag(base)>> \o If(cent, RegnameTag("cent")) IN
  /\ Call
  /\ h' = AddTags(AddDevice(h, "unknown", "rtcs", d), tags)
  /\ tree' = Added("unknown", "rtcs", d, tags)

\* hwi_add_nanospin().
HwiAddNanospin ==
  /\ Call
  /\ h' = AllocTag(AddDevice(h, "unknown", "misc", "nanospin"), "nanospin", 7)
  /\ tree' = Added("unknown", "misc", "nanospin", <<<<"nanospin", 7>>>>)

\* aarch64_hwi_add_ppi(): a group of their own for PPIs.
HwiAddPpi(d, vector) ==
  LET cls == FindItem(h, <<"ppi">>)
      s1  == IF cls # Null THEN h
             ELSE AllocItem(h, "group", 0, "ppi", FindItem(h, <<"hw">>))
      c1  == IF cls # Null THEN cls ELSE s1.last_item
      t1  == IF ItemNamed("ppi") # 0 THEN tree
             ELSE Append(tree, Item("group", "ppi", 1, <<>>))
      ci  == IF ItemNamed("ppi") # 0 THEN ItemNamed("ppi") ELSE Len(t1)
  IN
  /\ Call
  /\ h' = AllocTag(AllocItem(s1, "device", 0, d, c1), "irq", vector)
  /\ tree' = Append(t1, Item("device", d, ci, <<IrqTag(vector)>>))

\* hwibus_add() and hwidev_add(): with a parent, or below the root or the
\* unknown bus.
Parent(p, path) == IF p # 0 THEN Items(h)[p] ELSE FindItem(h, path)
HwibusAdd(c, p, a) ==
  /\ Call
  /\ h' = AddTags(AllocItem(h, "bus", 0, c, Parent(p, <<"hw">>)), Tags(c, a))
  /\ Ask(<<Item("bus", c, IF p = 0 THEN 1 ELSE p, Tags(c, a))>>)
HwidevAdd(c, d, p, a) ==
  /\ Call
  /\ h' = AddTags(AllocItem(h, "device", 0, d, Parent(p, <<"hw", "unknown">>)),
                  Tags(c, a))
  /\ Ask(<<Item("device", d, IF p = 0 THEN 2 ELSE p, Tags(c, a))>>)

\* hwi_add_synonym(): another name for an item, below the root.
HwiAddSynonym(i, name) ==
  /\ Call
  /\ h' = AllocItem(h, "synonym", Items(h)[i], name, FindItem(h, <<"hw">>))
  /\ Ask(<<Item("synonym", name, 1, <<>>)>>)

\* The tag of the history with that name and index.
Nth(i, name, idx) ==
  LET at == SelectSeq([k \in 1 .. Len(tree[i].tags) |-> k],
                      LAMBDA k : tree[i].tags[k][1] = name)
  IN  IF idx < Len(at) THEN at[idx + 1] ELSE 0
SetNth(i, k, val) == [tree EXCEPT ![i].tags[k][2] = val]

\* Mutant: the caller's prefix is copied with the rest.
Copy_Prefix(t, val) == [Zero EXCEPT !.val = val]

\* Some setters copy the caller's structure, after putting the tag's prefix
\* into it; the others set the fields.
Copy(t, val)   == [Zero EXCEPT !.val = val, !.tag = t.tag, !.size = t.size]
Fields(t, val) == [t EXCEPT !.val = val]

Set(i, name, idx, val, How(_, _)) ==
  LET o == TagFind(h, Items(h)[i], name, idx)
      k == Nth(i, name, idx)
  IN
  /\ Call
  /\ h' = IF o = Null THEN h ELSE Write(h, o, How(At(h, o), val))
  /\ tree' = IF k = 0 THEN tree ELSE SetNth(i, k, val)

HwitagSetBusattr(i, idx)   == Set(i, "busattr", idx, 9, Copy)
HwitagSetInputclk(i, idx)  == Set(i, "inputclk", idx, 9, Copy)
HwitagSetIvec(i, idx)      == Set(i, "irq", idx, 9, Fields)
HwitagSetIvecrange(i, idx) == Set(i, "irqrange", idx, 9, Fields)
HwitagSetDma(i, idx)       == Set(i, "dma", idx, 9, Fields)
HwitagSetErrata(i, idx)    == Set(i, "errata", idx, 9, Fields)
HwitagSetNicaddr(i, idx)   == Set(i, "nicaddr", idx, 9, Fields)
HwitagSetPhyaddr(i, idx)   == Set(i, "nicphyaddr", idx, 9, Fields)

\* hwitag_set_avail_ivec(): a vector tag that is still free, the given one
\* or, for a negative index, the first.
FreeIvec(s, item, idx) ==
  LET free == SelectSeq(TagsNamed(s, item, "irq"), LAMBDA o : At(s, o).val = Illegal)
      o    == TagFind(s, item, "irq", idx)
  IN  IF idx < 0 THEN IF free = <<>> THEN Null ELSE free[1]
      ELSE IF o # Null /\ At(s, o).val = Illegal THEN o ELSE Null
HwitagSetAvailIvec(i, idx, vector) ==
  LET o    == FreeIvec(h, Items(h)[i], idx)
      free == SelectInSeq(tree[i].tags, LAMBDA t : t = <<"irq", Illegal>>)
      k    == IF idx < 0 THEN free ELSE Nth(i, "irq", idx)
  IN
  /\ Call
  /\ h' = IF o = Null THEN h ELSE Write(h, o, Fields(At(h, o), vector))
  /\ tree' = IF k = 0 \/ tree[i].tags[k][2] # Illegal THEN tree
             ELSE SetNth(i, k, vector)

AttrOf(c, a) == \A f \in DOMAIN (IF c \in DOMAIN Devs THEN Devs[c] ELSE Buses[c]) :
                  f \in DOMAIN a

Next ==
  \/ HwiDefault
  \/ \E d \in Names :
       \/ \E b \in {"unknown", "isa"} : HwiAddDevice(b, "misc", d)
       \/ \E cent \in BOOLEAN : HwiAddRtc(d, 3, cent)
       \/ HwiAddPpi(d, 5)
       \/ \E c \in DOMAIN Devs, p \in {0, Len(tree)}, a \in Attrs :
            AttrOf(c, a) /\ HwidevAdd(c, d, p, a)
       \/ \E i \in 1 .. Len(tree) : HwiAddSynonym(i, d)
  \/ HwiAddNanospin
  \/ \E c \in DOMAIN Buses, p \in {0, Len(tree)}, a \in Attrs :
       AttrOf(c, a) /\ HwibusAdd(c, p, a)
  \/ \E i \in 1 .. Len(tree) :
       \/ \E idx \in 0 .. 1 :
            \/ HwitagSetBusattr(i, idx) \/ HwitagSetInputclk(i, idx)
            \/ HwitagSetIvec(i, idx)    \/ HwitagSetIvecrange(i, idx)
            \/ HwitagSetDma(i, idx)     \/ HwitagSetErrata(i, idx)
            \/ HwitagSetNicaddr(i, idx) \/ HwitagSetPhyaddr(i, idx)
       \/ \E idx \in -1 .. 1 : HwitagSetAvailIvec(i, idx, 8)

Spec == Init /\ [][Next]_vars

-----------------------------------------------------------------------------
(* Properties                                                              *)

\* Tags of an item, without padding, as a driver finds them.
Read(s, item) ==
  LET t == SelectSeq(TagsOf(s, item), LAMBDA o : At(s, o).tag # "pad")
  IN  [k \in 1 .. Len(t) |-> <<At(s, t[k]).tag, At(s, t[k]).val>>]

\* Whatever the board adds in whatever order, and whichever placeholders it
\* sets, a driver that walks the section finds the items and tags asked
\* for: each item with its own tags in order, its parent, and the number of
\* its children.
TreeRight ==
  LET it == Items(h) IN
  /\ Len(it) = Len(tree)
  /\ \A i \in 1 .. Len(tree) :
       LET t == At(h, it[i]) IN
       /\ t.tag = tree[i].kind /\ t.itemname = tree[i].name
       /\ Read(h, it[i]) = tree[i].tags
       /\ t.owner = IF tree[i].parent = 0 THEN Null ELSE it[tree[i].parent]
       /\ t.kids = Cardinality({j \in 1 .. Len(tree) : tree[j].parent = i})

\* A walk of the section ends inside it, at the zero prefix, and the sizes
\* of the items lead from each item to the next, over padding too; every
\* tag is aligned as its structure needs.
SectionEnds ==
  LET it   == Items(h)
      walk == Walk(h)
  IN
  /\ h.offset + Prefix <= h.size
  /\ \A i \in 1 .. Len(it) :
       it[i] + 4 * At(h, it[i]).itemsize =
         IF i < Len(it) THEN it[i + 1] ELSE h.offset
  /\ \A k \in 1 .. Len(walk) : walk[k] % TagAlign[At(h, walk[k]).tag] = 0
=============================================================================
