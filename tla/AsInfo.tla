------------------------------- MODULE AsInfo -------------------------------
(***************************************************************************)
(* The address space section of the system page: as_add64.c, as_find.c,    *)
(* as_find_containing.c, as_add_containing.c, as_set_priority.c and their  *)
(* callers in ram.c and init_system_private.c.                             *)
(*                                                                         *)
(* An entry is found by its offset, here its number, and has the number of *)
(* an earlier entry as owner. A request that names a container instead of  *)
(* an owner is cut into pieces, one for each innermost entry under the     *)
(* container, which are kept together by the mark "continued".             *)
(***************************************************************************)
EXTENDS Integers, Sequences, SequencesExt, FiniteSets, FiniteSetsExt

CONSTANTS
  MemEnd,     \* last address the CPU can decode
  Below4G,    \* GIG(4) - 1
  Banks,      \* <<start, end>> of add_ram()
  Areas,      \* <<start, end>> of as_add() under "memory", as "imagefs"
  Requests,   \* [start, end, container, overlay] of as_add_containing()
  MaxEntries  \* bound of the section

VARIABLES
  asinfo,        \* the entries
  free,          \* the addresses in ram_list
  sysram_added,
  last,          \* the request just served and the entries made for it
  crashed

vars == <<asinfo, free, sysram_added, last, crashed>>

AS_NULL_OFF == 0
None == [pieces |-> 0]
Continued == "continued"
Kids == "kids"
Default == 0
High == 1

Init ==
  /\ asinfo = << >> /\ free = {} /\ sysram_added = FALSE
  /\ last = None /\ crashed = FALSE

-----------------------------------------------------------------------------
(* Entries                                                                 *)

\* as_add64() without the overlay: an entry at the end, and its owner.
Entry(start, end, attr, name, owner) ==
  [start |-> start, end |-> end, attr |-> attr, name |-> name, owner |-> owner,
   priority |-> Default]
WithKids(as, owners) ==
  [i \in DOMAIN as |->
     IF i \in owners THEN [as[i] EXCEPT !.attr = @ \cup {Kids}] ELSE as[i]]
AddEntry(as, start, end, attr, name, owner) ==
  Append(WithKids(as, {owner}), Entry(start, end, attr, name, owner))

\* as_add64() as a whole.
AsAdd64(as, start, end, overlay, name, owner) ==
  LET one == AddEntry(as, start, end, {}, name, owner)
  IN IF overlay THEN AddEntry(one, start, end, {}, "io", Len(one)) ELSE one

\* match_name(): the entry or one of its owners has the name.
MatchName(as, i, name) ==
  LET under[j \in DOMAIN as] ==
        as[j].name = name \/ (as[j].owner # AS_NULL_OFF /\ under[as[j].owner])
  IN under[i]

\* The three tests of as_find_containing().
Touches(e, start, end) ==
  \/ start >= e.start /\ start <= e.end
  \/ end >= e.start /\ end <= e.end
  \/ start <= e.start /\ end >= e.end

\* What a loop over as_find_containing() returns, from the first entry on.
AsFindContaining(as, start, end, container) ==
  {i \in DOMAIN as : MatchName(as, i, container) /\ Touches(as[i], start, end)}

\* as_find() of a single name, from the first entry on.
AsFind(as, name) == LET hits == {i \in DOMAIN as : as[i].name = name}
                    IN IF hits = {} THEN AS_NULL_OFF ELSE Min(hits)

-----------------------------------------------------------------------------
(* as_add_containing()                                                     *)

\* Mutant: the rest behind a piece is forgotten.
Split_NoRest(curr, piece) ==
  CASE curr.start = piece.start /\ curr.end = piece.end -> <<piece>>
    [] curr.start = piece.start /\ curr.end # piece.end ->
         <<piece, [curr EXCEPT !.start = piece.end + 1]>>
    [] OTHER -> <<[curr EXCEPT !.end = piece.start - 1], piece>>

\* A range of the list that has the start of a piece in it makes room.
Split(curr, piece) ==
  LET before == [curr EXCEPT !.end = piece.start - 1]
      rest == [curr EXCEPT !.start = piece.end + 1]
  IN CASE curr.start = piece.start /\ curr.end = piece.end -> <<piece>>
       [] curr.start = piece.start /\ curr.end # piece.end -> <<piece, rest>>
       [] curr.start # piece.start /\ curr.end = piece.end -> <<before, piece>>
       [] OTHER -> <<before, piece, rest>>

\* The inner loop: a piece is put where the first such range is.
PutPiece(list, piece) ==
  LET hits == {i \in DOMAIN list :
                 list[i].start <= piece.start /\ list[i].end >= piece.start}
      i == Min(hits)
  IN IF hits = {} THEN Append(list, piece)
     ELSE SubSeq(list, 1, i - 1) \o Split(list[i], piece)
            \o SubSeq(list, i + 1, Len(list))

\* The outer loop: the part of the request in each container.
Part(as, o, start, end) ==
  [start |-> IF as[o].start > start THEN as[o].start ELSE start,
   end |-> IF as[o].end < end THEN as[o].end ELSE end,
   owner |-> o]
PieceList(as, start, end, container) ==
  LET in == AsFindContaining(as, start, end, container)
      list[o \in 0 .. Len(as)] ==
        IF o = 0 THEN << >>
        ELSE IF o \in in THEN PutPiece(list[o - 1], Part(as, o, start, end)) ELSE list[o - 1]
  IN list[Len(as)]

\* The entries of the pieces; all but the last are marked.
AddPieces(as, pieces, name) ==
  LET mark(j) == IF j = Len(pieces) THEN {} ELSE {Continued}
  IN WithKids(as, {pieces[j].owner : j \in DOMAIN pieces})
     \o [j \in DOMAIN pieces |->
           Entry(pieces[j].start, pieces[j].end, mark(j), name, pieces[j].owner)]

\* The overlays of a run of marked entries, which keep the request's name.
AddOverlays(as, first, n, name) ==
  WithKids(as, first .. first + n - 1)
  \o [j \in 1 .. n |-> LET i == first + j - 1 IN Entry(as[i].start, as[i].end, {}, name, i)]

\* The ranges that are not empty.
NotEmpty(list) ==
  LET kept[j \in 0 .. Len(list)] ==
        IF j = 0 THEN << >>
        ELSE IF list[j].start <= list[j].end THEN Append(kept[j - 1], list[j]) ELSE kept[j - 1]
  IN kept[Len(list)]

\* as_add_containing(); empty ranges are left out.
AsAddContaining(as, q, name) ==
  LET pieces == NotEmpty(PieceList(as, q.start, q.end, q.container))
      made == AddPieces(as, pieces, name)
  IN [as |-> IF q.overlay THEN AddOverlays(made, Len(as) + 1, Len(pieces), name)
             ELSE made,
      n |-> Len(pieces)]

\* The run of entries from an offset that the marks hold together.
Chain(as, off) ==
  LET ends == {i \in off .. Len(as) : Continued \notin as[i].attr}
  IN off .. (IF ends = {} THEN Len(as) ELSE Min(ends))

-----------------------------------------------------------------------------
(* The callers                                                             *)

Room == ~ crashed /\ Len(asinfo) < MaxEntries
Range4(start, end, container) ==
  [start |-> start, end |-> end, container |-> container, overlay |-> FALSE]
InUse(r) == {i \in DOMAIN asinfo : Touches(asinfo[i], r[1], r[2])}
Within(r, e) == e.start <= r[1] /\ r[2] <= e.end
Served(as, q, res) ==
  [pieces |-> res.n, before |-> Len(as), req |-> q, prio |-> FALSE]

\* add_ram(): the first one makes the root and "below4G" (as_default(),
\* init_asinfo() adds nothing). Afterwards the memory is free. No bank is
\* added twice.
AddRam(b) ==
  LET root == AsAdd64(<< >>, 0, MemEnd, FALSE, "memory", AS_NULL_OFF)
      as == IF asinfo = << >> THEN AsAdd64(root, 0, Below4G, FALSE, "below4G", 1)
            ELSE asinfo
      q == Range4(b[1], b[2], "memory")
      res == AsAddContaining(as, q, "ram")
  IN /\ Room /\ ~ sysram_added
     /\ \A i \in InUse(b) : asinfo[i].name # "ram"
     /\ asinfo' = res.as
     /\ last' = Served(as, q, res)
     /\ free' = free \cup (b[1] .. b[2])
     /\ UNCHANGED <<sysram_added, crashed>>

\* as_add() of a device or an image below "memory"; it lies in one bank or
\* in none, and its RAM has been allocated.
AsAdd(r, overlay) ==
  /\ Room /\ asinfo # << >> /\ ~ sysram_added
  /\ \A i \in InUse(r) : Within(r, asinfo[i])
  /\ asinfo' = AsAdd64(asinfo, r[1], r[2], overlay, "imagefs", AsFind(asinfo, "memory"))
  /\ free' = free \ (r[1] .. r[2])
  /\ last' = None
  /\ UNCHANGED <<sysram_added, crashed>>

\* reserve_ram(): as_add_containing() in "ram" of memory that was free, and
\* fdt_asinfo(): in "memory", wherever it is.
AddContaining(q) ==
  LET res == AsAddContaining(asinfo, q, "reserved")
  IN /\ Room /\ asinfo # << >> /\ ~ sysram_added
     /\ q.container = "ram" => q.start .. q.end \subseteq free
     /\ asinfo' = res.as
     /\ last' = Served(asinfo, q, res)
     /\ free' = free \ (q.start .. q.end)
     /\ UNCHANGED <<sysram_added, crashed>>

\* as_set_priority() of the offset that as_add_containing() returned.
AsSetPriority ==
  /\ ~ crashed /\ last.pieces > 0 /\ ~ last.prio
  /\ LET run == Chain(asinfo, last.before + 1) IN
     asinfo' = [i \in DOMAIN asinfo |->
                  IF i \in run THEN [asinfo[i] EXCEPT !.priority = High]
                  ELSE asinfo[i]]
  /\ last' = [last EXCEPT !.prio = TRUE]
  /\ UNCHANGED <<free, sysram_added, crashed>>

\* The entries of ram_list: the runs of free addresses.
RamList ==
  {r \in [start : free, end : free] :
     /\ r.start <= r.end /\ r.start .. r.end \subseteq free
     /\ r.start - 1 \notin free /\ r.end + 1 \notin free}

\* add_sysram(): the entries of ram_list in ascending order.
AddRun(as, runs) ==
  IF runs = {} THEN as
  ELSE LET r == CHOOSE r \in runs : TRUE
       IN AsAddContaining(as, Range4(r.start, r.end, "ram"), "sysram").as
AddSysram ==
  /\ Room /\ asinfo # << >> /\ ~ sysram_added
  /\ LET added[a \in 0 .. MemEnd + 1] ==
           IF a = 0 THEN asinfo ELSE AddRun(added[a - 1], {r \in RamList : r.start = a - 1})
     IN asinfo' = added[MemEnd + 1]
  /\ sysram_added' = TRUE /\ last' = None
  /\ UNCHANGED <<free, crashed>>

Whole(e, addr, end) == addr <= e.start /\ end >= e.end

\* One turn of alloc_ram()'s loop over the sysram entries it touches.
CutSysram(as, off, addr, end) ==
  LET e == as[off] IN
  IF addr <= e.start THEN [as EXCEPT ![off].start = end + 1]
  ELSE LET cut == [as EXCEPT ![off].end = addr - 1] IN
       IF e.end > end THEN AddEntry(cut, end + 1, e.end, {}, "sysram", e.owner) ELSE cut

\* alloc_ram() after add_sysram(). A whole entry cannot be removed.
AllocRam(addr, end) ==
  /\ Room /\ sysram_added
  /\ LET hits == AsFindContaining(asinfo, addr, end, "sysram")
         cut[o \in 0 .. Len(asinfo)] ==
           IF o = 0 THEN asinfo
           ELSE IF o \in hits THEN CutSysram(cut[o - 1], o, addr, end) ELSE cut[o - 1]
     IN IF \E o \in hits : Whole(asinfo[o], addr, end)
        THEN crashed' = TRUE /\ UNCHANGED asinfo
        ELSE asinfo' = cut[Len(asinfo)] /\ UNCHANGED crashed
  /\ free' = free \ (addr .. end)
  /\ last' = None
  /\ UNCHANGED sysram_added

Next ==
  \/ \E b \in Banks : AddRam(b)
  \/ \E r \in Areas : \E o \in BOOLEAN : AsAdd(r, o)
  \/ \E q \in Requests : AddContaining(q)
  \/ AsSetPriority
  \/ AddSysram
  \/ \E r \in RamList :
       \E a \in r.start .. r.end : \E e \in a .. r.end : AllocRam(a, e)

Spec == Init /\ [][Next]_vars

-----------------------------------------------------------------------------
(* Properties                                                              *)

Span(e) == e.start .. e.end
Named(n) == {i \in DOMAIN asinfo : asinfo[i].name = n}
Disjoint(I) == \A i, j \in I : i # j => Span(asinfo[i]) \cap Span(asinfo[j]) = {}
Innermost(a, upto, c) ==
  Max({i \in 1 .. upto : MatchName(asinfo, i, c) /\ a \in Span(asinfo[i])})

\* Types; entries are not empty and owners come first.
TypeOK ==
  /\ \A i \in DOMAIN asinfo :
       LET e == asinfo[i] IN
       /\ e.start \in 0 .. MemEnd /\ e.end \in e.start .. MemEnd
       /\ e.owner \in 0 .. i - 1 /\ e.attr \subseteq {Kids, Continued}
       /\ e.name \in {"memory", "below4G", "ram", "imagefs", "io", "reserved", "sysram"}
       /\ e.priority \in {Default, High}
  /\ free \subseteq 0 .. MemEnd
  /\ sysram_added \in BOOLEAN /\ crashed \in BOOLEAN

\* as_add_containing() serves the request exactly: no address twice, none
\* of the containers' left out, none outside, and each under the innermost
\* container that has it, whatever banks, images and reserved areas have
\* been entered before, in which order and depth. The marks hold exactly
\* these pieces together, so that as_set_priority() reaches all of them and
\* nothing else.
PiecesExact ==
  last.pieces > 0 =>
    LET made == last.before + 1 .. last.before + last.pieces
        q == last.req
        in == {a \in q.start .. q.end : \E i \in 1 .. last.before :
                 MatchName(asinfo, i, q.container) /\ a \in Span(asinfo[i])}
    IN /\ Disjoint(made)
       /\ UNION {Span(asinfo[i]) : i \in made} = in
       /\ \A i \in made : \A a \in Span(asinfo[i]) :
            asinfo[i].owner = Innermost(a, last.before, q.container)
       /\ Chain(asinfo, last.before + 1) = made
       /\ last.prio => \A i \in last.before + 1 .. Len(asinfo) :
            asinfo[i].priority = High <=> i \in made

\* What the kernel is told it may use is what is free, once, and each piece
\* lies in the RAM it belongs to.
SysramExact ==
  sysram_added /\ ~ crashed =>
    /\ Disjoint(Named("sysram"))
    /\ UNION {Span(asinfo[i]) : i \in Named("sysram")} = free
    /\ \A i \in Named("sysram") :
         /\ MatchName(asinfo, asinfo[i].owner, "ram")
         /\ Span(asinfo[i]) \subseteq Span(asinfo[asinfo[i].owner])

\* The section tells where everything is, each address once.
AsInfoRight == TypeOK /\ PiecesExact /\ SysramExact
=============================================================================
