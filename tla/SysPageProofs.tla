--------------------------- MODULE SysPageProofs ---------------------------
(***************************************************************************)
(* The layout of the system page, for any sections, sizes and order of     *)
(* calls, and that the page implements SectionStore. Layout is not         *)
(* inductive: that a section which is set or grown pushes nothing but what *)
(* lies behind it rests on Sizes (a section has words exactly when it was  *)
(* set) and on HdrFirst (nothing lies in front of the end of the header,   *)
(* so that the page's own address never moves). The refinement needs OInv  *)
(* besides (every registered owner is the address of one word) and WInv    *)
(* (output_callouts() visits words of the page only).                      *)
(*                                                                         *)
(* That the callouts written fit what was measured rests on HookInv (every *)
(* callout of the page is in a slot of a routine in the chain) and on      *)
(* PassInv, a count of bytes: those the first pass has added up and those  *)
(* of the slots before it are at least those of all callouts; those        *)
(* written and those of the slots before the second pass are no more than  *)
(* were measured. Code is a set of bytes, so that counting is Cardinality. *)
(***************************************************************************)
EXTENDS SysPage, TLAPS, FiniteSetTheorems

LType ==
  /\ ptr \in [Section -> Nat] /\ size \in [Section -> Nat]
  /\ isset \subseteq Settable /\ {"syspage", "callout"} \subseteq isset
  /\ total_size \in Nat /\ fixed_size \in Nat /\ fixed_size <= total_size

Sizes ==
  /\ \A s \in isset : size[s] > 0
  /\ \A s \in Settable \ isset : size[s] = 0
  /\ size["syspage"] = HdrSize

HdrFirst == \A s \in Section \ {"syspage"} : base + HdrSize <= ptr[s]

LInv == LType /\ Sizes /\ HdrFirst /\ Layout

\* The section that is grown or set, where it begins and what the caller
\* does to the fixed part.
GrowsAt(s, p) ==
  \/ s \in Section \ Settable /\ p = ptr[s] /\ UNCHANGED <<isset, fixed_size>>
  \/ /\ s \in Settable \ isset /\ p = base + fixed_size
     /\ isset' = isset \cup {s}

GrowStep(s, p, n, new) ==
  /\ GrowsAt(s, p) /\ Grow(s, p, n, new)
  /\ s \in Settable => fixed_size' = fixed_size + n

\* How the sets of sections relate.
LEMMA SectionFacts ==
  /\ Settable \subseteq Section
  /\ {"syspage", "callout", "smp", "intrinfo", "cacheattr", "asinfo"}
       \subseteq Section
  /\ {"intrinfo", "cacheattr", "asinfo"} \cap Settable = {}
  /\ Grown \subseteq Section \ Settable
  /\ Fixed \subseteq Settable
  /\ "smp_spin" \notin Section
BY SectionAssumption DEF Section, Settable

\* What lies in front of the section stays, what lies behind it moves.
LEMMA GrowMoves ==
  ASSUME LInv, NEW s \in Section, NEW p, NEW n \in Nat \ {0}, NEW new,
         GrowStep(s, p, n, new)
  PROVE  /\ p \in Nat /\ base <= p /\ p + size[s] <= base + total_size
         /\ s # "syspage" /\ base + HdrSize <= p
         /\ ptr' \in [Section -> Nat] /\ size' \in [Section -> Nat]
         /\ ptr'[s] = p /\ size'[s] = size[s] + n
         /\ base' = base
         /\ total_size' = total_size + n
         /\ \A t \in Section \ {s} :
              /\ size'[t] = size[t]
              /\ \/ ptr'[t] = ptr[t] + n /\ p + size[s] <= ptr[t]
                 \/ ptr'[t] = ptr[t] /\ End(t) <= p /\ ptr[t] < p + size[s]
<1> DEFINE bottom == p + size[s]
<1>1. LType /\ Sizes /\ HdrFirst /\ Disjoint /\ Inside /\ FixedFirst
  BY DEF LInv, Layout
<1>2. s # "syspage"
  BY <1>1, SectionFacts, SectionAssumption DEF GrowStep, GrowsAt, LType, Settable
<1>3. p \in Nat /\ base <= p /\ bottom <= base + total_size /\ base + HdrSize <= p
  <2>1. base \in Nat /\ base = ptr["syspage"] /\ "syspage" \in isset /\ HdrSize \in Nat \ {0}
    BY <1>1, SectionFacts, SizeAssumption DEF LType, base
  <2>2. base + HdrSize <= base + fixed_size
    BY <2>1, <1>1, SectionFacts DEF FixedFirst, Sizes, End, LType
  <2>3. CASE s \in Section \ Settable /\ p = ptr[s]
    BY <2>1, <2>3, <1>1, <1>2 DEF LType, Inside, HdrFirst, End
  <2>4. CASE s \in Settable \ isset /\ p = base + fixed_size
    BY <2>1, <2>2, <2>4, <1>1, <1>2 DEF LType, Sizes
  <2> QED BY <2>3, <2>4 DEF GrowStep, GrowsAt
<1>4. /\ ptr' = [t \in Section |-> IF t # s /\ ptr[t] >= bottom THEN ptr[t] + n
                                  ELSE IF t = s THEN p ELSE ptr[t]]
      /\ size' = [size EXCEPT ![s] = @ + n]
      /\ total_size' = total_size + n
  BY DEF GrowStep, Grow, Moves
<1>5. \A t \in Section \ {s} : ptr[t] < bottom => End(t) <= p
  <2> TAKE t \in Section \ {s}
  <2> HAVE ptr[t] < bottom
  <2>1. CASE s \in Section \ Settable /\ p = ptr[s]
    BY <2>1, <1>1, <1>3 DEF Disjoint, End, LType
  <2>2. CASE s \in Settable \ isset /\ p = base + fixed_size
    <3>1. size[s] = 0 /\ bottom = base + fixed_size
      BY <2>2, <1>1, <1>3, SectionFacts DEF Sizes, LType
    <3> QED BY <3>1, <2>2, <1>1, <1>3, SectionFacts DEF FixedFirst, LType, base
  <2> QED BY <2>1, <2>2 DEF GrowStep, GrowsAt
<1>6. ptr["syspage"] < bottom
  BY <1>1, <1>3, SizeAssumption, SectionFacts DEF LType, base
<1> HIDE DEF bottom
<1>7. bottom \in Nat
  BY <1>1, <1>3 DEF LType, bottom
<1>8. ptr' \in [Section -> Nat] /\ size' \in [Section -> Nat]
  BY <1>1, <1>3, <1>4, <1>7 DEF LType
<1>9. base' = base
  BY <1>2, <1>4, <1>6, <1>7, <1>1, SectionFacts DEF base, LType
<1>10. \A t \in Section \ {s} :
              /\ size'[t] = size[t]
              /\ \/ ptr'[t] = ptr[t] + n /\ bottom <= ptr[t]
                 \/ ptr'[t] = ptr[t] /\ End(t) <= p /\ ptr[t] < bottom
  BY <1>1, <1>4, <1>5, <1>7 DEF LType
<1>11. ptr'[s] = p /\ size'[s] = size[s] + n
  BY <1>1, <1>4 DEF LType
<1> QED BY <1>2, <1>3, <1>4, <1>8, <1>9, <1>10, <1>11 DEF bottom

\* Making room keeps the layout.
LEMMA GrowLInv ==
  ASSUME LInv, NEW s \in Section, NEW p, NEW n \in Nat \ {0}, NEW new,
         GrowStep(s, p, n, new)
  PROVE  LInv'
<1> DEFINE bottom == p + size[s]
<1>1. LType /\ Sizes /\ HdrFirst /\ Disjoint /\ Inside /\ FixedFirst /\ NoGap
  BY DEF LInv, Layout
<1>2. /\ p \in Nat /\ base <= p /\ bottom <= base + total_size
      /\ s # "syspage" /\ base + HdrSize <= p
      /\ ptr' \in [Section -> Nat] /\ size' \in [Section -> Nat]
      /\ ptr'[s] = p /\ size'[s] = size[s] + n
      /\ base' = base /\ total_size' = total_size + n
  BY GrowMoves
<1>3. \A t \in Section \ {s} :
              /\ size'[t] = size[t]
              /\ \/ ptr'[t] = ptr[t] + n /\ bottom <= ptr[t]
                 \/ ptr'[t] = ptr[t] /\ End(t) <= p /\ ptr[t] < bottom
  BY GrowMoves
<1>4. /\ base \in Nat /\ HdrSize \in Nat \ {0} /\ bottom \in Nat
      /\ size \in [Section -> Nat] /\ ptr \in [Section -> Nat]
      /\ total_size \in Nat /\ fixed_size \in Nat
      /\ size[s] \in Nat /\ bottom = p + size[s]
  BY <1>1, <1>2, SizeAssumption, SectionFacts DEF LType, base
<1>5. \/ /\ s \in Section \ Settable /\ s \notin isset /\ p = ptr[s]
         /\ isset' = isset /\ fixed_size' = fixed_size
      \/ /\ s \in Settable \ isset /\ p = base + fixed_size /\ size[s] = 0
         /\ isset' = isset \cup {s} /\ fixed_size' = fixed_size + n
  BY <1>1 DEF GrowStep, GrowsAt, LType, Sizes
<1> HIDE DEF bottom
<1>6. LType'
  BY <1>1, <1>2, <1>4, <1>5 DEF LType
<1>7. Sizes'
  BY <1>1, <1>2, <1>3, <1>4, <1>5, SectionFacts DEF Sizes, LType
<1>8. HdrFirst'
  <2> SUFFICES ASSUME NEW t \in Section \ {"syspage"}
               PROVE base' + HdrSize <= ptr'[t]
    BY DEF HdrFirst
  <2> QED BY <1>1, <1>2, <1>3, <1>4 DEF HdrFirst
<1>9. Disjoint'
  <2> SUFFICES ASSUME NEW t \in Section, NEW u \in Section, t # u
               PROVE ptr'[t] + size'[t] <= ptr'[u] \/ ptr'[u] + size'[u] <= ptr'[t]
    BY DEF Disjoint, End
  <2>1. ptr[t] + size[t] <= ptr[u] \/ ptr[u] + size[u] <= ptr[t]
    BY <1>1 DEF Disjoint, End
  <2>2. CASE t = s
    BY <2>2, <1>2, <1>3, <1>4 DEF End
  <2>3. CASE u = s
    BY <2>3, <1>2, <1>3, <1>4 DEF End
  <2>4. CASE t # s /\ u # s
    BY <2>1, <2>4, <1>2, <1>3, <1>4 DEF End
  <2> QED BY <2>2, <2>3, <2>4
<1>10. Inside'
  <2> SUFFICES ASSUME NEW t \in Section
               PROVE base' <= ptr'[t] /\ ptr'[t] + size'[t] <= base' + total_size'
    BY DEF Inside, End
  <2>1. base <= ptr[t] /\ ptr[t] + size[t] <= base + total_size
    BY <1>1 DEF Inside, End
  <2> QED BY <2>1, <1>2, <1>3, <1>4
<1>11. FixedFirst'
  <2> SUFFICES ASSUME NEW t \in Section
               PROVE IF t \in isset' THEN ptr'[t] + size'[t] <= base' + fixed_size'
                     ELSE base' + fixed_size' <= ptr'[t]
    BY DEF FixedFirst, End
  <2>1. IF t \in isset THEN ptr[t] + size[t] <= base + fixed_size
        ELSE base + fixed_size <= ptr[t]
    BY <1>1 DEF FixedFirst, End
  <2>2. t \in isset => size[t] > 0
    BY <1>1 DEF Sizes
  <2>3. CASE s \notin Settable
    <3>1. base + fixed_size <= p
      BY <2>3, <1>1, <1>4, <1>5 DEF FixedFirst
    <3> QED BY <2>1, <2>2, <2>3, <3>1, <1>2, <1>3, <1>4, <1>5
  <2>4. CASE s \in Settable
    <3>1. p = base + fixed_size /\ bottom = p
      BY <2>4, <1>4, <1>5
    <3> QED BY <2>1, <2>2, <2>4, <3>1, <1>2, <1>3, <1>4, <1>5
  <2> QED BY <2>3, <2>4
<1>12. NoGap'
  <2> SUFFICES ASSUME NEW a \in base' .. base' + total_size' - 1
               PROVE \E t \in Section : ptr'[t] <= a /\ a < ptr'[t] + size'[t]
    BY DEF NoGap, End
  <2>0. a \in Nat /\ base <= a /\ a < base + total_size + n
    BY <1>2, <1>4
  <2>1. CASE bottom <= a /\ a < bottom + n
    BY <2>0, <2>1, <1>2, <1>4
  <2>2. CASE a < bottom
    <3>1. PICK t \in Section : ptr[t] <= a /\ a < ptr[t] + size[t]
      BY <2>0, <2>2, <1>1, <1>2, <1>4 DEF NoGap, End
    <3>2. CASE t = s
      <4>1. p = ptr[s]
        BY <3>1, <3>2, <2>0, <1>4, <1>5
      <4> QED BY <3>1, <3>2, <4>1, <2>0, <1>2, <1>4
    <3>3. CASE t # s
      BY <3>1, <3>3, <2>0, <2>2, <1>3, <1>4
    <3> QED BY <3>2, <3>3
  <2>3. CASE bottom + n <= a
    <3>1. a - n \in base .. base + total_size - 1 /\ bottom <= a - n /\ a - n \in Nat
      BY <2>0, <2>3, <1>2, <1>4
    <3>2. PICK t \in Section : ptr[t] <= a - n /\ a - n < ptr[t] + size[t]
      BY <3>1, <1>1 DEF NoGap, End
    <3>3. t # s
      BY <3>1, <3>2, <1>4, <1>5
    <3>4. ptr'[t] = ptr[t] + n /\ size'[t] = size[t]
      BY <3>1, <3>2, <3>3, <1>2, <1>3, <1>4 DEF End
    <3> QED BY <3>2, <3>4, <2>0, <1>4
  <2> QED BY <2>0, <2>1, <2>2, <2>3, <1>4
<1> QED BY <1>6, <1>7, <1>8, <1>9, <1>10, <1>11, <1>12 DEF LInv, Layout

-----------------------------------------------------------------------------
(* The actions                                                             *)

\* A request of at least a byte is at least a word.
LEMMA WordsPositive == \A b \in Nat \ {0} : Words(b) \in Nat \ {0}
BY DEF Words

\* The step of an action that makes a section longer.
Grows(s, p, n, new) ==
  /\ s \in Section /\ n \in Nat \ {0}
  /\ GrowStep(s, p, n, new)

layoutVars == <<ptr, size, isset, total_size, fixed_size>>

\* The callers of grow_syspage_section() ...
LEMMA GrowPlainGrows ==
  ASSUME NEW s \in Section \ Settable, NEW n \in Nat \ {0}, GrowPlain(s, n)
  PROVE  Grows(s, ptr[s], n, [i \in 0 .. n - 1 |-> Data(s, size[s] + i)])
BY DEF GrowPlain, Grows, GrowStep, GrowsAt

\* ... of set_syspage_section() ...
LEMMA SetGrows ==
  ASSUME NEW s \in Settable, NEW n \in Nat \ {0}, NEW new, Set(s, n, new)
  PROVE  Grows(s, base + fixed_size, n, new)
BY SectionFacts DEF Set, Grows, GrowStep, GrowsAt

\* ... and the interrupt and cache entries make room in this way.
LEMMA EntryGrows ==
  ASSUME NEW s \in {"intrinfo", "cacheattr"}, NEW new,
         Grow(s, ptr[s], EntrySize, new), UNCHANGED <<isset, fixed_size>>
  PROVE  Grows(s, ptr[s], EntrySize, new)
BY SectionFacts DEF Grows, GrowStep, GrowsAt, EntrySize

\* Every step grows a section, moves the page or leaves the layout alone.
LEMMA LayoutStep ==
  ASSUME [Next]_vars
  PROVE  \/ \E s, p, n, new : Grows(s, p, n, new)
         \/ RelocSyspageMemory
         \/ UNCHANGED layoutVars
<1> USE DEF layoutVars
<1>1. ASSUME NEW s \in Grown, NEW b \in GrowSize[s], GrowSection(s, b)
      PROVE  \E t, p, n, new : Grows(t, p, n, new)
  <2>1. Words(b) \in Nat \ {0} /\ s \in Section \ Settable
    BY SizeAssumption, WordsPositive, SectionFacts
  <2>2. GrowPlain(s, Words(b))
    BY <1>1 DEF GrowSection
  <2> QED BY <2>1, <2>2, GrowPlainGrows
<1>2. ASSUME NEW s \in Fixed, SetSection(s)
      PROVE  \E t, p, n, new : Grows(t, p, n, new)
  <2> DEFINE k == Words(SetSize[s])
  <2>1. k \in Nat \ {0} /\ s \in Settable
    BY SizeAssumption, WordsPositive, SectionFacts
  <2>2. \E new : Set(s, k, new)
    BY <1>2 DEF SetSection
  <2> QED BY <2>1, <2>2, SetGrows
<1>3. ASSUME AsAdd \/ Split PROVE \E t, p, n, new : Grows(t, p, n, new)
  <2>1. AsSize \in Nat \ {0} /\ "asinfo" \in Section \ Settable
    BY SizeAssumption, SectionFacts
  <2>2. GrowPlain("asinfo", AsSize)
    BY <1>3 DEF AsAdd, Split
  <2> QED BY <2>1, <2>2, GrowPlainGrows
<1>4. ASSUME NEW i, NEW r, AddCallout(i, r) PROVE UNCHANGED layoutVars
  BY <1>4 DEF AddCallout
<1>5. ASSUME NEW r, NEW d, AddInterrupt(r, d)
      PROVE  \E t, p, n, new : Grows(t, p, n, new)
  <2>1. /\ \E new : Grow("intrinfo", ptr["intrinfo"], EntrySize, new)
        /\ UNCHANGED <<isset, fixed_size>>
    BY <1>5 DEF AddInterrupt
  <2> QED BY <2>1, EntryGrows
<1>6. ASSUME NEW v, NEW r, AddCache(v, r)
      PROVE  UNCHANGED layoutVars \/ \E t, p, n, new : Grows(t, p, n, new)
  <2>1. \/ UNCHANGED layoutVars
        \/ /\ \E new : Grow("cacheattr", ptr["cacheattr"], EntrySize, new)
           /\ UNCHANGED <<isset, fixed_size>>
    BY <1>6 DEF AddCache, lspVars
  <2> QED BY <2>1, EntryGrows
<1>7. ASSUME NEW r, InitSmp(r) PROVE \E t, p, n, new : Grows(t, p, n, new)
  <2>1. \E new : Set("smp", 1, new)
    BY <1>7 DEF InitSmp
  <2> QED BY <2>1, SetGrows, SectionFacts DEF Settable
<1>8. ASSUME NEW n, GrowCrash(n) PROVE UNCHANGED layoutVars
  BY <1>8 DEF GrowCrash, lspVars
<1>9. ASSUME AllocSyspageMemory \/ SizeOne \/ SizeDone \/ Freeze
      PROVE  UNCHANGED layoutVars
  BY <1>9 DEF AllocSyspageMemory, SizeOne, SizeDone, Freeze, lspVars
<1>10. ASSUME WriteOne \/ WriteDone \/ NextRoutine PROVE UNCHANGED layoutVars
  BY <1>10 DEF WriteOne, WriteDone, NextRoutine, lspVars
<1>11. ASSUME UNCHANGED vars PROVE UNCHANGED layoutVars
  BY <1>11 DEF vars, lspVars
<1> QED BY <1>1, <1>2, <1>3, <1>4, <1>5, <1>6, <1>7, <1>8, <1>9, <1>10, <1>11
        DEF Next

\* reloc_syspage_memory() keeps the layout.
LEMMA RelocLInv == ASSUME LInv, RelocSyspageMemory PROVE LInv'
<1> DEFINE diff == TempBase - base
<1>1. /\ ptr' = [s \in Section |-> ptr[s] + diff]
      /\ UNCHANGED <<size, isset, total_size, fixed_size>>
  BY DEF RelocSyspageMemory
<1>2. /\ TempBase \in Nat /\ base \in Nat /\ diff \in Int
      /\ "syspage" \in Section /\ HdrSize \in Nat
      /\ base + diff = TempBase /\ base = ptr["syspage"]
  BY SizeAssumption, SectionFacts DEF LInv, LType, base
<1> HIDE DEF diff
<1>3. base' = base + diff
  BY <1>1, <1>2 DEF base
<1>4. ptr \in [Section -> Nat] /\ size \in [Section -> Nat]
      /\ fixed_size \in Nat /\ total_size \in Nat /\ isset \subseteq Section
  BY SectionFacts DEF LInv, LType
<1>5. \A s \in Section : ptr'[s] = ptr[s] + diff /\ base <= ptr[s]
                         /\ ptr'[s] \in Nat
  BY <1>1, <1>2, <1>4 DEF LInv, Layout, Inside
<1>6. LType'
  BY <1>1, <1>5 DEF LInv, LType
<1>7. Sizes' /\ HdrFirst'
  BY <1>1, <1>2, <1>3, <1>4, <1>5 DEF LInv, Sizes, HdrFirst
<1>8. Disjoint' /\ Inside'
  BY <1>1, <1>2, <1>3, <1>4, <1>5 DEF LInv, Layout, Disjoint, Inside, End
<1>9. FixedFirst'
  BY <1>1, <1>2, <1>3, <1>4, <1>5 DEF LInv, Layout, FixedFirst, End
<1>10. NoGap'
  <2> SUFFICES ASSUME NEW a \in base' .. base' + total_size' - 1
               PROVE \E t \in Section : ptr'[t] <= a /\ a < ptr'[t] + size'[t]
    BY DEF NoGap, End
  <2>1. a - diff \in base .. base + total_size - 1 /\ a \in Int
    BY <1>1, <1>2, <1>3, <1>4
  <2>2. PICK t \in Section : ptr[t] <= a - diff /\ a - diff < ptr[t] + size[t]
    BY <2>1 DEF LInv, Layout, NoGap, End
  <2> QED BY <2>1, <2>2, <1>1, <1>2, <1>4, <1>5
<1> QED BY <1>6, <1>7, <1>8, <1>9, <1>10 DEF LInv, Layout

\* init_syspage_memory() establishes it.
LEMMA InitLInv == Init => LInv
<1> SUFFICES ASSUME Init PROVE LInv
  OBVIOUS
<1> DEFINE rest == InitBase + HdrSize + NumSlots
<1>1. /\ {InitBase, HdrSize, NumSlots, rest} \subseteq Nat
      /\ HdrSize > 0 /\ NumSlots > 0
  BY SizeAssumption
<1>2. /\ ptr \in [Section -> Nat] /\ size \in [Section -> Nat]
      /\ base = InitBase /\ ptr["syspage"] = InitBase
      /\ ptr["callout"] = InitBase + HdrSize
      /\ size["syspage"] = HdrSize /\ size["callout"] = NumSlots
      /\ isset = {"syspage", "callout"}
      /\ total_size = HdrSize + NumSlots /\ fixed_size = HdrSize + NumSlots
      /\ \A s \in Section \ {"syspage", "callout"} : ptr[s] = rest /\ size[s] = 0
  BY <1>1, SectionFacts DEF Init, base
<1>3. LType /\ Sizes /\ HdrFirst
  BY <1>1, <1>2, SectionFacts DEF LType, Sizes, HdrFirst, Settable
<1>4. \A s \in Section : s = "syspage" \/ s = "callout"
                         \/ s \in Section \ {"syspage", "callout"}
  OBVIOUS
<1>5. Disjoint /\ Inside /\ FixedFirst
  BY <1>1, <1>2, <1>4 DEF Disjoint, Inside, FixedFirst, End
<1>6. NoGap
  <2> SUFFICES ASSUME NEW a \in base .. base + total_size - 1
               PROVE \E t \in Section : ptr[t] <= a /\ a < ptr[t] + size[t]
    BY DEF NoGap, End
  <2>1. a < InitBase + HdrSize \/ InitBase + HdrSize <= a
    BY <1>1, <1>2
  <2> QED BY <2>1, <1>1, <1>2, SectionFacts
<1> QED BY <1>3, <1>5, <1>6 DEF LInv, Layout

\* Every step keeps it.
LEMMA NextLInv == LInv /\ [Next]_vars => LInv'
<1> SUFFICES ASSUME LInv, [Next]_vars PROVE LInv'
  OBVIOUS
<1>1. ASSUME NEW s, NEW p, NEW n, NEW new, Grows(s, p, n, new) PROVE LInv'
  BY <1>1, GrowLInv DEF Grows
<1>2. ASSUME UNCHANGED layoutVars PROVE LInv'
  BY <1>2 DEF layoutVars, LInv, LType, Sizes, HdrFirst, Layout, Disjoint, Inside,
              FixedFirst, NoGap, End, base
<1> QED BY <1>1, <1>2, RelocLInv, LayoutStep

\* Layout is an invariant: the sections never overlap and fill the page,
\* whatever the order of set_syspage_section(), grow_syspage_section() and
\* reloc_syspage_memory().
THEOREM LayoutIsRight == Spec => []Layout
<1>1. LInv => Layout
  BY DEF LInv
<1> QED BY <1>1, InitLInv, NextLInv, PTL DEF Spec

\* A set section stays where it is until the page is relocated.
THEOREM FixedSectionsStay == Spec => FixedStay
<1>1. ASSUME LInv, [Next]_vars
      PROVE  [base' = base => \A s \in isset : ptr'[s] = ptr[s]]_vars
  <2> SUFFICES ASSUME base' = base, NEW s \in isset PROVE ptr'[s] = ptr[s]
    OBVIOUS
  <2>0. s \in Section /\ ptr[s] \in Nat /\ size[s] \in Nat \ {0} /\ base \in Nat
    BY <1>1, SectionFacts DEF LInv, LType, Sizes, base
  <2>1. ASSUME NEW t, NEW p, NEW n, NEW new, Grows(t, p, n, new)
        PROVE  ptr'[s] = ptr[s]
    <3>1. t \in Section /\ n \in Nat \ {0} /\ GrowStep(t, p, n, new)
      BY <2>1 DEF Grows
    <3>2. s # t
      BY <1>1, <3>1 DEF GrowStep, GrowsAt, LInv, LType
    <3>3. \A u \in Section \ {t} :
             /\ size'[u] = size[u]
             /\ \/ ptr'[u] = ptr[u] + n /\ p + size[t] <= ptr[u]
                \/ ptr'[u] = ptr[u] /\ End(u) <= p /\ ptr[u] < p + size[t]
      BY <1>1, <3>1, GrowMoves
    <3>4. base + fixed_size <= p
      <4>1. /\ fixed_size \in Nat /\ isset \subseteq Settable
            /\ \A u \in Section \ isset : base + fixed_size <= ptr[u]
        BY <1>1 DEF LInv, LType, Layout, FixedFirst
      <4>2. (p = ptr[t] /\ t \notin Settable) \/ p = base + fixed_size
        BY <3>1 DEF GrowStep, GrowsAt
      <4> QED BY <2>0, <3>1, <4>1, <4>2
    <3>5. ptr[s] + size[s] <= base + fixed_size
      BY <1>1, <2>0 DEF LInv, Layout, FixedFirst, End
    <3>6. p \in Nat /\ size[t] \in Nat /\ fixed_size \in Nat
      BY <1>1, <3>1, GrowMoves DEF LInv, LType
    <3> QED BY <2>0, <3>1, <3>2, <3>3, <3>4, <3>5, <3>6
  <2>2. ASSUME RelocSyspageMemory PROVE ptr'[s] = ptr[s]
    <3>1. /\ ptr' = [t \in Section |-> ptr[t] + (TempBase - base)]
          /\ base = ptr["syspage"] /\ base' = ptr'["syspage"]
      BY <2>2 DEF RelocSyspageMemory, base
    <3>2. base' = base + (TempBase - base) /\ TempBase \in Nat
      BY <3>1, SectionFacts, SizeAssumption
    <3>3. TempBase - base = 0
      BY <2>0, <3>2
    <3> QED BY <2>0, <3>1, <3>3
  <2>3. ASSUME UNCHANGED layoutVars PROVE ptr'[s] = ptr[s]
    BY <2>3 DEF layoutVars
  <2> QED BY <1>1, <2>1, <2>2, <2>3, LayoutStep
<1> QED BY <1>1, InitLInv, NextLInv, PTL DEF Spec, FixedStay

-----------------------------------------------------------------------------
(* SysPage implements SectionStore                                         *)

MInv == mem \in [0 .. total_size - 1 -> Cell]

\* Every owner is the address of a word of a section, and no two patch data
\* have the same owner.
Words0(s) == 0 .. size[s] - 1
IsWord(a, s, i) == s \in Section /\ i \in Words0(s) /\ a = ptr[s] + i
OInv ==
  /\ patch_data \subseteq [owner : Nat, data : IntrData \cup {DbgDevice}]
  /\ \A pd \in patch_data : \E s, i : IsWord(pd.owner, s, i)
  /\ \A pd, q \in patch_data : pd.owner = q.owner => pd = q

\* An address belongs to one word of one section.
OneWord ==
  LInv => \A a, s, i, t, j : IsWord(a, s, i) /\ IsWord(a, t, j) => s = t /\ i = j

\* It follows from the layout.
LEMMA AddrInjective == OneWord
<1> SUFFICES ASSUME LInv, NEW a, NEW s, NEW i, NEW t, NEW j,
                    IsWord(a, s, i), IsWord(a, t, j)
             PROVE  s = t /\ i = j
  BY DEF OneWord
<1>1. /\ s \in Section /\ t \in Section /\ ptr[s] \in Nat /\ ptr[t] \in Nat
      /\ size[s] \in Nat /\ size[t] \in Nat
      /\ i \in 0 .. size[s] - 1 /\ j \in 0 .. size[t] - 1
      /\ ptr[s] + i = ptr[t] + j
  BY DEF IsWord, Words0, LInv, LType
<1>2. s # t => ptr[s] + size[s] <= ptr[t] \/ ptr[t] + size[t] <= ptr[s]
  BY <1>1 DEF LInv, Layout, Disjoint, End
<1>3. s = t
  BY <1>1, <1>2
<1> QED BY <1>1, <1>3

\* The refinement mapping of the registered data, without addresses of
\* slots.
RegisteredIs ==
  \A x : x \in Registered <=>
          \E s, i : \E pd \in patch_data :
            x = <<<<s, i>>, pd.data>> /\ IsWord(pd.owner, s, i)

\* It is the mapping SysPage uses.
LEMMA RegisteredDef == RegisteredIs
<1> SUFFICES ASSUME NEW x
             PROVE  x \in Registered <=>
                      \E s, i : \E pd \in patch_data :
                        x = <<<<s, i>>, pd.data>> /\ IsWord(pd.owner, s, i)
  BY DEF RegisteredIs
<1>1. ASSUME NEW s \in Section, NEW i
      PROVE  Addr(<<s, i>>) = ptr[s] + i /\ <<s, i>> # Spin
  BY SectionFacts DEF Addr, Spin
<1>2. \A y : y \in AllSlots <=> \E s \in Section : \E i \in Words0(s) : y = <<s, i>>
  BY DEF AllSlots, Words0
<1>3. ASSUME NEW s, NEW i, NEW pd \in patch_data, x = <<<<s, i>>, pd.data>>,
             IsWord(pd.owner, s, i)
      PROVE  x \in Registered
  <2>1. <<s, i>> \in AllSlots /\ pd.owner = Addr(<<s, i>>)
    BY <1>1, <1>2, <1>3 DEF IsWord
  <2>2. <<<<s, i>>, pd>> \in Owned
    BY <2>1 DEF Owned
  <2> QED BY <2>2, <1>3 DEF Registered
<1>4. ASSUME x \in Registered
      PROVE  \E s, i : \E pd \in patch_data :
               x = <<<<s, i>>, pd.data>> /\ IsWord(pd.owner, s, i)
  <2>1. PICK o \in Owned : x = <<o[1], o[2].data>>
    BY <1>4 DEF Registered
  <2>2. o[1] \in AllSlots /\ o[2] \in patch_data /\ o[2].owner = Addr(o[1])
    BY DEF Owned
  <2>3. PICK s \in Section : \E i \in Words0(s) : o[1] = <<s, i>>
    BY <2>2, <1>2
  <2>4. PICK i \in Words0(s) : o[1] = <<s, i>>
    BY <2>3
  <2> QED BY <2>1, <2>2, <2>4, <1>1 DEF IsWord
<1> QED BY <1>3, <1>4

\* Growing a section keeps the words of all of them.
LEMMA GrowWords ==
  ASSUME LInv, MInv, NEW s \in Section, NEW p, NEW n \in Nat \ {0}, NEW new,
         GrowStep(s, p, n, new), new \in [0 .. n - 1 -> Cell]
  PROVE  /\ MInv'
         /\ \A t \in Section : \A i \in Words0(t) :
              mem'[ptr'[t] - base' + i] = mem[ptr[t] - base + i]
<1> DEFINE off == (p + size[s]) - base
<1>1. mem' = [a \in 0 .. total_size + n - 1 |->
                  IF a < off THEN mem[a]
                  ELSE IF a < off + n THEN new[a - off] ELSE mem[a - n]]
  BY DEF GrowStep, Grow
<1>2. /\ p \in Nat /\ base <= p /\ p + size[s] <= base + total_size
      /\ ptr' \in [Section -> Nat]
      /\ ptr'[s] = p /\ size'[s] = size[s] + n
      /\ base' = base /\ total_size' = total_size + n
  BY GrowMoves
<1>3. \A t \in Section \ {s} :
              /\ size'[t] = size[t]
              /\ \/ ptr'[t] = ptr[t] + n /\ p + size[s] <= ptr[t]
                 \/ ptr'[t] = ptr[t] /\ End(t) <= p /\ ptr[t] < p + size[s]
  BY GrowMoves
<1>4. /\ base \in Nat /\ ptr \in [Section -> Nat] /\ size \in [Section -> Nat]
      /\ total_size \in Nat
      /\ \A t \in Section : base <= ptr[t] /\ ptr[t] + size[t] <= base + total_size
  BY SectionFacts DEF LInv, LType, Layout, Inside, End, base
<1>5. off \in Nat /\ off <= total_size /\ off = (p + size[s]) - base
  BY <1>2, <1>4
<1> HIDE DEF off
<1>6. MInv'
  <2>1. ASSUME NEW a \in 0 .. total_size + n - 1
        PROVE  (IF a < off THEN mem[a]
                ELSE IF a < off + n THEN new[a - off] ELSE mem[a - n]) \in Cell
    <3>1. CASE a < off
      BY <3>1, <1>4, <1>5 DEF MInv
    <3>2. CASE ~ (a < off) /\ a < off + n
      <4>1. a - off \in 0 .. n - 1
        BY <3>2, <1>5
      <4> QED BY <3>2, <4>1
    <3>3. CASE ~ (a < off) /\ ~ (a < off + n)
      <4>1. a - n \in 0 .. total_size - 1
        BY <3>3, <1>4, <1>5
      <4> QED BY <3>3, <4>1 DEF MInv
    <3> QED BY <3>1, <3>2, <3>3
  <2>2. mem' \in [0 .. total_size + n - 1 -> Cell]
    BY <1>1, <2>1
  <2>3. total_size' - 1 = total_size + n - 1
    BY <1>2, <1>4
  <2> QED BY <2>2, <2>3 DEF MInv, Cell
<1>7. ASSUME NEW t \in Section, NEW i \in Words0(t)
      PROVE  mem'[ptr'[t] - base' + i] = mem[ptr[t] - base + i]
  <2> DEFINE a == ptr'[t] - base + i
  <2>0. /\ i \in Nat /\ i < size[t] /\ ptr[t] \in Nat /\ size[t] \in Nat
        /\ size[s] \in Nat /\ base <= ptr[t] /\ ptr[t] + size[t] <= base + total_size
        /\ ptr'[t] \in Nat /\ base \in Nat /\ total_size \in Nat /\ p \in Nat
    BY <1>2, <1>4, <1>7 DEF Words0
  <2>1. CASE t = s
    <3>1. p = ptr[s]
      BY <2>0, <2>1 DEF GrowStep, GrowsAt, LInv, Sizes
    <3>2. a \in 0 .. total_size + n - 1 /\ a < off /\ a = ptr[t] - base + i
      BY <2>0, <2>1, <3>1, <1>2, <1>4, <1>5
    <3> QED BY <3>2, <1>1, <1>2
  <2>2. CASE t # s /\ ptr'[t] = ptr[t] + n /\ p + size[s] <= ptr[t]
    <3> DEFINE c == ptr[t] - base + i
    <3>0. c \in Nat /\ c < total_size
      BY <2>0
    <3>1. c \in Nat /\ c < total_size /\ a = c + n
      <4>1. ptr'[t] = ptr[t] + n
        BY <2>2
      <4> QED BY <2>0, <3>0, <4>1
    <3>2. off <= c
      BY <2>0, <2>2, <1>5, SMTT(30)
    <3> HIDE DEF a, c
    <3>3. /\ a \in 0 .. total_size + n - 1 /\ ~ (a < off) /\ ~ (a < off + n)
          /\ a - n = c
      BY <3>1, <3>2, <2>0, <1>5
    <3>4. mem'[a] = mem[c]
      BY <3>3, <1>1
    <3> QED BY <3>4, <1>2 DEF a, c
  <2>3. CASE t # s /\ ptr'[t] = ptr[t] /\ ptr[t] + size[t] <= p
    <3> DEFINE c == ptr[t] - base + i
    <3>1. c \in Nat /\ c < total_size /\ a = c
      BY <2>0, <2>3
    <3>2. c < off
      BY <2>0, <2>3, <1>5, SMTT(30)
    <3> HIDE DEF a, c
    <3>3. a \in 0 .. total_size + n - 1 /\ a < off
      BY <3>1, <3>2, <2>0
    <3>4. mem'[a] = mem[c]
      BY <3>1, <3>3, <1>1
    <3> QED BY <3>4, <1>2 DEF a, c
  <2> QED BY <2>1, <2>2, <2>3, <1>3 DEF End
<1> QED BY <1>6, <1>7

\* The owners move with their words.
MovesTo(pd, q, s, p, n) ==
  q = RelocOwner(pd, p + size[s], total_size - (p + size[s] - base), n)

\* A moved owner is the address of the same word.
LEMMA GrowOwners ==
  ASSUME LInv, OInv, NEW s, NEW p, NEW n, NEW new, Grows(s, p, n, new),
         NEW pd \in patch_data, NEW t, NEW i, IsWord(pd.owner, t, i),
         NEW q, MovesTo(pd, q, s, p, n)
  PROVE  /\ q \in [owner : Nat, data : IntrData \cup {DbgDevice}]
         /\ q.data = pd.data /\ q.owner = ptr'[t] + i
         /\ t \in Section /\ i \in 0 .. size'[t] - 1
<1>0. s \in Section /\ n \in Nat \ {0} /\ GrowStep(s, p, n, new)
  BY DEF Grows
<1>1. /\ pd \in [owner : Nat, data : IntrData \cup {DbgDevice}]
      /\ t \in Section /\ i \in Nat /\ i < size[t] /\ pd.owner = ptr[t] + i
      /\ ptr[t] \in Nat /\ size[t] \in Nat /\ size[s] \in Nat
  BY <1>0 DEF OInv, IsWord, Words0, LInv, LType
<1>2. /\ p \in Nat /\ base <= p /\ p + size[s] <= base + total_size
      /\ ptr'[s] = p /\ size'[s] = size[s] + n
  BY <1>0, GrowMoves
<1>3. \A u \in Section \ {s} :
              /\ size'[u] = size[u]
              /\ \/ ptr'[u] = ptr[u] + n /\ p + size[s] <= ptr[u]
                 \/ ptr'[u] = ptr[u] /\ End(u) <= p /\ ptr[u] < p + size[s]
  BY <1>0, GrowMoves
<1>4. /\ base \in Nat /\ total_size \in Nat
      /\ ptr[t] + size[t] <= base + total_size
  BY <1>1, SectionFacts DEF LInv, LType, Layout, Inside, End, base
<1> DEFINE hit == pd.owner >= p + size[s]
                  /\ pd.owner < p + size[s] + (total_size - (p + size[s] - base))
<1>5. q = IF hit THEN [pd EXCEPT !.owner = @ + n] ELSE pd
  BY DEF MovesTo, RelocOwner
<1>6. hit <=> pd.owner >= p + size[s]
  BY <1>0, <1>1, <1>2, <1>4
<1> HIDE DEF hit
<1>7. CASE t = s
  <2>1. p = ptr[s]
    BY <1>0, <1>1, <1>7 DEF GrowStep, GrowsAt, LInv, Sizes
  <2>2. ~ hit
    BY <1>0, <2>1, <1>1, <1>2, <1>6, <1>7
  <2> QED BY <1>0, <2>1, <2>2, <1>1, <1>2, <1>5, <1>7
<1>8. CASE t # s /\ ptr'[t] = ptr[t] + n /\ p + size[s] <= ptr[t]
  <2>1. hit
    BY <1>0, <1>1, <1>2, <1>6, <1>8
  <2>2. q = [pd EXCEPT !.owner = pd.owner + n]
    BY <2>1, <1>5
  <2>3. q.data = pd.data /\ q.owner = pd.owner + n
        /\ q \in [owner : Nat, data : IntrData \cup {DbgDevice}]
    BY <1>0, <2>2, <1>1
  <2> QED BY <1>0, <2>3, <1>1, <1>3, <1>8
<1>9. CASE t # s /\ ptr'[t] = ptr[t] /\ ptr[t] + size[t] <= p
  <2>1. ~ hit
    BY <1>0, <1>1, <1>2, <1>6, <1>9
  <2> QED BY <1>0, <2>1, <1>1, <1>3, <1>5, <1>9
<1> QED BY <1>0, <1>1, <1>3, <1>7, <1>8, <1>9 DEF End

\* The same two facts of the next state.
LEMMA NextFacts == OneWord' /\ RegisteredIs'
BY AddrInjective, RegisteredDef, PTL

\* Section s grows, and data d may be registered for its new word k.
Appends(s, p, n, new, k, d) ==
  /\ Grows(s, p, n, new) /\ new \in [0 .. n - 1 -> Cell]
  /\ k \in size[s] .. size[s] + n - 1 /\ d \in IntrData \cup {DbgDevice}
  /\ \E E \in SUBSET {[owner |-> p + k, data |-> d]} :
       patch_data' = GrowData(s, p, n) \cup E
  /\ out' = out

\* The registered data of the old words stays, with at most one new one.
LEMMA GrowRegistered ==
  ASSUME LInv, LInv', OInv, NEW s, NEW p, NEW n, NEW new, NEW k, NEW d,
         Appends(s, p, n, new, k, d)
  PROVE  /\ OInv'
         /\ Registered \subseteq Registered'
         /\ \A x \in Registered' \ Registered : x = <<<<s, k>>, d>>
<1> DEFINE Q == GrowData(s, p, n)
           len == total_size - (p + size[s] - base)
           to(pd) == RelocOwner(pd, p + size[s], len, n)
           mv(pd, q) == MovesTo(pd, q, s, p, n)
<1>0. /\ s \in Section /\ n \in Nat \ {0} /\ GrowStep(s, p, n, new)
      /\ k \in Nat /\ size[s] \in Nat /\ size[s] <= k /\ k < size[s] + n
      /\ d \in IntrData \cup {DbgDevice}
  BY DEF Appends, Grows, LInv, LType
<1>e. PICK E \in SUBSET {[owner |-> p + k, data |-> d]} :
             patch_data' = GrowData(s, p, n) \cup E
  BY DEF Appends
<1>1. /\ \A q \in Q : \E pd \in patch_data : mv(pd, q)
      /\ \A pd \in patch_data : \E q \in Q : mv(pd, q)
  <2>1. Q = {to(pd) : pd \in patch_data}
    BY DEF GrowData, CalloutRelocData
  <2>2. \A pd, q : mv(pd, q) <=> q = to(pd)
    BY DEF MovesTo
  <2> HIDE DEF to, Q, mv
  <2> QED BY <2>1, <2>2
<1>2. ASSUME NEW pd \in patch_data, NEW t, NEW i, IsWord(pd.owner, t, i),
             NEW q, mv(pd, q)
      PROVE  /\ q \in [owner : Nat, data : IntrData \cup {DbgDevice}]
             /\ q.data = pd.data /\ IsWord(q.owner, t, i)'
  <2>1. /\ q \in [owner : Nat, data : IntrData \cup {DbgDevice}]
        /\ q.data = pd.data /\ q.owner = ptr'[t] + i
        /\ t \in Section /\ i \in 0 .. size'[t] - 1
    <3>1. Grows(s, p, n, new) /\ MovesTo(pd, q, s, p, n)
      BY <1>2 DEF Appends
    <3> HIDE DEF mv, to, len
    <3> QED BY <1>2, <3>1, GrowOwners
  <2> QED BY <2>1 DEF IsWord, Words0
<1>3. ASSUME NEW e \in E
      PROVE  /\ e \in [owner : Nat, data : IntrData \cup {DbgDevice}]
             /\ e = [owner |-> p + k, data |-> d]
             /\ e.data = d
             /\ IsWord(e.owner, s, k)'
  <2>1. /\ p \in Nat /\ ptr'[s] = p /\ size'[s] = size[s] + n /\ size[s] \in Nat
    BY <1>0, GrowMoves
  <2>2. e = [owner |-> p + k, data |-> d]
    BY <1>3
  <2>3. p + k \in Nat /\ k \in 0 .. size'[s] - 1
    BY <1>0, <2>1
  <2> QED BY <1>0, <2>1, <2>2, <2>3 DEF IsWord, Words0
<1> HIDE DEF Q, mv
<1>4. patch_data' = Q \cup E
  BY <1>e DEF Q
<1>5. \A pd \in patch_data : \E t, i : IsWord(pd.owner, t, i)
  BY DEF OInv
<1>6. \A q \in Q : \E pd \in patch_data : \E t, i :
          /\ mv(pd, q) /\ IsWord(pd.owner, t, i)
          /\ q \in [owner : Nat, data : IntrData \cup {DbgDevice}]
          /\ q.data = pd.data /\ IsWord(q.owner, t, i)'
  <2> TAKE q \in Q
  <2>1. PICK pd \in patch_data : mv(pd, q)
    BY <1>1
  <2>2. PICK t, i : IsWord(pd.owner, t, i)
    BY <1>5
  <2>3. /\ q \in [owner : Nat, data : IntrData \cup {DbgDevice}]
        /\ q.data = pd.data /\ IsWord(q.owner, t, i)'
    BY <1>2, <2>1, <2>2
  <2> QED BY <2>1, <2>2, <2>3
<1>7. patch_data' \subseteq [owner : Nat, data : IntrData \cup {DbgDevice}]
  BY <1>3, <1>4, <1>6
<1>8. \A q \in patch_data' : \E t, i : IsWord(q.owner, t, i)'
  BY <1>3, <1>4, <1>6
<1>9. OneWord' /\ RegisteredIs' /\ OneWord /\ RegisteredIs
  BY NextFacts, AddrInjective, RegisteredDef
<1>10. ASSUME NEW x \in patch_data', NEW y \in patch_data', x.owner = y.owner
       PROVE  x = y
  <2>1. ASSUME NEW q \in Q, NEW e \in E PROVE q.owner # e.owner
    <3>0. \E t, i : \E pd \in patch_data :
            IsWord(pd.owner, t, i) /\ IsWord(q.owner, t, i)'
      BY <1>6, <2>1
    <3>1. PICK t, i : \E pd \in patch_data :
            IsWord(pd.owner, t, i) /\ IsWord(q.owner, t, i)'
      BY <3>0
    <3>2. IsWord(e.owner, s, k)'
      BY <1>3, <2>1
    <3>3. t = s => i < size[s] /\ i \in Nat /\ size[s] \in Nat
      BY <1>0, <3>1 DEF IsWord, Words0
    <3> QED BY <1>0, <3>1, <3>2, <3>3, <1>9 DEF OneWord
  <2>2. CASE x \in Q /\ y \in Q
    <3>1. PICK pd \in patch_data : \E t, i :
            mv(pd, x) /\ IsWord(pd.owner, t, i) /\ IsWord(x.owner, t, i)'
      BY <1>6, <2>2
    <3>2. PICK pe \in patch_data : \E t, i :
            mv(pe, y) /\ IsWord(pe.owner, t, i) /\ IsWord(y.owner, t, i)'
      BY <1>6, <2>2
    <3>3. pd.owner = pe.owner
      BY <3>1, <3>2, <1>9, <1>10 DEF OneWord, IsWord
    <3>4. pd = pe
      BY <3>3 DEF OInv
    <3> QED BY <3>1, <3>2, <3>4 DEF mv, MovesTo
  <2>3. CASE x \in E /\ y \in E
    BY <1>3, <2>3
  <2> QED BY <1>4, <1>10, <2>1, <2>2, <2>3
<1>11. ASSUME NEW x \in Registered PROVE x \in Registered'
  <2>1. PICK t, i : \E pd \in patch_data :
               x = <<<<t, i>>, pd.data>> /\ IsWord(pd.owner, t, i)
    BY <1>9, <1>11 DEF RegisteredIs
  <2>2. PICK pd \in patch_data : x = <<<<t, i>>, pd.data>> /\ IsWord(pd.owner, t, i)
    BY <2>1
  <2>3. PICK q \in Q : mv(pd, q)
    BY <1>1
  <2>4. q \in patch_data' /\ x = <<<<t, i>>, q.data>> /\ IsWord(q.owner, t, i)'
    BY <1>2, <1>4, <2>2, <2>3
  <2> QED BY <2>4, <1>9 DEF RegisteredIs
<1>12. ASSUME NEW x \in Registered', x \notin Registered
       PROVE  x = <<<<s, k>>, d>>
  <2>1. PICK t, i : \E q \in patch_data' :
               x = <<<<t, i>>, q.data>> /\ IsWord(q.owner, t, i)'
    BY <1>9, <1>12 DEF RegisteredIs
  <2>2. PICK q \in patch_data' : x = <<<<t, i>>, q.data>> /\ IsWord(q.owner, t, i)'
    BY <2>1
  <2>3. CASE q \in Q
    <3>1. PICK pd \in patch_data : \E u, j :
            /\ mv(pd, q) /\ IsWord(pd.owner, u, j)
            /\ q.data = pd.data /\ IsWord(q.owner, u, j)'
      BY <1>6, <2>3
    <3>2. PICK u, j : /\ IsWord(pd.owner, u, j)
                      /\ q.data = pd.data /\ IsWord(q.owner, u, j)'
      BY <3>1
    <3>3. t = u /\ i = j
      BY <3>2, <2>2, <1>9 DEF OneWord
    <3>4. x = <<<<u, j>>, pd.data>>
      BY <3>2, <3>3, <2>2
    <3>5. x \in Registered
      BY <3>2, <3>4, <1>9 DEF RegisteredIs
    <3> QED BY <3>5, <1>12
  <2>4. CASE q \in E
    <3>1. q.data = d /\ IsWord(q.owner, s, k)'
      BY <1>3, <2>4
    <3>2. t = s /\ i = k
      BY <3>1, <2>2, <1>9 DEF OneWord
    <3> QED BY <3>1, <3>2, <2>2
  <2> QED BY <2>3, <2>4, <1>4
<1> QED BY <1>7, <1>8, <1>10, <1>11, <1>12 DEF OInv

\* What the users of a section see, before and after a step.
ContentsIs ==
  /\ DOMAIN Contents = Section
  /\ \A t \in Section : /\ DOMAIN Contents[t] = 0 .. size[t] - 1
                        /\ \A i \in 0 .. size[t] - 1 :
                             Contents[t][i] = mem[ptr[t] - base + i]
                        /\ Contents[t] = [i \in 0 .. size[t] - 1 |-> Contents[t][i]]

\* It is the mapping SysPage uses ...
LEMMA ContentsHolds == ContentsIs
BY DEF Contents, ContentsIs

\* ... and the same of the next state.
LEMMA ContentsHoldsNext == ContentsIs'
BY ContentsHolds, PTL

\* Growing a section is an Append.
LEMMA AppendStep ==
  ASSUME LInv, LInv', MInv, OInv, NEW s, NEW p, NEW n, NEW new, NEW k, NEW d,
         Appends(s, p, n, new, k, d)
  PROVE  MInv' /\ OInv' /\ Store!Append(s) /\ s \in Section
<1>0. /\ s \in Section /\ n \in Nat \ {0} /\ GrowStep(s, p, n, new)
      /\ new \in [0 .. n - 1 -> Cell]
      /\ k \in Nat /\ size[s] \in Nat /\ size[s] <= k /\ k < size[s] + n
      /\ out' = out
  BY DEF Appends, Grows, LInv, LType
<1>1. MInv'
  BY <1>0, GrowWords
<1>2. /\ \A t \in Section : \A i \in 0 .. size[t] - 1 :
           mem'[ptr'[t] - base' + i] = mem[ptr[t] - base + i]
  BY <1>0, GrowWords DEF Words0
<1>3. size'[s] = size[s] + n /\ \A t \in Section \ {s} : size'[t] = size[t]
  BY <1>0, GrowMoves
<1>4. ContentsIs /\ ContentsIs'
  BY ContentsHolds, ContentsHoldsNext
<1>5. size[s] \in Nat
  BY <1>0
<1>6. \A i \in 0 .. size[s] - 1 : i \in 0 .. size'[s] - 1
  BY <1>0, <1>3, <1>5
<1>7. /\ DOMAIN Contents[s] \subseteq DOMAIN Contents'[s]
      /\ \A i \in DOMAIN Contents[s] : Contents'[s][i] = Contents[s][i]
  <2>1. DOMAIN Contents[s] = 0 .. size[s] - 1
    BY <1>0, <1>4 DEF ContentsIs
  <2>2. DOMAIN Contents'[s] = 0 .. size'[s] - 1
    BY <1>0, <1>4 DEF ContentsIs
  <2>3. ASSUME NEW i \in 0 .. size[s] - 1 PROVE Contents'[s][i] = Contents[s][i]
    <3>1. i \in 0 .. size'[s] - 1
      BY <1>6
    <3>2. Contents'[s][i] = mem'[ptr'[s] - base' + i]
      BY <1>0, <1>4, <3>1 DEF ContentsIs
    <3>3. Contents[s][i] = mem[ptr[s] - base + i]
      BY <1>0, <1>4 DEF ContentsIs
    <3> QED BY <1>0, <3>2, <3>3, <1>2
  <2> QED BY <1>6, <2>1, <2>2, <2>3
<1>8. ASSUME NEW t \in Section \ {s} PROVE Contents'[t] = Contents[t]
  <2>1. \A i \in 0 .. size[t] - 1 : Contents'[t][i] = Contents[t][i]
    BY <1>2, <1>3, <1>4 DEF ContentsIs
  <2>2. /\ Contents[t] = [i \in 0 .. size[t] - 1 |-> Contents[t][i]]
        /\ Contents'[t] = [i \in 0 .. size[t] - 1 |-> Contents'[t][i]]
    BY <1>3, <1>4 DEF ContentsIs
  <2> QED BY <2>1, <2>2
<1>9. k \in DOMAIN Contents'[s] \ DOMAIN Contents[s]
  BY <1>0, <1>3, <1>4, <1>5 DEF ContentsIs
<1>10. /\ OInv'
       /\ Registered \subseteq Registered'
       /\ \A x \in Registered' \ Registered : x = <<<<s, k>>, d>>
  BY GrowRegistered
<1>11. \A x \in Registered' \ Registered :
         x[1][1] = s /\ x[1][2] \in DOMAIN Contents'[s] \ DOMAIN Contents[s]
  BY <1>9, <1>10
<1>12. UNCHANGED {<<o.slot, o.data>> : o \in PatchedOut}
  BY <1>0 DEF PatchedOut, Spin
<1>13. DOMAIN Contents = Section
  BY <1>4 DEF ContentsIs
<1> QED BY <1>0, <1>1, <1>7, <1>8, <1>10, <1>11, <1>12, <1>13 DEF Store!Append

\* A step that touches neither the page, nor the data, nor the output.
storeVars == <<ptr, size, isset, mem, total_size, fixed_size, patch_data, out>>

\* Such a step is invisible.
LEMMA StutterStep ==
  ASSUME MInv, OInv, UNCHANGED storeVars
  PROVE  MInv' /\ OInv' /\ UNCHANGED Store!vars
<1>1. MInv' /\ OInv'
  BY DEF storeVars, MInv, OInv, IsWord, Words0, Cell
<1>2. UNCHANGED <<Contents, Registered, PatchedOut>>
  BY DEF storeVars, Contents, Registered, Owned, AllSlots, Addr, base, PatchedOut
<1> QED BY <1>1, <1>2 DEF Store!vars

\* Moving the whole page moves the owners with it.
LEMMA RelocStep ==
  ASSUME LInv, LInv', MInv, OInv, RelocSyspageMemory
  PROVE  MInv' /\ OInv' /\ UNCHANGED Store!vars
<1> DEFINE diff == TempBase - base
           to(pd) == RelocOwner(pd, base, total_size, diff)
           mv(pd, q) == q = to(pd)
<1>1. /\ ptr' = [s \in Section |-> ptr[s] + diff]
      /\ patch_data' = {to(pd) : pd \in patch_data}
      /\ UNCHANGED <<size, mem, total_size, out>>
  BY DEF RelocSyspageMemory, allocVars, CalloutRelocData
<1>2. /\ TempBase \in Nat /\ base \in Nat /\ diff \in Int
      /\ base = ptr["syspage"] /\ base' = ptr'["syspage"]
      /\ ptr \in [Section -> Nat] /\ ptr' \in [Section -> Nat]
      /\ size \in [Section -> Nat] /\ total_size \in Nat
      /\ \A s \in Section : base <= ptr[s] /\ ptr[s] + size[s] <= base + total_size
  BY SizeAssumption, SectionFacts DEF LInv, LType, base, Layout, Inside, End
<1> HIDE DEF diff
<1>3. /\ base' = base + diff
      /\ \A s \in Section : ptr'[s] = ptr[s] + diff /\ ptr'[s] - base' = ptr[s] - base
  BY <1>1, <1>2, SectionFacts
<1>4. ASSUME NEW pd \in patch_data, NEW t, NEW i, IsWord(pd.owner, t, i), NEW q, mv(pd, q)
      PROVE  /\ q \in [owner : Nat, data : IntrData \cup {DbgDevice}]
             /\ q.data = pd.data /\ IsWord(q.owner, t, i)'
  <2>1. /\ pd \in [owner : Nat, data : IntrData \cup {DbgDevice}]
        /\ t \in Section /\ i \in 0 .. size[t] - 1 /\ pd.owner = ptr[t] + i
    BY <1>4 DEF OInv, IsWord, Words0
  <2>2. pd.owner >= base /\ pd.owner < base + total_size
    BY <2>1, <1>2
  <2>3. q = [pd EXCEPT !.owner = pd.owner + diff]
    BY <2>2, <1>4 DEF RelocOwner
  <2>4. pd.owner + diff = ptr'[t] + i /\ ptr'[t] + i \in Nat
    <3>1. /\ ptr[t] \in Nat /\ ptr'[t] \in Nat /\ ptr'[t] = ptr[t] + diff
          /\ size[t] \in Nat /\ i \in Nat
      BY <2>1, <1>2, <1>3
    <3> QED BY <3>1, <2>1, <1>2
  <2>5. q.data = pd.data /\ q.owner = ptr'[t] + i
        /\ q \in [owner : Nat, data : IntrData \cup {DbgDevice}]
    BY <2>1, <2>3, <2>4
  <2> QED BY <2>1, <2>5, <1>1 DEF IsWord, Words0
<1>5. /\ \A q \in patch_data' : \E pd \in patch_data : mv(pd, q)
      /\ \A pd \in patch_data : \E q \in patch_data' : mv(pd, q)
  <2> HIDE DEF to
  <2> QED BY <1>1
<1> HIDE DEF mv
<1>6. \A q \in patch_data' : \E pd \in patch_data : \E t, i :
          /\ mv(pd, q) /\ IsWord(pd.owner, t, i)
          /\ q \in [owner : Nat, data : IntrData \cup {DbgDevice}]
          /\ q.data = pd.data /\ IsWord(q.owner, t, i)'
  <2> TAKE q \in patch_data'
  <2>1. PICK pd \in patch_data : mv(pd, q)
    BY <1>5
  <2>2. PICK t, i : IsWord(pd.owner, t, i)
    BY DEF OInv
  <2> QED BY <1>4, <2>1, <2>2
<1>7. OneWord' /\ RegisteredIs' /\ OneWord /\ RegisteredIs
  BY NextFacts, AddrInjective, RegisteredDef
<1>8. ASSUME NEW x \in patch_data', NEW y \in patch_data', x.owner = y.owner
      PROVE  x = y
  <2>1. PICK pd \in patch_data : \E t, i :
          mv(pd, x) /\ IsWord(pd.owner, t, i) /\ IsWord(x.owner, t, i)'
    BY <1>6
  <2>2. PICK pe \in patch_data : \E t, i :
          mv(pe, y) /\ IsWord(pe.owner, t, i) /\ IsWord(y.owner, t, i)'
    BY <1>6
  <2>3. pd.owner = pe.owner
    BY <2>1, <2>2, <1>7, <1>8 DEF OneWord, IsWord
  <2>4. pd = pe
    BY <2>3 DEF OInv
  <2> QED BY <2>1, <2>2, <2>4 DEF mv
<1>9. OInv'
  BY <1>6, <1>8 DEF OInv
<1>10. ASSUME NEW x PROVE x \in Registered <=> x \in Registered'
  <2>1. ASSUME x \in Registered PROVE x \in Registered'
    <3>1. PICK t, i : \E pd \in patch_data :
                 x = <<<<t, i>>, pd.data>> /\ IsWord(pd.owner, t, i)
      BY <2>1, <1>7 DEF RegisteredIs
    <3>2. PICK pd \in patch_data : x = <<<<t, i>>, pd.data>> /\ IsWord(pd.owner, t, i)
      BY <3>1
    <3>3. PICK q \in patch_data' : mv(pd, q)
      BY <1>5
    <3>4. x = <<<<t, i>>, q.data>> /\ IsWord(q.owner, t, i)'
      BY <1>4, <3>2, <3>3
    <3> QED BY <3>4, <1>7 DEF RegisteredIs
  <2>2. ASSUME x \in Registered' PROVE x \in Registered
    <3>1. PICK t, i : \E q \in patch_data' :
                 x = <<<<t, i>>, q.data>> /\ IsWord(q.owner, t, i)'
      BY <2>2, <1>7 DEF RegisteredIs
    <3>2. PICK q \in patch_data' : x = <<<<t, i>>, q.data>> /\ IsWord(q.owner, t, i)'
      BY <3>1
    <3>3. PICK pd \in patch_data : \E u, j :
              /\ IsWord(pd.owner, u, j)
              /\ q.data = pd.data /\ IsWord(q.owner, u, j)'
      BY <1>6
    <3>4. PICK u, j : /\ IsWord(pd.owner, u, j)
                      /\ q.data = pd.data /\ IsWord(q.owner, u, j)'
      BY <3>3
    <3>5. t = u /\ i = j
      BY <3>2, <3>4, <1>7 DEF OneWord
    <3>6. x = <<<<u, j>>, pd.data>>
      BY <3>2, <3>4, <3>5
    <3> QED BY <3>4, <3>6, <1>7 DEF RegisteredIs
  <2> QED BY <2>1, <2>2
<1>11. Registered' = Registered
  BY <1>10
<1>12. Contents' = Contents
  BY <1>1, <1>3 DEF Contents
<1>13. MInv'
  BY <1>1 DEF MInv, Cell
<1>14. PatchedOut' = PatchedOut
  BY <1>1 DEF PatchedOut, Spin
<1> QED BY <1>9, <1>11, <1>12, <1>13, <1>14 DEF Store!vars

\* One word of a section is written: its own and no other's.
Wrote(z, v) == mem' = [mem EXCEPT ![z] = v]
WordChanged(s, i) == Contents' = [Contents EXCEPT ![s][i] = Contents'[s][i]]

\* Writing a word of a section changes that word of Contents.
LEMMA WordWritten ==
  ASSUME LInv, MInv, NEW s \in Section, NEW i \in Words0(s), NEW v \in Cell,
         NEW z, z = (ptr[s] + i) - base, Wrote(z, v),
         UNCHANGED <<ptr, size, total_size>>
  PROVE  /\ MInv'
         /\ WordChanged(s, i)
<1>1. /\ ptr \in [Section -> Nat] /\ size \in [Section -> Nat] /\ total_size \in Nat
      /\ base \in Nat /\ i \in 0 .. size[s] - 1
      /\ \A t \in Section : base <= ptr[t] /\ ptr[t] + size[t] <= base + total_size
  BY SectionFacts DEF LInv, LType, base, Layout, Inside, End, Words0
<1>2. (ptr[s] + i) - base \in 0 .. total_size - 1
  BY <1>1
<1>3. MInv'
  BY <1>2 DEF MInv, Cell, Wrote
<1>4. ASSUME NEW t \in Section, NEW j \in 0 .. size[t] - 1, t # s \/ j # i
      PROVE  mem'[ptr[t] - base + j] = mem[ptr[t] - base + j]
  <2>1. IsWord(ptr[t] + j, t, j) /\ IsWord(ptr[s] + i, s, i)
    BY <1>4 DEF IsWord, Words0
  <2>2. ptr[t] + j # ptr[s] + i
    BY <2>1, <1>4, AddrInjective DEF OneWord
  <2>3. ptr[t] - base + j # (ptr[s] + i) - base
    BY <2>2, <1>1, <1>4
  <2>4. ptr[t] - base + j \in 0 .. total_size - 1
    BY <1>1, <1>4
  <2> QED BY <2>3, <2>4 DEF MInv, Wrote
<1>5. base' = base
  BY DEF base
<1>6. ContentsIs /\ ContentsIs'
  BY ContentsHolds, ContentsHoldsNext
<1>7. /\ Contents = [t \in Section |-> Contents[t]]
      /\ Contents' = [t \in Section |-> Contents'[t]]
  BY DEF Contents
<1>8. ASSUME NEW t \in Section, t # s PROVE Contents'[t] = Contents[t]
  <2>1. \A j \in 0 .. size[t] - 1 : Contents'[t][j] = Contents[t][j]
    BY <1>4, <1>5, <1>6, <1>8 DEF ContentsIs
  <2>2. /\ Contents[t] = [j \in 0 .. size[t] - 1 |-> Contents[t][j]]
        /\ Contents'[t] = [j \in 0 .. size[t] - 1 |-> Contents'[t][j]]
    BY <1>6 DEF ContentsIs
  <2> QED BY <2>1, <2>2
<1>9. Contents'[s] = [Contents[s] EXCEPT ![i] = Contents'[s][i]]
  <2>1. \A j \in 0 .. size[s] - 1 : j # i => Contents'[s][j] = Contents[s][j]
    BY <1>4, <1>5, <1>6 DEF ContentsIs
  <2>2. /\ Contents[s] = [j \in 0 .. size[s] - 1 |-> Contents[s][j]]
        /\ Contents'[s] = [j \in 0 .. size[s] - 1 |-> Contents'[s][j]]
    BY <1>6 DEF ContentsIs
  <2> QED BY <2>1, <2>2, <1>1
<1>10. Contents' = [Contents EXCEPT ![s] = [Contents[s] EXCEPT ![i] = Contents'[s][i]]]
  BY <1>7, <1>8, <1>9
<1> QED BY <1>3, <1>10 DEF WordChanged

\* The words of a section are the domain of its contents.
LEMMA WrittenInDomain ==
  ASSUME NEW s \in Section, NEW i \in Words0(s)
  PROVE  s \in DOMAIN Contents /\ i \in DOMAIN Contents[s]
BY ContentsHolds DEF ContentsIs, Words0

\* add_callout()
LEMMA AddCalloutStep ==
  ASSUME LInv, LInv', MInv, OInv, size["callout"] = NumSlots,
         NEW i \in 0 .. NumSlots - 1, NEW r \in Rtn, AddCallout(i, r)
  PROVE  MInv' /\ OInv' /\ Store!Write("callout")
<1> DEFINE a == ptr["callout"] + i
           e == [owner |-> a, data |-> DbgDevice]
<1>1. /\ Wrote(a - base, Callout(r))
      /\ patch_data' = patch_data
         \/ /\ patch_data' = patch_data \cup {e}
            /\ \A pd \in patch_data : pd.owner # a
      /\ UNCHANGED <<ptr, size, isset, total_size, fixed_size, out>>
  <2>1. UNCHANGED <<ptr, size, isset, total_size, fixed_size, out>>
    BY DEF AddCallout, allocVars
  <2>0. Wrote(a - base, Callout(r))
    BY Zenon DEF AddCallout, Wrote
  <2>2. patch_data' = patch_data \/ patch_data' = RegisterData(patch_data, a, r, DbgDevice)
    BY DEF AddCallout
  <2> QED BY <2>0, <2>1, <2>2 DEF RegisterData
<1>2. "callout" \in Section /\ i \in Words0("callout") /\ Callout(r) \in Cell
  BY SectionFacts DEF Words0, Callout, Cell
<1>3. /\ MInv'
      /\ WordChanged("callout", i)
  <2> DEFINE v == Callout(r)
             z == a - base
             s == "callout"
  <2>1. UNCHANGED <<ptr, size, total_size>>
    BY <1>1
  <2>2. Wrote(z, v) /\ v \in Cell /\ s \in Section /\ i \in Words0(s)
    BY <1>1, <1>2, Zenon
  <2>3. z = (ptr[s] + i) - base
    OBVIOUS
  <2> HIDE DEF v, z, s, a
  <2>4. MInv' /\ WordChanged(s, i)
    BY <2>1, <2>2, <2>3, WordWritten
  <2> QED BY <2>4 DEF s
<1>4. /\ a \in Nat /\ IsWord(a, "callout", i)
      /\ e \in [owner : Nat, data : IntrData \cup {DbgDevice}]
      /\ e.owner = a /\ e.data = DbgDevice
  BY <1>2 DEF LInv, LType, IsWord, Words0
<1> HIDE DEF a, e
<1>5. \A b, s, j : IsWord(b, s, j)' <=> IsWord(b, s, j)
  BY <1>1 DEF IsWord, Words0
<1>6. OInv'
  BY <1>1, <1>4, <1>5 DEF OInv
<1>7. OneWord' /\ RegisteredIs' /\ OneWord /\ RegisteredIs
  BY NextFacts, AddrInjective, RegisteredDef
<1>8. patch_data \subseteq patch_data'
  BY <1>1
<1>9. Registered \subseteq Registered'
  <2> SUFFICES ASSUME NEW x \in Registered PROVE x \in Registered'
    OBVIOUS
  <2>1. PICK t, j : \E pd \in patch_data :
               x = <<<<t, j>>, pd.data>> /\ IsWord(pd.owner, t, j)
    BY <1>7 DEF RegisteredIs
  <2>2. \E pd \in patch_data' :
               x = <<<<t, j>>, pd.data>> /\ IsWord(pd.owner, t, j)'
    BY <1>5, <1>8, <2>1
  <2> QED BY <2>2, <1>7 DEF RegisteredIs
<1>10. ASSUME NEW x \in Registered', x \notin Registered
       PROVE  x[1] = <<"callout", i>> /\ ~ Store!HasData(x[1])
  <2>1. PICK t, j : \E pd \in patch_data' :
               x = <<<<t, j>>, pd.data>> /\ IsWord(pd.owner, t, j)'
    BY <1>7, <1>10 DEF RegisteredIs
  <2>2. PICK pd \in patch_data' :
               x = <<<<t, j>>, pd.data>> /\ IsWord(pd.owner, t, j)
    BY <2>1, <1>5
  <2>3. pd \notin patch_data
    BY <2>2, <1>7, <1>10 DEF RegisteredIs
  <2>4. pd.owner = a /\ \A q \in patch_data : q.owner # a
    BY <1>1, <1>4, <2>3
  <2>5. t = "callout" /\ j = i
    BY <2>2, <2>4, <1>4, <1>7 DEF OneWord
  <2>6. ASSUME NEW y \in Registered, y[1] = x[1] PROVE FALSE
    <3>1. PICK u, k : \E q \in patch_data :
                 y = <<<<u, k>>, q.data>> /\ IsWord(q.owner, u, k)
      BY <2>6, <1>7 DEF RegisteredIs
    <3>2. PICK q \in patch_data : y = <<<<u, k>>, q.data>> /\ IsWord(q.owner, u, k)
      BY <3>1
    <3>3. u = t /\ k = j
      BY <3>2, <2>2, <2>6
    <3>4. q.owner = a
      BY <3>2, <3>3, <2>2, <2>4 DEF IsWord
    <3> QED BY <3>4, <2>4
  <2> QED BY <2>2, <2>5, <2>6 DEF Store!HasData
<1>11. UNCHANGED {<<o.slot, o.data>> : o \in PatchedOut}
  BY <1>1 DEF PatchedOut, Spin
<1>12. i \in DOMAIN Contents["callout"]
  BY <1>2, WrittenInDomain
<1> QED BY <1>3, <1>6, <1>9, <1>10, <1>11, <1>12 DEF Store!Write, WordChanged

\* The routines in the chain, and the slots they visit.
HookName == {"callout", "smp", "intrinfo", "cacheattr"}
HasSlots(h) == h \in HookName /\ (h = "smp" => size["smp"] > 0)
WInv ==
  /\ hooks \in Seq(HookName) /\ todo \in Seq(HookName) /\ at \in Nat \ {0}
  /\ \A i \in 1 .. Len(hooks) : HasSlots(hooks[i])
  /\ \A i \in 1 .. Len(todo) : HasSlots(todo[i])
  /\ size["callout"] = NumSlots

\* A visited slot is smp_spin's or a word of a section.
LEMMA SlotIsWord ==
  ASSUME LInv, WInv, Visiting
  PROVE  Slot = Spin \/ \E s \in Section : \E i \in Words0(s) : Slot = <<s, i>>
<1> DEFINE h == Head(todo)
<1>1. /\ todo # << >> /\ at \in Nat \ {0} /\ at <= Len(SlotsOf(h))
      /\ Slot = SlotsOf(h)[at]
  BY DEF Visiting, Slot, WInv
<1>2. HasSlots(h)
  <2>1. Len(todo) \in Nat /\ Len(todo) >= 1 /\ Head(todo) = todo[1]
    BY <1>1 DEF WInv
  <2> QED BY <2>1 DEF WInv
<1> HIDE DEF h
<1>3. CASE h = "callout"
  <2>1. SlotsOf(h) = [i \in 1 .. NumSlots |-> <<h, i - 1>>]
    BY <1>3 DEF SlotsOf
  <2>2. NumSlots \in Nat /\ Len(SlotsOf(h)) = NumSlots
    BY <2>1, SizeAssumption
  <2>3. at \in 1 .. NumSlots
    BY <1>1, <2>2
  <2>4. Slot = <<h, at - 1>>
    BY <1>1, <2>1, <2>3
  <2>5. "callout" \in Section /\ at - 1 \in Words0("callout")
    BY <2>2, <2>3, SectionFacts DEF WInv, Words0
  <2> QED BY <2>4, <2>5, <1>3
<1>4. CASE h = "smp"
  <2>1. SlotsOf(h) = <<Spin, <<h, 0>>>>
    BY <1>4 DEF SlotsOf
  <2>2. Len(SlotsOf(h)) = 2
    BY <2>1
  <2>3. at = 1 \/ at = 2
    BY <1>1, <2>2
  <2>4. Slot = Spin \/ Slot = <<h, 0>>
    BY <1>1, <2>1, <2>3
  <2>5. "smp" \in Section /\ 0 \in Words0("smp")
    BY <1>2, <1>4, SectionFacts DEF HasSlots, Words0, LInv, LType
  <2> QED BY <2>4, <2>5, <1>4
<1>5. CASE h \in {"intrinfo", "cacheattr"}
  <2> DEFINE m == size[h] \div EntrySize
  <2>1. SlotsOf(h) = [i \in 1 .. m |-> <<h, (i - 1) * EntrySize + SlotWord>>]
    BY <1>5 DEF SlotsOf
  <2>2. h \in Section /\ size[h] \in Nat
    BY <1>5, SectionFacts DEF LInv, LType
  <2>3. m \in Nat /\ m * 2 <= size[h]
    BY <2>2 DEF EntrySize
  <2> HIDE DEF m
  <2>4. Len(SlotsOf(h)) = m
    BY <2>1, <2>3
  <2>5. at \in 1 .. m
    BY <1>1, <2>3, <2>4
  <2>6. Slot = <<h, (at - 1) * EntrySize + SlotWord>>
    BY <1>1, <2>1, <2>5
  <2>7. (at - 1) * EntrySize + SlotWord \in Words0(h)
    BY <2>2, <2>3, <2>5 DEF Words0, EntrySize, SlotWord
  <2> QED BY <2>2, <2>6, <2>7
<1> QED BY <1>2, <1>3, <1>4, <1>5 DEF HasSlots, HookName

\* The other variables.
NInv ==
  /\ {max_size, rtn_size, rw_size, callouts_size, spsize, splits} \subseteq Nat
  /\ smp_spin_vaddr \in Cell
  /\ phase \in {"build", "size", "alloc", "write", "done", "crash"}

\* A word that holds a callout names one.
LEMMA CalloutOfCell == \A w \in Cell : IsCallout(w) => w[2] \in Rtn
BY DEF Cell, IsCallout, Null

\* Rounding to pages ...
LEMMA RoundPgNat == \A b \in Nat : RoundPg(b) \in Nat
<1> SUFFICES ASSUME NEW b \in Nat PROVE RoundPg(b) \in Nat
  OBVIOUS
<1> DEFINE x == b + PageSize - 1
<1>1. x \in Nat /\ PageSize \in Nat \ {0}
  BY PageAssumption
<1>2. x \div PageSize \in Nat
  BY <1>1
<1>3. (x \div PageSize) * PageSize \in Nat
  BY <1>1, <1>2
<1> QED BY <1>3 DEF RoundPg

\* ... and to words gives a number.
LEMMA Round8Nat == \A b \in Nat : Round8(b) \in Nat
BY DEF Round8, Words

\* The word in a visited slot is a cell.
LEMMA WordIsCell ==
  ASSUME LInv, MInv, WInv, NInv, Visiting
  PROVE  Word(Slot) \in Cell
<1>1. CASE Slot = Spin
  BY <1>1 DEF Word, NInv
<1>2. ASSUME NEW s \in Section, NEW i \in Words0(s), Slot = <<s, i>>
      PROVE  Word(Slot) \in Cell
  <2>1. Slot # Spin /\ Addr(Slot) = ptr[s] + i
    BY <1>2, SectionFacts DEF Addr, Spin
  <2>2. /\ base \in Nat /\ base <= ptr[s] /\ ptr[s] + size[s] <= base + total_size
        /\ i \in 0 .. size[s] - 1 /\ ptr[s] \in Nat /\ size[s] \in Nat
        /\ total_size \in Nat
    BY SectionFacts DEF LInv, LType, base, Layout, Inside, End, Words0
  <2>3. Addr(Slot) - base \in 0 .. total_size - 1
    BY <2>1, <2>2
  <2> QED BY <2>1, <2>3 DEF Word, MInv
<1> QED BY <1>1, <1>2, SlotIsWord

\* callout_output_one() of the second pass
LEMMA WriteOneStep ==
  ASSUME LInv, MInv, OInv, WInv, NInv, WriteOne
  PROVE  /\ MInv' /\ OInv' /\ NInv'
         /\ \/ UNCHANGED Store!vars
            \/ \E s \in Section : Store!Write(s) \/ Store!Output(s)
<1> DEFINE slot == Slot
           w == Word(slot)
           r == w[2]
           off == IF rtn_size = 0 THEN RoundPg(8 * total_size + rw_size) ELSE rtn_size
           rw == IF RwOf[r] = NoRw THEN 0 ELSE rw_addrs[RwOf[r]]
           dt == IF r \in Patched THEN PatchData(slot) ELSE NoData
           o == [slot |-> slot, rtn |-> r, off |-> off, rw |-> 8 * total_size + rw,
                 data |-> dt]
<1>1. /\ Visiting
      /\ UNCHANGED <<ptr, size, isset, total_size, fixed_size, max_size,
                     patch_data, hooks, phase, rw_size, rw_addrs,
                     callouts_size, spsize, splits>>
      /\ IF IsCallout(w)
         THEN /\ out' = out \cup {o} /\ rtn_size' = off + RtnSize[r]
              /\ IF slot = Spin
                 THEN smp_spin_vaddr' = Vaddr(off) /\ UNCHANGED mem
                 ELSE /\ mem' = [mem EXCEPT ![Addr(slot) - base] = Vaddr(off)]
                      /\ UNCHANGED smp_spin_vaddr
         ELSE UNCHANGED <<out, rtn_size, mem, smp_spin_vaddr>>
  BY DEF WriteOne
<1>2. w \in Cell /\ (IsCallout(w) => r \in Rtn)
  BY <1>1, WordIsCell, CalloutOfCell
<1>3. o.slot = slot /\ o.rtn = r /\ o.data = dt
  OBVIOUS
<1>4. off \in Nat
  BY RoundPgNat DEF NInv, LInv, LType
<1>5. Vaddr(off) \in Cell
  BY <1>4 DEF Vaddr, Cell
<1> HIDE DEF slot, w, r, off, o, rw, dt
<1>6. CASE ~ IsCallout(w)
  <2>1. UNCHANGED storeVars
    BY <1>1, <1>6 DEF storeVars
  <2>2. NInv'
    BY <1>1, <1>6 DEF NInv, Cell
  <2> QED BY <2>1, <2>2, StutterStep
<1>7. CASE IsCallout(w)
  <2>1. /\ out' = out \cup {o} /\ rtn_size' = off + RtnSize[r] /\ r \in Rtn
    BY <1>1, <1>2, <1>7
  <2>2. NInv'
    <3>1. smp_spin_vaddr' \in Cell
      BY <1>1, <1>5, <1>7 DEF NInv
    <3>2. rtn_size' \in Nat
      BY <2>1, <1>4, CalloutAssumption
    <3> QED BY <3>1, <3>2, <1>1 DEF NInv, Cell
  <2>3. OInv'
    BY <1>1 DEF OInv, IsWord, Words0
  <2>4. Registered' = Registered
    BY <1>1 DEF Registered, Owned, AllSlots, Addr
  <2>5. CASE slot = Spin
    <3>1. mem' = mem
      BY <1>1, <1>7, <2>5
    <3>2. MInv' /\ Contents' = Contents
      BY <3>1, <1>1 DEF MInv, Contents, base, Cell
    <3>3. PatchedOut' = PatchedOut
      BY <2>1, <2>5, <1>3 DEF PatchedOut
    <3> QED BY <2>2, <2>3, <2>4, <3>2, <3>3 DEF Store!vars
  <2>6. ASSUME NEW s \in Section, NEW i \in Words0(s), slot = <<s, i>>
        PROVE  MInv' /\ (Store!Write(s) \/ Store!Output(s))
    <3>1. slot # Spin /\ Addr(slot) = ptr[s] + i
      BY <2>6, SectionFacts DEF Addr, Spin
    <3>2. Wrote(Addr(slot) - base, Vaddr(off))
      BY <1>1, <1>7, <3>1 DEF Wrote
    <3>3. /\ MInv'
          /\ WordChanged(s, i)
      <4>1. UNCHANGED <<ptr, size, total_size>>
        BY <1>1
      <4> DEFINE v == Vaddr(off)
                 z == Addr(slot) - base
      <4>2. z = (ptr[s] + i) - base
        BY <3>1
      <4>3. v \in Cell /\ Wrote(z, v)
        BY <1>5, <3>2, Zenon
      <4> HIDE DEF v, z
      <4> QED BY <4>1, <4>2, <4>3, WordWritten
    <3>4. s \in DOMAIN Contents /\ i \in DOMAIN Contents[s]
      BY WrittenInDomain
    <3>5. CASE r \notin Patched
      <4>1. PatchedOut' = PatchedOut
        BY <2>1, <3>5, <1>3 DEF PatchedOut, Spin
      <4> QED BY <2>4, <3>3, <3>4, <4>1 DEF Store!Write, WordChanged
    <3>6. CASE r \in Patched
      <4>1. PatchedOut' = PatchedOut \cup {o}
        BY <2>1, <3>1, <3>6, <1>3 DEF PatchedOut, Spin
      <4>2. o.slot = <<s, i>> /\ o.data = PatchData(<<s, i>>)
        BY <1>3, <2>6, <3>6 DEF dt
      <4>3. PatchData(<<s, i>>) = Store!DataOf(<<s, i>>)
        <5> DEFINE pds == {pd \in patch_data : pd.owner = ptr[s] + i}
        <5>1. PatchData(<<s, i>>)
                = IF pds = {} THEN NoData ELSE (CHOOSE pd \in pds : TRUE).data
          <6>1. pds = {pd \in patch_data : pd.owner = Addr(<<s, i>>)}
            BY <2>6, <3>1
          <6> HIDE DEF pds
          <6> QED BY <6>1 DEF PatchData
        <5>2. \A x : x \in Registered /\ x[1] = <<s, i>> <=>
                       \E pd \in pds : x = <<<<s, i>>, pd.data>>
          <6> TAKE x
          <6>1. ASSUME NEW pd \in pds, x = <<<<s, i>>, pd.data>>
                PROVE  x \in Registered /\ x[1] = <<s, i>>
            BY <6>1, RegisteredDef DEF RegisteredIs, IsWord
          <6>2. ASSUME x \in Registered, x[1] = <<s, i>>
                PROVE  \E pd \in pds : x = <<<<s, i>>, pd.data>>
            <7>1. PICK t, j : \E pd \in patch_data :
                         x = <<<<t, j>>, pd.data>> /\ IsWord(pd.owner, t, j)
              BY <6>2, RegisteredDef DEF RegisteredIs
            <7>2. t = s /\ j = i
              BY <7>1, <6>2
            <7> QED BY <7>1, <7>2 DEF IsWord
          <6> QED BY <6>1, <6>2
        <5>3. \A pd, q \in pds : pd = q
          BY DEF OInv
        <5> HIDE DEF pds
        <5>4. CASE pds = {}
          BY <5>1, <5>2, <5>4 DEF Store!DataOf, Store!HasData
        <5>5. CASE pds # {}
          <6>1. PICK pd \in pds : pd = CHOOSE x \in pds : TRUE
            BY <5>5
          <6>2. Store!HasData(<<s, i>>)
            BY <5>2, <6>1 DEF Store!HasData
          <6>3. \E p \in Registered : p[1] = <<s, i>>
            BY <6>2 DEF Store!HasData
          <6>4. PICK c : c = CHOOSE p \in Registered : p[1] = <<s, i>>
            OBVIOUS
          <6>5. c \in Registered /\ c[1] = <<s, i>>
            BY <6>3, <6>4
          <6>6. c[2] = pd.data
            BY <5>2, <5>3, <6>1, <6>5
          <6> QED BY <5>1, <5>5, <6>1, <6>2, <6>4, <6>6 DEF Store!DataOf
        <5> QED BY <5>4, <5>5
      <4>4. {<<x.slot, x.data>> : x \in PatchedOut'}
              = {<<x.slot, x.data>> : x \in PatchedOut}
                \cup {<<<<s, i>>, Store!DataOf(<<s, i>>)>>}
        BY <4>1, <4>2, <4>3
      <4> QED BY <2>4, <3>3, <3>4, <4>4 DEF Store!Output, WordChanged
    <3> QED BY <3>3, <3>5, <3>6
  <2>7. slot = Spin \/ \E s \in Section : \E i \in Words0(s) : slot = <<s, i>>
    BY <1>1, SlotIsWord DEF slot
  <2> QED BY <2>2, <2>3, <2>5, <2>6, <2>7
<1> QED BY <1>6, <1>7

-----------------------------------------------------------------------------
(* The actions that make a section longer                                  *)

\* grow_syspage_section() appends plain data.
LEMMA GrowPlainAppends ==
  ASSUME LInv, NEW s \in Section \ Settable, NEW n \in Nat \ {0},
         GrowPlain(s, n), out' = out
  PROVE  \E p, new, k, d : Appends(s, p, n, new, k, d)
<1> DEFINE new == [i \in 0 .. n - 1 |-> Data(s, size[s] + i)]
<1>1. Grows(s, ptr[s], n, new)
  BY GrowPlainGrows
<1>2. size[s] \in Nat /\ size[s] \in size[s] .. size[s] + n - 1
  BY DEF LInv, LType
<1>3. \A i \in 0 .. n - 1 : Data(s, size[s] + i) \in Cell
  BY <1>2 DEF Data, Cell
<1>4. new \in [0 .. n - 1 -> Cell]
  BY <1>3
<1> HIDE DEF new
<1>5. patch_data' = GrowData(s, ptr[s], n) \cup {}
  BY DEF GrowPlain
<1>6. Appends(s, ptr[s], n, new, size[s], DbgDevice)
  BY <1>1, <1>2, <1>4, <1>5 DEF Appends
<1> QED BY <1>6

\* set_syspage_section() appends to an empty section.
LEMMA SetAppends ==
  ASSUME LInv, NEW s \in Settable, NEW n \in Nat \ {0},
         NEW new \in [0 .. n - 1 -> Cell], Set(s, n, new), out' = out
  PROVE  \E p, k, d : Appends(s, p, n, new, k, d)
<1>1. Grows(s, base + fixed_size, n, new)
  BY SetGrows
<1>2. size[s] \in Nat /\ size[s] \in size[s] .. size[s] + n - 1
  BY SectionFacts DEF LInv, LType
<1>3. patch_data' = GrowData(s, base + fixed_size, n) \cup {}
  BY DEF Set
<1>4. Appends(s, base + fixed_size, n, new, size[s], DbgDevice)
  BY <1>1, <1>2, <1>3 DEF Appends
<1> QED BY <1>4

\* The words of an interrupt or a cache entry.
LEMMA EntryInCell ==
  ASSUME NEW s \in Section, NEW v \in Nat \cup CacheAttr, NEW r \in Rtn
  PROVE  Entry(s, v, r) \in [0 .. EntrySize - 1 -> Cell]
<1>1. Data(s, v) \in Cell /\ Callout(r) \in Cell
  BY DEF Data, Callout, Cell
<1> QED BY <1>1 DEF Entry

\* add_interrupt() appends an entry and may register data for it.
LEMMA AddInterruptAppends ==
  ASSUME LInv, NEW r \in Rtn, NEW d \in IntrData, AddInterrupt(r, d)
  PROVE  \E s, p, n, new, k : Appends(s, p, n, new, k, d)
<1> DEFINE s == "intrinfo"
           p == ptr[s]
           k == size[s] + SlotWord
           new == Entry(s, size[s], r)
           Q == GrowData(s, p, EntrySize)
<1>1. /\ Grow(s, p, EntrySize, new) /\ UNCHANGED <<isset, fixed_size>>
      /\ patch_data' = RegisterData(Q, p + size[s] + SlotWord, r, d)
      /\ out' = out
  BY DEF AddInterrupt, allocVars
<1>2. s \in Section /\ s \in {"intrinfo", "cacheattr"} /\ size[s] \in Nat /\ p \in Nat
  BY SectionFacts DEF LInv, LType
<1>3. Grows(s, p, EntrySize, new)
  <2> HIDE DEF new
  <2> QED BY <1>1, <1>2, EntryGrows
<1>4. new \in [0 .. EntrySize - 1 -> Cell]
  BY <1>2, EntryInCell
<1>5. /\ k \in size[s] .. size[s] + EntrySize - 1
      /\ p + size[s] + SlotWord = p + k
  BY <1>2 DEF SlotWord, EntrySize
<1> HIDE DEF s, p, k, new, Q
<1>6. \E E \in SUBSET {[owner |-> p + k, data |-> d]} : patch_data' = Q \cup E
  <2>1. patch_data' = Q \cup {} \/ patch_data' = Q \cup {[owner |-> p + k, data |-> d]}
    BY <1>1, <1>5 DEF RegisterData
  <2> QED BY <2>1
<1>7. Appends(s, p, EntrySize, new, k, d)
  BY <1>1, <1>3, <1>4, <1>5, <1>6 DEF Appends, Q
<1> QED BY <1>7

\* add_cache() appends an entry or finds one.
LEMMA AddCacheAppends ==
  ASSUME LInv, NEW v \in CacheAttr, NEW r \in Rtn, AddCache(v, r)
  PROVE  \/ UNCHANGED storeVars
         \/ \E s, p, n, new, k, d : Appends(s, p, n, new, k, d)
<1> DEFINE s == "cacheattr"
           p == ptr[s]
           new == Entry(s, v, r)
           Q == GrowData(s, p, EntrySize)
<1>1. /\ out' = out
      /\ \/ UNCHANGED <<lspVars, patch_data>>
         \/ /\ Grow(s, p, EntrySize, new) /\ UNCHANGED <<isset, fixed_size>>
            /\ patch_data' = Q
  BY DEF AddCache, allocVars
<1>2. s \in Section /\ s \in {"intrinfo", "cacheattr"} /\ size[s] \in Nat
  BY SectionFacts DEF LInv, LType
<1>3. new \in [0 .. EntrySize - 1 -> Cell]
  BY <1>2, EntryInCell
<1>4. size[s] \in size[s] .. size[s] + EntrySize - 1
  BY <1>2 DEF EntrySize
<1> HIDE DEF new
<1>5. CASE UNCHANGED <<lspVars, patch_data>>
  BY <1>1, <1>5 DEF storeVars, lspVars
<1>6. CASE /\ Grow(s, p, EntrySize, new) /\ UNCHANGED <<isset, fixed_size>>
           /\ patch_data' = Q
  <2>1. Grows(s, p, EntrySize, new)
    BY <1>2, <1>6, EntryGrows
  <2>2. patch_data' = Q \cup {}
    BY <1>6
  <2> HIDE DEF s, p
  <2>3. Appends(s, p, EntrySize, new, size[s], DbgDevice)
    BY <1>1, <1>3, <1>4, <2>1, <2>2 DEF Appends
  <2> QED BY <2>3
<1> QED BY <1>1, <1>5, <1>6

\* Every step appends to a section, writes a word of one, outputs a callout
\* or is invisible to the users of the page.
LEMMA NextSimulates ==
  ASSUME LInv, LInv', MInv, OInv, WInv, NInv, [Next]_vars
  PROVE  /\ MInv' /\ OInv'
         /\ [Store!Next]_(Store!vars)
<1>0. DOMAIN Contents = Section
  BY ContentsHolds DEF ContentsIs
<1>1. ASSUME NEW s, NEW p, NEW n, NEW new, NEW k, NEW d,
             Appends(s, p, n, new, k, d)
      PROVE  MInv' /\ OInv' /\ [Store!Next]_(Store!vars)
  <2>1. MInv' /\ OInv' /\ Store!Append(s) /\ s \in Section
    BY <1>1, AppendStep
  <2> QED BY <2>1, <1>0 DEF Store!Next
<1>2. ASSUME UNCHANGED storeVars
      PROVE  MInv' /\ OInv' /\ [Store!Next]_(Store!vars)
  BY <1>2, StutterStep
<1>3. ASSUME NEW s \in Grown, NEW b \in GrowSize[s], GrowSection(s, b)
      PROVE  \E t, p, n, new, k, d : Appends(t, p, n, new, k, d)
  <2>1. Words(b) \in Nat \ {0} /\ s \in Section \ Settable
    BY SizeAssumption, WordsPositive, SectionFacts
  <2>2. GrowPlain(s, Words(b)) /\ out' = out
    BY <1>3 DEF GrowSection, allocVars
  <2> QED BY <2>1, <2>2, GrowPlainAppends
<1>4. ASSUME NEW s \in Fixed, SetSection(s)
      PROVE  \E t, p, n, new, k, d : Appends(t, p, n, new, k, d)
  <2> DEFINE m == Words(SetSize[s])
             w == [i \in 0 .. m - 1 |-> Data(s, i)]
  <2>1. m \in Nat \ {0} /\ s \in Settable /\ s \in Section
    BY SizeAssumption, WordsPositive, SectionFacts
  <2>2. Set(s, m, w) /\ out' = out
    BY <1>4 DEF SetSection, allocVars
  <2> HIDE DEF m
  <2>3. w \in [0 .. m - 1 -> Cell]
    <3>1. \A i \in 0 .. m - 1 : Data(s, i) \in Cell
      BY <2>1 DEF Data, Cell
    <3> QED BY <3>1
  <2> HIDE DEF w
  <2> QED BY <2>1, <2>2, <2>3, SetAppends
<1>5. ASSUME AsAdd \/ Split
      PROVE  \E t, p, n, new, k, d : Appends(t, p, n, new, k, d)
  <2>1. AsSize \in Nat \ {0} /\ "asinfo" \in Section \ Settable
    BY SizeAssumption, SectionFacts
  <2>2. GrowPlain("asinfo", AsSize) /\ out' = out
    BY <1>5 DEF AsAdd, Split, allocVars
  <2> QED BY <2>1, <2>2, GrowPlainAppends
<1>6. ASSUME NEW i \in 0 .. NumSlots - 1, NEW r \in Rtn, AddCallout(i, r)
      PROVE  MInv' /\ OInv' /\ [Store!Next]_(Store!vars)
  <2>1. MInv' /\ OInv' /\ Store!Write("callout") /\ "callout" \in Section
    BY <1>6, AddCalloutStep, SectionFacts DEF WInv
  <2> QED BY <2>1, <1>0 DEF Store!Next
<1>7. ASSUME NEW r \in Rtn, InitSmp(r)
      PROVE  \E t, p, n, new, k, d : Appends(t, p, n, new, k, d)
  <2> DEFINE w == [i \in {0} |-> Callout(r)]
  <2>1. Set("smp", 1, w) /\ out' = out
    BY <1>7 DEF InitSmp, allocVars
  <2>2. w \in [0 .. 1 - 1 -> Cell]
    <3>1. Callout(r) \in Cell /\ 0 .. 1 - 1 = {0}
      BY DEF Callout, Cell
    <3> QED BY <3>1
  <2> HIDE DEF w
  <2>3. "smp" \in Settable /\ 1 \in Nat \ {0}
    BY DEF Settable
  <2> QED BY <2>1, <2>2, <2>3, SetAppends
<1>8. ASSUME NEW n, GrowCrash(n) PROVE UNCHANGED storeVars
  BY <1>8 DEF GrowCrash, lspVars, dataVars, allocVars, storeVars
<1>9. ASSUME AllocSyspageMemory \/ SizeOne \/ SizeDone \/ Freeze
      PROVE  UNCHANGED storeVars
  BY <1>9 DEF AllocSyspageMemory, SizeOne, SizeDone, Freeze, lspVars, dataVars,
              allocVars, storeVars
<1>10. ASSUME WriteDone \/ NextRoutine \/ UNCHANGED vars
       PROVE  UNCHANGED storeVars
  BY <1>10 DEF WriteDone, NextRoutine, vars, lspVars, dataVars, allocVars, storeVars
<1>11. ASSUME WriteOne
       PROVE  MInv' /\ OInv' /\ [Store!Next]_(Store!vars)
  BY <1>0, <1>11, WriteOneStep DEF Store!Next
<1>12. ASSUME RelocSyspageMemory
       PROVE  MInv' /\ OInv' /\ [Store!Next]_(Store!vars)
  BY <1>12, RelocStep
<1> DEFINE Ok == MInv' /\ OInv' /\ [Store!Next]_(Store!vars)
           A == \E t, p, n, new, k, d : Appends(t, p, n, new, k, d)
           U == UNCHANGED storeVars
<1>13. /\ A => Ok
       /\ U => Ok
  BY <1>1, <1>2
<1>14. \A r \in Rtn, d \in IntrData : AddInterrupt(r, d) => A
  BY AddInterruptAppends
<1>15. \A v \in CacheAttr, r \in Rtn : AddCache(v, r) => A \/ U
  BY AddCacheAppends
<1>16. /\ \A s \in Grown : \A b \in GrowSize[s] : GrowSection(s, b) => A
       /\ \A s \in Fixed : SetSection(s) => A
       /\ AsAdd \/ Split => A
       /\ \A r \in Rtn : InitSmp(r) => A
       /\ \A n : GrowCrash(n) => U
       /\ AllocSyspageMemory \/ SizeOne \/ SizeDone \/ Freeze => U
       /\ WriteDone \/ NextRoutine \/ UNCHANGED vars => U
  BY <1>3, <1>4, <1>5, <1>7, <1>8, <1>9, <1>10
<1>17. /\ \A i \in 0 .. NumSlots - 1, r \in Rtn : AddCallout(i, r) => Ok
       /\ WriteOne => Ok
       /\ RelocSyspageMemory => Ok
  BY <1>6, <1>11, <1>12
<1> HIDE DEF Ok, A, U
<1>18. Ok
  BY <1>13, <1>14, <1>15, <1>16, <1>17 DEF Next
<1> QED BY <1>18 DEF Ok

-----------------------------------------------------------------------------
(* The other conjuncts of the invariant                                    *)

\* Sections never get shorter, and the callout slots stay as many.
LEMMA SizesGrow ==
  ASSUME LInv, [Next]_vars
  PROVE  /\ \A s \in Section : size[s] \in Nat /\ size'[s] \in Nat /\ size[s] <= size'[s]
         /\ size'["callout"] = size["callout"]
<1>1. ASSUME NEW s, NEW p, NEW n, NEW new, Grows(s, p, n, new)
      PROVE  /\ \A t \in Section : size[t] \in Nat /\ size'[t] \in Nat /\ size[t] <= size'[t]
             /\ size'["callout"] = size["callout"]
  <2>1. s \in Section /\ n \in Nat \ {0} /\ GrowStep(s, p, n, new)
    BY <1>1 DEF Grows
  <2>2. s # "callout"
    BY <2>1, SectionFacts DEF GrowStep, GrowsAt, LInv, LType, Settable
  <2>3. /\ size'[s] = size[s] + n
        /\ \A t \in Section \ {s} : size'[t] = size[t]
    BY <2>1, GrowMoves
  <2>4. \A t \in Section : size[t] \in Nat
    BY DEF LInv, LType
  <2> QED BY <2>1, <2>2, <2>3, <2>4, SectionFacts
<1>2. size' = size \/ \E s, p, n, new : Grows(s, p, n, new)
  BY LayoutStep DEF RelocSyspageMemory, layoutVars
<1>3. CASE size' = size
  BY <1>3 DEF LInv, LType
<1> QED BY <1>1, <1>2, <1>3

\* What a step does to the chain of output routines ...
LEMMA HooksStep ==
  ASSUME LInv, [Next]_vars
  PROVE  \/ hooks' = hooks
         \/ \E h \in HookName : /\ hooks' = <<h>> \o hooks
                                /\ h = "smp" => size'["smp"] > 0
<1> DEFINE More == \E h \in HookName : /\ hooks' = <<h>> \o hooks
                                       /\ h = "smp" => size'["smp"] > 0
           Ok == hooks' = hooks \/ More
<1>1. ASSUME NEW h \in HookName, Hook(h), h = "smp" => size'["smp"] > 0
      PROVE  Ok
  BY <1>1 DEF Hook
<1>2. ASSUME NEW r, NEW d, AddInterrupt(r, d) PROVE Ok
  BY <1>1, <1>2 DEF AddInterrupt, HookName
<1>3. ASSUME NEW v, NEW r, AddCache(v, r) PROVE Ok
  BY <1>1, <1>3 DEF AddCache, HookName
<1>4. ASSUME NEW r, InitSmp(r) PROVE Ok
  <2>1. Hook("smp") /\ Set("smp", 1, [i \in {0} |-> Callout(r)])
    BY <1>4 DEF InitSmp
  <2>2. size' = [size EXCEPT !["smp"] = @ + 1]
    BY <2>1 DEF Set, Grow
  <2>3. size'["smp"] > 0
    BY <2>2, SectionFacts DEF LInv, LType
  <2> QED BY <1>1, <2>1, <2>3 DEF HookName
<1> HIDE DEF More
<1>5. \/ \E r, d : AddInterrupt(r, d)
      \/ \E v, r : AddCache(v, r)
      \/ \E r : InitSmp(r)
      \/ hooks' = hooks
  <2>1. /\ \A s, b : GrowSection(s, b) => hooks' = hooks
        /\ \A s : SetSection(s) => hooks' = hooks
        /\ \A i, r : AddCallout(i, r) => hooks' = hooks
        /\ \A n : GrowCrash(n) => hooks' = hooks
    BY DEF GrowSection, SetSection, AddCallout, GrowCrash, dataVars
  <2>2. RelocSyspageMemory \/ AsAdd \/ AllocSyspageMemory \/ SizeOne \/ SizeDone
          => hooks' = hooks
    BY DEF RelocSyspageMemory, AsAdd, AllocSyspageMemory, SizeOne, SizeDone, dataVars
  <2>3. Split \/ Freeze \/ WriteOne \/ WriteDone \/ NextRoutine \/ UNCHANGED vars
          => hooks' = hooks
    BY DEF Split, Freeze, WriteOne, WriteDone, NextRoutine, vars, dataVars
  <2> QED BY <2>1, <2>2, <2>3 DEF Next
<1> QED BY <1>2, <1>3, <1>4, <1>5 DEF More

\* ... and to the routines still to be called.
LEMMA TodoStep ==
  ASSUME [Next]_vars
  PROVE  \/ todo' = todo /\ (at' = at \/ at' = at + 1)
         \/ todo' = hooks /\ at' = 1
         \/ todo # << >> /\ todo' = Tail(todo) /\ at' = 1
<1> DEFINE Same == todo' = todo /\ (at' = at \/ at' = at + 1)
           Start == todo' = hooks /\ at' = 1
           Drop == todo # << >> /\ todo' = Tail(todo) /\ at' = 1
<1>1. /\ \A s, b : GrowSection(s, b) => Same
      /\ \A s : SetSection(s) => Same
      /\ \A i, r : AddCallout(i, r) => Same
      /\ \A n : GrowCrash(n) => Same
      /\ \A r, d : AddInterrupt(r, d) => Same
      /\ \A v, r : AddCache(v, r) => Same
      /\ \A r : InitSmp(r) => Same
  BY DEF GrowSection, SetSection, AddCallout, GrowCrash, AddInterrupt, AddCache,
         InitSmp, passVars
<1>2. RelocSyspageMemory \/ AsAdd \/ Split \/ WriteDone \/ UNCHANGED vars => Same
  BY DEF RelocSyspageMemory, AsAdd, Split, WriteDone, vars, passVars
<1>3. SizeOne \/ SizeDone \/ WriteOne => Same
  BY DEF SizeOne, SizeDone, WriteOne, NextSlot
<1>4. AllocSyspageMemory \/ Freeze => Start
  BY DEF AllocSyspageMemory, Freeze, StartPass
<1>5. NextRoutine => Drop
  BY DEF NextRoutine
<1> HIDE DEF Same, Start, Drop
<1>6. Same \/ Start \/ Drop
  BY <1>1, <1>2, <1>3, <1>4, <1>5 DEF Next
<1> QED BY <1>6 DEF Same, Start, Drop

\* Every step keeps WInv ...
LEMMA NextWInv == ASSUME LInv, WInv, [Next]_vars PROVE WInv'
<1> DEFINE All(q) == q \in Seq(HookName) /\ \A i \in 1 .. Len(q) : HasSlots(q[i])
           N(h) == h \in HookName /\ (h = "smp" => size'["smp"] > 0)
           AllNext(q) == q \in Seq(HookName) /\ \A i \in 1 .. Len(q) : N(q[i])
<1>1. size'["callout"] = NumSlots
  BY SizesGrow DEF WInv
<1>2. \A h : HasSlots(h) => N(h)
  BY SizesGrow, SectionFacts DEF HasSlots
<1>3. \A q : All(q) => AllNext(q)
  BY <1>2
<1>4. All(hooks) /\ All(todo) /\ at \in Nat \ {0}
  BY DEF WInv
<1>5. AllNext(hooks')
  <2>1. ASSUME NEW h \in HookName, hooks' = <<h>> \o hooks,
               h = "smp" => size'["smp"] > 0
        PROVE  AllNext(hooks')
    <3>1. N(h)
      BY <2>1 DEF HasSlots
    <3>2. /\ hooks \in Seq(HookName) /\ Len(hooks) \in Nat
          /\ \A i \in 1 .. Len(hooks) : N(hooks[i])
      BY <1>3, <1>4
    <3>3. /\ hooks' \in Seq(HookName) /\ Len(hooks') = Len(hooks) + 1
          /\ \A i \in 1 .. Len(hooks) + 1 : hooks'[i] = IF i = 1 THEN h ELSE hooks[i - 1]
      BY <2>1, <3>2
    <3>4. ASSUME NEW i \in 1 .. Len(hooks') PROVE N(hooks'[i])
      <4>1. CASE i = 1
        BY <3>1, <3>2, <3>3, <4>1
      <4>2. CASE i # 1
        <5>1. i - 1 \in 1 .. Len(hooks) /\ hooks'[i] = hooks[i - 1]
          BY <3>2, <3>3, <4>2
        <5> QED BY <3>2, <5>1
      <4> QED BY <4>1, <4>2
    <3> QED BY <3>3, <3>4
  <2> QED BY <2>1, <1>3, <1>4, HooksStep
<1>6. AllNext(todo') /\ at' \in Nat \ {0}
  <2>1. CASE todo # << >> /\ todo' = Tail(todo) /\ at' = 1
    <3>1. /\ todo' \in Seq(HookName) /\ Len(todo') = Len(todo) - 1 /\ Len(todo) \in Nat
          /\ \A i \in 1 .. Len(todo) - 1 : todo'[i] = todo[i + 1]
      BY <2>1, <1>4
    <3>2. \A i \in 1 .. Len(todo) : N(todo[i])
      BY <1>3, <1>4
    <3>3. ASSUME NEW i \in 1 .. Len(todo') PROVE N(todo'[i])
      <4>1. i + 1 \in 1 .. Len(todo) /\ todo'[i] = todo[i + 1]
        BY <3>1
      <4> QED BY <3>2, <4>1
    <3> QED BY <2>1, <3>1, <3>3
  <2> QED BY <2>1, <1>3, <1>4, TodoStep
<1> QED BY <1>1, <1>5, <1>6 DEF WInv, HasSlots

\* The variables of NInv but for the phase.
numVars == <<max_size, rtn_size, rw_size, callouts_size, spsize, splits,
             smp_spin_vaddr>>

\* ... and NInv.
LEMMA NextNInv ==
  ASSUME LInv, MInv, OInv, WInv, NInv, [Next]_vars
  PROVE  NInv'
<1> DEFINE Phases == {"build", "size", "alloc", "write", "done", "crash"}
           Ok == NInv'
           K == UNCHANGED numVars /\ phase' \in Phases
<1>1. ASSUME K PROVE NInv'
  BY <1>1 DEF NInv, numVars, Cell
<1>2. phase \in Phases
  BY DEF NInv
<1>3. /\ \A s, b : GrowSection(s, b) => K
      /\ \A s : SetSection(s) => K
      /\ AsAdd => K
  BY <1>2 DEF GrowSection, SetSection, AsAdd, GrowPlain, Set, Grow, numVars,
              passVars, allocVars
<1>4. /\ \A i, r : AddCallout(i, r) => K
      /\ \A r, d : AddInterrupt(r, d) => K
      /\ \A n : GrowCrash(n) => K
  BY <1>2 DEF AddCallout, AddInterrupt, GrowCrash, Grow, numVars, lspVars,
              dataVars, passVars, allocVars
<1>5. \A v, r : AddCache(v, r) => K
  BY <1>2 DEF AddCache, Grow, numVars, lspVars, passVars, allocVars
<1>6. AllocSyspageMemory \/ WriteDone \/ NextRoutine \/ UNCHANGED vars => K
  BY <1>2 DEF AllocSyspageMemory, WriteDone, NextRoutine, vars, numVars, lspVars,
              dataVars, passVars, allocVars
<1>7. ASSUME NEW r, InitSmp(r) PROVE NInv'
  <2>1. /\ UNCHANGED <<max_size, rtn_size, rw_size, callouts_size, spsize, splits, phase>>
        /\ smp_spin_vaddr' = Callout(SmpSpin)
    BY <1>7 DEF InitSmp, Set, Grow, passVars, allocVars
  <2>2. Callout(SmpSpin) \in Cell
    BY CalloutAssumption DEF Callout, Cell
  <2> QED BY <2>1, <2>2 DEF NInv, Cell
<1>8. ASSUME RelocSyspageMemory PROVE NInv'
  BY <1>8, SizeAssumption DEF RelocSyspageMemory, NInv, passVars, allocVars, Cell
<1>9. ASSUME Freeze PROVE NInv'
  BY <1>9, SizeAssumption DEF Freeze, NInv, dataVars, allocVars, Cell
<1>10. ASSUME Split PROVE NInv'
  BY <1>10 DEF Split, GrowPlain, Grow, NInv, passVars, Cell
<1>11. ASSUME SizeOne PROVE NInv'
  <2>1. /\ UNCHANGED <<max_size, callouts_size, spsize, splits, phase, smp_spin_vaddr>>
        /\ Visiting
    BY <1>11 DEF SizeOne, lspVars, dataVars, allocVars
  <2> DEFINE r == Word(Slot)[2]
  <2>2. IsCallout(Word(Slot)) => r \in Rtn
    BY <2>1, WordIsCell, CalloutOfCell
  <2>3. /\ \/ rtn_size' = rtn_size
           \/ rtn_size' = rtn_size + RtnSize[r] /\ r \in Rtn
        /\ \/ rw_size' = rw_size
           \/ rw_size' = rw_size + RwSize[RwOf[r]] /\ RwOf[r] # NoRw /\ r \in Rtn
    BY <1>11, <2>2 DEF SizeOne
  <2> HIDE DEF r
  <2>4. rtn_size' \in Nat /\ rw_size' \in Nat
    BY <2>3, CalloutAssumption DEF NInv
  <2> QED BY <2>1, <2>4 DEF NInv, Cell
<1>12. ASSUME SizeDone PROVE NInv'
  <2>1. /\ UNCHANGED <<max_size, splits, smp_spin_vaddr>>
        /\ rw_size' = Round8(rw_size) /\ callouts_size' = Round8(rtn_size)
        /\ rtn_size' = 0 /\ phase' = "alloc"
        /\ spsize' = RoundPg(8 * total_size + rw_size' + 8 * 4 * AsSize)
                     + RoundPg(callouts_size')
    BY <1>12 DEF SizeDone, lspVars, dataVars
  <2>2. rw_size' \in Nat /\ callouts_size' \in Nat
    BY <2>1, Round8Nat DEF NInv
  <2>3. 8 * total_size + rw_size' + 8 * 4 * AsSize \in Nat
    BY <2>2, SizeAssumption DEF LInv, LType
  <2>4. spsize' \in Nat
    BY <2>1, <2>2, <2>3, RoundPgNat
  <2> QED BY <2>1, <2>2, <2>4 DEF NInv, Cell
<1>13. ASSUME WriteOne PROVE NInv'
  BY <1>13, WriteOneStep
<1> HIDE DEF K
<1>14. /\ \A r : InitSmp(r) => NInv'
       /\ RelocSyspageMemory \/ Freeze \/ Split \/ SizeOne \/ SizeDone \/ WriteOne
            => NInv'
  BY <1>7, <1>8, <1>9, <1>10, <1>11, <1>12, <1>13
<1> HIDE DEF Ok
<1>15. Ok
  <2>1. ASSUME NInv' PROVE Ok
    BY <2>1 DEF Ok
  <2>2. ASSUME K PROVE Ok
    BY <2>2, <1>1 DEF Ok
  <2> QED BY <1>3, <1>4, <1>5, <1>6, <1>14, <2>1, <2>2 DEF Next
<1> QED BY <1>15 DEF Ok

-----------------------------------------------------------------------------
(* The theorems                                                            *)

IInv == LInv /\ MInv /\ OInv /\ WInv /\ NInv

\* The inductive invariant holds at first ...
LEMMA InitIInv == Init => IInv
<1> SUFFICES ASSUME Init PROVE IInv
  OBVIOUS
<1>1. LInv
  BY InitLInv
<1>2. MInv
  <2>1. /\ HdrSize \in Nat /\ total_size \in Nat
        /\ mem = [a \in 0 .. total_size - 1 |->
                    IF a < HdrSize THEN Data("syspage", a) ELSE Null]
    BY <1>1, SizeAssumption DEF Init, LInv, LType
  <2>2. \A a \in 0 .. total_size - 1 : Data("syspage", a) \in Cell /\ Null \in Cell
    BY <2>1, SectionFacts DEF Data, Cell
  <2> QED BY <2>1, <2>2 DEF MInv
<1>3. OInv
  BY DEF Init, OInv
<1>4. WInv
  <2>1. /\ hooks = <<"callout">> /\ todo = << >> /\ at = 1
        /\ size["callout"] = NumSlots
    BY SectionFacts DEF Init
  <2>2. HasSlots("callout") /\ "callout" \in HookName
    BY DEF HasSlots, HookName
  <2>3. /\ hooks \in Seq(HookName) /\ Len(hooks) = 1 /\ hooks[1] = "callout"
        /\ todo \in Seq(HookName) /\ Len(todo) = 0
    BY <2>1, <2>2
  <2> QED BY <2>1, <2>2, <2>3 DEF WInv
<1>5. NInv
  BY SizeAssumption DEF Init, NInv, Cell
<1> QED BY <1>1, <1>2, <1>3, <1>4, <1>5 DEF IInv

\* ... and every step keeps it.
LEMMA NextIInv == IInv /\ [Next]_vars => IInv'
BY NextLInv, NextSimulates, NextWInv, NextNInv DEF IInv

\* Type correctness of the page and of the variables of its allocation.
THEOREM TypeCorrect == Spec => []TypeOK
<1>1. IInv => TypeOK
  BY DEF IInv, LInv, LType, MInv, NInv, OInv, TypeOK
<1> QED BY <1>1, InitIInv, NextIInv, PTL DEF Spec

\* SysPage implements SectionStore: to its users every section is an array
\* of its own, and each callout is patched with the data registered for its
\* slot, however often sections were set, grown and moved in between.
THEOREM ImplementsStore == Spec => StoreSpec
<1>1. Init => Store!Init
  <2> SUFFICES ASSUME Init PROVE Store!Init
    OBVIOUS
  <2>1. patch_data = {} /\ out = {}
    BY DEF Init
  <2>2. Registered = {} /\ PatchedOut = {}
    BY <2>1 DEF Registered, Owned, PatchedOut
  <2> QED BY <2>2 DEF Store!Init
<1>2. ASSUME IInv, [Next]_vars PROVE [Store!Next]_(Store!vars)
  <2>1. LInv' /\ LInv /\ MInv /\ OInv /\ WInv /\ NInv
    BY <1>2, NextLInv DEF IInv
  <2> QED BY <1>2, <2>1, NextSimulates
<1> QED BY <1>1, <1>2, InitIInv, NextIInv, PTL DEF Spec, StoreSpec, Store!Spec

-----------------------------------------------------------------------------
(* The callouts: which slots there are, and which are still to be visited   *)

\* The word of a section, and the words the routines in the chain visit.
W(s, i) == mem[ptr[s] - base + i]
SlotSet(h) == {SlotsOf(h)[i] : i \in 1 .. Len(SlotsOf(h))}
HookSlots == UNION {SlotSet(hooks[k]) : k \in 1 .. Len(hooks)}
First(k) == IF k = 1 THEN at ELSE 1
Pending == UNION {{SlotsOf(todo[k])[i] : i \in First(k) .. Len(SlotsOf(todo[k]))}
                  : k \in 1 .. Len(todo)}

\* The slots of a routine by their names.
InSlots(h, x) ==
  \/ h = "callout" /\ \E i \in Words0(h) : x = <<h, i>>
  \/ h = "smp" /\ (x = Spin \/ x = <<h, 0>>)
  \/ /\ h \in {"intrinfo", "cacheattr"}
     /\ \E j \in Nat : EntrySize * j + SlotWord < size[h] /\ x = <<h, EntrySize * j + SlotWord>>

\* What is in SlotSet ...
SlotSetIs == \A h \in HookName : \A x : x \in SlotSet(h) <=> InSlots(h, x)

\* ... and that they are these.
LEMMA SlotSetHolds == LInv /\ WInv => SlotSetIs
<1> SUFFICES ASSUME LInv, WInv, NEW h \in HookName, NEW x
             PROVE  x \in SlotSet(h) <=> InSlots(h, x)
  BY DEF SlotSetIs
<1>1. CASE h = "callout"
  <2>1. SlotsOf(h) = [i \in 1 .. NumSlots |-> <<h, i - 1>>]
    BY <1>1 DEF SlotsOf
  <2>2. NumSlots \in Nat /\ Len(SlotsOf(h)) = NumSlots /\ Words0(h) = 0 .. NumSlots - 1
    BY <1>1, <2>1, SizeAssumption DEF WInv, Words0
  <2>3. SlotSet(h) = {<<h, i - 1>> : i \in 1 .. NumSlots}
    BY <2>1, <2>2 DEF SlotSet
  <2>4. InSlots(h, x) <=> \E i \in 0 .. NumSlots - 1 : x = <<h, i>>
    BY <1>1, <2>2 DEF InSlots
  <2>5. ASSUME NEW i \in 0 .. NumSlots - 1 PROVE <<h, i>> \in SlotSet(h)
    <3>1. i + 1 \in 1 .. NumSlots /\ (i + 1) - 1 = i
      BY <2>2
    <3> QED BY <2>3, <3>1
  <2>6. ASSUME x \in SlotSet(h) PROVE \E i \in 0 .. NumSlots - 1 : x = <<h, i>>
    <3>1. PICK i \in 1 .. NumSlots : x = <<h, i - 1>>
      BY <2>3, <2>6
    <3> QED BY <2>2, <3>1
  <2> QED BY <2>4, <2>5, <2>6
<1>2. CASE h = "smp"
  <2>1. SlotsOf(h) = <<Spin, <<h, 0>>>>
    BY <1>2 DEF SlotsOf
  <2>2. Len(SlotsOf(h)) = 2 /\ SlotsOf(h)[1] = Spin /\ SlotsOf(h)[2] = <<h, 0>>
    BY <2>1
  <2>3. SlotSet(h) = {Spin, <<h, 0>>}
    BY <2>2 DEF SlotSet
  <2> QED BY <1>2, <2>3 DEF InSlots
<1>3. CASE h \in {"intrinfo", "cacheattr"}
  <2> DEFINE m == size[h] \div EntrySize
  <2>1. SlotsOf(h) = [i \in 1 .. m |-> <<h, (i - 1) * EntrySize + SlotWord>>]
    BY <1>3 DEF SlotsOf
  <2>2. size[h] \in Nat
    BY <1>3, SectionFacts DEF LInv, LType
  <2>3. m \in Nat /\ \A j \in Nat : EntrySize * j + SlotWord < size[h] <=> j < m
    BY <2>2 DEF EntrySize, SlotWord
  <2> HIDE DEF m
  <2>4. SlotSet(h) = {<<h, (i - 1) * EntrySize + SlotWord>> : i \in 1 .. m}
    BY <2>1, <2>3 DEF SlotSet
  <2>5. InSlots(h, x) <=> \E j \in Nat : j < m /\ x = <<h, EntrySize * j + SlotWord>>
    BY <1>3, <2>3 DEF InSlots
  <2>6. ASSUME NEW j \in Nat, j < m PROVE <<h, EntrySize * j + SlotWord>> \in SlotSet(h)
    <3>1. j + 1 \in 1 .. m /\ ((j + 1) - 1) * EntrySize + SlotWord = EntrySize * j + SlotWord
      BY <2>3, <2>6 DEF EntrySize, SlotWord
    <3> QED BY <2>4, <3>1
  <2>7. ASSUME x \in SlotSet(h)
        PROVE  \E j \in Nat : j < m /\ x = <<h, EntrySize * j + SlotWord>>
    <3>1. PICK i \in 1 .. m : x = <<h, (i - 1) * EntrySize + SlotWord>>
      BY <2>4, <2>7
    <3>2. /\ i - 1 \in Nat /\ i - 1 < m
          /\ (i - 1) * EntrySize + SlotWord = EntrySize * (i - 1) + SlotWord
      BY <2>3 DEF EntrySize, SlotWord
    <3> QED BY <3>1, <3>2
  <2> QED BY <2>5, <2>6, <2>7
<1> QED BY <1>1, <1>2, <1>3 DEF HookName

\* What is in HookSlots ...
HookSlotsIs == \A x : x \in HookSlots <=> \E k \in 1 .. Len(hooks) : InSlots(hooks[k], x)

\* ... as the union of them.
LEMMA HookSlotsHolds == LInv /\ WInv => HookSlotsIs
<1> SUFFICES ASSUME LInv, WInv PROVE HookSlotsIs
  OBVIOUS
<1>1. \A k \in 1 .. Len(hooks) : hooks[k] \in HookName
  BY DEF WInv, HasSlots
<1>2. SlotSetIs
  BY SlotSetHolds
<1> QED BY <1>1, <1>2 DEF HookSlotsIs, HookSlots, SlotSetIs

\* The words that can hold a callout, and the code of those that do.
Places == {Spin} \cup {x \in HookName \X Nat : x[2] < size[x[1]]}
Bytes(x) == IF IsCallout(Word(x)) THEN {x} \X (1 .. RtnSize[Word(x)[2]]) ELSE {}
Code(S) == UNION {Bytes(x) : x \in S}

\* There are finitely many of them ...
LEMMA PlacesFinite == ASSUME LInv PROVE IsFiniteSet(Places)
<1> DEFINE n == size["callout"] + size["smp"] + size["intrinfo"] + size["cacheattr"]
           box == HookName \X (0 .. n)
<1>1. \A h \in HookName : size[h] \in Nat /\ size[h] <= n
  <2>1. /\ size["callout"] \in Nat /\ size["smp"] \in Nat
        /\ size["intrinfo"] \in Nat /\ size["cacheattr"] \in Nat
    BY SectionFacts DEF LInv, LType
  <2> QED BY <2>1 DEF HookName
<1>2. n \in Nat
  BY SectionFacts DEF LInv, LType
<1> HIDE DEF n
<1>3. IsFiniteSet(HookName)
  <2>1. HookName = ((({} \cup {"callout"}) \cup {"smp"}) \cup {"intrinfo"}) \cup {"cacheattr"}
    BY DEF HookName
  <2>2. IsFiniteSet({} \cup {"callout"})
    BY FS_EmptySet, FS_AddElement
  <2>3. IsFiniteSet(({} \cup {"callout"}) \cup {"smp"})
    BY <2>2, FS_AddElement
  <2>4. IsFiniteSet((({} \cup {"callout"}) \cup {"smp"}) \cup {"intrinfo"})
    BY <2>3, FS_AddElement
  <2> QED BY <2>1, <2>4, FS_AddElement
<1>4. IsFiniteSet(box)
  <2>1. IsFiniteSet(0 .. n)
    BY <1>2, FS_Interval
  <2> QED BY <1>3, <2>1, FS_Product
<1>5. {x \in HookName \X Nat : x[2] < size[x[1]]} \in SUBSET box
  BY <1>1, <1>2
<1>6. IsFiniteSet({x \in HookName \X Nat : x[2] < size[x[1]]})
  <2> HIDE DEF box
  <2> QED BY <1>4, <1>5, FS_Subset
<1>7. IsFiniteSet({Spin})
  BY FS_Singleton
<1> QED BY <1>6, <1>7, FS_Union DEF Places

\* ... and the routines visit no other.
LEMMA InPlaces ==
  ASSUME LInv, WInv
  PROVE  HookSlots \subseteq Places /\ Pending \subseteq Places
<1>1. ASSUME NEW h, HasSlots(h), NEW x, InSlots(h, x) PROVE x \in Places
  <2>1. h \in HookName /\ size[h] \in Nat
    BY <1>1, SectionFacts DEF HasSlots, HookName, LInv, LType
  <2> QED BY <1>1, <2>1 DEF HasSlots, InSlots, Places, Words0, EntrySize, SlotWord
<1>2. HookSlots \subseteq Places
  BY <1>1, HookSlotsHolds DEF HookSlotsIs, WInv
<1>3. ASSUME NEW k \in 1 .. Len(todo), NEW i \in First(k) .. Len(SlotsOf(todo[k]))
      PROVE  SlotsOf(todo[k])[i] \in Places
  <2>1. i \in 1 .. Len(SlotsOf(todo[k]))
    BY DEF First, WInv
  <2>2. HasSlots(todo[k]) /\ todo[k] \in HookName
    BY DEF WInv, HasSlots
  <2>3. SlotsOf(todo[k])[i] \in SlotSet(todo[k])
    BY <2>1 DEF SlotSet
  <2> QED BY <1>1, <2>2, <2>3, SlotSetHolds DEF SlotSetIs
<1>4. Pending \subseteq Places
  BY <1>3 DEF Pending
<1> QED BY <1>2, <1>4

\* The word of a slot is that of its section.
LEMMA WordOf ==
  ASSUME LInv
  PROVE  /\ Word(Spin) = smp_spin_vaddr
         /\ \A s \in Section : \A i \in Words0(s) : Word(<<s, i>>) = W(s, i) /\ <<s, i>> # Spin
<1>1. ASSUME NEW s \in Section, NEW i \in Words0(s)
      PROVE  Word(<<s, i>>) = W(s, i) /\ <<s, i>> # Spin
  <2>1. <<s, i>> # Spin /\ Addr(<<s, i>>) = ptr[s] + i
    BY SectionFacts DEF Addr, Spin
  <2>2. (ptr[s] + i) - base = ptr[s] - base + i
    BY SectionFacts DEF LInv, LType, base, Words0
  <2> QED BY <2>1, <2>2 DEF Word, W
<1> QED BY <1>1 DEF Word

\* The same ...
WordIs == \A s \in Section : \A i \in Words0(s) : Word(<<s, i>>) = W(s, i)

\* ... stated so that it can be taken to the next state.
LEMMA WordIsHolds == LInv => WordIs
BY WordOf DEF WordIs

\* A callout in a place names one ...
CalloutsNamed == \A x \in Places : IsCallout(Word(x)) => Word(x)[2] \in Rtn

\* ... that is known.
LEMMA PlaceWord == LInv /\ MInv /\ NInv => CalloutsNamed
<1> SUFFICES ASSUME LInv, MInv, NInv, NEW x \in Places PROVE Word(x) \in Cell
  BY CalloutOfCell DEF CalloutsNamed
<1>1. CASE x = Spin
  BY <1>1 DEF Word, NInv
<1>2. ASSUME NEW h \in HookName, NEW i \in Nat, i < size[h], x = <<h, i>>
      PROVE  Word(x) \in Cell
  <2>1. h \in Section /\ i \in Words0(h)
    BY <1>2, SectionFacts DEF HookName, Words0, LInv, LType
  <2>2. /\ base \in Nat /\ base <= ptr[h] /\ ptr[h] + size[h] <= base + total_size
        /\ ptr[h] \in Nat /\ size[h] \in Nat /\ total_size \in Nat
    BY <2>1, SectionFacts DEF LInv, LType, base, Layout, Inside, End
  <2>3. ptr[h] - base + i \in 0 .. total_size - 1
    BY <1>2, <2>2
  <2> QED BY <1>2, <2>1, <2>3, WordOf DEF W, MInv
<1> QED BY <1>1, <1>2 DEF Places

\* The code of one callout, and of the callouts in some slots.
LEMMA BytesCount ==
  ASSUME CalloutsNamed, NEW x \in Places
  PROVE  /\ IsFiniteSet(Bytes(x))
         /\ Cardinality(Bytes(x)) = IF IsCallout(Word(x)) THEN RtnSize[Word(x)[2]] ELSE 0
<1>1. CASE ~ IsCallout(Word(x))
  BY <1>1, FS_EmptySet DEF Bytes
<1>2. CASE IsCallout(Word(x))
  <2> DEFINE n == RtnSize[Word(x)[2]]
  <2>1. n \in Nat
    BY <1>2, CalloutAssumption DEF CalloutsNamed
  <2> HIDE DEF n
  <2>2. IsFiniteSet(1 .. n) /\ Cardinality(1 .. n) = n
    BY <2>1, FS_Interval
  <2>3. IsFiniteSet({x}) /\ Cardinality({x}) = 1
    BY FS_Singleton
  <2>4. IsFiniteSet({x} \X (1 .. n)) /\ Cardinality({x} \X (1 .. n)) = 1 * n
    BY <2>2, <2>3, FS_Product, ZenonT(40)
  <2> QED BY <1>2, <2>1, <2>4 DEF Bytes, n
<1> QED BY <1>1, <1>2

\* ... which is finite.
LEMMA CodeFinite ==
  ASSUME LInv, CalloutsNamed, NEW S, S \subseteq Places
  PROVE  IsFiniteSet(Code(S)) /\ Cardinality(Code(S)) \in Nat
<1> DEFINE T == {Bytes(x) : x \in S}
           f == [x \in S |-> Bytes(x)]
<1>1. IsFiniteSet(S)
  BY PlacesFinite, FS_Subset
<1>2. f \in Surjection(S, T)
  BY DEF Surjection
<1>3. IsFiniteSet(T)
  <2> HIDE DEF f, T
  <2> QED BY <1>1, <1>2, FS_Surjection
<1>4. \A B \in T : IsFiniteSet(B)
  BY BytesCount
<1>5. IsFiniteSet(UNION T)
  <2> HIDE DEF T
  <2> QED BY <1>3, <1>4, FS_UNION
<1> QED BY <1>5, FS_CardinalityType DEF Code

\* What is left to write and what has been written are apart ...
LEMMA TwoParts ==
  ASSUME NEW C, IsFiniteSet(C), NEW B, NEW D, B \subseteq C, D \subseteq C, B \cap D = {}
  PROVE  Cardinality(B) + Cardinality(D) <= Cardinality(C)
<1>1. IsFiniteSet(B) /\ IsFiniteSet(D)
  BY FS_Subset
<1>2. IsFiniteSet(B \cup D) /\ Cardinality(B \cup D) = Cardinality(B) + Cardinality(D) - Cardinality(B \cap D)
  BY <1>1, FS_Union
<1>3. Cardinality(B \cap D) = 0
  BY FS_EmptySet
<1>4. Cardinality(B \cup D) <= Cardinality(C)
  <2>1. B \cup D \in SUBSET C
    OBVIOUS
  <2> QED BY <2>1, FS_Subset
<1>5. Cardinality(B) \in Nat /\ Cardinality(D) \in Nat
  BY <1>1, FS_CardinalityType
<1> QED BY <1>2, <1>3, <1>4, <1>5

\* ... and together they are not more than the whole.
LEMMA OnePart ==
  ASSUME NEW C, NEW B, NEW D, IsFiniteSet(B), IsFiniteSet(D), C \subseteq B \cup D
  PROVE  Cardinality(C) <= Cardinality(B) + Cardinality(D)
<1>1. /\ IsFiniteSet(B \cup D)
      /\ Cardinality(B \cup D) = Cardinality(B) + Cardinality(D) - Cardinality(B \cap D)
  BY FS_Union
<1>2. IsFiniteSet(C) /\ Cardinality(C) <= Cardinality(B \cup D)
  BY <1>1, FS_Subset
<1>3. IsFiniteSet(B \cap D)
  BY FS_Intersection
<1>4. Cardinality(B \cap D) \in Nat /\ Cardinality(B) \in Nat /\ Cardinality(D) \in Nat
      /\ Cardinality(C) \in Nat
  BY <1>2, <1>3, FS_CardinalityType
<1> QED BY <1>1, <1>2, <1>4

-----------------------------------------------------------------------------
(* Every callout of the page lies in a slot some routine of the chain visits *)

CalloutAt(s, i) == i \in Words0(s) /\ IsCallout(W(s, i))
HookInv ==
  /\ size["intrinfo"] % EntrySize = 0 /\ size["cacheattr"] % EntrySize = 0
  /\ \E k \in 1 .. Len(hooks) : hooks[k] = "callout"
  /\ \A s \in Section : \A i : CalloutAt(s, i) => <<s, i>> \in HookSlots
  /\ IsCallout(smp_spin_vaddr) => Spin \in HookSlots

\* Routines stay in the chain, and slots do.
LEMMA HooksStay ==
  ASSUME LInv, LInv', WInv, WInv', [Next]_vars
  PROVE  /\ \A k \in 1 .. Len(hooks) : \E m \in 1 .. Len(hooks') : hooks'[m] = hooks[k]
         /\ HookSlots \subseteq HookSlots'
<1>1. \A k \in 1 .. Len(hooks) : \E m \in 1 .. Len(hooks') : hooks'[m] = hooks[k]
  <2>1. CASE hooks' = hooks
    BY <2>1
  <2>2. ASSUME NEW h \in HookName, hooks' = <<h>> \o hooks, NEW k \in 1 .. Len(hooks)
        PROVE  \E m \in 1 .. Len(hooks') : hooks'[m] = hooks[k]
    <3>1. hooks \in Seq(HookName) /\ <<h>> \in Seq(HookName)
      BY DEF WInv
    <3>2. /\ Len(hooks) \in Nat /\ Len(hooks') = Len(hooks) + 1
          /\ \A i \in 1 .. Len(hooks) + 1 : hooks'[i] = IF i = 1 THEN h ELSE hooks[i - 1]
      BY <2>2, <3>1
    <3>3. k + 1 \in 1 .. Len(hooks') /\ hooks'[k + 1] = hooks[k]
      BY <3>2
    <3> QED BY <3>3
  <2> QED BY <2>1, <2>2, HooksStep
<1>2. ASSUME NEW h \in HookName, NEW x, InSlots(h, x) PROVE InSlots(h, x)'
  <2>1. size[h] \in Nat /\ size'[h] \in Nat /\ size[h] <= size'[h]
    BY SizesGrow, SectionFacts DEF HookName
  <2>2. /\ \A i \in Words0(h) : i \in Words0(h)'
        /\ \A j \in Nat : EntrySize * j + SlotWord < size[h] => EntrySize * j + SlotWord < size'[h]
    BY <2>1 DEF Words0, EntrySize, SlotWord
  <2> QED BY <1>2, <2>2 DEF InSlots, Spin, EntrySize, SlotWord
<1>3. HookSlotsIs /\ HookSlotsIs'
  BY HookSlotsHolds, PTL
<1>4. ASSUME NEW x \in HookSlots PROVE x \in HookSlots'
  <2>1. PICK h \in HookName : InSlots(h, x) /\ \E k \in 1 .. Len(hooks) : hooks[k] = h
    BY <1>3 DEF HookSlotsIs, WInv, HasSlots
  <2>2. PICK m \in 1 .. Len(hooks') : hooks'[m] = h
    BY <1>1, <2>1
  <2>3. InSlots(h, x)'
    BY <1>2, <2>1
  <2>4. InSlots(hooks[m], x)'
    BY <2>2, <2>3 DEF InSlots
  <2> QED BY <1>3, <2>2, <2>4 DEF HookSlotsIs
<1> QED BY <1>1, <1>4

\* A slot of a routine in the chain.
LEMMA InChain ==
  ASSUME LInv', WInv', NEW h \in HookName, \E k \in 1 .. Len(hooks') : hooks'[k] = h,
         NEW x, InSlots(h, x)'
  PROVE  x \in HookSlots'
<1>1. HookSlotsIs'
  BY HookSlotsHolds, PTL
<1>2. PICK k \in 1 .. Len(hooks') : hooks'[k] = h
  OBVIOUS
<1>3. InSlots(hooks[k], x)'
  BY <1>2 DEF InSlots
<1> QED BY <1>1, <1>3 DEF HookSlotsIs

\* Addresses and offsets.
LEMMA Offsets ==
  \A P, B, S, N, T, J \in Nat :
    /\ (P + S) - B \in Int /\ (P - B) + J \in Int
    /\ B <= P /\ P + S <= B + T /\ S <= J /\ J < S + N
         => /\ (P - B) + J \in 0 .. T + N - 1
            /\ (P + S) - B <= (P - B) + J /\ (P - B) + J < ((P + S) - B) + N
            /\ ((P - B) + J) - ((P + S) - B) = J - S
OBVIOUS

\* A section that grows has its old callouts, and those that are put into
\* its new words.
LEMMA GrowCallouts ==
  ASSUME LInv, LInv', MInv, NEW s, NEW p, NEW n, NEW new, Grows(s, p, n, new),
         new \in [0 .. n - 1 -> Cell], NEW t \in Section, NEW j, CalloutAt(t, j)'
  PROVE  \/ CalloutAt(t, j)
         \/ t = s /\ j - size[s] \in 0 .. n - 1 /\ IsCallout(new[j - size[s]]) /\ j \in Nat
<1>0. s \in Section /\ n \in Nat \ {0} /\ GrowStep(s, p, n, new)
  BY DEF Grows
<1>1. /\ p \in Nat /\ base <= p /\ p + size[s] <= base + total_size
      /\ ptr'[s] = p /\ size'[s] = size[s] + n /\ base' = base
      /\ total_size' = total_size + n
      /\ \A u \in Section \ {s} : size'[u] = size[u]
  BY <1>0, GrowMoves
<1>2. \A u \in Section : \A i \in Words0(u) : mem'[ptr'[u] - base' + i] = mem[ptr[u] - base + i]
  BY <1>0, GrowWords
<1>3. j \in 0 .. size'[t] - 1 /\ IsCallout(mem'[ptr'[t] - base' + j])
  BY DEF CalloutAt, Words0, W, IsCallout
<1>4. CASE j \in Words0(t)
  BY <1>2, <1>3, <1>4 DEF CalloutAt, W
<1>5. CASE j \notin Words0(t)
  <2>1. t = s /\ size[s] \in Nat /\ base \in Nat /\ total_size \in Nat
    BY <1>0, <1>1, <1>3, <1>5, SectionFacts DEF Words0, LInv, LType, base
  <2>2. j - size[s] \in 0 .. n - 1 /\ j \in Nat
    BY <1>0, <1>1, <1>3, <1>5, <2>1, SMTT(30) DEF Words0
  <2> DEFINE off == (p + size[s]) - base
             a == (p - base) + j
  <2>3. /\ a \in 0 .. total_size + n - 1 /\ off <= a /\ a < off + n
        /\ a - off = j - size[s]
    <3>1. /\ p \in Nat /\ base \in Nat /\ n \in Nat /\ j \in Nat /\ size[s] \in Nat
          /\ total_size \in Nat /\ base <= p /\ p + size[s] <= base + total_size
          /\ size[s] <= j /\ j < size[s] + n
      BY <1>0, <1>1, <2>1, <2>2, SMTT(30)
    <3> QED BY <3>1, Offsets
  <2>4. mem' = [b \in 0 .. total_size + n - 1 |->
                  IF b < off THEN mem[b] ELSE IF b < off + n THEN new[b - off] ELSE mem[b - n]]
    BY <1>0, Zenon DEF GrowStep, Grow
  <2>5. mem'[a] = new[j - size[s]] /\ a = ptr'[s] - base' + j
    <3> HIDE DEF a, off
    <3>1. off \in Int /\ a \in Int /\ n \in Nat
      BY <1>0, <1>1, <2>1, <2>2, Offsets DEF off, a
    <3>2. ~ (a < off)
      BY <2>3, <3>1
    <3>3. mem'[a] = new[j - size[s]]
      BY <2>3, <2>4, <3>2
    <3> QED BY <1>1, <3>3 DEF a
  <2> QED BY <1>3, <2>1, <2>2, <2>5
<1> QED BY <1>4, <1>5

\* A step keeps HookInv when each callout it adds is in a slot.
AllInSlots ==
  /\ \A t \in Section : \A j : CalloutAt(t, j)' => CalloutAt(t, j) \/ <<t, j>> \in HookSlots'
  /\ IsCallout(smp_spin_vaddr') => IsCallout(smp_spin_vaddr) \/ Spin \in HookSlots'
EntriesWhole ==
  /\ size'["intrinfo"] \in {size["intrinfo"], size["intrinfo"] + EntrySize}
  /\ size'["cacheattr"] \in {size["cacheattr"], size["cacheattr"] + EntrySize}

\* If it does, what it leaves is right.
LEMMA HookKeeps ==
  ASSUME LInv, LInv', WInv, WInv', HookInv, [Next]_vars, AllInSlots, EntriesWhole
  PROVE  HookInv'
<1>1. /\ \A k \in 1 .. Len(hooks) : \E m \in 1 .. Len(hooks') : hooks'[m] = hooks[k]
      /\ HookSlots \subseteq HookSlots'
  BY HooksStay
<1>2. size'["intrinfo"] % EntrySize = 0 /\ size'["cacheattr"] % EntrySize = 0
  <2>1. size["intrinfo"] \in Nat /\ size["cacheattr"] \in Nat
    BY SectionFacts DEF LInv, LType
  <2> QED BY <2>1 DEF HookInv, EntriesWhole, EntrySize
<1>3. \A t \in Section : \A j : CalloutAt(t, j)' => <<t, j>> \in HookSlots'
  BY <1>1 DEF AllInSlots, HookInv
<1>4. IsCallout(smp_spin_vaddr') => Spin \in HookSlots'
  BY <1>1 DEF AllInSlots, HookInv
<1>5. \E k \in 1 .. Len(hooks') : hooks'[k] = "callout"
  BY <1>1 DEF HookInv
<1> QED BY <1>2, <1>3, <1>4, <1>5 DEF HookInv, IsCallout, Spin, EntrySize

\* Plain data has no callouts.
LEMMA PlainSlots ==
  ASSUME LInv, LInv', MInv, NEW s, NEW p, NEW n, NEW new, Grows(s, p, n, new),
         new \in [0 .. n - 1 -> Cell], \A i \in 0 .. n - 1 : ~ IsCallout(new[i]),
         s \notin {"intrinfo", "cacheattr"}, UNCHANGED smp_spin_vaddr
  PROVE  AllInSlots /\ EntriesWhole
<1>1. AllInSlots
  BY GrowCallouts, ZenonT(40) DEF AllInSlots
<1>2. EntriesWhole
  BY GrowMoves, SectionFacts DEF Grows, EntriesWhole
<1> QED BY <1>1, <1>2

\* grow_syspage_section() for plain data ...
LEMMA GrowPlainSlots ==
  ASSUME LInv, LInv', MInv, NEW s \in Section \ Settable, s \notin {"intrinfo", "cacheattr"},
         NEW n \in Nat \ {0}, GrowPlain(s, n), UNCHANGED smp_spin_vaddr
  PROVE  AllInSlots /\ EntriesWhole
<1> DEFINE new == [i \in 0 .. n - 1 |-> Data(s, size[s] + i)]
<1>1. Grows(s, ptr[s], n, new)
  BY GrowPlainGrows
<1>2. size[s] \in Nat
  BY DEF LInv, LType
<1>3. \A i \in 0 .. n - 1 : Data(s, size[s] + i) \in Cell /\ ~ IsCallout(Data(s, size[s] + i))
  BY <1>2 DEF Data, Cell, IsCallout
<1>4. new \in [0 .. n - 1 -> Cell] /\ \A i \in 0 .. n - 1 : ~ IsCallout(new[i])
  BY <1>3
<1> HIDE DEF new
<1> QED BY <1>1, <1>4, PlainSlots

\* ... and set_syspage_section().
LEMMA SetSlots ==
  ASSUME LInv, LInv', MInv, NEW s \in Fixed, SetSection(s)
  PROVE  AllInSlots /\ EntriesWhole
<1> DEFINE n == Words(SetSize[s])
           new == [i \in 0 .. n - 1 |-> Data(s, i)]
<1>1. n \in Nat \ {0} /\ s \in Settable /\ s \in Section
  BY SizeAssumption, WordsPositive, SectionFacts
<1>2. Set(s, n, new) /\ UNCHANGED smp_spin_vaddr
  BY DEF SetSection
<1> HIDE DEF n
<1>3. \A i \in 0 .. n - 1 : Data(s, i) \in Cell /\ ~ IsCallout(Data(s, i))
  BY <1>1 DEF Data, Cell, IsCallout
<1>4. new \in [0 .. n - 1 -> Cell] /\ \A i \in 0 .. n - 1 : ~ IsCallout(new[i])
  BY <1>3
<1> HIDE DEF new
<1>5. Grows(s, base + fixed_size, n, new)
  BY <1>1, <1>2, SetGrows
<1>6. s \notin {"intrinfo", "cacheattr"}
  BY <1>1, SectionFacts
<1> QED BY <1>2, <1>4, <1>5, <1>6, PlainSlots

\* A routine that hooks itself is in the chain.
LEMMA Chained ==
  ASSUME WInv, NEW h, Hook(h)
  PROVE  \E k \in 1 .. Len(hooks') : hooks'[k] = h
<1>1. CASE Hooked(h)
  BY <1>1 DEF Hook, Hooked
<1>2. CASE ~ Hooked(h)
  <2>1. hooks' = <<h>> \o hooks /\ hooks \in Seq(HookName)
    BY <1>2 DEF Hook, WInv
  <2>2. Len(hooks) \in Nat /\ Len(hooks') = Len(hooks) + 1 /\ hooks'[1] = h
    BY <2>1
  <2> QED BY <2>2
<1> QED BY <1>1, <1>2

\* The callout of an interrupt or a cache entry is in a slot of its routine.
LEMMA EntrySlots ==
  ASSUME LInv, LInv', MInv, WInv, WInv', HookInv,
         NEW s \in {"intrinfo", "cacheattr"}, NEW v \in Nat \cup CacheAttr, NEW r \in Rtn, Hook(s),
         Grow(s, ptr[s], EntrySize, Entry(s, v, r)), UNCHANGED <<isset, fixed_size, smp_spin_vaddr>>
  PROVE  AllInSlots /\ EntriesWhole
<1> DEFINE new == Entry(s, v, r)
<1>1. s \in Section /\ s \in HookName /\ size[s] \in Nat /\ size[s] % EntrySize = 0
  BY SectionFacts DEF LInv, LType, HookInv, HookName
<1>2. new \in [0 .. EntrySize - 1 -> Cell]
  BY <1>1, EntryInCell
<1>3. \A i \in 0 .. EntrySize - 1 : IsCallout(new[i]) => i = SlotWord
  BY DEF Entry, EntrySize, SlotWord, IsCallout, Data
<1> HIDE DEF new
<1>4. Grows(s, ptr[s], EntrySize, new)
  BY EntryGrows DEF new
<1>5. /\ size'[s] = size[s] + EntrySize
      /\ \A t \in Section \ {s} : size'[t] = size[t]
  BY <1>4, GrowMoves DEF Grows
<1>6. EntriesWhole
  BY <1>5, SectionFacts DEF EntriesWhole
<1>7. <<s, size[s] + SlotWord>> \in HookSlots'
  <2>1. \E k \in 1 .. Len(hooks') : hooks'[k] = s
    BY Chained
  <2> DEFINE j == size[s] \div EntrySize
             x == <<s, size[s] + SlotWord>>
  <2>2. /\ j \in Nat /\ EntrySize * j + SlotWord = size[s] + SlotWord
        /\ EntrySize * j + SlotWord < size'[s]
    BY <1>1, <1>5 DEF EntrySize, SlotWord
  <2> HIDE DEF j
  <2>3. PICK y : y = x
    OBVIOUS
  <2>4. InSlots(s, y)'
    BY <2>2, <2>3 DEF InSlots, EntrySize, SlotWord
  <2> QED BY <1>1, <2>1, <2>3, <2>4, InChain
<1>8. AllInSlots
  <2> SUFFICES ASSUME NEW t \in Section, NEW j, CalloutAt(t, j)', ~ CalloutAt(t, j)
               PROVE  <<t, j>> \in HookSlots'
    BY DEF AllInSlots
  <2>1. t = s /\ j - size[s] \in 0 .. EntrySize - 1 /\ IsCallout(new[j - size[s]]) /\ j \in Nat
    BY <1>2, <1>4, GrowCallouts
  <2>2. j = size[s] + SlotWord
    BY <1>1, <1>3, <2>1 DEF EntrySize, SlotWord
  <2> QED BY <1>7, <2>1, <2>2
<1> QED BY <1>6, <1>8

\* init_smp()
LEMMA SmpSlots ==
  ASSUME LInv, LInv', MInv, WInv, WInv', NEW r \in Rtn, InitSmp(r)
  PROVE  AllInSlots /\ EntriesWhole
<1> DEFINE new == [i \in {0} |-> Callout(r)]
<1>1. Set("smp", 1, new) /\ Hook("smp") /\ "smp" \notin isset
  BY DEF InitSmp, Set
<1>2. "smp" \in Settable /\ "smp" \in Section /\ "smp" \in HookName
  BY SectionFacts DEF Settable, HookName
<1>3. size["smp"] = 0
  BY <1>1, <1>2 DEF LInv, Sizes
<1>4. new \in [0 .. 1 - 1 -> Cell]
  <2>1. Callout(r) \in Cell /\ 0 .. 1 - 1 = {0}
    BY DEF Callout, Cell
  <2> QED BY <2>1
<1> HIDE DEF new
<1>5. Grows("smp", base + fixed_size, 1, new)
  BY <1>1, <1>2, SetGrows
<1>6. EntriesWhole
  BY <1>5, GrowMoves, SectionFacts DEF Grows, EntriesWhole
<1>7. \E k \in 1 .. Len(hooks') : hooks'[k] = "smp"
  BY <1>1, Chained
<1>8. <<"smp", 0>> \in HookSlots' /\ Spin \in HookSlots'
  <2>1. ASSUME NEW x, x = <<"smp", 0>> \/ x = Spin PROVE x \in HookSlots'
    <3>1. InSlots("smp", x)'
      BY <2>1 DEF InSlots, Spin
    <3> QED BY <1>2, <1>7, <3>1, InChain
  <2> QED BY <2>1
<1>9. ASSUME NEW t \in Section, NEW j, CalloutAt(t, j)', ~ CalloutAt(t, j)
      PROVE  <<t, j>> \in HookSlots'
  <2>1. t = "smp" /\ j - size["smp"] \in 0 .. 1 - 1 /\ j \in Nat
    BY <1>4, <1>5, <1>9, GrowCallouts
  <2>2. j = 0
    BY <1>3, <2>1
  <2> QED BY <1>8, <2>1, <2>2
<1>10. AllInSlots
  BY <1>8, <1>9 DEF AllInSlots
<1> QED BY <1>6, <1>10

\* Writing a word changes that word only.
LEMMA WroteWords ==
  ASSUME LInv, LInv', MInv, NEW s \in Section, NEW i \in Words0(s), NEW v \in Cell,
         Wrote((ptr[s] + i) - base, v), UNCHANGED <<ptr, size, total_size>>
  PROVE  \A t \in Section : \A j \in Words0(t) :
           W(t, j)' = IF t = s /\ j = i THEN v ELSE W(t, j)
<1>1. /\ ptr \in [Section -> Nat] /\ size \in [Section -> Nat] /\ total_size \in Nat
      /\ base \in Nat /\ i \in 0 .. size[s] - 1
      /\ \A t \in Section : base <= ptr[t] /\ ptr[t] + size[t] <= base + total_size
  BY SectionFacts DEF LInv, LType, base, Layout, Inside, End, Words0
<1>2. base' = base
  BY DEF base
<1> SUFFICES ASSUME NEW t \in Section, NEW j \in Words0(t)
             PROVE  mem'[ptr[t] - base + j] = IF t = s /\ j = i THEN v ELSE mem[ptr[t] - base + j]
  BY <1>2 DEF W
<1>3. /\ ptr[t] - base + j \in 0 .. total_size - 1 /\ (ptr[s] + i) - base \in 0 .. total_size - 1
      /\ (ptr[t] - base + j = (ptr[s] + i) - base <=> ptr[t] + j = ptr[s] + i)
  BY <1>1 DEF Words0
<1>4. ptr[t] + j = ptr[s] + i <=> t = s /\ j = i
  <2>1. IsWord(ptr[t] + j, t, j) /\ IsWord(ptr[s] + i, s, i)
    BY DEF IsWord
  <2> QED BY <2>1, AddrInjective DEF OneWord
<1> QED BY <1>3, <1>4 DEF MInv, Wrote

\* add_callout() writes a slot, and the second pass empties one.
LEMMA WroteSlots ==
  ASSUME LInv, LInv', MInv, NEW s \in Section, NEW i \in Words0(s), NEW v \in Cell,
         Wrote((ptr[s] + i) - base, v), UNCHANGED <<ptr, size, total_size, smp_spin_vaddr>>,
         IsCallout(v) => <<s, i>> \in HookSlots'
  PROVE  AllInSlots /\ EntriesWhole
<1>1. \A t \in Section : \A j \in Words0(t) :
           W(t, j)' = IF t = s /\ j = i THEN v ELSE W(t, j)
  BY WroteWords
<1>2. ASSUME NEW t \in Section, NEW j, CalloutAt(t, j)'
      PROVE  CalloutAt(t, j) \/ <<t, j>> \in HookSlots'
  <2>1. j \in Words0(t) /\ IsCallout(W(t, j)')
    BY <1>2 DEF CalloutAt, Words0, IsCallout
  <2> QED BY <1>1, <2>1 DEF CalloutAt
<1>3. AllInSlots
  BY <1>2 DEF AllInSlots
<1> QED BY <1>3 DEF EntriesWhole

\* add_callout()
LEMMA AddCalloutSlots ==
  ASSUME LInv, LInv', MInv, WInv, WInv', HookInv, NEW i \in 0 .. NumSlots - 1, NEW r \in Rtn,
         AddCallout(i, r)
  PROVE  AllInSlots /\ EntriesWhole
<1> DEFINE v == Callout(r)
<1>1. Wrote((ptr["callout"] + i) - base, v)
  BY Zenon DEF AddCallout, Wrote
<1>2. UNCHANGED <<ptr, size, total_size, smp_spin_vaddr, hooks>>
  BY DEF AddCallout
<1>3. v \in Cell
  BY DEF Callout, Cell
<1> HIDE DEF v
<1>4. "callout" \in Section /\ "callout" \in HookName /\ i \in Words0("callout")
  BY SectionFacts DEF HookName, Words0, WInv
<1>5. <<"callout", i>> \in HookSlots'
  <2>1. \E k \in 1 .. Len(hooks') : hooks'[k] = "callout"
    BY <1>2 DEF HookInv
  <2>2. PICK x : x = <<"callout", i>>
    OBVIOUS
  <2>3. InSlots("callout", x)'
    BY <1>2, <1>4, <2>2 DEF InSlots, Words0
  <2> QED BY <1>4, <2>1, <2>2, <2>3, InChain
<1> QED BY <1>1, <1>2, <1>3, <1>4, <1>5, WroteSlots

\* Moving the page moves its words.
LEMMA RelocSlots ==
  ASSUME LInv, RelocSyspageMemory
  PROVE  AllInSlots /\ EntriesWhole /\ \A t \in Section : \A j : W(t, j)' = W(t, j)
<1> DEFINE diff == TempBase - base
<1>1. /\ ptr' = [s \in Section |-> ptr[s] + diff] /\ UNCHANGED <<size, mem, smp_spin_vaddr>>
  BY DEF RelocSyspageMemory
<1>2. /\ diff \in Int /\ base \in Nat /\ base = ptr["syspage"] /\ base' = ptr'["syspage"]
      /\ \A s \in Section : ptr[s] \in Nat
  BY SizeAssumption, SectionFacts DEF LInv, LType, base
<1> HIDE DEF diff
<1>3. \A t \in Section : ptr'[t] - base' = ptr[t] - base
  BY <1>1, <1>2, SectionFacts
<1>4. \A t \in Section : \A j : W(t, j)' = W(t, j)
  BY <1>1, <1>3 DEF W
<1>5. \A t \in Section : \A j : CalloutAt(t, j)' => CalloutAt(t, j)
  BY <1>1, <1>4 DEF CalloutAt, Words0, IsCallout
<1> QED BY <1>1, <1>4, <1>5 DEF AllInSlots, EntriesWhole

\* A step that leaves the page alone ...
pageVars == <<ptr, size, mem, smp_spin_vaddr>>

\* ... adds no callout.
LEMMA StutterSlots ==
  ASSUME UNCHANGED pageVars
  PROVE  AllInSlots /\ EntriesWhole
<1>1. \A t \in Section : \A j : CalloutAt(t, j)' => CalloutAt(t, j)
  BY DEF pageVars, CalloutAt, Words0, IsCallout, W, base
<1> QED BY <1>1 DEF AllInSlots, EntriesWhole, pageVars

\* Where the second pass writes: the code begins behind the page and the
\* data of the callouts, and goes on behind what was written before.
Start == RoundPg(8 * total_size + rw_size)
NextOff == IF rtn_size = 0 THEN Start ELSE rtn_size

\* The second pass changes the word of the slot it visits, to an address.
LEMMA WriteWords ==
  ASSUME LInv, LInv', MInv, WInv, NInv, WriteOne, IsCallout(Word(Slot))
  PROVE  /\ NextOff \in Nat
         /\ smp_spin_vaddr' = IF Slot = Spin THEN Vaddr(NextOff) ELSE smp_spin_vaddr
         /\ \A t \in Section : \A j \in Words0(t) :
              W(t, j)' = IF <<t, j>> = Slot THEN Vaddr(NextOff) ELSE W(t, j)
<1>1. NextOff \in Nat
  <2>1. 8 * total_size + rw_size \in Nat /\ rtn_size \in Nat
    BY DEF LInv, LType, NInv
  <2> QED BY <2>1, RoundPgNat DEF NextOff, Start
<1>2. /\ Visiting /\ UNCHANGED <<ptr, size, total_size>>
      /\ IF Slot = Spin
         THEN smp_spin_vaddr' = Vaddr(NextOff) /\ UNCHANGED mem
         ELSE /\ mem' = [mem EXCEPT ![Addr(Slot) - base] = Vaddr(NextOff)]
              /\ UNCHANGED smp_spin_vaddr
  BY Zenon DEF WriteOne, NextOff, Start
<1>3. Vaddr(NextOff) \in Cell
  BY <1>1 DEF Vaddr, Cell
<1>4. CASE Slot = Spin
  <2>1. \A t \in Section : \A j \in Words0(t) : <<t, j>> # Slot
    BY <1>4, WordOf
  <2> QED BY <1>1, <1>2, <1>4, <2>1 DEF W, base
<1>5. ASSUME NEW s \in Section, NEW i \in Words0(s), Slot = <<s, i>>
      PROVE  \A t \in Section : \A j \in Words0(t) :
               W(t, j)' = IF <<t, j>> = Slot THEN Vaddr(NextOff) ELSE W(t, j)
  <2>1. Slot # Spin /\ Addr(Slot) = ptr[s] + i
    BY <1>5, WordOf, SectionFacts DEF Addr, Spin
  <2>2. Wrote((ptr[s] + i) - base, Vaddr(NextOff))
    BY <1>2, <2>1, Zenon DEF Wrote
  <2>3. \A t \in Section : \A j \in Words0(t) :
          W(t, j)' = IF t = s /\ j = i THEN Vaddr(NextOff) ELSE W(t, j)
    BY <1>2, <1>3, <2>2, WroteWords
  <2> QED BY <1>5, <2>3
<1>6. CASE Slot # Spin
  <2>1. PICK s \in Section : \E i \in Words0(s) : Slot = <<s, i>>
    BY <1>2, <1>6, SlotIsWord
  <2> QED BY <1>1, <1>2, <1>5, <1>6, <2>1
<1> QED BY <1>4, <1>6

\* callout_output_one() of the second pass adds no callout.
LEMMA WriteSlots ==
  ASSUME LInv, LInv', MInv, WInv, NInv, WriteOne
  PROVE  AllInSlots /\ EntriesWhole
<1>1. CASE ~ IsCallout(Word(Slot))
  <2>1. UNCHANGED pageVars
    BY <1>1 DEF WriteOne, pageVars
  <2> QED BY <2>1, StutterSlots
<1>2. CASE IsCallout(Word(Slot))
  <2>1. UNCHANGED size
    BY DEF WriteOne
  <2>2. /\ smp_spin_vaddr' \in {smp_spin_vaddr, Vaddr(NextOff)}
        /\ \A t \in Section : \A j \in Words0(t) : W(t, j)' \in {W(t, j), Vaddr(NextOff)}
    BY <1>2, WriteWords
  <2>3. ~ IsCallout(Vaddr(NextOff))
    BY DEF IsCallout, Vaddr
  <2>4. ASSUME NEW t \in Section, NEW j, CalloutAt(t, j)' PROVE CalloutAt(t, j)
    <3>1. j \in Words0(t) /\ IsCallout(W(t, j)')
      BY <2>1, <2>4 DEF CalloutAt, Words0, IsCallout
    <3> QED BY <2>2, <2>3, <3>1 DEF CalloutAt
  <2>5. IsCallout(smp_spin_vaddr') => IsCallout(smp_spin_vaddr)
    BY <2>2, <2>3
  <2> QED BY <2>1, <2>4, <2>5 DEF AllInSlots, EntriesWhole
<1> QED BY <1>1, <1>2

\* Every step puts the callouts it adds into slots.
LEMMA NextSlots ==
  ASSUME LInv, LInv', MInv, WInv, WInv', NInv, HookInv, [Next]_vars
  PROVE  AllInSlots /\ EntriesWhole
<1> DEFINE Ok == AllInSlots /\ EntriesWhole
<1>1. ASSUME NEW s \in Grown, NEW b \in GrowSize[s], GrowSection(s, b) PROVE Ok
  <2>1. Words(b) \in Nat \ {0} /\ s \in Section \ Settable /\ s \notin {"intrinfo", "cacheattr"}
    BY SizeAssumption, WordsPositive, SectionFacts, SectionAssumption
  <2>2. GrowPlain(s, Words(b)) /\ UNCHANGED smp_spin_vaddr
    BY <1>1 DEF GrowSection
  <2> QED BY <2>1, <2>2, GrowPlainSlots
<1>2. ASSUME AsAdd \/ Split PROVE Ok
  <2>1. AsSize \in Nat \ {0} /\ "asinfo" \in Section \ Settable
    BY SizeAssumption, SectionFacts
  <2>2. GrowPlain("asinfo", AsSize) /\ UNCHANGED smp_spin_vaddr
    BY <1>2 DEF AsAdd, Split
  <2> QED BY <2>1, <2>2, GrowPlainSlots
<1>3. ASSUME NEW r \in Rtn, NEW d, AddInterrupt(r, d) PROVE Ok
  <2> DEFINE s == "intrinfo"
             v == size[s]
  <2>1. /\ Hook(s) /\ Grow(s, ptr[s], EntrySize, Entry(s, v, r))
        /\ UNCHANGED <<isset, fixed_size, smp_spin_vaddr>>
    BY <1>3 DEF AddInterrupt
  <2>2. v \in Nat \cup CacheAttr
    BY SectionFacts DEF LInv, LType
  <2> HIDE DEF v
  <2> QED BY <2>1, <2>2, EntrySlots
<1>4. ASSUME NEW v \in CacheAttr, NEW r \in Rtn, AddCache(v, r) PROVE Ok
  <2> DEFINE s == "cacheattr"
  <2>1. CASE SameCache(v, r)
    <3>1. UNCHANGED pageVars
      BY <1>4, <2>1 DEF AddCache, pageVars, lspVars
    <3> QED BY <3>1, StutterSlots
  <2>2. CASE ~ SameCache(v, r)
    <3>1. /\ Hook(s) /\ Grow(s, ptr[s], EntrySize, Entry(s, v, r))
          /\ UNCHANGED <<isset, fixed_size, smp_spin_vaddr>>
      BY <1>4, <2>2 DEF AddCache
    <3> QED BY <3>1, EntrySlots
  <2> QED BY <2>1, <2>2
<1>5. /\ \A i \in 0 .. NumSlots - 1, r \in Rtn : AddCallout(i, r) => Ok
      /\ \A r \in Rtn : InitSmp(r) => Ok
      /\ \A s \in Fixed : SetSection(s) => Ok
      /\ RelocSyspageMemory => Ok
      /\ WriteOne => Ok
  BY AddCalloutSlots, SmpSlots, SetSlots, RelocSlots, WriteSlots
<1>6. UNCHANGED pageVars => Ok
  BY StutterSlots
<1>7. /\ \A n : GrowCrash(n) => UNCHANGED pageVars
      /\ AllocSyspageMemory \/ SizeOne \/ SizeDone \/ Freeze => UNCHANGED pageVars
      /\ WriteDone \/ NextRoutine \/ UNCHANGED vars => UNCHANGED pageVars
  BY DEF GrowCrash, AllocSyspageMemory, SizeOne, SizeDone, Freeze, WriteDone, NextRoutine,
         vars, lspVars, dataVars, pageVars
<1>8. /\ \A s \in Grown : \A b \in GrowSize[s] : GrowSection(s, b) => Ok
      /\ AsAdd \/ Split => Ok
      /\ \A r \in Rtn, d \in IntrData : AddInterrupt(r, d) => Ok
      /\ \A v \in CacheAttr, r \in Rtn : AddCache(v, r) => Ok
  BY <1>1, <1>2, <1>3, <1>4
<1> HIDE DEF Ok
<1>9. Ok
  BY <1>5, <1>6, <1>7, <1>8 DEF Next
<1> QED BY <1>9 DEF Ok

\* Every step keeps HookInv ...
LEMMA NextHookInv ==
  ASSUME LInv, LInv', MInv, WInv, WInv', NInv, HookInv, [Next]_vars
  PROVE  HookInv'
BY NextSlots, HookKeeps

\* ... which holds at first.
LEMMA InitHookInv == Init => HookInv
<1> SUFFICES ASSUME Init PROVE HookInv
  OBVIOUS
<1>1. LInv /\ WInv
  BY InitIInv DEF IInv
<1>2. /\ hooks = <<"callout">> /\ smp_spin_vaddr = Null
      /\ size["intrinfo"] = 0 /\ size["cacheattr"] = 0 /\ size["callout"] = NumSlots
      /\ size["syspage"] = HdrSize
      /\ ptr["syspage"] = InitBase
      /\ mem = [a \in 0 .. total_size - 1 |-> IF a < HdrSize THEN Data("syspage", a) ELSE Null]
      /\ \A s \in Section \ {"syspage", "callout"} : size[s] = 0
  BY SectionFacts DEF Init
<1>3. Len(hooks) = 1 /\ hooks[1] = "callout"
  BY <1>2
<1>4. HookSlotsIs
  BY <1>1, HookSlotsHolds
<1>5. ASSUME NEW s \in Section, NEW i, CalloutAt(s, i) PROVE <<s, i>> \in HookSlots
  <2>1. CASE s = "callout"
    <3>1. PICK x : x = <<s, i>>
      OBVIOUS
    <3>2. InSlots(hooks[1], x)
      BY <1>3, <1>5, <2>1, <3>1 DEF InSlots, CalloutAt
    <3> QED BY <1>3, <1>4, <3>1, <3>2 DEF HookSlotsIs
  <2>2. CASE s = "syspage"
    <3>1. /\ i \in 0 .. HdrSize - 1 /\ HdrSize \in Nat /\ total_size \in Nat
          /\ ptr[s] \in Nat /\ base = ptr[s] /\ HdrSize <= total_size
      <4>1. i \in 0 .. HdrSize - 1 /\ HdrSize \in Nat
        BY <1>2, <1>5, <2>2, SizeAssumption DEF CalloutAt, Words0
      <4>2. total_size \in Nat /\ ptr[s] \in Nat /\ base = ptr[s]
        BY <1>1, <2>2, SectionFacts DEF LInv, LType, base
      <4>3. ptr[s] + size[s] <= base + total_size
        BY <1>1 DEF LInv, Layout, Inside, End
      <4> QED BY <1>2, <2>2, <4>1, <4>2, <4>3
    <3>2. ptr[s] - base + i = i /\ i \in 0 .. total_size - 1
      BY <3>1
    <3>3. W(s, i) = Data("syspage", i)
      BY <1>2, <3>1, <3>2 DEF W
    <3> QED BY <1>5, <3>3 DEF CalloutAt, IsCallout, Data
  <2>3. CASE s \notin {"syspage", "callout"}
    BY <1>2, <1>5, <2>3 DEF CalloutAt, Words0
  <2> QED BY <2>1, <2>2, <2>3
<1> QED BY <1>2, <1>3, <1>5 DEF HookInv, IsCallout, Null, EntrySize

-----------------------------------------------------------------------------
(* The two passes over the slots                                           *)

\* Rounding up to a page: the quotient ...
LEMMA Division ==
  ASSUME NEW P \in Nat \ {0}, NEW x \in Nat
  PROVE  /\ x \div P \in Nat
         /\ (x \div P) * P <= x /\ x < (x \div P) * P + P
OBVIOUS

\* ... not less ...
LEMMA RoundPgUp == \A b \in Nat : b <= RoundPg(b)
<1> SUFFICES ASSUME NEW b \in Nat PROVE b <= RoundPg(b)
  OBVIOUS
<1> DEFINE x == b + PageSize - 1
<1>1. x \in Nat /\ PageSize \in Nat \ {0}
  BY PageAssumption
<1>2. x \div PageSize \in Nat /\ x < (x \div PageSize) * PageSize + PageSize
  BY <1>1, Division
<1>3. (x \div PageSize) * PageSize \in Nat
  BY <1>1, <1>2
<1>4. b <= (x \div PageSize) * PageSize
  BY <1>1, <1>2, <1>3
<1> QED BY <1>4 DEF RoundPg

\* ... and in order.
LEMMA RoundPgMonotone == \A a, b \in Nat : a <= b => RoundPg(a) <= RoundPg(b)
<1> SUFFICES ASSUME NEW a \in Nat, NEW b \in Nat, a <= b PROVE RoundPg(a) <= RoundPg(b)
  OBVIOUS
<1> DEFINE x == a + PageSize - 1
           y == b + PageSize - 1
           p == x \div PageSize
           q == y \div PageSize
<1>1. x \in Nat /\ y \in Nat /\ x <= y /\ PageSize \in Nat \ {0}
  BY PageAssumption
<1> HIDE DEF x, y
<1>2. p \in Nat /\ p * PageSize <= x
  BY <1>1, Division
<1>3. q \in Nat /\ y < q * PageSize + PageSize
  BY <1>1, Division
<1> HIDE DEF p, q
<1>4. p <= q
  <2>1. ASSUME p >= q + 1 PROVE p * PageSize >= q * PageSize + PageSize
    <3>1. PICK d \in Nat : p = q + 1 + d
      <4>1. p - (q + 1) \in Nat /\ p = q + 1 + (p - (q + 1))
        BY <1>2, <1>3, <2>1
      <4> QED BY <4>1
    <3>2. p * PageSize = q * PageSize + PageSize + d * PageSize
      BY <1>1, <1>3, <3>1
    <3>3. d * PageSize \in Nat /\ q * PageSize \in Nat
      BY <1>1, <1>3, <3>1
    <3> QED BY <1>1, <3>2, <3>3
  <2>2. q * PageSize \in Nat /\ p * PageSize \in Nat
    BY <1>1, <1>2, <1>3
  <2> QED BY <1>1, <1>2, <1>3, <2>1, <2>2
<1>5. p * PageSize <= q * PageSize
  <2>1. q - p \in Nat /\ (q - p) * PageSize \in Nat
    BY <1>1, <1>2, <1>3, <1>4
  <2>2. q * PageSize = p * PageSize + (q - p) * PageSize /\ p * PageSize \in Nat
    BY <1>1, <1>2, <1>3
  <2> QED BY <2>1, <2>2
<1> QED BY <1>5 DEF RoundPg, p, q, x, y

\* Rounding up to a word does not make less.
LEMMA Round8Up == \A b \in Nat : b <= Round8(b)
BY DEF Round8, Words

\* The slots still to be visited ...
PendingIs == \A x : x \in Pending <=>
  \E k \in 1 .. Len(todo) : \E i \in First(k) .. Len(SlotsOf(todo[k])) :
    x = SlotsOf(todo[k])[i]

\* ... which is their definition.
LEMMA PendingHolds == PendingIs
BY DEF PendingIs, Pending

\* A routine visits finitely many slots.
LEMMA SlotsLen == LInv /\ WInv => \A h \in HookName : Len(SlotsOf(h)) \in Nat
<1> SUFFICES ASSUME LInv, WInv, NEW h \in HookName PROVE Len(SlotsOf(h)) \in Nat
  OBVIOUS
<1>1. CASE h = "callout"
  <2>1. SlotsOf(h) = [i \in 1 .. NumSlots |-> <<h, i - 1>>] /\ NumSlots \in Nat
    BY <1>1, SizeAssumption DEF SlotsOf
  <2> QED BY <2>1
<1>2. CASE h = "smp"
  <2>1. SlotsOf(h) = <<Spin, <<h, 0>>>>
    BY <1>2 DEF SlotsOf
  <2> QED BY <2>1
<1>3. CASE h \in {"intrinfo", "cacheattr"}
  <2> DEFINE m == size[h] \div EntrySize
  <2>1. SlotsOf(h) = [i \in 1 .. m |-> <<h, (i - 1) * EntrySize + SlotWord>>]
    BY <1>3 DEF SlotsOf
  <2>2. m \in Nat
    BY <1>3, SectionFacts DEF LInv, LType, EntrySize
  <2> HIDE DEF m
  <2> QED BY <2>1, <2>2
<1> QED BY <1>1, <1>2, <1>3 DEF HookName

\* A pass begins with all slots before it ...
LEMMA StartPending ==
  ASSUME StartPass, UNCHANGED size
  PROVE  Pending' = HookSlots
<1>1. \A k : First(k)' = 1
  BY DEF StartPass, First
<1>2. \A h : SlotsOf(h)' = SlotsOf(h)
  BY DEF SlotsOf
<1>3. Pending' = UNION {{SlotsOf(hooks[k])[i] : i \in 1 .. Len(SlotsOf(hooks[k]))} : k \in 1 .. Len(hooks)}
  BY <1>1, <1>2 DEF StartPass, Pending
<1> QED BY <1>3 DEF HookSlots, SlotSet

\* ... ends with none ...
LEMMA EmptyPending == todo = << >> => Pending = {}
BY DEF Pending

\* ... loses none between two routines ...
LEMMA RoutinePending ==
  ASSUME LInv, WInv, NextRoutine
  PROVE  Pending' = Pending
<1>1. /\ todo # << >> /\ ~ (at <= Len(SlotsOf(Head(todo)))) /\ todo' = Tail(todo) /\ at' = 1
      /\ UNCHANGED size
  BY DEF NextRoutine, Visiting, lspVars
<1>2. /\ Len(todo) \in Nat /\ Len(todo) >= 1 /\ Head(todo) = todo[1]
      /\ Len(todo') = Len(todo) - 1
      /\ \A k \in 1 .. Len(todo) - 1 : todo'[k] = todo[k + 1]
      /\ \A k \in 1 .. Len(todo) : todo[k] \in HookName
  BY <1>1 DEF WInv
<1>3. \A h : SlotsOf(h)' = SlotsOf(h)
  BY <1>1 DEF SlotsOf
<1>4. \A k : First(k)' = 1
  BY <1>1 DEF First
<1>5. \A x : x \in Pending' <=>
         \E k \in 1 .. Len(todo) - 1 : \E i \in 1 .. Len(SlotsOf(todo[k + 1])) :
            x = SlotsOf(todo[k + 1])[i]
  <2>1. Pending' = UNION {{SlotsOf(todo'[k])[i] : i \in 1 .. Len(SlotsOf(todo'[k]))} : k \in 1 .. Len(todo')}
    BY <1>3, <1>4 DEF Pending
  <2>2. ASSUME NEW x
        PROVE  x \in Pending' <=>
                 \E k \in 1 .. Len(todo') : \E i \in 1 .. Len(SlotsOf(todo'[k])) : x = SlotsOf(todo'[k])[i]
    BY <2>1
  <2>3. \A k \in 1 .. Len(todo') : todo'[k] = todo[k + 1]
    BY <1>2
  <2>4. 1 .. Len(todo') = 1 .. Len(todo) - 1
    BY <1>2
  <2>5. ASSUME NEW x, x \in Pending'
        PROVE  \E k \in 1 .. Len(todo) - 1 : \E i \in 1 .. Len(SlotsOf(todo[k + 1])) :
                 x = SlotsOf(todo[k + 1])[i]
    <3>1. PICK k \in 1 .. Len(todo') : \E i \in 1 .. Len(SlotsOf(todo'[k])) : x = SlotsOf(todo'[k])[i]
      BY <2>2, <2>5
    <3>2. k \in 1 .. Len(todo) - 1 /\ todo'[k] = todo[k + 1]
      BY <2>3, <2>4
    <3> QED BY <3>1, <3>2
  <2>6. ASSUME NEW k \in 1 .. Len(todo) - 1, NEW i \in 1 .. Len(SlotsOf(todo[k + 1]))
        PROVE  SlotsOf(todo[k + 1])[i] \in Pending'
    <3>1. k \in 1 .. Len(todo') /\ todo'[k] = todo[k + 1]
      BY <2>3, <2>4
    <3>2. i \in 1 .. Len(SlotsOf(todo'[k])) /\ SlotsOf(todo[k + 1])[i] = SlotsOf(todo'[k])[i]
      BY <3>1
    <3> QED BY <2>2, <3>1, <3>2
  <2> QED BY <2>5, <2>6
<1>6. ASSUME NEW k \in 1 .. Len(todo) - 1, NEW i \in 1 .. Len(SlotsOf(todo[k + 1]))
      PROVE  SlotsOf(todo[k + 1])[i] \in Pending
  <2>1. k + 1 \in 1 .. Len(todo) /\ First(k + 1) = 1
    BY <1>2 DEF First
  <2> QED BY <2>1, PendingHolds DEF PendingIs
<1>7. ASSUME NEW k \in 1 .. Len(todo), NEW i \in First(k) .. Len(SlotsOf(todo[k]))
      PROVE  SlotsOf(todo[k])[i] \in Pending'
  <2>1. k # 1
    <3>1. ASSUME k = 1 PROVE at <= Len(SlotsOf(Head(todo)))
      <4>1. First(k) = at /\ Len(SlotsOf(todo[k])) \in Nat /\ at \in Nat
        BY <1>2, <3>1, SlotsLen DEF First, WInv
      <4> QED BY <1>2, <3>1, <4>1
    <3> QED BY <1>1, <3>1
  <2>2. k - 1 \in 1 .. Len(todo) - 1 /\ (k - 1) + 1 = k /\ First(k) = 1
    BY <1>2, <2>1 DEF First
  <2> QED BY <1>5, <2>2
<1> QED BY <1>5, <1>6, <1>7, PendingHolds DEF PendingIs

\* ... and one with each visit.
LEMMA SlotPending ==
  ASSUME LInv, WInv, Visiting, NextSlot, UNCHANGED size
  PROVE  /\ Slot \in Pending /\ Pending' \subseteq Pending
         /\ Pending \subseteq {Slot} \cup Pending'
<1>1. /\ Len(todo) \in Nat /\ Len(todo) >= 1 /\ Head(todo) = todo[1] /\ at \in Nat \ {0}
      /\ at <= Len(SlotsOf(todo[1])) /\ Slot = SlotsOf(todo[1])[at]
      /\ todo' = todo /\ at' = at + 1
      /\ \A k \in 1 .. Len(todo) : todo[k] \in HookName
  BY DEF Visiting, WInv, Slot, NextSlot
<1>2. \A h : SlotsOf(h)' = SlotsOf(h)
  BY DEF SlotsOf
<1>3. \A k \in 1 .. Len(todo) : Len(SlotsOf(todo[k])) \in Nat
  BY <1>1, SlotsLen
<1>4. \A x : x \in Pending' <=>
         \E k \in 1 .. Len(todo) : \E i \in First(k)' .. Len(SlotsOf(todo[k])) :
            x = SlotsOf(todo[k])[i]
  <2>1. Pending' = UNION {{SlotsOf(todo'[k])[i] : i \in First(k)' .. Len(SlotsOf(todo'[k]))} : k \in 1 .. Len(todo')}
    BY <1>2 DEF Pending
  <2>2. \A x : x \in Pending' <=>
         \E k \in 1 .. Len(todo') : \E i \in First(k)' .. Len(SlotsOf(todo'[k])) :
            x = SlotsOf(todo'[k])[i]
    BY <2>1
  <2>3. todo' = todo
    BY <1>1
  <2> QED BY <2>2, <2>3
<1>5. Slot \in Pending
  <2>1. 1 \in 1 .. Len(todo) /\ at \in First(1) .. Len(SlotsOf(todo[1]))
    BY <1>1, <1>3 DEF First
  <2> QED BY <1>1, <2>1, PendingHolds DEF PendingIs
<1>6. ASSUME NEW k \in 1 .. Len(todo), NEW i \in First(k)' .. Len(SlotsOf(todo[k]))
      PROVE  SlotsOf(todo[k])[i] \in Pending
  <2>1. i \in First(k) .. Len(SlotsOf(todo[k]))
    BY <1>1, <1>3 DEF First
  <2> QED BY <2>1, PendingHolds DEF PendingIs
<1>7. ASSUME NEW k \in 1 .. Len(todo), NEW i \in First(k) .. Len(SlotsOf(todo[k]))
      PROVE  SlotsOf(todo[k])[i] = Slot \/ SlotsOf(todo[k])[i] \in Pending'
  <2>1. CASE k = 1 /\ i = at
    BY <1>1, <2>1
  <2>2. CASE ~ (k = 1 /\ i = at)
    <3>1. i \in First(k)' .. Len(SlotsOf(todo[k]))
      BY <1>1, <1>3, <2>2 DEF First
    <3> QED BY <1>4, <3>1
  <2> QED BY <2>1, <2>2
<1> QED BY <1>4, <1>5, <1>6, <1>7, PendingHolds DEF PendingIs

-----------------------------------------------------------------------------
(* What the first pass measures and the second writes                      *)

\* The data of a routine has its offset, and so has that of a callout.
RwKnown(r) == RwOf[r] # NoRw => RwOf[r] \in DOMAIN rw_addrs
Known(x) == IsCallout(Word(x)) => RwKnown(Word(x)[2])
RwInv ==
  /\ \A x \in DOMAIN rw_addrs :
       rw_addrs[x] \in Nat /\ RwSize[x] \in Nat /\ rw_addrs[x] + RwSize[x] <= rw_size
  /\ \A x, y \in DOMAIN rw_addrs :
       x # y => \/ rw_addrs[x] + RwSize[x] <= rw_addrs[y]
                \/ rw_addrs[y] + RwSize[y] <= rw_addrs[x]

\* Nothing is counted or written before its time.
BuildInv ==
  /\ phase \in {"build", "size", "alloc"} => out = {}
  /\ phase = "build" => rtn_size = 0
  /\ phase \in {"build", "size"} => splits = 0

\* The first pass has counted what it has visited ...
SizeInv == phase = "size" =>
  /\ Cardinality(Code(Places)) <= rtn_size + Cardinality(Code(Pending))
  /\ \A x \in Places : x \in Pending \/ Known(x)

\* ... the allocation has room for it and for the entries not yet added ...
Spare == (4 - splits) * AsSize
AllocInv == phase = "alloc" =>
  /\ Cardinality(Code(Places)) <= callouts_size
  /\ rtn_size = 0 /\ splits <= 4
  /\ \A x \in Places : Known(x)
  /\ spsize = RoundPg(8 * (total_size + Spare) + rw_size) + RoundPg(callouts_size)

\* ... and what the second pass has written and what it has still to write
\* fit together.
Ends(o) == o.off + RtnSize[o.rtn]
OutRight(o) ==
  /\ o.rtn \in Rtn /\ o.off \in Nat /\ Start <= o.off /\ Ends(o) <= NextOff
  /\ RwKnown(o.rtn)
  /\ o.rw = 8 * total_size + (IF RwOf[o.rtn] = NoRw THEN 0 ELSE rw_addrs[RwOf[o.rtn]])
WriteInv == phase \in {"write", "done"} =>
  /\ max_size = HdrSize /\ Start + callouts_size <= spsize /\ Start <= NextOff
  /\ NextOff + Cardinality(Code(Pending)) <= Start + callouts_size
  /\ \A x \in Places : Known(x) /\ (IsCallout(Word(x)) => x \in Pending)
  /\ \A o \in out : OutRight(o)
  /\ \A o, q \in out : o # q => Ends(o) <= q.off \/ Ends(q) <= o.off
  /\ phase = "done" => todo = << >>
CrashInv == phase = "crash" => CalloutsFit
PassInv == RwInv /\ BuildInv /\ SizeInv /\ AllocInv /\ WriteInv /\ CrashInv

\* What the proofs of the steps know of the page.
PageInv == LInv /\ MInv /\ WInv /\ NInv /\ HookInv

\* Every callout of the page is in a slot that is visited.
LEMMA PageFacts ==
  ASSUME PageInv
  PROVE  /\ CalloutsNamed /\ Pending \subseteq Places /\ HookSlots \subseteq Places
         /\ \A x \in Places : IsCallout(Word(x)) => x \in HookSlots
<1>1. LInv /\ MInv /\ WInv /\ NInv /\ HookInv
  BY DEF PageInv
<1>2. CalloutsNamed /\ Pending \subseteq Places /\ HookSlots \subseteq Places
  BY <1>1, PlaceWord, InPlaces
<1>3. ASSUME NEW h \in HookName, NEW i \in Nat, i < size[h], IsCallout(Word(<<h, i>>))
      PROVE  <<h, i>> \in HookSlots
  <2>1. h \in Section /\ i \in Words0(h)
    BY <1>1, <1>3, SectionFacts DEF HookName, Words0, LInv, LType
  <2>2. CalloutAt(h, i)
    BY <1>1, <1>3, <2>1, WordOf DEF CalloutAt
  <2> QED BY <1>1, <2>1, <2>2 DEF HookInv
<1>4. IsCallout(Word(Spin)) => Spin \in HookSlots
  BY <1>1, WordOf DEF HookInv
<1>5. ASSUME NEW x \in Places, IsCallout(Word(x)) PROVE x \in HookSlots
  <2>1. CASE x = Spin
    BY <1>4, <1>5, <2>1
  <2>2. ASSUME NEW h \in HookName, NEW i \in Nat, i < size[h], x = <<h, i>>
        PROVE  x \in HookSlots
    BY <1>3, <1>5, <2>2
  <2> QED BY <2>1, <2>2 DEF Places
<1> QED BY <1>2, <1>5

\* A step that leaves the page alone leaves the code to be written alone ...
LEMMA PageSame ==
  ASSUME UNCHANGED pageVars
  PROVE  /\ Places' = Places /\ \A x : Word(x)' = Word(x)
         /\ Code(Places)' = Code(Places)
         /\ \A Q : Q = Pending' => Code(Pending)' = Code(Q)
<1>1. Places' = Places
  BY DEF pageVars, Places
<1>2. \A x : Word(x)' = Word(x)
  BY DEF pageVars, Word, Addr, base
<1>3. \A x : Bytes(x)' = Bytes(x)
  BY <1>2 DEF Bytes, IsCallout
<1>4. Code(Places)' = Code(Places)
  BY <1>1, <1>3 DEF Code
<1>5. ASSUME NEW Q, Q = Pending' PROVE Code(Pending)' = Code(Q)
  BY <1>3, <1>5 DEF Code
<1> QED BY <1>1, <1>2, <1>4, <1>5

\* ... and what is known of its data.
LEMMA KnownSame ==
  ASSUME UNCHANGED pageVars, DOMAIN rw_addrs \subseteq DOMAIN rw_addrs'
  PROVE  \A x : Known(x) => Known(x)'
BY PageSame DEF Known, RwKnown, IsCallout

\* While the page is built.
LEMMA BuildStep ==
  ASSUME phase = "build", UNCHANGED <<phase, passVars, allocVars>>, PassInv
  PROVE  PassInv'
<1>1. RwInv'
  BY DEF PassInv, RwInv, passVars
<1>2. BuildInv'
  BY DEF PassInv, BuildInv, passVars, allocVars
<1>3. SizeInv' /\ AllocInv' /\ WriteInv' /\ CrashInv'
  BY DEF SizeInv, AllocInv, WriteInv, CrashInv
<1> QED BY <1>1, <1>2, <1>3 DEF PassInv

\* output_callouts() of the first pass begins: all callouts are to be visited.
LEMMA AllocStep ==
  ASSUME PageInv, PassInv, AllocSyspageMemory
  PROVE  PassInv'
<1>1. /\ phase = "build" /\ phase' = "size" /\ StartPass /\ UNCHANGED pageVars
      /\ UNCHANGED <<size, rtn_size, rw_size, rw_addrs, splits, out>>
  BY DEF AllocSyspageMemory, lspVars, dataVars, allocVars, pageVars
<1>2. RwInv' /\ BuildInv' /\ AllocInv' /\ WriteInv' /\ CrashInv'
  BY <1>1 DEF PassInv, RwInv, BuildInv, AllocInv, WriteInv, CrashInv
<1>3. Pending' = HookSlots
  BY <1>1, StartPending
<1>4. Places' = Places /\ Code(Places)' = Code(Places) /\ Code(Pending)' = Code(HookSlots)
  BY <1>1, <1>3, PageSame
<1>5. Code(Places) \subseteq Code(HookSlots)
  BY PageFacts DEF Code, Bytes
<1>6. Cardinality(Code(Places)) <= Cardinality(Code(HookSlots))
  <2>1. IsFiniteSet(Code(HookSlots))
    BY PageFacts, CodeFinite DEF PageInv
  <2>2. Code(Places) \in SUBSET Code(HookSlots)
    BY <1>5
  <2> QED BY <2>1, <2>2, FS_Subset
<1>7. rtn_size' = 0 /\ Cardinality(Code(HookSlots)) \in Nat
  BY <1>1, PageFacts, CodeFinite DEF PassInv, BuildInv, PageInv
<1>8. ASSUME NEW x \in Places PROVE x \in Pending' \/ Known(x)'
  <2>1. CASE IsCallout(Word(x))
    BY <1>3, <2>1, PageFacts
  <2>2. CASE ~ IsCallout(Word(x))
    BY <1>1, <2>2, PageSame DEF Known, IsCallout
  <2> QED BY <2>1, <2>2
<1>9. SizeInv'
  BY <1>1, <1>3, <1>4, <1>6, <1>7, <1>8 DEF SizeInv
<1> QED BY <1>2, <1>9 DEF PassInv

\* output_callouts() goes on to the next routine.
LEMMA RoutineStep ==
  ASSUME PageInv, PassInv, NextRoutine
  PROVE  PassInv'
<1>1. /\ phase \in {"size", "write"} /\ UNCHANGED pageVars
      /\ UNCHANGED <<phase, rtn_size, rw_size, rw_addrs, callouts_size, spsize, splits, out,
                     total_size, max_size>>
  BY DEF NextRoutine, lspVars, dataVars, allocVars, pageVars
<1>2. Pending' = Pending
  BY RoutinePending DEF PageInv
<1>3. /\ Places' = Places /\ Code(Places)' = Code(Places) /\ Code(Pending)' = Code(Pending)
      /\ \A x : Word(x)' = Word(x)
  BY <1>1, <1>2, PageSame
<1>4. \A x : Known(x) => Known(x)'
  BY <1>1, KnownSame
<1>5. RwInv' /\ BuildInv' /\ AllocInv' /\ CrashInv'
  BY <1>1 DEF PassInv, RwInv, BuildInv, AllocInv, CrashInv
<1>6. SizeInv'
  BY <1>1, <1>2, <1>3, <1>4 DEF PassInv, SizeInv
<1>7. Start' = Start /\ NextOff' = NextOff /\ \A o : OutRight(o) => OutRight(o)'
  BY <1>1 DEF Start, NextOff, RoundPg, OutRight, RwKnown, Ends
<1>8. WriteInv'
  BY <1>1, <1>2, <1>3, <1>4, <1>7 DEF PassInv, WriteInv, IsCallout, Ends
<1> QED BY <1>5, <1>6, <1>8 DEF PassInv

\* callout_output_one() of the first pass counts the code of a callout, and
\* gives its data an offset of its own.
LEMMA SizeStep ==
  ASSUME PageInv, PassInv, SizeOne
  PROVE  PassInv'
<1> DEFINE w == Word(Slot)
           r == w[2]
           x0 == RwOf[r]
<1>1. /\ phase = "size" /\ Visiting /\ NextSlot /\ UNCHANGED pageVars
      /\ UNCHANGED <<phase, size, splits, out>>
      /\ IF IsCallout(w)
         THEN /\ rtn_size' = rtn_size + RtnSize[r]
              /\ IF x0 # NoRw /\ x0 \notin DOMAIN rw_addrs
                 THEN /\ rw_addrs' = [x \in DOMAIN rw_addrs \cup {x0} |->
                            IF x = x0 THEN rw_size ELSE rw_addrs[x]]
                      /\ rw_size' = rw_size + RwSize[x0]
                 ELSE UNCHANGED <<rw_addrs, rw_size>>
         ELSE UNCHANGED <<rtn_size, rw_addrs, rw_size>>
  BY DEF SizeOne, lspVars, dataVars, allocVars, pageVars
<1>2. /\ Slot \in Pending /\ Pending' \subseteq Pending /\ Pending \subseteq {Slot} \cup Pending'
  BY <1>1, SlotPending DEF PageInv
<1>3. PICK Q : Q = Pending'
  OBVIOUS
<1>4. /\ Places' = Places /\ Code(Places)' = Code(Places) /\ Code(Pending)' = Code(Q)
      /\ \A x : Word(x)' = Word(x)
  BY <1>1, <1>3, PageSame
<1>5. Slot \in Places /\ Q \subseteq Places /\ CalloutsNamed /\ LInv
  BY <1>2, <1>3, PageFacts DEF PageInv
<1>6. IsCallout(w) => r \in Rtn
  BY <1>5 DEF CalloutsNamed
<1>7. /\ IsFiniteSet(Bytes(Slot))
      /\ Cardinality(Bytes(Slot)) = IF IsCallout(w) THEN RtnSize[r] ELSE 0
  BY <1>5, BytesCount
<1> HIDE DEF w, r
<1>8. rtn_size' = rtn_size + Cardinality(Bytes(Slot)) /\ Cardinality(Bytes(Slot)) \in Nat
      /\ rtn_size \in Nat /\ rw_size \in Nat
  BY <1>1, <1>6, <1>7, FS_CardinalityType DEF PageInv, NInv
<1>9. Cardinality(Code(Pending)) <= Cardinality(Bytes(Slot)) + Cardinality(Code(Q))
  <2>1. IsFiniteSet(Code(Q))
    BY <1>5, CodeFinite
  <2>2. Code(Pending) \subseteq Bytes(Slot) \cup Code(Q)
    BY <1>2, <1>3 DEF Code
  <2> QED BY <1>7, <2>1, <2>2, OnePart
<1>10. /\ Cardinality(Code(Pending)) \in Nat /\ Cardinality(Code(Places)) \in Nat
       /\ Cardinality(Code(Q)) \in Nat
  BY <1>5, PageFacts, CodeFinite
<1>11. RwInv' /\ DOMAIN rw_addrs \subseteq DOMAIN rw_addrs' /\ (IsCallout(w) /\ x0 # NoRw => x0 \in DOMAIN rw_addrs')
  <2>0. RwInv
    BY DEF PassInv
  <2>1. CASE IsCallout(w) /\ x0 # NoRw /\ x0 \notin DOMAIN rw_addrs
    <3>1. RwSize[x0] \in Nat
      BY <1>6, <2>1, CalloutAssumption
    <3> HIDE DEF x0
    <3>2. /\ rw_addrs' = [x \in DOMAIN rw_addrs \cup {x0} |->
                            IF x = x0 THEN rw_size ELSE rw_addrs[x]]
          /\ rw_size' = rw_size + RwSize[x0]
      BY <1>1, <2>1
    <3>3. /\ DOMAIN rw_addrs' = DOMAIN rw_addrs \cup {x0} /\ rw_addrs'[x0] = rw_size
          /\ \A x \in DOMAIN rw_addrs : rw_addrs'[x] = rw_addrs[x]
      BY <2>1, <3>2
    <3>4. ASSUME NEW x \in DOMAIN rw_addrs'
          PROVE  rw_addrs'[x] \in Nat /\ RwSize[x] \in Nat /\ rw_addrs'[x] + RwSize[x] <= rw_size'
      <4>1. CASE x = x0
        BY <1>8, <3>1, <3>2, <3>3, <4>1
      <4>2. CASE x \in DOMAIN rw_addrs
        BY <1>8, <2>0, <3>1, <3>2, <3>3, <4>2 DEF RwInv
      <4> QED BY <3>3, <4>1, <4>2
    <3>5. ASSUME NEW x \in DOMAIN rw_addrs', NEW y \in DOMAIN rw_addrs', x # y
          PROVE  \/ rw_addrs'[x] + RwSize[x] <= rw_addrs'[y]
                 \/ rw_addrs'[y] + RwSize[y] <= rw_addrs'[x]
      BY <2>0, <3>3, <3>5 DEF RwInv
    <3>6. RwInv'
      BY <3>4, <3>5 DEF RwInv
    <3> QED BY <3>3, <3>6
  <2>2. CASE ~ (IsCallout(w) /\ x0 # NoRw /\ x0 \notin DOMAIN rw_addrs)
    <3>1. UNCHANGED <<rw_addrs, rw_size>>
      BY <1>1, <2>2
    <3> QED BY <2>0, <2>2, <3>1 DEF RwInv
  <2> QED BY <2>1, <2>2
<1>12. \A x : Known(x) => Known(x)'
  BY <1>1, <1>11, KnownSame
<1>13. ASSUME NEW x, x = Slot PROVE Known(x)'
  <2>1. Word(x)' = w
    BY <1>4, <1>13 DEF w
  <2> QED BY <1>11, <2>1 DEF Known, RwKnown, IsCallout, w, r
<1>14. SizeInv'
  <2>1. Cardinality(Code(Places)) <= rtn_size' + Cardinality(Code(Q))
    BY <1>1, <1>8, <1>9, <1>10 DEF PassInv, SizeInv
  <2>2. ASSUME NEW x \in Places PROVE x \in Pending' \/ Known(x)'
    <3>1. x \in Pending \/ Known(x)
      BY <1>1 DEF PassInv, SizeInv
    <3>2. CASE x = Slot
      BY <1>13, <3>2
    <3>3. CASE x # Slot
      BY <1>2, <1>12, <3>1, <3>3
    <3> QED BY <3>2, <3>3
  <2> QED BY <1>1, <1>4, <2>1, <2>2 DEF SizeInv
<1>15. BuildInv' /\ AllocInv' /\ WriteInv' /\ CrashInv'
  BY <1>1 DEF PassInv, BuildInv, AllocInv, WriteInv, CrashInv
<1> QED BY <1>11, <1>14, <1>15 DEF PassInv

\* The first pass is over, and the allocation has its size.
LEMMA SizeDoneStep ==
  ASSUME PageInv, PassInv, SizeDone
  PROVE  PassInv'
<1>1. /\ phase = "size" /\ todo = << >> /\ phase' = "alloc" /\ UNCHANGED pageVars
      /\ rw_size' = Round8(rw_size) /\ callouts_size' = Round8(rtn_size) /\ rtn_size' = 0
      /\ spsize' = RoundPg(8 * total_size + rw_size' + 8 * 4 * AsSize) + RoundPg(callouts_size')
      /\ UNCHANGED <<rw_addrs, splits, out, total_size>>
  BY DEF SizeDone, lspVars, dataVars, pageVars
<1>2. rtn_size \in Nat /\ rw_size \in Nat /\ total_size \in Nat /\ AsSize \in Nat
  BY SizeAssumption DEF PageInv, NInv, LInv, LType
<1>3. rw_size <= rw_size' /\ rtn_size <= callouts_size' /\ rw_size' \in Nat /\ callouts_size' \in Nat
  BY <1>1, <1>2, Round8Up, Round8Nat
<1>4. /\ Places' = Places /\ Code(Places)' = Code(Places) /\ \A x : Word(x)' = Word(x)
      /\ \A x : Known(x) => Known(x)'
  BY <1>1, PageSame, KnownSame
<1>5. Pending = {}
  BY <1>1, EmptyPending
<1>6. Cardinality(Code(Pending)) = 0
  <2>1. Code(Pending) = {}
    BY <1>5 DEF Code
  <2> QED BY <2>1, FS_EmptySet
<1>7. Cardinality(Code(Places)) \in Nat
  BY CodeFinite, PageFacts DEF PageInv
<1>8. Cardinality(Code(Places)) <= callouts_size' /\ \A x \in Places : Known(x)
  BY <1>1, <1>2, <1>3, <1>5, <1>6, <1>7 DEF PassInv, SizeInv
<1>9. splits' = 0 /\ out' = {}
  BY <1>1 DEF PassInv, BuildInv
<1>10. 8 * total_size + rw_size' + 8 * 4 * AsSize = 8 * (total_size' + Spare') + rw_size'
  BY <1>1, <1>2, <1>3, <1>9 DEF Spare
<1>11. AllocInv'
  BY <1>1, <1>4, <1>8, <1>9, <1>10 DEF AllocInv, RoundPg
<1>12. RwInv'
  <2>1. RwInv
    BY DEF PassInv
  <2>2. ASSUME NEW x \in DOMAIN rw_addrs, NEW z \in Nat, rw_size <= z
        PROVE  rw_addrs[x] + RwSize[x] <= z
    BY <1>2, <2>1, <2>2 DEF RwInv
  <2> QED BY <1>1, <1>3, <2>1, <2>2 DEF RwInv
<1>13. BuildInv' /\ SizeInv' /\ WriteInv' /\ CrashInv'
  BY <1>1, <1>9 DEF BuildInv, SizeInv, WriteInv, CrashInv
<1> QED BY <1>11, <1>12, <1>13 DEF PassInv

\* The allocation makes asinfo longer: the slots stay what they are, and the
\* room to spare gets less by what the page has got more.
LEMMA SplitStep ==
  ASSUME PageInv, PageInv', PassInv, Split
  PROVE  PassInv'
<1> DEFINE new == [i \in 0 .. AsSize - 1 |-> Data("asinfo", size["asinfo"] + i)]
<1>1. /\ phase = "alloc" /\ splits < MaxSplits /\ splits' = splits + 1
      /\ GrowPlain("asinfo", AsSize)
      /\ UNCHANGED <<smp_spin_vaddr, phase, rtn_size, rw_size, rw_addrs, callouts_size, spsize, out>>
  BY DEF Split, passVars
<1>2. AsSize \in Nat \ {0} /\ "asinfo" \in Section \ Settable /\ "asinfo" \notin HookName
  BY SizeAssumption, SectionFacts DEF HookName
<1>3. Grows("asinfo", ptr["asinfo"], AsSize, new)
  BY <1>1, <1>2, GrowPlainGrows
<1>4. new \in [0 .. AsSize - 1 -> Cell]
  <2>1. size["asinfo"] \in Nat
    BY <1>2 DEF PageInv, LInv, LType
  <2>2. \A i \in 0 .. AsSize - 1 : Data("asinfo", size["asinfo"] + i) \in Cell
    BY <1>2, <2>1 DEF Data, Cell
  <2> QED BY <2>2
<1> HIDE DEF new
<1>5. /\ total_size' = total_size + AsSize
      /\ \A h \in HookName : size'[h] = size[h] /\ h \in Section
  <2>1. HookName \subseteq Section \ {"asinfo"}
    BY <1>2, SectionFacts DEF HookName
  <2> QED BY <1>3, <2>1, GrowMoves DEF Grows, PageInv
<1>6. \A t \in Section : \A i \in Words0(t) : W(t, i)' = W(t, i)
  BY <1>3, <1>4, GrowWords DEF Grows, W, PageInv
<1>7. Places' = Places
  BY <1>5 DEF Places
<1>8. ASSUME NEW x \in Places PROVE Word(x)' = Word(x)
  <2>1. CASE x = Spin
    BY <1>1, <2>1 DEF Word
  <2>2. ASSUME NEW h \in HookName, NEW i \in Nat, i < size[h], x = <<h, i>>
        PROVE  Word(x)' = Word(x)
    <3>1. h \in Section /\ i \in Words0(h) /\ i \in Words0(h)'
      BY <1>5, <2>2, SectionFacts DEF Words0, PageInv, LInv, LType
    <3>2. \A s \in Section : \A j \in Words0(s)' : Word(<<s, j>>)' = W(s, j)'
      <4>1. LInv'
        BY DEF PageInv
      <4>2. WordIs'
        BY <4>1, WordIsHolds, PTL
      <4> QED BY <4>2 DEF WordIs
    <3>3. Word(<<h, i>>) = W(h, i)
      BY <3>1, WordOf DEF PageInv
    <3> QED BY <1>6, <2>2, <3>1, <3>2, <3>3
  <2> QED BY <2>1, <2>2 DEF Places
<1>9. Code(Places)' = Code(Places)
  <2>1. \A x \in Places : Bytes(x)' = Bytes(x)
    BY <1>8 DEF Bytes, IsCallout
  <2> QED BY <1>7, <2>1 DEF Code
<1>10. \A x \in Places : Known(x)'
  <2>1. \A x \in Places : Known(x)
    BY <1>1 DEF PassInv, AllocInv
  <2> QED BY <1>1, <1>8, <2>1 DEF Known, RwKnown, IsCallout
<1>11. splits \in Nat /\ splits' <= 4 /\ total_size \in Nat /\ rw_size \in Nat
  BY <1>1, PageAssumption DEF PageInv, NInv, LInv, LType
<1>12. total_size' + Spare' = total_size + Spare
  <2>1. \A k, a \in Int : (4 - (k + 1)) * a = (4 - k) * a - a /\ (4 - k) * a \in Int
    OBVIOUS
  <2>2. Spare' = Spare - AsSize /\ Spare \in Int
    BY <1>1, <1>2, <1>11, <2>1 DEF Spare
  <2> QED BY <1>2, <1>5, <1>11, <2>2
<1>13. AllocInv'
  BY <1>1, <1>7, <1>9, <1>10, <1>11, <1>12 DEF PassInv, AllocInv, RoundPg
<1>14. RwInv' /\ BuildInv' /\ SizeInv' /\ WriteInv' /\ CrashInv'
  BY <1>1 DEF PassInv, RwInv, BuildInv, SizeInv, WriteInv, CrashInv
<1> QED BY <1>13, <1>14 DEF PassInv

\* The second pass begins.
LEMMA FreezeStep ==
  ASSUME PageInv, PassInv, Freeze
  PROVE  PassInv'
<1>1. /\ phase = "alloc" /\ phase' = "write" /\ max_size' = HdrSize /\ StartPass /\ UNCHANGED pageVars
      /\ UNCHANGED <<size, total_size, rtn_size, rw_size, rw_addrs, callouts_size, spsize, splits, out>>
  BY DEF Freeze, dataVars, allocVars, pageVars
<1>2. Pending' = HookSlots
  BY <1>1, StartPending
<1>3. /\ Places' = Places /\ Code(Places)' = Code(Places) /\ Code(Pending)' = Code(HookSlots)
      /\ \A x : Word(x)' = Word(x)
      /\ \A x : Known(x) => Known(x)'
  BY <1>1, <1>2, PageSame, KnownSame
<1>4. /\ Cardinality(Code(Places)) <= callouts_size /\ rtn_size = 0 /\ splits <= 4
      /\ \A x \in Places : Known(x)
      /\ spsize = RoundPg(8 * (total_size + Spare) + rw_size) + RoundPg(callouts_size)
      /\ out = {}
  BY <1>1 DEF PassInv, AllocInv, BuildInv
<1>5. /\ splits \in Nat /\ total_size \in Nat /\ rw_size \in Nat /\ callouts_size \in Nat
      /\ spsize \in Nat /\ AsSize \in Nat
  BY SizeAssumption DEF PageInv, NInv, LInv, LType
<1>6. Start + callouts_size <= spsize /\ Start \in Nat
  <2>1. Spare \in Nat
    <3>1. 4 - splits \in Nat
      BY <1>4, <1>5
    <3> QED BY <1>5, <3>1 DEF Spare
  <2> DEFINE a == 8 * total_size + rw_size
             b == 8 * (total_size + Spare) + rw_size
  <2>2. a \in Nat /\ b \in Nat /\ a <= b
    BY <1>5, <2>1
  <2> HIDE DEF a, b
  <2>3. RoundPg(a) <= RoundPg(b) /\ callouts_size <= RoundPg(callouts_size)
        /\ RoundPg(a) \in Nat /\ RoundPg(b) \in Nat /\ RoundPg(callouts_size) \in Nat
    BY <1>5, <2>2, RoundPgMonotone, RoundPgUp, RoundPgNat
  <2>4. Start = RoundPg(a) /\ spsize = RoundPg(b) + RoundPg(callouts_size)
    BY <1>4 DEF Start, a, b
  <2> QED BY <1>5, <2>3, <2>4
<1>7. Start' = Start /\ NextOff' = Start
  BY <1>1, <1>4 DEF Start, NextOff, RoundPg
<1>8. Cardinality(Code(HookSlots)) <= callouts_size /\ Cardinality(Code(HookSlots)) \in Nat
  <2>1. IsFiniteSet(Code(Places)) /\ Cardinality(Code(Places)) \in Nat
        /\ Cardinality(Code(HookSlots)) \in Nat
    BY PageFacts, CodeFinite DEF PageInv
  <2>2. Code(HookSlots) \in SUBSET Code(Places)
    BY PageFacts DEF Code
  <2>3. Cardinality(Code(HookSlots)) <= Cardinality(Code(Places))
    BY <2>1, <2>2, FS_Subset
  <2> QED BY <1>4, <1>5, <2>1, <2>3
<1>9. \A x \in Places : IsCallout(Word(x)) => x \in HookSlots
  BY PageFacts
<1>10. WriteInv'
  <2>1. Start' + callouts_size' <= spsize' /\ Start' <= NextOff' /\ max_size' = HdrSize
    BY <1>1, <1>6, <1>7
  <2>2. NextOff' + Cardinality(Code(Pending)') <= Start' + callouts_size'
    BY <1>1, <1>3, <1>5, <1>6, <1>7, <1>8
  <2>3. \A x \in Places' : Known(x)' /\ (IsCallout(Word(x)') => x \in Pending')
    BY <1>2, <1>3, <1>4, <1>9
  <2>4. out' = {} /\ phase' # "done"
    BY <1>1, <1>4
  <2> QED BY <2>1, <2>2, <2>3, <2>4 DEF WriteInv, IsCallout
<1>11. RwInv' /\ BuildInv' /\ SizeInv' /\ AllocInv' /\ CrashInv'
  BY <1>1 DEF PassInv, RwInv, BuildInv, SizeInv, AllocInv, CrashInv
<1> QED BY <1>10, <1>11 DEF PassInv

\* callout_output_one() of the second pass writes a callout behind the
\* others, and there is room for those it has not visited.
LEMMA WriteOneStays ==
  ASSUME PageInv, PageInv', PassInv, WriteOne
  PROVE  PassInv'
<1>1. /\ phase = "write" /\ Visiting /\ NextSlot
      /\ UNCHANGED <<ptr, size, total_size, max_size, phase, rw_size, rw_addrs, callouts_size,
                     spsize, splits>>
  BY DEF WriteOne
<1>2. /\ Slot \in Pending /\ Pending' \subseteq Pending /\ Pending \subseteq {Slot} \cup Pending'
  BY <1>1, SlotPending DEF PageInv
<1>3. /\ Slot \in Places /\ Pending \subseteq Places /\ CalloutsNamed /\ LInv /\ LInv'
      /\ MInv /\ WInv /\ NInv
  BY <1>2, PageFacts DEF PageInv
<1>4. /\ max_size = HdrSize /\ Start + callouts_size <= spsize /\ Start <= NextOff
      /\ NextOff + Cardinality(Code(Pending)) <= Start + callouts_size
      /\ \A x \in Places : Known(x) /\ (IsCallout(Word(x)) => x \in Pending)
      /\ \A o \in out : OutRight(o)
      /\ \A o, q \in out : o # q => Ends(o) <= q.off \/ Ends(q) <= o.off
  BY <1>1 DEF PassInv, WriteInv
<1>5. Places' = Places /\ Start' = Start
  BY <1>1 DEF Places, Start, RoundPg
<1>6. RwInv' /\ BuildInv' /\ SizeInv' /\ AllocInv' /\ CrashInv'
  BY <1>1 DEF PassInv, RwInv, BuildInv, SizeInv, AllocInv, CrashInv
<1>7. CASE ~ IsCallout(Word(Slot))
  <2>1. UNCHANGED pageVars /\ UNCHANGED <<out, rtn_size>>
    BY <1>7 DEF WriteOne, pageVars
  <2>2. PICK Q : Q = Pending'
    OBVIOUS
  <2>3. /\ Code(Pending)' = Code(Q) /\ \A x : Word(x)' = Word(x)
        /\ \A x : Known(x) => Known(x)'
    BY <1>1, <2>1, <2>2, PageSame, KnownSame
  <2>4. Cardinality(Code(Q)) <= Cardinality(Code(Pending))
        /\ Cardinality(Code(Q)) \in Nat /\ Cardinality(Code(Pending)) \in Nat
    <3>1. Q \subseteq Places /\ Code(Q) \in SUBSET Code(Pending)
      BY <1>2, <1>3, <2>2 DEF Code
    <3>2. IsFiniteSet(Code(Pending))
      BY <1>3, CodeFinite
    <3> QED BY <1>3, <3>1, <3>2, CodeFinite, FS_Subset
  <2>5. NextOff' = NextOff
    BY <1>5, <2>1 DEF NextOff
  <2>6. \A o : OutRight(o) => OutRight(o)'
    BY <1>1, <1>5, <2>5 DEF OutRight, RwKnown, Ends
  <2>7. NextOff \in Nat /\ Start \in Nat /\ callouts_size \in Nat
    <3>1. 8 * total_size + rw_size \in Nat /\ rtn_size \in Nat /\ callouts_size \in Nat
      BY <1>3 DEF LInv, LType, NInv
    <3> QED BY <3>1, RoundPgNat DEF NextOff, Start
  <2>8. NextOff' + Cardinality(Code(Pending)') <= Start' + callouts_size'
    BY <1>1, <1>4, <1>5, <2>3, <2>4, <2>5, <2>7
  <2>9. \A x \in Places' : Known(x)' /\ (IsCallout(Word(x)') => x \in Pending')
    BY <1>2, <1>4, <1>5, <1>7, <2>3
  <2>10. WriteInv'
    BY <1>1, <1>4, <1>5, <2>1, <2>5, <2>6, <2>8, <2>9 DEF WriteInv, IsCallout, Ends
  <2> QED BY <1>6, <2>10 DEF PassInv
<1>8. CASE IsCallout(Word(Slot))
  <2>0. PICK s0, r, off : s0 = Slot /\ r = Word(Slot)[2] /\ off = NextOff
    OBVIOUS
  <2>1. /\ r \in Rtn /\ RtnSize[r] \in Nat \ {0} /\ s0 \in Places /\ RwKnown(r)
    <3>1. Word(Slot)[2] \in Rtn /\ RwKnown(Word(Slot)[2])
      BY <1>3, <1>4, <1>8 DEF CalloutsNamed, Known
    <3> QED BY <1>3, <2>0, <3>1, CalloutAssumption
  <2> DEFINE rw == IF RwOf[r] = NoRw THEN 0 ELSE rw_addrs[RwOf[r]]
  <2>2. PICK new : /\ new.rtn = r /\ new.off = off /\ new.rw = 8 * total_size + rw
                   /\ out' = out \cup {new}
    <3>1. PICK d : out' = out \cup {[slot |-> s0, rtn |-> r, off |-> off,
                                     rw |-> 8 * total_size + rw, data |-> d]}
      BY <1>8, <2>0 DEF WriteOne, NextOff, Start
    <3> DEFINE o == [slot |-> s0, rtn |-> r, off |-> off, rw |-> 8 * total_size + rw, data |-> d]
    <3>2. o.rtn = r /\ o.off = off /\ o.rw = 8 * total_size + rw /\ out' = out \cup {o}
      BY <3>1
    <3> HIDE DEF o
    <3> QED BY <3>2
  <2> HIDE DEF rw
  <2>3. rtn_size' = off + RtnSize[r]
    BY <1>8, <2>0 DEF WriteOne, NextOff, Start
  <2>4. off \in Nat /\ Start \in Nat /\ callouts_size \in Nat
    <3>1. 8 * total_size + rw_size \in Nat /\ rtn_size \in Nat /\ callouts_size \in Nat
      BY <1>3 DEF LInv, LType, NInv
    <3> QED BY <2>0, <3>1, RoundPgNat DEF NextOff, Start
  <2>5. NextOff' = off + RtnSize[r]
    BY <2>1, <2>3, <2>4 DEF NextOff
  <2>6. \A x \in Places : Word(x)' = IF x = s0 THEN Vaddr(off) ELSE Word(x)
    <3>1. /\ smp_spin_vaddr' = IF Slot = Spin THEN Vaddr(NextOff) ELSE smp_spin_vaddr
          /\ \A t \in Section : \A j \in Words0(t) :
                 W(t, j)' = IF <<t, j>> = Slot THEN Vaddr(NextOff) ELSE W(t, j)
      BY <1>3, <1>8, WriteWords
    <3>2. WordIs /\ WordIs'
      BY <1>3, WordIsHolds, PTL
    <3>3. ASSUME NEW h \in HookName, NEW i \in Nat, i < size[h]
          PROVE  Word(<<h, i>>)' = IF <<h, i>> = s0 THEN Vaddr(off) ELSE Word(<<h, i>>)
      <4>1. h \in Section /\ i \in Words0(h) /\ i \in Words0(h)'
        BY <1>1, <1>3, <3>3, SectionFacts DEF Words0, LInv, LType, HookName
      <4> QED BY <2>0, <3>1, <3>2, <4>1 DEF WordIs
    <3>4. Word(Spin)' = IF Spin = s0 THEN Vaddr(off) ELSE Word(Spin)
      BY <2>0, <3>1 DEF Word, Spin
    <3> QED BY <3>3, <3>4 DEF Places
  <2>7. ~ IsCallout(Vaddr(off))
    BY DEF IsCallout, Vaddr
  <2>8. /\ Bytes(s0)' = {}
        /\ \A x \in Places : x # s0 => Bytes(x)' = Bytes(x)
    <3>1. Word(s0)' = Vaddr(off) /\ \A x \in Places : x # s0 => Word(x)' = Word(x)
      BY <2>1, <2>6
    <3> QED BY <2>7, <3>1 DEF Bytes, IsCallout
  <2>9. PICK D : D = Code(Pending)'
    OBVIOUS
  <2>10. D \subseteq Code(Pending) /\ D \cap Bytes(s0) = {}
    <3>1. D = UNION {Bytes(x)' : x \in Pending'}
      BY <2>9 DEF Code
    <3>2. ASSUME NEW x \in Pending', x # s0 PROVE Bytes(x)' \subseteq Code(Pending) /\ Bytes(x)' \cap Bytes(s0) = {}
      <4>1. x \in Pending /\ x \in Places /\ Bytes(x)' = Bytes(x)
        BY <1>2, <1>3, <2>8, <3>2
      <4>2. Bytes(x) \cap Bytes(s0) = {}
        BY <3>2 DEF Bytes
      <4> QED BY <4>1, <4>2 DEF Code
    <3>3. \A x \in Pending' : Bytes(x)' \subseteq Code(Pending) /\ Bytes(x)' \cap Bytes(s0) = {}
      BY <2>8, <3>2
    <3> QED BY <3>1, <3>3
  <2>11. RtnSize[r] + Cardinality(D) <= Cardinality(Code(Pending))
         /\ Cardinality(D) \in Nat /\ Cardinality(Code(Pending)) \in Nat
    <3>1. IsFiniteSet(Code(Pending)) /\ Cardinality(Code(Pending)) \in Nat
      BY <1>3, CodeFinite
    <3>2. Bytes(s0) \subseteq Code(Pending) /\ Cardinality(Bytes(s0)) = RtnSize[r]
      BY <1>2, <1>3, <1>8, <2>0, BytesCount DEF Code
    <3>3. IsFiniteSet(D) /\ Cardinality(D) \in Nat
      <4>1. D \in SUBSET Code(Pending)
        BY <2>10
      <4> QED BY <3>1, <4>1, FS_Subset, FS_CardinalityType
    <3>4. Cardinality(Bytes(s0)) + Cardinality(D) <= Cardinality(Code(Pending))
      BY <2>10, <3>1, <3>2, TwoParts
    <3> QED BY <3>1, <3>2, <3>3, <3>4
  <2>12. Start' <= NextOff' /\ NextOff' + Cardinality(Code(Pending)') <= Start' + callouts_size'
    BY <1>1, <1>4, <1>5, <2>0, <2>1, <2>4, <2>5, <2>9, <2>11
  <2>13. ASSUME NEW x \in Places PROVE Known(x)' /\ (IsCallout(Word(x)') => x \in Pending')
    <3>1. CASE x = s0
      BY <2>6, <2>7, <3>1 DEF Known, IsCallout
    <3>2. CASE x # s0
      BY <1>1, <1>2, <1>4, <2>0, <2>6, <3>2 DEF Known, RwKnown, IsCallout
    <3> QED BY <3>1, <3>2
  <2>14. \A o \in out : o.rtn \in Rtn /\ o.off \in Nat /\ Start <= o.off /\ Ends(o) \in Nat /\ Ends(o) <= off
    BY <1>4, <2>0, CalloutAssumption DEF OutRight, Ends
  <2>15. ASSUME NEW o \in out PROVE OutRight(o)'
    <3>1. Ends(o) <= NextOff'
      BY <2>1, <2>4, <2>5, <2>14
    <3>2. OutRight(o)
      BY <1>4
    <3> QED BY <1>1, <1>5, <3>1, <3>2 DEF OutRight, RwKnown, Ends
  <2>16. OutRight(new)'
    <3>1. new.rtn \in Rtn /\ new.off \in Nat /\ Start' <= new.off /\ Ends(new) = NextOff' /\ NextOff' \in Nat
      BY <1>4, <1>5, <2>0, <2>1, <2>2, <2>4, <2>5 DEF Ends
    <3>2. RwKnown(new.rtn)'
      BY <1>1, <2>1, <2>2 DEF RwKnown
    <3>3. new.rw = 8 * total_size' + (IF RwOf[new.rtn] = NoRw THEN 0 ELSE rw_addrs'[RwOf[new.rtn]])
      BY <1>1, <2>2 DEF rw
    <3> QED BY <3>1, <3>2, <3>3 DEF OutRight, Ends
  <2>17. \A o \in out' : OutRight(o)'
    BY <2>2, <2>15, <2>16
  <2>18. ASSUME NEW o \in out', NEW q \in out', o # q PROVE Ends(o) <= q.off \/ Ends(q) <= o.off
    <3>1. CASE o \in out /\ q \in out
      BY <1>4, <2>18, <3>1
    <3>2. CASE o = new \/ q = new
      BY <2>2, <2>14, <2>18, <3>2
    <3> QED BY <2>2, <3>1, <3>2
  <2>19. WriteInv'
    BY <1>1, <1>4, <1>5, <2>12, <2>13, <2>17, <2>18 DEF WriteInv, IsCallout, Ends
  <2> QED BY <1>6, <2>19 DEF PassInv
<1> QED BY <1>7, <1>8

\* From the invariant follows that what was written fits.
LEMMA Fit ==
  ASSUME PageInv, RwInv, WriteInv, phase \in {"write", "done"}
  PROVE  CalloutsFit
<1> DEFINE top == 8 * total_size + rw_size
<1>1. /\ Start + callouts_size <= spsize
      /\ NextOff + Cardinality(Code(Pending)) <= Start + callouts_size
      /\ \A o \in out : OutRight(o)
      /\ \A o, q \in out : o # q => Ends(o) <= q.off \/ Ends(q) <= o.off
  BY DEF WriteInv
<1>2. /\ total_size \in Nat /\ rw_size \in Nat /\ callouts_size \in Nat /\ spsize \in Nat
      /\ rtn_size \in Nat /\ Cardinality(Code(Pending)) \in Nat
  BY PageFacts, CodeFinite DEF PageInv, LInv, LType, NInv
<1>3. top \in Nat /\ Start \in Nat /\ NextOff \in Nat /\ top <= Start
  <2>1. top \in Nat
    BY <1>2
  <2> HIDE DEF top
  <2>2. RoundPg(top) \in Nat /\ top <= RoundPg(top)
    BY <2>1, RoundPgNat, RoundPgUp
  <2> QED BY <1>2, <2>1, <2>2 DEF Start, NextOff, top
<1>4. ASSUME NEW o \in out
      PROVE  /\ Start <= o.off /\ Ends(o) <= Start + callouts_size /\ Ends(o) <= spsize
             /\ o.off \in Nat /\ Ends(o) \in Nat
  <2>1. Start <= o.off /\ Ends(o) <= NextOff /\ o.off \in Nat /\ o.rtn \in Rtn
    BY <1>1 DEF OutRight
  <2>2. Ends(o) \in Nat
    BY <2>1, CalloutAssumption DEF Ends
  <2> QED BY <1>1, <1>2, <1>3, <2>1, <2>2
<1>5. ASSUME NEW o \in out, RwOf[o.rtn] # NoRw
      PROVE  /\ RwOf[o.rtn] \in DOMAIN rw_addrs
             /\ o.rw = 8 * total_size + rw_addrs[RwOf[o.rtn]]
             /\ rw_addrs[RwOf[o.rtn]] \in Nat /\ RwSize[RwOf[o.rtn]] \in Nat
             /\ rw_addrs[RwOf[o.rtn]] + RwSize[RwOf[o.rtn]] <= rw_size
  BY <1>1, <1>5 DEF OutRight, RwKnown, RwInv
<1>6. ASSUME NEW o \in out, RwOf[o.rtn] # NoRw, NEW q \in out
      PROVE  8 * total_size <= o.rw /\ o.rw + RwSize[RwOf[o.rtn]] <= q.off
  BY <1>2, <1>3, <1>4, <1>5, <1>6
<1>7. ASSUME NEW o \in out, RwOf[o.rtn] # NoRw, NEW q \in out, RwOf[q.rtn] # NoRw
      PROVE  IF RwOf[o.rtn] = RwOf[q.rtn] THEN o.rw = q.rw
             ELSE \/ o.rw + RwSize[RwOf[o.rtn]] <= q.rw
                  \/ q.rw + RwSize[RwOf[q.rtn]] <= o.rw
  <2> DEFINE x == RwOf[o.rtn]
             y == RwOf[q.rtn]
  <2>1. /\ x \in DOMAIN rw_addrs /\ y \in DOMAIN rw_addrs
        /\ o.rw = 8 * total_size + rw_addrs[x] /\ q.rw = 8 * total_size + rw_addrs[y]
        /\ rw_addrs[x] \in Nat /\ rw_addrs[y] \in Nat /\ RwSize[x] \in Nat /\ RwSize[y] \in Nat
    BY <1>5, <1>7
  <2> HIDE DEF x, y
  <2>2. CASE x = y
    BY <2>1, <2>2 DEF x, y
  <2>3. CASE x # y
    <3>1. rw_addrs[x] + RwSize[x] <= rw_addrs[y] \/ rw_addrs[y] + RwSize[y] <= rw_addrs[x]
      BY <2>1, <2>3 DEF RwInv
    <3>2. o.rw + RwSize[x] <= q.rw \/ q.rw + RwSize[y] <= o.rw
      BY <1>2, <2>1, <3>1
    <3> QED BY <2>3, <3>2 DEF x, y
  <2> QED BY <2>2, <2>3
<1>8. \A o \in out : /\ Start <= o.off /\ Ends(o) <= Start + callouts_size /\ Ends(o) <= spsize
                     /\ \A q \in out : o # q => Ends(o) <= q.off \/ Ends(q) <= o.off
  BY <1>1, <1>4
<1> QED BY <1>6, <1>7, <1>8 DEF CalloutsFit, Start, Ends

\* The second pass ends with every slot visited.
LEMMA WriteDoneStep ==
  ASSUME PageInv, PassInv, WriteDone
  PROVE  PassInv'
<1>1. /\ phase = "write" /\ todo = << >> /\ phase' = "done" /\ UNCHANGED pageVars
      /\ UNCHANGED <<todo, rtn_size, rw_size, rw_addrs, callouts_size, spsize, splits, out,
                     total_size, max_size>>
  BY DEF WriteDone, lspVars, dataVars, passVars, allocVars, pageVars
<1>2. Pending = {} /\ Pending' = {}
  <2>1. todo' = << >>
    BY <1>1
  <2> QED BY <1>1, <2>1 DEF Pending
<1>3. /\ Places' = Places /\ Code(Pending)' = Code(Pending) /\ \A x : Word(x)' = Word(x)
      /\ \A x : Known(x) => Known(x)'
  BY <1>1, <1>2, PageSame, KnownSame
<1>4. Start' = Start /\ NextOff' = NextOff /\ \A o : OutRight(o) => OutRight(o)'
  BY <1>1 DEF Start, NextOff, RoundPg, OutRight, RwKnown, Ends
<1>5. WriteInv'
  BY <1>1, <1>2, <1>3, <1>4 DEF PassInv, WriteInv, IsCallout, Ends
<1>6. RwInv' /\ BuildInv' /\ SizeInv' /\ AllocInv' /\ CrashInv'
  BY <1>1 DEF PassInv, RwInv, BuildInv, SizeInv, AllocInv, CrashInv
<1> QED BY <1>5, <1>6 DEF PassInv

\* crash(): the page is what it was.
LEMMA CrashStep ==
  ASSUME PageInv, PassInv, NEW n, GrowCrash(n)
  PROVE  PassInv'
<1>1. /\ phase \in {"build", "alloc", "done"} /\ phase' = "crash"
      /\ UNCHANGED <<rw_size, rw_addrs, callouts_size, spsize, splits, out, total_size>>
  BY DEF GrowCrash, lspVars, dataVars, passVars, allocVars
<1>2. CalloutsFit
  <2>1. CASE phase = "done"
    BY <2>1, Fit DEF PassInv
  <2>2. CASE phase \in {"build", "alloc"}
    BY <2>2 DEF PassInv, BuildInv, CalloutsFit
  <2> QED BY <1>1, <2>1, <2>2
<1>3. CalloutsFit'
  BY <1>1, <1>2 DEF CalloutsFit, RoundPg
<1>4. RwInv'
  BY <1>1 DEF PassInv, RwInv
<1>5. BuildInv' /\ SizeInv' /\ AllocInv' /\ WriteInv' /\ CrashInv'
  BY <1>1, <1>3 DEF BuildInv, SizeInv, AllocInv, WriteInv, CrashInv
<1> QED BY <1>4, <1>5 DEF PassInv

\* A step that changes nothing.
LEMMA IdleStep ==
  ASSUME PassInv, UNCHANGED vars
  PROVE  PassInv'
<1> USE DEF vars, lspVars, dataVars, passVars, allocVars
<1>1. UNCHANGED pageVars /\ \A k : First(k)' = First(k) /\ \A h : SlotsOf(h)' = SlotsOf(h)
  BY DEF pageVars, First, SlotsOf
<1>2. Pending' = Pending
  BY <1>1 DEF Pending
<1>3. /\ Places' = Places /\ Code(Places)' = Code(Places) /\ Code(Pending)' = Code(Pending)
      /\ \A x : Word(x)' = Word(x)
      /\ \A x : Known(x) => Known(x)'
  BY <1>1, <1>2, PageSame, KnownSame
<1>4. RwInv' /\ BuildInv'
  BY DEF PassInv, RwInv, BuildInv
<1>5. SizeInv'
  BY <1>2, <1>3 DEF PassInv, SizeInv
<1>6. AllocInv'
  BY <1>3 DEF PassInv, AllocInv, Spare, RoundPg
<1>7. Start' = Start /\ NextOff' = NextOff /\ \A o : OutRight(o) => OutRight(o)'
  BY DEF Start, NextOff, RoundPg, OutRight, RwKnown, Ends
<1>8. WriteInv'
  BY <1>2, <1>3, <1>7 DEF PassInv, WriteInv, IsCallout, Ends
<1>9. CrashInv'
  BY DEF PassInv, CrashInv, CalloutsFit, RoundPg
<1> QED BY <1>4, <1>5, <1>6, <1>8, <1>9 DEF PassInv

\* Nothing grows once the page is written: grow_syspage_section() has only
\* the header's size left to compare with.
LEMMA NoRoom ==
  ASSUME PageInv, PassInv, phase = "done", NEW n \in Nat \ {0}
  PROVE  ~ Room(n)
<1>1. max_size = HdrSize /\ HdrSize \in Nat /\ total_size \in Nat
  BY SizeAssumption DEF PassInv, WriteInv, PageInv, LInv, LType
<1>2. HdrSize <= total_size
  <2>1. base \in Nat /\ base = ptr["syspage"] /\ size["syspage"] = HdrSize
    BY SectionFacts DEF PageInv, LInv, LType, Sizes, base
  <2>2. ptr["syspage"] + size["syspage"] <= base + total_size
    BY SectionFacts DEF PageInv, LInv, Layout, Inside, End
  <2> QED BY <1>1, <2>1, <2>2
<1> QED BY <1>1, <1>2 DEF Room

\* Every step keeps PassInv ...
LEMMA NextPassInv ==
  ASSUME PageInv, PageInv', PassInv, [Next]_vars
  PROVE  PassInv'
<1> DEFINE Ok == PassInv'
           Built == phase = "build" /\ UNCHANGED <<phase, passVars, allocVars>>
<1>1. Built => Ok
  BY BuildStep
<1>2. ASSUME NEW s \in Section \ Settable, NEW n \in Nat \ {0}, phase \in {"build", "done"},
             GrowPlain(s, n), UNCHANGED <<phase, passVars, allocVars>>
      PROVE  Built
  <2>1. Room(n)
    BY <1>2 DEF GrowPlain, Grow
  <2> QED BY <1>2, <2>1, NoRoom
<1>3. ASSUME NEW s \in Grown, NEW b \in GrowSize[s], GrowSection(s, b) PROVE Built
  <2>1. Words(b) \in Nat \ {0} /\ s \in Section \ Settable
    BY SizeAssumption, WordsPositive, SectionFacts
  <2> HIDE DEF Built
  <2> QED BY <1>2, <1>3, <2>1 DEF GrowSection
<1>4. ASSUME AsAdd PROVE Built
  <2>1. AsSize \in Nat \ {0} /\ "asinfo" \in Section \ Settable
    BY SizeAssumption, SectionFacts
  <2> HIDE DEF Built
  <2> QED BY <1>2, <1>4, <2>1 DEF AsAdd
<1>5. /\ \A s : SetSection(s) => Built
      /\ \A i, r : AddCallout(i, r) => Built
      /\ \A r, d : AddInterrupt(r, d) => Built
      /\ \A v, r : AddCache(v, r) => Built
      /\ \A r : InitSmp(r) => Built
      /\ RelocSyspageMemory => Built
  BY DEF SetSection, AddCallout, AddInterrupt, AddCache, InitSmp, RelocSyspageMemory
<1>6. /\ AllocSyspageMemory \/ SizeOne \/ SizeDone \/ Split \/ Freeze => Ok
      /\ WriteOne \/ WriteDone \/ NextRoutine \/ UNCHANGED vars => Ok
      /\ \A n : GrowCrash(n) => Ok
  BY AllocStep, SizeStep, SizeDoneStep, SplitStep, FreezeStep, WriteOneStays, WriteDoneStep,
     RoutineStep, IdleStep, CrashStep
<1>7. /\ \A s \in Grown : \A b \in GrowSize[s] : GrowSection(s, b) => Built
      /\ AsAdd => Built
  BY <1>3, <1>4
<1> HIDE DEF Ok, Built
<1>8. Ok
  BY <1>1, <1>5, <1>6, <1>7 DEF Next
<1> QED BY <1>8 DEF Ok

\* ... which holds at first.
LEMMA InitPassInv == Init => PassInv
<1> SUFFICES ASSUME Init PROVE PassInv
  OBVIOUS
<1>1. phase = "build" /\ rtn_size = 0 /\ rw_addrs = << >> /\ splits = 0 /\ out = {}
  BY DEF Init
<1>2. DOMAIN rw_addrs = {}
  BY <1>1
<1> QED BY <1>1, <1>2 DEF PassInv, RwInv, BuildInv, SizeInv, AllocInv, WriteInv, CrashInv

\* Once all is written, no word of the page is a callout.
LEMMA Written ==
  ASSUME PageInv, WriteInv
  PROVE  AllWritten
<1> SUFFICES ASSUME phase = "done" PROVE /\ \A a \in DOMAIN mem : ~ IsCallout(mem[a])
                                         /\ ~ IsCallout(smp_spin_vaddr)
  BY DEF AllWritten
<1>1. \A x \in Places : ~ IsCallout(Word(x))
  <2>1. Pending = {}
    BY EmptyPending DEF WriteInv
  <2> QED BY <2>1 DEF WriteInv
<1>2. LInv /\ MInv /\ HookInv /\ HookSlots \subseteq Places
  BY PageFacts DEF PageInv
<1>3. ~ IsCallout(smp_spin_vaddr)
  <2>1. Spin \in Places /\ Word(Spin) = smp_spin_vaddr
    BY <1>2, WordOf DEF Places
  <2> QED BY <1>1, <2>1
<1>4. ASSUME NEW a \in DOMAIN mem PROVE ~ IsCallout(mem[a])
  <2>1. a \in 0 .. total_size - 1 /\ base \in Nat /\ total_size \in Nat
    BY <1>2, SectionFacts DEF MInv, LInv, LType, base
  <2>2. base + a \in base .. base + total_size - 1
    BY <2>1
  <2>3. PICK s \in Section : ptr[s] <= base + a /\ base + a < End(s)
    BY <1>2, <2>2 DEF LInv, Layout, NoGap
  <2>4. ptr[s] \in Nat /\ size[s] \in Nat
    BY <1>2 DEF LInv, LType
  <2> DEFINE i == (base + a) - ptr[s]
  <2>5. i \in Words0(s) /\ ptr[s] - base + i = a
    BY <2>1, <2>3, <2>4 DEF Words0, End
  <2> HIDE DEF i
  <2>6. W(s, i) = mem[a] /\ Word(<<s, i>>) = W(s, i)
    BY <1>2, <2>5, WordOf DEF W
  <2>7. IsCallout(mem[a]) => <<s, i>> \in Places
    BY <1>2, <2>5, <2>6 DEF HookInv, CalloutAt
  <2> QED BY <1>1, <2>6, <2>7
<1> QED BY <1>3, <1>4

\* The second pass of output_callouts() stays within what the first has
\* measured, whatever the order in which routines put themselves into the
\* chain and the allocation made asinfo longer in between, and it leaves no
\* callout in the page or in smp_spin_vaddr.
THEOREM CalloutsAreRight == Spec => []CalloutsRight
<1> DEFINE CInv == IInv /\ HookInv /\ PassInv
<1>1. Init => CInv
  BY InitIInv, InitHookInv, InitPassInv
<1>2. ASSUME CInv, [Next]_vars PROVE CInv'
  <2>1. IInv /\ IInv' /\ HookInv /\ PassInv
    BY <1>2, NextIInv
  <2>2. HookInv'
    BY <1>2, <2>1, NextHookInv DEF IInv
  <2>3. PageInv /\ PageInv'
    BY <2>1, <2>2 DEF PageInv, IInv
  <2>4. PassInv'
    BY <1>2, <2>1, <2>3, NextPassInv
  <2> QED BY <2>1, <2>2, <2>4
<1>3. CInv => CalloutsRight
  <2> SUFFICES ASSUME CInv PROVE CalloutsRight
    OBVIOUS
  <2>1. PageInv /\ PassInv /\ phase \in {"build", "size", "alloc", "write", "done", "crash"}
    BY DEF PageInv, IInv, NInv
  <2>2. CalloutsFit
    <3>1. CASE phase \in {"write", "done"}
      BY <2>1, <3>1, Fit DEF PassInv
    <3>2. CASE phase = "crash"
      BY <2>1, <3>2 DEF PassInv, CrashInv
    <3>3. CASE phase \in {"build", "size", "alloc"}
      BY <2>1, <3>3 DEF PassInv, BuildInv, CalloutsFit
    <3> QED BY <2>1, <3>1, <3>2, <3>3
  <2>3. AllWritten
    BY <2>1, Written DEF PassInv
  <2> QED BY <2>2, <2>3 DEF CalloutsRight
<1> HIDE DEF CInv
<1> QED BY <1>1, <1>2, <1>3, PTL DEF Spec
=============================================================================
