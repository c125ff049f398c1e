------------------------- MODULE RamManagerProofs -------------------------
(***************************************************************************)
(* The RAM manager loses and invents no memory, keeps its lists in normal  *)
(* form and implements the pool, so that what it finds for a caller is     *)
(* that caller's alone: for any banks that do not overlap, any image, any  *)
(* options and any calls. Told of the RAM by the board, a device tree or a *)
(* memory map, it keeps off what the firmware keeps, and startup leaves    *)
(* the boot services in time.                                              *)
(***************************************************************************)
EXTENDS RamInfo, WellFoundedInduction, SequenceTheorems, TLAPS

-----------------------------------------------------------------------------
(* Folds. The loops of ram.c are folds over a list; each is unfolded into  *)
(* the values its accumulator takes, so that what a loop establishes can   *)
(* be shown from step to step.                                             *)

\* Induction over the natural numbers, for a set: a least counterexample
\* would have a predecessor.
LEMMA Induct ==
  ASSUME NEW S, 0 \in S, \A n \in Nat : n \in S => n + 1 \in S
  PROVE  \A n \in Nat : n \in S
<1> DEFINE T == Nat \ S
<1>1. SUFFICES ASSUME T # {} PROVE FALSE
  OBVIOUS
<1>2. PICK x \in T : \A y \in T : ~ (<<y, x>> \in OpToRel(<, Nat))
  <2>1. T \subseteq Nat
    OBVIOUS
  <2> HIDE DEF T
  <2> QED BY <1>1, <2>1, WFMin, NatLessThanWellFounded
<1>3. x # 0 /\ x - 1 \in Nat /\ x - 1 < x
  OBVIOUS
<1>4. <<x - 1, x>> \in OpToRel(<, Nat)
  BY <1>3 DEF OpToRel
<1>5. x - 1 \in S
  BY <1>2, <1>3, <1>4
<1> QED BY <1>3, <1>5

\* The greatest element of a set that has one.
LEMMA MaxIs ==
  ASSUME NEW t \in SUBSET Int, NEW m \in t, \A y \in t : y <= m
  PROVE  Max(t) = m
<1>1. \A y \in t : m >= y
  OBVIOUS
<1>2. Max(t) \in t /\ \A y \in t : Max(t) >= y
  BY <1>1 DEF Max
<1>3. Max(t) \in Int /\ m \in Int /\ Max(t) >= m /\ Max(t) <= m
  BY <1>2
<1> QED BY <1>3

LEMMA MaxIn == \A n \in Nat : \A t \in SUBSET (1 .. n) : t # {} => Max(t) \in t
<1> DEFINE S == {n \in Nat : \A t \in SUBSET (1 .. n) : t # {} => Max(t) \in t}
<1>1. 0 \in S
  <2>1. \A t \in SUBSET (1 .. 0) : t = {}
    OBVIOUS
  <2> QED BY <2>1
<1>2. ASSUME NEW n \in Nat, n \in S PROVE n + 1 \in S
  <2> SUFFICES ASSUME NEW t \in SUBSET (1 .. n + 1), t # {} PROVE Max(t) \in t
    OBVIOUS
  <2>1. CASE n + 1 \in t
    <3>1. \A y \in t : y <= n + 1
      OBVIOUS
    <3>2. Max(t) = n + 1
      BY <2>1, <3>1, MaxIs
    <3> QED BY <2>1, <3>2
  <2>2. CASE n + 1 \notin t
    <3>1. t \in SUBSET (1 .. n)
      BY <2>2
    <3> QED BY <1>2, <3>1
  <2> QED BY <2>1, <2>2
<1> HIDE DEF S
<1>3. \A n \in Nat : n \in S
  BY <1>1, <1>2, Induct
<1> QED BY <1>3 DEF S

\* What a fold of n steps over a sequence iterates exists.
IsGraph(g, n, base, step) == \A t \in SUBSET (1 .. n) :
  g[t] = IF t = {} THEN base ELSE step[Max(t)][g[t \ {Max(t)}]]

LEMMA FoldGraph ==
  ASSUME NEW n \in Nat, NEW D, NEW base \in D, NEW step \in [1 .. n -> [D -> D]]
  PROVE  \E g \in [SUBSET (1 .. n) -> D] : IsGraph(g, n, base, step)
<1> USE DEF IsGraph
<1> DEFINE Graph(k, g) == IsGraph(g, k, base, step)
           Has(k) == \E g \in [SUBSET (1 .. k) -> D] : Graph(k, g)
           S == {k \in Nat : k <= n => Has(k)}
<1>1. 0 \in S
  <2> DEFINE g == [t \in SUBSET (1 .. 0) |-> base]
  <2>1. g \in [SUBSET (1 .. 0) -> D] /\ Graph(0, g)
    OBVIOUS
  <2>2. Has(0)
    BY <2>1
  <2> HIDE DEF Has
  <2> QED BY <2>2
<1>2. ASSUME NEW k \in Nat, k \in S PROVE k + 1 \in S
  <2> HIDE DEF Has
  <2> SUFFICES ASSUME k + 1 <= n PROVE Has(k + 1)
    OBVIOUS
  <2>0. Has(k)
    BY <1>2
  <2>1. PICK g \in [SUBSET (1 .. k) -> D] : Graph(k, g)
    BY <2>0 DEF Has
  <2> DEFINE f == [t \in SUBSET (1 .. k + 1) |->
                     IF k + 1 \in t THEN step[k + 1][g[t \ {k + 1}]] ELSE g[t]]
  <2>2. \A t \in SUBSET (1 .. k + 1) : t \ {k + 1} \in SUBSET (1 .. k)
    OBVIOUS
  <2>3. step[k + 1] \in [D -> D]
    OBVIOUS
  <2>4. f \in [SUBSET (1 .. k + 1) -> D]
    <3> SUFFICES ASSUME NEW t \in SUBSET (1 .. k + 1)
                 PROVE  (IF k + 1 \in t THEN step[k + 1][g[t \ {k + 1}]] ELSE g[t]) \in D
      OBVIOUS
    <3>1. k + 1 \notin t => t \in SUBSET (1 .. k)
      BY <2>2
    <3> QED BY <2>2, <2>3, <3>1
  <2>5. ASSUME NEW t \in SUBSET (1 .. k + 1), t # {}
        PROVE  f[t] = step[Max(t)][f[t \ {Max(t)}]]
    <3>1. CASE k + 1 \in t
      <4>1. Max(t) = k + 1
        BY <3>1, MaxIs
      <4>2. f[t] = step[k + 1][g[t \ {k + 1}]]
        BY <3>1
      <4>3. f[t \ {k + 1}] = g[t \ {k + 1}]
        BY <2>2
      <4> QED BY <4>1, <4>2, <4>3
    <3>2. CASE k + 1 \notin t
      <4> DEFINE m == Max(t)
      <4> HIDE DEF m
      <4>0. t \in SUBSET (1 .. k)
        BY <3>2
      <4>1. t \ {m} \in SUBSET (1 .. k + 1) /\ k + 1 \notin t \ {m}
        BY <3>2, Zenon
      <4>2. g[t] = step[m][g[t \ {m}]]
        BY <2>1, <2>5, <4>0 DEF m
      <4>3. f[t] = g[t] /\ f[t \ {m}] = g[t \ {m}]
        BY <3>2, <4>1
      <4> QED BY <4>2, <4>3 DEF m
    <3> QED BY <3>1, <3>2
  <2>6. f[{}] = base
    <3>1. {} \in SUBSET (1 .. k) /\ {} \in SUBSET (1 .. k + 1)
      OBVIOUS
    <3> QED BY <2>1, <3>1
  <2> HIDE DEF f
  <2>7. Graph(k + 1, f)
    BY <2>5, <2>6
  <2> QED BY <2>4, <2>7 DEF Has
<1> HIDE DEF S, Has
<1>3. \A k \in Nat : k \in S
  BY <1>1, <1>2, Induct
<1>4. Has(n)
  BY <1>3 DEF S
<1> QED BY <1>4 DEF Has

\* The step that ends with k.
LEMMA Prefix ==
  ASSUME NEW k \in Nat, k # 0
  PROVE  Max(1 .. k) = k /\ (1 .. k) \ {k} = 1 .. k - 1 /\ 1 .. k # {}
<1>1. 1 .. k \in SUBSET Int /\ k \in 1 .. k /\ \A y \in 1 .. k : y <= k
  OBVIOUS
<1>2. Max(1 .. k) = k
  BY <1>1, MaxIs, Zenon
<1>3. (1 .. k) \ {k} = 1 .. k - 1
  OBVIOUS
<1> QED BY <1>1, <1>2, <1>3


\* The values of the accumulator, for a fold whose steps stay in D.
Iterates(iter, n, D, base, step) ==
  /\ iter[{}] = base
  /\ \A t \in SUBSET (1 .. n) : t # {} /\ iter[t \ {Max(t)}] \in D =>
       iter[t] = step[Max(t)][iter[t \ {Max(t)}]]
Runs(h, n, base, step) == h[0] = base /\ \A k \in 1 .. n : h[k] = step[k][h[k - 1]]

LEMMA FoldStepsOf ==
  ASSUME NEW n \in Nat, NEW D, NEW base \in D, NEW step \in [1 .. n -> [D -> D]],
         NEW iter, Iterates(iter, n, D, base, step)
  PROVE  \E h \in [0 .. n -> D] : Runs(h, n, base, step) /\ h[n] = iter[1 .. n]
<1> USE DEF Iterates, Runs
<1> DEFINE S == {k \in Nat : k <= n => iter[1 .. k] \in D}
           h == [k \in 0 .. n |-> iter[1 .. k]]
<1>1. 1 .. 0 = {}
  OBVIOUS
<1>2. ASSUME NEW k \in 1 .. n, iter[1 .. k - 1] \in D
      PROVE  iter[1 .. k] = step[k][iter[1 .. k - 1]] /\ iter[1 .. k] \in D
  <2>1. Max(1 .. k) = k /\ (1 .. k) \ {k} = 1 .. k - 1 /\ 1 .. k # {}
    <3>1. k \in Nat /\ k # 0
      OBVIOUS
    <3> QED BY <3>1, Prefix
  <2>2. 1 .. k \in SUBSET (1 .. n)
    OBVIOUS
  <2>3. iter[1 .. k] = step[k][iter[1 .. k - 1]]
    BY <1>2, <2>1, <2>2
  <2>4. step[k] \in [D -> D]
    OBVIOUS
  <2> QED BY <1>2, <2>3, <2>4
<1>3. 0 \in S
  BY <1>1
<1>4. ASSUME NEW k \in Nat, k \in S PROVE k + 1 \in S
  <2>1. k + 1 <= n => k + 1 \in 1 .. n /\ (k + 1) - 1 = k /\ iter[1 .. k] \in D
    BY <1>4
  <2> QED BY <1>2, <2>1
<1> HIDE DEF S
<1>5. \A k \in Nat : k \in S
  BY <1>3, <1>4, Induct
<1>6. \A k \in 0 .. n : iter[1 .. k] \in D
  BY <1>5 DEF S
<1>7. h \in [0 .. n -> D]
  BY <1>6
<1>8. h[0] = base /\ h[n] = iter[1 .. n]
  BY <1>1
<1>9. ASSUME NEW k \in 1 .. n PROVE h[k] = step[k][h[k - 1]]
  <2>1. k - 1 \in 0 .. n /\ k \in 0 .. n
    OBVIOUS
  <2>2. iter[1 .. k - 1] \in D
    BY <1>6, <2>1
  <2> QED BY <1>2, <2>1, <2>2
<1> HIDE DEF h
<1> QED BY <1>7, <1>8, <1>9

\* What a fold must be for the lemma, as one fact.
Folding(iter, n, D, base, step) ==
  /\ n \in Nat /\ base \in D /\ step \in [1 .. n -> [D -> D]]
  /\ Iterates(iter, n, D, base, step)

LEMMA FoldSteps ==
  ASSUME NEW iter, NEW n, NEW D, NEW base, NEW step, Folding(iter, n, D, base, step)
  PROVE  \E h \in [0 .. n -> D] : Runs(h, n, base, step) /\ h[n] = iter[1 .. n]
<1>1. n \in Nat /\ base \in D /\ step \in [1 .. n -> [D -> D]] /\ Iterates(iter, n, D, base, step)
  BY DEF Folding
<1> QED BY <1>1, FoldStepsOf

-----------------------------------------------------------------------------
(* add_mem()                                                               *)

Entry == [addr : Nat, size : Nat \ {0}]

\* Entries ascend and do not touch.
Apart(l) == \A i, j \in 1 .. Len(l) : i < j => End(l[i]) < l[j].addr
Lists == {l \in Seq(Entry) : Apart(l)}

\* Unit u lies in a list, in a range.
In(l, u) == \E i \in 1 .. Len(l) : l[i].addr <= u /\ u < End(l[i])

LEMMA EntryIs ==
  ASSUME NEW r \in Entry
  PROVE  /\ r.addr \in Nat /\ r.size \in Nat \ {0} /\ End(r) = r.addr + r.size
         /\ End(r) \in Nat /\ r.addr < End(r)
BY DEF Entry, End

LEMMA ListIs ==
  ASSUME NEW l \in Lists
  PROVE  /\ l \in Seq(Entry) /\ Apart(l) /\ Len(l) \in Nat
         /\ \A i \in 1 .. Len(l) : /\ l[i] \in Entry /\ l[i].addr \in Nat /\ l[i].size \in Nat \ {0}
                                  /\ End(l[i]) = l[i].addr + l[i].size
                                  /\ End(l[i]) \in Nat /\ l[i].addr < End(l[i])
<1>1. l \in Seq(Entry) /\ Apart(l)
  BY DEF Lists
<1>2. Len(l) \in Nat /\ \A i \in 1 .. Len(l) : l[i] \in Entry
  BY <1>1
<1> QED BY <1>1, <1>2, EntryIs

\* A step of the merging loop.
LEMMA MergeStep ==
  ASSUME NEW l \in Lists, NEW r \in Entry, l # << >> => Last(l).addr <= r.addr
  PROVE  /\ Merge(l, r) \in Lists /\ Merge(l, r) # << >>
         /\ Last(Merge(l, r)).addr <= r.addr
         /\ Len(Merge(l, r)) <= Len(l) + 1
         /\ \A u \in Int : In(Merge(l, r), u) <=> In(l, u) \/ (r.addr <= u /\ u < End(r))
<1> DEFINE m == Merge(l, r)
<1>0. /\ l \in Seq(Entry) /\ Apart(l) /\ Len(l) \in Nat
      /\ \A i \in 1 .. Len(l) : /\ l[i] \in Entry /\ l[i].addr \in Nat /\ l[i].size \in Nat \ {0}
                               /\ End(l[i]) = l[i].addr + l[i].size
                               /\ End(l[i]) \in Nat /\ l[i].addr < End(l[i])
  BY ListIs
<1>00. r.addr \in Nat /\ End(r) \in Nat /\ r.addr < End(r)
  BY EntryIs
<1>1. CASE l # << >> /\ r.addr <= End(Last(l))
  <2> DEFINE n == Len(l)
             e == IF End(r) > End(Last(l)) THEN End(r) ELSE End(Last(l))
             x == [addr |-> Last(l).addr, size |-> e - Last(l).addr]
  <2>1. n \in Nat \ {0} /\ Last(l) = l[n]
    BY <1>0, <1>1 DEF Last
  <2>2. /\ e \in Nat /\ e >= End(l[n]) /\ e >= End(r)
        /\ e = End(l[n]) \/ e = End(r)
    BY <1>0, <1>00, <2>1
  <2>3. x \in Entry /\ x.addr = l[n].addr /\ End(x) = e
    <3>1. l[n].addr \in Nat /\ e - l[n].addr \in Nat \ {0}
      BY <1>0, <2>1, <2>2
    <3> HIDE DEF e
    <3> QED BY <2>1, <2>2, <3>1 DEF Entry, End
  <2> HIDE DEF e, x
  <2>4. m = Append(Front(l), x)
    BY <1>1 DEF Merge, e, x
  <2>5. /\ Front(l) \in Seq(Entry) /\ Len(Front(l)) = n - 1
        /\ \A i \in 1 .. n - 1 : Front(l)[i] = l[i]
    <3>1. \A i \in 1 .. n - 1 : l[i] \in Entry
      BY <1>0
    <3>2. n \in Nat /\ n >= 1 /\ 1 \in Int /\ n - 1 \in Int
      BY <2>1
    <3> HIDE DEF n
    <3>3. /\ SubSeq(l, 1, n - 1) \in Seq(Entry)
          /\ Len(SubSeq(l, 1, n - 1)) = IF 1 <= n - 1 THEN (n - 1) - 1 + 1 ELSE 0
          /\ \A i \in 1 .. (n - 1) - 1 + 1 : SubSeq(l, 1, n - 1)[i] = l[1 + i - 1]
      BY <3>1, <3>2, SubSeqProperties
    <3>4. (IF 1 <= n - 1 THEN (n - 1) - 1 + 1 ELSE 0) = n - 1 /\ (n - 1) - 1 + 1 = n - 1
          /\ \A i \in 1 .. n - 1 : 1 + i - 1 = i
      BY <3>2
    <3>5. Front(l) = SubSeq(l, 1, n - 1)
      BY DEF Front, n
    <3> QED BY <3>3, <3>4, <3>5
  <2>6. /\ m \in Seq(Entry) /\ Len(m) = n /\ m[n] = x
        /\ \A i \in 1 .. n - 1 : m[i] = l[i]
    BY <2>1, <2>3, <2>4, <2>5
  <2> HIDE DEF m
  <2>7. Apart(m)
    <3> SUFFICES ASSUME NEW i \in 1 .. n, NEW j \in 1 .. n, i < j
                 PROVE  End(m[i]) < m[j].addr
      BY <2>6 DEF Apart
    <3>1. End(l[i]) < l[j].addr
      BY <1>0 DEF Apart
    <3>2. m[i] = l[i] /\ m[j].addr = l[j].addr
      BY <2>1, <2>3, <2>6
    <3> QED BY <3>1, <3>2
  <2>8. m # << >> /\ Last(m) = x
    BY <2>1, <2>6 DEF Last
  <2>9. ASSUME NEW u \in Int PROVE In(m, u) <=> In(l, u) \/ (r.addr <= u /\ u < End(r))
    <3>1. m[n].addr <= u /\ u < End(m[n]) <=> \/ l[n].addr <= u /\ u < End(l[n])
                                              \/ r.addr <= u /\ u < End(r)
      BY <1>0, <1>00, <1>1, <2>1, <2>2, <2>3, <2>6
    <3>2. In(m, u) <=> \/ \E i \in 1 .. n - 1 : m[i].addr <= u /\ u < End(m[i])
                       \/ m[n].addr <= u /\ u < End(m[n])
      BY <2>1, <2>6 DEF In
    <3>3. In(l, u) <=> \/ \E i \in 1 .. n - 1 : l[i].addr <= u /\ u < End(l[i])
                       \/ l[n].addr <= u /\ u < End(l[n])
      BY <2>1 DEF In
    <3> QED BY <2>6, <3>1, <3>2, <3>3
  <2> QED BY <1>1, <2>1, <2>3, <2>6, <2>7, <2>8, <2>9 DEF m, Lists
<1>2. CASE ~ (l # << >> /\ r.addr <= End(Last(l)))
  <2> DEFINE n == Len(l)
  <2>1. m = Append(l, r)
    BY <1>2 DEF Merge
  <2>2. /\ m \in Seq(Entry) /\ Len(m) = n + 1 /\ m[n + 1] = r
        /\ \A i \in 1 .. n : m[i] = l[i]
    BY <1>0, <2>1
  <2> HIDE DEF m
  <2>3. Apart(m)
    <3> SUFFICES ASSUME NEW i \in 1 .. n + 1, NEW j \in 1 .. n + 1, i < j
                 PROVE  End(m[i]) < m[j].addr
      BY <2>2 DEF Apart
    <3>1. CASE j <= n
      BY <1>0, <2>2, <3>1 DEF Apart
    <3>2. CASE j = n + 1
      <4>1. i \in 1 .. n /\ l # << >> /\ Last(l) = l[n]
        BY <1>0, <3>2 DEF Last
      <4>2. End(l[n]) < r.addr
        BY <1>0, <1>00, <1>2, <4>1
      <4>3. i # n => End(l[i]) < l[n].addr
        BY <1>0, <4>1 DEF Apart
      <4>4. l[n].addr < End(l[n]) /\ End(l[i]) \in Nat /\ l[n].addr \in Nat /\ End(l[n]) \in Nat
        BY <1>0, <4>1
      <4> QED BY <1>00, <2>2, <3>2, <4>1, <4>2, <4>3, <4>4
    <3>3. j <= n \/ j = n + 1
      BY <1>0
    <3> QED BY <3>1, <3>2, <3>3
  <2>4. m # << >> /\ Last(m) = r
    BY <1>0, <2>2 DEF Last
  <2>5. ASSUME NEW u \in Int PROVE In(m, u) <=> In(l, u) \/ (r.addr <= u /\ u < End(r))
    <3>1. In(m, u) <=> \/ \E i \in 1 .. n : m[i].addr <= u /\ u < End(m[i])
                       \/ m[n + 1].addr <= u /\ u < End(m[n + 1])
      BY <1>0, <2>2 DEF In
    <3> QED BY <2>2, <3>1 DEF In
  <2> QED BY <1>0, <1>00, <2>2, <2>3, <2>4, <2>5 DEF m, Lists
<1> QED BY <1>1, <1>2

LEMMA MergeEntry ==
  ASSUME NEW l \in Seq(Entry), NEW r \in Entry
  PROVE  Merge(l, r) \in Seq(Entry)
<1>1. CASE l # << >> /\ r.addr <= End(Last(l))
  <2> DEFINE e == IF End(r) > End(Last(l)) THEN End(r) ELSE End(Last(l))
             x == [addr |-> Last(l).addr, size |-> e - Last(l).addr]
  <2>1. Last(l) \in Entry /\ Front(l) \in Seq(Entry)
    <3>1. Len(l) \in Nat \ {0} /\ \A i \in 1 .. Len(l) - 1 : l[i] \in Entry
      BY <1>1
    <3>2. SubSeq(l, 1, Len(l) - 1) \in Seq(Entry)
      BY <3>1, SubSeqProperties
    <3> QED BY <3>1, <3>2 DEF Last, Front
  <2>2. /\ Last(l).addr \in Nat /\ End(Last(l)) \in Nat /\ Last(l).addr < End(Last(l))
        /\ End(r) \in Nat
    BY <2>1, EntryIs
  <2>3. Last(l).addr \in Nat /\ e - Last(l).addr \in Nat \ {0}
    BY <2>2
  <2> HIDE DEF e
  <2>4. x \in Entry
    BY <2>3 DEF Entry
  <2> HIDE DEF x
  <2>5. Merge(l, r) = Append(Front(l), x)
    BY <1>1 DEF Merge, e, x
  <2> QED BY <2>1, <2>4, <2>5
<1>2. CASE ~ (l # << >> /\ r.addr <= End(Last(l)))
  <2>1. Merge(l, r) = Append(l, r)
    BY <1>2 DEF Merge
  <2> QED BY <2>1
<1> QED BY <1>1, <1>2

\* The merging loop.
LEMMA MergeLoop ==
  ASSUME NEW s \in Seq(Entry)
  PROVE  \E h \in [0 .. Len(s) -> Seq(Entry)] :
           /\ h[0] = << >> /\ h[Len(s)] = FoldLeft(Merge, << >>, s)
           /\ \A k \in 1 .. Len(s) : h[k] = Merge(h[k - 1], s[k])
<1> DEFINE n == Len(s)
           D == Seq(Entry)
           step == [i \in 1 .. n |-> [d \in D |-> Merge(d, s[i])]]
           It(it) == it = [t \in SUBSET DOMAIN s |-> IF t = {} THEN << >>
                                ELSE Merge(it[t \ {Max(t)}], s[Max(t)])]
           iter == CHOOSE it : It(it)
<1>1. ASSUME NEW d \in D, NEW x \in Entry PROVE Merge(d, x) \in D
  BY <1>1, MergeEntry
<1>2. DOMAIN s = 1 .. n /\ n \in Nat /\ << >> \in D /\ \A i \in 1 .. n : s[i] \in Entry
  OBVIOUS
<1> HIDE DEF n, D
<1>3. step \in [1 .. n -> [D -> D]]
  BY <1>1, <1>2
<1>4. \A i \in 1 .. n : \A d \in D : step[i][d] = Merge(d, s[i])
  OBVIOUS
<1> HIDE DEF step
<1>5. PICK g \in [SUBSET (1 .. n) -> D] : IsGraph(g, n, << >>, step)
  BY <1>2, <1>3, FoldGraph
<1>6. ASSUME NEW t \in SUBSET (1 .. n), t # {} PROVE Max(t) \in 1 .. n /\ g[t \ {Max(t)}] \in D
  BY <1>2, <1>6, MaxIn
<1>7. It(g)
  BY <1>2, <1>4, <1>5, <1>6 DEF IsGraph
<1>8. It(iter)
  <2> HIDE DEF It
  <2> QED BY <1>7
<1>9. FoldLeft(Merge, << >>, s) = iter[1 .. n]
  <2>1. FoldLeft(Merge, << >>, s) = iter[DOMAIN s]
    BY DEF FoldLeft, MapThenFoldSet
  <2> QED BY <1>2, <2>1
<1> HIDE DEF iter
<1>10. iter[{}] = << >>
  BY <1>8
<1>11. ASSUME NEW t \in SUBSET (1 .. n), t # {}, iter[t \ {Max(t)}] \in D
       PROVE  iter[t] = step[Max(t)][iter[t \ {Max(t)}]]
  <2>1. iter[t] = Merge(iter[t \ {Max(t)}], s[Max(t)])
    BY <1>2, <1>8, <1>11
  <2> QED BY <1>4, <1>6, <1>11, <2>1
<1>12. PICK h \in [0 .. n -> D] : Runs(h, n, << >>, step) /\ h[n] = iter[1 .. n]
  <2>1. Iterates(iter, n, D, << >>, step)
    BY <1>10, <1>11 DEF Iterates
  <2>2. Folding(iter, n, D, << >>, step)
    BY <1>2, <1>3, <2>1 DEF Folding
  <2> QED BY <2>2, FoldSteps
<1>13. ASSUME NEW k \in 1 .. n PROVE h[k] = Merge(h[k - 1], s[k])
  <2>1. h[k - 1] \in D
    BY <1>2
  <2> QED BY <1>4, <1>12, <2>1 DEF Runs
<1> QED BY <1>9, <1>12, <1>13 DEF n, D, Runs

\* The loop leaves a sorted list in normal form and covers what it covered.
Sorted(s) == \A i, j \in 1 .. Len(s) : i < j => s[i].addr <= s[j].addr

LEMMA MergeAll ==
  ASSUME NEW s \in Seq(Entry), Sorted(s)
  PROVE  /\ FoldLeft(Merge, << >>, s) \in Lists
         /\ Len(FoldLeft(Merge, << >>, s)) <= Len(s)
         /\ \A u \in Int : In(FoldLeft(Merge, << >>, s), u) <=> In(s, u)
<1> DEFINE n == Len(s)
<1>1. PICK h \in [0 .. n -> Seq(Entry)] :
        /\ h[0] = << >> /\ h[n] = FoldLeft(Merge, << >>, s)
        /\ \A k \in 1 .. n : h[k] = Merge(h[k - 1], s[k])
  BY MergeLoop
<1>2. n \in Nat /\ \A i \in 1 .. n : s[i] \in Entry /\ s[i].addr \in Nat
  <2>1. n \in Nat /\ \A i \in 1 .. n : s[i] \in Entry
    OBVIOUS
  <2> QED BY <2>1, EntryIs
<1> DEFINE To(k, u) == \E i \in 1 .. k : s[i].addr <= u /\ u < End(s[i])
           Good(k) == /\ h[k] \in Lists /\ Len(h[k]) <= k
                      /\ k = 0 => h[k] = << >>
                      /\ k > 0 => h[k] # << >> /\ Last(h[k]).addr <= s[k].addr
                      /\ \A u \in Int : In(h[k], u) <=> To(k, u)
           S == {k \in Nat : k <= n => Good(k)}
<1>3. Good(0)
  <2>1. << >> \in Lists /\ Len(<< >>) = 0 /\ \A u \in Int : ~ In(<< >>, u)
    BY DEF Lists, Apart, In
  <2> QED BY <1>1, <2>1
<1>4. ASSUME NEW k \in Nat, k + 1 <= n, Good(k) PROVE Good(k + 1)
  <2> DEFINE l == h[k]
             r == s[k + 1]
  <2>1. k + 1 \in 1 .. n /\ (k + 1) - 1 = k /\ k + 1 > 0 /\ k + 1 # 0
    BY <1>2, <1>4
  <2>2. r \in Entry /\ h[k + 1] = Merge(l, r)
    BY <1>1, <1>2, <2>1
  <2>3. l \in Lists /\ Len(l) <= k
    BY <1>4
  <2>4. l # << >> => Last(l).addr <= r.addr
    <3>1. CASE k = 0
      BY <1>4, <3>1
    <3>2. CASE k > 0
      <4>1. k \in 1 .. n /\ s[k].addr <= s[k + 1].addr
        BY <1>2, <2>1, <3>2 DEF Sorted
      <4>2. l # << >> /\ Last(l).addr <= s[k].addr
        BY <1>4, <3>2
      <4>3. Last(l).addr \in Nat
        <5>1. Len(l) \in 1 .. Len(l) /\ Last(l) = l[Len(l)]
          <6>1. l \in Seq(Entry)
            BY <2>3, ListIs
          <6> QED BY <4>2, <6>1 DEF Last
        <5> QED BY <2>3, <5>1, ListIs
      <4> QED BY <1>2, <2>1, <4>1, <4>2, <4>3
    <3> QED BY <3>1, <3>2
  <2> HIDE DEF l, r
  <2>5. /\ Merge(l, r) \in Lists /\ Merge(l, r) # << >>
        /\ Last(Merge(l, r)).addr <= r.addr
        /\ Len(Merge(l, r)) <= Len(l) + 1
        /\ \A u \in Int : In(Merge(l, r), u) <=> In(l, u) \/ (r.addr <= u /\ u < End(r))
    BY <2>2, <2>3, <2>4, MergeStep
  <2>6. ASSUME NEW u \in Int PROVE To(k + 1, u) <=> To(k, u) \/ (r.addr <= u /\ u < End(r))
    <3>1. 1 .. k + 1 = (1 .. k) \cup {k + 1}
      OBVIOUS
    <3> QED BY <3>1 DEF r
  <2>7. \A u \in Int : In(l, u) <=> To(k, u)
    BY <1>4 DEF l
  <2>8. Len(h[k + 1]) <= k + 1
    <3>1. Len(l) \in Nat /\ Len(Merge(l, r)) \in Nat
      BY <2>3, <2>5, ListIs
    <3> QED BY <2>2, <2>3, <2>5, <3>1
  <2> HIDE DEF To
  <2> QED BY <2>1, <2>2, <2>5, <2>6, <2>7, <2>8 DEF r
<1> HIDE DEF Good
<1>5. 0 \in S
  BY <1>3
<1>6. ASSUME NEW k \in Nat, k \in S PROVE k + 1 \in S
  <2>1. k + 1 <= n => k <= n
    BY <1>2
  <2> QED BY <1>4, <1>6, <2>1
<1> HIDE DEF S
<1>7. \A k \in Nat : k \in S
  BY <1>5, <1>6, Induct
<1>8. Good(n)
  BY <1>2, <1>7 DEF S
<1> QED BY <1>1, <1>8 DEF Good, In

\* The smallest element of a set of naturals.
LEMMA MinIn ==
  ASSUME NEW t \in SUBSET Nat, t # {}
  PROVE  Min(t) \in t /\ \A y \in t : Min(t) <= y
<1>1. PICK x \in t : \A y \in t : ~ (<<y, x>> \in OpToRel(<, Nat))
  <2>1. t \subseteq Nat
    OBVIOUS
  <2> QED BY <2>1, WFMin, NatLessThanWellFounded
<1>2. ASSUME NEW y \in t PROVE x <= y
  <2>1. ~ (y < x)
    BY <1>1 DEF OpToRel
  <2> QED BY <2>1
<1> QED BY <1>2 DEF Min

\* Insertion into a sequence.
LEMMA Inserted ==
  ASSUME NEW l \in Seq(Entry), NEW i \in 1 .. Len(l), NEW r \in Entry
  PROVE  /\ InsertAt(l, i, r) \in Seq(Entry) /\ Len(InsertAt(l, i, r)) = Len(l) + 1
         /\ \A j \in 1 .. Len(l) + 1 :
              InsertAt(l, i, r)[j] = IF j < i THEN l[j] ELSE IF j = i THEN r ELSE l[j - 1]
<1> DEFINE a == SubSeq(l, 1, i - 1)
           b == SubSeq(l, i, Len(l))
           n == Len(l)
<1>1. n \in Nat /\ i \in 1 .. n /\ \A j \in 1 .. n : l[j] \in Entry
  OBVIOUS
<1>2. /\ a \in Seq(Entry) /\ Len(a) = i - 1
      /\ \A j \in 1 .. i - 1 : a[j] = l[j]
  <2>1. 1 \in Int /\ i - 1 \in Int /\ \A j \in 1 .. i - 1 : l[j] \in Entry
    BY <1>1
  <2>2. /\ a \in Seq(Entry)
        /\ Len(a) = IF 1 <= i - 1 THEN (i - 1) - 1 + 1 ELSE 0
        /\ \A j \in 1 .. (i - 1) - 1 + 1 : a[j] = l[1 + j - 1]
    BY <2>1, SubSeqProperties
  <2>3. \A j \in 1 .. i - 1 : j \in 1 .. (i - 1) - 1 + 1 /\ 1 + j - 1 = j
    BY <1>1
  <2>4. (IF 1 <= i - 1 THEN (i - 1) - 1 + 1 ELSE 0) = i - 1
    BY <1>1
  <2> HIDE DEF a
  <2> QED BY <2>2, <2>3, <2>4
<1>3. /\ b \in Seq(Entry) /\ Len(b) = n - i + 1
      /\ \A j \in 1 .. n - i + 1 : b[j] = l[i + j - 1]
  <2>1. i \in Int /\ n \in Int /\ i <= n /\ \A j \in i .. n : l[j] \in Entry
    BY <1>1
  <2> HIDE DEF n
  <2> QED BY <2>1, SubSeqProperties DEF n
<1> HIDE DEF a, b
<1> DEFINE c == a \o <<r>>
<1>4. <<r>> \in Seq(Entry) /\ Len(<<r>>) = 1 /\ <<r>>[1] = r
  OBVIOUS
<1>5. /\ c \in Seq(Entry) /\ Len(c) = i
      /\ \A j \in 1 .. i : c[j] = IF j < i THEN l[j] ELSE r
  <2>1. /\ c \in Seq(Entry) /\ Len(c) = Len(a) + Len(<<r>>)
        /\ \A j \in 1 .. Len(a) + Len(<<r>>) : c[j] = IF j <= Len(a) THEN a[j] ELSE <<r>>[j - Len(a)]
    BY <1>2, <1>4, ConcatProperties
  <2> HIDE DEF c
  <2> QED BY <1>1, <1>2, <1>4, <2>1
<1> HIDE DEF c
<1>6. /\ c \o b \in Seq(Entry) /\ Len(c \o b) = Len(c) + Len(b)
      /\ \A j \in 1 .. Len(c) + Len(b) : (c \o b)[j] = IF j <= Len(c) THEN c[j] ELSE b[j - Len(c)]
  BY <1>3, <1>5, ConcatProperties
<1>7. InsertAt(l, i, r) = c \o b
  BY DEF InsertAt, a, b, c
<1>8. Len(c) + Len(b) = n + 1 /\ \A j \in 1 .. n + 1 : j > i => b[j - i] = l[j - 1]
  <2>1. \A j \in 1 .. n + 1 : j > i => j - i \in 1 .. n - i + 1 /\ i + (j - i) - 1 = j - 1
    BY <1>1
  <2> QED BY <1>1, <1>3, <1>5, <2>1
<1> HIDE DEF n
<1>9. ASSUME NEW j \in 1 .. n + 1
      PROVE  (c \o b)[j] = IF j < i THEN l[j] ELSE IF j = i THEN r ELSE l[j - 1]
  <2>1. CASE j <= i
    BY <1>1, <1>5, <1>6, <1>8, <2>1
  <2>2. CASE j > i
    BY <1>1, <1>5, <1>6, <1>8, <2>2
  <2>3. j <= i \/ j > i
    BY <1>1
  <2> QED BY <2>1, <2>2, <2>3
<1> QED BY <1>6, <1>7, <1>8, <1>9 DEF n

\* add_mem() keeps the normal form and adds the range.
Range0 == [addr : Nat, size : Nat]

LEMMA AddMemDoes ==
  ASSUME NEW l \in Lists, NEW r \in Range0
  PROVE  /\ AddMem(l, r) \in Lists
         /\ Len(AddMem(l, r)) <= Len(l) + 1
         /\ r.size = 0 => AddMem(l, r) = l
         /\ \A u \in Int : In(AddMem(l, r), u) <=> In(l, u) \/ (r.addr <= u /\ u < End(r))
<1>0. r.addr \in Nat /\ r.size \in Nat /\ End(r) = r.addr + r.size
  BY DEF Range0, End
<1>1. CASE r.size = 0
  <2>1. AddMem(l, r) = l /\ End(r) = r.addr
    BY <1>0, <1>1 DEF AddMem
  <2>2. \A u \in Int : ~ (r.addr <= u /\ u < End(r))
    BY <1>0, <2>1
  <2>3. Len(l) \in Nat
    BY ListIs
  <2> QED BY <2>1, <2>2, <2>3
<1>2. CASE r.size # 0
  <2> DEFINE n == Len(l)
             t == {j \in 1 .. n : l[j].addr > r.addr}
             i == IF t # {} THEN Min(t) ELSE 0
             s == IF i = 0 THEN Append(l, r) ELSE InsertAt(l, i, r)
  <2>1. AddMem(l, r) = FoldLeft(Merge, << >>, s)
    BY <1>2 DEF AddMem, SelectInSeq
  <2>2. /\ l \in Seq(Entry) /\ n \in Nat
        /\ \A j \in 1 .. n : l[j].addr \in Nat /\ l[j] \in Entry
        /\ \A j, k \in 1 .. n : j < k => l[j].addr < l[k].addr
    <3>1. \A j, k \in 1 .. n : j < k => l[j].addr < l[k].addr
      <4> SUFFICES ASSUME NEW j \in 1 .. n, NEW k \in 1 .. n, j < k PROVE l[j].addr < l[k].addr
        OBVIOUS
      <4>1. End(l[j]) < l[k].addr
        BY ListIs DEF Apart
      <4>2. l[j].addr \in Nat /\ l[k].addr \in Nat /\ End(l[j]) \in Nat /\ l[j].addr < End(l[j])
        BY ListIs
      <4> QED BY <4>1, <4>2
    <3> QED BY <3>1, ListIs
  <2>3. r \in Entry
    BY <1>0, <1>2 DEF Entry, Range0
  <2>4. CASE t = {}
    <3>1. s = Append(l, r)
      BY <2>4
    <3> HIDE DEF s
    <3>2. s \in Seq(Entry) /\ Len(s) = n + 1 /\ s[n + 1] = r /\ \A j \in 1 .. n : s[j] = l[j]
      BY <2>2, <2>3, <3>1
    <3>3. \A j \in 1 .. n : l[j].addr <= r.addr
      BY <1>0, <2>2, <2>4
    <3>4. Sorted(s)
      <4> SUFFICES ASSUME NEW j \in 1 .. n + 1, NEW k \in 1 .. n + 1, j < k
                   PROVE  s[j].addr <= s[k].addr
        BY <3>2 DEF Sorted
      <4>1. j \in 1 .. n
        BY <2>2
      <4>0. k <= n \/ k = n + 1
        BY <2>2
      <4>2. k \in 1 .. n \/ k = n + 1
        BY <4>0
      <4> QED BY <2>2, <3>2, <3>3, <4>1, <4>2
    <3>5. ASSUME NEW u \in Int PROVE In(s, u) <=> In(l, u) \/ (r.addr <= u /\ u < End(r))
      <4>1. 1 .. n + 1 = (1 .. n) \cup {n + 1}
        BY <2>2
      <4> QED BY <3>2, <4>1 DEF In
    <3>6. Len(FoldLeft(Merge, << >>, s)) <= n + 1
      BY <3>2, <3>4, MergeAll
    <3> QED BY <1>2, <2>1, <3>2, <3>4, <3>5, <3>6, MergeAll
  <2>5. CASE t # {}
    <3>1. i \in t /\ (\A y \in t : i <= y) /\ i # 0
      <4>1. t \in SUBSET Nat
        OBVIOUS
      <4>2. i = Min(t)
        BY <2>5
      <4> HIDE DEF t, i
      <4>3. i \in t /\ \A y \in t : i <= y
        BY <2>5, <4>1, <4>2, MinIn
      <4> QED BY <4>3 DEF t
    <3>2. s = InsertAt(l, i, r) /\ i \in 1 .. n /\ l[i].addr > r.addr
      BY <3>1
    <3>3. \A j \in 1 .. n : j < i => l[j].addr <= r.addr
      <4>1. (\A y \in t : i <= y) /\ i \in 1 .. n
        BY <3>1
      <4> HIDE DEF i
      <4>2. ASSUME NEW j \in 1 .. n, j < i PROVE l[j].addr <= r.addr
        <5>1. j \notin t
          BY <2>2, <4>1, <4>2
        <5>2. ~ (l[j].addr > r.addr)
          BY <5>1
        <5>3. l[j].addr \in Nat
          BY <2>2
        <5> QED BY <1>0, <5>2, <5>3
      <4> QED BY <4>2
    <3> HIDE DEF s, i, t
    <3>4. /\ s \in Seq(Entry) /\ Len(s) = n + 1
          /\ \A j \in 1 .. n + 1 : s[j] = IF j < i THEN l[j] ELSE IF j = i THEN r ELSE l[j - 1]
      <4>1. l \in Seq(Entry) /\ i \in 1 .. Len(l)
        BY <2>2, <3>2
      <4>2. /\ InsertAt(l, i, r) \in Seq(Entry) /\ Len(InsertAt(l, i, r)) = Len(l) + 1
            /\ \A j \in 1 .. Len(l) + 1 :
                 InsertAt(l, i, r)[j] = IF j < i THEN l[j] ELSE IF j = i THEN r ELSE l[j - 1]
        BY <2>3, <4>1, Inserted
      <4> QED BY <3>2, <4>2
    <3>5. \A j \in 1 .. n : j > i => r.addr < l[j].addr
      BY <1>0, <2>2, <3>2
    <3>6. Sorted(s)
      <4> SUFFICES ASSUME NEW j \in 1 .. n + 1, NEW k \in 1 .. n + 1, j < k
                   PROVE  s[j].addr <= s[k].addr
        BY <3>4 DEF Sorted
      <4>1. CASE k < i
        <5>1. j \in 1 .. n /\ k \in 1 .. n /\ s[j] = l[j] /\ s[k] = l[k]
          BY <2>2, <3>2, <3>4, <4>1
        <5> QED BY <2>2, <5>1
      <4>2. CASE k = i
        <5>1. j \in 1 .. n /\ j < i /\ s[j] = l[j] /\ s[k] = r
          BY <2>2, <3>2, <3>4, <4>2
        <5> QED BY <3>3, <5>1
      <4>3. CASE k > i
        <5>1. k - 1 \in 1 .. n /\ s[k] = l[k - 1] /\ k - 1 >= i
          BY <2>2, <3>2, <3>4, <4>3
        <5>2. CASE j < i
          <6>1. j \in 1 .. n /\ s[j] = l[j] /\ j < k - 1
            BY <2>2, <3>2, <3>4, <5>1, <5>2
          <6> QED BY <2>2, <5>1, <6>1
        <5>3. CASE j = i
          <6>1. s[j] = r /\ (k - 1 = i \/ k - 1 > i)
            BY <3>2, <3>4, <5>1, <5>3
          <6>2. r.addr < l[k - 1].addr
            BY <3>2, <3>5, <5>1, <6>1
          <6> QED BY <1>0, <2>2, <5>1, <6>1, <6>2
        <5>4. CASE j > i
          <6>1. j - 1 \in 1 .. n /\ s[j] = l[j - 1] /\ j - 1 < k - 1
            BY <2>2, <3>2, <3>4, <5>4
          <6> QED BY <2>2, <5>1, <6>1
        <5>5. j < i \/ j = i \/ j > i
          BY <3>2
        <5> QED BY <5>2, <5>3, <5>4, <5>5
      <4>4. k < i \/ k = i \/ k > i
        BY <3>2
      <4> QED BY <4>1, <4>2, <4>3, <4>4
    <3>7. ASSUME NEW u \in Int PROVE In(s, u) <=> In(l, u) \/ (r.addr <= u /\ u < End(r))
      <4>1. ASSUME In(s, u) PROVE In(l, u) \/ (r.addr <= u /\ u < End(r))
        <5>1. PICK j \in 1 .. n + 1 : s[j].addr <= u /\ u < End(s[j])
          BY <3>4, <4>1 DEF In
        <5>2. s[j] = r \/ \E k \in 1 .. n : s[j] = l[k]
          BY <2>2, <3>2, <3>4
        <5> QED BY <5>1, <5>2 DEF In
      <4>2. ASSUME In(l, u) PROVE In(s, u)
        <5>1. PICK j \in 1 .. n : l[j].addr <= u /\ u < End(l[j])
          BY <4>2 DEF In
        <5>2. CASE j < i
          <6>1. j \in 1 .. n + 1 /\ s[j] = l[j]
            BY <2>2, <3>4, <5>2
          <6> QED BY <3>4, <5>1, <6>1 DEF In
        <5>3. CASE ~ (j < i)
          <6>1. j + 1 \in 1 .. n + 1 /\ ~ (j + 1 < i) /\ j + 1 # i /\ (j + 1) - 1 = j
            BY <2>2, <3>2, <5>3
          <6>2. s[j + 1] = l[j]
            BY <3>4, <6>1
          <6> QED BY <3>4, <5>1, <6>1, <6>2 DEF In
        <5> QED BY <5>2, <5>3
      <4>3. ASSUME r.addr <= u /\ u < End(r) PROVE In(s, u)
        <5>1. i \in 1 .. n + 1 /\ s[i] = r
          BY <2>2, <3>2, <3>4
        <5> QED BY <3>4, <4>3, <5>1 DEF In
      <4> QED BY <4>1, <4>2, <4>3
    <3>8. Len(FoldLeft(Merge, << >>, s)) <= n + 1
      BY <3>4, <3>6, MergeAll
    <3> QED BY <1>2, <2>1, <3>4, <3>6, <3>7, <3>8, MergeAll
  <2> QED BY <2>4, <2>5
<1> QED BY <1>1, <1>2

\* Unit u lies in range r.
Covers(r, u) == r.addr <= u /\ u < End(r)

\* What alloc_ram() leaves of an entry.
LEMMA CutDoes ==
  ASSUME NEW r \in Entry, NEW a \in Nat, NEW e \in Nat, a <= e
  PROVE  /\ Cut(r, a, e)[1] \in Range0 /\ Cut(r, a, e)[2] \in Range0
         /\ Cut(r, a, e)[2].size # 0 => r.addr < a /\ e < End(r)
         /\ \A u \in Int : Covers(Cut(r, a, e)[1], u) \/ Covers(Cut(r, a, e)[2], u)
                         <=> Covers(r, u) /\ ~ (a <= u /\ u < e)
<1> DEFINE z == End(r)
           x == IF e > z THEN e ELSE z
           s == IF a < r.addr THEN a ELSE r.addr
           c == Cut(r, a, e)
           Ok(p, q) == /\ p \in Range0 /\ q \in Range0
                       /\ q.size # 0 => r.addr < a /\ e < z
                       /\ \A u \in Int : Covers(p, u) \/ Covers(q, u)
                                       <=> r.addr <= u /\ u < z /\ ~ (a <= u /\ u < e)
<1>1. r \in Entry /\ r.addr \in Nat /\ r.size \in Nat \ {0} /\ z = r.addr + r.size /\ z \in Nat
  BY EntryIs
<1>2. Nothing \in Range0 /\ End(Nothing) = 0 /\ Nothing.addr = 0 /\ Nothing.size = 0
  BY DEF Nothing, Range0, End
<1>3. r \in Range0
  BY <1>1 DEF Entry, Range0
<1> HIDE DEF z
<1>4. CASE ~ Meets(r, a, e)
  <2>1. c = <<r, Nothing>>
    BY <1>4 DEF Cut
  <2>2. \A u \in Int : r.addr <= u /\ u < z => ~ (a <= u /\ u < e)
    BY <1>1, <1>4 DEF Meets, z
  <2>3. Ok(r, Nothing)
    BY <1>1, <1>2, <1>3, <2>2 DEF z, Covers
  <2> HIDE DEF Ok
  <2>4. Ok(c[1], c[2])
    BY <2>1, <2>3
  <2> QED BY <2>4 DEF Ok, z, Covers
<1>5. CASE Meets(r, a, e) /\ a = s /\ e = x
  <2>1. c = <<Nothing, Nothing>>
    BY <1>5 DEF Cut, z
  <2>2. a <= r.addr /\ z <= e
    BY <1>1, <1>5
  <2>3. Ok(Nothing, Nothing)
    BY <1>1, <1>2, <2>2 DEF Covers
  <2> HIDE DEF Ok
  <2>4. Ok(c[1], c[2])
    BY <2>1, <2>3
  <2> QED BY <2>4 DEF Ok, z, Covers
<1>6. CASE Meets(r, a, e) /\ a = s /\ e # x
  <2> DEFINE p == [addr |-> e, size |-> x - e]
  <2>1. c = <<p, Nothing>>
    BY <1>6 DEF Cut, z
  <2>2. a <= r.addr /\ x = z /\ e < z /\ r.addr <= e
    BY <1>1, <1>6 DEF Meets, z
  <2>3. p \in Range0 /\ p.addr = e /\ End(p) = z
    <3>1. x - e \in Nat /\ e + (x - e) = z
      BY <1>1, <2>2
    <3> HIDE DEF x
    <3> QED BY <3>1 DEF Range0, End
  <2> HIDE DEF p
  <2>4. Ok(p, Nothing)
    BY <1>1, <1>2, <2>2, <2>3 DEF Covers
  <2> HIDE DEF Ok
  <2>5. Ok(c[1], c[2])
    BY <2>1, <2>4
  <2> QED BY <2>5 DEF Ok, z, Covers
<1>7. CASE Meets(r, a, e) /\ a # s
  <2> DEFINE p == [addr |-> s, size |-> a - s]
             q == [addr |-> e, size |-> x - e]
  <2>1. c = <<p, q>>
    BY <1>7 DEF Cut, z
  <2>2. s = r.addr /\ r.addr < a /\ a <= z /\ x >= e /\ x >= z /\ x \in Nat /\ (x = e \/ x = z)
    BY <1>1, <1>7 DEF Meets, z
  <2>3. p \in Range0 /\ p.addr = r.addr /\ End(p) = a
    <3>1. a - r.addr \in Nat /\ r.addr + (a - r.addr) = a
      BY <1>1, <2>2
    <3> HIDE DEF s
    <3> QED BY <1>1, <2>2, <3>1 DEF Range0, End
  <2>4. q \in Range0 /\ q.addr = e /\ End(q) = x /\ q.size = x - e
    <3>1. x - e \in Nat /\ e + (x - e) = x
      BY <1>1, <2>2
    <3> HIDE DEF x
    <3> QED BY <3>1 DEF Range0, End
  <2> HIDE DEF p, q, x, s
  <2>5. Ok(p, q)
    <3>1. q.size # 0 => r.addr < a /\ e < z
      BY <1>1, <2>2, <2>4
    <3> QED BY <1>1, <2>2, <2>3, <2>4, <3>1 DEF Covers
  <2> HIDE DEF Ok
  <2>6. Ok(c[1], c[2])
    BY <2>1, <2>5
  <2> QED BY <2>6 DEF Ok, z, Covers
<1> QED BY <1>4, <1>5, <1>6, <1>7

\* alloc_ram()'s loop over the RAM list.
LEMMA TakeOutLoop ==
  ASSUME NEW l \in Seq(Entry), NEW a \in Nat, NEW e \in Nat, a <= e
  PROVE  \E h \in [0 .. Len(l) -> Lists] :
           /\ h[0] = << >> /\ h[Len(l)] = TakeOut(l, a, e)
           /\ \A k \in 1 .. Len(l) : h[k] = AddMem(AddMem(h[k - 1], Cut(l[k], a, e)[1]), Cut(l[k], a, e)[2])
<1> DEFINE n == Len(l)
           D == Lists
           step == [i \in 1 .. n |-> [d \in D |-> AddMem(AddMem(d, Cut(l[i], a, e)[1]), Cut(l[i], a, e)[2])]]
           It(it) == it = [t \in SUBSET DOMAIN l |-> IF t = {} THEN << >>
                                ELSE AddMem(AddMem(it[t \ {Max(t)}], Cut(l[Max(t)], a, e)[1]), Cut(l[Max(t)], a, e)[2])]
           iter == CHOOSE it : It(it)
<1>1. ASSUME NEW d \in D, NEW x \in Entry PROVE AddMem(AddMem(d, Cut(x, a, e)[1]), Cut(x, a, e)[2]) \in D
  <2>1. Cut(x, a, e)[1] \in Range0 /\ Cut(x, a, e)[2] \in Range0
    BY CutDoes
  <2> QED BY <1>1, <2>1, AddMemDoes
<1>2. DOMAIN l = 1 .. n /\ n \in Nat /\ << >> \in D /\ \A i \in 1 .. n : l[i] \in Entry
  <2>1. << >> \in D
    BY DEF Lists, Apart
  <2> HIDE DEF D
  <2> QED BY <2>1
<1> HIDE DEF n, D
<1>3. step \in [1 .. n -> [D -> D]]
  BY <1>1, <1>2
<1>4. \A i \in 1 .. n : \A d \in D : step[i][d] = AddMem(AddMem(d, Cut(l[i], a, e)[1]), Cut(l[i], a, e)[2])
  OBVIOUS
<1> HIDE DEF step
<1>5. PICK g \in [SUBSET (1 .. n) -> D] : IsGraph(g, n, << >>, step)
  BY <1>2, <1>3, FoldGraph
<1>6. ASSUME NEW t \in SUBSET (1 .. n), t # {} PROVE Max(t) \in 1 .. n /\ g[t \ {Max(t)}] \in D
  BY <1>2, <1>6, MaxIn
<1>7. It(g)
  BY <1>2, <1>4, <1>5, <1>6 DEF IsGraph
<1>8. It(iter)
  <2> HIDE DEF It
  <2> QED BY <1>7
<1>9. TakeOut(l, a, e) = iter[1 .. n]
  <2>1. TakeOut(l, a, e) = iter[DOMAIN l]
    BY DEF TakeOut, FoldLeft, MapThenFoldSet
  <2> QED BY <1>2, <2>1
<1> HIDE DEF iter
<1>10. iter[{}] = << >>
  BY <1>8
<1>11. ASSUME NEW t \in SUBSET (1 .. n), t # {}, iter[t \ {Max(t)}] \in D
       PROVE  iter[t] = step[Max(t)][iter[t \ {Max(t)}]]
  <2>1. iter[t] = AddMem(AddMem(iter[t \ {Max(t)}], Cut(l[Max(t)], a, e)[1]), Cut(l[Max(t)], a, e)[2])
    BY <1>2, <1>8, <1>11
  <2> QED BY <1>4, <1>6, <1>11, <2>1
<1>12. PICK h \in [0 .. n -> D] : Runs(h, n, << >>, step) /\ h[n] = iter[1 .. n]
  <2>1. Iterates(iter, n, D, << >>, step)
    BY <1>10, <1>11 DEF Iterates
  <2>2. Folding(iter, n, D, << >>, step)
    BY <1>2, <1>3, <2>1 DEF Folding
  <2> QED BY <2>2, FoldSteps
<1>13. ASSUME NEW k \in 1 .. n PROVE h[k] = AddMem(AddMem(h[k - 1], Cut(l[k], a, e)[1]), Cut(l[k], a, e)[2])
  <2>1. h[k - 1] \in D
    BY <1>2
  <2> QED BY <1>4, <1>12, <2>1 DEF Runs
<1> QED BY <1>9, <1>12, <1>13 DEF n, D, Runs

\* alloc_ram() takes out the block and nothing else, and needs room for one
\* more entry only where it splits one.
LEMMA TakeOutDoes ==
  ASSUME NEW l \in Lists, NEW a \in Nat, NEW e \in Nat, a <= e
  PROVE  /\ TakeOut(l, a, e) \in Lists
         /\ Len(TakeOut(l, a, e)) <= Len(l) + 1
         /\ ~ Splits(l, a, e) => Len(TakeOut(l, a, e)) <= Len(l)
         /\ \A u \in Int : In(TakeOut(l, a, e), u) <=> In(l, u) /\ ~ (a <= u /\ u < e)
<1> DEFINE n == Len(l)
<1>0. /\ l \in Seq(Entry) /\ Apart(l) /\ n \in Nat
      /\ \A i \in 1 .. n : l[i] \in Entry /\ l[i].addr \in Nat /\ End(l[i]) \in Nat
  BY ListIs
<1>1. PICK h \in [0 .. n -> Lists] :
        /\ h[0] = << >> /\ h[n] = TakeOut(l, a, e)
        /\ \A k \in 1 .. n : h[k] = AddMem(AddMem(h[k - 1], Cut(l[k], a, e)[1]), Cut(l[k], a, e)[2])
  BY <1>0, TakeOutLoop
<1> DEFINE Parts(k) == \E i \in 1 .. k : l[i].addr < a /\ e < End(l[i])
           Left(k, u) == \E i \in 1 .. k : Covers(l[i], u) /\ ~ (a <= u /\ u < e)
           Good(k) == /\ Len(h[k]) <= k + 1 /\ (~ Parts(k) => Len(h[k]) <= k)
                      /\ \A u \in Int : In(h[k], u) <=> Left(k, u)
           S == {k \in Nat : k <= n => Good(k)}
<1>3. Good(0)
  <2>1. Len(<< >>) = 0 /\ \A u \in Int : ~ In(<< >>, u)
    BY DEF In
  <2> QED BY <1>1, <2>1
<1>4. ASSUME NEW k \in Nat, k + 1 <= n, Good(k) PROVE Good(k + 1)
  <2> DEFINE r == l[k + 1]
             c1 == Cut(r, a, e)[1]
             c2 == Cut(r, a, e)[2]
             m1 == AddMem(h[k], c1)
             m2 == AddMem(m1, c2)
  <2>1. k + 1 \in 1 .. n /\ k \in 0 .. n /\ (k + 1) - 1 = k
    BY <1>0, <1>4
  <2>2. r \in Entry /\ h[k + 1] = m2 /\ h[k] \in Lists
    BY <1>0, <1>1, <2>1
  <2>3. /\ c1 \in Range0 /\ c2 \in Range0
        /\ c2.size # 0 => r.addr < a /\ e < End(r)
        /\ \A u \in Int : Covers(c1, u) \/ Covers(c2, u) <=> Covers(r, u) /\ ~ (a <= u /\ u < e)
    BY <2>2, CutDoes
  <2> HIDE DEF c1, c2
  <2>4. /\ m1 \in Lists /\ Len(m1) <= Len(h[k]) + 1
        /\ \A u \in Int : In(m1, u) <=> In(h[k], u) \/ Covers(c1, u)
    BY <2>2, <2>3, AddMemDoes DEF Covers
  <2> HIDE DEF m1
  <2>5. /\ m2 \in Lists /\ Len(m2) <= Len(m1) + 1
        /\ c2.size = 0 => m2 = m1
        /\ \A u \in Int : In(m2, u) <=> In(m1, u) \/ Covers(c2, u)
    BY <2>3, <2>4, AddMemDoes DEF Covers
  <2> HIDE DEF m2
  <2>6. Len(h[k]) \in Nat /\ Len(m1) \in Nat /\ Len(m2) \in Nat
    BY <2>2, <2>4, <2>5, ListIs
  <2>7. ASSUME c2.size # 0 PROVE ~ Parts(k) /\ Parts(k + 1)
    <3>1. r.addr < a /\ e < End(r)
      BY <2>3, <2>7
    <3>2. ASSUME NEW i \in 1 .. k PROVE ~ (l[i].addr < a /\ e < End(l[i]))
      <4>1. i \in 1 .. n /\ i < k + 1
        BY <2>1
      <4>2. End(l[i]) < r.addr
        BY <1>0, <2>1, <4>1 DEF Apart
      <4>3. End(l[i]) \in Nat /\ r.addr \in Nat
        BY <1>0, <2>1, <4>1
      <4> QED BY <3>1, <4>2, <4>3
    <3>3. k + 1 \in 1 .. k + 1
      OBVIOUS
    <3> QED BY <3>1, <3>2, <3>3
  <2>8. Parts(k) => Parts(k + 1)
    OBVIOUS
  <2>9. /\ Len(m2) <= k + 1 + 1 /\ (~ Parts(k + 1) => Len(m2) <= k + 1)
    <3> HIDE DEF Parts
    <3>1. CASE c2.size = 0
      BY <1>4, <2>4, <2>5, <2>6, <2>8, <3>1
    <3>2. CASE c2.size # 0
      BY <1>4, <2>4, <2>5, <2>6, <2>7, <3>2
    <3> QED BY <3>1, <3>2
  <2>10. ASSUME NEW u \in Int PROVE In(m2, u) <=> Left(k + 1, u)
    <3>1. 1 .. k + 1 = (1 .. k) \cup {k + 1}
      OBVIOUS
    <3>2. Left(k + 1, u) <=> Left(k, u) \/ (Covers(r, u) /\ ~ (a <= u /\ u < e))
      BY <3>1
    <3>3. In(h[k], u) <=> Left(k, u)
      BY <1>4
    <3> HIDE DEF Left
    <3> QED BY <2>3, <2>4, <2>5, <3>2, <3>3
  <2> HIDE DEF Parts, Left
  <2> QED BY <2>2, <2>9, <2>10
<1> HIDE DEF Good
<1>5. 0 \in S
  BY <1>3
<1>6. ASSUME NEW k \in Nat, k \in S PROVE k + 1 \in S
  <2>1. k + 1 <= n => k <= n
    BY <1>0
  <2> QED BY <1>4, <1>6, <2>1
<1> HIDE DEF S
<1>7. \A k \in Nat : k \in S
  BY <1>5, <1>6, Induct
<1>8. Good(n)
  BY <1>0, <1>7 DEF S
<1>9. h[n] \in Lists
  BY <1>0
<1>10. ASSUME NEW u \in Int PROVE Left(n, u) <=> In(l, u) /\ ~ (a <= u /\ u < e)
  BY DEF In, Covers
<1> QED BY <1>1, <1>8, <1>9, <1>10 DEF Good, Splits

-----------------------------------------------------------------------------
(* The avoid list and the searches                                         *)

Hole == [start : Nat, end : Nat \ {0}]
Holes == {l \in Seq(Hole) : l # << >> /\ \A i \in 1 .. Len(l) : l[i].start <= l[i].end}
InHole(l, u) == \E i \in 1 .. Len(l) : l[i].start <= u /\ u < l[i].end

\* avoid_ram() adds the range.
LEMMA AvoidRamDoes ==
  ASSUME NEW l \in Holes, NEW s \in Nat, NEW n \in Nat \ {0}
  PROVE  /\ AvoidRam(l, s, n) \in Holes
         /\ \A u \in Int : InHole(AvoidRam(l, s, n), u) <=> InHole(l, u) \/ (s <= u /\ u < s + n)
<1> DEFINE m == AvoidRam(l, s, n)
           k == Len(l)
<1>1. /\ l \in Seq(Hole) /\ k \in Nat \ {0} /\ Last(l) = l[k]
      /\ \A i \in 1 .. k : /\ l[i] \in Hole /\ l[i].start \in Nat /\ l[i].end \in Nat \ {0}
                          /\ l[i].start <= l[i].end
  <2>1. l \in Seq(Hole) /\ l # << >> /\ \A i \in 1 .. Len(l) : l[i].start <= l[i].end
    BY DEF Holes
  <2>2. k \in Nat \ {0} /\ \A i \in 1 .. k : l[i] \in Hole
    BY <2>1
  <2> QED BY <2>1, <2>2 DEF Last, Hole
<1>2. CASE Last(l).end = s
  <2> DEFINE x == [Last(l) EXCEPT !.end = @ + n]
  <2>1. x \in Hole /\ x.start = l[k].start /\ x.end = s + n /\ l[k].end = s
    <3>1. l[k] \in Hole /\ l[k].end + n \in Nat \ {0}
      BY <1>1
    <3> QED BY <1>1, <1>2, <3>1 DEF Hole
  <2> HIDE DEF x
  <2>2. m = Append(Front(l), x)
    BY <1>2 DEF AvoidRam, x
  <2>3. /\ Front(l) \in Seq(Hole) /\ Len(Front(l)) = k - 1
        /\ \A i \in 1 .. k - 1 : Front(l)[i] = l[i]
    <3>1. \A i \in 1 .. k - 1 : l[i] \in Hole
      BY <1>1
    <3>2. k \in Nat /\ k >= 1 /\ 1 \in Int /\ k - 1 \in Int
      BY <1>1
    <3>5. Front(l) = SubSeq(l, 1, k - 1)
      BY DEF Front
    <3> HIDE DEF k
    <3>3. /\ SubSeq(l, 1, k - 1) \in Seq(Hole)
          /\ Len(SubSeq(l, 1, k - 1)) = IF 1 <= k - 1 THEN (k - 1) - 1 + 1 ELSE 0
          /\ \A i \in 1 .. (k - 1) - 1 + 1 : SubSeq(l, 1, k - 1)[i] = l[1 + i - 1]
      BY <3>1, <3>2, SubSeqProperties
    <3>4. (IF 1 <= k - 1 THEN (k - 1) - 1 + 1 ELSE 0) = k - 1 /\ (k - 1) - 1 + 1 = k - 1
          /\ \A i \in 1 .. k - 1 : 1 + i - 1 = i
      BY <3>2
    <3> QED BY <3>3, <3>4, <3>5
  <2>4. /\ m \in Seq(Hole) /\ Len(m) = k /\ m[k] = x
        /\ \A i \in 1 .. k - 1 : m[i] = l[i]
    BY <1>1, <2>1, <2>2, <2>3
  <2> HIDE DEF m
  <2>5. m \in Holes
    <3>1. \A i \in 1 .. k : i \in 1 .. k - 1 \/ i = k
      BY <1>1
    <3>2. \A i \in 1 .. k : m[i].start <= m[i].end
      BY <1>1, <2>1, <2>4, <3>1
    <3>3. m # << >>
      BY <1>1, <2>4
    <3> QED BY <2>4, <3>2, <3>3 DEF Holes
  <2>6. ASSUME NEW u \in Int PROVE InHole(m, u) <=> InHole(l, u) \/ (s <= u /\ u < s + n)
    <3>1. x.start <= u /\ u < x.end <=> (l[k].start <= u /\ u < l[k].end) \/ (s <= u /\ u < s + n)
      BY <1>1, <2>1
    <3>2. InHole(m, u) <=> (\E i \in 1 .. k - 1 : m[i].start <= u /\ u < m[i].end)
                           \/ (m[k].start <= u /\ u < m[k].end)
      BY <1>1, <2>4 DEF InHole
    <3>3. InHole(l, u) <=> (\E i \in 1 .. k - 1 : l[i].start <= u /\ u < l[i].end)
                           \/ (l[k].start <= u /\ u < l[k].end)
      BY <1>1 DEF InHole
    <3> QED BY <2>4, <3>1, <3>2, <3>3
  <2> QED BY <2>5, <2>6 DEF m
<1>3. CASE Last(l).end # s
  <2> DEFINE x == [start |-> s, end |-> s + n]
  <2>1. x \in Hole /\ x.start = s /\ x.end = s + n /\ x.start <= x.end
    BY DEF Hole
  <2> HIDE DEF x
  <2>2. m = Append(l, x)
    BY <1>3 DEF AvoidRam, x
  <2>4. /\ m \in Seq(Hole) /\ Len(m) = k + 1 /\ m[k + 1] = x
        /\ \A i \in 1 .. k : m[i] = l[i]
    BY <1>1, <2>1, <2>2
  <2> HIDE DEF m
  <2>5. 1 .. k + 1 = (1 .. k) \cup {k + 1}
    BY <1>1
  <2>6. m \in Holes
    <3>1. m # << >> /\ \A i \in 1 .. k + 1 : m[i].start <= m[i].end
      BY <1>1, <2>1, <2>4, <2>5
    <3> QED BY <2>4, <3>1 DEF Holes
  <2>7. ASSUME NEW u \in Int PROVE InHole(m, u) <=> InHole(l, u) \/ (s <= u /\ u < s + n)
    BY <2>1, <2>4, <2>5 DEF InHole
  <2> QED BY <2>6, <2>7 DEF m
<1> QED BY <1>2, <1>3

\* What a search considers of an entry: nothing, or from where to where.
Spans == {<< >>} \cup (Nat \X Nat)
Within(se, u) == se # << >> /\ se[1] <= u /\ u < se[2]

LEMMA FixSizeDoes ==
  ASSUME NEW se \in Spans, NEW a \in Hole
  PROVE  /\ FixSize(se, a) \in Spans
         /\ \A u \in Int : Within(FixSize(se, a), u) => Within(se, u) /\ ~ (a.start <= u /\ u < a.end)
<1>1. a.start \in Nat /\ a.end \in Nat
  BY DEF Hole
<1>2. CASE se = << >> \/ se[1] >= a.end \/ se[2] <= a.start
  <2>1. FixSize(se, a) = se
    BY <1>2 DEF FixSize
  <2>2. CASE se = << >>
    BY <2>1, <2>2 DEF Within
  <2>3. CASE se # << >>
    <3>1. se[1] \in Nat /\ se[2] \in Nat
      BY <2>3 DEF Spans
    <3> QED BY <1>1, <1>2, <2>1, <2>3, <3>1 DEF Within
  <2> QED BY <2>2, <2>3
<1>3. CASE ~ (se = << >> \/ se[1] >= a.end \/ se[2] <= a.start)
  <2>1. se # << >> /\ se[1] \in Nat /\ se[2] \in Nat /\ se[1] < a.end /\ a.start < se[2]
    BY <1>1, <1>3 DEF Spans
  <2>2. FixSize(se, a) \in {<< >>, <<a.end, se[2]>>, <<se[1], a.start>>}
    BY <1>3 DEF FixSize
  <2>3. FixSize(se, a) = <<a.end, se[2]>> \/ FixSize(se, a) = <<se[1], a.start>> \/ FixSize(se, a) = << >>
    BY <2>2
  <2>4. CASE FixSize(se, a) = << >>
    BY <2>4 DEF Within, Spans
  <2>5. CASE FixSize(se, a) = <<a.end, se[2]>>
    BY <1>1, <2>1, <2>5 DEF Within, Spans
  <2>6. CASE FixSize(se, a) = <<se[1], a.start>>
    BY <1>1, <2>1, <2>6 DEF Within, Spans
  <2> QED BY <2>3, <2>4, <2>5, <2>6
<1> QED BY <1>2, <1>3

\* The loop over the avoid list.
LEMMA UsableLoop ==
  ASSUME NEW r \in Entry, NEW av \in Seq(Hole)
  PROVE  \E h \in [0 .. Len(av) -> Spans] :
           /\ h[0] = <<r.addr, End(r)>> /\ h[Len(av)] = Usable(r, av)
           /\ \A k \in 1 .. Len(av) : h[k] = FixSize(h[k - 1], av[k])
<1> DEFINE n == Len(av)
           D == Spans
           step == [i \in 1 .. n |-> [d \in D |-> FixSize(d, av[i])]]
           It(it) == it = [t \in SUBSET DOMAIN av |-> IF t = {} THEN <<r.addr, End(r)>>
                                ELSE FixSize(it[t \ {Max(t)}], av[Max(t)])]
           iter == CHOOSE it : It(it)
<1>1. ASSUME NEW d \in D, NEW x \in Hole PROVE FixSize(d, x) \in D
  BY <1>1, FixSizeDoes
<1>2. DOMAIN av = 1 .. n /\ n \in Nat /\ <<r.addr, End(r)>> \in D /\ \A i \in 1 .. n : av[i] \in Hole
  <2>1. <<r.addr, End(r)>> \in D
    BY EntryIs DEF Spans
  <2> HIDE DEF D
  <2> QED BY <2>1
<1> HIDE DEF n, D
<1>3. step \in [1 .. n -> [D -> D]]
  BY <1>1, <1>2
<1>4. \A i \in 1 .. n : \A d \in D : step[i][d] = FixSize(d, av[i])
  OBVIOUS
<1> HIDE DEF step
<1>5. PICK g \in [SUBSET (1 .. n) -> D] : IsGraph(g, n, <<r.addr, End(r)>>, step)
  BY <1>2, <1>3, FoldGraph
<1>6. ASSUME NEW t \in SUBSET (1 .. n), t # {} PROVE Max(t) \in 1 .. n /\ g[t \ {Max(t)}] \in D
  BY <1>2, <1>6, MaxIn
<1>7. It(g)
  BY <1>2, <1>4, <1>5, <1>6 DEF IsGraph
<1>8. It(iter)
  <2> HIDE DEF It
  <2> QED BY <1>7
<1>9. Usable(r, av) = iter[1 .. n]
  <2>1. Usable(r, av) = iter[DOMAIN av]
    BY DEF Usable, FoldLeft, MapThenFoldSet
  <2> QED BY <1>2, <2>1
<1> HIDE DEF iter
<1>10. iter[{}] = <<r.addr, End(r)>>
  BY <1>8
<1>11. ASSUME NEW t \in SUBSET (1 .. n), t # {}, iter[t \ {Max(t)}] \in D
       PROVE  iter[t] = step[Max(t)][iter[t \ {Max(t)}]]
  <2>1. iter[t] = FixSize(iter[t \ {Max(t)}], av[Max(t)])
    BY <1>2, <1>8, <1>11
  <2> QED BY <1>4, <1>6, <1>11, <2>1
<1>12. PICK h \in [0 .. n -> D] : Runs(h, n, <<r.addr, End(r)>>, step) /\ h[n] = iter[1 .. n]
  <2>1. Iterates(iter, n, D, <<r.addr, End(r)>>, step)
    BY <1>10, <1>11 DEF Iterates
  <2>2. Folding(iter, n, D, <<r.addr, End(r)>>, step)
    BY <1>2, <1>3, <2>1 DEF Folding
  <2> QED BY <2>2, FoldSteps
<1>13. ASSUME NEW k \in 1 .. n PROVE h[k] = FixSize(h[k - 1], av[k])
  <2>1. h[k - 1] \in D
    BY <1>2
  <2> QED BY <1>4, <1>12, <2>1 DEF Runs
<1> QED BY <1>9, <1>12, <1>13 DEF n, D, Runs

\* What is left of an entry is free and not avoided.
LEMMA UsableDoes ==
  ASSUME NEW r \in Entry, NEW av \in Seq(Hole)
  PROVE  /\ Usable(r, av) \in Spans
         /\ \A u \in Int : Within(Usable(r, av), u) => Covers(r, u) /\ ~ InHole(av, u)
<1> DEFINE n == Len(av)
<1>0. n \in Nat /\ \A i \in 1 .. n : av[i] \in Hole
  OBVIOUS
<1>1. PICK h \in [0 .. n -> Spans] :
        /\ h[0] = <<r.addr, End(r)>> /\ h[n] = Usable(r, av)
        /\ \A k \in 1 .. n : h[k] = FixSize(h[k - 1], av[k])
  BY UsableLoop
<1> DEFINE Met(k, u) == \E i \in 1 .. k : av[i].start <= u /\ u < av[i].end
           Good(k) == \A u \in Int : Within(h[k], u) => Covers(r, u) /\ ~ Met(k, u)
           S == {k \in Nat : k <= n => Good(k)}
<1>2. Good(0)
  BY <1>1 DEF Within, Covers
<1>3. ASSUME NEW k \in Nat, k + 1 <= n, Good(k) PROVE Good(k + 1)
  <2>1. k + 1 \in 1 .. n /\ k \in 0 .. n /\ (k + 1) - 1 = k
    BY <1>0, <1>3
  <2>2. h[k + 1] = FixSize(h[k], av[k + 1]) /\ h[k] \in Spans /\ av[k + 1] \in Hole
    BY <1>0, <1>1, <2>1
  <2>3. \A u \in Int : Within(h[k + 1], u)
          => Within(h[k], u) /\ ~ (av[k + 1].start <= u /\ u < av[k + 1].end)
    BY <2>2, FixSizeDoes
  <2>4. 1 .. k + 1 = (1 .. k) \cup {k + 1}
    OBVIOUS
  <2> QED BY <1>3, <2>3, <2>4
<1> HIDE DEF Good
<1>4. 0 \in S
  BY <1>2
<1>5. ASSUME NEW k \in Nat, k \in S PROVE k + 1 \in S
  <2>1. k + 1 <= n => k <= n
    BY <1>0
  <2> QED BY <1>3, <1>5, <2>1
<1> HIDE DEF S
<1>6. \A k \in Nat : k \in S
  BY <1>4, <1>5, Induct
<1>7. Good(n) /\ h[n] \in Spans
  BY <1>0, <1>6 DEF S
<1> QED BY <1>1, <1>7 DEF Good, InHole

\* What the alignments give.
LEMMA DivIs ==
  ASSUME NEW a \in Int, NEW k \in Nat \ {0}
  PROVE  a \div k \in Int /\ (a \div k) * k <= a /\ a < (a \div k) * k + k
OBVIOUS

LEMMA RoundDoes ==
  ASSUME NEW a \in Nat, NEW k \in Nat \ {0}
  PROVE  Round(a, k) \in Nat /\ a <= Round(a, k)
<1> DEFINE q == (a + k - 1) \div k
<1>1. q \in Int /\ q * k <= a + k - 1 /\ a + k - 1 < q * k + k
  <2>1. a + k - 1 \in Int
    OBVIOUS
  <2> QED BY <2>1, DivIs
<1>2. Round(a, k) = q * k
  BY DEF Round
<1> HIDE DEF q
<1>3. q * k \in Int
  BY <1>1
<1> QED BY <1>1, <1>2, <1>3

LEMMA TruncDoes ==
  ASSUME NEW a \in Int, NEW k \in Nat \ {0}
  PROVE  Trunc(a, k) \in Int /\ Trunc(a, k) <= a
<1> DEFINE q == a \div k
<1>1. q \in Int /\ q * k <= a
  BY DivIs
<1>2. Trunc(a, k) = q * k
  BY DEF Trunc
<1> HIDE DEF q
<1>3. q * k \in Int
  BY <1>1
<1> QED BY <1>1, <1>2, <1>3

\* A block of memory that is free and not avoided.
Fresh(l, av, s, n) == \A u \in s .. s + n - 1 : In(l, u) /\ ~ InHole(av, u)

\* find_ram() returns such a block.
LEMMA FindRamDoes ==
  ASSUME NEW l \in Lists, NEW av \in Holes, NEW size \in Nat, NEW align \in Nat \ {0},
         FindRam(l, av, size, align) # NullPaddr
  PROVE  /\ FindRam(l, av, size, align) \in Nat
         /\ Fresh(l, av, FindRam(l, av, size, align), size)
<1> DEFINE At(r) == Round(Usable(r, av)[1], align)
           Fits(r) == /\ Usable(r, av) # << >> /\ At(r) < Usable(r, av)[2]
                      /\ size <= Usable(r, av)[2] - At(r)
           Is == {k \in 1 .. Len(l) : Fits(l[k])}
           i == Min(Is)
<1>1. FindRam(l, av, size, align) = IF Is = {} THEN NullPaddr ELSE
                                    IF i = 0 THEN NullPaddr ELSE At(l[i])
  BY DEF FindRam, SelectInSeq
<1> HIDE DEF At, Is, i
<1>2. Is # {} /\ FindRam(l, av, size, align) = At(l[i])
  BY <1>1
<1>3. i \in Is
  <2>1. Is \in SUBSET (1 .. Len(l))
    BY DEF Is
  <2>2. Len(l) \in Nat
    BY DEF Lists
  <2> QED BY <1>2, <2>1, <2>2, MinIn DEF i
<1> USE DEF At, Is
<1>4. /\ i \in 1 .. Len(l) /\ l[i] \in Entry /\ av \in Seq(Hole)
      /\ Usable(l[i], av) # << >> /\ At(l[i]) < Usable(l[i], av)[2]
      /\ size <= Usable(l[i], av)[2] - At(l[i])
  BY <1>3, ListIs DEF Holes
<1> DEFINE se == Usable(l[i], av)
<1>5. /\ se \in Spans
      /\ \A u \in Int : Within(se, u) => Covers(l[i], u) /\ ~ InHole(av, u)
  BY <1>4, UsableDoes
<1>6. se # << >> /\ se[1] \in Nat /\ se[2] \in Nat
  BY <1>4, <1>5 DEF Spans
<1> DEFINE a == Round(se[1], align)
<1>7. a \in Nat /\ se[1] <= a /\ size <= se[2] - a
  BY <1>4, <1>6, RoundDoes
<1>8. FindRam(l, av, size, align) = a
  BY <1>2
<1> HIDE DEF se, a
<1>9. ASSUME NEW u \in a .. a + size - 1 PROVE In(l, u) /\ ~ InHole(av, u)
  <2>1. u \in Int /\ Within(se, u)
    BY <1>6, <1>7 DEF Within
  <2> QED BY <1>4, <1>5, <2>1 DEF In, Covers
<1> QED BY <1>7, <1>8, <1>9 DEF Fresh

Tops == [top : Int, stop : BOOLEAN]
Start == [top |-> 0, stop |-> FALSE]

TopArgs(size, align, limit) == size \in Int /\ align \in Nat /\ limit \in Int
TopOf(l, av, size, align, limit) ==
  FoldLeft(LAMBDA t, r : HigherIn(t, r, av, size, align, limit), Start, l)

\* What one entry does to the search from the top: nothing, or it gives a
\* place within its usable part, below the limit.
LEMMA HigherInDoes ==
  ASSUME NEW t \in Tops, NEW r \in Entry, NEW av \in Seq(Hole), NEW size \in Int,
         NEW align \in Nat, NEW limit \in Int
  PROVE  LET m == HigherIn(t, r, av, size, align, limit)
             se == Usable(r, av)
         IN /\ m \in Tops
            /\ \/ m.top = t.top
               \/ se # << >> /\ se[1] <= m.top /\ m.top + size <= se[2]
<1> DEFINE m == HigherIn(t, r, av, size, align, limit)
           se == Usable(r, av)
           chk == IF align = 0 THEN se[2] - size ELSE Trunc(se[2] - size, align)
<1>1. se \in Spans
  BY UsableDoes
<1>2. CASE t.stop \/ se = << >>
  BY <1>2 DEF HigherIn
<1>3. CASE ~ (t.stop \/ se = << >>)
  <2>1. se # << >> /\ se[1] \in Nat /\ se[2] \in Nat
    BY <1>1, <1>3 DEF Spans
  <2>2. chk \in Int /\ chk <= se[2] - size
    <3>1. se[2] - size \in Int
      BY <2>1
    <3>2. align = 0 => chk = se[2] - size
      OBVIOUS
    <3>3. align # 0 => chk = Trunc(se[2] - size, align)
      OBVIOUS
    <3>4. align # 0 => Trunc(se[2] - size, align) \in Int /\ Trunc(se[2] - size, align) <= se[2] - size
      BY <3>1, TruncDoes
    <3> HIDE DEF se, chk
    <3> QED BY <3>1, <3>2, <3>3, <3>4
  <2>3. m = IF se[2] - se[1] < size \/ chk < se[1] \/ chk <= t.top THEN t
            ELSE IF limit = NullPaddr \/ chk + size < limit
                 THEN [top |-> chk, stop |-> FALSE]
            ELSE [top |-> IF limit - size < se[1] THEN t.top ELSE limit - size, stop |-> TRUE]
    BY <1>3 DEF HigherIn
  <2>4. t.top \in Int
    BY DEF Tops
  <2> HIDE DEF m, se, chk
  <2>5. CASE m = t
    BY <2>5 DEF m
  <2>6. CASE ~ (se[2] - se[1] < size \/ chk < se[1] \/ chk <= t.top) /\ m = [top |-> chk, stop |-> FALSE]
    <3>1. m \in Tops /\ m.top = chk
      BY <2>2, <2>6 DEF Tops
    <3> QED BY <2>1, <2>2, <2>4, <2>6, <3>1 DEF m, se
  <2>7. CASE /\ ~ (se[2] - se[1] < size \/ chk < se[1] \/ chk <= t.top)
             /\ limit <= chk + size
             /\ m = [top |-> IF limit - size < se[1] THEN t.top ELSE limit - size, stop |-> TRUE]
    <3>1. limit - size \in Int /\ limit <= se[2]
      BY <2>1, <2>2, <2>7
    <3>2. m \in Tops /\ m.top = IF limit - size < se[1] THEN t.top ELSE limit - size
      BY <2>4, <2>7, <3>1 DEF Tops
    <3>3. m.top = t.top \/ (se[1] <= m.top /\ m.top + size <= se[2])
      BY <2>1, <2>4, <3>1, <3>2
    <3> QED BY <2>1, <3>2, <3>3 DEF m, se
  <2> QED BY <2>2, <2>3, <2>5, <2>6, <2>7
<1> QED BY <1>2, <1>3

LEMMA HigherInTops ==
  ASSUME NEW av \in Seq(Hole), NEW size \in Int, NEW align \in Nat, NEW limit \in Int,
         NEW t \in Tops, NEW r \in Entry
  PROVE  HigherIn(t, r, av, size, align, limit) \in Tops
BY HigherInDoes

\* The search from the top, entry by entry.
LEMMA TopLoop ==
  ASSUME NEW l \in Seq(Entry), NEW av \in Seq(Hole), NEW size, NEW align, NEW limit, TopArgs(size, align, limit)
  PROVE  \E h \in [0 .. Len(l) -> Tops] :
           /\ h[0] = Start /\ h[Len(l)] = TopOf(l, av, size, align, limit)
           /\ \A k \in 1 .. Len(l) : h[k] = HigherIn(h[k - 1], l[k], av, size, align, limit)
<1> DEFINE n == Len(l)
           D == Tops
           step == [i \in 1 .. n |-> [d \in D |-> HigherIn(d, l[i], av, size, align, limit)]]
           It(it) == it = [t \in SUBSET DOMAIN l |-> IF t = {} THEN Start
                                ELSE HigherIn(it[t \ {Max(t)}], l[Max(t)], av, size, align, limit)]
           iter == CHOOSE it : It(it)
<1>1. ASSUME NEW d \in D, NEW x \in Entry PROVE HigherIn(d, x, av, size, align, limit) \in D
  BY <1>1, HigherInTops DEF TopArgs
<1>2. DOMAIN l = 1 .. n /\ n \in Nat /\ Start \in D /\ \A i \in 1 .. n : l[i] \in Entry
  <2>1. Start \in D
    BY DEF Tops, Start
  <2> HIDE DEF D
  <2> QED BY <2>1
<1> HIDE DEF n, D
<1>3. step \in [1 .. n -> [D -> D]]
  BY <1>1, <1>2
<1>4. \A i \in 1 .. n : \A d \in D : step[i][d] = HigherIn(d, l[i], av, size, align, limit)
  OBVIOUS
<1> HIDE DEF step
<1>5. PICK g \in [SUBSET (1 .. n) -> D] : IsGraph(g, n, Start, step)
  BY <1>2, <1>3, FoldGraph
<1>6. ASSUME NEW t \in SUBSET (1 .. n), t # {} PROVE Max(t) \in 1 .. n /\ g[t \ {Max(t)}] \in D
  BY <1>2, <1>6, MaxIn
<1>7. It(g)
  BY <1>2, <1>4, <1>5, <1>6 DEF IsGraph
<1>8. It(iter)
  <2> HIDE DEF It
  <2> QED BY <1>7
<1>9. TopOf(l, av, size, align, limit) = iter[1 .. n]
  <2>1. TopOf(l, av, size, align, limit) = iter[DOMAIN l]
    BY DEF TopOf, FoldLeft, MapThenFoldSet
  <2> QED BY <1>2, <2>1
<1> HIDE DEF iter
<1>10. iter[{}] = Start
  BY <1>8
<1>11. ASSUME NEW t \in SUBSET (1 .. n), t # {}, iter[t \ {Max(t)}] \in D
       PROVE  iter[t] = step[Max(t)][iter[t \ {Max(t)}]]
  <2>1. iter[t] = HigherIn(iter[t \ {Max(t)}], l[Max(t)], av, size, align, limit)
    BY <1>2, <1>8, <1>11
  <2> QED BY <1>4, <1>6, <1>11, <2>1
<1>12. PICK h \in [0 .. n -> D] : Runs(h, n, Start, step) /\ h[n] = iter[1 .. n]
  <2>1. Iterates(iter, n, D, Start, step)
    BY <1>10, <1>11 DEF Iterates
  <2>2. Folding(iter, n, D, Start, step)
    BY <1>2, <1>3, <2>1 DEF Folding
  <2> QED BY <2>2, FoldSteps
<1>13. ASSUME NEW k \in 1 .. n PROVE h[k] = HigherIn(h[k - 1], l[k], av, size, align, limit)
  <2>1. h[k - 1] \in D
    BY <1>2
  <2> QED BY <1>4, <1>12, <2>1 DEF Runs
<1> QED BY <1>9, <1>12, <1>13 DEF n, D, Runs


\* find_top_ram() returns a block of memory that is free and not avoided.
LEMMA FindTopRamDoes ==
  ASSUME NEW l \in Lists, NEW av \in Holes, NEW req \in Nat, NEW align \in Nat,
         NEW page \in Nat \ {0}, NEW limit \in Int,
         FindTopRam(l, av, req, align, page, limit) # NullPaddr
  PROVE  /\ FindTopRam(l, av, req, align, page, limit) \in Nat
         /\ Fresh(l, av, FindTopRam(l, av, req, align, page, limit), req)
<1> DEFINE n == Len(l)
           size == Round(req, page)
           a == FindTopRam(l, av, req, align, page, limit)
<1>0. /\ l \in Seq(Entry) /\ n \in Nat /\ av \in Seq(Hole)
      /\ \A i \in 1 .. n : l[i] \in Entry
  BY ListIs DEF Holes
<1>1. size \in Nat /\ size \in Int /\ req <= size
  BY RoundDoes
<1>2. a = TopOf(l, av, size, align, limit).top /\ a # 0
  <2> HIDE DEF size
  <2> QED BY DEF FindTopRam, TopOf, Start, size
<1> HIDE DEF size, a
<1>3. PICK h \in [0 .. n -> Tops] :
        /\ h[0] = Start /\ h[n] = TopOf(l, av, size, align, limit)
        /\ \A k \in 1 .. n : h[k] = HigherIn(h[k - 1], l[k], av, size, align, limit)
  <2>1. TopArgs(size, align, limit)
    BY <1>1 DEF TopArgs
  <2> QED BY <1>0, <2>1, TopLoop
<1> DEFINE Good(k) == h[k].top = 0 \/ (h[k].top \in Nat /\ Fresh(l, av, h[k].top, req))
           S == {k \in Nat : k <= n => Good(k)}
<1>4. Good(0)
  BY <1>3 DEF Start
<1>5. ASSUME NEW k \in Nat, k + 1 <= n, Good(k) PROVE Good(k + 1)
  <2> DEFINE se == Usable(l[k + 1], av)
             top == h[k + 1].top
  <2>1. k + 1 \in 1 .. n /\ k \in 0 .. n /\ (k + 1) - 1 = k
    BY <1>0, <1>5
  <2>2. l[k + 1] \in Entry /\ h[k] \in Tops /\ h[k + 1] = HigherIn(h[k], l[k + 1], av, size, align, limit)
    BY <1>0, <1>3, <2>1
  <2>3. h[k + 1] \in Tops /\ \/ h[k + 1].top = h[k].top
                             \/ se # << >> /\ se[1] <= h[k + 1].top /\ h[k + 1].top + size <= se[2]
    <3>1. ASSUME NEW t \in Tops, NEW r \in Entry
          PROVE  LET m == HigherIn(t, r, av, size, align, limit)
                     s == Usable(r, av)
                 IN /\ m \in Tops
                    /\ \/ m.top = t.top
                       \/ s # << >> /\ s[1] <= m.top /\ m.top + size <= s[2]
      BY <1>0, <1>1, HigherInDoes, Zenon
    <3> QED BY <2>2, <3>1
  <2>4. CASE h[k + 1].top = h[k].top
    BY <1>5, <2>4
  <2>5. CASE se # << >> /\ se[1] <= top /\ top + size <= se[2]
    <3>1. se \in Spans /\ \A u \in Int : Within(se, u) => Covers(l[k + 1], u) /\ ~ InHole(av, u)
      BY <1>0, <2>2, UsableDoes
    <3>2. se[1] \in Nat /\ se[2] \in Nat /\ top \in Int
      BY <2>3, <2>5, <3>1 DEF Spans, Tops
    <3> HIDE DEF se, top
    <3>3. top \in Nat
      BY <2>5, <3>2
    <3>4. ASSUME NEW u \in top .. top + req - 1 PROVE In(l, u) /\ ~ InHole(av, u)
      <4>1. u \in Int /\ Within(se, u)
        BY <1>1, <2>5, <3>2 DEF Within
      <4> QED BY <2>1, <3>1, <4>1 DEF In, Covers
    <3> QED BY <3>3, <3>4 DEF Fresh, top
  <2> QED BY <2>3, <2>4, <2>5
<1> HIDE DEF Good
<1>6. 0 \in S
  BY <1>4
<1>7. ASSUME NEW k \in Nat, k \in S PROVE k + 1 \in S
  <2>1. k + 1 <= n => k <= n
    BY <1>0
  <2> QED BY <1>5, <1>7, <2>1
<1> HIDE DEF S
<1>8. \A k \in Nat : k \in S
  BY <1>6, <1>7, Induct
<1>9. Good(n)
  BY <1>0, <1>8 DEF S
<1> QED BY <1>2, <1>3, <1>9 DEF Good, a

-----------------------------------------------------------------------------
(* The entries of the address space section                                *)

As == [start : Int, end : Int]
AsCovers(x, u) == x.start <= u /\ u <= x.end
AsIn(l, u) == \E i \in 1 .. Len(l) : AsCovers(l[i], u)
Ints(a, b) == a \in Int /\ b \in Int

LEMMA AppendAs ==
  ASSUME NEW l \in Seq(As), NEW x \in As
  PROVE  /\ Append(l, x) \in Seq(As)
         /\ \A u : AsIn(Append(l, x), u) <=> AsIn(l, u) \/ AsCovers(x, u)
<1> DEFINE n == Len(l)
           m == Append(l, x)
<1>1. /\ m \in Seq(As) /\ Len(m) = n + 1 /\ n \in Nat /\ m[n + 1] = x
      /\ \A i \in 1 .. n : m[i] = l[i]
  OBVIOUS
<1> HIDE DEF m
<1>2. 1 .. n + 1 = (1 .. n) \cup {n + 1}
  BY <1>1
<1>3. ASSUME NEW u PROVE AsIn(m, u) <=> AsIn(l, u) \/ AsCovers(x, u)
  BY <1>1, <1>2 DEF AsIn
<1> QED BY <1>1, <1>3 DEF m

\* What is left in place of an entry.
Heads(l, a, b) == [i \in 1 .. Len(l) |-> Head1(l[i], a, b)]

LEMMA HeadIs ==
  ASSUME NEW x \in As, NEW a \in Int, NEW b \in Int
  PROVE  Head1(x, a, b) \in As
<1>1. [x EXCEPT !.start = b + 1] \in As /\ [x EXCEPT !.end = a - 1] \in As
  BY DEF As
<1> QED BY <1>1 DEF Head1

LEMMA HeadsAre ==
  ASSUME NEW l \in Seq(As), NEW a, NEW b, Ints(a, b)
  PROVE  /\ Heads(l, a, b) \in Seq(As) /\ Len(Heads(l, a, b)) = Len(l)
         /\ \A i \in 1 .. Len(l) : Heads(l, a, b)[i] = Head1(l[i], a, b)
<1>1. Len(l) \in Nat /\ \A i \in 1 .. Len(l) : l[i] \in As
  OBVIOUS
<1>2. \A i \in 1 .. Len(l) : Head1(l[i], a, b) \in As
  BY <1>1, HeadIs DEF Ints
<1> QED BY <1>1, <1>2 DEF Heads

LEMMA TailIs ==
  ASSUME NEW a, NEW b, Ints(a, b), NEW acc \in Seq(As), NEW x \in As
  PROVE  Tail1(acc, x, a, b) \in Seq(As)
<1>1. [start |-> b + 1, end |-> x.end] \in As
  BY DEF As, Ints
<1> QED BY <1>1 DEF Tail1

\* The two parts that are left of an entry.
LEMMA HeadDoes ==
  ASSUME NEW x \in As, NEW a, NEW b, Ints(a, b), a <= b + 1, NEW acc \in Seq(As), NEW u \in Int,
         ~ (Overlaps(x, a, b) /\ a <= x.start /\ x.end <= b)
  PROVE  /\ AsCovers(Head1(x, a, b), u) => AsCovers(x, u) /\ ~ (a <= u /\ u <= b)
         /\ AsIn(Tail1(acc, x, a, b), u) => AsIn(acc, u) \/ (AsCovers(x, u) /\ ~ (a <= u /\ u <= b))
         /\ AsIn(acc, u) => AsIn(Tail1(acc, x, a, b), u)
         /\ AsCovers(x, u) /\ ~ (a <= u /\ u <= b)
              => AsCovers(Head1(x, a, b), u) \/ AsIn(Tail1(acc, x, a, b), u)
<1> DEFINE y == [start |-> b + 1, end |-> x.end]
           h == Head1(x, a, b)
           t == Tail1(acc, x, a, b)
<1>1. a \in Int /\ b \in Int /\ x.start \in Int /\ x.end \in Int
  BY DEF As, Ints
<1>2. y \in As /\ y.start = b + 1 /\ y.end = x.end
  BY <1>1 DEF As
<1> HIDE DEF y
<1>3. AsIn(Append(acc, y), u) <=> AsIn(acc, u) \/ AsCovers(y, u)
  BY <1>2, AppendAs
<1>4. t = IF x.start < a /\ b < x.end THEN Append(acc, y) ELSE acc
  BY DEF Tail1, y
<1>5. AsIn(t, u) <=> AsIn(acc, u) \/ (x.start < a /\ b < x.end /\ AsCovers(y, u))
  BY <1>3, <1>4
<1> HIDE DEF t
<1>6. AsCovers(y, u) <=> b + 1 <= u /\ u <= x.end
  BY <1>2 DEF AsCovers
<1>7. AsCovers(h, u) <=> IF ~ (x.start <= b /\ a <= x.end) THEN x.start <= u /\ u <= x.end
                         ELSE IF a <= x.start THEN b + 1 <= u /\ u <= x.end
                         ELSE x.start <= u /\ u <= a - 1
  <2>1. CASE ~ (x.start <= b /\ a <= x.end)
    BY <2>1 DEF Head1, Overlaps, AsCovers
  <2>2. CASE (x.start <= b /\ a <= x.end) /\ a <= x.start
    <3>1. h = [x EXCEPT !.start = b + 1]
      BY <2>2 DEF Head1, Overlaps
    <3>2. h.start = b + 1 /\ h.end = x.end
      BY <3>1 DEF As
    <3> QED BY <2>2, <3>2 DEF AsCovers
  <2>3. CASE (x.start <= b /\ a <= x.end) /\ ~ (a <= x.start)
    <3>1. h = [x EXCEPT !.end = a - 1]
      BY <2>3 DEF Head1, Overlaps
    <3>2. h.start = x.start /\ h.end = a - 1
      BY <3>1 DEF As
    <3> QED BY <2>3, <3>2 DEF AsCovers
  <2> QED BY <2>1, <2>2, <2>3
<1> HIDE DEF h
<1>8. AsCovers(x, u) <=> x.start <= u /\ u <= x.end
  BY DEF AsCovers
<1>9. ~ (x.start <= b /\ a <= x.end /\ a <= x.start /\ x.end <= b)
  BY DEF Overlaps
<1> QED BY <1>1, <1>5, <1>6, <1>7, <1>8, <1>9 DEF h, t

\* The piece of a free range within a "ram" entry.
LEMMA PieceDoes ==
  ASSUME NEW acc \in Seq(As), NEW r \in Entry, NEW x \in As
  PROVE  /\ AddPiece(acc, x, r) \in Seq(As)
         /\ \A u \in Int : AsIn(AddPiece(acc, x, r), u)
                             <=> AsIn(acc, u) \/ (AsCovers(x, u) /\ Covers(r, u))
<1> DEFINE lo == IF x.start > r.addr THEN x.start ELSE r.addr
           hi == IF x.end < End(r) - 1 THEN x.end ELSE End(r) - 1
           y == [start |-> lo, end |-> hi]
           m == AddPiece(acc, x, r)
<1>1. r.addr \in Int /\ End(r) \in Int /\ x.start \in Int /\ x.end \in Int
  BY EntryIs DEF As
<1>2. lo \in Int /\ hi \in Int
  BY <1>1
<1>3. \A u \in Int : lo <= u /\ u <= hi <=> /\ x.start <= u /\ u <= x.end
                                            /\ r.addr <= u /\ u < End(r)
  BY <1>1
<1> HIDE DEF lo, hi
<1>4. y \in As /\ y.start = lo /\ y.end = hi
  BY <1>2 DEF As
<1> HIDE DEF y
<1>5. m = IF Overlaps(x, r.addr, End(r) - 1) THEN Append(acc, y) ELSE acc
  BY DEF AddPiece, y, lo, hi
<1>6. CASE Overlaps(x, r.addr, End(r) - 1)
  <2>1. m = Append(acc, y)
    BY <1>5, <1>6
  <2>2. m \in Seq(As) /\ \A u : AsIn(m, u) <=> AsIn(acc, u) \/ AsCovers(y, u)
    BY <1>4, <2>1, AppendAs
  <2> QED BY <1>3, <1>4, <2>2 DEF AsCovers, Covers
<1>7. CASE ~ Overlaps(x, r.addr, End(r) - 1)
  <2>1. m = acc
    BY <1>5, <1>7
  <2>2. ~ (x.start <= End(r) - 1 /\ r.addr <= x.end)
    BY <1>7 DEF Overlaps
  <2>3. ASSUME NEW u \in Int PROVE ~ (AsCovers(x, u) /\ Covers(r, u))
    BY <1>1, <2>2 DEF AsCovers, Covers
  <2> QED BY <2>1, <2>3
<1> QED BY <1>6, <1>7

LEMMA PieceIs ==
  ASSUME NEW r \in Entry, NEW acc \in Seq(As), NEW x \in As
  PROVE  AddPiece(acc, x, r) \in Seq(As)
BY PieceDoes


\* The loop that adds the parts behind the block.
LEMMA TailLoop ==
  ASSUME NEW l \in Seq(As), NEW a, NEW b, Ints(a, b)
  PROVE  \E h \in [0 .. Len(l) -> Seq(As)] :
           /\ h[0] = Heads(l, a, b) /\ h[Len(l)] = TakeOutAs(l, a, b)
           /\ \A k \in 1 .. Len(l) : h[k] = Tail1(h[k - 1], l[k], a, b)
<1> DEFINE n == Len(l)
           D == Seq(As)
           step == [i \in 1 .. n |-> [d \in D |-> Tail1(d, l[i], a, b)]]
           It(it) == it = [t \in SUBSET DOMAIN l |-> IF t = {} THEN Heads(l, a, b)
                                ELSE Tail1(it[t \ {Max(t)}], l[Max(t)], a, b)]
           iter == CHOOSE it : It(it)
<1>1. ASSUME NEW d \in D, NEW x \in As PROVE Tail1(d, x, a, b) \in D
  BY <1>1, TailIs
<1>2. DOMAIN l = 1 .. n /\ n \in Nat /\ Heads(l, a, b) \in D /\ \A i \in 1 .. n : l[i] \in As
  <2>1. Heads(l, a, b) \in D
    BY HeadsAre
  <2> HIDE DEF D
  <2> QED BY <2>1
<1> HIDE DEF n, D
<1>3. step \in [1 .. n -> [D -> D]]
  BY <1>1, <1>2
<1>4. \A i \in 1 .. n : \A d \in D : step[i][d] = Tail1(d, l[i], a, b)
  OBVIOUS
<1> HIDE DEF step
<1>5. PICK g \in [SUBSET (1 .. n) -> D] : IsGraph(g, n, Heads(l, a, b), step)
  BY <1>2, <1>3, FoldGraph
<1>6. ASSUME NEW t \in SUBSET (1 .. n), t # {} PROVE Max(t) \in 1 .. n /\ g[t \ {Max(t)}] \in D
  BY <1>2, <1>6, MaxIn
<1>7. It(g)
  BY <1>2, <1>4, <1>5, <1>6 DEF IsGraph
<1>8. It(iter)
  <2> HIDE DEF It
  <2> QED BY <1>7
<1>9. TakeOutAs(l, a, b) = iter[1 .. n]
  <2>1. TakeOutAs(l, a, b) = iter[DOMAIN l]
    BY DEF TakeOutAs, Heads, FoldLeft, MapThenFoldSet
  <2> QED BY <1>2, <2>1
<1> HIDE DEF iter
<1>10. iter[{}] = Heads(l, a, b)
  BY <1>8
<1>11. ASSUME NEW t \in SUBSET (1 .. n), t # {}, iter[t \ {Max(t)}] \in D
       PROVE  iter[t] = step[Max(t)][iter[t \ {Max(t)}]]
  <2>1. iter[t] = Tail1(iter[t \ {Max(t)}], l[Max(t)], a, b)
    BY <1>2, <1>8, <1>11
  <2> QED BY <1>4, <1>6, <1>11, <2>1
<1>12. PICK h \in [0 .. n -> D] : Runs(h, n, Heads(l, a, b), step) /\ h[n] = iter[1 .. n]
  <2>1. Iterates(iter, n, D, Heads(l, a, b), step)
    BY <1>10, <1>11 DEF Iterates
  <2>2. Folding(iter, n, D, Heads(l, a, b), step)
    BY <1>2, <1>3, <2>1 DEF Folding
  <2> QED BY <2>2, FoldSteps
<1>13. ASSUME NEW k \in 1 .. n PROVE h[k] = Tail1(h[k - 1], l[k], a, b)
  <2>1. h[k - 1] \in D
    BY <1>2
  <2> QED BY <1>4, <1>12, <2>1 DEF Runs
<1> QED BY <1>9, <1>12, <1>13 DEF n, D, Runs


\* The loop over the "ram" entries.
LEMMA PieceLoop ==
  ASSUME NEW p \in Seq(As), NEW r \in Entry, NEW s \in Seq(As)
  PROVE  \E h \in [0 .. Len(s) -> Seq(As)] :
           /\ h[0] = p /\ h[Len(s)] = AddContaining(p, r, s)
           /\ \A k \in 1 .. Len(s) : h[k] = AddPiece(h[k - 1], s[k], r)
<1> DEFINE n == Len(s)
           D == Seq(As)
           step == [i \in 1 .. n |-> [d \in D |-> AddPiece(d, s[i], r)]]
           It(it) == it = [t \in SUBSET DOMAIN s |-> IF t = {} THEN p
                                ELSE AddPiece(it[t \ {Max(t)}], s[Max(t)], r)]
           iter == CHOOSE it : It(it)
<1>1. ASSUME NEW d \in D, NEW x \in As PROVE AddPiece(d, x, r) \in D
  BY <1>1, PieceIs
<1>2. DOMAIN s = 1 .. n /\ n \in Nat /\ p \in D /\ \A i \in 1 .. n : s[i] \in As
  <2>1. p \in D
    OBVIOUS
  <2> HIDE DEF D
  <2> QED BY <2>1
<1> HIDE DEF n, D
<1>3. step \in [1 .. n -> [D -> D]]
  BY <1>1, <1>2
<1>4. \A i \in 1 .. n : \A d \in D : step[i][d] = AddPiece(d, s[i], r)
  OBVIOUS
<1> HIDE DEF step
<1>5. PICK g \in [SUBSET (1 .. n) -> D] : IsGraph(g, n, p, step)
  BY <1>2, <1>3, FoldGraph
<1>6. ASSUME NEW t \in SUBSET (1 .. n), t # {} PROVE Max(t) \in 1 .. n /\ g[t \ {Max(t)}] \in D
  BY <1>2, <1>6, MaxIn
<1>7. It(g)
  BY <1>2, <1>4, <1>5, <1>6 DEF IsGraph
<1>8. It(iter)
  <2> HIDE DEF It
  <2> QED BY <1>7
<1>9. AddContaining(p, r, s) = iter[1 .. n]
  <2>1. AddContaining(p, r, s) = iter[DOMAIN s]
    BY DEF AddContaining, FoldLeft, MapThenFoldSet
  <2> QED BY <1>2, <2>1
<1> HIDE DEF iter
<1>10. iter[{}] = p
  BY <1>8
<1>11. ASSUME NEW t \in SUBSET (1 .. n), t # {}, iter[t \ {Max(t)}] \in D
       PROVE  iter[t] = step[Max(t)][iter[t \ {Max(t)}]]
  <2>1. iter[t] = AddPiece(iter[t \ {Max(t)}], s[Max(t)], r)
    BY <1>2, <1>8, <1>11
  <2> QED BY <1>4, <1>6, <1>11, <2>1
<1>12. PICK h \in [0 .. n -> D] : Runs(h, n, p, step) /\ h[n] = iter[1 .. n]
  <2>1. Iterates(iter, n, D, p, step)
    BY <1>10, <1>11 DEF Iterates
  <2>2. Folding(iter, n, D, p, step)
    BY <1>2, <1>3, <2>1 DEF Folding
  <2> QED BY <2>2, FoldSteps
<1>13. ASSUME NEW k \in 1 .. n PROVE h[k] = AddPiece(h[k - 1], s[k], r)
  <2>1. h[k - 1] \in D
    BY <1>2
  <2> QED BY <1>4, <1>12, <2>1 DEF Runs
<1> QED BY <1>9, <1>12, <1>13 DEF n, D, Runs



\* alloc_ram() takes its block out of the "sysram" entries and nothing else.
LEMMA TakeOutAsDoes ==
  ASSUME NEW l \in Seq(As), NEW a, NEW b, Ints(a, b), a <= b + 1, ~ WholeAs(l, a, b)
  PROVE  /\ TakeOutAs(l, a, b) \in Seq(As)
         /\ \A u \in Int : AsIn(TakeOutAs(l, a, b), u) <=> AsIn(l, u) /\ ~ (a <= u /\ u <= b)
<1> DEFINE n == Len(l)
           H == Heads(l, a, b)
           Off(u) == ~ (a <= u /\ u <= b)
<1>0. n \in Nat /\ \A i \in 1 .. n : l[i] \in As
  OBVIOUS
<1>1. H \in Seq(As) /\ Len(H) = n /\ \A i \in 1 .. n : H[i] = Head1(l[i], a, b)
  BY HeadsAre
<1>2. PICK h \in [0 .. n -> Seq(As)] :
        /\ h[0] = H /\ h[n] = TakeOutAs(l, a, b)
        /\ \A k \in 1 .. n : h[k] = Tail1(h[k - 1], l[k], a, b)
  BY TailLoop
<1>3. ASSUME NEW i \in 1 .. n, NEW p \in Seq(As), NEW u \in Int
      PROVE  /\ AsCovers(H[i], u) => AsCovers(l[i], u) /\ Off(u)
             /\ AsIn(Tail1(p, l[i], a, b), u) => AsIn(p, u) \/ (AsCovers(l[i], u) /\ Off(u))
             /\ AsIn(p, u) => AsIn(Tail1(p, l[i], a, b), u)
             /\ AsCovers(l[i], u) /\ Off(u) => AsCovers(H[i], u) \/ AsIn(Tail1(p, l[i], a, b), u)
  <2>1. ~ (Overlaps(l[i], a, b) /\ a <= l[i].start /\ l[i].end <= b)
    BY DEF WholeAs
  <2>2. l[i] \in As /\ H[i] = Head1(l[i], a, b)
    BY <1>0, <1>1
  <2> QED BY <2>1, <2>2, HeadDoes
<1> HIDE DEF H, Off
<1> DEFINE Good(k) == \A u \in Int :
             /\ AsIn(h[k], u) => AsIn(l, u) /\ Off(u)
             /\ AsIn(H, u) => AsIn(h[k], u)
             /\ \A i \in 1 .. k : AsCovers(l[i], u) /\ Off(u) => AsIn(h[k], u)
           S == {k \in Nat : k <= n => Good(k)}
<1>4. Good(0)
  <2>1. \A u \in Int : AsIn(H, u) => AsIn(l, u) /\ Off(u)
    BY <1>1, <1>3 DEF AsIn
  <2> QED BY <1>2, <2>1
<1>5. ASSUME NEW k \in Nat, k + 1 <= n, Good(k) PROVE Good(k + 1)
  <2>1. k + 1 \in 1 .. n /\ k \in 0 .. n /\ (k + 1) - 1 = k
    BY <1>0, <1>5
  <2>2. h[k + 1] = Tail1(h[k], l[k + 1], a, b) /\ h[k] \in Seq(As)
    BY <1>2, <2>1
  <2> SUFFICES ASSUME NEW u \in Int
               PROVE  /\ AsIn(h[k + 1], u) => AsIn(l, u) /\ Off(u)
                      /\ AsIn(H, u) => AsIn(h[k + 1], u)
                      /\ \A i \in 1 .. k + 1 : AsCovers(l[i], u) /\ Off(u) => AsIn(h[k + 1], u)
    OBVIOUS
  <2>3. /\ AsIn(h[k + 1], u) => AsIn(h[k], u) \/ (AsCovers(l[k + 1], u) /\ Off(u))
        /\ AsIn(h[k], u) => AsIn(h[k + 1], u)
        /\ AsCovers(l[k + 1], u) /\ Off(u) => AsCovers(H[k + 1], u) \/ AsIn(h[k + 1], u)
    BY <1>3, <2>1, <2>2
  <2>4. /\ AsIn(h[k], u) => AsIn(l, u) /\ Off(u)
        /\ AsIn(H, u) => AsIn(h[k], u)
        /\ \A i \in 1 .. k : AsCovers(l[i], u) /\ Off(u) => AsIn(h[k], u)
    BY <1>5
  <2>5. AsCovers(l[k + 1], u) => AsIn(l, u)
    BY <2>1 DEF AsIn
  <2>6. AsCovers(H[k + 1], u) => AsIn(H, u)
    BY <1>1, <2>1 DEF AsIn
  <2>7. 1 .. k + 1 = (1 .. k) \cup {k + 1}
    OBVIOUS
  <2> QED BY <2>3, <2>4, <2>5, <2>6, <2>7
<1> HIDE DEF Good
<1>6. 0 \in S
  BY <1>4
<1>7. ASSUME NEW k \in Nat, k \in S PROVE k + 1 \in S
  <2>1. k + 1 <= n => k <= n
    BY <1>0
  <2> QED BY <1>5, <1>7, <2>1
<1> HIDE DEF S
<1>8. \A k \in Nat : k \in S
  BY <1>6, <1>7, Induct
<1>9. Good(n)
  BY <1>0, <1>8 DEF S
<1>10. ASSUME NEW u \in Int PROVE AsIn(h[n], u) <=> AsIn(l, u) /\ Off(u)
  BY <1>9 DEF Good, AsIn
<1> QED BY <1>0, <1>2, <1>10 DEF Off

\* A free range is listed where it lies within a "ram" entry.
LEMMA ContainingDoes ==
  ASSUME NEW p \in Seq(As), NEW r \in Entry, NEW s \in Seq(As)
  PROVE  /\ AddContaining(p, r, s) \in Seq(As)
         /\ \A u \in Int : AsIn(AddContaining(p, r, s), u)
                             <=> AsIn(p, u) \/ (Covers(r, u) /\ AsIn(s, u))
<1> DEFINE n == Len(s)
<1>0. n \in Nat /\ \A i \in 1 .. n : s[i] \in As
  OBVIOUS
<1>1. PICK h \in [0 .. n -> Seq(As)] :
        /\ h[0] = p /\ h[n] = AddContaining(p, r, s)
        /\ \A k \in 1 .. n : h[k] = AddPiece(h[k - 1], s[k], r)
  BY PieceLoop
<1> DEFINE Good(k) == \A u \in Int :
             AsIn(h[k], u) <=> \/ AsIn(p, u)
                               \/ Covers(r, u) /\ \E i \in 1 .. k : AsCovers(s[i], u)
           S == {k \in Nat : k <= n => Good(k)}
<1>2. Good(0)
  BY <1>1
<1>3. ASSUME NEW k \in Nat, k + 1 <= n, Good(k) PROVE Good(k + 1)
  <2>1. k + 1 \in 1 .. n /\ k \in 0 .. n /\ (k + 1) - 1 = k
    BY <1>0, <1>3
  <2>2. h[k + 1] = AddPiece(h[k], s[k + 1], r) /\ h[k] \in Seq(As) /\ s[k + 1] \in As
    BY <1>0, <1>1, <2>1
  <2>3. \A u \in Int : AsIn(h[k + 1], u) <=> AsIn(h[k], u) \/ (AsCovers(s[k + 1], u) /\ Covers(r, u))
    BY <2>2, PieceDoes
  <2>4. 1 .. k + 1 = (1 .. k) \cup {k + 1}
    OBVIOUS
  <2> QED BY <1>3, <2>3, <2>4
<1> HIDE DEF Good
<1>4. 0 \in S
  BY <1>2
<1>5. ASSUME NEW k \in Nat, k \in S PROVE k + 1 \in S
  <2>1. k + 1 <= n => k <= n
    BY <1>0
  <2> QED BY <1>3, <1>5, <2>1
<1> HIDE DEF S
<1>6. \A k \in Nat : k \in S
  BY <1>4, <1>5, Induct
<1>7. Good(n) /\ h[n] \in Seq(As)
  BY <1>0, <1>6 DEF S
<1>8. ASSUME NEW u \in Int PROVE AsIn(h[n], u) <=> AsIn(p, u) \/ (Covers(r, u) /\ AsIn(s, u))
  <2>1. AsIn(s, u) <=> \E i \in 1 .. n : AsCovers(s[i], u)
    BY DEF AsIn
  <2> QED BY <1>7, <2>1 DEF Good
<1> QED BY <1>1, <1>7, <1>8

SysramOf(l, s) == FoldLeft(LAMBDA acc, r : AddContaining(acc, r, s), << >>, l)

\* The loop of add_sysram().
LEMMA SysramLoop ==
  ASSUME NEW l \in Seq(Entry), NEW s \in Seq(As)
  PROVE  \E h \in [0 .. Len(l) -> Seq(As)] :
           /\ h[0] = << >> /\ h[Len(l)] = SysramOf(l, s)
           /\ \A k \in 1 .. Len(l) : h[k] = AddContaining(h[k - 1], l[k], s)
<1> DEFINE n == Len(l)
           D == Seq(As)
           step == [i \in 1 .. n |-> [d \in D |-> AddContaining(d, l[i], s)]]
           It(it) == it = [t \in SUBSET DOMAIN l |-> IF t = {} THEN << >>
                                ELSE AddContaining(it[t \ {Max(t)}], l[Max(t)], s)]
           iter == CHOOSE it : It(it)
<1>1. ASSUME NEW d \in D, NEW x \in Entry PROVE AddContaining(d, x, s) \in D
  BY <1>1, ContainingDoes
<1>2. DOMAIN l = 1 .. n /\ n \in Nat /\ << >> \in D /\ \A i \in 1 .. n : l[i] \in Entry
  <2>1. << >> \in D
    OBVIOUS
  <2> HIDE DEF D
  <2> QED BY <2>1
<1> HIDE DEF n, D
<1>3. step \in [1 .. n -> [D -> D]]
  BY <1>1, <1>2
<1>4. \A i \in 1 .. n : \A d \in D : step[i][d] = AddContaining(d, l[i], s)
  OBVIOUS
<1> HIDE DEF step
<1>5. PICK g \in [SUBSET (1 .. n) -> D] : IsGraph(g, n, << >>, step)
  BY <1>2, <1>3, FoldGraph
<1>6. ASSUME NEW t \in SUBSET (1 .. n), t # {} PROVE Max(t) \in 1 .. n /\ g[t \ {Max(t)}] \in D
  BY <1>2, <1>6, MaxIn
<1>7. It(g)
  BY <1>2, <1>4, <1>5, <1>6 DEF IsGraph
<1>8. It(iter)
  <2> HIDE DEF It
  <2> QED BY <1>7
<1>9. SysramOf(l, s) = iter[1 .. n]
  <2>1. SysramOf(l, s) = iter[DOMAIN l]
    BY DEF SysramOf, FoldLeft, MapThenFoldSet
  <2> QED BY <1>2, <2>1
<1> HIDE DEF iter
<1>10. iter[{}] = << >>
  BY <1>8
<1>11. ASSUME NEW t \in SUBSET (1 .. n), t # {}, iter[t \ {Max(t)}] \in D
       PROVE  iter[t] = step[Max(t)][iter[t \ {Max(t)}]]
  <2>1. iter[t] = AddContaining(iter[t \ {Max(t)}], l[Max(t)], s)
    BY <1>2, <1>8, <1>11
  <2> QED BY <1>4, <1>6, <1>11, <2>1
<1>12. PICK h \in [0 .. n -> D] : Runs(h, n, << >>, step) /\ h[n] = iter[1 .. n]
  <2>1. Iterates(iter, n, D, << >>, step)
    BY <1>10, <1>11 DEF Iterates
  <2>2. Folding(iter, n, D, << >>, step)
    BY <1>2, <1>3, <2>1 DEF Folding
  <2> QED BY <2>2, FoldSteps
<1>13. ASSUME NEW k \in 1 .. n PROVE h[k] = AddContaining(h[k - 1], l[k], s)
  <2>1. h[k - 1] \in D
    BY <1>2
  <2> QED BY <1>4, <1>12, <2>1 DEF Runs
<1> QED BY <1>9, <1>12, <1>13 DEF n, D, Runs

\* add_sysram() lists what is free and lies in a bank.
LEMMA SysramDoes ==
  ASSUME NEW l \in Seq(Entry), NEW s \in Seq(As)
  PROVE  /\ SysramOf(l, s) \in Seq(As)
         /\ \A u \in Int : AsIn(SysramOf(l, s), u) <=> In(l, u) /\ AsIn(s, u)
<1> DEFINE n == Len(l)
<1>0. n \in Nat /\ \A i \in 1 .. n : l[i] \in Entry
  OBVIOUS
<1>1. PICK h \in [0 .. n -> Seq(As)] :
        /\ h[0] = << >> /\ h[n] = SysramOf(l, s)
        /\ \A k \in 1 .. n : h[k] = AddContaining(h[k - 1], l[k], s)
  BY SysramLoop
<1> DEFINE Good(k) == \A u \in Int :
             AsIn(h[k], u) <=> AsIn(s, u) /\ \E i \in 1 .. k : Covers(l[i], u)
           S == {k \in Nat : k <= n => Good(k)}
<1>2. Good(0)
  BY <1>1 DEF AsIn
<1>3. ASSUME NEW k \in Nat, k + 1 <= n, Good(k) PROVE Good(k + 1)
  <2>1. k + 1 \in 1 .. n /\ k \in 0 .. n /\ (k + 1) - 1 = k
    BY <1>0, <1>3
  <2>2. h[k + 1] = AddContaining(h[k], l[k + 1], s) /\ h[k] \in Seq(As) /\ l[k + 1] \in Entry
    BY <1>0, <1>1, <2>1
  <2>3. \A u \in Int : AsIn(h[k + 1], u) <=> AsIn(h[k], u) \/ (Covers(l[k + 1], u) /\ AsIn(s, u))
    BY <2>2, ContainingDoes
  <2>4. 1 .. k + 1 = (1 .. k) \cup {k + 1}
    OBVIOUS
  <2> QED BY <1>3, <2>3, <2>4
<1> HIDE DEF Good
<1>4. 0 \in S
  BY <1>2
<1>5. ASSUME NEW k \in Nat, k \in S PROVE k + 1 \in S
  <2>1. k + 1 <= n => k <= n
    BY <1>0
  <2> QED BY <1>3, <1>5, <2>1
<1> HIDE DEF S
<1>6. \A k \in Nat : k \in S
  BY <1>4, <1>5, Induct
<1>7. Good(n)
  BY <1>0, <1>6 DEF S
<1> QED BY <1>0, <1>1, <1>7 DEF Good, In, Covers

-----------------------------------------------------------------------------
(* The lists as sets of units                                              *)

FreeOf(l) == {u \in Int : In(l, u)}
HolesOf(l) == {u \in Int : InHole(l, u)}
AsOf(l) == {u \in Int : AsIn(l, u)}

\* The blocks found for callers, what was allocated, and the workspace that
\* was taken before any memory was added.
Kinds == FoundKinds \cup {"early", "stray"}
Blk == [s : Nat, e : Nat, kind : Kinds]
HeldOf(g) == {Units(g[i].s, g[i].e) : i \in {j \in 1 .. Len(g) : g[j].kind \in FoundKinds}}
AllocatedOf(g) == UNION {Units(g[i].s, g[i].e) :
                           i \in {j \in 1 .. Len(g) : g[j].kind \in FoundKinds /\ g[j].kind # "ws"}}
EarlyOf(g) == UNION {Units(g[i].s, g[i].e) : i \in {j \in 1 .. Len(g) : g[j].kind = "early"}}

LEMMA FreeIs ==
  ASSUME NEW l \in Lists
  PROVE  UNION {Units(r.addr, End(r)) : r \in SetOf(l)} = FreeOf(l)
<1> DEFINE X == UNION {Units(r.addr, End(r)) : r \in SetOf(l)}
<1>1. \A i \in 1 .. Len(l) : l[i].addr \in Int /\ End(l[i]) \in Int
  BY ListIs
<1>2. ASSUME NEW u PROVE u \in X <=> \E i \in 1 .. Len(l) : u \in Units(l[i].addr, End(l[i]))
  BY DEF SetOf
<1>3. ASSUME NEW u, NEW i \in 1 .. Len(l)
      PROVE  u \in Units(l[i].addr, End(l[i])) <=> u \in Int /\ l[i].addr <= u /\ u < End(l[i])
  BY <1>1 DEF Units
<1> HIDE DEF X
<1> QED BY <1>2, <1>3 DEF FreeOf, In, X

LEMMA HolesIs ==
  ASSUME NEW l \in Seq(Hole)
  PROVE  UNION {Units(r.start, r.end) : r \in SetOf(l)} = HolesOf(l)
<1> DEFINE X == UNION {Units(r.start, r.end) : r \in SetOf(l)}
<1>1. \A i \in 1 .. Len(l) : l[i].start \in Int /\ l[i].end \in Int
  <2>1. \A i \in 1 .. Len(l) : l[i] \in Hole
    OBVIOUS
  <2> QED BY <2>1 DEF Hole
<1>2. ASSUME NEW u PROVE u \in X <=> \E i \in 1 .. Len(l) : u \in Units(l[i].start, l[i].end)
  BY DEF SetOf
<1>3. ASSUME NEW u, NEW i \in 1 .. Len(l)
      PROVE  u \in Units(l[i].start, l[i].end) <=> u \in Int /\ l[i].start <= u /\ u < l[i].end
  BY <1>1 DEF Units
<1> HIDE DEF X
<1> QED BY <1>2, <1>3 DEF HolesOf, InHole, X

LEMMA AsIs ==
  ASSUME NEW l \in Seq(As)
  PROVE  UNION {r.start .. r.end : r \in SetOf(l)} = AsOf(l)
<1> DEFINE X == UNION {r.start .. r.end : r \in SetOf(l)}
<1>1. \A i \in 1 .. Len(l) : l[i].start \in Int /\ l[i].end \in Int
  <2>1. \A i \in 1 .. Len(l) : l[i] \in As
    OBVIOUS
  <2> QED BY <2>1 DEF As
<1>2. ASSUME NEW u PROVE u \in X <=> \E i \in 1 .. Len(l) : u \in l[i].start .. l[i].end
  BY DEF SetOf
<1>3. ASSUME NEW u, NEW i \in 1 .. Len(l)
      PROVE  u \in l[i].start .. l[i].end <=> u \in Int /\ AsCovers(l[i], u)
  BY <1>1 DEF AsCovers
<1> HIDE DEF X
<1> QED BY <1>2, <1>3 DEF AsOf, AsIn, X

\* One more block.
LEMMA GivenMore ==
  ASSUME NEW g \in Seq(Blk), NEW s, NEW n, NEW kind, kind \in Kinds, s \in Nat, n \in Nat
  PROVE  LET m == Append(g, [s |-> s, e |-> s + n, kind |-> kind])
             t == Units(s, s + n)
         IN /\ m \in Seq(Blk)
            /\ HeldOf(m) = IF kind \in FoundKinds THEN HeldOf(g) \cup {t} ELSE HeldOf(g)
            /\ AllocatedOf(m) = IF kind \in FoundKinds /\ kind # "ws" THEN AllocatedOf(g) \cup t
                                ELSE AllocatedOf(g)
            /\ EarlyOf(m) = IF kind = "early" THEN EarlyOf(g) \cup t ELSE EarlyOf(g)
<1> DEFINE b == [s |-> s, e |-> s + n, kind |-> kind]
           m == Append(g, b)
           t == Units(s, s + n)
           k == Len(g)
<1>1. b \in Blk /\ b.s = s /\ b.e = s + n /\ b.kind = kind
  <2>1. s + n \in Nat
    OBVIOUS
  <2> QED BY <2>1 DEF Blk
<1> HIDE DEF b
<1>2. m \in Seq(Blk) /\ Len(m) = k + 1 /\ k \in Nat /\ m[k + 1] = b /\ \A i \in 1 .. k : m[i] = g[i]
  BY <1>1
<1> HIDE DEF m
<1>3. Units(m[k + 1].s, m[k + 1].e) = t /\ m[k + 1].kind = kind
  BY <1>1, <1>2
<1> HIDE DEF t
<1>4. 1 .. k + 1 = (1 .. k) \cup {k + 1}
  BY <1>2
<1> HIDE DEF k
<1>5. HeldOf(m) = IF kind \in FoundKinds THEN HeldOf(g) \cup {t} ELSE HeldOf(g)
  BY <1>2, <1>3, <1>4 DEF HeldOf, k
<1>6. AllocatedOf(m) = IF kind \in FoundKinds /\ kind # "ws" THEN AllocatedOf(g) \cup t
                                ELSE AllocatedOf(g)
  BY <1>2, <1>3, <1>4 DEF AllocatedOf, k
<1>7. EarlyOf(m) = IF kind = "early" THEN EarlyOf(g) \cup t ELSE EarlyOf(g)
  BY <1>2, <1>3, <1>4 DEF EarlyOf, k
<1> QED BY <1>2, <1>5, <1>6, <1>7 DEF m, b, t

-----------------------------------------------------------------------------
(* The invariant                                                           *)

\* The state is in order: TypeOK, with lists in normal form and "ram" entries
\* that are not empty.
Requests == Nat \X (Nat \ {0})
Shape ==
  /\ ram_list \in Lists /\ Len(ram_list) + 1 <= MaxRamList
  /\ avoid_list \in Holes /\ Len(avoid_list) + 1 <= MaxAvoidList
  /\ ws_early_next \in Nat /\ temp_syspage \in Int
  /\ sysram_added \in BOOLEAN /\ crashed \in BOOLEAN
  /\ ram \in Seq(As) /\ \A i \in 1 .. Len(ram) : ram[i].start <= ram[i].end
  /\ sysram \in Seq(As)
  /\ resmem \in [avoided : SUBSET Requests, allocated : SUBSET Requests]
  /\ given \in Seq(Blk)

\* Every unit is accounted for. Firm memory is all that is avoided until
\* memory is added.
Claimed == UNION {Block(b) : b \in resmem.allocated}
Accounts ==
  /\ Free \subseteq Added \ (Image \cup Allocated)
  /\ Allocated \subseteq Added
  /\ Added \subseteq Free \cup Image \cup Allocated \cup Claimed
  /\ SysramIsFree
  /\ Added = {} => Avoided = Firm
ListInv == Shape /\ Accounts

Held == {Given(i) : i \in Found}
Pool == INSTANCE RamPool WITH added <- Added, pool <- Free, avoided <- Avoided,
                              firm <- Firm, held <- Held

\* What the variables are as sets.
Base == Units(FullRamPaddr + RamSize, FullRamPaddr + RamSize + 2)
        \cup Units(FullRamPaddr, FullRamPaddr + StartupSize)
FirmOf(r, g) == Base \cup (UNION {Block(b) : b \in r.avoided}) \cup EarlyOf(g)

LEMMA Views ==
  ASSUME Shape
  PROVE  /\ Free = FreeOf(ram_list) /\ Avoided = HolesOf(avoid_list)
         /\ Added = AsOf(ram) /\ Sysram = AsOf(sysram)
         /\ Held = HeldOf(given) /\ Allocated = AllocatedOf(given)
         /\ Firm = FirmOf(resmem, given)
<1>1. Free = FreeOf(ram_list)
  BY FreeIs DEF Shape, Free
<1>2. Avoided = HolesOf(avoid_list)
  BY HolesIs DEF Shape, Avoided, Holes
<1>3. Added = AsOf(ram) /\ Sysram = AsOf(sysram)
  BY AsIs DEF Shape, Added, Sysram
<1>4. Held = HeldOf(given)
  BY DEF Held, HeldOf, Found, Given
<1>5. Allocated = AllocatedOf(given)
  BY DEF Allocated, AllocatedOf, Found, Given
<1>6. Firm = FirmOf(resmem, given)
  BY DEF Firm, FirmOf, Base, EarlyOf, Given
<1> QED BY <1>1, <1>2, <1>3, <1>4, <1>5, <1>6

LEMMA ViewsNext ==
  ASSUME Shape'
  PROVE  /\ Free' = FreeOf(ram_list') /\ Avoided' = HolesOf(avoid_list')
         /\ Added' = AsOf(ram') /\ Sysram' = AsOf(sysram')
         /\ Held' = HeldOf(given') /\ Allocated' = AllocatedOf(given')
         /\ Firm' = FirmOf(resmem', given')
<1>1. Free' = FreeOf(ram_list')
  BY FreeIs DEF Shape, Free
<1>2. Avoided' = HolesOf(avoid_list')
  BY HolesIs DEF Shape, Avoided, Holes
<1>3. Added' = AsOf(ram') /\ Sysram' = AsOf(sysram')
  BY AsIs DEF Shape, Added, Sysram
<1>4. Held' = HeldOf(given')
  BY DEF Held, HeldOf, Found, Given
<1>5. Allocated' = AllocatedOf(given')
  BY DEF Allocated, AllocatedOf, Found, Given
<1>6. Firm' = FirmOf(resmem', given')
  BY DEF Firm, FirmOf, Base, EarlyOf, Given
<1> QED BY <1>1, <1>2, <1>3, <1>4, <1>5, <1>6

\* alloc_ram() on the lists.
LEMMA TakeRamDoes ==
  ASSUME Shape, NEW a, NEW n, a \in Nat, n \in Nat, ~ AllocCrashes(a, n), TakeRam(a, n)
  PROVE  /\ ram_list' \in Lists /\ Len(ram_list') + 1 <= MaxRamList
         /\ sysram' \in Seq(As)
         /\ FreeOf(ram_list') = FreeOf(ram_list) \ Units(a, a + n)
         /\ sysram_added => AsOf(sysram') = AsOf(sysram) \ Units(a, a + n)
<1>1. /\ ram_list \in Lists /\ Len(ram_list) + 1 <= MaxRamList /\ MaxRamList \in Nat
      /\ sysram \in Seq(As) /\ Len(ram_list) \in Nat
  BY SizesAssumption, ListIs DEF Shape
<1>2. \A u : u \in Units(a, a + n) <=> u \in Int /\ a <= u /\ u < a + n
  BY DEF Units
<1>3. /\ TakeOut(ram_list, a, a + n) \in Lists
      /\ Len(TakeOut(ram_list, a, a + n)) <= Len(ram_list) + 1
      /\ ~ Splits(ram_list, a, a + n) => Len(TakeOut(ram_list, a, a + n)) <= Len(ram_list)
      /\ \A u \in Int : In(TakeOut(ram_list, a, a + n), u)
                          <=> In(ram_list, u) /\ ~ (a <= u /\ u < a + n)
  <2> DEFINE e == a + n
  <2>1. e \in Nat /\ a <= e
    OBVIOUS
  <2> HIDE DEF e
  <2>2. /\ TakeOut(ram_list, a, e) \in Lists
        /\ Len(TakeOut(ram_list, a, e)) <= Len(ram_list) + 1
        /\ ~ Splits(ram_list, a, e) => Len(TakeOut(ram_list, a, e)) <= Len(ram_list)
        /\ \A u \in Int : In(TakeOut(ram_list, a, e), u) <=> In(ram_list, u) /\ ~ (a <= u /\ u < e)
    BY <1>1, <2>1, TakeOutDoes
  <2> QED BY <2>2 DEF e
<1>4. ram_list' = TakeOut(ram_list, a, a + n)
  BY DEF TakeRam
<1>5. Len(ram_list') \in Nat
  BY <1>3, <1>4, ListIs
<1>6. Len(ram_list') + 1 <= MaxRamList
  <2>1. CASE Splits(ram_list, a, a + n)
    <3>1. Len(ram_list) + 1 <= MaxRamList - 1
      BY <1>1, <2>1 DEF AllocCrashes, RamOverflow
    <3> QED BY <1>1, <1>3, <1>4, <1>5, <3>1
  <2>2. CASE ~ Splits(ram_list, a, a + n)
    BY <1>1, <1>3, <1>4, <1>5, <2>2
  <2> QED BY <2>1, <2>2
<1>7. FreeOf(ram_list') = FreeOf(ram_list) \ Units(a, a + n)
  BY <1>2, <1>3, <1>4 DEF FreeOf
<1>8. ~ sysram_added => sysram' = sysram
  BY DEF TakeRam
<1>9. ASSUME sysram_added
      PROVE  sysram' \in Seq(As) /\ AsOf(sysram') = AsOf(sysram) \ Units(a, a + n)
  <2> DEFINE z == a + n - 1
  <2>1. sysram' = TakeOutAs(sysram, a, z) /\ ~ WholeAs(sysram, a, z)
    BY <1>9 DEF TakeRam, AllocCrashes
  <2>2. Ints(a, z) /\ a <= z + 1 /\ \A u \in Int : u <= z <=> u < a + n
    BY DEF Ints
  <2> HIDE DEF z
  <2>3. /\ TakeOutAs(sysram, a, z) \in Seq(As)
        /\ \A u \in Int : AsIn(TakeOutAs(sysram, a, z), u) <=> AsIn(sysram, u) /\ ~ (a <= u /\ u <= z)
    BY <1>1, <2>1, <2>2, TakeOutAsDoes
  <2> QED BY <1>2, <2>1, <2>2, <2>3 DEF AsOf
<1> QED BY <1>1, <1>3, <1>4, <1>6, <1>7, <1>8, <1>9

\* avoid_ram() on the list.
LEMMA AvoidDoes ==
  ASSUME Shape, NEW a, NEW n, a \in Nat, n \in Nat \ {0},
         ~ AvoidOverflow(AvoidRam(avoid_list, a, n))
  PROVE  LET m == AvoidRam(avoid_list, a, n) IN
         /\ m \in Holes /\ Len(m) + 1 <= MaxAvoidList
         /\ HolesOf(m) = HolesOf(avoid_list) \cup Units(a, a + n)
<1> DEFINE m == AvoidRam(avoid_list, a, n)
<1>1. avoid_list \in Holes
  BY DEF Shape
<1>2. m \in Holes /\ \A u \in Int : InHole(m, u) <=> InHole(avoid_list, u) \/ (a <= u /\ u < a + n)
  BY <1>1, AvoidRamDoes
<1>3. Len(m) \in Nat /\ MaxAvoidList \in Nat
  BY <1>2, SizesAssumption DEF Holes
<1>4. Len(m) + 1 <= MaxAvoidList
  BY <1>3 DEF AvoidOverflow
<1> HIDE DEF m
<1>5. \A u : u \in Units(a, a + n) <=> u \in Int /\ a <= u /\ u < a + n
  BY DEF Units
<1>6. HolesOf(m) = HolesOf(avoid_list) \cup Units(a, a + n)
  BY <1>2, <1>5 DEF HolesOf
<1> QED BY <1>2, <1>4, <1>6 DEF m

-----------------------------------------------------------------------------
(* The steps                                                               *)

\* What the calls do once all RAM is known: memory only leaves the free list,
\* and what is handed out was free and not avoided.
Narrows ==
  /\ Free' \subseteq Free /\ Avoided \subseteq Avoided' /\ Added' = Added /\ Firm \subseteq Firm'
  /\ UNCHANGED <<ram, temp_syspage>> /\ (sysram_added => sysram_added')
  /\ (crashed => crashed') /\ ((~ sysram_added') => UNCHANGED sysram)
  /\ \/ given' = given
     \/ \E s, n, kind : /\ Give(s, n, kind) /\ s \in Nat /\ n \in Nat
                        /\ kind \in FoundKinds => Units(s, s + n) \subseteq Free \ Avoided

LEMMA FreshIs ==
  ASSUME Shape, NEW a, NEW n, a \in Nat, n \in Nat \ {0}, Fresh(ram_list, avoid_list, a, n)
  PROVE  Units(a, a + n) \subseteq Free \ Avoided /\ Units(a, a + n) # {}
<1>1. \A u : u \in Units(a, a + n) <=> u \in a .. a + n - 1
  BY DEF Units
<1>2. a \in Units(a, a + n)
  BY DEF Units
<1>3. Free = FreeOf(ram_list) /\ Avoided = HolesOf(avoid_list)
  BY Views
<1>4. a .. a + n - 1 \subseteq Int
  OBVIOUS
<1> QED BY <1>1, <1>2, <1>3, <1>4 DEF Fresh, FreeOf, HolesOf

\* A found block is not one of those handed out: they are withdrawn.
LEMMA FreshIsNew ==
  ASSUME Pool!Withdrawn, NEW t, t \subseteq Free \ Avoided, t # {}
  PROVE  t \notin Held
BY DEF Pool!Withdrawn

\* alloc_ram(NULL_PADDR), reserve_ram() and init_mitigation_mem() once they
\* have found a block.
LEMMA TakeFound ==
  ASSUME ListInv, NEW a, NEW n, NEW kind \in {"alloc", "reserved", "mitigation"},
         a \in Nat, n \in Nat \ {0}, Fresh(ram_list, avoid_list, a, n), ~ AllocCrashes(a, n),
         TakeRam(a, n), Give(a, n, kind),
         UNCHANGED <<avoid_list, ws_early_next, temp_syspage, sysram_added, ram, resmem, crashed>>
  PROVE  ListInv' /\ (Pool!Withdrawn => Pool!Alloc) /\ Narrows
<1> DEFINE t == Units(a, a + n)
<1>1. Shape /\ Accounts
  BY DEF ListInv
<1>2. t \subseteq Free \ Avoided /\ t # {}
  BY <1>1, FreshIs
<1>3. Pool!Withdrawn => t \notin Held
  BY <1>2, FreshIsNew
<1>4. /\ ram_list' \in Lists /\ Len(ram_list') + 1 <= MaxRamList /\ sysram' \in Seq(As)
      /\ FreeOf(ram_list') = FreeOf(ram_list) \ t
      /\ sysram_added => AsOf(sysram') = AsOf(sysram) \ t
  BY <1>1, TakeRamDoes
<1>5. /\ given' \in Seq(Blk) /\ HeldOf(given') = HeldOf(given) \cup {t}
      /\ AllocatedOf(given') = AllocatedOf(given) \cup t /\ EarlyOf(given') = EarlyOf(given)
  <2>1. given \in Seq(Blk) /\ n \in Nat
    BY <1>1 DEF Shape
  <2>2. kind \in Kinds /\ kind \in FoundKinds /\ kind # "ws" /\ kind # "early"
    BY DEF FoundKinds, Kinds
  <2>3. given' = Append(given, [s |-> a, e |-> a + n, kind |-> kind])
    BY DEF Give
  <2>4. LET m == Append(given, [s |-> a, e |-> a + n, kind |-> kind]) IN
        /\ m \in Seq(Blk)
        /\ HeldOf(m) = IF kind \in FoundKinds THEN HeldOf(given) \cup {t} ELSE HeldOf(given)
        /\ AllocatedOf(m) = IF kind \in FoundKinds /\ kind # "ws" THEN AllocatedOf(given) \cup t
                            ELSE AllocatedOf(given)
        /\ EarlyOf(m) = IF kind = "early" THEN EarlyOf(given) \cup t ELSE EarlyOf(given)
    BY <2>1, <2>2, GivenMore, Zenon
  <2> QED BY <2>2, <2>3, <2>4
<1> HIDE DEF t
<1>6. Shape'
  BY <1>1, <1>4, <1>5 DEF Shape
<1>7. /\ Free' = Free \ t /\ Avoided' = Avoided /\ Added' = Added /\ Firm' = Firm
      /\ Held' = Held \cup {t} /\ Allocated' = Allocated \cup t
      /\ sysram_added => Sysram' = Sysram \ t
  BY <1>1, <1>4, <1>5, <1>6, Views, ViewsNext DEF FirmOf
<1>8. Claimed' = Claimed /\ sysram_added' = sysram_added
  BY DEF Claimed
<1>9. Accounts'
  BY <1>1, <1>2, <1>7, <1>8 DEF Accounts, SysramIsFree
<1>10. Pool!Withdrawn => Pool!Alloc
  BY <1>2, <1>3, <1>7 DEF Pool!Alloc
<1>11. Narrows
  <2>1. Units(a, a + n) \subseteq Free \ Avoided
    BY <1>2 DEF t
  <2>2. (~ sysram_added') => sysram' = sysram
    BY DEF TakeRam
  <2>3. /\ Free' \subseteq Free /\ Avoided \subseteq Avoided' /\ Added' = Added /\ Firm \subseteq Firm'
    BY <1>7
  <2> QED BY <2>1, <2>2, <2>3 DEF Narrows
<1> QED BY <1>6, <1>9, <1>10, <1>11 DEF ListInv

LEMMA CrashIs ==
  ASSUME ListInv, Crash
  PROVE  ListInv' /\ UNCHANGED Pool!vars /\ Narrows
<1>1. /\ Free' = Free /\ Avoided' = Avoided /\ Added' = Added /\ Firm' = Firm
      /\ Held' = Held /\ Allocated' = Allocated /\ Sysram' = Sysram /\ Claimed' = Claimed
  BY DEF Crash, Free, Avoided, Added, Firm, Held, Allocated, Sysram, Claimed, Found, Given
<1>2. Shape'
  BY DEF ListInv, Shape, Crash
<1>3. Accounts'
  BY <1>1 DEF ListInv, Accounts, SysramIsFree, Crash
<1>4. Narrows
  BY <1>1 DEF Narrows, Crash
<1> QED BY <1>1, <1>2, <1>3, <1>4 DEF Pool!vars, ListInv

LEMMA AllocRamStep ==
  ASSUME ListInv, NEW q \in AllocReq, AllocRam(q)
  PROVE  ListInv' /\ (Pool!Withdrawn => Pool!Alloc \/ UNCHANGED Pool!vars) /\ Narrows
<1> DEFINE a == FindRam(ram_list, avoid_list, q[1], q[2])
<1>1. q[1] \in Nat \ {0} /\ q[2] \in Nat \ {0} /\ q[1] \in Nat
  BY RequestsAssumption
<1>2. ram_list \in Lists /\ avoid_list \in Holes
  BY DEF ListInv, Shape
<1>3. a \in Nat /\ Fresh(ram_list, avoid_list, a, q[1])
  <2>1. a # NullPaddr
    BY DEF AllocRam
  <2> QED BY <1>1, <1>2, <2>1, FindRamDoes
<1>4. CASE AllocCrashes(a, q[1])
  BY <1>4, CrashIs DEF AllocRam
<1>5. CASE ~ AllocCrashes(a, q[1])
  <2>1. /\ TakeRam(a, q[1]) /\ Give(a, q[1], "alloc")
        /\ UNCHANGED <<avoid_list, ws_early_next, temp_syspage, sysram_added, ram, resmem, crashed>>
    BY <1>5 DEF AllocRam
  <2> HIDE DEF a
  <2> QED BY <1>1, <1>3, <1>5, <2>1, TakeFound
<1> QED BY <1>4, <1>5

LEMMA ReserveRamStep ==
  ASSUME ListInv, NEW q \in ReserveReq, ReserveRam(q)
  PROVE  ListInv' /\ (Pool!Withdrawn => Pool!Alloc \/ UNCHANGED Pool!vars) /\ Narrows
<1> DEFINE align == IF q[2] = 0 THEN PageSize ELSE q[2]
           low == FindRam(ram_list, avoid_list, q[1], align)
           high == FindTopRam(ram_list, avoid_list, q[1], align, PageSize, NullPaddr)
           a == IF q[3] THEN low ELSE high
<1>1. q[1] \in Nat \ {0} /\ q[1] \in Nat /\ align \in Nat \ {0} /\ align \in Nat
      /\ PageSize \in Nat \ {0} /\ NullPaddr \in Int
  BY RequestsAssumption, SizesAssumption DEF ReserveRam, NullPaddr
<1>2. ram_list \in Lists /\ avoid_list \in Holes
  BY DEF ListInv, Shape
<1>3. CASE a = NullPaddr \/ AllocCrashes(a, q[1])
  BY <1>3, CrashIs DEF ReserveRam
<1>4. CASE ~ (a = NullPaddr \/ AllocCrashes(a, q[1]))
  <2>1. /\ TakeRam(a, q[1]) /\ Give(a, q[1], "reserved")
        /\ UNCHANGED <<avoid_list, ws_early_next, temp_syspage, sysram_added, ram, resmem, crashed>>
    BY <1>4 DEF ReserveRam
  <2> HIDE DEF align
  <2>2. low # NullPaddr => low \in Nat /\ Fresh(ram_list, avoid_list, low, q[1])
    BY <1>1, <1>2, FindRamDoes
  <2>3. high # NullPaddr => high \in Nat /\ Fresh(ram_list, avoid_list, high, q[1])
    BY <1>1, <1>2, FindTopRamDoes
  <2> HIDE DEF low, high
  <2>4. a \in Nat /\ Fresh(ram_list, avoid_list, a, q[1])
    BY <1>4, <2>2, <2>3
  <2> HIDE DEF a
  <2> QED BY <1>1, <1>4, <2>1, <2>4, TakeFound
<1> QED BY <1>3, <1>4

LEMMA InitMitigationMemStep ==
  ASSUME ListInv, InitMitigationMem
  PROVE  ListInv' /\ (Pool!Withdrawn => Pool!Alloc \/ UNCHANGED Pool!vars) /\ Narrows
<1> DEFINE a == FindTopRam(ram_list, avoid_list, PageSize, PageSize, PageSize, Limit)
<1>1. PageSize \in Nat \ {0} /\ PageSize \in Nat /\ Limit \in Int
  BY SizesAssumption
<1>2. ram_list \in Lists /\ avoid_list \in Holes
  BY DEF ListInv, Shape
<1>3. CASE a = NullPaddr \/ AllocCrashes(a, PageSize)
  BY <1>3, CrashIs DEF InitMitigationMem
<1>4. CASE ~ (a = NullPaddr \/ AllocCrashes(a, PageSize))
  <2>1. /\ TakeRam(a, PageSize) /\ Give(a, PageSize, "mitigation")
        /\ UNCHANGED <<avoid_list, ws_early_next, temp_syspage, sysram_added, ram, resmem, crashed>>
    BY <1>4 DEF InitMitigationMem
  <2>2. a \in Nat /\ Fresh(ram_list, avoid_list, a, PageSize)
    BY <1>1, <1>2, <1>4, FindTopRamDoes
  <2> HIDE DEF a
  <2> QED BY <1>1, <1>4, <2>1, <2>2, TakeFound
<1> QED BY <1>3, <1>4

\* No memory is listed, and none has been added, while there is no "ram".
LEMMA NothingAdded ==
  ASSUME Shape, Accounts
  PROVE  (ram = << >> <=> Added = {}) /\ (Len(ram_list) # 0 => Free # {})
<1>1. Added = AsOf(ram) /\ Free = FreeOf(ram_list)
  BY Views
<1>2. ram = << >> => Added = {}
  BY <1>1 DEF AsOf, AsIn
<1>3. ASSUME ram # << >> PROVE Added # {}
  <2>1. 1 \in 1 .. Len(ram)
    BY <1>3 DEF Shape
  <2>2. ram[1] \in As /\ ram[1].start <= ram[1].end
    BY <2>1 DEF Shape
  <2>3. ram[1].start \in Int /\ ram[1].end \in Int
    BY <2>2 DEF As
  <2>5. AsCovers(ram[1], ram[1].start)
    BY <2>2, <2>3 DEF AsCovers
  <2> QED BY <1>1, <2>1, <2>3, <2>5 DEF AsOf, AsIn
<1>4. ASSUME Len(ram_list) # 0 PROVE Free # {}
  <2>1. ram_list \in Lists
    BY DEF Shape
  <2>2. 1 \in 1 .. Len(ram_list)
    BY <1>4, <2>1, ListIs
  <2>3. ram_list[1].addr \in Nat /\ ram_list[1].addr < End(ram_list[1])
    BY <2>1, <2>2, ListIs
  <2>4. ram_list[1].addr \in FreeOf(ram_list)
    BY <2>2, <2>3 DEF FreeOf, In
  <2> QED BY <1>1, <2>4
<1> QED BY <1>2, <1>3, <1>4

LEMMA WsAllocStep ==
  ASSUME ListInv, NEW n \in WsReq, WsAlloc(n)
  PROVE  /\ ListInv' /\ Narrows
         /\ Pool!Withdrawn => Pool!Workspace \/ Pool!EarlyWorkspace \/ UNCHANGED Pool!vars
<1> DEFINE early == Len(ram_list) = 0
           a == IF early THEN ws_early_next ELSE FindRam(ram_list, avoid_list, n, 1)
           kind == IF ~ early THEN "ws" ELSE IF ram = << >> THEN "early" ELSE "stray"
           t == Units(a, a + n)
<1>1. n \in Nat /\ n \in Nat \ {0} /\ 1 \in Nat \ {0}
  BY RequestsAssumption
<1>2. /\ Shape /\ Accounts
      /\ ram_list \in Lists /\ avoid_list \in Holes /\ ws_early_next \in Nat
  BY DEF ListInv, Shape
<1>3. /\ a \in Nat /\ (~ early => Fresh(ram_list, avoid_list, a, n))
  <2>1. a # NullPaddr
    BY DEF WsAlloc
  <2>2. CASE early
    BY <1>2, <2>2
  <2>3. CASE ~ early
    BY <1>1, <1>2, <2>1, <2>3, FindRamDoes
  <2> QED BY <2>2, <2>3
<1>4. CASE AvoidOverflow(AvoidRam(avoid_list, a, n))
  BY <1>4, CrashIs DEF WsAlloc
<1>5. CASE ~ AvoidOverflow(AvoidRam(avoid_list, a, n))
  <2>1. /\ ws_early_next' = IF early THEN ws_early_next + n ELSE ws_early_next
        /\ avoid_list' = AvoidRam(avoid_list, a, n)
        /\ Give(a, n, kind)
        /\ UNCHANGED <<ram_list, temp_syspage, sysram_added, ram, sysram, resmem, crashed>>
    BY <1>5 DEF WsAlloc
  <2> HIDE DEF a
  <2>2. /\ avoid_list' \in Holes /\ Len(avoid_list') + 1 <= MaxAvoidList
        /\ HolesOf(avoid_list') = HolesOf(avoid_list) \cup t
    BY <1>1, <1>2, <1>3, <1>5, <2>1, AvoidDoes
  <2>3. /\ kind \in Kinds
        /\ ~ early => kind = "ws" /\ kind \in FoundKinds
        /\ early => kind # "ws" /\ kind \notin FoundKinds /\ (kind = "early" <=> ram = << >>)
    BY DEF Kinds, FoundKinds
  <2>4. /\ given' \in Seq(Blk)
        /\ HeldOf(given') = IF early THEN HeldOf(given) ELSE HeldOf(given) \cup {t}
        /\ AllocatedOf(given') = AllocatedOf(given)
        /\ EarlyOf(given') = IF early /\ ram = << >> THEN EarlyOf(given) \cup t ELSE EarlyOf(given)
    <3> HIDE DEF kind, early
    <3>1. given' = Append(given, [s |-> a, e |-> a + n, kind |-> kind])
      BY <2>1 DEF Give
    <3>2. given \in Seq(Blk)
      BY <1>2 DEF Shape
    <3>3. LET m == Append(given, [s |-> a, e |-> a + n, kind |-> kind]) IN
          /\ m \in Seq(Blk)
          /\ HeldOf(m) = IF kind \in FoundKinds THEN HeldOf(given) \cup {t} ELSE HeldOf(given)
          /\ AllocatedOf(m) = IF kind \in FoundKinds /\ kind # "ws" THEN AllocatedOf(given) \cup t
                              ELSE AllocatedOf(given)
          /\ EarlyOf(m) = IF kind = "early" THEN EarlyOf(given) \cup t ELSE EarlyOf(given)
      BY <1>1, <1>3, <2>3, <3>2, GivenMore, Zenon
    <3>4. ~ early => kind # "early"
      BY DEF kind
    <3> QED BY <2>3, <3>1, <3>3, <3>4
  <2> HIDE DEF kind
  <2>5. ws_early_next' \in Nat
    BY <1>1, <1>2, <2>1
  <2>6. Shape'
    BY <1>2, <2>1, <2>2, <2>4, <2>5 DEF Shape
  <2> HIDE DEF t
  <2> DEFINE fst == early /\ ram = << >>
  <2>70. FirmOf(resmem', given') = IF fst THEN FirmOf(resmem, given) \cup t ELSE FirmOf(resmem, given)
    <3>1. EarlyOf(given') = IF fst THEN EarlyOf(given) \cup t ELSE EarlyOf(given)
      BY <2>4
    <3>2. resmem' = resmem
      BY <2>1
    <3> HIDE DEF fst
    <3> QED BY <3>1, <3>2 DEF FirmOf
  <2>71. Firm' = IF fst THEN Firm \cup t ELSE Firm
    <3> HIDE DEF fst
    <3> QED BY <1>2, <2>6, <2>70, Views, ViewsNext
  <2>7. /\ Free' = Free /\ Avoided' = Avoided \cup t /\ Added' = Added
        /\ Firm' = (IF early /\ ram = << >> THEN Firm \cup t ELSE Firm)
        /\ Held' = (IF early THEN Held ELSE Held \cup {t}) /\ Allocated' = Allocated
        /\ Sysram' = Sysram
    <3> HIDE DEF early
    <3> QED BY <1>2, <2>1, <2>2, <2>4, <2>6, <2>71, Views, ViewsNext
  <2>8. Claimed' = Claimed /\ sysram_added' = sysram_added
    BY <2>1 DEF Claimed
  <2>9. (ram = << >> <=> Added = {}) /\ (~ early => Free # {})
    BY <1>2, NothingAdded
  <2>10. ~ early => Added # {}
    BY <1>2, <2>9 DEF Accounts
  <2> HIDE DEF early
  <2>11. Accounts'
    BY <1>2, <2>7, <2>8, <2>9, <2>10 DEF Accounts, SysramIsFree
  <2>110. Narrows
    <3>1. /\ Free' \subseteq Free /\ Avoided \subseteq Avoided' /\ Added' = Added /\ Firm \subseteq Firm'
      BY <2>7
    <3>2. ~ early => Units(a, a + n) \subseteq Free \ Avoided
      BY <1>1, <1>2, <1>3, FreshIs
    <3>3. Give(a, n, kind) /\ (kind \in FoundKinds => Units(a, a + n) \subseteq Free \ Avoided)
      BY <2>1, <2>3, <3>2
    <3> HIDE DEF early
    <3> QED BY <1>1, <1>3, <2>1, <3>1, <3>3 DEF Narrows
  <2>12. CASE early
    <3>1. Free = {}
      <4>1. FreeOf(ram_list) = {}
        BY <2>12 DEF early, FreeOf, In
      <4> QED BY <1>2, <4>1, Views
    <3>2. Firm' = IF Added = {} THEN Avoided' ELSE Firm
      BY <1>2, <2>7, <2>9, <2>12 DEF Accounts
    <3>3. Pool!EarlyWorkspace
      BY <2>7, <2>12, <3>1, <3>2 DEF Pool!EarlyWorkspace
    <3> QED BY <2>6, <2>11, <2>110, <3>3 DEF ListInv
  <2>13. CASE ~ early
    <3>1. t \subseteq Free \ Avoided /\ t # {}
      BY <1>1, <1>2, <1>3, <2>13, FreshIs DEF t
    <3>2. Pool!Withdrawn => t \notin Held
      BY <3>1, FreshIsNew
    <3>3. Pool!Withdrawn => Pool!Workspace
      BY <2>7, <2>13, <3>1, <3>2 DEF Pool!Workspace
    <3> QED BY <2>6, <2>11, <2>110, <3>3 DEF ListInv
  <2> QED BY <2>12, <2>13
<1> QED BY <1>4, <1>5

\* avoid_ram() of a range, of an option or of the firmware.
LEMMA AvoidStep ==
  ASSUME ListInv, NEW b \in Requests, Avoid(b)
  PROVE  /\ ListInv' /\ (Added = {} => Pool!Avoid \/ UNCHANGED Pool!vars)
         /\ Free' = Free /\ Added' = Added
         /\ UNCHANGED <<ram, temp_syspage, given, sysram_added>>
         /\ \/ crashed' /\ Firm' = Firm /\ Avoided' = Avoided
            \/ /\ crashed' = crashed
               /\ Firm' = Firm \cup Block(b) /\ Avoided' = Avoided \cup Block(b)
<1> DEFINE a == b[1]
           n == b[2]
           t == Units(a, a + n)
<1>1. a \in Nat /\ n \in Nat \ {0}
  BY DEF Requests
<1>2. Shape /\ Accounts
  BY DEF ListInv
<1>3. CASE AvoidOverflow(AvoidRam(avoid_list, a, n))
  <2>1. Crash
    BY <1>3 DEF Avoid
  <2> QED BY <2>1, CrashIs DEF Crash, Pool!vars
<1>4. CASE ~ AvoidOverflow(AvoidRam(avoid_list, a, n))
  <2>1. /\ avoid_list' = AvoidRam(avoid_list, a, n)
        /\ resmem' = [resmem EXCEPT !.avoided = @ \cup {b}]
        /\ UNCHANGED <<ram_list, ws_early_next, temp_syspage, sysram_added,
                       ram, sysram, given, crashed>>
    BY <1>4 DEF Avoid
  <2>0. t = Block(b)
    BY DEF Block
  <2> HIDE DEF a, n
  <2>2. /\ avoid_list' \in Holes /\ Len(avoid_list') + 1 <= MaxAvoidList
        /\ HolesOf(avoid_list') = HolesOf(avoid_list) \cup t
    BY <1>1, <1>2, <1>4, <2>1, AvoidDoes
  <2> HIDE DEF t
  <2>3. /\ resmem' \in [avoided : SUBSET Requests, allocated : SUBSET Requests]
        /\ resmem'.avoided = resmem.avoided \cup {b} /\ resmem'.allocated = resmem.allocated
    BY <1>2, <2>1 DEF Shape
  <2>4. Shape'
    BY <1>2, <2>1, <2>2, <2>3 DEF Shape
  <2>5. FirmOf(resmem', given') = FirmOf(resmem, given) \cup t
    BY <2>0, <2>1, <2>3 DEF FirmOf
  <2>6. /\ Free' = Free /\ Avoided' = Avoided \cup t /\ Added' = Added /\ Firm' = Firm \cup t
        /\ Held' = Held /\ Allocated' = Allocated /\ Sysram' = Sysram
    BY <1>2, <2>1, <2>2, <2>4, <2>5, Views, ViewsNext
  <2>7. Claimed' = Claimed /\ sysram_added' = sysram_added
    BY <2>1, <2>3 DEF Claimed
  <2>8. Added = {} => Avoided = Firm
    BY <1>2 DEF Accounts
  <2>9. Accounts'
    BY <1>2, <2>6, <2>7, <2>8 DEF Accounts, SysramIsFree
  <2>10. Added = {} => Pool!Avoid
    BY <2>6, <2>8 DEF Pool!Avoid
  <2> QED BY <2>0, <2>1, <2>4, <2>6, <2>9, <2>10 DEF ListInv
<1> QED BY <1>3, <1>4

\* alloc_ram() of a given range.
LEMMA AllocStep ==
  ASSUME ListInv, ~ sysram_added, NEW b \in Requests, Alloc(b)
  PROVE  /\ ListInv' /\ (Block(b) \subseteq Firm => Pool!Claim \/ UNCHANGED Pool!vars)
         /\ Added' = Added /\ Firm' = Firm /\ Avoided' = Avoided
         /\ UNCHANGED <<ram, temp_syspage, given, sysram_added>>
         /\ \/ crashed' /\ Free' = Free
            \/ crashed' = crashed /\ Free' = Free \ Block(b)
<1> DEFINE a == b[1]
           n == b[2]
           t == Units(a, a + n)
<1>1. a \in Nat /\ n \in Nat
  BY DEF Requests
<1>2. Shape /\ Accounts
  BY DEF ListInv
<1>3. CASE AllocCrashes(a, n)
  <2>1. Crash
    BY <1>3 DEF Alloc
  <2> QED BY <2>1, CrashIs DEF Crash, Pool!vars
<1>4. CASE ~ AllocCrashes(a, n)
  <2>1. /\ TakeRam(a, n) /\ ~ sysram_added
        /\ resmem' = [resmem EXCEPT !.allocated = @ \cup {b}]
        /\ UNCHANGED <<avoid_list, ws_early_next, temp_syspage, sysram_added, ram, given, crashed>>
    BY <1>4 DEF Alloc
  <2>0. t = Block(b)
    BY DEF Block
  <2> HIDE DEF a, n
  <2>2. /\ ram_list' \in Lists /\ Len(ram_list') + 1 <= MaxRamList /\ sysram' \in Seq(As)
        /\ FreeOf(ram_list') = FreeOf(ram_list) \ t
    BY <1>1, <1>2, <1>4, <2>1, TakeRamDoes
  <2> HIDE DEF t
  <2>3. /\ resmem' \in [avoided : SUBSET Requests, allocated : SUBSET Requests]
        /\ resmem'.avoided = resmem.avoided /\ resmem'.allocated = resmem.allocated \cup {b}
    BY <1>2, <2>1 DEF Shape
  <2>4. Shape'
    BY <1>2, <2>1, <2>2, <2>3 DEF Shape
  <2>5. FirmOf(resmem', given') = FirmOf(resmem, given)
    BY <2>0, <2>1, <2>3 DEF FirmOf
  <2>6. /\ Free' = Free \ t /\ Avoided' = Avoided /\ Added' = Added /\ Firm' = Firm
        /\ Held' = Held /\ Allocated' = Allocated
    BY <1>2, <2>1, <2>2, <2>4, <2>5, Views, ViewsNext
  <2>7. Claimed' = Claimed \cup t /\ ~ sysram_added'
    BY <2>0, <2>1, <2>3 DEF Claimed
  <2>8. Accounts'
    BY <1>2, <2>6, <2>7 DEF Accounts, SysramIsFree
  <2>9. t \subseteq Firm => Pool!Claim
    BY <2>6 DEF Pool!Claim
  <2> QED BY <2>0, <2>1, <2>4, <2>6, <2>8, <2>9 DEF ListInv
<1> QED BY <1>3, <1>4

\* The -r options.
LEMMA OptionAvoidStep ==
  ASSUME ListInv, NEW b \in Resmem, OptionAvoid(b)
  PROVE  ListInv' /\ (Pool!Avoid \/ UNCHANGED Pool!vars) /\ ram' = ram
<1>1. b \in Requests
  BY BanksAssumption DEF Requests
<1>2. Avoid(b) /\ ram = << >>
  BY DEF OptionAvoid, Avoid
<1>3. Added = {}
  BY <1>2, NothingAdded DEF ListInv
<1> QED BY <1>1, <1>2, <1>3, AvoidStep

LEMMA OptionAllocStep ==
  ASSUME ListInv, NEW b \in Resmem, OptionAlloc(b)
  PROVE  ListInv' /\ (Pool!Claim \/ UNCHANGED Pool!vars) /\ ram' = ram
<1>1. b \in Requests
  BY BanksAssumption DEF Requests
<1>2. Alloc(b) /\ ~ sysram_added /\ b \in resmem.avoided
  BY DEF OptionAlloc, Alloc
<1>3. Block(b) \subseteq Firm
  BY <1>2 DEF Firm
<1> QED BY <1>1, <1>2, <1>3, AllocStep

LEMMA AddSysramStep ==
  ASSUME ListInv, AddSysram
  PROVE  ListInv' /\ UNCHANGED Pool!vars /\ Narrows
<1>1. Shape /\ Accounts
  BY DEF ListInv
<1>2. /\ sysram' = SysramOf(ram_list, ram) /\ sysram_added' = TRUE
      /\ UNCHANGED <<ram_list, avoid_list, ws_early_next, temp_syspage, ram, resmem, given, crashed>>
  BY DEF AddSysram, SysramOf
<1>3. ram_list \in Seq(Entry) /\ ram \in Seq(As)
  BY <1>1 DEF Shape, Lists
<1>4. sysram' \in Seq(As) /\ \A u \in Int : AsIn(sysram', u) <=> In(ram_list, u) /\ AsIn(ram, u)
  BY <1>2, <1>3, SysramDoes
<1>5. Shape'
  BY <1>1, <1>2, <1>4 DEF Shape
<1>6. AsOf(sysram') = FreeOf(ram_list) \cap AsOf(ram)
  BY <1>4 DEF AsOf, FreeOf
<1>7. /\ Free' = Free /\ Avoided' = Avoided /\ Added' = Added /\ Firm' = Firm
      /\ Held' = Held /\ Allocated' = Allocated /\ Sysram' = Free \cap Added
  BY <1>1, <1>2, <1>5, <1>6, Views, ViewsNext
<1>8. Claimed' = Claimed
  BY <1>2 DEF Claimed
<1>9. Accounts'
  BY <1>1, <1>7, <1>8 DEF Accounts, SysramIsFree
<1>10. Narrows
  BY <1>2, <1>7 DEF Narrows
<1> QED BY <1>5, <1>7, <1>9, <1>10 DEF Pool!vars, ListInv

\* The image lies behind startup.
LEMMA ImageIs ==
  /\ FullRamPaddr + StartupSize \in Nat /\ FullRamPaddr + RamSize \in Nat
  /\ FullRamPaddr + StartupSize <= FullRamPaddr + RamSize
  /\ \A u : u \in Image <=> u \in Int /\ FullRamPaddr + StartupSize <= u /\ u < FullRamPaddr + RamSize
BY SizesAssumption DEF Image, Units

\* The list add_ram() leaves.
LEMMA AddRamList ==
  ASSUME Shape, NEW b \in Requests, NEW more, NEW l,
         more = AddMem(ram_list, [addr |-> b[1], size |-> b[2]]),
         l = TakeOut(more, FullRamPaddr + StartupSize, FullRamPaddr + RamSize),
         ~ RamOverflow(ram_list),
         ~ (Splits(more, FullRamPaddr + StartupSize, FullRamPaddr + RamSize) /\ RamOverflow(more))
  PROVE  /\ l \in Lists /\ Len(l) + 1 <= MaxRamList
         /\ FreeOf(l) = (FreeOf(ram_list) \cup Block(b)) \ Image
<1> DEFINE r == [addr |-> b[1], size |-> b[2]]
           s == FullRamPaddr + StartupSize
           e == FullRamPaddr + RamSize
<1>1. b[1] \in Nat /\ b[2] \in Nat \ {0}
  BY DEF Requests
<1>2. r \in Range0 /\ r.addr = b[1] /\ End(r) = b[1] + b[2]
  BY <1>1 DEF Range0, End
<1>3. s \in Nat /\ e \in Nat /\ s <= e /\ \A u : u \in Image <=> u \in Int /\ s <= u /\ u < e
  BY ImageIs
<1>4. /\ more = AddMem(ram_list, r) /\ l = TakeOut(more, s, e)
      /\ ~ (Splits(more, s, e) /\ RamOverflow(more))
  OBVIOUS
<1> HIDE DEF r, s, e
<1>5. ram_list \in Lists /\ Len(ram_list) \in Nat /\ MaxRamList \in Nat
  BY SizesAssumption, ListIs DEF Shape
<1>6. /\ more \in Lists /\ Len(more) <= Len(ram_list) + 1
      /\ \A u \in Int : In(more, u) <=> In(ram_list, u) \/ (r.addr <= u /\ u < End(r))
  BY <1>2, <1>4, <1>5, AddMemDoes
<1>7. /\ l \in Lists /\ Len(l) <= Len(more) + 1
      /\ ~ Splits(more, s, e) => Len(l) <= Len(more)
      /\ \A u \in Int : In(l, u) <=> In(more, u) /\ ~ (s <= u /\ u < e)
  <2>1. /\ TakeOut(more, s, e) \in Lists /\ Len(TakeOut(more, s, e)) <= Len(more) + 1
        /\ ~ Splits(more, s, e) => Len(TakeOut(more, s, e)) <= Len(more)
        /\ \A u \in Int : In(TakeOut(more, s, e), u) <=> In(more, u) /\ ~ (s <= u /\ u < e)
    BY <1>3, <1>6, TakeOutDoes
  <2> QED BY <1>4, <2>1
<1>8. Len(l) \in Nat /\ Len(more) \in Nat
  BY <1>6, <1>7, ListIs
<1>9. Len(ram_list) + 1 <= MaxRamList - 1
  BY <1>5 DEF RamOverflow
<1>10. Len(l) + 1 <= MaxRamList
  <2>1. CASE Splits(more, s, e)
    <3>1. Len(more) + 1 <= MaxRamList - 1
      BY <1>4, <1>5, <1>8, <2>1 DEF RamOverflow
    <3> QED BY <1>5, <1>7, <1>8, <3>1
  <2>2. CASE ~ Splits(more, s, e)
    BY <1>5, <1>6, <1>7, <1>8, <1>9, <2>2
  <2> QED BY <2>1, <2>2
<1>11. \A u : u \in Block(b) <=> u \in Int /\ b[1] <= u /\ u < b[1] + b[2]
  BY <1>1 DEF Block, Units
<1>12. FreeOf(l) = (FreeOf(ram_list) \cup Block(b)) \ Image
  BY <1>2, <1>3, <1>6, <1>7, <1>11 DEF FreeOf
<1> QED BY <1>7, <1>10, <1>12

\* The "ram" entry of a bank.
LEMMA BankIsListed ==
  ASSUME Shape, NEW b \in Requests
  PROVE  LET m == Append(ram, [start |-> b[1], end |-> b[1] + b[2] - 1]) IN
         /\ m \in Seq(As) /\ \A i \in 1 .. Len(m) : m[i].start <= m[i].end
         /\ AsOf(m) = AsOf(ram) \cup Block(b)
<1> DEFINE x == [start |-> b[1], end |-> b[1] + b[2] - 1]
           m == Append(ram, x)
           n == Len(ram)
<1>1. b[1] \in Nat /\ b[2] \in Nat \ {0} /\ b[1] + b[2] - 1 \in Int
  BY DEF Requests
<1>2. ram \in Seq(As) /\ n \in Nat /\ \A i \in 1 .. n : ram[i] \in As /\ ram[i].start <= ram[i].end
  BY DEF Shape
<1>3. x \in As /\ x.start = b[1] /\ x.end = b[1] + b[2] - 1 /\ x.start <= x.end
  BY <1>1 DEF As
<1> HIDE DEF x
<1>4. m \in Seq(As) /\ \A u : AsIn(m, u) <=> AsIn(ram, u) \/ AsCovers(x, u)
  BY <1>2, <1>3, AppendAs
<1>5. Len(m) = n + 1 /\ m[n + 1] = x /\ \A i \in 1 .. n : m[i] = ram[i]
  BY <1>2, <1>3
<1> HIDE DEF m
<1>6. \A i \in 1 .. Len(m) : m[i].start <= m[i].end
  <2>1. 1 .. n + 1 = (1 .. n) \cup {n + 1}
    BY <1>2
  <2> HIDE DEF n
  <2> QED BY <1>2, <1>3, <1>5, <2>1
<1>7. \A u : u \in Block(b) <=> u \in Int /\ b[1] <= u /\ u < b[1] + b[2]
  BY <1>1 DEF Block, Units
<1>8. \A u \in Int : AsCovers(x, u) <=> u \in Block(b)
  BY <1>1, <1>3, <1>7 DEF AsCovers
<1>9. AsOf(m) = AsOf(ram) \cup Block(b)
  BY <1>4, <1>7, <1>8 DEF AsOf
<1> QED BY <1>4, <1>6, <1>9 DEF m, x

LEMMA AddRamStep ==
  ASSUME ListInv, NEW b \in Requests, AddRam(b), Added \cap Block(b) = {}
  PROVE  /\ ListInv' /\ (Pool!AddRam \/ UNCHANGED Pool!vars)
         /\ Firm' = Firm /\ UNCHANGED sysram_added
         /\ \/ crashed' /\ Added' = Added /\ UNCHANGED <<ram, temp_syspage, given>>
            \/ /\ crashed' = crashed /\ Added' = Added \cup Block(b)
               /\ ram' = Append(ram, [start |-> b[1], end |-> b[1] + b[2] - 1])
               /\ \/ UNCHANGED <<temp_syspage, given>>
                  \/ temp_syspage = NullPaddr /\ temp_syspage' # NullPaddr
                     /\ Give(temp_syspage', TempSize, "ws")
<1> DEFINE more == AddMem(ram_list, [addr |-> b[1], size |-> b[2]])
           s == FullRamPaddr + StartupSize
           e == FullRamPaddr + RamSize
           l == TakeOut(more, s, e)
           t == IF temp_syspage = NullPaddr THEN FindRam(l, avoid_list, TempSize, PageSize) ELSE NullPaddr
           none == t = NullPaddr
           T == IF none THEN {} ELSE Units(t, t + TempSize)
           fails == \/ RamOverflow(ram_list)
                    \/ Splits(more, s, e) /\ RamOverflow(more)
                    \/ t # NullPaddr /\ AvoidOverflow(AvoidRam(avoid_list, t, TempSize))
<1>1. Shape /\ Accounts
  BY DEF ListInv
<1>2. CASE fails
  <2>1. Crash
    BY <1>2 DEF AddRam
  <2> QED BY <2>1, CrashIs DEF Crash, Pool!vars
<1>3. CASE ~ fails
  <2>1. /\ ram_list' = l
        /\ ram' = Append(ram, [start |-> b[1], end |-> b[1] + b[2] - 1])
        /\ IF none THEN UNCHANGED <<avoid_list, temp_syspage, given>>
           ELSE /\ avoid_list' = AvoidRam(avoid_list, t, TempSize)
                /\ temp_syspage' = t
                /\ Give(t, TempSize, "ws")
        /\ UNCHANGED <<ws_early_next, sysram_added, sysram, resmem, crashed>>
        /\ ~ sysram_added /\ \A i \in 1 .. Len(ram) : ram[i].start # b[1]
    BY <1>3 DEF AddRam
  <2>2. TempSize \in Nat /\ TempSize \in Nat \ {0} /\ PageSize \in Nat \ {0} /\ NullPaddr \in Int
    BY SizesAssumption DEF NullPaddr
  <2>3. /\ l \in Lists /\ Len(l) + 1 <= MaxRamList
        /\ FreeOf(l) = (FreeOf(ram_list) \cup Block(b)) \ Image
    <3> HIDE DEF t, none
    <3> QED BY <1>1, <1>3, AddRamList
  <2> HIDE DEF l
  <2>4. /\ ram' \in Seq(As) /\ \A i \in 1 .. Len(ram') : ram'[i].start <= ram'[i].end
        /\ AsOf(ram') = AsOf(ram) \cup Block(b)
    BY <1>1, <2>1, BankIsListed
  <2>5. ~ none => t \in Nat /\ Fresh(l, avoid_list, t, TempSize)
    <3>1. avoid_list \in Holes
      BY <1>1 DEF Shape
    <3> QED BY <2>2, <2>3, <3>1, FindRamDoes
  <2>6. T \subseteq FreeOf(l) \ HolesOf(avoid_list) /\ (~ none => T # {})
    <3>1. CASE none
      BY <3>1
    <3>2. CASE ~ none
      <4> HIDE DEF t, none
      <4>1. T = Units(t, t + TempSize)
        BY <3>2
      <4> HIDE DEF T
      <4>2. \A u : u \in T <=> u \in t .. t + TempSize - 1
        BY <2>2, <2>5, <3>2, <4>1 DEF Units
      <4>3. t .. t + TempSize - 1 \subseteq Int /\ t \in t .. t + TempSize - 1
        BY <2>2, <2>5, <3>2
      <4> QED BY <2>5, <3>2, <4>2, <4>3 DEF Fresh, FreeOf, HolesOf
    <3> QED BY <3>1, <3>2
  <2>7. ~ none => ~ AvoidOverflow(AvoidRam(avoid_list, t, TempSize))
    BY <1>3
  <2> HIDE DEF t, fails
  <2>8. /\ avoid_list' \in Holes /\ Len(avoid_list') + 1 <= MaxAvoidList
        /\ HolesOf(avoid_list') = HolesOf(avoid_list) \cup T
    <3>1. CASE none
      BY <1>1, <2>1, <3>1 DEF Shape
    <3>2. CASE ~ none
      <4>1. T = Units(t, t + TempSize) /\ avoid_list' = AvoidRam(avoid_list, t, TempSize)
        BY <2>1, <3>2
      <4> HIDE DEF T, none
      <4> QED BY <1>1, <2>2, <2>5, <2>7, <3>2, <4>1, AvoidDoes
    <3> QED BY <3>1, <3>2
  <2>9. /\ given' \in Seq(Blk) /\ temp_syspage' \in Int
        /\ HeldOf(given') = HeldOf(given) \cup (IF none THEN {} ELSE {T})
        /\ AllocatedOf(given') = AllocatedOf(given) /\ EarlyOf(given') = EarlyOf(given)
    <3>0. given \in Seq(Blk) /\ temp_syspage \in Int
      BY <1>1 DEF Shape
    <3>1. CASE none
      BY <2>1, <3>0, <3>1
    <3>2. CASE ~ none
      <4>1. T = Units(t, t + TempSize) /\ temp_syspage' = t
            /\ given' = Append(given, [s |-> t, e |-> t + TempSize, kind |-> "ws"])
        BY <2>1, <3>2 DEF Give
      <4>2. "ws" \in Kinds /\ "ws" \in FoundKinds /\ "ws" # "early"
        BY DEF Kinds, FoundKinds
      <4> DEFINE kind == "ws"
      <4>3. kind \in Kinds /\ kind \in FoundKinds /\ kind # "early" /\ kind = "ws"
        BY <4>2
      <4> HIDE DEF T, none, kind
      <4>4. LET m == Append(given, [s |-> t, e |-> t + TempSize, kind |-> kind]) IN
          /\ m \in Seq(Blk)
          /\ HeldOf(m) = IF kind \in FoundKinds THEN HeldOf(given) \cup {Units(t, t + TempSize)} ELSE HeldOf(given)
          /\ AllocatedOf(m) = IF kind \in FoundKinds /\ kind # "ws" THEN AllocatedOf(given) \cup Units(t, t + TempSize)
                              ELSE AllocatedOf(given)
          /\ EarlyOf(m) = IF kind = "early" THEN EarlyOf(given) \cup Units(t, t + TempSize) ELSE EarlyOf(given)
        <5>1. t \in Nat /\ TempSize \in Nat /\ given \in Seq(Blk)
          BY <2>2, <2>5, <3>0, <3>2
        <5>2. kind \in Kinds
          BY <4>3
        <5> QED BY <5>1, <5>2, GivenMore, Zenon
      <4>5. t \in Int
        BY <2>5, <3>2
      <4> QED BY <3>2, <4>1, <4>3, <4>4, <4>5
    <3> QED BY <3>1, <3>2
  <2>10. Shape'
    BY <1>1, <2>1, <2>3, <2>4, <2>8, <2>9 DEF Shape
  <2> HIDE DEF T, none
  <2>11. FirmOf(resmem', given') = FirmOf(resmem, given)
    BY <2>1, <2>9 DEF FirmOf
  <2>12. /\ Free' = (Free \cup Block(b)) \ Image /\ Avoided' = Avoided \cup T
         /\ Added' = Added \cup Block(b) /\ Added \cap Block(b) = {} /\ Firm' = Firm
         /\ Held' = Held \cup (IF none THEN {} ELSE {T}) /\ Allocated' = Allocated
         /\ T \subseteq Free' \ Avoided /\ (~ none => T # {}) /\ (none => T = {})
    <3>1. none => T = {}
      BY DEF T
    <3> QED BY <1>1, <2>1, <2>3, <2>4, <2>6, <2>8, <2>9, <2>10, <2>11, <3>1, Views, ViewsNext
  <2>13. Claimed' = Claimed /\ ~ sysram_added'
    BY <2>1 DEF Claimed
  <2>14. Block(b) # {}
    <3>1. b[1] \in Nat /\ b[2] \in Nat \ {0}
      BY DEF Requests
    <3>2. b[1] \in Block(b)
      BY <3>1 DEF Block, Units
    <3> QED BY <3>2
  <2>15. Accounts'
    BY <1>1, <2>12, <2>13, <2>14 DEF Accounts, SysramIsFree
  <2>16. Pool!AddRam
    <3>1. Added' \ Added = Block(b) /\ Avoided' \ Avoided = T
      BY <2>12
    <3>2. Held' = Held \cup ({T} \ {{}})
      BY <2>12
    <3> QED BY <2>12, <3>1, <3>2 DEF Pool!AddRam
  <2>17. \/ UNCHANGED <<temp_syspage, given>>
         \/ temp_syspage = NullPaddr /\ temp_syspage' # NullPaddr
            /\ Give(temp_syspage', TempSize, "ws")
    <3>1. CASE none
      BY <2>1, <3>1 DEF none
    <3>2. CASE ~ none
      <4>1. temp_syspage' = t /\ Give(t, TempSize, "ws") /\ t # NullPaddr
        BY <2>1, <3>2 DEF none
      <4>2. temp_syspage = NullPaddr
        BY <4>1 DEF t
      <4> QED BY <4>1, <4>2
    <3> QED BY <3>1, <3>2
  <2> QED BY <2>1, <2>10, <2>12, <2>15, <2>16, <2>17 DEF ListInv
<1> QED BY <1>2, <1>3

-----------------------------------------------------------------------------
(* The pool                                                                *)

\* Exclusive is not inductive: that a new block is free of the old ones
\* rests on Withdrawn.
PoolInv == Pool!TypeOK /\ Pool!Exclusive /\ Pool!Withdrawn /\ Free \cap Image = {}

\* Memory that is free and not avoided belongs to no caller.
LEMMA FreshIsExclusive ==
  ASSUME PoolInv, NEW t, t \subseteq Free \ Avoided
  PROVE  /\ \A s \in Held : s \cap t = {}
         /\ t \cap Firm = {} /\ t \cap Image = {}
BY DEF PoolInv, Pool!TypeOK, Pool!Withdrawn

LEMMA PoolInit == Pool!Init => PoolInv
BY DEF Pool!Init, PoolInv, Pool!TypeOK, Pool!Exclusive, Pool!Withdrawn

LEMMA PoolNext == PoolInv /\ [Pool!Next]_(Pool!vars) => PoolInv'
<1> SUFFICES ASSUME PoolInv, [Pool!Next]_(Pool!vars) PROVE PoolInv'
  OBVIOUS
<1> USE DEF Pool!TypeOK, Pool!Withdrawn
<1>1. ASSUME Pool!Avoid PROVE PoolInv'
  <2>1. \A t \in Held : t = {}
    BY <1>1 DEF Pool!Avoid, PoolInv
  <2> QED BY <1>1, <2>1 DEF Pool!Avoid, PoolInv, Pool!Exclusive
<1>2. ASSUME Pool!AddRam PROVE PoolInv'
  <2> DEFINE b == Added' \ Added
             t == Avoided' \ Avoided
  <2>1. /\ Added' = Added \cup b /\ b \cap Added = {}
        /\ Avoided' = Avoided \cup t /\ t \cap Avoided = {}
        /\ Free' = (Free \cup b) \ Image /\ t \subseteq Free'
        /\ Held' = Held \cup ({t} \ {{}}) /\ Firm' = Firm
    BY <1>2 DEF Pool!AddRam
  <2> HIDE DEF b, t
  <2>2. Pool!TypeOK'
    BY <2>1 DEF PoolInv
  <2>3. \A s \in Held : s \cap t = {}
    BY <2>1 DEF PoolInv
  <2>4. t \cap Firm = {} /\ t \cap Image = {}
    BY <2>1 DEF PoolInv
  <2>5. Pool!Exclusive'
    BY <2>1, <2>3, <2>4 DEF PoolInv, Pool!Exclusive
  <2>6. Pool!Withdrawn' /\ (Free \cap Image = {})'
    BY <2>1 DEF PoolInv
  <2> QED BY <2>2, <2>5, <2>6 DEF PoolInv
<1>3. ASSUME Pool!Alloc PROVE PoolInv'
  <2>1. Pool!TypeOK' /\ Pool!Withdrawn' /\ (Free \cap Image = {})'
    BY <1>3 DEF Pool!Alloc, PoolInv
  <2>2. Pool!Exclusive'
    BY <1>3, FreshIsExclusive DEF Pool!Alloc, PoolInv, Pool!Exclusive
  <2> QED BY <2>1, <2>2 DEF PoolInv
<1>4. ASSUME Pool!Workspace PROVE PoolInv'
  <2>1. Pool!TypeOK' /\ Pool!Withdrawn' /\ (Free \cap Image = {})'
    BY <1>4 DEF Pool!Workspace, PoolInv
  <2>2. Pool!Exclusive'
    BY <1>4, FreshIsExclusive DEF Pool!Workspace, PoolInv, Pool!Exclusive
  <2> QED BY <2>1, <2>2 DEF PoolInv
<1>5. ASSUME Pool!EarlyWorkspace PROVE PoolInv'
  <2>1. Pool!TypeOK' /\ Pool!Withdrawn' /\ (Free \cap Image = {})'
    BY <1>5 DEF Pool!EarlyWorkspace, PoolInv
  <2>2. Added = {} => \A s \in Held : s = {}
    BY DEF PoolInv
  <2>3. Pool!Exclusive'
    BY <1>5, <2>2 DEF Pool!EarlyWorkspace, PoolInv, Pool!Exclusive
  <2> QED BY <2>1, <2>3 DEF PoolInv
<1>6. ASSUME Pool!Claim PROVE PoolInv'
  BY <1>6 DEF Pool!Claim, PoolInv, Pool!Exclusive
<1>7. CASE UNCHANGED Pool!vars
  BY <1>7 DEF Pool!vars, PoolInv, Pool!Exclusive
<1> QED BY <1>1, <1>2, <1>3, <1>4, <1>5, <1>6, <1>7 DEF Pool!Next

\* Memory found in the pool belongs to one caller only, and is neither the
\* boot image nor memory that was avoided before: any implementation of the
\* pool that the lists could be has this.
THEOREM PoolIsExclusive == Pool!Spec => []Pool!Exclusive
<1>1. PoolInv => Pool!Exclusive
  BY DEF PoolInv
<1> QED BY <1>1, PoolInit, PoolNext, PTL DEF Pool!Spec

-----------------------------------------------------------------------------
(* The RAM manager                                                         *)

\* All "ram" entries are banks of the board.
BankOf(x) == \E c \in Bank : x = [start |-> c[1], end |-> c[1] + c[2] - 1]
BanksOnly == \A i \in 1 .. Len(ram) : BankOf(ram[i])
Inv == ListInv /\ BanksOnly /\ PoolInv

\* What ws_init() leaves.
LEMMA InitInv == Init => ListInv /\ BanksOnly /\ Pool!Init
<1> SUFFICES ASSUME Init PROVE ListInv /\ BanksOnly /\ Pool!Init
  OBVIOUS
<1> DEFINE x == [start |-> FullRamPaddr + RamSize, end |-> FullRamPaddr + RamSize + 2]
           y == [start |-> FullRamPaddr, end |-> FullRamPaddr + StartupSize]
<1>1. /\ avoid_list = <<x, y>> /\ ram_list = << >> /\ ram = << >> /\ sysram = << >>
      /\ given = << >> /\ resmem = [avoided |-> {}, allocated |-> {}] /\ temp_syspage \in Int
      /\ sysram_added = FALSE /\ crashed = FALSE /\ ws_early_next = FullRamPaddr + RamSize + 2
  BY DEF Init, NullPaddr
<1>2. /\ x \in Hole /\ x.start = FullRamPaddr + RamSize /\ x.end = FullRamPaddr + RamSize + 2
      /\ y \in Hole /\ y.start = FullRamPaddr /\ y.end = FullRamPaddr + StartupSize
      /\ x.start <= x.end /\ y.start <= y.end /\ ws_early_next \in Nat
  BY <1>1, SizesAssumption DEF Hole
<1> HIDE DEF x, y
<1>3. /\ avoid_list \in Seq(Hole) /\ Len(avoid_list) = 2 /\ 1 .. 2 = {1, 2}
      /\ avoid_list[1] = x /\ avoid_list[2] = y
  BY <1>1, <1>2
<1>4. avoid_list \in Holes /\ Len(avoid_list) + 1 <= MaxAvoidList
  <2>1. \A i \in 1 .. Len(avoid_list) : avoid_list[i].start <= avoid_list[i].end
    BY <1>2, <1>3
  <2>2. avoid_list # << >>
    BY <1>1
  <2>3. avoid_list \in Holes
    BY <1>3, <2>1, <2>2 DEF Holes
  <2>4. 2 + 1 <= MaxAvoidList
    BY SizesAssumption
  <2> QED BY <1>3, <2>3, <2>4
<1>5. ram_list \in Lists /\ Len(ram_list) + 1 <= MaxRamList
  BY <1>1, SizesAssumption DEF Lists, Apart
<1>6. Shape
  <2>1. ram \in Seq(As) /\ sysram \in Seq(As) /\ given \in Seq(Blk)
        /\ \A i \in 1 .. Len(ram) : ram[i].start <= ram[i].end
    BY <1>1
  <2>2. resmem \in [avoided : SUBSET Requests, allocated : SUBSET Requests]
    BY <1>1
  <2>3. sysram_added \in BOOLEAN /\ crashed \in BOOLEAN
    BY <1>1
  <2> QED BY <1>1, <1>2, <1>4, <1>5, <2>1, <2>2, <2>3 DEF Shape
<1>7. /\ FreeOf(ram_list) = {} /\ AsOf(ram) = {} /\ HeldOf(given) = {}
      /\ AllocatedOf(given) = {} /\ EarlyOf(given) = {}
  BY <1>1 DEF FreeOf, In, AsOf, AsIn, HeldOf, AllocatedOf, EarlyOf
<1>8. FirmOf(resmem, given) = Base
  <2>1. UNION {Block(b) : b \in resmem.avoided} = {}
    BY <1>1
  <2> QED BY <1>7, <2>1 DEF FirmOf
<1>9. HolesOf(avoid_list) = Base
  <2>1. \A u : u \in Base <=> u \in Int /\ ((x.start <= u /\ u < x.end) \/ (y.start <= u /\ u < y.end))
    BY <1>2, SizesAssumption DEF Base, Units
  <2> QED BY <1>3, <2>1 DEF HolesOf, InHole
<1>10. Free = {} /\ Added = {} /\ Held = {} /\ Allocated = {} /\ Avoided = Firm
  BY <1>6, <1>7, <1>8, <1>9, Views
<1>11. Accounts
  BY <1>1, <1>10 DEF Accounts, SysramIsFree
<1>12. Pool!Init
  BY <1>10 DEF Pool!Init
<1>13. BanksOnly
  BY <1>1 DEF BanksOnly
<1> QED BY <1>6, <1>11, <1>12, <1>13 DEF ListInv

\* A bank that no entry starts with is new memory.
LEMMA BankIsNew ==
  ASSUME Shape, BanksOnly, NEW b \in Bank, \A i \in 1 .. Len(ram) : ram[i].start # b[1]
  PROVE  b \in Requests /\ Added \cap Block(b) = {}
<1>1. b \in Requests
  BY BanksAssumption DEF Requests
<1>2. ASSUME NEW u \in Int, NEW i \in 1 .. Len(ram), AsCovers(ram[i], u) PROVE u \notin Block(b)
  <2>1. PICK c \in Bank : ram[i] = [start |-> c[1], end |-> c[1] + c[2] - 1]
    BY DEF BanksOnly, BankOf
  <2>2. ram[i].start = c[1] /\ ram[i].end = c[1] + c[2] - 1 /\ c[1] \in Nat /\ c[2] \in Nat \ {0}
    BY <2>1, BanksAssumption
  <2>3. c # b
    BY <2>2
  <2>4. u \in Block(c)
    BY <1>2, <2>2 DEF AsCovers, Block, Units
  <2> QED BY <2>3, <2>4, BanksAssumption
<1>3. AsOf(ram) \cap Block(b) = {}
  BY <1>2 DEF AsOf, AsIn
<1> QED BY <1>1, <1>3, Views

\* Every call keeps the lists in order and is a step of the pool.
LEMMA NextStep ==
  ASSUME ListInv, BanksOnly, Next
  PROVE  /\ ListInv' /\ BanksOnly'
         /\ Pool!Withdrawn => [Pool!Next]_(Pool!vars)
<1> DEFINE Step == ListInv' /\ BanksOnly' /\ (Pool!Withdrawn => [Pool!Next]_(Pool!vars))
<1>0. ram' = ram => BanksOnly'
  BY DEF BanksOnly
<1>1. ASSUME NEW b \in Resmem, OptionAvoid(b) PROVE Step
  BY <1>0, <1>1, OptionAvoidStep DEF Pool!Next
<1>2. ASSUME NEW b \in Resmem, OptionAlloc(b) PROVE Step
  BY <1>0, <1>2, OptionAllocStep DEF Pool!Next
<1>3. ASSUME NEW b \in Bank, AddRam(b) PROVE Step
  <2>1. Shape /\ \A i \in 1 .. Len(ram) : ram[i].start # b[1]
    BY <1>3 DEF ListInv, AddRam
  <2>2. b \in Requests /\ Added \cap Block(b) = {}
    BY <2>1, BankIsNew
  <2>3. /\ ListInv' /\ (Pool!AddRam \/ UNCHANGED Pool!vars)
        /\ \/ ram' = ram
           \/ ram' = Append(ram, [start |-> b[1], end |-> b[1] + b[2] - 1])
    BY <1>3, <2>2, AddRamStep
  <2>4. ASSUME ram' = Append(ram, [start |-> b[1], end |-> b[1] + b[2] - 1]) PROVE BanksOnly'
    <3> DEFINE x == [start |-> b[1], end |-> b[1] + b[2] - 1]
    <3>1. BankOf(x)
      BY DEF BankOf
    <3> HIDE DEF x
    <3>2. ram \in Seq(As) /\ ram' = Append(ram, x)
      BY <2>1, <2>4 DEF Shape, x
    <3>3. Len(ram') = Len(ram) + 1 /\ ram'[Len(ram) + 1] = x /\ Len(ram) \in Nat
          /\ \A i \in 1 .. Len(ram) : ram'[i] = ram[i]
      BY <3>2
    <3>4. \A i \in 1 .. Len(ram') : BankOf(ram'[i])
      <4>1. 1 .. Len(ram) + 1 = (1 .. Len(ram)) \cup {Len(ram) + 1}
        BY <3>3
      <4> QED BY <3>1, <3>3, <4>1 DEF BanksOnly
    <3> QED BY <3>4 DEF BanksOnly, BankOf
  <2> QED BY <1>0, <2>3, <2>4 DEF Pool!Next
<1>4. ASSUME NEW q \in AllocReq, AllocRam(q) PROVE Step
  BY <1>0, <1>4, AllocRamStep DEF Pool!Next, Narrows
<1>5. ASSUME NEW n \in WsReq, WsAlloc(n) PROVE Step
  BY <1>0, <1>5, WsAllocStep DEF Pool!Next, Narrows
<1>6. ASSUME NEW q \in ReserveReq, ReserveRam(q) PROVE Step
  BY <1>0, <1>6, ReserveRamStep DEF Pool!Next, Narrows
<1>7. ASSUME InitMitigationMem PROVE Step
  BY <1>0, <1>7, InitMitigationMemStep DEF Pool!Next, Narrows
<1>8. ASSUME AddSysram PROVE Step
  BY <1>0, <1>8, AddSysramStep DEF Narrows
<1> HIDE DEF Step
<1>9. Step
  BY <1>1, <1>2, <1>3, <1>4, <1>5, <1>6, <1>7, <1>8 DEF Next
<1> QED BY <1>9 DEF Step

\* A step that leaves the RAM manager alone.
LEMMA StutterStep ==
  ASSUME ListInv, UNCHANGED vars
  PROVE  /\ ListInv' /\ UNCHANGED Pool!vars /\ (BanksOnly => BanksOnly')
         /\ Free' = Free /\ Avoided' = Avoided /\ Added' = Added /\ Firm' = Firm /\ Held' = Held
<1>1. /\ Free' = Free /\ Avoided' = Avoided /\ Added' = Added /\ Firm' = Firm
      /\ Held' = Held /\ Allocated' = Allocated /\ Sysram' = Sysram /\ Claimed' = Claimed
  BY DEF vars, Free, Avoided, Added, Firm, Held, Allocated, Sysram, Claimed, Found, Given
<1>2. Shape'
  BY DEF vars, ListInv, Shape
<1>3. Accounts'
  BY <1>1 DEF vars, ListInv, Accounts, SysramIsFree
<1>4. BanksOnly => BanksOnly'
  BY DEF vars, BanksOnly
<1> QED BY <1>1, <1>2, <1>3, <1>4 DEF Pool!vars, ListInv

LEMMA NextInv == Inv /\ [Next]_vars => Inv' /\ [Pool!Next]_(Pool!vars)
<1> SUFFICES ASSUME Inv, [Next]_vars PROVE Inv' /\ [Pool!Next]_(Pool!vars)
  OBVIOUS
<1>1. ListInv' /\ BanksOnly' /\ [Pool!Next]_(Pool!vars)
  <2>1. CASE Next
    BY <2>1, NextStep DEF Inv, PoolInv
  <2>2. CASE UNCHANGED vars
    BY <2>2, StutterStep DEF Inv
  <2> QED BY <2>1, <2>2
<1>2. PoolInv'
  BY <1>1, PoolNext DEF Inv
<1> QED BY <1>1, <1>2 DEF Inv

\* The lists implement the pool of RamPool: whatever banks are added and in
\* whatever order, what add_ram(), alloc_ram(), ws_alloc(), reserve_ram()
\* and the -r options do to them is a step of the pool or none.
THEOREM ImplementsPool == Spec => Pool!Spec
<1>1. Init => Inv /\ Pool!Init
  BY InitInv, PoolInit DEF Inv
<1>2. Inv /\ [Next]_vars => Inv' /\ [Pool!Next]_(Pool!vars)
  BY NextInv
<1> QED BY <1>1, <1>2, PTL DEF Spec, Pool!Spec

\* Memory that ram.c finds for a caller is that caller's alone, and neither
\* the boot image nor memory that was reserved before RAM was known.
THEOREM MemoryIsExclusive == Spec => []Pool!Exclusive
BY ImplementsPool, PoolIsExclusive, PTL

\* The parts of MemoryExact.
LEMMA ListsAreExact == ListInv => MemoryExact
<1> SUFFICES ASSUME ListInv PROVE MemoryExact
  OBVIOUS
<1>1. Shape /\ Accounts
  BY DEF ListInv
<1>2. /\ ram_list \in Lists /\ avoid_list \in Seq(Hole)
      /\ resmem.avoided \cup resmem.allocated \subseteq Nat \X Nat
  BY <1>1 DEF Shape, Holes, Requests
<1>3. \A r \in SetOf(ram_list) : r.addr \in Nat /\ r.size \in Nat \ {0}
  BY <1>2, ListIs DEF SetOf
<1>4. \A a \in SetOf(avoid_list) : a.start \in Nat /\ a.end \in Nat \ {0}
  <2>1. \A a \in SetOf(avoid_list) : a \in Hole
    BY <1>2 DEF SetOf
  <2> QED BY <2>1 DEF Hole
<1>5. TypeOK
  BY <1>1, <1>2, <1>3, <1>4 DEF TypeOK, Shape
<1>6. \A i \in 1 .. Len(ram_list) - 1 : End(ram_list[i]) < ram_list[i + 1].addr
  <2>1. Len(ram_list) \in Nat /\ Apart(ram_list)
    BY <1>2, ListIs
  <2> QED BY <2>1 DEF Apart
<1>7. Conserved
  BY <1>1, <1>6 DEF Conserved, Accounts, Claimed
<1> QED BY <1>1, <1>5, <1>7 DEF MemoryExact, Accounts

-----------------------------------------------------------------------------
(* What the firmware tells                                                 *)

Stretch == [start : Nat, size : Nat]
Desc == [type : STRING, start : Nat, size : Nat]

\* Descriptors are picked out of a map one after the other.
Picked(l, d, T) == IF d.type \in T THEN Append(l, d) ELSE l
LEMMA PickLoop ==
  ASSUME NEW m \in Seq(Desc), NEW T
  PROVE  \E h \in [0 .. Len(m) -> Seq(Desc)] :
           /\ h[0] = << >> /\ h[Len(m)] = OfType(m, T)
           /\ \A k \in 1 .. Len(m) : h[k] = Picked(h[k - 1], m[k], T)
<1> DEFINE n == Len(m)
           D == Seq(Desc)
           step == [i \in 1 .. n |-> [d \in D |-> Picked(d, m[i], T)]]
           It(it) == it = [t \in SUBSET DOMAIN m |-> IF t = {} THEN << >>
                                ELSE Picked(it[t \ {Max(t)}], m[Max(t)], T)]
           iter == CHOOSE it : It(it)
<1>1. ASSUME NEW d \in D, NEW x \in Desc PROVE Picked(d, x, T) \in D
  BY DEF Picked
<1>2. DOMAIN m = 1 .. n /\ n \in Nat /\ << >> \in D /\ \A i \in 1 .. n : m[i] \in Desc
  <2>1. << >> \in D
    OBVIOUS
  <2> HIDE DEF D
  <2> QED BY <2>1
<1> HIDE DEF n, D
<1>3. step \in [1 .. n -> [D -> D]]
  BY <1>1, <1>2
<1>4. \A i \in 1 .. n : \A d \in D : step[i][d] = Picked(d, m[i], T)
  OBVIOUS
<1> HIDE DEF step
<1>5. PICK g \in [SUBSET (1 .. n) -> D] : IsGraph(g, n, << >>, step)
  BY <1>2, <1>3, FoldGraph
<1>6. ASSUME NEW t \in SUBSET (1 .. n), t # {} PROVE Max(t) \in 1 .. n /\ g[t \ {Max(t)}] \in D
  BY <1>2, <1>6, MaxIn
<1>7. It(g)
  BY <1>2, <1>4, <1>5, <1>6 DEF IsGraph
<1>8. It(iter)
  <2> HIDE DEF It
  <2> QED BY <1>7
<1>9. OfType(m, T) = iter[1 .. n]
  <2>1. OfType(m, T) = iter[DOMAIN m]
    BY DEF OfType, Picked, FoldLeft, MapThenFoldSet
  <2> QED BY <1>2, <2>1
<1> HIDE DEF iter
<1>10. iter[{}] = << >>
  BY <1>8
<1>11. ASSUME NEW t \in SUBSET (1 .. n), t # {}, iter[t \ {Max(t)}] \in D
       PROVE  iter[t] = step[Max(t)][iter[t \ {Max(t)}]]
  <2>1. iter[t] = Picked(iter[t \ {Max(t)}], m[Max(t)], T)
    BY <1>2, <1>8, <1>11
  <2> QED BY <1>4, <1>6, <1>11, <2>1
<1>12. PICK h \in [0 .. n -> D] : Runs(h, n, << >>, step) /\ h[n] = iter[1 .. n]
  <2>1. Iterates(iter, n, D, << >>, step)
    BY <1>10, <1>11 DEF Iterates
  <2>2. Folding(iter, n, D, << >>, step)
    BY <1>2, <1>3, <2>1 DEF Folding
  <2> QED BY <2>2, FoldSteps
<1>13. ASSUME NEW k \in 1 .. n PROVE h[k] = Picked(h[k - 1], m[k], T)
  <2>1. h[k - 1] \in D
    BY <1>2
  <2> QED BY <1>4, <1>12, <2>1 DEF Runs
<1> QED BY <1>9, <1>12, <1>13 DEF n, D, Runs

\* The memory of the descriptors of some types.
CoverOf(m, T) == UNION {Extent(d) : d \in {x \in SetOf(m) : x.type \in T}}

LEMMA OfTypeDoes ==
  ASSUME NEW m \in Seq(Desc), Disjoint(m), NEW T
  PROVE  LET l == OfType(m, T) IN
         /\ l \in Seq(Desc) /\ Disjoint(l) /\ SetOf(l) = {x \in SetOf(m) : x.type \in T}
         /\ Cover(l) = CoverOf(m, T)
<1> DEFINE n == Len(m)
<1>0. n \in Nat /\ \A i \in 1 .. n : m[i] \in Desc
  OBVIOUS
<1>1. PICK h \in [0 .. n -> Seq(Desc)] :
        /\ h[0] = << >> /\ h[n] = OfType(m, T)
        /\ \A k \in 1 .. n : h[k] = Picked(h[k - 1], m[k], T)
  BY PickLoop
<1> DEFINE Some(k) == {x \in {m[i] : i \in 1 .. k} : x.type \in T}
           Good(k) == Disjoint(h[k]) /\ SetOf(h[k]) = Some(k)
           S == {k \in Nat : k <= n => Good(k)}
<1>2. Good(0)
  BY <1>1 DEF Disjoint, SetOf
<1>3. ASSUME NEW k \in Nat, k + 1 <= n, Good(k) PROVE Good(k + 1)
  <2>1. k + 1 \in 1 .. n /\ k \in 0 .. n /\ (k + 1) - 1 = k
    BY <1>0, <1>3
  <2>2. h[k + 1] = Picked(h[k], m[k + 1], T) /\ h[k] \in Seq(Desc) /\ m[k + 1] \in Desc
    BY <1>0, <1>1, <2>1
  <2>3. 1 .. k + 1 = (1 .. k) \cup {k + 1}
    OBVIOUS
  <2>4. CASE m[k + 1].type \notin T
    BY <1>3, <2>2, <2>3, <2>4 DEF Picked
  <2>5. CASE m[k + 1].type \in T
    <3> DEFINE d == m[k + 1]
               l == h[k]
               q == Append(l, d)
               j == Len(l)
    <3>1. /\ q \in Seq(Desc) /\ Len(q) = j + 1 /\ j \in Nat /\ q[j + 1] = d
          /\ \A i \in 1 .. j : q[i] = l[i]
      BY <2>2
    <3>2. h[k + 1] = q
      BY <2>2, <2>5 DEF Picked
    <3>3. ASSUME NEW i \in 1 .. j PROVE Extent(l[i]) \cap Extent(d) = {}
      <4>1. l[i] \in SetOf(l)
        BY DEF SetOf
      <4>2. PICK z \in 1 .. k : l[i] = m[z]
        BY <1>3, <4>1
      <4>3. z \in 1 .. n /\ z # k + 1
        BY <2>1
      <4> QED BY <2>1, <4>2, <4>3 DEF Disjoint
    <3>4. 1 .. j + 1 = (1 .. j) \cup {j + 1}
      BY <3>1
    <3> HIDE DEF q, j
    <3>5. Disjoint(q)
      <4> SUFFICES ASSUME NEW a \in 1 .. j + 1, NEW b \in 1 .. j + 1, a # b
                   PROVE  Extent(q[a]) \cap Extent(q[b]) = {}
        BY <3>1 DEF Disjoint
      <4>1. CASE a \in 1 .. j /\ b \in 1 .. j
        BY <1>3, <3>1, <4>1 DEF Disjoint, j
      <4>2. CASE a = j + 1 /\ b \in 1 .. j
        BY <3>1, <3>3, <4>2
      <4>3. CASE b = j + 1 /\ a \in 1 .. j
        BY <3>1, <3>3, <4>3
      <4> QED BY <3>4, <4>1, <4>2, <4>3
    <3>6. SetOf(q) = SetOf(l) \cup {d}
      <4> SUFFICES ASSUME NEW x PROVE x \in SetOf(q) <=> x \in SetOf(l) \/ x = d
        OBVIOUS
      <4>1. x \in SetOf(q) <=> \E i \in 1 .. j + 1 : x = q[i]
        BY <3>1 DEF SetOf
      <4>2. x \in SetOf(l) <=> \E i \in 1 .. j : x = l[i]
        BY DEF SetOf, j
      <4> QED BY <3>1, <3>4, <4>1, <4>2
    <3>7. Some(k + 1) = Some(k) \cup {d}
      BY <2>3, <2>5
    <3> QED BY <1>3, <3>2, <3>5, <3>6, <3>7
  <2> QED BY <2>4, <2>5
<1> HIDE DEF Good
<1>4. 0 \in S
  BY <1>2
<1>5. ASSUME NEW k \in Nat, k \in S PROVE k + 1 \in S
  <2>1. k + 1 <= n => k <= n
    BY <1>0
  <2> QED BY <1>3, <1>5, <2>1
<1> HIDE DEF S
<1>6. \A k \in Nat : k \in S
  BY <1>4, <1>5, Induct
<1>7. Good(n)
  BY <1>0, <1>6 DEF S
<1>8. OfType(m, T) \in Seq(Desc)
  BY <1>0, <1>1
<1>9. SetOf(OfType(m, T)) = {x \in SetOf(m) : x.type \in T} /\ Disjoint(OfType(m, T))
  BY <1>1, <1>7 DEF Good, SetOf
<1> HIDE DEF n
<1>10. Cover(OfType(m, T)) = CoverOf(m, T)
  BY <1>9 DEF Cover, CoverOf, SetOf
<1> QED BY <1>8, <1>9, <1>10

\* A sequence without its last element.
LEMMA FrontIs ==
  ASSUME NEW X, NEW l \in Seq(X), l # << >>
  PROVE  /\ Front(l) \in Seq(X) /\ Len(Front(l)) = Len(l) - 1 /\ Len(l) \in Nat \ {0}
         /\ \A i \in 1 .. Len(l) - 1 : Front(l)[i] = l[i]
         /\ Last(l) = l[Len(l)] /\ Last(l) \in X
<1> DEFINE n == Len(l)
<1>1. n \in Nat /\ n >= 1 /\ 1 \in Int /\ n - 1 \in Int /\ \A i \in 1 .. n : l[i] \in X
  OBVIOUS
<1>2. Front(l) = SubSeq(l, 1, n - 1) /\ Last(l) = l[n]
  BY DEF Front, Last
<1> HIDE DEF n
<1>3. \A i \in 1 .. n - 1 : l[i] \in X
  BY <1>1
<1>4. /\ SubSeq(l, 1, n - 1) \in Seq(X)
      /\ Len(SubSeq(l, 1, n - 1)) = IF 1 <= n - 1 THEN (n - 1) - 1 + 1 ELSE 0
      /\ \A i \in 1 .. (n - 1) - 1 + 1 : SubSeq(l, 1, n - 1)[i] = l[1 + i - 1]
  BY <1>1, <1>3, SubSeqProperties
<1>5. (IF 1 <= n - 1 THEN (n - 1) - 1 + 1 ELSE 0) = n - 1 /\ (n - 1) - 1 + 1 = n - 1
      /\ \A i \in 1 .. n - 1 : 1 + i - 1 = i
  BY <1>1
<1>6. /\ Front(l) \in Seq(X) /\ Len(Front(l)) = n - 1
      /\ \A i \in 1 .. n - 1 : Front(l)[i] = l[i]
  BY <1>2, <1>4, <1>5
<1>7. Last(l) \in X
  BY <1>1, <1>2
<1> QED BY <1>1, <1>2, <1>6, <1>7 DEF n

\* One more range than those of l.
LEMMA MoreCover ==
  ASSUME NEW X, NEW l \in Seq(X), NEW d \in X
  PROVE  /\ Append(l, d) \in Seq(X) /\ Cover(Append(l, d)) = Cover(l) \cup Extent(d)
         /\ Disjoint(l) /\ Cover(l) \cap Extent(d) = {} => Disjoint(Append(l, d))
<1> DEFINE q == Append(l, d)
           n == Len(l)
<1>1. /\ q \in Seq(X) /\ Len(q) = n + 1 /\ n \in Nat /\ q[n + 1] = d
      /\ \A i \in 1 .. n : q[i] = l[i]
  OBVIOUS
<1>2. 1 .. n + 1 = (1 .. n) \cup {n + 1}
  BY <1>1
<1> HIDE DEF q
<1>3. Cover(q) = Cover(l) \cup Extent(d)
  BY <1>1, <1>2 DEF Cover, n
<1>4. ASSUME Disjoint(l), Cover(l) \cap Extent(d) = {} PROVE Disjoint(q)
  <2> SUFFICES ASSUME NEW i \in 1 .. n + 1, NEW j \in 1 .. n + 1, i # j
               PROVE  Extent(q[i]) \cap Extent(q[j]) = {}
    BY <1>1 DEF Disjoint
  <2>0. \A k \in 1 .. n : Extent(l[k]) \cap Extent(d) = {}
    BY <1>4 DEF Cover, n
  <2>1. CASE i \in 1 .. n /\ j \in 1 .. n
    BY <1>1, <1>4, <2>1 DEF Disjoint, n
  <2>2. CASE i \in 1 .. n /\ j = n + 1
    BY <1>1, <2>0, <2>2
  <2>3. CASE i = n + 1 /\ j \in 1 .. n
    BY <1>1, <2>0, <2>3
  <2> QED BY <1>2, <2>1, <2>2, <2>3
<1> QED BY <1>1, <1>3, <1>4 DEF q

LEMMA FrontCover ==
  ASSUME NEW X, NEW l \in Seq(X), l # << >>, Disjoint(l)
  PROVE  /\ Disjoint(Front(l)) /\ Cover(Front(l)) \cap Extent(Last(l)) = {}
         /\ Cover(l) = Cover(Front(l)) \cup Extent(Last(l))
<1> DEFINE n == Len(l)
           f == Front(l)
<1>1. /\ f \in Seq(X) /\ Len(f) = n - 1 /\ n \in Nat \ {0} /\ Last(l) = l[n]
      /\ \A i \in 1 .. n - 1 : f[i] = l[i]
  BY FrontIs
<1>2. 1 .. n = (1 .. n - 1) \cup {n} /\ n \notin 1 .. n - 1
  BY <1>1
<1> HIDE DEF f
<1>3. Disjoint(f)
  BY <1>1, <1>2 DEF Disjoint, n
<1>4. \A i \in 1 .. n - 1 : Extent(f[i]) \cap Extent(l[n]) = {}
  BY <1>1, <1>2 DEF Disjoint, n
<1>5. Cover(f) \cap Extent(l[n]) = {}
  BY <1>1, <1>4 DEF Cover
<1>6. Cover(l) = Cover(f) \cup Extent(l[n])
  BY <1>1, <1>2 DEF Cover, n
<1> QED BY <1>1, <1>3, <1>5, <1>6 DEF f

\* Ranges that touch become one.
LEMMA JoinStep ==
  ASSUME NEW l \in Seq(Stretch), NEW d \in Desc
  PROVE  /\ Join(l, d) \in Seq(Stretch)
         /\ Disjoint(l) /\ Cover(l) \cap Extent(d) = {}
              => Disjoint(Join(l, d)) /\ Cover(Join(l, d)) = Cover(l) \cup Extent(d)
<1>0. d.start \in Nat /\ d.size \in Nat
  BY DEF Desc
<1>1. CASE l # << >> /\ Last(l).start + Last(l).size = d.start
  <2> DEFINE z == Last(l)
             x == [z EXCEPT !.size = @ + d.size]
             f == Front(l)
  <2>1. f \in Seq(Stretch) /\ z \in Stretch /\ z.start + z.size = d.start
    BY <1>1, FrontIs
  <2>3. Join(l, d) = Append(f, x)
    BY <1>1 DEF Join
  <2> HIDE DEF z
  <2>2. x \in Stretch /\ x.start = z.start /\ x.size = z.size + d.size
        /\ z.start \in Nat /\ z.size \in Nat /\ d.start = z.start + z.size
    BY <1>0, <2>1 DEF Stretch
  <2> HIDE DEF x
  <2>4. Extent(x) = Extent(z) \cup Extent(d)
    BY <1>0, <2>2 DEF Extent, Units
  <2>5. ASSUME Disjoint(l), Cover(l) \cap Extent(d) = {}
        PROVE  Disjoint(Join(l, d)) /\ Cover(Join(l, d)) = Cover(l) \cup Extent(d)
    <3>1. /\ Disjoint(f) /\ Cover(f) \cap Extent(z) = {}
          /\ Cover(l) = Cover(f) \cup Extent(z)
      BY <1>1, <2>5, FrontCover DEF z
    <3> HIDE DEF f
    <3>2. Cover(f) \cap Extent(x) = {}
      BY <2>4, <2>5, <3>1
    <3>3. Disjoint(Append(f, x)) /\ Cover(Append(f, x)) = Cover(f) \cup Extent(x)
      BY <2>1, <2>2, <3>1, <3>2, MoreCover
    <3> QED BY <2>3, <2>4, <3>1, <3>3
  <2> QED BY <2>1, <2>2, <2>3, <2>5
<1>2. CASE ~ (l # << >> /\ Last(l).start + Last(l).size = d.start)
  <2> DEFINE x == [start |-> d.start, size |-> d.size]
  <2>1. x \in Stretch /\ Extent(x) = Extent(d)
    BY <1>0 DEF Stretch, Extent
  <2>2. Join(l, d) = Append(l, x)
    BY <1>2 DEF Join
  <2> HIDE DEF x
  <2> QED BY <2>1, <2>2, MoreCover
<1> QED BY <1>1, <1>2

JoinAll(q) == FoldLeft(Join, << >>, q)
LEMMA JoinLoop ==
  ASSUME NEW q \in Seq(Desc)
  PROVE  \E h \in [0 .. Len(q) -> Seq(Stretch)] :
           /\ h[0] = << >> /\ h[Len(q)] = JoinAll(q)
           /\ \A k \in 1 .. Len(q) : h[k] = Join(h[k - 1], q[k])
<1> DEFINE n == Len(q)
           D == Seq(Stretch)
           step == [i \in 1 .. n |-> [d \in D |-> Join(d, q[i])]]
           It(it) == it = [t \in SUBSET DOMAIN q |-> IF t = {} THEN << >>
                                ELSE Join(it[t \ {Max(t)}], q[Max(t)])]
           iter == CHOOSE it : It(it)
<1>1. ASSUME NEW d \in D, NEW x \in Desc PROVE Join(d, x) \in D
  BY <1>1, JoinStep
<1>2. DOMAIN q = 1 .. n /\ n \in Nat /\ << >> \in D /\ \A i \in 1 .. n : q[i] \in Desc
  <2>1. << >> \in D
    OBVIOUS
  <2> HIDE DEF D
  <2> QED BY <2>1
<1> HIDE DEF n, D
<1>3. step \in [1 .. n -> [D -> D]]
  BY <1>1, <1>2
<1>4. \A i \in 1 .. n : \A d \in D : step[i][d] = Join(d, q[i])
  OBVIOUS
<1> HIDE DEF step
<1>5. PICK g \in [SUBSET (1 .. n) -> D] : IsGraph(g, n, << >>, step)
  BY <1>2, <1>3, FoldGraph
<1>6. ASSUME NEW t \in SUBSET (1 .. n), t # {} PROVE Max(t) \in 1 .. n /\ g[t \ {Max(t)}] \in D
  BY <1>2, <1>6, MaxIn
<1>7. It(g)
  BY <1>2, <1>4, <1>5, <1>6 DEF IsGraph
<1>8. It(iter)
  <2> HIDE DEF It
  <2> QED BY <1>7
<1>9. JoinAll(q) = iter[1 .. n]
  <2>1. JoinAll(q) = iter[DOMAIN q]
    BY DEF JoinAll, FoldLeft, MapThenFoldSet
  <2> QED BY <1>2, <2>1
<1> HIDE DEF iter
<1>10. iter[{}] = << >>
  BY <1>8
<1>11. ASSUME NEW t \in SUBSET (1 .. n), t # {}, iter[t \ {Max(t)}] \in D
       PROVE  iter[t] = step[Max(t)][iter[t \ {Max(t)}]]
  <2>1. iter[t] = Join(iter[t \ {Max(t)}], q[Max(t)])
    BY <1>2, <1>8, <1>11
  <2> QED BY <1>4, <1>6, <1>11, <2>1
<1>12. PICK h \in [0 .. n -> D] : Runs(h, n, << >>, step) /\ h[n] = iter[1 .. n]
  <2>1. Iterates(iter, n, D, << >>, step)
    BY <1>10, <1>11 DEF Iterates
  <2>2. Folding(iter, n, D, << >>, step)
    BY <1>2, <1>3, <2>1 DEF Folding
  <2> QED BY <2>2, FoldSteps
<1>13. ASSUME NEW k \in 1 .. n PROVE h[k] = Join(h[k - 1], q[k])
  <2>1. h[k - 1] \in D
    BY <1>2
  <2> QED BY <1>4, <1>12, <2>1 DEF Runs
<1> QED BY <1>9, <1>12, <1>13 DEF n, D, Runs

\* What is added is all memory of the descriptors, none of it twice.
LEMMA JoinAllDoes ==
  ASSUME NEW q \in Seq(Desc), Disjoint(q)
  PROVE  JoinAll(q) \in Seq(Stretch) /\ Disjoint(JoinAll(q)) /\ Cover(JoinAll(q)) = Cover(q)
<1> DEFINE n == Len(q)
<1>0. n \in Nat /\ \A i \in 1 .. n : q[i] \in Desc
  OBVIOUS
<1>1. PICK h \in [0 .. n -> Seq(Stretch)] :
        /\ h[0] = << >> /\ h[n] = JoinAll(q)
        /\ \A k \in 1 .. n : h[k] = Join(h[k - 1], q[k])
  BY JoinLoop
<1> DEFINE Part(k) == UNION {Extent(q[i]) : i \in 1 .. k}
           Good(k) == Disjoint(h[k]) /\ Cover(h[k]) = Part(k)
           S == {k \in Nat : k <= n => Good(k)}
<1>2. Good(0)
  BY <1>1 DEF Disjoint, Cover
<1>3. ASSUME NEW k \in Nat, k + 1 <= n, Good(k) PROVE Good(k + 1)
  <2>1. k + 1 \in 1 .. n /\ k \in 0 .. n /\ (k + 1) - 1 = k /\ 1 .. k + 1 = (1 .. k) \cup {k + 1}
    BY <1>0, <1>3
  <2>2. h[k + 1] = Join(h[k], q[k + 1]) /\ h[k] \in Seq(Stretch) /\ q[k + 1] \in Desc
    BY <1>0, <1>1, <2>1
  <2>3. \A i \in 1 .. k : Extent(q[i]) \cap Extent(q[k + 1]) = {}
    <3>1. \A i \in 1 .. k : i \in 1 .. n /\ i # k + 1
      BY <1>0, <1>3
    <3> QED BY <2>1, <3>1 DEF Disjoint
  <2>4. Part(k) \cap Extent(q[k + 1]) = {}
    BY <2>3
  <2>5. Part(k + 1) = Part(k) \cup Extent(q[k + 1])
    BY <2>1
  <2> HIDE DEF Part
  <2> QED BY <1>3, <2>2, <2>4, <2>5, JoinStep
<1> HIDE DEF Good
<1>4. 0 \in S
  BY <1>2
<1>5. ASSUME NEW k \in Nat, k \in S PROVE k + 1 \in S
  <2>1. k + 1 <= n => k <= n
    BY <1>0
  <2> QED BY <1>3, <1>5, <2>1
<1> HIDE DEF S
<1>6. \A k \in Nat : k \in S
  BY <1>4, <1>5, Induct
<1>7. Good(n)
  BY <1>0, <1>6 DEF S
<1>8. JoinAll(q) \in Seq(Stretch)
  BY <1>0, <1>1
<1> QED BY <1>1, <1>7, <1>8 DEF Good, Cover

LEMMA JoinedDoes ==
  ASSUME NEW m \in Seq(Desc), Disjoint(m), NEW T
  PROVE  /\ Joined(m, T) \in Seq(Stretch) /\ Disjoint(Joined(m, T))
         /\ Cover(Joined(m, T)) = CoverOf(m, T)
<1>1. OfType(m, T) \in Seq(Desc) /\ Disjoint(OfType(m, T)) /\ Cover(OfType(m, T)) = CoverOf(m, T)
  BY OfTypeDoes
<1>2. Joined(m, T) = JoinAll(OfType(m, T))
  BY DEF Joined, JoinAll
<1> QED BY <1>1, <1>2, JoinAllDoes

\* Sorting only changes the order.
Perm(m) == {s \in Seq(Desc) : Len(s) = Len(m) /\ Disjoint(s) /\ SetOf(s) = SetOf(m)}
Heaps(m) == [map : Perm(m), child : 1 .. Len(m)]

LEMMA SwapIs ==
  ASSUME NEW m \in Seq(Desc), NEW s \in Perm(m), NEW i \in 1 .. Len(m), NEW j \in 1 .. Len(m)
  PROVE  Swap(s, i, j) \in Perm(m)
<1> DEFINE n == Len(m)
           t == Swap(s, i, j)
           p == [k \in 1 .. n |-> IF k = i THEN j ELSE IF k = j THEN i ELSE k]
<1>1. /\ s \in Seq(Desc) /\ Len(s) = n /\ n \in Nat /\ DOMAIN s = 1 .. n
      /\ \A k \in 1 .. n : s[k] \in Desc
      /\ Disjoint(s) /\ SetOf(s) = SetOf(m)
  <2>1. s \in Seq(Desc) /\ Len(s) = n /\ n \in Nat
    BY DEF Perm
  <2>2. Disjoint(s) /\ SetOf(s) = SetOf(m)
    BY DEF Perm
  <2>3. DOMAIN s = 1 .. n /\ \A k \in 1 .. n : s[k] \in Desc
    BY <2>1
  <2> QED BY <2>1, <2>2, <2>3
<1> HIDE DEF n
<1>2. /\ \A k \in 1 .. n : p[k] \in 1 .. n /\ p[p[k]] = k
      /\ \A k, l \in 1 .. n : k # l => p[k] # p[l]
  BY DEF n
<1>3. DOMAIN t = 1 .. n /\ \A k \in 1 .. n : t[k] = s[p[k]]
  BY <1>1 DEF Swap, n
<1>4. t = [k \in 1 .. n |-> s[p[k]]]
  <2>1. t = [k \in 1 .. n |-> t[k]]
    BY <1>1 DEF Swap
  <2> HIDE DEF t, p
  <2> QED BY <1>3, <2>1
<1> HIDE DEF t, p
<1>5. t \in Seq(Desc) /\ Len(t) = n
  <2>1. t \in [1 .. n -> Desc]
    BY <1>1, <1>2, <1>4
  <2> QED BY <1>1, <2>1
<1>6. Disjoint(t)
  <2>1. \A k, l \in 1 .. n : k # l => Extent(s[p[k]]) \cap Extent(s[p[l]]) = {}
    BY <1>1, <1>2 DEF Disjoint
  <2>2. ASSUME NEW k \in 1 .. n, NEW l \in 1 .. n, k # l PROVE Extent(t[k]) \cap Extent(t[l]) = {}
    <3>1. t[k] = s[p[k]] /\ t[l] = s[p[l]]
      BY <1>3
    <3> QED BY <2>1, <2>2, <3>1
  <2> QED BY <1>5, <2>2 DEF Disjoint
<1>7. SetOf(t) = SetOf(s)
  <2>0. SetOf(s) = {s[k] : k \in 1 .. n}
    BY <1>1 DEF SetOf
  <2>1. SetOf(t) = {t[k] : k \in 1 .. n}
    BY <1>5 DEF SetOf
  <2>2. ASSUME NEW k \in 1 .. n PROVE p[k] \in 1 .. n /\ t[k] = s[p[k]] /\ s[k] = t[p[k]]
    BY <1>2, <1>3
  <2> QED BY <2>0, <2>1, <2>2
<1> QED BY <1>1, <1>5, <1>6, <1>7 DEF Perm, t, n

LEMMA RiseIs ==
  ASSUME NEW m \in Seq(Desc), NEW a \in Heaps(m)
  PROVE  Rise(a) \in Heaps(m)
<1> DEFINE c == a.child
           p == c \div 2
<1>1. c \in 1 .. Len(m) /\ a.map \in Perm(m) /\ Len(m) \in Nat
  BY DEF Heaps
<1>2. CASE c = 1 \/ a.map[p].start >= a.map[c].start
  BY <1>2 DEF Rise
<1>3. CASE ~ (c = 1 \/ a.map[p].start >= a.map[c].start)
  <2>1. p \in 1 .. Len(m)
    <3>1. c \in Nat /\ c >= 2 /\ c <= Len(m)
      BY <1>1, <1>3
    <3> HIDE DEF c
    <3>2. p \in Nat /\ p >= 1 /\ p <= c
      BY <3>1
    <3> QED BY <1>1, <3>1, <3>2
  <2>2. Rise(a) = [map |-> Swap(a.map, p, c), child |-> p]
    BY <1>3 DEF Rise
  <2>3. Swap(a.map, p, c) \in Perm(m)
    BY <1>1, <2>1, SwapIs
  <2> QED BY <2>1, <2>2, <2>3 DEF Heaps
<1> QED BY <1>2, <1>3

Rises(a, q) == FoldLeft(LAMBDA b, i : Rise(b), a, q)
Sifts(s, q) == FoldLeft(SiftUp, s, q)
Sorts(s, q) == FoldLeft(LAMBDA b, end : heapify(Swap(b, 1, end), end - 1), s, q)

LEMMA RiseLoop ==
  ASSUME NEW m \in Seq(Desc), NEW s \in Heaps(m), NEW q \in Seq(Nat)
  PROVE  \E h \in [0 .. Len(q) -> Heaps(m)] :
           /\ h[0] = s /\ h[Len(q)] = Rises(s, q)
           /\ \A k \in 1 .. Len(q) : h[k] = Rise(h[k - 1])
<1> DEFINE n == Len(q)
           D == Heaps(m)
           step == [i \in 1 .. n |-> [d \in D |-> Rise(d)]]
           It(it) == it = [t \in SUBSET DOMAIN q |-> IF t = {} THEN s
                                ELSE Rise(it[t \ {Max(t)}])]
           iter == CHOOSE it : It(it)
<1>1. ASSUME NEW d \in D, NEW x \in Nat PROVE Rise(d) \in D
  BY <1>1, RiseIs
<1>2. DOMAIN q = 1 .. n /\ n \in Nat /\ s \in D /\ \A i \in 1 .. n : q[i] \in Nat
  <2>1. s \in D
    OBVIOUS
  <2> HIDE DEF D
  <2> QED BY <2>1
<1> HIDE DEF n, D
<1>3. step \in [1 .. n -> [D -> D]]
  BY <1>1, <1>2
<1>4. \A i \in 1 .. n : \A d \in D : step[i][d] = Rise(d)
  OBVIOUS
<1> HIDE DEF step
<1>5. PICK g \in [SUBSET (1 .. n) -> D] : IsGraph(g, n, s, step)
  BY <1>2, <1>3, FoldGraph
<1>6. ASSUME NEW t \in SUBSET (1 .. n), t # {} PROVE Max(t) \in 1 .. n /\ g[t \ {Max(t)}] \in D
  BY <1>2, <1>6, MaxIn
<1>7. It(g)
  BY <1>2, <1>4, <1>5, <1>6 DEF IsGraph
<1>8. It(iter)
  <2> HIDE DEF It
  <2> QED BY <1>7
<1>9. Rises(s, q) = iter[1 .. n]
  <2>1. Rises(s, q) = iter[DOMAIN q]
    BY DEF Rises, FoldLeft, MapThenFoldSet
  <2> QED BY <1>2, <2>1
<1> HIDE DEF iter
<1>10. iter[{}] = s
  BY <1>8
<1>11. ASSUME NEW t \in SUBSET (1 .. n), t # {}, iter[t \ {Max(t)}] \in D
       PROVE  iter[t] = step[Max(t)][iter[t \ {Max(t)}]]
  <2>1. iter[t] = Rise(iter[t \ {Max(t)}])
    BY <1>2, <1>8, <1>11
  <2> QED BY <1>4, <1>6, <1>11, <2>1
<1>12. PICK h \in [0 .. n -> D] : Runs(h, n, s, step) /\ h[n] = iter[1 .. n]
  <2>1. Iterates(iter, n, D, s, step)
    BY <1>10, <1>11 DEF Iterates
  <2>2. n \in Nat /\ s \in D
    BY <1>2
  <2>3. Folding(iter, n, D, s, step)
    BY <1>3, <2>1, <2>2 DEF Folding
  <2> QED BY <2>3, FoldSteps
<1>13. ASSUME NEW k \in 1 .. n PROVE h[k] = Rise(h[k - 1])
  <2>1. h[k - 1] \in D
    BY <1>2
  <2> QED BY <1>4, <1>12, <2>1 DEF Runs
<1> QED BY <1>9, <1>12, <1>13 DEF n, D, Runs

\* 1, 2, ... and other sequences given by their elements.
LEMMA SeqIs ==
  ASSUME NEW X, NEW n \in Int, NEW f \in [1 .. n -> X]
  PROVE  f \in Seq(X) /\ Len(f) = IF n >= 0 THEN n ELSE 0
<1>1. CASE n >= 0
  <2>1. n \in Nat
    BY <1>1
  <2> QED BY <1>1, <2>1
<1>2. CASE n < 0
  <2>1. 1 .. n = 1 .. 0
    BY <1>2
  <2>2. f \in [1 .. 0 -> X] /\ 0 \in Nat
    BY <2>1
  <2>3. f \in Seq(X) /\ Len(f) = 0
    BY <2>2
  <2> QED BY <1>2, <2>3
<1> QED BY <1>1, <1>2

LEMMA SiftUpIs ==
  ASSUME NEW m \in Seq(Desc), NEW s \in Perm(m), NEW c \in 1 .. Len(m)
  PROVE  SiftUp(s, c) \in Perm(m)
<1> DEFINE q == [i \in 1 .. c |-> i]
           a == [map |-> s, child |-> c]
<1>1. q \in Seq(Nat)
  <2>1. c \in Int /\ q \in [1 .. c -> Nat]
    BY SMT
  <2> HIDE DEF q
  <2> QED BY <2>1, SeqIs
<1>2. a \in Heaps(m)
  BY DEF Heaps
<1>3. SiftUp(s, c) = Rises(a, q).map
  BY DEF SiftUp, Rises
<1> HIDE DEF q, a
<1>4. Len(q) \in Nat
  BY <1>1
<1>5. PICK h \in [0 .. Len(q) -> Heaps(m)] : h[Len(q)] = Rises(a, q)
  BY <1>1, <1>2, RiseLoop
<1>6. Rises(a, q) \in Heaps(m)
  BY <1>4, <1>5
<1> QED BY <1>3, <1>6 DEF Heaps

LEMMA SiftLoop ==
  ASSUME NEW m \in Seq(Desc), NEW s \in Perm(m), NEW q \in Seq(1 .. Len(m))
  PROVE  \E h \in [0 .. Len(q) -> Perm(m)] :
           /\ h[0] = s /\ h[Len(q)] = Sifts(s, q)
           /\ \A k \in 1 .. Len(q) : h[k] = SiftUp(h[k - 1], q[k])
<1> DEFINE n == Len(q)
           D == Perm(m)
           step == [i \in 1 .. n |-> [d \in D |-> SiftUp(d, q[i])]]
           It(it) == it = [t \in SUBSET DOMAIN q |-> IF t = {} THEN s
                                ELSE SiftUp(it[t \ {Max(t)}], q[Max(t)])]
           iter == CHOOSE it : It(it)
<1>1. ASSUME NEW d \in D, NEW x \in 1 .. Len(m) PROVE SiftUp(d, x) \in D
  BY <1>1, SiftUpIs
<1>2. DOMAIN q = 1 .. n /\ n \in Nat /\ s \in D /\ \A i \in 1 .. n : q[i] \in 1 .. Len(m)
  <2>1. s \in D
    OBVIOUS
  <2> HIDE DEF D
  <2> QED BY <2>1
<1> HIDE DEF n, D
<1>3. step \in [1 .. n -> [D -> D]]
  BY <1>1, <1>2
<1>4. \A i \in 1 .. n : \A d \in D : step[i][d] = SiftUp(d, q[i])
  OBVIOUS
<1> HIDE DEF step
<1>5. PICK g \in [SUBSET (1 .. n) -> D] : IsGraph(g, n, s, step)
  BY <1>2, <1>3, FoldGraph
<1>6. ASSUME NEW t \in SUBSET (1 .. n), t # {} PROVE Max(t) \in 1 .. n /\ g[t \ {Max(t)}] \in D
  BY <1>2, <1>6, MaxIn
<1>7. It(g)
  BY <1>2, <1>4, <1>5, <1>6 DEF IsGraph
<1>8. It(iter)
  <2> HIDE DEF It
  <2> QED BY <1>7
<1>9. Sifts(s, q) = iter[1 .. n]
  <2>1. Sifts(s, q) = iter[DOMAIN q]
    BY DEF Sifts, FoldLeft, MapThenFoldSet
  <2> QED BY <1>2, <2>1
<1> HIDE DEF iter
<1>10. iter[{}] = s
  BY <1>8
<1>11. ASSUME NEW t \in SUBSET (1 .. n), t # {}, iter[t \ {Max(t)}] \in D
       PROVE  iter[t] = step[Max(t)][iter[t \ {Max(t)}]]
  <2>1. iter[t] = SiftUp(iter[t \ {Max(t)}], q[Max(t)])
    BY <1>2, <1>8, <1>11
  <2> QED BY <1>4, <1>6, <1>11, <2>1
<1>12. PICK h \in [0 .. n -> D] : Runs(h, n, s, step) /\ h[n] = iter[1 .. n]
  <2>1. Iterates(iter, n, D, s, step)
    BY <1>10, <1>11 DEF Iterates
  <2>2. Folding(iter, n, D, s, step)
    BY <1>2, <1>3, <2>1 DEF Folding
  <2> QED BY <2>2, FoldSteps
<1>13. ASSUME NEW k \in 1 .. n PROVE h[k] = SiftUp(h[k - 1], q[k])
  <2>1. h[k - 1] \in D
    BY <1>2
  <2> QED BY <1>4, <1>12, <2>1 DEF Runs
<1> QED BY <1>9, <1>12, <1>13 DEF n, D, Runs

LEMMA heapifyIs ==
  ASSUME NEW m \in Seq(Desc), NEW s \in Perm(m), NEW count \in Int, count <= Len(m)
  PROVE  heapify(s, count) \in Perm(m)
<1> DEFINE q == [i \in 1 .. count - 1 |-> i + 1]
<1>1. q \in Seq(1 .. Len(m))
  <2>1. Len(m) \in Nat /\ count - 1 \in Int
    OBVIOUS
  <2>2. \A i \in 1 .. count - 1 : i + 1 \in 1 .. Len(m)
    BY <2>1
  <2>3. q \in [1 .. count - 1 -> 1 .. Len(m)]
    BY <2>2
  <2> HIDE DEF q
  <2> QED BY <2>1, <2>3, SeqIs
<1>2. heapify(s, count) = Sifts(s, q)
  BY DEF heapify, Sifts
<1> HIDE DEF q
<1>3. Len(q) \in Nat
  BY <1>1
<1>4. PICK h \in [0 .. Len(q) -> Perm(m)] : h[Len(q)] = Sifts(s, q)
  BY <1>1, SiftLoop
<1> QED BY <1>2, <1>3, <1>4

LEMMA SortStep ==
  ASSUME NEW m \in Seq(Desc), NEW s \in Perm(m), NEW end \in 1 .. Len(m)
  PROVE  heapify(Swap(s, 1, end), end - 1) \in Perm(m)
<1>1. Len(m) \in Nat /\ 1 \in 1 .. Len(m) /\ end - 1 \in Int /\ end - 1 <= Len(m)
  OBVIOUS
<1>2. Swap(s, 1, end) \in Perm(m)
  BY <1>1, SwapIs
<1> QED BY <1>1, <1>2, heapifyIs

LEMMA SortLoop ==
  ASSUME NEW m \in Seq(Desc), NEW s \in Perm(m), NEW q \in Seq(1 .. Len(m))
  PROVE  \E h \in [0 .. Len(q) -> Perm(m)] :
           /\ h[0] = s /\ h[Len(q)] = Sorts(s, q)
           /\ \A k \in 1 .. Len(q) : h[k] = heapify(Swap(h[k - 1], 1, q[k]), q[k] - 1)
<1> DEFINE n == Len(q)
           D == Perm(m)
           step == [i \in 1 .. n |-> [d \in D |-> heapify(Swap(d, 1, q[i]), q[i] - 1)]]
           It(it) == it = [t \in SUBSET DOMAIN q |-> IF t = {} THEN s
                                ELSE heapify(Swap(it[t \ {Max(t)}], 1, q[Max(t)]), q[Max(t)] - 1)]
           iter == CHOOSE it : It(it)
<1>1. ASSUME NEW d \in D, NEW x \in 1 .. Len(m) PROVE heapify(Swap(d, 1, x), x - 1) \in D
  BY <1>1, SortStep
<1>2. DOMAIN q = 1 .. n /\ n \in Nat /\ s \in D /\ \A i \in 1 .. n : q[i] \in 1 .. Len(m)
  <2>1. s \in D
    OBVIOUS
  <2> HIDE DEF D
  <2> QED BY <2>1
<1> HIDE DEF n, D
<1>3. step \in [1 .. n -> [D -> D]]
  BY <1>1, <1>2
<1>4. \A i \in 1 .. n : \A d \in D : step[i][d] = heapify(Swap(d, 1, q[i]), q[i] - 1)
  OBVIOUS
<1> HIDE DEF step
<1>5. PICK g \in [SUBSET (1 .. n) -> D] : IsGraph(g, n, s, step)
  BY <1>2, <1>3, FoldGraph
<1>6. ASSUME NEW t \in SUBSET (1 .. n), t # {} PROVE Max(t) \in 1 .. n /\ g[t \ {Max(t)}] \in D
  BY <1>2, <1>6, MaxIn
<1>7. It(g)
  BY <1>2, <1>4, <1>5, <1>6 DEF IsGraph
<1>8. It(iter)
  <2> HIDE DEF It
  <2> QED BY <1>7
<1>9. Sorts(s, q) = iter[1 .. n]
  <2>1. Sorts(s, q) = iter[DOMAIN q]
    BY DEF Sorts, FoldLeft, MapThenFoldSet
  <2> QED BY <1>2, <2>1
<1> HIDE DEF iter
<1>10. iter[{}] = s
  BY <1>8
<1>11. ASSUME NEW t \in SUBSET (1 .. n), t # {}, iter[t \ {Max(t)}] \in D
       PROVE  iter[t] = step[Max(t)][iter[t \ {Max(t)}]]
  <2>1. iter[t] = heapify(Swap(iter[t \ {Max(t)}], 1, q[Max(t)]), q[Max(t)] - 1)
    BY <1>2, <1>8, <1>11
  <2> QED BY <1>4, <1>6, <1>11, <2>1
<1>12. PICK h \in [0 .. n -> D] : Runs(h, n, s, step) /\ h[n] = iter[1 .. n]
  <2>1. Iterates(iter, n, D, s, step)
    BY <1>10, <1>11 DEF Iterates
  <2>2. Folding(iter, n, D, s, step)
    BY <1>2, <1>3, <2>1 DEF Folding
  <2> QED BY <2>2, FoldSteps
<1>13. ASSUME NEW k \in 1 .. n PROVE h[k] = heapify(Swap(h[k - 1], 1, q[k]), q[k] - 1)
  <2>1. h[k - 1] \in D
    BY <1>2
  <2> QED BY <1>4, <1>12, <2>1 DEF Runs
<1> QED BY <1>9, <1>12, <1>13 DEF n, D, Runs

LEMMA SortIs ==
  ASSUME NEW m \in Seq(Desc), Disjoint(m)
  PROVE  efi_sort_map(m) \in Perm(m)
<1> DEFINE n == Len(m)
           q == [i \in 1 .. n - 1 |-> n + 1 - i]
           s == heapify(m, n)
<1>1. n \in Nat /\ m \in Perm(m)
  BY DEF Perm
<1>2. s \in Perm(m)
  BY <1>1, heapifyIs
<1>3. q \in Seq(1 .. n)
  <2> HIDE DEF n
  <2>1. n - 1 \in Int /\ \A i \in 1 .. n - 1 : n + 1 - i \in 1 .. n
    BY <1>1
  <2>2. q \in [1 .. n - 1 -> 1 .. n]
    BY <2>1
  <2> HIDE DEF q
  <2> QED BY <2>1, <2>2, SeqIs
<1>4. efi_sort_map(m) = Sorts(s, q)
  BY DEF efi_sort_map, Sorts
<1> HIDE DEF s, q
<1>5. Len(q) \in Nat
  BY <1>3
<1>6. PICK h \in [0 .. Len(q) -> Perm(m)] : h[Len(q)] = Sorts(s, q)
  BY <1>2, <1>3, SortLoop
<1> QED BY <1>4, <1>5, <1>6

-----------------------------------------------------------------------------
(* The calls                                                               *)

Ops == {"avoid", "alloc", "add"}
Asks == [op : Ops, start : Int, size : Nat]

\* The memory that calls of one kind name.
Told(cs, op) == UNION {Extent(cs[i]) : i \in {j \in 1 .. Len(cs) : cs[j].op = op}}
Has(cs, op) == \E i \in 1 .. Len(cs) : cs[i].op = op
Only(cs, op) == \A i \in 1 .. Len(cs) : cs[i].op = op

\* No memory is added twice or after memory was allocated, and none is
\* avoided after anything else but on the UEFI route.
Proper(cs, r) ==
  /\ cs \in Seq(Asks) /\ \A i \in 1 .. Len(cs) : cs[i].size = 0 \/ cs[i].start \in Nat
  /\ \A i, j \in 1 .. Len(cs) : i < j /\ cs[j].op = "add" =>
       cs[i].op # "alloc" /\ (cs[i].op = "add" => Extent(cs[i]) \cap Extent(cs[j]) = {})
  /\ r # "uefi" => \A i, j \in 1 .. Len(cs) : i < j /\ cs[j].op = "avoid" => cs[i].op = "avoid"

LEMMA NoneTold ==
  ASSUME NEW cs, NEW op, \A i \in 1 .. Len(cs) : cs[i].op # op
  PROVE  Told(cs, op) = {} /\ ~ Has(cs, op)
BY DEF Told, Has

\* Calls of one kind, one for each range.
LEMMA EachIs ==
  ASSUME NEW X, NEW ds \in Seq(X), \A d \in X : d.start \in Nat /\ d.size \in Nat,
         NEW op \in Ops, NEW r, op = "add" => Disjoint(ds)
  PROVE  LET cs == Each(op, ds) IN
         /\ Proper(cs, r) /\ Only(cs, op) /\ Told(cs, op) = Cover(ds)
         /\ \A o \in Ops : o # op => Told(cs, o) = {} /\ ~ Has(cs, o)
<1> DEFINE n == Len(ds)
           cs == Each(op, ds)
<1>1. n \in Nat /\ \A i \in 1 .. n : ds[i] \in X
  OBVIOUS
<1>2. cs = [i \in 1 .. n |-> C(op, ds[i])] /\ \A i \in 1 .. n : C(op, ds[i]) \in Asks
  BY <1>1 DEF Each, C, Asks, Ops
<1>3. cs \in Seq(Asks) /\ Len(cs) = n
  BY <1>1, <1>2
<1>4. \A i \in 1 .. n : /\ cs[i].op = op /\ cs[i].start = ds[i].start /\ cs[i].size = ds[i].size
                       /\ Extent(cs[i]) = Extent(ds[i]) /\ cs[i].start \in Nat
  BY <1>1, <1>2 DEF C, Extent
<1> HIDE DEF cs
<1>5. Only(cs, op)
  BY <1>3, <1>4 DEF Only
<1>6. Proper(cs, r)
  <2>1. \A i, j \in 1 .. n : i < j /\ cs[j].op = "add" =>
          cs[i].op # "alloc" /\ (cs[i].op = "add" => Extent(cs[i]) \cap Extent(cs[j]) = {})
    <3>1. CASE op = "add"
      <4>1. \A i, j \in 1 .. n : i # j => Extent(ds[i]) \cap Extent(ds[j]) = {}
        BY <3>1 DEF Disjoint
      <4> HIDE DEF n
      <4>2. \A i, j \in 1 .. n : i < j => i # j
        BY <1>1
      <4> QED BY <1>4, <3>1, <4>1, <4>2
    <3>2. CASE op # "add"
      BY <1>4, <3>2
    <3> QED BY <3>1, <3>2
  <2> HIDE DEF n
  <2>2. \A i \in 1 .. n : cs[i].size = 0 \/ cs[i].start \in Nat
    BY <1>4
  <2>3. \A i, j \in 1 .. n : i < j /\ cs[j].op = "avoid" => cs[i].op = "avoid"
    BY <1>4
  <2> QED BY <1>3, <2>1, <2>2, <2>3 DEF Proper
<1>7. Told(cs, op) = Cover(ds)
  <2>1. {j \in 1 .. Len(cs) : cs[j].op = op} = 1 .. n
    BY <1>3, <1>4
  <2> QED BY <1>4, <2>1 DEF Told, Cover, n
<1>8. \A o \in Ops : o # op => Told(cs, o) = {} /\ ~ Has(cs, o)
  BY <1>5, NoneTold DEF Only
<1> QED BY <1>5, <1>6, <1>7, <1>8 DEF cs

\* Calls made after others.
LEMMA ConcatIs ==
  ASSUME NEW r, NEW a, NEW b, Proper(a, r), Proper(b, r),
         Told(a, "add") \cap Told(b, "add") = {},
         Has(a, "alloc") => ~ Has(b, "add"),
         r # "uefi" /\ Has(b, "avoid") => Only(a, "avoid")
  PROVE  /\ Proper(a \o b, r) /\ \A op : Told(a \o b, op) = Told(a, op) \cup Told(b, op)
         /\ \A op : /\ Has(a \o b, op) <=> Has(a, op) \/ Has(b, op)
                    /\ Only(a \o b, op) <=> Only(a, op) /\ Only(b, op)
<1> DEFINE n == Len(a)
           k == Len(b)
           c == a \o b
<1>1. a \in Seq(Asks) /\ b \in Seq(Asks)
  BY DEF Proper
<1>2. n \in Nat /\ k \in Nat
  BY <1>1
<1>3. /\ c \in Seq(Asks) /\ Len(c) = n + k
      /\ \A i \in 1 .. n : c[i] = a[i]
      /\ \A i \in n + 1 .. n + k : c[i] = b[i - n]
      /\ \A i \in 1 .. k : c[n + i] = b[i]
  BY <1>1
<1> HIDE DEF c
<1>4. /\ \A i \in 1 .. n + k : i \in 1 .. n \/ i \in n + 1 .. n + k
      /\ \A i \in n + 1 .. n + k : i - n \in 1 .. k
      /\ \A i \in 1 .. k : n + i \in n + 1 .. n + k
      /\ 1 .. n \subseteq 1 .. n + k /\ n + 1 .. n + k \subseteq 1 .. n + k
  BY <1>2
<1>5. ASSUME NEW op PROVE /\ Told(c, op) = Told(a, op) \cup Told(b, op)
                          /\ Has(c, op) <=> Has(a, op) \/ Has(b, op)
                          /\ Only(c, op) <=> Only(a, op) /\ Only(b, op)
  <2> HIDE DEF n, k
  <2>1. \A u : u \in Told(c, op) <=> \E i \in 1 .. n + k : c[i].op = op /\ u \in Extent(c[i])
    BY <1>3 DEF Told
  <2>2. \A u : u \in Told(a, op) <=> \E i \in 1 .. n : a[i].op = op /\ u \in Extent(a[i])
    BY DEF Told, n
  <2>3. \A u : u \in Told(b, op) <=> \E i \in 1 .. k : b[i].op = op /\ u \in Extent(b[i])
    BY DEF Told, k
  <2>4. ASSUME NEW u PROVE u \in Told(c, op) <=> u \in Told(a, op) \/ u \in Told(b, op)
    <3>1. ASSUME u \in Told(c, op) PROVE u \in Told(a, op) \/ u \in Told(b, op)
      <4>1. PICK i \in 1 .. n + k : c[i].op = op /\ u \in Extent(c[i])
        BY <2>1, <3>1
      <4>2. CASE i \in 1 .. n
        BY <1>3, <2>2, <4>1, <4>2
      <4>3. CASE i \in n + 1 .. n + k
        <5>1. i - n \in 1 .. k /\ c[i] = b[i - n]
          BY <1>3, <1>4, <4>3
        <5> QED BY <2>3, <4>1, <5>1
      <4> QED BY <1>4, <4>2, <4>3
    <3>2. ASSUME u \in Told(a, op) PROVE u \in Told(c, op)
      BY <1>3, <1>4, <2>1, <2>2, <3>2
    <3>3. ASSUME u \in Told(b, op) PROVE u \in Told(c, op)
      <4>1. PICK i \in 1 .. k : b[i].op = op /\ u \in Extent(b[i])
        BY <2>3, <3>3
      <4>2. n + i \in 1 .. n + k /\ c[n + i] = b[i]
        BY <1>3, <1>4
      <4> QED BY <2>1, <4>1, <4>2
    <3> QED BY <3>1, <3>2, <3>3
  <2>5. Told(c, op) = Told(a, op) \cup Told(b, op)
    BY <2>4
  <2>6. Has(c, op) <=> Has(a, op) \/ Has(b, op)
    <3>1. \A i \in 1 .. k : n + i \in 1 .. n + k /\ c[n + i] = b[i]
      BY <1>3, <1>4
    <3>2. ASSUME Has(c, op) PROVE Has(a, op) \/ Has(b, op)
      <4>1. PICK i \in 1 .. n + k : c[i].op = op
        BY <1>3, <3>2 DEF Has
      <4>2. CASE i \in 1 .. n
        <5>1. a[i].op = op
          BY <1>3, <4>1, <4>2
        <5> QED BY <4>2, <5>1 DEF Has, n
      <4>3. CASE i \in n + 1 .. n + k
        <5>1. i - n \in 1 .. k /\ b[i - n].op = op
          BY <1>3, <1>4, <4>1, <4>3
        <5> QED BY <5>1 DEF Has, k
      <4> QED BY <1>4, <4>2, <4>3
    <3>3. ASSUME Has(a, op) PROVE Has(c, op)
      <4>1. PICK i \in 1 .. n : a[i].op = op
        BY <3>3 DEF Has, n
      <4>2. i \in 1 .. n + k /\ c[i].op = op
        BY <1>3, <1>4, <4>1
      <4> QED BY <1>3, <4>2 DEF Has
    <3>4. ASSUME Has(b, op) PROVE Has(c, op)
      <4>1. PICK i \in 1 .. k : b[i].op = op
        BY <3>4 DEF Has, k
      <4>2. n + i \in 1 .. n + k /\ c[n + i].op = op
        BY <3>1, <4>1
      <4> QED BY <1>3, <4>2 DEF Has
    <3> QED BY <3>2, <3>3, <3>4
  <2>7. Only(c, op) <=> Only(a, op) /\ Only(b, op)
    <3>1. \A i \in 1 .. k : n + i \in 1 .. n + k /\ c[n + i] = b[i]
      BY <1>3, <1>4
    <3>2. ASSUME Only(c, op) PROVE Only(a, op) /\ Only(b, op)
      <4>1. \A i \in 1 .. n + k : c[i].op = op
        BY <1>3, <3>2 DEF Only
      <4> QED BY <1>3, <1>4, <3>1, <4>1 DEF Only, n, k
    <3>3. ASSUME Only(a, op), Only(b, op) PROVE Only(c, op)
      <4>1. (\A i \in 1 .. n : a[i].op = op) /\ (\A i \in 1 .. k : b[i].op = op)
        BY <3>3 DEF Only, n, k
      <4>2. ASSUME NEW i \in 1 .. n + k PROVE c[i].op = op
        <5>1. CASE i \in 1 .. n
          BY <1>3, <4>1, <5>1
        <5>2. CASE i \in n + 1 .. n + k
          <6>1. i - n \in 1 .. k /\ c[i] = b[i - n]
            BY <1>3, <1>4, <5>2
          <6> QED BY <4>1, <6>1
        <5> QED BY <1>4, <5>1, <5>2
      <4> QED BY <1>3, <4>2 DEF Only
    <3> QED BY <3>2, <3>3
  <2> QED BY <2>5, <2>6, <2>7
<1>6. ASSUME NEW i \in 1 .. n + k PROVE c[i].size = 0 \/ c[i].start \in Nat
  <2>1. CASE i \in 1 .. n
    <3>1. \A j \in 1 .. n : a[j].size = 0 \/ a[j].start \in Nat
      BY DEF Proper, n
    <3> QED BY <1>3, <2>1, <3>1
  <2>2. CASE i \in n + 1 .. n + k
    <3>1. \A j \in 1 .. k : b[j].size = 0 \/ b[j].start \in Nat
      BY DEF Proper, k
    <3>2. i - n \in 1 .. k /\ c[i] = b[i - n]
      BY <1>3, <1>4, <2>2
    <3> QED BY <3>1, <3>2
  <2> QED BY <1>4, <2>1, <2>2
<1>7. ASSUME NEW i \in 1 .. n + k, NEW j \in 1 .. n + k, i < j, c[j].op = "add"
      PROVE  c[i].op # "alloc" /\ (c[i].op = "add" => Extent(c[i]) \cap Extent(c[j]) = {})
  <2>1. CASE i \in 1 .. n /\ j \in 1 .. n
    BY <1>3, <1>7, <2>1 DEF Proper, n
  <2>2. CASE i \in n + 1 .. n + k /\ j \in n + 1 .. n + k
    <3>1. i - n \in 1 .. k /\ j - n \in 1 .. k /\ i - n < j - n
      BY <1>2, <1>4, <1>7, <2>2
    <3>2. c[i] = b[i - n] /\ c[j] = b[j - n]
      BY <1>3, <2>2
    <3>3. \A x, y \in 1 .. k : x < y /\ b[y].op = "add" =>
            b[x].op # "alloc" /\ (b[x].op = "add" => Extent(b[x]) \cap Extent(b[y]) = {})
      BY DEF Proper, k
    <3>4. b[j - n].op = "add"
      BY <1>7, <3>2
    <3> QED BY <3>1, <3>2, <3>3, <3>4
  <2>3. CASE i \in 1 .. n /\ j \in n + 1 .. n + k
    <3>1. j - n \in 1 .. k /\ c[j] = b[j - n] /\ c[i] = a[i]
      BY <1>3, <1>4, <2>3
    <3>2. Has(b, "add") /\ Extent(c[j]) \subseteq Told(b, "add")
      BY <1>7, <3>1 DEF Has, Told, k
    <3>3. c[i].op # "alloc"
      BY <2>3, <3>1, <3>2 DEF Has, n
    <3>4. c[i].op = "add" => Extent(c[i]) \subseteq Told(a, "add")
      BY <2>3, <3>1 DEF Told, n
    <3> QED BY <3>2, <3>3, <3>4
  <2>4. ~ (i \in n + 1 .. n + k /\ j \in 1 .. n)
    BY <1>2, <1>7
  <2> QED BY <1>4, <2>1, <2>2, <2>3, <2>4
<1>8. ASSUME r # "uefi", NEW i \in 1 .. n + k, NEW j \in 1 .. n + k, i < j, c[j].op = "avoid"
      PROVE  c[i].op = "avoid"
  <2>1. CASE i \in 1 .. n /\ j \in 1 .. n
    BY <1>3, <1>8, <2>1 DEF Proper, n
  <2>2. CASE i \in n + 1 .. n + k /\ j \in n + 1 .. n + k
    <3>1. i - n \in 1 .. k /\ j - n \in 1 .. k /\ i - n < j - n
      BY <1>2, <1>4, <1>8, <2>2
    <3>2. c[i] = b[i - n] /\ c[j] = b[j - n]
      BY <1>3, <2>2
    <3>3. \A x, y \in 1 .. k : x < y /\ b[y].op = "avoid" => b[x].op = "avoid"
      BY <1>8 DEF Proper, k
    <3>4. b[j - n].op = "avoid"
      BY <1>8, <3>2
    <3> QED BY <3>1, <3>2, <3>3, <3>4
  <2>3. CASE i \in 1 .. n /\ j \in n + 1 .. n + k
    <3>1. j - n \in 1 .. k /\ c[j] = b[j - n] /\ c[i] = a[i]
      BY <1>3, <1>4, <2>3
    <3>2. Has(b, "avoid")
      BY <1>8, <3>1 DEF Has, k
    <3> QED BY <1>8, <2>3, <3>1, <3>2 DEF Only, n
  <2>4. ~ (i \in n + 1 .. n + k /\ j \in 1 .. n)
    BY <1>2, <1>8
  <2> QED BY <1>4, <2>1, <2>2, <2>3, <2>4
<1>9. Proper(c, r)
  BY <1>3, <1>6, <1>7, <1>8 DEF Proper
<1> QED BY <1>5, <1>9 DEF c

\* The first call and the others.
LEMMA HeadIsCall ==
  ASSUME NEW r, NEW cs, Proper(cs, r), cs # << >>
  PROVE  /\ Proper(Tail(cs), r) /\ Head(cs) \in Asks
         /\ Head(cs).size = 0 \/ Head(cs).start \in Nat
         /\ \A op : /\ Told(cs, op) = Told(Tail(cs), op)
                                       \cup (IF Head(cs).op = op THEN Extent(Head(cs)) ELSE {})
                    /\ Has(Tail(cs), op) => Has(cs, op)
                    /\ Head(cs).op = op => Has(cs, op)
         /\ Head(cs).op = "add" => Extent(Head(cs)) \cap Told(Tail(cs), "add") = {}
         /\ Head(cs).op = "alloc" => ~ Has(Tail(cs), "add")
         /\ r # "uefi" /\ Has(Tail(cs), "avoid") => Head(cs).op = "avoid"
<1> DEFINE n == Len(cs)
           t == Tail(cs)
           c == Head(cs)
<1>1. cs \in Seq(Asks)
  BY DEF Proper
<1>2. /\ n \in Nat /\ n >= 1 /\ c = cs[1] /\ c \in Asks
      /\ t \in Seq(Asks) /\ Len(t) = n - 1 /\ \A i \in 1 .. n - 1 : t[i] = cs[i + 1]
  BY <1>1
<1> HIDE DEF c, t
<1>3. /\ 1 \in 1 .. n /\ \A i \in 1 .. n - 1 : i + 1 \in 1 .. n /\ 1 < i + 1
      /\ \A i \in 1 .. n : i = 1 \/ (i - 1 \in 1 .. n - 1 /\ (i - 1) + 1 = i)
      /\ \A i, j \in 1 .. n - 1 : i < j => i + 1 < j + 1
  BY <1>2
<1> HIDE DEF n
<1>4. Proper(t, r)
  <2>1. \A i \in 1 .. n : cs[i].size = 0 \/ cs[i].start \in Nat
    BY DEF Proper, n
  <2>2. \A i, j \in 1 .. n : i < j /\ cs[j].op = "add" =>
          cs[i].op # "alloc" /\ (cs[i].op = "add" => Extent(cs[i]) \cap Extent(cs[j]) = {})
    BY DEF Proper, n
  <2>3. r # "uefi" => \A i, j \in 1 .. n : i < j /\ cs[j].op = "avoid" => cs[i].op = "avoid"
    BY DEF Proper, n
  <2>4. \A i \in 1 .. n - 1 : t[i].size = 0 \/ t[i].start \in Nat
    BY <1>2, <1>3, <2>1
  <2>5. ASSUME NEW i \in 1 .. n - 1, NEW j \in 1 .. n - 1, i < j
        PROVE  /\ t[j].op = "add" =>
                    t[i].op # "alloc" /\ (t[i].op = "add" => Extent(t[i]) \cap Extent(t[j]) = {})
               /\ r # "uefi" /\ t[j].op = "avoid" => t[i].op = "avoid"
    <3>1. i + 1 \in 1 .. n /\ j + 1 \in 1 .. n /\ i + 1 < j + 1 /\ t[i] = cs[i + 1] /\ t[j] = cs[j + 1]
      BY <1>2, <1>3, <2>5
    <3> QED BY <2>2, <2>3, <3>1
  <2> QED BY <1>2, <2>4, <2>5 DEF Proper
<1>5. c.size = 0 \/ c.start \in Nat
  BY <1>2, <1>3 DEF Proper, n
<1>6. ASSUME NEW op
      PROVE  /\ Told(cs, op) = Told(t, op) \cup (IF c.op = op THEN Extent(c) ELSE {})
             /\ Has(t, op) => Has(cs, op)
             /\ c.op = op => Has(cs, op)
  <2>1. \A u : u \in Told(cs, op) <=> \E i \in 1 .. n : cs[i].op = op /\ u \in Extent(cs[i])
    BY DEF Told, n
  <2>2. \A u : u \in Told(t, op) <=> \E i \in 1 .. n - 1 : t[i].op = op /\ u \in Extent(t[i])
    BY <1>2 DEF Told
  <2>3. ASSUME NEW u PROVE u \in Told(cs, op) <=> u \in Told(t, op) \/ (c.op = op /\ u \in Extent(c))
    <3>1. ASSUME u \in Told(cs, op) PROVE u \in Told(t, op) \/ (c.op = op /\ u \in Extent(c))
      <4>1. PICK i \in 1 .. n : cs[i].op = op /\ u \in Extent(cs[i])
        BY <2>1, <3>1
      <4>2. CASE i = 1
        BY <1>2, <4>1, <4>2
      <4>3. CASE i # 1
        <5>1. i - 1 \in 1 .. n - 1 /\ t[i - 1] = cs[i]
          BY <1>2, <1>3, <4>3
        <5> QED BY <2>2, <4>1, <5>1
      <4> QED BY <4>2, <4>3
    <3>2. ASSUME u \in Told(t, op) PROVE u \in Told(cs, op)
      <4>1. PICK i \in 1 .. n - 1 : t[i].op = op /\ u \in Extent(t[i])
        BY <2>2, <3>2
      <4>2. i + 1 \in 1 .. n /\ t[i] = cs[i + 1]
        BY <1>2, <1>3
      <4> QED BY <2>1, <4>1, <4>2
    <3>3. ASSUME c.op = op, u \in Extent(c) PROVE u \in Told(cs, op)
      BY <1>2, <1>3, <2>1, <3>3
    <3> QED BY <3>1, <3>2, <3>3
  <2>4. Told(cs, op) = Told(t, op) \cup (IF c.op = op THEN Extent(c) ELSE {})
    BY <2>3
  <2>5. (Has(t, op) => Has(cs, op)) /\ (c.op = op => Has(cs, op))
    BY <1>2, <1>3 DEF Has, n
  <2> QED BY <2>4, <2>5
<1>7. ASSUME NEW i \in 1 .. n - 1
      PROVE  /\ t[i].op = "add" => c.op # "alloc" /\ (c.op = "add" => Extent(c) \cap Extent(t[i]) = {})
             /\ r # "uefi" /\ t[i].op = "avoid" => c.op = "avoid"
  <2>1. 1 \in 1 .. n /\ i + 1 \in 1 .. n /\ 1 < i + 1 /\ c = cs[1] /\ t[i] = cs[i + 1]
    BY <1>2, <1>3
  <2> QED BY <2>1 DEF Proper, n
<1>8. c.op = "add" => Extent(c) \cap Told(t, "add") = {}
  BY <1>2, <1>7 DEF Told
<1>9. (c.op = "alloc" => ~ Has(t, "add")) /\ (r # "uefi" /\ Has(t, "avoid") => c.op = "avoid")
  BY <1>2, <1>7 DEF Has
<1> QED BY <1>2, <1>4, <1>5, <1>6, <1>8, <1>9 DEF c, t

\* What the board, a device tree or a map of either kind is turned into.
Plan(cs) ==
  /\ Proper(cs, route) /\ Told(cs, "add") = RamOf
  /\ Kept \cap RamOf \subseteq Told(cs, "alloc") /\ InUse \subseteq Told(cs, "avoid")
  /\ route # "uefi" => Kept \cup Told(cs, "alloc") \subseteq Told(cs, "avoid")

LEMMA BoardPlan == route = "board" => Plan(stm32mp2_init_raminfo)
<1> SUFFICES ASSUME route = "board" PROVE Plan(stm32mp2_init_raminfo)
  OBVIOUS
<1> DEFINE c == [op |-> "add", start |-> BoardRam[1], size |-> BoardRam[2]]
           cs == <<c>>
<1>1. c \in Asks /\ c.op = "add" /\ c.start \in Nat /\ Extent(c) = Block(BoardRam)
  BY RamInfoAssumption DEF Asks, Ops, Extent, Block
<1> HIDE DEF c
<1>2. cs \in Seq(Asks) /\ Len(cs) = 1 /\ cs[1] = c /\ 1 .. 1 = {1}
  BY <1>1
<1>3. cs = stm32mp2_init_raminfo
  BY DEF c, stm32mp2_init_raminfo
<1> HIDE DEF cs
<1>4. \A i, j \in 1 .. Len(cs) : ~ (i < j)
  BY <1>2
<1>5. Proper(cs, route)
  <2>1. \A i \in 1 .. Len(cs) : cs[i].size = 0 \/ cs[i].start \in Nat
    BY <1>1, <1>2
  <2> QED BY <1>2, <1>4, <2>1 DEF Proper
<1>6. Told(cs, "add") = Block(BoardRam)
  <2>1. {j \in 1 .. Len(cs) : cs[j].op = "add"} = {1}
    BY <1>1, <1>2
  <2> QED BY <1>1, <1>2, <2>1 DEF Told
<1>7. Told(cs, "alloc") = {}
  BY <1>1, <1>2, NoneTold
<1>8. RamOf = Block(BoardRam) /\ Kept = {} /\ InUse = {}
  BY DEF RamOf, Kept, InUse
<1> QED BY <1>3, <1>5, <1>6, <1>7, <1>8 DEF Plan

-----------------------------------------------------------------------------
(* The device tree                                                         *)

Node == {x \in [ac : 1 .. 2, sc : 1 .. 2, cells : Nat, reg : Seq(Stretch)] :
           x.cells = (x.ac + x.sc) * Len(x.reg) /\ Disjoint(x.reg)}

LEMMA NodeIs ==
  ASSUME NEW x \in Node
  PROVE  NodeCalls(x) = Each("add", x.reg) /\ NodeCalls(x) \in Seq(Asks)
<1> DEFINE k == x.ac + x.sc
           L == Len(x.reg)
<1>1. x.ac \in 1 .. 2 /\ x.sc \in 1 .. 2 /\ x.cells \in Nat /\ x.reg \in Seq(Stretch)
      /\ x.cells = (x.ac + x.sc) * L
  BY DEF Node
<1>2. k \in {2, 3, 4} /\ L \in Nat /\ x.cells = k * L
  BY <1>1
<1>3. fdt_get_reg64_cells(x, 0) = L
  <2> HIDE DEF k, L
  <2>1. x.cells \div k = L /\ x.cells % k = 0
    <3>1. CASE k = 2
      BY <1>2, <3>1
    <3>2. CASE k = 3
      BY <1>2, <3>2
    <3>3. CASE k = 4
      BY <1>2, <3>3
    <3> QED BY <1>2, <3>1, <3>2, <3>3
  <2>2. x.ac \in 1 .. 2 /\ x.sc \in 0 .. 2 /\ x.sc # 0
    BY <1>1
  <2>3. L - 0 = L /\ (0 >= L => L = 0)
    BY <1>2
  <2> QED BY <2>1, <2>2, <2>3 DEF fdt_get_reg64_cells, k
<1>4. SubSeq(x.reg, 1, L) = x.reg
  BY <1>1, SubSeqFull
<1>5. \A d \in Stretch : d.start \in Nat /\ d.size \in Nat
  BY DEF Stretch
<1>6. "add" \in Ops /\ Disjoint(x.reg)
  BY DEF Ops, Node
<1>7. Proper(Each("add", x.reg), "fdt")
  BY <1>1, <1>5, <1>6, EachIs
<1> QED BY <1>3, <1>4, <1>7 DEF NodeCalls, Proper

NodesCalls(q) == FoldLeft(LAMBDA l, n : l \o NodeCalls(n), << >>, q)

LEMMA NodeLoop ==
  ASSUME NEW q \in Seq(Node)
  PROVE  \E h \in [0 .. Len(q) -> Seq(Asks)] :
           /\ h[0] = << >> /\ h[Len(q)] = NodesCalls(q)
           /\ \A k \in 1 .. Len(q) : h[k] = h[k - 1] \o NodeCalls(q[k])
<1> DEFINE n == Len(q)
           D == Seq(Asks)
           step == [i \in 1 .. n |-> [d \in D |-> d \o NodeCalls(q[i])]]
           It(it) == it = [t \in SUBSET DOMAIN q |-> IF t = {} THEN << >>
                                ELSE it[t \ {Max(t)}] \o NodeCalls(q[Max(t)])]
           iter == CHOOSE it : It(it)
<1>1. ASSUME NEW d \in D, NEW x \in Node PROVE d \o NodeCalls(x) \in D
  BY <1>1, NodeIs
<1>2. DOMAIN q = 1 .. n /\ n \in Nat /\ << >> \in D /\ \A i \in 1 .. n : q[i] \in Node
  <2>1. << >> \in D
    OBVIOUS
  <2> HIDE DEF D
  <2> QED BY <2>1
<1> HIDE DEF n, D
<1>3. step \in [1 .. n -> [D -> D]]
  BY <1>1, <1>2
<1>4. \A i \in 1 .. n : \A d \in D : step[i][d] = d \o NodeCalls(q[i])
  OBVIOUS
<1> HIDE DEF step
<1>5. PICK g \in [SUBSET (1 .. n) -> D] : IsGraph(g, n, << >>, step)
  BY <1>2, <1>3, FoldGraph
<1>6. ASSUME NEW t \in SUBSET (1 .. n), t # {} PROVE Max(t) \in 1 .. n /\ g[t \ {Max(t)}] \in D
  BY <1>2, <1>6, MaxIn
<1>7. It(g)
  BY <1>2, <1>4, <1>5, <1>6 DEF IsGraph
<1>8. It(iter)
  <2> HIDE DEF It
  <2> QED BY <1>7
<1>9. NodesCalls(q) = iter[1 .. n]
  <2>1. NodesCalls(q) = iter[DOMAIN q]
    BY DEF NodesCalls, FoldLeft, MapThenFoldSet
  <2> QED BY <1>2, <2>1
<1> HIDE DEF iter
<1>10. iter[{}] = << >>
  BY <1>8
<1>11. ASSUME NEW t \in SUBSET (1 .. n), t # {}, iter[t \ {Max(t)}] \in D
       PROVE  iter[t] = step[Max(t)][iter[t \ {Max(t)}]]
  <2>1. iter[t] = iter[t \ {Max(t)}] \o NodeCalls(q[Max(t)])
    BY <1>2, <1>8, <1>11
  <2> QED BY <1>4, <1>6, <1>11, <2>1
<1>12. PICK h \in [0 .. n -> D] : Runs(h, n, << >>, step) /\ h[n] = iter[1 .. n]
  <2>1. Iterates(iter, n, D, << >>, step)
    BY <1>10, <1>11 DEF Iterates
  <2>2. Folding(iter, n, D, << >>, step)
    BY <1>2, <1>3, <2>1 DEF Folding
  <2> QED BY <2>2, FoldSteps
<1>13. ASSUME NEW k \in 1 .. n PROVE h[k] = h[k - 1] \o NodeCalls(q[k])
  <2>1. h[k - 1] \in D
    BY <1>2
  <2> QED BY <1>4, <1>12, <2>1 DEF Runs
<1> QED BY <1>9, <1>12, <1>13 DEF n, D, Runs

LEMMA NodesDo ==
  ASSUME NEW q \in Seq(Node),
         \A i, j \in 1 .. Len(q) : i # j => Cover(q[i].reg) \cap Cover(q[j].reg) = {}
  PROVE  /\ Proper(NodesCalls(q), "fdt") /\ Only(NodesCalls(q), "add")
         /\ Told(NodesCalls(q), "add") = UNION {Cover(q[i].reg) : i \in 1 .. Len(q)}
<1> DEFINE n == Len(q)
<1>0. n \in Nat /\ \A i \in 1 .. n : q[i] \in Node
  OBVIOUS
<1>1. PICK h \in [0 .. n -> Seq(Asks)] :
        /\ h[0] = << >> /\ h[n] = NodesCalls(q)
        /\ \A k \in 1 .. n : h[k] = h[k - 1] \o NodeCalls(q[k])
  BY NodeLoop
<1> DEFINE Part(k) == UNION {Cover(q[i].reg) : i \in 1 .. k}
           Good(k) == Proper(h[k], "fdt") /\ Only(h[k], "add") /\ Told(h[k], "add") = Part(k)
           S == {k \in Nat : k <= n => Good(k)}
<1>2. Good(0)
  <2>1. h[0] \in Seq(Asks) /\ Len(h[0]) = 0 /\ 1 .. 0 = {}
    BY <1>0, <1>1
  <2> QED BY <2>1 DEF Proper, Only, Told
<1>3. ASSUME NEW k \in Nat, k + 1 <= n, Good(k) PROVE Good(k + 1)
  <2> DEFINE x == q[k + 1]
             b == NodeCalls(x)
  <2>1. k + 1 \in 1 .. n /\ k \in 0 .. n /\ (k + 1) - 1 = k /\ 1 .. k + 1 = (1 .. k) \cup {k + 1}
    BY <1>0, <1>3
  <2>2. h[k + 1] = h[k] \o b /\ x \in Node
    BY <1>0, <1>1, <2>1
  <2>3. /\ b = Each("add", x.reg) /\ x.reg \in Seq(Stretch) /\ Disjoint(x.reg)
        /\ "add" \in Ops /\ "alloc" \in Ops /\ "avoid" \in Ops
    BY <2>2, NodeIs DEF Node, Ops
  <2>4. \A d \in Stretch : d.start \in Nat /\ d.size \in Nat
    BY DEF Stretch
  <2> HIDE DEF b, x
  <2>5. /\ Proper(b, "fdt") /\ Only(b, "add") /\ Told(b, "add") = Cover(x.reg)
        /\ ~ Has(b, "avoid")
    BY <2>3, <2>4, EachIs
  <2>6. \A i \in 1 .. k : Cover(q[i].reg) \cap Cover(x.reg) = {}
    <3>1. \A i \in 1 .. k : i \in 1 .. n /\ i # k + 1
      BY <1>0, <1>3
    <3> QED BY <2>1, <3>1 DEF x
  <2>7. Part(k) \cap Cover(x.reg) = {}
    BY <2>6
  <2>8. Part(k + 1) = Part(k) \cup Cover(x.reg)
    BY <2>1 DEF x
  <2> DEFINE p == h[k]
  <2> HIDE DEF Part
  <2>9. /\ Proper(p, "fdt") /\ Only(p, "add") /\ Told(p, "add") = Part(k)
    BY <1>3
  <2> HIDE DEF p
  <2>10. ~ Has(p, "alloc") /\ Told(p, "add") \cap Told(b, "add") = {}
    BY <2>5, <2>7, <2>9 DEF Only, Has
  <2>11. /\ Proper(p \o b, "fdt") /\ Told(p \o b, "add") = Told(p, "add") \cup Told(b, "add")
         /\ Only(p \o b, "add")
    BY <2>5, <2>9, <2>10, ConcatIs
  <2> QED BY <2>2, <2>5, <2>8, <2>9, <2>11 DEF p
<1> HIDE DEF Good
<1>4. 0 \in S
  BY <1>2
<1>5. ASSUME NEW k \in Nat, k \in S PROVE k + 1 \in S
  <2>1. k + 1 <= n => k <= n
    BY <1>0
  <2> QED BY <1>3, <1>5, <2>1
<1> HIDE DEF S
<1>6. \A k \in Nat : k \in S
  BY <1>4, <1>5, Induct
<1>7. Good(n)
  BY <1>0, <1>6 DEF S
<1> QED BY <1>1, <1>7 DEF Good

LEMMA ReverseIs ==
  ASSUME NEW X, NEW s \in Seq(X)
  PROVE  Reverse(s) \in Seq(X) /\ Cover(Reverse(s)) = Cover(s)
<1> DEFINE n == Len(s)
           r == Reverse(s)
<1>1. n \in Nat /\ \A i \in 1 .. n : s[i] \in X /\ (n - i) + 1 \in 1 .. n
                                 /\ (n - ((n - i) + 1)) + 1 = i
  OBVIOUS
<1>2. r = [i \in 1 .. n |-> s[(n - i) + 1]]
  BY DEF Reverse
<1> HIDE DEF r
<1>3. r \in Seq(X) /\ Len(r) = n /\ \A i \in 1 .. n : r[i] = s[(n - i) + 1]
  <2> HIDE DEF n
  <2>1. r \in [1 .. n -> X]
    BY <1>1, <1>2
  <2> QED BY <1>1, <1>2, <2>1
<1>4. \A i \in 1 .. n : s[i] = r[(n - i) + 1]
  <2> HIDE DEF n
  <2> QED BY <1>1, <1>3
<1>5. Cover(r) = Cover(s)
  BY <1>1, <1>3, <1>4 DEF Cover
<1> QED BY <1>3, <1>5 DEF r

LEMMA TreePlan == route = "fdt" /\ map \in Trees => Plan(init_raminfo_fdt(map))
<1> SUFFICES ASSUME route = "fdt", map \in Trees PROVE Plan(init_raminfo_fdt(map))
  OBVIOUS
<1> DEFINE q == map.nodes
           z == Reverse(map.rsv)
           a == Each("avoid", z)
           b == NodesCalls(q)
           c == Each("alloc", z)
<1> DEFINE Ns == [ac : 1 .. 2, sc : 1 .. 2, cells : Nat, reg : Seq(Stretch)]
<1>1. map.rsv \in Seq(Stretch) /\ q \in Seq(Ns)
  BY TreesAssumption DEF Stretch
<1>0. Len(q) \in Nat /\ (\A i \in 1 .. Len(q) : q[i] \in Ns) /\ q = [i \in 1 .. Len(q) |-> q[i]]
  <2> HIDE DEF Ns, q
  <2> QED BY <1>1
<1>2. \A i \in 1 .. Len(q) : q[i] \in Node
  <2> SUFFICES ASSUME NEW i \in 1 .. Len(q) PROVE q[i] \in Node
    OBVIOUS
  <2>1. q[i] \in [ac : 1 .. 2, sc : 1 .. 2, cells : Nat, reg : Seq(Stretch)]
    BY <1>0
  <2>2. q[i].cells = (q[i].ac + q[i].sc) * Len(q[i].reg) /\ Disjoint(q[i].reg)
    BY TreesAssumption
  <2> QED BY <2>1, <2>2 DEF Node
<1>3. q \in Seq(Node)
  <2> HIDE DEF q
  <2>1. q \in [1 .. Len(q) -> Node]
    BY <1>0, <1>2
  <2> QED BY <1>0, <2>1
<1>4. \A i, j \in 1 .. Len(q) : i # j => Cover(q[i].reg) \cap Cover(q[j].reg) = {}
  <2> SUFFICES ASSUME NEW i \in 1 .. Len(q), NEW j \in 1 .. Len(q), i # j
               PROVE  Cover(q[i].reg) \cap Cover(q[j].reg) = {}
    OBVIOUS
  <2> DEFINE e == q[i].reg
             f == q[j].reg
  <2>1. \A k \in 1 .. Len(e), l \in 1 .. Len(f) : Extent(e[k]) \cap Extent(f[l]) = {}
    BY TreesAssumption
  <2> HIDE DEF e, f
  <2>2. Cover(e) \cap Cover(f) = {}
    BY <2>1 DEF Cover
  <2> QED BY <2>2 DEF e, f
<1>5. z \in Seq(Stretch) /\ Cover(z) = Cover(map.rsv)
  BY <1>1, ReverseIs
<1>6. \A d \in Stretch : d.start \in Nat /\ d.size \in Nat
  BY DEF Stretch
<1>7. "avoid" \in Ops /\ "alloc" \in Ops /\ "add" \in Ops /\ "avoid" # "add" /\ "alloc" # "add"
      /\ "avoid" # "alloc"
  BY DEF Ops
<1>8. init_raminfo_fdt(map) = (a \o b) \o c
  BY DEF init_raminfo_fdt, NodesCalls
<1>9. /\ Proper(b, "fdt") /\ Only(b, "add")
      /\ Told(b, "add") = UNION {Cover(q[i].reg) : i \in 1 .. Len(q)}
  BY <1>3, <1>4, NodesDo
<1> HIDE DEF z
<1>10. /\ Proper(a, "fdt") /\ Only(a, "avoid") /\ Told(a, "avoid") = Cover(z)
       /\ Told(a, "add") = {} /\ Told(a, "alloc") = {} /\ ~ Has(a, "alloc") /\ ~ Has(a, "add")
  BY <1>5, <1>6, <1>7, EachIs
<1>11. /\ Proper(c, "fdt") /\ Told(c, "alloc") = Cover(z)
       /\ Told(c, "add") = {} /\ Told(c, "avoid") = {} /\ ~ Has(c, "avoid") /\ ~ Has(c, "add")
  BY <1>5, <1>6, <1>7, EachIs
<1> HIDE DEF a, b, c
<1>12. /\ \A i \in 1 .. Len(b) : b[i].op = "add"
       /\ ~ Has(b, "avoid") /\ ~ Has(b, "alloc") /\ Told(b, "avoid") = {} /\ Told(b, "alloc") = {}
  BY <1>7, <1>9, NoneTold DEF Only
<1>13. /\ Proper(a \o b, "fdt") /\ \A op : Told(a \o b, op) = Told(a, op) \cup Told(b, op)
  <2>1. Told(a, "add") \cap Told(b, "add") = {}
    BY <1>10
  <2>2. Proper(a, "fdt") /\ Proper(b, "fdt") /\ ~ Has(a, "alloc") /\ ~ Has(b, "avoid")
    BY <1>9, <1>10, <1>12
  <2> QED BY <2>1, <2>2, ConcatIs
<1>14. /\ Proper((a \o b) \o c, "fdt")
       /\ \A op : Told((a \o b) \o c, op) = Told(a, op) \cup Told(b, op) \cup Told(c, op)
  <2>1. Told(a \o b, "add") \cap Told(c, "add") = {}
    BY <1>11
  <2> QED BY <1>11, <1>13, <2>1, ConcatIs
<1>15. RamOf = Told(b, "add") /\ Kept = Cover(z) /\ InUse = {}
  BY <1>5, <1>9 DEF RamOf, Kept, InUse
<1> QED BY <1>8, <1>10, <1>11, <1>12, <1>14, <1>15 DEF Plan

-----------------------------------------------------------------------------
(* The memory maps                                                         *)

LEMMA MapIs ==
  ASSUME NEW m \in Maps
  PROVE  m \in Seq(Desc) /\ Disjoint(m)
BY MapsAssumption DEF Desc

LEMMA KindsOfCall ==
  /\ "avoid" \in Ops /\ "alloc" \in Ops /\ "add" \in Ops
  /\ "avoid" # "add" /\ "alloc" # "add" /\ "avoid" # "alloc"
BY DEF Ops

\* Two descriptors of a map share no memory.
LEMMA DescsAreDisjoint ==
  ASSUME NEW m \in Seq(Desc), Disjoint(m), NEW c \in SetOf(m), NEW d \in SetOf(m), c # d
  PROVE  Extent(c) \cap Extent(d) = {}
<1>1. PICK i \in 1 .. Len(m), j \in 1 .. Len(m) : c = m[i] /\ d = m[j]
  BY DEF SetOf
<1>2. i # j
  BY <1>1
<1> QED BY <1>1, <1>2 DEF Disjoint

\* What is in use is avoided, what is kept allocated, descriptor by descriptor.
Tags(q) == [i \in 1 .. Len(q) |-> C(IF q[i].type \in Boot THEN "avoid" ELSE "alloc", q[i])]

LEMMA TagsAre ==
  ASSUME NEW q \in Seq(Desc)
  PROVE  /\ Proper(Tags(q), "uefi") /\ ~ Has(Tags(q), "add") /\ Told(Tags(q), "add") = {}
         /\ \A d \in SetOf(q) : Extent(d) \subseteq Told(Tags(q), IF d.type \in Boot THEN "avoid"
                                                                 ELSE "alloc")
<1> DEFINE n == Len(q)
           t == Tags(q)
           Op(i) == IF q[i].type \in Boot THEN "avoid" ELSE "alloc"
<1>1. n \in Nat /\ \A i \in 1 .. n : q[i] \in Desc /\ q[i].start \in Nat /\ q[i].size \in Nat
  <2>1. n \in Nat /\ \A i \in 1 .. n : q[i] \in Desc
    OBVIOUS
  <2> QED BY <2>1 DEF Desc
<1>2. t = [i \in 1 .. n |-> C(Op(i), q[i])]
  BY DEF Tags
<1>3. \A i \in 1 .. n : C(Op(i), q[i]) \in Asks
  <2>1. \A i \in 1 .. n : Op(i) \in Ops
    BY KindsOfCall
  <2> HIDE DEF Op
  <2> QED BY <1>1, <2>1 DEF C, Asks
<1> HIDE DEF t
<1>4. t \in Seq(Asks) /\ Len(t) = n
  BY <1>1, <1>2, <1>3
<1>5. \A i \in 1 .. n : /\ t[i].op = Op(i) /\ t[i].start \in Nat /\ Extent(t[i]) = Extent(q[i])
  BY <1>1, <1>2 DEF C, Extent
<1>6. \A i \in 1 .. n : t[i].op # "add"
  BY <1>5, KindsOfCall
<1>7. Proper(t, "uefi")
  <2> HIDE DEF Op
  <2> QED BY <1>4, <1>5, <1>6 DEF Proper
<1>8. ~ Has(t, "add") /\ Told(t, "add") = {}
  BY <1>4, <1>6, NoneTold
<1>9. ASSUME NEW d \in SetOf(q)
      PROVE  Extent(d) \subseteq Told(t, IF d.type \in Boot THEN "avoid" ELSE "alloc")
  <2>1. PICK i \in 1 .. n : d = q[i]
    BY DEF SetOf
  <2>2. t[i].op = (IF d.type \in Boot THEN "avoid" ELSE "alloc") /\ Extent(t[i]) = Extent(d)
    BY <1>5, <2>1
  <2> QED BY <1>4, <2>2 DEF Told
<1> QED BY <1>7, <1>8, <1>9 DEF t

LEMMA UefiPlan == route = "uefi" /\ map \in Maps => Plan(do_raminfo(map))
<1> SUFFICES ASSUME route = "uefi", map \in Maps PROVE Plan(do_raminfo(map))
  OBVIOUS
<1> DEFINE j == Joined(map, UefiRam)
           used == OfType(map, UefiRam \ {"EfiConventionalMemory"})
           a == Each("add", j)
           b == Tags(used)
<1>1. map \in Seq(Desc) /\ Disjoint(map)
  BY MapIs
<1>2. j \in Seq(Stretch) /\ Disjoint(j) /\ Cover(j) = CoverOf(map, UefiRam)
  BY <1>1, JoinedDoes
<1>3. /\ used \in Seq(Desc)
      /\ SetOf(used) = {x \in SetOf(map) : x.type \in UefiRam \ {"EfiConventionalMemory"}}
  BY <1>1, OfTypeDoes
<1>4. do_raminfo(map) = a \o b
  BY DEF do_raminfo, Tags
<1> HIDE DEF j, used
<1>5. \A d \in Stretch : d.start \in Nat /\ d.size \in Nat
  BY DEF Stretch
<1>6. /\ Proper(a, "uefi") /\ Told(a, "add") = Cover(j) /\ Told(a, "alloc") = {}
      /\ Told(a, "avoid") = {} /\ ~ Has(a, "alloc")
  BY <1>2, <1>5, KindsOfCall, EachIs
<1>7. /\ Proper(b, "uefi") /\ ~ Has(b, "add") /\ Told(b, "add") = {}
      /\ \A d \in SetOf(used) : Extent(d) \subseteq Told(b, IF d.type \in Boot THEN "avoid" ELSE "alloc")
  BY <1>3, TagsAre
<1> HIDE DEF a, b
<1>8. Proper(a \o b, "uefi") /\ \A op : Told(a \o b, op) = Told(a, op) \cup Told(b, op)
  <2>1. Told(a, "add") \cap Told(b, "add") = {}
    BY <1>7
  <2> QED BY <1>6, <1>7, <2>1, ConcatIs
<1>9. /\ RamOf = Cover(OfType(map, UefiRam)) /\ Kept = Cover(OfType(map, Runtime \cup Acpi))
      /\ InUse = Cover(OfType(map, Boot))
  BY DEF RamOf, Kept, InUse
<1>10. RamOf = CoverOf(map, UefiRam) /\ Kept = CoverOf(map, Runtime \cup Acpi)
       /\ InUse = CoverOf(map, Boot)
  BY <1>1, <1>9, OfTypeDoes
<1>11. /\ Boot \cup Runtime \cup Acpi \subseteq UefiRam \ {"EfiConventionalMemory"}
       /\ \A x \in Runtime \cup Acpi : x \notin Boot
  BY DEF Boot, Runtime, Acpi, UefiRam
<1>12. Kept \subseteq Told(b, "alloc")
  <2>1. \A d \in SetOf(map) : d.type \in Runtime \cup Acpi =>
          d \in SetOf(used) /\ Extent(d) \subseteq Told(b, "alloc")
    BY <1>3, <1>7, <1>11
  <2> QED BY <1>10, <2>1 DEF CoverOf
<1>13. InUse \subseteq Told(b, "avoid")
  <2>1. \A d \in SetOf(map) : d.type \in Boot =>
          d \in SetOf(used) /\ Extent(d) \subseteq Told(b, "avoid")
    BY <1>3, <1>7, <1>11
  <2> QED BY <1>10, <2>1 DEF CoverOf
<1>14. Told(a \o b, "add") = RamOf
  BY <1>2, <1>6, <1>7, <1>8, <1>10
<1> QED BY <1>4, <1>8, <1>12, <1>13, <1>14 DEF Plan

LEMMA EfiPlan == route = "efi" /\ map \in Maps => Plan(init_raminfo_efi(map))
<1> SUFFICES ASSUME route = "efi", map \in Maps PROVE Plan(init_raminfo_efi(map))
  OBVIOUS
<1> DEFINE Conv == {"EfiConventionalMemory"}
           s == efi_sort_map(map)
           types == {s[i].type : i \in 1 .. Len(s)}
           banks == Joined(s, EfiUsed \cup Conv)
           va == OfType(s, types \ Conv)
           vc == OfType(s, EfiUsed)
           x == [op |-> "add", start |-> NullPaddr, size |-> 0]
           a == Each("avoid", va)
           o == IF banks = << >> THEN << >> ELSE <<x>>
           b == Each("add", banks)
           c == Each("alloc", vc)
<1>0. init_raminfo_efi(map) = ((a \o o) \o b) \o c
  BY DEF init_raminfo_efi
<1>1. map \in Seq(Desc) /\ Disjoint(map)
  BY MapIs
<1>2. s \in Seq(Desc) /\ Disjoint(s) /\ SetOf(s) = SetOf(map)
  BY <1>1, SortIs DEF Perm
<1>3. types = {d.type : d \in SetOf(map)}
  <2> HIDE DEF s
  <2>1. types = {d.type : d \in SetOf(s)}
    BY DEF SetOf
  <2> QED BY <1>2, <2>1
<1> HIDE DEF s, types
<1>4. /\ banks \in Seq(Stretch) /\ Disjoint(banks)
      /\ Cover(banks) = CoverOf(map, EfiUsed \cup Conv)
  BY <1>2, JoinedDoes DEF CoverOf
<1>5. va \in Seq(Desc) /\ Cover(va) = CoverOf(map, types \ Conv)
  BY <1>2, OfTypeDoes DEF CoverOf
<1>6. vc \in Seq(Desc) /\ Cover(vc) = CoverOf(map, EfiUsed)
  BY <1>2, OfTypeDoes DEF CoverOf
<1> HIDE DEF banks, va, vc
<1>7. /\ \A d \in Stretch : d.start \in Nat /\ d.size \in Nat
      /\ \A d \in Desc : d.start \in Nat /\ d.size \in Nat
  BY DEF Stretch, Desc
<1>8. /\ Proper(a, "efi") /\ Only(a, "avoid") /\ Told(a, "avoid") = Cover(va)
      /\ Told(a, "add") = {} /\ Told(a, "alloc") = {} /\ ~ Has(a, "alloc") /\ ~ Has(a, "add")
  BY <1>5, <1>7, KindsOfCall, EachIs
<1>9. /\ Proper(b, "efi") /\ Told(b, "add") = Cover(banks) /\ Told(b, "alloc") = {}
      /\ Told(b, "avoid") = {} /\ ~ Has(b, "alloc") /\ ~ Has(b, "avoid")
  BY <1>4, <1>7, KindsOfCall, EachIs
<1>10. /\ Proper(c, "efi") /\ Told(c, "alloc") = Cover(vc) /\ Told(c, "add") = {}
       /\ Told(c, "avoid") = {} /\ ~ Has(c, "avoid") /\ ~ Has(c, "add")
  BY <1>6, <1>7, KindsOfCall, EachIs
<1>11. /\ Proper(o, "efi") /\ ~ Has(o, "alloc") /\ ~ Has(o, "avoid")
       /\ \A op : Told(o, op) = {}
  <2>1. x \in Asks /\ x.op = "add" /\ x.size = 0 /\ Extent(x) = {}
    <3>1. NullPaddr \in Int /\ NullPaddr + 0 = NullPaddr /\ Units(NullPaddr, NullPaddr) = {}
      BY DEF NullPaddr, Units
    <3> QED BY <3>1, KindsOfCall DEF Asks, Extent
  <2> HIDE DEF x
  <2>2. /\ o \in Seq(Asks) /\ Len(o) \in {0, 1} /\ 1 .. 0 = {} /\ 1 .. 1 = {1}
        /\ \A i \in 1 .. Len(o) : o[i] = x /\ i = 1
    BY <2>1
  <2> HIDE DEF o
  <2>3. \A i, j \in 1 .. Len(o) : ~ (i < j)
    BY <2>2
  <2>4. Proper(o, "efi")
    BY <2>1, <2>2, <2>3 DEF Proper
  <2>5. \A op : Told(o, op) = {}
    BY <2>1, <2>2 DEF Told
  <2>6. ~ Has(o, "alloc") /\ ~ Has(o, "avoid")
    BY <2>1, <2>2, KindsOfCall DEF Has
  <2> QED BY <2>4, <2>5, <2>6
<1> HIDE DEF a, b, c, o, x
<1> DEFINE p == a \o o
           q == p \o b
<1>12. /\ Proper(p, "efi") /\ \A op : Told(p, op) = Told(a, op) \cup Told(o, op)
       /\ \A op : Has(p, op) <=> Has(a, op) \/ Has(o, op)
  <2>1. Told(a, "add") \cap Told(o, "add") = {}
    BY <1>8
  <2> QED BY <1>8, <1>11, <2>1, ConcatIs
<1> HIDE DEF p
<1>13. Proper(p, "efi") /\ ~ Has(p, "alloc") /\ Told(p, "add") = {} /\ \A op : Told(p, op) = Told(a, op)
  <2>1. \A op : Told(p, op) = Told(a, op)
    BY <1>11, <1>12
  <2>2. ~ Has(p, "alloc")
    BY <1>8, <1>11, <1>12
  <2> QED BY <1>8, <1>12, <2>1, <2>2
<1>14. /\ Proper(q, "efi") /\ \A op : Told(q, op) = Told(p, op) \cup Told(b, op)
  <2>1. Told(p, "add") \cap Told(b, "add") = {}
    BY <1>13
  <2> QED BY <1>9, <1>13, <2>1, ConcatIs
<1> HIDE DEF q
<1>15. /\ Proper(q \o c, "efi") /\ \A op : Told(q \o c, op) = Told(q, op) \cup Told(c, op)
  <2>1. Told(q, "add") \cap Told(c, "add") = {}
    BY <1>10
  <2> QED BY <1>10, <1>14, <2>1, ConcatIs
<1>16. /\ RamOf = Cover(OfType(map, EfiUsed \cup Conv))
       /\ Kept = Cover(OfType(map, EfiUsed \cup Acpi)) /\ InUse = {}
  BY DEF RamOf, Kept, InUse
<1>17. RamOf = CoverOf(map, EfiUsed \cup Conv) /\ Kept = CoverOf(map, EfiUsed \cup Acpi)
  BY <1>1, <1>16, OfTypeDoes
<1>18. /\ Told(q \o c, "add") = Cover(banks) /\ Told(q \o c, "alloc") = Cover(vc)
       /\ Told(q \o c, "avoid") = Cover(va)
  BY <1>8, <1>9, <1>10, <1>13, <1>14, <1>15
<1>19. "EfiConventionalMemory" \notin EfiUsed \cup Acpi
  BY DEF EfiUsed, Boot, Runtime, Acpi
<1>20. Kept \cup Cover(vc) \subseteq Cover(va)
  <2>1. \A d \in SetOf(map) : d.type \in EfiUsed \cup Acpi => d.type \in types \ Conv
    BY <1>3, <1>19
  <2> QED BY <1>5, <1>6, <1>17, <2>1 DEF CoverOf
<1>21. Kept \cap RamOf \subseteq Cover(vc)
  <2> SUFFICES ASSUME NEW u, u \in CoverOf(map, EfiUsed \cup Acpi), u \in CoverOf(map, EfiUsed \cup Conv)
               PROVE  u \in CoverOf(map, EfiUsed)
    BY <1>6, <1>17
  <2>1. PICK d \in SetOf(map) : d.type \in EfiUsed \cup Acpi /\ u \in Extent(d)
    BY DEF CoverOf
  <2>2. PICK e \in SetOf(map) : e.type \in EfiUsed \cup Conv /\ u \in Extent(e)
    BY DEF CoverOf
  <2>3. d = e
    BY <1>1, <2>1, <2>2, DescsAreDisjoint
  <2>4. d.type \in EfiUsed
    BY <1>19, <2>1, <2>2, <2>3
  <2> QED BY <2>1, <2>4 DEF CoverOf
<1> QED BY <1>0, <1>4, <1>15, <1>16, <1>17, <1>18, <1>20, <1>21 DEF Plan, p, q

-----------------------------------------------------------------------------
(* Boot services                                                           *)

Routes == {"none", "board", "fdt", "uefi", "efi"}
AskingMap == {"size", "pool", "get", "exit"}
Places == {"size", "pool", "get", "exit", "options", "walk", "call", "run", "leave",
           "kernel", "returned"}

\* How the users that announced themselves, the console and the boot services
\* go together at each place.
Announced ==
  /\ uefi_init_cnt > 0 => live /\ conout
  /\ conout => route = "uefi" /\ live /\ at # "kernel"
  /\ at = "exit" /\ route = "uefi" => uefi_init_cnt = 0 /\ conout
  /\ at \in {"size", "pool", "get"} /\ uefi_init_cnt > 0 => first
  /\ conout /\ at \notin AskingMap => uefi_init_cnt > 0
  /\ at \in {"walk", "call", "run"} => first
  /\ conout /\ (at = "run" \/ ~ first) => uefi_init_cnt <= 1
Left ==
  /\ at \in AskingMap => live /\ (conout \/ (route = "efi" /\ first))
  /\ live => route \in {"uefi", "efi"}
  /\ route = "efi" /\ at \notin AskingMap \cup {"returned"} => ~ live
  /\ live /\ route = "uefi" /\ ~ conout => uefi_exit_retry_cnt > RetryMax
ServTypes ==
  /\ route \in Routes /\ at \in Places
  /\ live \in BOOLEAN /\ conout \in BOOLEAN /\ first \in BOOLEAN /\ stale \in BOOLEAN
  /\ uefi_init_cnt \in 0 .. 2 /\ uefi_exit_retry_cnt \in Nat
ServInv == ServTypes /\ Left /\ Announced

LEMMA ServInit == InfoInit => ServInv
<1> SUFFICES ASSUME InfoInit PROVE ServInv
  OBVIOUS
<1> USE DEF InfoInit
<1>1. /\ uefi_exit_retry_cnt = 0 /\ first = TRUE /\ stale = TRUE
      /\ live = (route \in {"uefi", "efi"}) /\ conout = (route = "uefi")
      /\ uefi_init_cnt \in IF route = "uefi" THEN {1, 2} ELSE {0}
  BY DEF Users
<1>2. CASE route \in {"none", "board", "fdt"} /\ at \in {"options", "walk"}
  <2>1. live = FALSE /\ conout = FALSE
    <3>1. (route \in {"uefi", "efi"}) = FALSE /\ (route = "uefi") = FALSE
      BY <1>2
    <3> QED BY <1>1, <3>1
  <2> QED BY <1>1, <1>2, <2>1 DEF ServInv, ServTypes, Left, Announced, Routes, Places, AskingMap
<1>3. CASE route = "uefi" /\ at = "size"
  <2>1. live = TRUE /\ conout = TRUE
    <3>1. (route \in {"uefi", "efi"}) = TRUE /\ (route = "uefi") = TRUE
      BY <1>3
    <3> QED BY <1>1, <3>1
  <2>2. uefi_init_cnt \in {1, 2}
    BY <1>1, <1>3
  <2> QED BY <1>1, <1>3, <2>1, <2>2 DEF ServInv, ServTypes, Left, Announced, Routes, Places, AskingMap
<1>4. CASE route = "efi" /\ at = "size"
  <2>1. live = TRUE /\ conout = FALSE
    <3>1. (route \in {"uefi", "efi"}) = TRUE /\ (route = "uefi") = FALSE
      BY <1>4
    <3> QED BY <1>1, <3>1
  <2>2. uefi_init_cnt = 0
    BY <1>1, <1>4
  <2> QED BY <1>1, <1>4, <2>1, <2>2 DEF ServInv, ServTypes, Left, Announced, Routes, Places, AskingMap
<1> QED BY <1>2, <1>3, <1>4

\* A step that goes on from one place to another and leaves the services alone.
LEMMA ServStep ==
  ASSUME ServInv, UNCHANGED <<route, exitVars>>, stale' \in BOOLEAN,
         \/ at' = at
         \/ at \in AskingMap /\ at' \in {"size", "pool", "get"}
         \/ at \in AskingMap /\ at' = "exit" /\ (route = "efi" \/ uefi_init_cnt = 0)
         \/ at \in AskingMap /\ at' = "walk" /\ route # "efi" /\ uefi_init_cnt # 0
         \/ at \in AskingMap /\ at' = "returned" /\ route = "efi"
         \/ at = "walk" /\ at' = "call"
         \/ at = "call" /\ at' = "leave"
         \/ at = "call" /\ at' = "run" /\ route # "uefi"
  PROVE  ServInv'
BY DEF ServInv, ServTypes, Left, Announced, Routes, Places, AskingMap, exitVars

LEMMA ServExit == ASSUME ServInv, ExitBootServices PROVE ServInv'
<1> USE DEF ServInv, ServTypes, Left, Announced, Routes, Places, AskingMap
<1>0. at = "exit" /\ live /\ UNCHANGED <<route, uefi_init_cnt, first, stale>>
  BY DEF ExitBootServices, mapVars
<1>1. CASE route = "efi"
  <2>1. at' = (IF stale THEN "returned" ELSE "walk") /\ live' = stale
        /\ UNCHANGED <<conout, uefi_exit_retry_cnt>>
    BY <1>1 DEF ExitBootServices, Efi
  <2>2. CASE stale
    BY <1>0, <1>1, <2>1, <2>2
  <2>3. CASE ~ stale
    BY <1>0, <1>1, <2>1, <2>3
  <2> QED BY <2>2, <2>3
<1>2. CASE route # "efi" /\ ~ stale
  <2>1. at' = After /\ conout' = FALSE /\ live' = FALSE
        /\ uefi_exit_retry_cnt' = uefi_exit_retry_cnt
    BY <1>2 DEF ExitBootServices, Efi, Gone
  <2>2. route = "uefi" /\ uefi_init_cnt = 0
    BY <1>0, <1>2
  <2>4. CASE first
    <3>1. at' = "run"
      BY <2>4, <2>1, <2>2 DEF After
    <3>2. ServTypes'
      BY <1>0, <2>4, <2>1, <2>2, <3>1
    <3>3. Left'
      BY <1>0, <2>4, <2>1, <2>2, <3>1
    <3>4. Announced'
      BY <1>0, <2>4, <2>1, <2>2, <3>1
    <3> QED BY <3>2, <3>3, <3>4
  <2>5. CASE ~ first
    <3>1. at' = "kernel"
      BY <2>5, <2>1, <2>2 DEF After
    <3>2. ServTypes'
      BY <1>0, <2>5, <2>1, <2>2, <3>1
    <3>3. Left'
      BY <1>0, <2>5, <2>1, <2>2, <3>1
    <3>4. Announced'
      BY <1>0, <2>5, <2>1, <2>2, <3>1
    <3> QED BY <3>2, <3>3, <3>4
  <2> QED BY <2>4, <2>5
<1>3. CASE route # "efi" /\ stale /\ uefi_exit_retry_cnt' <= RetryMax
  <2>1. at' = "size" /\ UNCHANGED <<live, conout>> /\ uefi_exit_retry_cnt' \in Nat
    BY <1>3 DEF ExitBootServices, Efi
  <2> QED BY <1>0, <1>3, <2>1
<1>4. CASE route # "efi" /\ stale /\ ~ (uefi_exit_retry_cnt' <= RetryMax)
  <2>1. uefi_exit_retry_cnt' \in Nat /\ uefi_exit_retry_cnt' > RetryMax
    BY <1>4, RamInfoAssumption DEF ExitBootServices, Efi
  <2>2. at' = After /\ conout' = FALSE /\ live' = TRUE
    BY <1>4 DEF ExitBootServices, Efi, Gone
  <2>3. route = "uefi" /\ uefi_init_cnt = 0
    BY <1>0, <1>4
  <2>4. CASE first
    <3>1. at' = "run"
      BY <2>4, <2>1, <2>2, <2>3 DEF After
    <3>2. ServTypes'
      BY <1>0, <2>4, <2>1, <2>2, <2>3, <3>1
    <3>3. Left'
      BY <1>0, <2>4, <2>1, <2>2, <2>3, <3>1
    <3>4. Announced'
      BY <1>0, <2>4, <2>1, <2>2, <2>3, <3>1
    <3> QED BY <3>2, <3>3, <3>4
  <2>5. CASE ~ first
    <3>1. at' = "kernel"
      BY <2>5, <2>1, <2>2, <2>3 DEF After
    <3>2. ServTypes'
      BY <1>0, <2>5, <2>1, <2>2, <2>3, <3>1
    <3>3. Left'
      BY <1>0, <2>5, <2>1, <2>2, <2>3, <3>1
    <3>4. Announced'
      BY <1>0, <2>5, <2>1, <2>2, <2>3, <3>1
    <3> QED BY <3>2, <3>3, <3>4
  <2> QED BY <2>4, <2>5
<1> QED BY <1>1, <1>2, <1>3, <1>4

LEMMA ServLeave == ASSUME ServInv, uefi_exit_boot_services PROVE ServInv'
<1> USE DEF ServInv, ServTypes, Left, Announced, Routes, Places, AskingMap
<1>0. at = "leave" /\ UNCHANGED <<route, uefi_exit_retry_cnt, live, conout, first, stale>>
  BY DEF uefi_exit_boot_services, mapVars
<1>1. CASE ~ conout
  <2>1. at' = After /\ uefi_init_cnt' = uefi_init_cnt
    BY <1>1 DEF uefi_exit_boot_services
  <2> QED BY <1>0, <1>1, <2>1 DEF After
<1>2. CASE conout
  <2>1. /\ uefi_init_cnt' = uefi_init_cnt - 1
        /\ at' = IF uefi_init_cnt' = 0 THEN "size" ELSE After
    BY <1>2 DEF uefi_exit_boot_services
  <2>2. uefi_init_cnt \in {1, 2} /\ live /\ route = "uefi"
    BY <1>0, <1>2
  <2>3. CASE uefi_init_cnt = 1
    <3>1. uefi_init_cnt' = 0 /\ at' = "size"
      BY <2>1, <2>3
    <3> QED BY <1>0, <1>2, <2>2, <3>1
  <2>4. CASE uefi_init_cnt = 2
    <3>1. uefi_init_cnt' = 1 /\ first /\ at' = "run"
      BY <1>2, <2>1, <2>4 DEF After
    <3> QED BY <1>0, <1>2, <2>2, <3>1
  <2> QED BY <2>2, <2>3, <2>4
<1> QED BY <1>1, <1>2

LEMMA ServNext == ServInv /\ [InfoNext]_<<vars, infoVars>> => ServInv'
<1> SUFFICES ASSUME ServInv, [InfoNext]_<<vars, infoVars>> PROVE ServInv'
  OBVIOUS
<1>0. stale \in BOOLEAN
  BY DEF ServInv, ServTypes
<1>1. ASSUME UNCHANGED infoVars PROVE ServInv'
  BY <1>0, <1>1, ServStep DEF infoVars, mapVars
<1>2. CASE QuerySize
  BY <1>0, <1>2, ServStep DEF QuerySize, Goto, AskingMap
<1>3. CASE AllocatePool
  BY <1>0, <1>3, ServStep DEF AllocatePool, Goto, AskingMap, mapVars, Efi
<1>4. CASE GetMemoryMap
  <2>1. stale' \in BOOLEAN
    <3>1. stale' = FALSE \/ stale' = (stale \/ ~ Efi)
      BY <1>4 DEF GetMemoryMap
    <3> QED BY <1>0, <3>1
  <2>2. at = "get" /\ (\/ at' = "pool"
                       \/ at' = "exit" /\ (route = "efi" \/ uefi_init_cnt = 0)
                       \/ at' = "walk" /\ route # "efi" /\ uefi_init_cnt # 0)
    BY <1>4 DEF GetMemoryMap, Efi
  <2> QED BY <1>4, <2>1, <2>2, ServStep DEF GetMemoryMap, AskingMap
<1>5. CASE Event
  BY <1>5, ServStep DEF Event
<1>6. CASE Walk
  BY <1>0, <1>6, ServStep DEF Walk, mapVars
<1>7. CASE Call
  BY <1>0, <1>7, ServStep DEF Call, mapVars
<1>8. CASE Called
  BY <1>0, <1>8, ServStep DEF Called, Goto, mapVars
<1>9. CASE startnext
  BY <1>9 DEF startnext, Goto, mapVars, ServInv, ServTypes, Left, Announced, Routes, Places, AskingMap
<1>10. CASE Run \/ UNCHANGED infoVars \/ (at = "options" /\ Next /\ UNCHANGED infoVars)
  BY <1>1, <1>10 DEF Run
<1> QED BY <1>2, <1>3, <1>4, <1>5, <1>6, <1>7, <1>8, <1>9, <1>10, ServExit, ServLeave DEF InfoNext, Firmware

\* The kernel starts without boot services, startup gives up its console only
\* with them, and no boot service is called once they are left, unless
\* ExitBootServices() has refused the key too often.
THEOREM BootServicesAreLeft == InfoSpec => []ServicesLeft
<1>1. ServInv => ServicesLeft
  BY DEF ServInv, ServTypes, Left, ServicesLeft, Announced, AskingMap, Routes
<1> QED BY <1>1, ServInit, ServNext, PTL DEF InfoSpec

-----------------------------------------------------------------------------
(* RAM from the firmware                                                   *)

\* Before the calls the lists are as ws_init() left them; behind them the
\* boot services are left.
Before == at = "walk" \/ (at \in AskingMap /\ (route = "efi" \/ uefi_init_cnt > 0))
Behind == at \in {"run", "leave", "kernel"} \/ (at \in AskingMap /\ route = "uefi" /\ uefi_init_cnt = 0)

\* How far the calls have come, cs being those still to be made.
Progress(cs) ==
  /\ Proper(cs, route)
  /\ Added \cup Told(cs, "add") = RamOf /\ Added \cap Told(cs, "add") = {}
  /\ Has(cs, "add") => Kept \cap RamOf \subseteq Told(cs, "alloc")
  /\ Free \cap Kept \subseteq Told(cs, "alloc")
  /\ InUse \subseteq Avoided \cup Told(cs, "avoid")
  /\ route # "uefi" /\ Has(cs, "avoid") => Added = {}
  /\ route # "uefi" => Kept \cup Told(cs, "alloc") \subseteq Firm \cup Told(cs, "avoid")
  /\ ~ sysram_added => sysram = << >>
\* Only the temporary system page may lie in memory the firmware needs.
Spared == route = "uefi" => \A i \in Found : \/ given[i].s = temp_syspage
                                             \/ Given(i) \cap (Kept \cup InUse) = {}
Early == ~ sysram_added /\ \A i \in 1 .. Len(given) : given[i].s = temp_syspage

Stage ==
  /\ Before => Init
  /\ at = "call" => Progress(calls) /\ Early
  /\ Behind => Progress(<< >>) /\ Spared
Source ==
  /\ route = "none" <=> at = "options"
  /\ route = "fdt" => map \in Trees
  /\ route \in {"uefi", "efi"} => map \in Maps
MemInv ==
  /\ ListInv /\ Source
  /\ route = "none" => BanksOnly
  /\ route # "uefi" => PoolInv
  /\ route # "none" /\ ~ crashed => Stage
InfoInv == ServInv /\ MemInv

LEMMA NothingTold ==
  /\ \A op : Told(<< >>, op) = {} /\ ~ Has(<< >>, op)
  /\ \A r : Proper(<< >>, r)
<1>1. << >> \in Seq(Asks) /\ Len(<< >>) = 0 /\ 1 .. 0 = {}
  OBVIOUS
<1> QED BY <1>1 DEF Told, Has, Proper

\* A call that changes nothing, or names no memory.
LEMMA SourceIs ==
  ASSUME UNCHANGED <<route, map>>
  PROVE  RamOf' = RamOf /\ Kept' = Kept /\ InUse' = InUse
BY DEF RamOf, Kept, InUse

\* What the calls see of the state does not change.
LEMMA StillProgress ==
  ASSUME ListInv, UNCHANGED <<vars, route, map>>, NEW cs
  PROVE  /\ Progress(cs) => Progress(cs)'
         /\ (Spared => Spared') /\ (Early => Early') /\ (Init => Init')
<1>1. /\ Free' = Free /\ Avoided' = Avoided /\ Added' = Added /\ Firm' = Firm
  BY StutterStep
<1>2. RamOf' = RamOf /\ Kept' = Kept /\ InUse' = InUse
  BY SourceIs
<1>3. Progress(cs) => Progress(cs)'
  BY <1>1, <1>2 DEF Progress, vars, Told, Has, Proper
<1>4. Spared => Spared'
  BY <1>2 DEF Spared, vars, Found, Given
<1>5. (Early => Early') /\ (Init => Init')
  BY DEF Early, Init, vars
<1> QED BY <1>3, <1>4, <1>5

\* A step of startup that leaves the RAM manager alone.
LEMMA QuietStep ==
  ASSUME InfoInv, UNCHANGED <<vars, route, map>>, route # "none",
         at' # "options", Before' => Before,
         at' = "call" => at = "call" /\ calls' = calls,
         Behind' => Behind \/ (at = "call" /\ calls = << >>)
  PROVE  MemInv' /\ UNCHANGED Pool!vars
<1>1. /\ ListInv' /\ UNCHANGED Pool!vars /\ Free' = Free
  BY StutterStep DEF InfoInv, MemInv
<1>2. route' # "uefi" => PoolInv'
  BY <1>1, PoolNext DEF InfoInv, MemInv
<1>3. Source' /\ route' # "none"
  BY DEF InfoInv, MemInv, Source
<1>4. ASSUME ~ crashed' PROVE Stage'
  <2>1. Stage
    BY <1>4 DEF InfoInv, MemInv, vars
  <2>2. Before' => Init'
    BY <2>1, StillProgress DEF Stage, InfoInv, MemInv
  <2>3. Behind' => Progress(<< >>)' /\ Spared'
    <3>1. ASSUME Behind PROVE Progress(<< >>)' /\ Spared'
      BY <2>1, <3>1, StillProgress DEF Stage, InfoInv, MemInv
    <3>2. ASSUME at = "call", calls = << >> PROVE Progress(<< >>)' /\ Spared'
      <4>1. Progress(<< >>) /\ Early
        BY <2>1, <3>2 DEF Stage
      <4>2. Spared
        BY <4>1 DEF Early, Spared, Found
      <4> QED BY <4>1, <4>2, StillProgress DEF InfoInv, MemInv
    <3> QED BY <3>1, <3>2
  <2>4. ASSUME at' = "call" PROVE Progress(calls)' /\ Early'
    <3>1. Progress(calls) /\ Early /\ calls' = calls
      BY <2>1, <2>4 DEF Stage
    <3>2. Free' = Free /\ Avoided' = Avoided /\ Added' = Added /\ Firm' = Firm
      BY StutterStep DEF InfoInv, MemInv
    <3>3. RamOf' = RamOf /\ Kept' = Kept /\ InUse' = InUse
      BY SourceIs
    <3>4. \A op : Told(calls, op)' = Told(calls, op) /\ (Has(calls, op)' <=> Has(calls, op))
      BY <3>1 DEF Told, Has
    <3>5. Proper(calls, route)' <=> Proper(calls, route)
      BY <3>1 DEF Proper
    <3>6. route' = route /\ sysram_added' = sysram_added /\ sysram' = sysram
      BY DEF vars
    <3>7. Progress(calls)'
      BY <3>1, <3>2, <3>3, <3>4, <3>5, <3>6 DEF Progress
    <3>8. Early'
      BY <3>1 DEF Early, vars
    <3> QED BY <3>7, <3>8
  <2> QED BY <2>2, <2>3, <2>4 DEF Stage
<1> QED BY <1>1, <1>2, <1>3, <1>4 DEF MemInv

\* No memory for the map, or a map that is not understood.
LEMMA CrashStep ==
  ASSUME InfoInv, Crash, UNCHANGED <<route, map>>, route # "none", at' # "options"
  PROVE  MemInv' /\ UNCHANGED Pool!vars
<1>1. ListInv' /\ UNCHANGED Pool!vars /\ crashed'
  BY CrashIs DEF InfoInv, MemInv, Crash
<1>2. route' # "uefi" => PoolInv'
  BY <1>1, PoolNext DEF InfoInv, MemInv
<1> QED BY <1>1, <1>2 DEF InfoInv, MemInv, Source

\* The same of the calls that are left.
LEMMA ProgressAs == ASSUME NEW cs, calls' = cs, Progress(cs)' PROVE Progress(calls)'
<1>1. \A op : Told(calls, op)' = Told(cs, op) /\ (Has(calls, op)' <=> Has(cs, op))
  BY DEF Told, Has
<1>2. Proper(calls, route)' <=> Proper(cs, route)'
  BY DEF Proper
<1>3. \A op : Told(cs, op)' = Told(cs, op) /\ (Has(cs, op)' <=> Has(cs, op))
  BY DEF Told, Has
<1> QED BY <1>1, <1>2, <1>3 DEF Progress

LEMMA PlanStarts == ASSUME Init, NEW cs, Plan(cs) PROVE Progress(cs) /\ Early
<1>1. Added = {} /\ Free = {}
  BY InitInv DEF Pool!Init
<1>2. sysram_added = FALSE /\ sysram = << >> /\ given = << >>
  BY DEF Init
<1>3. Progress(cs)
  BY <1>1, <1>2 DEF Plan, Progress
<1>4. Early
  BY <1>2 DEF Early
<1> QED BY <1>3, <1>4

\* What the source tells is learnt.
LEMMA WalkStep ==
  ASSUME InfoInv, Walk, route # "none", ~ crashed
  PROVE  MemInv' /\ UNCHANGED Pool!vars
<1>0. at = "walk" /\ UNCHANGED <<route, map>>
  BY DEF Walk
<1>1. CASE Crash /\ UNCHANGED <<at, calls>>
  BY <1>0, <1>1, CrashStep
<1>2. CASE /\ at' = "call" /\ UNCHANGED vars
           /\ calls' = CASE route = "uefi" -> do_raminfo(map)
                         [] route = "efi" -> init_raminfo_efi(map)
                         [] route = "fdt" -> init_raminfo_fdt(map)
                         [] route = "board" -> stm32mp2_init_raminfo
  <2>1. /\ ListInv' /\ UNCHANGED Pool!vars /\ Init
    <3>1. Before
      BY <1>0 DEF Before
    <3> QED BY <1>2, <3>1, StutterStep DEF InfoInv, MemInv, Stage
  <2>2. route' # "uefi" => PoolInv'
    BY <1>0, <2>1, PoolNext DEF InfoInv, MemInv
  <2>3. Source' /\ route' # "none"
    BY <1>0, <1>2 DEF InfoInv, MemInv, Source
  <2>4. PICK cs : cs = calls'
    OBVIOUS
  <2>5. Plan(cs)
    <3>1. route \in {"board", "fdt", "uefi", "efi"}
      BY DEF InfoInv, MemInv, ServInv, ServTypes, Routes
    <3>2. CASE route = "board"
      BY <1>2, <2>4, <3>2, BoardPlan
    <3>3. CASE route = "fdt"
      BY <1>2, <2>4, <3>3, TreePlan DEF InfoInv, MemInv, Source
    <3>4. CASE route = "uefi"
      BY <1>2, <2>4, <3>4, UefiPlan DEF InfoInv, MemInv, Source
    <3>5. CASE route = "efi"
      BY <1>2, <2>4, <3>5, EfiPlan DEF InfoInv, MemInv, Source
    <3> QED BY <3>1, <3>2, <3>3, <3>4, <3>5
  <2>6. Progress(cs)' /\ Early'
    BY <1>0, <1>2, <2>1, <2>5, PlanStarts, StillProgress DEF InfoInv, MemInv
  <2>7. Progress(calls)'
    BY <2>4, <2>6, ProgressAs
  <2>8. ~ Before' /\ ~ Behind'
    BY <1>2 DEF Before, Behind, AskingMap
  <2> QED BY <2>1, <2>2, <2>3, <2>6, <2>7, <2>8 DEF Stage, MemInv
<1> QED BY <1>1, <1>2 DEF Walk

\* A call of no size does nothing.
LEMMA NoCall ==
  ASSUME NEW cs, cs # << >>, Progress(cs), Head(cs).size = 0
  PROVE  Progress(Tail(cs))
<1> DEFINE c == Head(cs)
<1>1. Proper(cs, route)
  BY DEF Progress
<1>2. Extent(c) = {}
  <2>1. c \in Asks
    BY <1>1, HeadIsCall
  <2>2. c.start \in Int /\ c.size = 0
    BY <2>1 DEF Asks
  <2> QED BY <2>2 DEF Extent, Units
<1>3. Proper(Tail(cs), route)
      /\ \A op : Told(cs, op) = Told(Tail(cs), op) /\ (Has(Tail(cs), op) => Has(cs, op))
  <2>1. \A op : Told(cs, op) = Told(Tail(cs), op) \cup (IF c.op = op THEN Extent(c) ELSE {})
    BY <1>1, HeadIsCall
  <2>2. \A op : Told(cs, op) = Told(Tail(cs), op)
    BY <1>2, <2>1
  <2> QED BY <1>1, <2>2, HeadIsCall
<1> QED BY <1>3 DEF Progress

\* The range a call names.
LEMMA CallNames ==
  ASSUME NEW cs, cs # << >>, Progress(cs), Head(cs).size # 0
  PROVE  LET b == <<Head(cs).start, Head(cs).size>> IN
         b \in Requests /\ Block(b) = Extent(Head(cs))
<1>1. Head(cs).start \in Nat /\ Head(cs).size \in Nat \ {0}
  BY HeadIsCall DEF Progress, Asks
<1> QED BY <1>1 DEF Requests, Block, Extent

\* How the next call fits those that were made.
LEMMA CallFits ==
  ASSUME NEW cs, cs # << >>, Progress(cs)
  PROVE  /\ Proper(Tail(cs), route)
         /\ \A op : /\ Told(cs, op) = Told(Tail(cs), op)
                                      \cup (IF Head(cs).op = op THEN Extent(Head(cs)) ELSE {})
                    /\ Has(Tail(cs), op) => Has(cs, op)
                    /\ ~ Has(cs, op) => Told(cs, op) = {}
         /\ Has(cs, Head(cs).op)
         /\ Head(cs).op = "add" => Extent(Head(cs)) \cap Told(Tail(cs), "add") = {}
         /\ Head(cs).op = "alloc" => ~ Has(Tail(cs), "add")
         /\ route # "uefi" /\ Has(Tail(cs), "avoid") => Head(cs).op = "avoid"
<1>1. Proper(cs, route)
  BY DEF Progress
<1>2. \A op : ~ Has(cs, op) => Told(cs, op) = {}
  BY NoneTold DEF Has
<1> QED BY <1>1, <1>2, HeadIsCall

LEMMA ProgressNext ==
  ASSUME NEW cs, UNCHANGED <<route, map>>, Proper(cs, route),
         Added' \cup Told(cs, "add") = RamOf, Added' \cap Told(cs, "add") = {},
         Has(cs, "add") => Kept \cap RamOf \subseteq Told(cs, "alloc"),
         Free' \cap Kept \subseteq Told(cs, "alloc"),
         InUse \subseteq Avoided' \cup Told(cs, "avoid"),
         route # "uefi" /\ Has(cs, "avoid") => Added' = {},
         route # "uefi" => Kept \cup Told(cs, "alloc") \subseteq Firm' \cup Told(cs, "avoid"),
         ~ sysram_added' => sysram' = << >>
  PROVE  Progress(cs)'
<1>1. \A op : Told(cs, op)' = Told(cs, op) /\ (Has(cs, op)' <=> Has(cs, op))
  BY DEF Told, Has
<1>2. Proper(cs, route)'
  BY DEF Proper
<1>3. RamOf' = RamOf /\ Kept' = Kept /\ InUse' = InUse
  BY SourceIs
<1> QED BY <1>1, <1>2, <1>3 DEF Progress

LEMMA AvoidCall ==
  ASSUME ListInv, route # "uefi" => PoolInv, NEW cs, cs # << >>, Progress(cs), Early,
         Head(cs).size # 0, Head(cs).op = "avoid", Avoid(<<Head(cs).start, Head(cs).size>>),
         UNCHANGED <<route, map>>
  PROVE  /\ ListInv' /\ (route # "uefi" => [Pool!Next]_(Pool!vars))
         /\ ~ crashed' => Progress(Tail(cs))' /\ Early'
<1> DEFINE c == Head(cs)
           t == Tail(cs)
           b == <<c.start, c.size>>
<1>1. b \in Requests /\ Block(b) = Extent(c)
  BY CallNames
<1>2. Avoid(b) /\ c.op = "avoid"
  OBVIOUS
<1>3. /\ Proper(t, route)
      /\ \A op : Told(cs, op) = Told(t, op) \cup (IF c.op = op THEN Extent(c) ELSE {})
      /\ \A op : (Has(t, op) => Has(cs, op)) /\ (~ Has(cs, op) => Told(cs, op) = {})
      /\ Has(cs, c.op)
      /\ c.op = "add" => Extent(c) \cap Told(t, "add") = {}
      /\ c.op = "alloc" => ~ Has(t, "add")
      /\ route # "uefi" /\ Has(t, "avoid") => c.op = "avoid"
  BY CallFits
<1>4. /\ Told(cs, "avoid") = Told(t, "avoid") \cup Block(b)
      /\ Told(cs, "add") = Told(t, "add") /\ Told(cs, "alloc") = Told(t, "alloc")
  BY <1>1, <1>2, <1>3
<1>5. sysram' = sysram /\ ~ sysram_added /\ sysram = << >>
  BY <1>2 DEF Avoid, Crash, TakeRam, Early, Progress
<1> HIDE DEF c, t, b
<1>6. /\ ListInv' /\ (Added = {} => Pool!Avoid \/ UNCHANGED Pool!vars)
      /\ Free' = Free /\ Added' = Added
      /\ UNCHANGED <<ram, temp_syspage, given, sysram_added>>
      /\ crashed' \/ (Firm' = Firm \cup Block(b) /\ Avoided' = Avoided \cup Block(b))
  BY <1>1, <1>2, AvoidStep
<1>7. route # "uefi" => [Pool!Next]_(Pool!vars)
  <2>1. route # "uefi" => Added = {}
    BY <1>2, <1>3 DEF Progress
  <2> QED BY <1>6, <2>1 DEF Pool!Next
<1>8. ASSUME ~ crashed' PROVE Progress(t)'
  BY <1>3, <1>4, <1>5, <1>6, <1>8, ProgressNext DEF Progress
<1>9. ASSUME ~ crashed' PROVE Early'
  BY <1>6 DEF Early
<1> QED BY <1>6, <1>7, <1>8, <1>9 DEF t

LEMMA AllocCall ==
  ASSUME ListInv, route # "uefi" => PoolInv, NEW cs, cs # << >>, Progress(cs), Early,
         Head(cs).size # 0, Head(cs).op = "alloc", Alloc(<<Head(cs).start, Head(cs).size>>),
         UNCHANGED <<route, map>>
  PROVE  /\ ListInv' /\ (route # "uefi" => [Pool!Next]_(Pool!vars))
         /\ ~ crashed' => Progress(Tail(cs))' /\ Early'
<1> DEFINE c == Head(cs)
           t == Tail(cs)
           b == <<c.start, c.size>>
<1>1. b \in Requests /\ Block(b) = Extent(c)
  BY CallNames
<1>2. Alloc(b) /\ c.op = "alloc"
  OBVIOUS
<1>3. /\ Proper(t, route)
      /\ \A op : Told(cs, op) = Told(t, op) \cup (IF c.op = op THEN Extent(c) ELSE {})
      /\ \A op : (Has(t, op) => Has(cs, op)) /\ (~ Has(cs, op) => Told(cs, op) = {})
      /\ Has(cs, c.op)
      /\ c.op = "add" => Extent(c) \cap Told(t, "add") = {}
      /\ c.op = "alloc" => ~ Has(t, "add")
      /\ route # "uefi" /\ Has(t, "avoid") => c.op = "avoid"
  BY CallFits
<1>4. /\ Told(cs, "alloc") = Told(t, "alloc") \cup Block(b)
      /\ Told(cs, "add") = Told(t, "add") /\ Told(cs, "avoid") = Told(t, "avoid")
  BY <1>1, <1>2, <1>3
<1>5. sysram' = sysram /\ ~ sysram_added /\ sysram = << >>
  BY <1>2 DEF Alloc, Crash, TakeRam, Early, Progress
<1> HIDE DEF c, t, b
<1>6. /\ ListInv' /\ (Block(b) \subseteq Firm => Pool!Claim \/ UNCHANGED Pool!vars)
      /\ Added' = Added /\ Firm' = Firm /\ Avoided' = Avoided
      /\ UNCHANGED <<ram, temp_syspage, given, sysram_added>>
      /\ crashed' \/ Free' = Free \ Block(b)
  BY <1>1, <1>2, AllocStep, <1>5
<1>7. route # "uefi" => [Pool!Next]_(Pool!vars)
  <2>1. route # "uefi" => Told(cs, "avoid") = {}
    <3>1. route # "uefi" => ~ Has(t, "avoid")
      BY <1>2, <1>3
    <3>2. ~ Has(t, "avoid") => Told(t, "avoid") = {}
      BY NoneTold DEF Has
    <3> QED BY <1>4, <3>1, <3>2
  <2>2. route # "uefi" => Block(b) \subseteq Firm
    BY <1>4, <2>1 DEF Progress
  <2> QED BY <1>6, <2>2 DEF Pool!Next
<1>8. ASSUME ~ crashed' PROVE Progress(t)'
  <2>1. ~ Has(t, "add") /\ (route # "uefi" => ~ Has(t, "avoid"))
    BY <1>2, <1>3
  <2> QED BY <1>3, <1>4, <1>5, <1>6, <1>8, <2>1, ProgressNext DEF Progress
<1>9. ASSUME ~ crashed' PROVE Early'
  BY <1>6 DEF Early
<1> QED BY <1>6, <1>7, <1>8, <1>9 DEF t

LEMMA AddCall ==
  ASSUME ListInv, route # "uefi" => PoolInv, NEW cs, cs # << >>, Progress(cs), Early,
         Head(cs).size # 0, Head(cs).op = "add", AddRam(<<Head(cs).start, Head(cs).size>>),
         UNCHANGED <<route, map>>
  PROVE  /\ ListInv' /\ (route # "uefi" => [Pool!Next]_(Pool!vars))
         /\ ~ crashed' => Progress(Tail(cs))' /\ Early'
<1> DEFINE c == Head(cs)
           t == Tail(cs)
           b == <<c.start, c.size>>
<1>1. b \in Requests /\ Block(b) = Extent(c)
  BY CallNames
<1>2. AddRam(b) /\ c.op = "add"
  OBVIOUS
<1>3. /\ Proper(t, route)
      /\ \A op : Told(cs, op) = Told(t, op) \cup (IF c.op = op THEN Extent(c) ELSE {})
      /\ \A op : (Has(t, op) => Has(cs, op)) /\ (~ Has(cs, op) => Told(cs, op) = {})
      /\ Has(cs, c.op)
      /\ c.op = "add" => Extent(c) \cap Told(t, "add") = {}
      /\ c.op = "alloc" => ~ Has(t, "add")
      /\ route # "uefi" /\ Has(t, "avoid") => c.op = "avoid"
  BY CallFits
<1>4. /\ Told(cs, "add") = Told(t, "add") \cup Block(b)
      /\ Told(cs, "alloc") = Told(t, "alloc") /\ Told(cs, "avoid") = Told(t, "avoid")
  BY <1>1, <1>2, <1>3
<1>5. sysram' = sysram /\ ~ sysram_added /\ sysram = << >>
  BY <1>2 DEF AddRam, Crash, TakeRam, Early, Progress
<1> HIDE DEF c, t, b
<1>6. /\ ListInv' /\ (Pool!AddRam \/ UNCHANGED Pool!vars)
      /\ Firm' = Firm /\ UNCHANGED sysram_added
      /\ \/ crashed' /\ Added' = Added /\ UNCHANGED <<ram, temp_syspage, given>>
         \/ /\ crashed' = crashed /\ Added' = Added \cup Block(b)
            /\ \/ UNCHANGED <<temp_syspage, given>>
               \/ temp_syspage = NullPaddr /\ temp_syspage' # NullPaddr
                  /\ Give(temp_syspage', TempSize, "ws")
  BY <1>1, <1>2, AddRamStep, <1>4 DEF Progress
<1>7. route # "uefi" => [Pool!Next]_(Pool!vars)
  BY <1>6 DEF Pool!Next
<1>8. ASSUME ~ crashed' PROVE Progress(t)'
  <2>1. Free' \subseteq Free \cup Block(b) /\ Avoided \subseteq Avoided'
    BY <1>6 DEF Pool!AddRam, Pool!vars
  <2>2. Added' \subseteq Added \cup Block(b) /\ Added \subseteq Added' /\ (crashed' \/ Block(b) \subseteq Added')
    BY <1>6
  <2>3. Has(cs, "add") /\ (route # "uefi" => ~ Has(t, "avoid"))
    BY <1>2, <1>3
  <2>4. Block(b) \cap Told(t, "add") = {}
    BY <1>1, <1>2, <1>3
  <2>5. Kept \cap RamOf \subseteq Told(t, "alloc") /\ Block(b) \subseteq RamOf
    BY <1>4, <2>3 DEF Progress
  <2>6. Free' \cap Kept \subseteq Told(t, "alloc")
    BY <1>4, <2>1, <2>5 DEF Progress
  <2>7. Added' \cup Told(t, "add") = RamOf /\ Added' \cap Told(t, "add") = {}
    BY <1>4, <1>8, <2>2, <2>4 DEF Progress
  <2>8. InUse \subseteq Avoided' \cup Told(t, "avoid")
    BY <1>4, <2>1 DEF Progress
  <2>9. route # "uefi" => Kept \cup Told(t, "alloc") \subseteq Firm' \cup Told(t, "avoid")
    BY <1>4, <1>6 DEF Progress
  <2> QED BY <1>3, <1>5, <2>3, <2>5, <2>6, <2>7, <2>8, <2>9, ProgressNext
<1>9. ASSUME ~ crashed' PROVE Early'
  <2>1. CASE UNCHANGED <<temp_syspage, given>>
    BY <1>6, <2>1 DEF Early
  <2>2. CASE temp_syspage = NullPaddr /\ Give(temp_syspage', TempSize, "ws")
    <3>1. given \in Seq(Blk) /\ \A i \in 1 .. Len(given) : given[i].s = NullPaddr
      BY <2>2 DEF ListInv, Shape, Early
    <3>2. given = << >>
      <4>1. ASSUME given # << >> PROVE FALSE
        <5>1. 1 \in 1 .. Len(given) /\ given[1] \in Blk
          BY <3>1, <4>1
        <5> QED BY <3>1, <5>1 DEF Blk, NullPaddr
      <4> QED BY <4>1
    <3>3. given' = <<[s |-> temp_syspage', e |-> temp_syspage' + TempSize, kind |-> "ws"]>>
      BY <2>2, <3>2 DEF Give
    <3> QED BY <1>5, <1>6, <3>3 DEF Early
  <2> QED BY <1>6, <1>9, <2>1, <2>2
<1> QED BY <1>6, <1>7, <1>8, <1>9 DEF t

\* The next call is made.
LEMMA CallStep ==
  ASSUME InfoInv, Call, route # "none"
  PROVE  MemInv' /\ (route # "uefi" => [Pool!Next]_(Pool!vars))
<1>1. /\ at = "call" /\ calls # << >> /\ ~ crashed /\ calls' = Tail(calls)
      /\ UNCHANGED <<route, at, map>>
  BY DEF Call
<1>2. ListInv /\ (route # "uefi" => PoolInv) /\ Progress(calls) /\ Early
  BY <1>1 DEF InfoInv, MemInv, Stage
<1>3. PICK cs : cs = calls
  OBVIOUS
<1>4. Progress(cs) /\ cs # << >> /\ calls' = Tail(cs)
  BY <1>1, <1>2, <1>3
<1>5. Head(cs).op \in Ops
  BY <1>4, HeadIsCall DEF Progress, Asks
<1>6. /\ ListInv' /\ (route # "uefi" => [Pool!Next]_(Pool!vars))
      /\ ~ crashed' => Progress(Tail(cs))' /\ Early'
  <2>1. CASE Head(cs).size = 0
    <3>1. UNCHANGED vars
      BY <1>3, <2>1 DEF Call
    <3>2. Progress(Tail(cs))
      BY <1>4, <2>1, NoCall
    <3> QED BY <1>1, <1>2, <3>1, <3>2, StutterStep, StillProgress
  <2>2. CASE Head(cs).size # 0 /\ Head(cs).op = "avoid"
    <3>1. Avoid(<<Head(cs).start, Head(cs).size>>)
      BY <1>3, <2>2 DEF Call
    <3> QED BY <1>1, <1>2, <1>4, <2>2, <3>1, AvoidCall
  <2>3. CASE Head(cs).size # 0 /\ Head(cs).op = "alloc"
    <3>1. Alloc(<<Head(cs).start, Head(cs).size>>)
      BY <1>3, <2>3 DEF Call
    <3> QED BY <1>1, <1>2, <1>4, <2>3, <3>1, AllocCall
  <2>4. CASE Head(cs).size # 0 /\ Head(cs).op = "add"
    <3>1. AddRam(<<Head(cs).start, Head(cs).size>>)
      BY <1>3, <2>4 DEF Call
    <3> QED BY <1>1, <1>2, <1>4, <2>4, <3>1, AddCall
  <2> QED BY <1>5, <2>1, <2>2, <2>3, <2>4 DEF Ops
<1>7. route' # "uefi" => PoolInv'
  BY <1>1, <1>2, <1>6, PoolNext
<1>8. Source' /\ route' # "none"
  BY <1>1 DEF InfoInv, MemInv, Source
<1>9. ASSUME ~ crashed' PROVE Stage'
  <2>1. Progress(calls)' /\ Early'
    BY <1>4, <1>6, <1>9, ProgressAs
  <2>2. ~ Before' /\ ~ Behind'
    BY <1>1 DEF Before, Behind, AskingMap
  <2> QED BY <2>1, <2>2 DEF Stage
<1> QED BY <1>6, <1>7, <1>8, <1>9 DEF MemInv

\* Whatever startup allocates for itself stays off the firmware's memory.
LEMMA NarrowsKeeps ==
  ASSUME Narrows, UNCHANGED <<route, map>>, Progress(<< >>), Spared, given \in Seq(Blk)
  PROVE  Progress(<< >>)' /\ Spared'
<1>1. RamOf' = RamOf /\ Kept' = Kept /\ InUse' = InUse
  BY SourceIs
<1>2. PICK cs : cs = << >>
  OBVIOUS
<1>3. \A op : Told(cs, op) = {} /\ ~ Has(cs, op)
  BY <1>2, NothingTold
<1>4. Progress(cs)
  BY <1>2
<1>5. /\ Free' \subseteq Free /\ Avoided \subseteq Avoided' /\ Added' = Added /\ Firm \subseteq Firm'
      /\ sysram_added => sysram_added'
      /\ ~ sysram_added' => sysram' = sysram
      /\ temp_syspage' = temp_syspage
  BY DEF Narrows
<1>6. Progress(cs)'
  BY <1>3, <1>4, <1>5, ProgressNext DEF Progress
<1>7. Free \cap Kept = {} /\ InUse \subseteq Avoided
  BY <1>3, <1>4 DEF Progress
<1>8. Spared'
  <2>1. CASE given' = given
    BY <1>1, <1>5, <2>1 DEF Spared, Found, Given
  <2>2. ASSUME NEW s, NEW n, NEW kind, Give(s, n, kind),
               kind \in FoundKinds => Units(s, s + n) \subseteq Free \ Avoided
        PROVE  Spared'
    <3> DEFINE x == [s |-> s, e |-> s + n, kind |-> kind]
    <3>1. /\ given' = Append(given, x)
          /\ x.s = s /\ x.e = s + n /\ x.kind = kind
      BY <2>2 DEF Give
    <3> HIDE DEF x
    <3>2. /\ Len(given') = Len(given) + 1 /\ Len(given) \in Nat /\ given'[Len(given) + 1] = x
          /\ \A i \in 1 .. Len(given) : given'[i] = given[i]
      BY <3>1
    <3>3. ASSUME route' = "uefi", NEW i \in Found'
          PROVE  \/ given'[i].s = temp_syspage'
                 \/ Units(given'[i].s, given'[i].e) \cap (Kept \cup InUse) = {}
      <4>1. i \in 1 .. Len(given) + 1 /\ given'[i].kind \in FoundKinds
        BY <3>2, <3>3 DEF Found
      <4>2. CASE i \in 1 .. Len(given)
        <5>1. i \in Found /\ given'[i] = given[i]
          BY <3>2, <4>1, <4>2 DEF Found
        <5>2. given[i].s = temp_syspage \/ Given(i) \cap (Kept \cup InUse) = {}
          BY <3>3, <5>1 DEF Spared
        <5> QED BY <1>5, <5>1, <5>2 DEF Given
      <4>3. CASE i = Len(given) + 1
        <5>1. given'[i] = x /\ kind \in FoundKinds
          BY <3>1, <3>2, <4>1, <4>3
        <5> QED BY <1>7, <2>2, <3>1, <5>1
      <4> QED BY <3>2, <4>1, <4>2, <4>3
    <3> QED BY <1>1, <3>3 DEF Spared, Given
  <2> QED BY <2>1, <2>2 DEF Narrows
<1>9. Progress(<< >>)'
  <2>1. << >> = cs
    BY <1>2
  <2> QED BY <1>6, <2>1
<1> QED BY <1>8, <1>9

\* The rest of startup allocates.
LEMMA RunStep ==
  ASSUME InfoInv, Run, route # "none", ~ crashed
  PROVE  MemInv' /\ (route # "uefi" => [Pool!Next]_(Pool!vars))
<1>1. at = "run" /\ UNCHANGED <<route, at, map, calls>>
  BY DEF Run, infoVars
<1>2. ListInv /\ (route # "uefi" => PoolInv) /\ Progress(<< >>) /\ Spared
  BY <1>1 DEF InfoInv, MemInv, Stage, Behind
<1>3. ListInv' /\ Narrows /\ (Pool!Withdrawn => [Pool!Next]_(Pool!vars))
  <2>1. ASSUME NEW q \in AllocReq, AllocRam(q)
        PROVE  ListInv' /\ Narrows /\ (Pool!Withdrawn => [Pool!Next]_(Pool!vars))
    BY <1>2, <2>1, AllocRamStep DEF Pool!Next
  <2>2. ASSUME NEW n \in WsReq, WsAlloc(n)
        PROVE  ListInv' /\ Narrows /\ (Pool!Withdrawn => [Pool!Next]_(Pool!vars))
    BY <1>2, <2>2, WsAllocStep DEF Pool!Next
  <2>3. CASE AddSysram
    BY <1>2, <2>3, AddSysramStep
  <2> QED BY <2>1, <2>2, <2>3 DEF Run
<1>4. route # "uefi" => [Pool!Next]_(Pool!vars)
  BY <1>2, <1>3 DEF PoolInv
<1>5. route' # "uefi" => PoolInv'
  BY <1>1, <1>2, <1>4, PoolNext
<1>6. Source' /\ route' # "none"
  BY <1>1 DEF InfoInv, MemInv, Source
<1>7. Stage'
  <2>1. Progress(<< >>)' /\ Spared'
    BY <1>1, <1>2, <1>3, NarrowsKeeps DEF ListInv, Shape
  <2>2. ~ Before' /\ at' # "call"
    BY <1>1 DEF Before, AskingMap
  <2> QED BY <2>1, <2>2 DEF Stage
<1> QED BY <1>3, <1>4, <1>5, <1>6, <1>7 DEF MemInv

\* Reading the map, leaving the boot services and handing over to the next
\* program leave the RAM manager alone.
LEMMA QuietSteps ==
  ASSUME InfoInv, route # "none", ~ crashed,
         \/ QuerySize \/ AllocatePool \/ GetMemoryMap \/ Event
         \/ ExitBootServices \/ uefi_exit_boot_services \/ Called \/ startnext
  PROVE  MemInv' /\ UNCHANGED Pool!vars
<1> USE DEF Before, Behind, AskingMap
<1>0. /\ uefi_init_cnt \in Nat
      /\ at \in AskingMap => route = "efi" \/ route = "uefi"
      /\ at = "exit" /\ route = "uefi" => uefi_init_cnt = 0
      /\ conout => route = "uefi"
  BY DEF InfoInv, ServInv, ServTypes, Left, Announced
<1>1. CASE QuerySize
  BY <1>1, QuietStep DEF QuerySize, Goto, exitVars
<1>2. CASE AllocatePool
  <2>1. CASE Goto("pool", "get") /\ UNCHANGED <<route, map, calls, events, exitVars, vars>>
    BY <2>1, QuietStep DEF Goto, exitVars
  <2>2. CASE /\ at = "pool" /\ at' = IF Efi THEN "returned" ELSE at
             /\ IF Efi THEN UNCHANGED vars ELSE Crash
             /\ UNCHANGED <<route, map, calls, mapVars, exitVars>>
    <3>1. CASE Efi
      BY <2>2, <3>1, QuietStep
    <3>2. CASE ~ Efi
      BY <2>2, <3>2, CrashStep
    <3> QED BY <3>1, <3>2
  <2> QED BY <1>2, <2>1, <2>2 DEF AllocatePool
<1>3. CASE GetMemoryMap
  <2>1. /\ at = "get" /\ UNCHANGED <<route, map, calls, exitVars, vars>>
        /\ \/ at' \in {"exit", "pool"}
           \/ at' = "walk" /\ ~ (Efi \/ uefi_init_cnt = 0)
    BY <1>3 DEF GetMemoryMap
  <2> QED BY <1>0, <2>1, QuietStep DEF exitVars, Efi
<1>4. CASE Event
  BY <1>4, QuietStep DEF Event, exitVars
<1>5. CASE ExitBootServices
  <2>1. /\ at = "exit" /\ UNCHANGED <<route, map, calls, uefi_init_cnt, vars>>
        /\ IF Efi THEN at' \in {"returned", "walk"} ELSE at' \in {"size", "run", "kernel"}
    BY <1>5 DEF ExitBootServices, Gone, After
  <2> QED BY <1>0, <2>1, QuietStep DEF Efi
<1>6. CASE uefi_exit_boot_services
  <2>1. /\ at = "leave" /\ UNCHANGED <<route, map, calls, vars>>
        /\ \/ at' \in {"run", "kernel"}
           \/ at' = "size" /\ uefi_init_cnt' = 0 /\ conout
    BY <1>6 DEF uefi_exit_boot_services, After
  <2> QED BY <1>0, <2>1, QuietStep
<1>7. CASE Called
  BY <1>7, QuietStep DEF Called, Goto
<1>8. CASE startnext
  BY <1>8, QuietStep DEF startnext, Goto
<1> QED BY <1>1, <1>2, <1>3, <1>4, <1>5, <1>6, <1>7, <1>8

LEMMA InfoInitInv == InfoInit => InfoInv
<1> SUFFICES ASSUME InfoInit PROVE InfoInv
  OBVIOUS
<1>1. ServInv /\ ListInv /\ BanksOnly /\ PoolInv
  BY ServInit, InitInv, PoolInit DEF InfoInit
<1>2. Source
  BY DEF InfoInit, Source
<1>3. Stage
  <2>1. Init /\ at \in {"options", "walk", "size"} /\ (at = "size" => route = "uefi" \/ route = "efi")
    BY DEF InfoInit
  <2>2. route = "uefi" => uefi_init_cnt \in Users
    BY DEF InfoInit
  <2> QED BY <2>1, <2>2 DEF Stage, Behind, AskingMap, Users
<1> QED BY <1>1, <1>2, <1>3 DEF InfoInv, MemInv

LEMMA InfoNextInv ==
  InfoInv /\ [InfoNext]_<<vars, infoVars>>
    => InfoInv' /\ (route # "uefi" => [Pool!Next]_(Pool!vars)) /\ route' = route
<1> SUFFICES ASSUME InfoInv, [InfoNext]_<<vars, infoVars>>
             PROVE  MemInv' /\ (route # "uefi" => [Pool!Next]_(Pool!vars)) /\ route' = route
  BY ServNext DEF InfoInv
<1>1. route' = route
  BY DEF InfoNext, Firmware, QuerySize, AllocatePool, GetMemoryMap, Event, ExitBootServices,
         uefi_exit_boot_services, Walk, Call, Called, Run, startnext, infoVars
<1>2. CASE at = "options" /\ Next /\ UNCHANGED infoVars
  <2>1. route = "none" /\ ListInv /\ BanksOnly /\ PoolInv /\ UNCHANGED <<route, at, map>>
    BY <1>2 DEF InfoInv, MemInv, Source, infoVars
  <2>2. ListInv' /\ BanksOnly' /\ [Pool!Next]_(Pool!vars)
    BY <1>2, <2>1, NextStep DEF PoolInv
  <2>3. PoolInv'
    BY <2>1, <2>2, PoolNext
  <2> QED BY <1>2, <2>1, <2>2, <2>3 DEF MemInv, Source
<1>3. CASE UNCHANGED <<vars, infoVars>>
  <2>0. UNCHANGED vars /\ UNCHANGED <<route, at, map, calls>> /\ UNCHANGED uefi_init_cnt
    BY <1>3 DEF infoVars, exitVars
  <2>1. CASE route = "none"
    <3>1. ListInv /\ BanksOnly /\ PoolInv
      BY <2>1 DEF InfoInv, MemInv
    <3>2. ListInv' /\ BanksOnly' /\ UNCHANGED Pool!vars
      BY <2>0, <3>1, StutterStep
    <3>3. PoolInv'
      BY <3>1, <3>2, PoolNext
    <3> QED BY <2>0, <2>1, <3>2, <3>3 DEF MemInv, InfoInv, Source
  <2>2. CASE route # "none"
    <3>1. /\ at' # "options" /\ (Before' => Before) /\ (Behind' => Behind)
      BY <2>0, <2>2 DEF Before, Behind, InfoInv, MemInv, Source
    <3> QED BY <1>1, <2>0, <2>2, <3>1, QuietStep
  <2> QED BY <2>1, <2>2
<1>4. CASE /\ route # "none" /\ ~ crashed
           /\ Firmware \/ uefi_exit_boot_services \/ Walk \/ Call \/ Called \/ Run \/ startnext
  <2>1. CASE Firmware \/ uefi_exit_boot_services \/ Called \/ startnext
    BY <1>1, <1>4, <2>1, QuietSteps DEF Firmware
  <2>2. CASE Walk
    BY <1>1, <1>4, <2>2, WalkStep
  <2>3. CASE Call
    BY <1>1, <1>4, <2>3, CallStep
  <2>4. CASE Run
    BY <1>1, <1>4, <2>4, RunStep
  <2> QED BY <1>4, <2>1, <2>2, <2>3, <2>4
<1> QED BY <1>2, <1>3, <1>4 DEF InfoNext

\* Startup and the kernel agree on what RAM there is and who has it, however
\* add_ram(), alloc_ram(), ws_alloc(), the -r options and add_sysram() cut and
\* join the entries, whichever source told of the RAM.
THEOREM MemoryIsExact == InfoSpec => []MemoryExact
<1>1. InfoInv => MemoryExact
  BY ListsAreExact DEF InfoInv, MemInv
<1> QED BY <1>1, InfoInitInv, InfoNextInv, PTL DEF InfoSpec

\* Once the calls are made, all RAM of the source has been added and nothing
\* that the firmware keeps or still uses is free, told to the kernel or handed
\* out, except that the temporary system page may lie in memory that UEFI uses.
THEOREM FirmwareIsKept == InfoSpec => []FirmwareKept
<1>1. InfoInv => FirmwareKept
  <2> SUFFICES ASSUME InfoInv, at \in {"run", "leave", "kernel"}, ~ crashed PROVE
        /\ Added = RamOf
        /\ (Free \cup Sysram) \cap Kept = {}
        /\ \A i \in Found : \/ route = "uefi" /\ given[i].s = temp_syspage
                            \/ Given(i) \cap (Kept \cup InUse) = {}
    BY DEF FirmwareKept
  <2>1. ListInv /\ Progress(<< >>) /\ Spared /\ route # "none"
    BY DEF InfoInv, MemInv, Source, Stage, Behind
  <2>2. \A op : Told(<< >>, op) = {}
    BY NothingTold
  <2>3. /\ Added = RamOf /\ Free \cap Kept = {} /\ (~ sysram_added => sysram = << >>)
        /\ route # "uefi" => Kept \subseteq Firm
    BY <2>1, <2>2 DEF Progress
  <2>4. Sysram \cap Kept = {}
    <3>1. CASE sysram_added
      BY <2>1, <2>3, <3>1 DEF ListInv, Accounts, SysramIsFree
    <3>2. CASE ~ sysram_added
      BY <2>3, <3>2 DEF Sysram, SetOf
    <3> QED BY <3>1, <3>2
  <2>5. ASSUME NEW i \in Found, ~ (route = "uefi" /\ given[i].s = temp_syspage)
        PROVE  Given(i) \cap (Kept \cup InUse) = {}
    <3>1. CASE route = "uefi"
      BY <2>1, <2>5, <3>1 DEF Spared
    <3>2. CASE route # "uefi"
      <4>1. Given(i) \cap Firm = {}
        BY <3>2 DEF InfoInv, MemInv, PoolInv, Pool!Exclusive, Held
      <4> QED BY <2>3, <3>2, <4>1 DEF InUse
    <3> QED BY <3>1, <3>2
  <2> QED BY <2>3, <2>4, <2>5
<1> QED BY <1>1, InfoInitInv, InfoNextInv, PTL DEF InfoSpec

\* Seen through Pooled(), a step of the pool is one and a step on the UEFI
\* route is none.
LEMMA PooledStep ==
  ASSUME route' = route, route # "uefi" => [Pool!Next]_(Pool!vars)
  PROVE  [InfoPool!Next]_(InfoPool!vars)
<1>1. CASE route = "uefi"
  <2>1. UNCHANGED InfoPool!vars
    BY <1>1 DEF InfoPool!vars, Pooled
  <2> QED BY <2>1
<1>2. CASE route # "uefi"
  <2>1. /\ \A S : Pooled(S) = S
        /\ Pooled(Added)' = Added' /\ Pooled(Free)' = Free' /\ Pooled(Avoided)' = Avoided'
        /\ Pooled(Firm)' = Firm' /\ Pooled({Given(i) : i \in Found})' = Held'
    BY <1>2 DEF Pooled, Held
  <2>2. Pooled({Given(i) : i \in Found}) = Held
    BY <2>1 DEF Held
  <2> HIDE DEF Pooled, Held
  <2>3. CASE Pool!Avoid
    BY <2>1, <2>2, <2>3 DEF Pool!Avoid, InfoPool!Avoid, InfoPool!Next
  <2>4. CASE Pool!AddRam
    BY <2>1, <2>2, <2>4 DEF Pool!AddRam, InfoPool!AddRam, InfoPool!Next
  <2>5. CASE Pool!Alloc
    BY <2>1, <2>2, <2>5 DEF Pool!Alloc, InfoPool!Alloc, InfoPool!Next
  <2>6. CASE Pool!Workspace
    BY <2>1, <2>2, <2>6 DEF Pool!Workspace, InfoPool!Workspace, InfoPool!Next
  <2>7. CASE Pool!EarlyWorkspace
    BY <2>1, <2>2, <2>7 DEF Pool!EarlyWorkspace, InfoPool!EarlyWorkspace, InfoPool!Next
  <2>8. CASE Pool!Claim
    BY <2>1, <2>2, <2>8 DEF Pool!Claim, InfoPool!Claim, InfoPool!Next
  <2>9. CASE UNCHANGED Pool!vars
    BY <2>1, <2>2, <2>9 DEF Pool!vars, InfoPool!vars
  <2> QED BY <1>2, <2>3, <2>4, <2>5, <2>6, <2>7, <2>8, <2>9 DEF Pool!Next
<1> QED BY <1>1, <1>2

\* The lists implement the pool of RamPool, from whichever source the RAM is
\* learnt: what add_ram(), avoid_ram(), alloc_ram(), ws_alloc(), reserve_ram()
\* and the -r options do to them is a step of the pool or none. On the UEFI
\* route memory is avoided after it was added, which no pool allows.
THEOREM PoolIsKept == InfoSpec => PoolKept
<1>1. InfoInit => InfoPool!Init
  <2> SUFFICES ASSUME InfoInit PROVE InfoPool!Init
    OBVIOUS
  <2>1. Added = {} /\ Free = {} /\ Held = {} /\ Firm = Avoided
    BY InitInv DEF InfoInit, Pool!Init
  <2> QED BY <2>1 DEF InfoPool!Init, Pooled, Held
<1>2. InfoInv /\ [InfoNext]_<<vars, infoVars>> => InfoInv' /\ [InfoPool!Next]_(InfoPool!vars)
  BY InfoNextInv, PooledStep
<1> QED BY <1>1, <1>2, InfoInitInv, PTL DEF InfoSpec, PoolKept, InfoPool!Spec

=============================================================================
