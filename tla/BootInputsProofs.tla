-------------------------- MODULE BootInputsProofs --------------------------
(***************************************************************************)
(* Proofs about what BootInputs joins, each for any values of the          *)
(* constants that the assumptions of its modules admit.                    *)
(*                                                                         *)
(* The page tables (PageMap). TablesRight says nothing of the frames that  *)
(* the tables are in. TreeInv does: the tables form two trees, so that a   *)
(* store through one entry is seen by the pages below it and by no other.  *)
(* MappedInv then follows the walk of the hardware through them, and       *)
(* LoopInv the call of aarch64_map() in progress.                          *)
(*                                                                         *)
(* The areas that aarch64_map() is asked for. AreaInv says which pages are *)
(* taken so far and counts those that are still to be given away, so that  *)
(* no caller comes to have what another one has.                           *)
(*                                                                         *)
(* The loading of the executable through the tables. ElfInv says where     *)
(* each unit that load_elf64mmu() has dealt with is, and how its page      *)
(* shows it or will.                                                       *)
(*                                                                         *)
(* The loading of the other executables (Bootstraps). BInv follows each    *)
(* segment from the image to its place, and the chain of their entries.    *)
(*                                                                         *)
(* The interrupts of a device tree (Fdt). Two searches from one node, one  *)
(* with the cache and one without, go the same way (Alike), because what   *)
(* is cached is what the search would find (Cached).                       *)
(*                                                                         *)
(* The spin-table start of cores (Fdt). Whichever lines of memory are      *)
(* evicted in between, and however the CPUs of a tree share release        *)
(* addresses, fdt_smp_spin_start() lets one at a time into start-up.       *)
(***************************************************************************)
EXTENDS BootInputs, FiniteSetTheorems, WellFoundedInduction, TLAPS

\* Quotient and remainder.
LEMMA DivMod ==
  ASSUME NEW a \in Int, NEW z \in Nat \ {0}
  PROVE  /\ a \div z \in Int /\ a % z \in 0 .. z - 1
         /\ a = z * (a \div z) + (a % z)
         /\ a >= 0 => a \div z >= 0
<1>1. a \div z \in Int /\ a % z \in 0 .. z - 1
  BY SMT
<1>2. a = z * (a \div z) + (a % z)
  BY SMT
<1>3. a >= 0 => a \div z >= 0
  BY SMT
<1> QED BY <1>1, <1>2, <1>3

\* A multiple is no less.
LEMMA Times ==
  ASSUME NEW z \in Nat, NEW x \in Int, x >= 1
  PROVE  z * x \in Int /\ z * x >= z
BY SMT

\* Quotient and remainder are unique.
LEMMA Unique ==
  ASSUME NEW c \in Int, NEW z \in Nat \ {0}, NEW r \in 0 .. z - 1
  PROVE  (z * c + r) \div z = c /\ (z * c + r) % z = r
<1> DEFINE a == z * c + r
           q == a \div z
           s == a % z
<1>1. a \in Int
  BY SMT
<1>2. q \in Int /\ s \in 0 .. z - 1 /\ a = z * q + s
  BY <1>1, DivMod
<1> HIDE DEF q, s
<1>3. z * (q - c) = r - s
  BY <1>2, SMT
<1>4. ~ (q - c >= 1)
  BY <1>2, <1>3, Times
<1>5. z * (c - q) = s - r
  BY <1>2, SMT
<1>6. ~ (c - q >= 1)
  BY <1>2, <1>5, Times
<1>7. q = c
  BY <1>2, <1>4, <1>6
<1>8. r = s
  BY <1>2, <1>7, <1>3
<1> QED BY <1>7, <1>8 DEF q, s

\* Neighbours in a block.
LEMMA IdxNext ==
  ASSUME NEW p \in Int, NEW z \in Nat \ {0}, NEW j \in Int, (p % z) + j \in 0 .. z - 1
  PROVE  (p + j) % z = (p % z) + j /\ (p + j) \div z = p \div z
<1>1. /\ p \div z \in Int /\ p % z \in 0 .. z - 1
      /\ p = z * (p \div z) + (p % z)
  BY DivMod, Zenon
<1> DEFINE q == p \div z
           r == (p % z) + j
<1>2. p + j = z * q + r
  BY <1>1
<1>3. q \in Int /\ r \in 0 .. z - 1
  BY <1>1
<1> HIDE DEF q, r
<1>4. (z * q + r) \div z = q /\ (z * q + r) % z = r
  BY <1>3, Unique, Zenon
<1>5. (p + j) \div z = q /\ (p + j) % z = r
  BY <1>2, <1>4
<1> QED BY <1>5 DEF q, r

\* Dividing twice is dividing by the product.
LEMMA DivDiv ==
  ASSUME NEW p \in Int, NEW n \in Nat \ {0}, NEW m \in Nat \ {0}
  PROVE  p \div (n * m) = (p \div n) \div m
<1> DEFINE a == p \div n
           b == a \div m
           r == p % n
           s == a % m
<1>1. a \in Int /\ r \in 0 .. n - 1 /\ p = n * a + r
  BY DivMod
<1> HIDE DEF a, r
<1>2. b \in Int /\ s \in 0 .. m - 1 /\ a = m * b + s
  BY <1>1, DivMod
<1> HIDE DEF b, s
<1> DEFINE t == n * s + r
<1>3. n * m \in Nat \ {0}
  BY SMT
<1>4. p = (n * m) * b + t
  BY <1>1, <1>2, SMT
<1>5. n * s \in Nat /\ n * s <= n * (m - 1)
  BY <1>2, SMT
<1>6. t \in 0 .. n * m - 1
  <2>1. n * (m - 1) = n * m - n
    BY SMT
  <2> QED BY <1>1, <1>3, <1>5, <2>1
<1> HIDE DEF t
<1>7. p \div (n * m) = b
  BY <1>2, <1>3, <1>4, <1>6, Unique
<1> QED BY <1>7 DEF a, b

\* Two numbers that agree modulo m and lie less than m apart.
LEMMA SameRem ==
  ASSUME NEW a \in Int, NEW b \in Int, NEW m \in Nat \ {0},
         a % m = b % m, a - b < m, b - a < m
  PROVE  a = b
<1> DEFINE c == a \div m
           d == b \div m
           r == a % m
<1>1. c \in Int /\ d \in Int /\ r \in Int /\ a = m * c + r /\ b = m * d + r
  BY DivMod
<1> HIDE DEF c, d, r
<1>2. m * (c - d) = a - b /\ m * (d - c) = b - a
  BY <1>1, SMT
<1>3. ~ (c - d >= 1)
  BY <1>1, <1>2, Times
<1>4. ~ (d - c >= 1)
  BY <1>1, <1>2, Times
<1>5. c = d
  BY <1>1, <1>3, <1>4
<1> QED BY <1>1, <1>5

\* The quotients of two numbers less than n * m apart with the same remainder.
LEMMA SameQuot ==
  ASSUME NEW p \in Int, NEW q \in Int, NEW n \in Nat \ {0}, NEW m \in Nat \ {0},
         p % n = q % n, p - q < n * m, q - p < n * m
  PROVE  p \div n - q \div n < m /\ q \div n - p \div n < m
<1> DEFINE a == p \div n
           b == q \div n
           r == p % n
<1>1. a \in Int /\ b \in Int /\ r \in Int /\ p = n * a + r /\ q = n * b + r
  BY DivMod
<1> HIDE DEF a, b, r
<1>2. n * (a - b) < n * m /\ n * (b - a) < n * m
  BY <1>1, SMT
<1>3. \A x \in Int : n * x < n * m => x < m
  <2> SUFFICES ASSUME NEW x \in Int, n * x < n * m, x >= m PROVE FALSE
    BY SMT
  <2> DEFINE y == x - m
  <2>1. y \in Nat /\ x = m + y
    BY SMT
  <2> HIDE DEF y
  <2>2. n * y \in Nat
    BY <2>1, SMT
  <2>3. n * x = n * m + n * y
    BY <2>1, SMT
  <2> QED BY <2>2, <2>3
<1>4. a - b < m /\ b - a < m
  BY <1>1, <1>2, <1>3
<1> QED BY <1>4 DEF a, b
-----------------------------------------------------------------------------
(* The inductive invariant                                                 *)

Pages == 0 .. 2 * UserPages - 1
Plain == {p \in Pages : ~ Window(p)}

\* There is an L2 table for page p, an L3 table, and where they are.
E2(p) == large \/ table[Top(p)][L1Idx(p)] # NoPte
N2(p) == IF large THEN Top(p) ELSE table[Top(p)][L1Idx(p)].pa
E3(p) == E2(p) /\ table[N2(p)][L2Idx(p)] # NoPte
N3(p) == table[N2(p)][L2Idx(p)].pa

\* Pages that have the same L2 table, and the same L3 table.
Same2(p, q) == (p < UserPages <=> q < UserPages) /\ (large \/ L1Idx(p) = L1Idx(q))
Same3(p, q) == Same2(p, q) /\ L2Idx(p) = L2Idx(q)

\* A table is in memory that is not free, and below a root is no root.
Used == Ram \ free
Below == Used \ {ttbr0, L1}

\* The frames hold tables, and those that are free are empty.
FramesInv ==
  /\ DOMAIN table = Ram /\ \A f \in Ram : DOMAIN table[f] = Index
  /\ free \subseteq Ram /\ \A f \in free : table[f] = EmptyTable

\* The tables form two trees: different tables are in different frames,
\* and the recursive entry of L1 is there.
TreeInv ==
  /\ ttbr0 \in Used /\ L1 \in Used
  /\ \A p \in Plain : E2(p) => IF large THEN N2(p) \in Used ELSE N2(p) \in Below
  /\ \A p, q \in Plain : E2(p) /\ E2(q) /\ N2(p) = N2(q) => Same2(p, q)
  /\ \A p \in Plain : E3(p) => N3(p) \in Below
  /\ \A p, q \in Plain : E3(p) /\ E2(q) => N3(p) # N2(q)
  /\ \A p, q \in Plain : E3(p) /\ E3(q) /\ N3(p) = N3(q) => Same3(p, q)
  /\ table[L1][L1L1] # NoPte /\ table[L1][L1L1].pa = L1

-----------------------------------------------------------------------------
(* Numbers of pages and of frames                                          *)

\* The sizes of pages, tables and groups, for the page size in use.
LEMMA Geometry ==
  /\ {PageSize, NPte, NPte * NPte, ContigPages, UserPages} \subseteq Nat \ {0}
  /\ NPte % ContigPages = 0 /\ BasePage \in Nat /\ UserPages <= BasePage
  /\ {L1L1, L1L2, L2L2} \subseteq Nat /\ L1L1 \in Index
  /\ ~ large => {L1L2, L2L2} \subseteq Index /\ L1L1 # L1L2
  /\ IF large THEN UserPages <= NPte * NPte ELSE UserPages = NPte * NPte * NPte
<1>1. /\ {PageSize, NPte4K, NPte64K, Contig4K, Contig64K} \subseteq Nat \ {0}
      /\ UserPages = NPte4K * NPte4K * NPte4K
  BY GeometryAssumption
<1>2. \A x, y \in Nat \ {0} : x * y \in Nat \ {0}
  BY SMT
<1>3. UserPages \in Nat \ {0} /\ NPte4K * NPte4K \in Nat \ {0} /\ NPte64K * NPte64K \in Nat \ {0}
  BY <1>1, <1>2
<1>4. NPte * NPte \in Nat \ {0}
  BY <1>3 DEF NPte
<1> QED BY <1>1, <1>3, <1>4, GeometryAssumption DEF NPte, ContigPages, Index

\* The indices of a page are indices of a table.
LEMMA IndexType ==
  ASSUME NEW p \in Int
  PROVE  L1Idx(p) \in Index /\ L2Idx(p) \in Index /\ L3Idx(p) \in Index
<1>1. NPte \in Nat \ {0} /\ NPte * NPte \in Nat \ {0}
  BY Geometry
<1>2. p \div NPte \in Int /\ p \div (NPte * NPte) \in Int
  BY <1>1, DivMod
<1> QED BY <1>1, <1>2, DivMod DEF L1Idx, L2Idx, L3Idx, Index

\* Pages with the same tables and the same index are the same.
LEMMA PageOf ==
  ASSUME NEW p \in Pages, NEW q \in Pages, Same3(p, q), L3Idx(p) = L3Idx(q)
  PROVE  p = q
<1> DEFINE n == NPte
           a == p \div n
           b == q \div n
<1>1. n \in Nat \ {0} /\ n * n \in Nat \ {0} /\ UserPages \in Nat \ {0}
  BY Geometry
<1>2. p \in Int /\ q \in Int /\ p - q < UserPages /\ q - p < UserPages
  BY <1>1 DEF Pages, Same3, Same2
<1>3. p % n = q % n /\ a % n = b % n /\ a \in Int /\ b \in Int
  BY <1>1, <1>2, DivMod DEF Same3, L2Idx, L3Idx
<1>4. a = b
  <2>1. CASE large
    <3>1. UserPages <= n * n
      BY <2>1, Geometry
    <3>2. p - q < n * n /\ q - p < n * n
      BY <1>1, <1>2, <3>1
    <3> HIDE DEF n
    <3>3. a - b < n /\ b - a < n
      BY <1>1, <1>2, <1>3, <3>2, SameQuot
    <3> HIDE DEF a, b
    <3> QED BY <1>1, <1>3, <3>3, SameRem
  <2>2. CASE ~ large
    <3>1. UserPages = n * (n * n)
      BY <1>1, <2>2, Geometry, SMT
    <3>2. (p \div (n * n)) % n = (q \div (n * n)) % n
      BY <2>2 DEF Same3, Same2, L1Idx
    <3> HIDE DEF n
    <3>3. a - b < n * n /\ b - a < n * n
      BY <1>1, <1>2, <1>3, <3>1, SameQuot
    <3>4. p \div (n * n) = a \div n /\ q \div (n * n) = b \div n
      BY <1>1, <1>2, DivDiv
    <3> HIDE DEF a, b
    <3>5. a \div n - b \div n < n /\ b \div n - a \div n < n
      BY <1>1, <1>3, <3>3, SameQuot
    <3>6. a \div n \in Int /\ b \div n \in Int
      BY <1>1, <1>3, DivMod
    <3>7. a \div n = b \div n
      BY <1>1, <3>2, <3>4, <3>5, <3>6, SameRem
    <3>8. a = n * (a \div n) + (a % n) /\ b = n * (b \div n) + (b % n)
      BY <1>1, <1>3, DivMod
    <3> QED BY <1>3, <3>7, <3>8
  <2> QED BY <2>1, <2>2
<1>5. p = n * a + (p % n) /\ q = n * b + (q % n)
  BY <1>1, <1>2, DivMod
<1> QED BY <1>3, <1>4, <1>5

\* The pages of a contiguous group share their tables.
LEMMA GroupPages ==
  ASSUME NEW p \in Pages, NEW j \in Nat,
         j = 0 \/ (p % ContigPages = 0 /\ j < ContigPages), p + j \in Pages,
         p < UserPages <=> p + j < UserPages
  PROVE  Same3(p, p + j) /\ L3Idx(p + j) = L3Idx(p) + j
<1>1. /\ NPte \in Nat \ {0} /\ ContigPages \in Nat \ {0} /\ NPte % ContigPages = 0
      /\ NPte * NPte \in Nat \ {0}
  BY Geometry
<1>2. p \in Int /\ j \in Int
  BY DEF Pages
<1>3. (p % NPte) + j \in 0 .. NPte - 1
  <2>1. CASE j = 0
    BY <1>1, <1>2, <2>1, DivMod
  <2>2. CASE p % ContigPages = 0 /\ j < ContigPages
    <3> DEFINE c == ContigPages
               m == NPte \div c
               a == p \div c
    <3>1. NPte = c * m /\ m \in Int /\ p = c * a /\ a \in Int
      BY <1>1, <1>2, <2>2, DivMod
    <3> HIDE DEF c, m, a
    <3>2. m \in Nat \ {0} /\ c \in Nat \ {0}
      <4>1. c \in Nat \ {0}
        BY <1>1 DEF c
      <4>2. m >= 0
        BY <1>1, <4>1, DivMod DEF m
      <4>3. m # 0
        BY <1>1, <3>1, <4>1
      <4> QED BY <3>1, <4>1, <4>2, <4>3
    <3> DEFINE d == a \div m
               r == a % m
    <3>3. d \in Int /\ r \in 0 .. m - 1 /\ a = m * d + r
      BY <3>1, <3>2, DivMod
    <3> HIDE DEF d, r
    <3>4. p = NPte * d + c * r
      BY <3>1, <3>2, <3>3, SMT
    <3>5. c * r \in Nat /\ c * r <= c * (m - 1)
      BY <3>2, <3>3, SMT
    <3>6. c * (m - 1) = c * m - c
      BY <3>2, SMT
    <3>7. c * r \in 0 .. NPte - c
      BY <1>1, <3>1, <3>2, <3>5, <3>6
    <3>8. p % NPte = c * r
      <4>1. c * r \in 0 .. NPte - 1
        BY <1>1, <3>2, <3>7
      <4>2. NPte \in Nat \ {0} /\ d \in Int
        BY <1>1, <3>3, Zenon
      <4>3. (NPte * d + c * r) % NPte = c * r
        BY ONLY <4>1, <4>2, Unique, Zenon
      <4> QED BY <3>4, <4>3
    <3>9. j < c
      BY <2>2 DEF c
    <3> QED BY <1>1, <3>2, <3>7, <3>8, <3>9
  <2> QED BY <2>1, <2>2
<1>4. (p + j) % NPte = (p % NPte) + j /\ (p + j) \div NPte = p \div NPte
  BY <1>1, <1>2, <1>3, IdxNext, Zenon
<1>5. (p + j) \div (NPte * NPte) = p \div (NPte * NPte)
  <2>0. p + j \in Int
    BY <1>2
  <2>1. (p + j) \div (NPte * NPte) = ((p + j) \div NPte) \div NPte
    BY <1>1, <2>0, DivDiv, Zenon
  <2>2. p \div (NPte * NPte) = (p \div NPte) \div NPte
    BY <1>1, <1>2, DivDiv, Zenon
  <2> QED BY <1>4, <2>1, <2>2
<1> QED BY <1>4, <1>5 DEF Same3, Same2, L1Idx, L2Idx, L3Idx

\* The lowest of some frames is one of them.
LEMMA LowestIn ==
  ASSUME NEW S \in SUBSET Nat, S # {}
  PROVE  Lowest(S) \in S
<1>1. PICK x \in S : \A y \in S : ~ (<<y, x>> \in OpToRel(<, Nat))
  <2>1. S \subseteq Nat
    OBVIOUS
  <2> QED BY <2>1, WFMin, NatLessThanWellFounded
<1>2. ASSUME NEW y \in S PROVE x <= y
  <2>1. ~ (y < x)
    BY <1>1 DEF OpToRel
  <2> QED BY <2>1
<1> QED BY <1>2 DEF Lowest

\* A set with as many members as are asked for has one besides those taken.
LEMMA OneLeft ==
  ASSUME NEW S, NEW a, NEW b, NEW c
  PROVE  /\ ~ Cardinality(S) < 1 => S # {}
         /\ ~ Cardinality(S) < 2 => S \ {a} # {}
         /\ ~ Cardinality(S) < 3 => S \ {a, b} # {}
         /\ ~ Cardinality(S) < 4 => S \ {a, b, c} # {}
<1>1. Cardinality({}) = 0 /\ IsFiniteSet({})
  BY FS_EmptySet
<1>2. IsFiniteSet({a}) /\ Cardinality({a}) = 1
  BY FS_Singleton
<1>3. IsFiniteSet({a, b}) /\ Cardinality({a, b}) \in 1 .. 2
  <2>1. {a, b} = {a} \cup {b}
    OBVIOUS
  <2> QED BY <1>2, <2>1, FS_AddElement
<1>4. IsFiniteSet({a, b, c}) /\ Cardinality({a, b, c}) \in 1 .. 3
  <2>1. {a, b, c} = {a, b} \cup {c}
    OBVIOUS
  <2> QED BY <1>3, <2>1, FS_AddElement
<1>5. ASSUME S \subseteq {a}
      PROVE Cardinality(S) \in Nat /\ Cardinality(S) <= 1
  BY <1>2, <1>5, FS_Subset, FS_CardinalityType
<1>6. ASSUME S \subseteq {a, b}
      PROVE Cardinality(S) \in Nat /\ Cardinality(S) <= 2
  BY <1>3, <1>6, FS_Subset, FS_CardinalityType
<1>7. ASSUME S \subseteq {a, b, c}
      PROVE Cardinality(S) \in Nat /\ Cardinality(S) <= 3
  BY <1>4, <1>7, FS_Subset, FS_CardinalityType
<1>8. S \ {a} = {} => S \subseteq {a}
  OBVIOUS
<1>9. S \ {a, b} = {} => S \subseteq {a, b}
  OBVIOUS
<1>10. S \ {a, b, c} = {} => S \subseteq {a, b, c}
  OBVIOUS
<1> QED BY <1>1, <1>5, <1>6, <1>7, <1>8, <1>9, <1>10

-----------------------------------------------------------------------------
(* The tables on the way to a page, when a group is mapped                 *)

L3Of(p) == NewTable(L2Of(p), L2Idx(p), free \ {L2Of(p)})

\* A plain page is a number, with indices of tables.
LEMMA NumberOfPage ==
  ASSUME NEW p \in Plain
  PROVE  p \in Int /\ p \in Pages /\ L1Idx(p) \in Index /\ L2Idx(p) \in Index /\ L3Idx(p) \in Index
<1>1. p \in Pages /\ p \in Int
  BY Geometry DEF Plain, Pages
<1> QED BY <1>1, IndexType

\* Each half of the pages has a root of its own.
LEMMA TopIn ==
  ASSUME TreeInv, NEW p
  PROVE  Top(p) \in Used /\ Top(p) \in {ttbr0, L1}
BY DEF TreeInv, Top

\* Each table is the one that is there, or an empty frame that was free.
LEMMA PathRight ==
  ASSUME InputAssumption, FramesInv, TreeInv, NEW p \in Plain, ~ NoTable(p)
  PROVE  /\ L2Of(p) \in Ram /\ L3Of(p) \in Ram /\ L3Of(p) # L2Of(p)
         /\ L3Of(p) # ttbr0 /\ L3Of(p) # L1 /\ L3Of(p) # Top(p)
         /\ E2(p) => L2Of(p) = N2(p) /\ L2Of(p) \in Used
         /\ ~ E2(p) => L2Of(p) \in free
         /\ E3(p) => L3Of(p) = N3(p) /\ L3Of(p) \in Used
         /\ ~ E3(p) => L3Of(p) \in free
         /\ IF large THEN L2Of(p) = Top(p) ELSE L2Of(p) # ttbr0 /\ L2Of(p) # L1
<1>1. p \in Plain /\ Top(p) \in Used /\ Top(p) \in {ttbr0, L1} /\ ttbr0 \in Used /\ L1 \in Used
  BY TopIn DEF TreeInv
<1>2. free \in SUBSET Nat /\ free \subseteq Ram
  BY InputAssumption DEF FramesInv, Ram
<1>3. /\ E2(p) => L2Of(p) = N2(p) /\ L2Of(p) \in Used
      /\ ~ E2(p) => L2Of(p) \in free
      /\ IF large THEN L2Of(p) = Top(p) ELSE L2Of(p) # ttbr0 /\ L2Of(p) # L1
  <2>1. CASE large
    BY <1>1, <2>1 DEF E2, N2, L2Of
  <2>2. CASE ~ large /\ E2(p)
    <3>1. L2Of(p) = N2(p)
      BY <2>2 DEF E2, N2, L2Of, NewTable
    <3> QED BY <2>2, <3>1 DEF TreeInv, Below
  <2>3. CASE ~ large /\ ~ E2(p)
    <3>1. ~ Cardinality(free) < 2
      BY <2>3 DEF NoTable, E2
    <3>2. free # {}
      <4>1. free \ {0} # {}
        BY <3>1, OneLeft
      <4> QED BY <4>1
    <3>3. L2Of(p) = Lowest(free)
      BY <2>3 DEF E2, L2Of, NewTable
    <3>4. L2Of(p) \in free
      BY <1>2, <3>2, <3>3, LowestIn
    <3> QED BY <1>1, <2>3, <3>4 DEF Used
  <2> QED BY <2>1, <2>2, <2>3
<1>4. L2Of(p) \in Ram
  BY <1>2, <1>3 DEF Used
<1>5. CASE E3(p)
  <2>1. E2(p) /\ L2Of(p) = N2(p) /\ table[N2(p)][L2Idx(p)] # NoPte
    BY <1>3, <1>5 DEF E3
  <2>2. L3Of(p) = N3(p)
    BY <2>1 DEF L3Of, NewTable, N3
  <2>3. N3(p) \in Below /\ N3(p) # N2(p)
    BY <1>1, <1>5, <2>1 DEF TreeInv
  <2> QED BY <1>1, <1>3, <1>4, <1>5, <2>1, <2>2, <2>3 DEF Below, Used
<1>6. CASE ~ E3(p)
  <2>1. table[L2Of(p)][L2Idx(p)] = NoPte
    <3>1. CASE E2(p)
      BY <1>3, <1>6, <3>1 DEF E3
    <3>2. CASE ~ E2(p)
      <4>1. table[L2Of(p)] = EmptyTable
        BY <1>3, <3>2 DEF FramesInv
      <4> QED BY <4>1, NumberOfPage DEF EmptyTable
    <3> QED BY <3>1, <3>2
  <2>2. L3Of(p) = Lowest(free \ {L2Of(p)})
    BY <2>1 DEF L3Of, NewTable
  <2>3. free \ {L2Of(p)} # {}
    <3>1. CASE ~ large /\ table[Top(p)][L1Idx(p)] = NoPte
      <4>1. ~ Cardinality(free) < 2
        BY <3>1 DEF NoTable
      <4> QED BY <4>1, OneLeft
    <3>2. CASE ~ (~ large /\ table[Top(p)][L1Idx(p)] = NoPte)
      <4>1. ~ Cardinality(free) < 1
        BY <2>1, <3>2 DEF NoTable
      <4>2. free # {}
        BY <4>1, OneLeft
      <4>3. L2Of(p) \notin free
        BY <1>3, <3>2 DEF E2, Used
      <4> QED BY <4>2, <4>3
    <3> QED BY <3>1, <3>2
  <2>4. L3Of(p) \in free \ {L2Of(p)}
    BY <1>2, <2>2, <2>3, LowestIn
  <2> QED BY <1>1, <1>2, <1>3, <1>4, <1>6, <2>4 DEF Used
<1> QED BY <1>5, <1>6

\* What the step writes: three tables at most.
Written(p, n) ==
  /\ DOMAIN table' = Ram /\ \A f \in Ram : DOMAIN table'[f] = Index
  /\ \A f \in Ram : f \notin {Top(p), L2Of(p), L3Of(p)} => table'[f] = table[f]
  /\ \A i \in Index :
       /\ table'[L3Of(p)][i] = IF i \in Run(L3Idx(p), n)
                               THEN [pte EXCEPT !.pa = @ + (i - L3Idx(p)), !.contig = (n # 1)]
                               ELSE table[L3Of(p)][i]
       /\ table'[L2Of(p)][i] = IF i = L2Idx(p) /\ table[L2Of(p)][i] = NoPte
                               THEN TablePte(L3Of(p)) ELSE table[L2Of(p)][i]
       /\ ~ large => table'[Top(p)][i] = IF i = L1Idx(p) /\ table[Top(p)][i] = NoPte
                                         THEN TablePte(L2Of(p)) ELSE table[Top(p)][i]

\* The tables that MapGroup leaves.
Result(w, p, n) ==
  LET T1 == IF large THEN table ELSE [table EXCEPT ![w.l1][L1Idx(p)] =
                                        IF @ = NoPte THEN TablePte(w.l2) ELSE @]
      T2 == [T1 EXCEPT ![w.l2][L2Idx(p)] = IF @ = NoPte THEN TablePte(w.l3) ELSE @]
  IN  [T2 EXCEPT ![w.l3] = WriteGroup(@, L3Idx(p), n)]

\* What MapGroup() stores: the group, and an entry for each new table.
LEMMA WriteRight ==
  ASSUME InputAssumption, FramesInv, TreeInv, NEW p \in Plain, ~ NoTable(p), p = Frame(va), MapGroup
  PROVE  Written(p, IF UseContig THEN ContigPages ELSE 1)
<1> DEFINE n == IF UseContig THEN ContigPages ELSE 1
           l1 == Top(p)
           l2 == L2Of(p)
           l3 == L3Of(p)
           i1 == L1Idx(p)
           i2 == L2Idx(p)
           i0 == L3Idx(p)
           e1 == IF table[l1][i1] = NoPte THEN TablePte(l2) ELSE table[l1][i1]
           T1 == IF large THEN table ELSE [table EXCEPT ![l1] = [@ EXCEPT ![i1] = e1]]
           e2 == IF T1[l2][i2] = NoPte THEN TablePte(l3) ELSE T1[l2][i2]
           T2 == [T1 EXCEPT ![l2] = [@ EXCEPT ![i2] = e2]]
<1>1. table' = [T2 EXCEPT ![l3] = WriteGroup(T2[l3], i0, n)]
  <2>1. Path(p).l1 = l1 /\ Path(p).l2 = l2 /\ Path(p).l3 = l3
    BY DEF Path, L3Of
  <2>2. table' = Result(Path(p), p, n)
    BY DEF MapGroup, Result
  <2>3. ASSUME NEW w, w.l1 = l1, w.l2 = l2, w.l3 = l3
        PROVE  Result(w, p, n) = [T2 EXCEPT ![l3] = WriteGroup(T2[l3], i0, n)]
    <3> HIDE DEF n, l1, l2, l3
    <3> QED BY <2>3 DEF Result
  <2> HIDE DEF n, l1, l2, l3, T2
  <2> QED BY <2>1, <2>2, <2>3
<1>2. /\ l1 \in Ram /\ l2 \in Ram /\ l3 \in Ram /\ l3 # l1 /\ l3 # l2
      /\ IF large THEN l2 = l1 ELSE l2 # l1
      /\ i1 \in Index /\ i2 \in Index /\ i0 \in Index
      /\ DOMAIN table = Ram /\ \A f \in Ram : DOMAIN table[f] = Index
  BY PathRight, TopIn, NumberOfPage DEF Used, FramesInv
<1> HIDE DEF l1, l2, l3, i1, i2, i0, n
<1>3. /\ DOMAIN T1 = Ram /\ \A f \in Ram : DOMAIN T1[f] = Index
      /\ \A f \in Ram : f # l1 => T1[f] = table[f]
      /\ large => T1 = table
      /\ ~ large => \A i \in Index : T1[l1][i] = IF i = i1 THEN e1 ELSE table[l1][i]
  BY <1>2
<1> HIDE DEF T1, e1
<1>4. /\ DOMAIN T2 = Ram /\ \A f \in Ram : DOMAIN T2[f] = Index
      /\ \A f \in Ram : f # l2 => T2[f] = T1[f]
      /\ \A i \in Index : T2[l2][i] = IF i = i2 THEN e2 ELSE T1[l2][i]
  BY <1>2, <1>3
<1> HIDE DEF T2
<1>5. /\ DOMAIN table' = Ram /\ \A f \in Ram : f # l3 => table'[f] = T2[f]
      /\ table'[l3] = WriteGroup(T2[l3], i0, n)
  BY <1>1, <1>2, <1>4
<1>6. DOMAIN WriteGroup(T2[l3], i0, n) = Index
  BY DEF WriteGroup
<1>7. T2[l3] = table[l3] /\ T1[l2] = table[l2]
  BY <1>2, <1>3, <1>4
<1>8. \A i \in Index : table'[l3][i] = IF i \in Run(i0, n)
                         THEN [pte EXCEPT !.pa = @ + (i - i0), !.contig = (n # 1)]
                         ELSE table[l3][i]
  <2>1. table'[l3] = WriteGroup(table[l3], i0, n)
    BY <1>5, <1>7, Zenon
  <2> QED BY ONLY <2>1 DEF WriteGroup
<1>9. \A i \in Index : table'[l2][i] = IF i = i2 /\ table[l2][i] = NoPte
                                       THEN TablePte(l3) ELSE table[l2][i]
  BY <1>2, <1>4, <1>5, <1>7
<1>10. ~ large => \A i \in Index : table'[l1][i] = IF i = i1 /\ table[l1][i] = NoPte
                                                   THEN TablePte(l2) ELSE table[l1][i]
  BY <1>2, <1>3, <1>4, <1>5 DEF e1
<1>11. \A f \in Ram : f \notin {l1, l2, l3} => table'[f] = table[f]
  BY <1>3, <1>4, <1>5
<1>12. DOMAIN table' = Ram /\ \A f \in Ram : DOMAIN table'[f] = Index
  BY <1>2, <1>4, <1>5, <1>6
<1> QED BY <1>8, <1>9, <1>10, <1>11, <1>12 DEF Written, l1, l2, l3, i1, i2, i0, n

\* NoPte is not an entry.
LEMMA PteIsSet ==
  ASSUME NEW f, NEW flags
  PROVE  TablePte(f) # NoPte /\ TablePte(f).pa = f
<1>1. "attr" \in DOMAIN TablePte(f) /\ "attr" \notin DOMAIN NoPte
  BY DEF TablePte, SetPte, NoPte
<1> QED BY <1>1 DEF TablePte, SetPte

\* The tables of other pages are not those of page p.
LEMMA OtherTables ==
  ASSUME InputAssumption, FramesInv, TreeInv, NEW p \in Plain, ~ NoTable(p), NEW q \in Plain
  PROVE  /\ E2(q) => N2(q) \in Used /\ N2(q) # L3Of(p) /\ (~ large => N2(q) # ttbr0 /\ N2(q) # L1)
         /\ E2(q) /\ ~ Same2(p, q) => N2(q) # L2Of(p)
         /\ E3(q) => N3(q) \in Below /\ N3(q) # L2Of(p)
         /\ E3(q) /\ ~ Same3(p, q) => N3(q) # L3Of(p)
         /\ large => E2(q) /\ N2(q) = Top(q)
<1>1. /\ E2(q) => N2(q) \in Used /\ (~ large => N2(q) # ttbr0 /\ N2(q) # L1)
      /\ E3(q) => N3(q) \in Below
  BY DEF TreeInv, Below
<1>2. E2(q) => N2(q) # L3Of(p)
  <2> SUFFICES ASSUME E2(q) PROVE N2(q) # L3Of(p)
    OBVIOUS
  <2>1. CASE E3(p)
    BY <2>1, PathRight DEF TreeInv
  <2>2. CASE ~ E3(p)
    BY <1>1, <2>2, PathRight DEF Used
  <2> QED BY <2>1, <2>2
<1>3. E2(q) /\ ~ Same2(p, q) => N2(q) # L2Of(p)
  <2> SUFFICES ASSUME E2(q), ~ Same2(p, q) PROVE N2(q) # L2Of(p)
    OBVIOUS
  <2>1. CASE E2(p)
    BY <2>1, PathRight DEF TreeInv
  <2>2. CASE ~ E2(p)
    BY <1>1, <2>2, PathRight DEF Used
  <2> QED BY <2>1, <2>2
<1>4. E3(q) => N3(q) # L2Of(p)
  <2> SUFFICES ASSUME E3(q) PROVE N3(q) # L2Of(p)
    OBVIOUS
  <2>1. CASE E2(p)
    BY <2>1, PathRight DEF TreeInv
  <2>2. CASE ~ E2(p)
    BY <1>1, <2>2, PathRight DEF Used, Below
  <2> QED BY <2>1, <2>2
<1>5. E3(q) /\ ~ Same3(p, q) => N3(q) # L3Of(p)
  <2> SUFFICES ASSUME E3(q), ~ Same3(p, q) PROVE N3(q) # L3Of(p)
    OBVIOUS
  <2>1. CASE E3(p)
    BY <2>1, PathRight DEF TreeInv
  <2>2. CASE ~ E3(p)
    BY <1>1, <2>2, PathRight DEF Used, Below
  <2> QED BY <2>1, <2>2
<1>6. large => E2(q) /\ N2(q) = Top(q)
  BY DEF E2, N2
<1> QED BY <1>1, <1>2, <1>3, <1>4, <1>5, <1>6

\* Pages of the same L2 table have the same entry for it.
LEMMA SameEntry ==
  ASSUME NEW p, NEW q
  PROVE  /\ Same2(p, q) => Top(p) = Top(q) /\ (E2(p) <=> E2(q)) /\ N2(p) = N2(q)
         /\ Same3(p, q) => (E3(p) <=> E3(q)) /\ N3(p) = N3(q)
<1>1. Same2(p, q) => Top(p) = Top(q)
  BY DEF Same2, Top
<1>2. Same2(p, q) => (E2(p) <=> E2(q)) /\ N2(p) = N2(q)
  BY <1>1 DEF Same2, E2, N2
<1>3. Same3(p, q) => (E3(p) <=> E3(q)) /\ N3(p) = N3(q)
  BY <1>2 DEF Same3, E3, N3
<1> QED BY <1>1, <1>2, <1>3

\* What a step that maps a group at page p has done to the way to page q.
Grown(p, q) ==
  /\ E2(q)' <=> E2(q) \/ Same2(p, q)
  /\ E2(q)' => N2(q)' = IF Same2(p, q) THEN L2Of(p) ELSE N2(q)
  /\ E3(q)' <=> E3(q) \/ Same3(p, q)
  /\ E3(q)' => N3(q)' = IF Same3(p, q) THEN L3Of(p) ELSE N3(q)

\* That is what it does to every plain page: a table that is added serves
\* the pages that share it.
LEMMA GrownRight ==
  ASSUME InputAssumption, FramesInv, TreeInv, NEW p \in Plain, ~ NoTable(p), NEW n, Written(p, n),
         UNCHANGED <<large, ttbr0, L1>>, ttbr0 # L1, NEW q \in Plain
  PROVE  Grown(p, q)
<1> DEFINE l1 == Top(p)
           l2 == L2Of(p)
           l3 == L3Of(p)
<1>1. /\ l2 \in Ram /\ l3 \in Ram /\ l3 # l2 /\ l3 # ttbr0 /\ l3 # L1 /\ l1 \in {ttbr0, L1}
      /\ E2(p) => l2 = N2(p)
      /\ ~ E2(p) => l2 \in free
      /\ E3(p) => l3 = N3(p)
      /\ IF large THEN l2 = l1 ELSE l2 # ttbr0 /\ l2 # L1
  BY PathRight, TopIn
<1>2. /\ L1Idx(p)' = L1Idx(p) /\ L2Idx(p)' = L2Idx(p) /\ L1Idx(q)' = L1Idx(q) /\ L2Idx(q)' = L2Idx(q)
      /\ Top(q)' = Top(q) /\ large' = large
  BY DEF L1Idx, L2Idx, NPte, Top
<1>3. /\ L1Idx(p) \in Index /\ L2Idx(p) \in Index /\ L1Idx(q) \in Index /\ L2Idx(q) \in Index
      /\ Top(q) \in {ttbr0, L1} /\ Top(q) \in Ram
  BY NumberOfPage, TopIn DEF Used
<1>4. /\ E2(q)' <=> E2(q) \/ Same2(p, q)
      /\ E2(q)' => N2(q)' = IF Same2(p, q) THEN l2 ELSE N2(q)
  <2>1. CASE large
    <3>1. Same2(p, q) <=> l1 = Top(q)
      BY <2>1 DEF Same2, Top
    <3> QED BY <1>1, <1>2, <2>1, <3>1 DEF E2, N2
  <2>2. CASE ~ large
    <3>1. Same2(p, q) <=> l1 = Top(q) /\ L1Idx(q) = L1Idx(p)
      BY <2>2 DEF Same2, Top
    <3>2. table'[Top(q)][L1Idx(q)] =
            IF Same2(p, q) /\ table[Top(q)][L1Idx(q)] = NoPte
            THEN TablePte(l2) ELSE table[Top(q)][L1Idx(q)]
      <4>1. CASE Top(q) = l1
        BY <1>3, <2>2, <3>1, <4>1 DEF Written
      <4>2. CASE Top(q) # l1
        BY <1>1, <1>3, <2>2, <3>1, <4>2 DEF Written
      <4> QED BY <4>1, <4>2
    <3>3. Same2(p, q) => (E2(p) <=> E2(q)) /\ N2(p) = N2(q)
      BY SameEntry
    <3>4. /\ E2(q)' <=> table'[Top(q)][L1Idx(q)] # NoPte
          /\ N2(q)' = table'[Top(q)][L1Idx(q)].pa
          /\ E2(q) <=> table[Top(q)][L1Idx(q)] # NoPte
          /\ N2(q) = table[Top(q)][L1Idx(q)].pa
      <4>1. NoPte' = NoPte
        BY DEF NoPte
      <4> QED BY <1>2, <2>2, <4>1 DEF E2, N2
    <3> HIDE DEF l1, l2, l3
    <3> QED BY <1>1, <3>2, <3>3, <3>4, PteIsSet
  <2> QED BY <2>1, <2>2
<1>5. /\ E2(q) => N2(q) \in Ram /\ N2(q) # l3 /\ (~ large => N2(q) # l1)
      /\ E2(q) /\ ~ Same2(p, q) => N2(q) # l2
      /\ large => l1 = l2
  BY <1>1, OtherTables DEF Used
<1>6. Same2(p, q) => (E2(p) <=> E2(q)) /\ N2(p) = N2(q)
  BY SameEntry
<1>7. Same3(p, q) <=> Same2(p, q) /\ L2Idx(q) = L2Idx(p)
  BY DEF Same3
<1>8. /\ E3(q)' <=> E2(q)' /\ table'[N2(q)'][L2Idx(q)] # NoPte
      /\ N3(q)' = table'[N2(q)'][L2Idx(q)].pa
      /\ E3(q) <=> E2(q) /\ table[N2(q)][L2Idx(q)] # NoPte
      /\ N3(q) = table[N2(q)][L2Idx(q)].pa
  <2>1. NoPte' = NoPte
    BY DEF NoPte
  <2> QED BY <1>2, <2>1 DEF E3, N3
<1>9. CASE Same2(p, q)
  <2>1. E2(q)' /\ N2(q)' = l2
    BY <1>4, <1>9
  <2>2. table'[l2][L2Idx(q)] = IF L2Idx(q) = L2Idx(p) /\ table[l2][L2Idx(q)] = NoPte
                               THEN TablePte(l3) ELSE table[l2][L2Idx(q)]
    BY <1>3 DEF Written
  <2>3. ~ E2(q) => table[l2][L2Idx(q)] = NoPte
    <3>1. ~ E2(p) => table[l2] = EmptyTable
      BY <1>1 DEF FramesInv
    <3> QED BY <1>3, <1>6, <1>9, <3>1 DEF EmptyTable
  <2>4. E2(q) => l2 = N2(q)
    BY <1>1, <1>6, <1>9
  <2>5. Same3(p, q) => (E3(p) <=> E3(q)) /\ N3(p) = N3(q)
    BY SameEntry
  <2> HIDE DEF l1, l2, l3
  <2>6. CASE E2(q)
    BY <1>1, <1>7, <1>8, <1>9, <2>1, <2>2, <2>4, <2>5, <2>6, PteIsSet, <1>4 DEF Grown, l1, l2, l3
  <2>7. CASE ~ E2(q)
    BY <1>1, <1>7, <1>8, <1>9, <2>1, <2>2, <2>3, <2>7, PteIsSet, <1>4 DEF Grown, l1, l2, l3
  <2> QED BY <2>6, <2>7
<1>10. CASE ~ Same2(p, q)
  <2>1. (E2(q)' <=> E2(q)) /\ (E2(q) => N2(q)' = N2(q))
    BY <1>4, <1>10
  <2>2. E2(q) => table'[N2(q)] = table[N2(q)]
    BY <1>5, <1>10 DEF Written
  <2>3. (E3(q)' <=> E3(q)) /\ (E3(q) => N3(q)' = N3(q))
    BY <1>8, <2>1, <2>2
  <2> QED BY <1>4, <1>7, <1>10, <2>3 DEF Grown
<1> QED BY <1>9, <1>10

\* The walk, step by step.
LEMMA WalkIs ==
  ASSUME NEW q
  PROVE  Walk(q) = IF E3(q) THEN table[N3(q)][L3Idx(q)] ELSE NoPte
BY DEF Walk, E3, N3, E2, N2

\* The pages of a group that is mapped at page p.
Group(p, n) ==
  /\ n \in Nat \ {0}
  /\ \A j \in 0 .. n - 1 : p + j \in Pages /\ Same3(p, p + j) /\ L3Idx(p + j) = L3Idx(p) + j

\* The group is mapped, and nothing else has changed.
LEMMA WalkStep ==
  ASSUME InputAssumption, FramesInv, TreeInv, NEW p \in Plain, ~ NoTable(p), NEW n, Written(p, n),
         UNCHANGED <<large, ttbr0, L1>>, ttbr0 # L1, Group(p, n), NEW q \in Plain
  PROVE  Walk(q)' = IF q \in Run(p, n) THEN [pte EXCEPT !.pa = @ + (q - p), !.contig = (n # 1)]
                    ELSE Walk(q)
<1> DEFINE l3 == L3Of(p)
<1>1. /\ L3Idx(q)' = L3Idx(q) /\ L3Idx(q) \in Index /\ NoPte' = NoPte
      /\ p \in Pages /\ q \in Pages /\ p \in Int /\ q \in Int /\ L3Idx(p) \in Int
  BY NumberOfPage DEF L3Idx, NPte, NoPte, Index
<1>2. Grown(p, q)
  BY GrownRight
<1>3. Walk(q)' = IF E3(q)' THEN table'[N3(q)'][L3Idx(q)] ELSE NoPte
  <2>1. (Walk(q) = IF E3(q) THEN table[N3(q)][L3Idx(q)] ELSE NoPte)'
    BY WalkIs, PTL
  <2> QED BY <1>1, <2>1
<1>4. Walk(q) = IF E3(q) THEN table[N3(q)][L3Idx(q)] ELSE NoPte
  BY WalkIs
<1>5. CASE Same3(p, q)
  <2>1. E3(q)' /\ N3(q)' = l3
    BY <1>2, <1>5 DEF Grown
  <2>2. table'[l3][L3Idx(q)] = IF L3Idx(q) \in Run(L3Idx(p), n)
                               THEN [pte EXCEPT !.pa = @ + (L3Idx(q) - L3Idx(p)), !.contig = (n # 1)]
                               ELSE table[l3][L3Idx(q)]
    BY <1>1 DEF Written
  <2>3. table[l3][L3Idx(q)] = Walk(q)
    <3>1. CASE E3(p)
      <4>1. E3(q) /\ N3(q) = N3(p) /\ l3 = N3(p)
        BY <1>5, <3>1, SameEntry, PathRight
      <4> QED BY <1>4, <4>1
    <3>2. CASE ~ E3(p)
      <4>1. ~ E3(q) /\ l3 \in free
        BY <1>5, <3>2, SameEntry, PathRight
      <4>2. table[l3][L3Idx(q)] = NoPte
        BY <1>1, <4>1 DEF FramesInv, EmptyTable
      <4> QED BY <1>4, <4>1, <4>2
    <3> QED BY <3>1, <3>2
  <2>4. L3Idx(q) \in Run(L3Idx(p), n) => q \in Run(p, n) /\ L3Idx(q) - L3Idx(p) = q - p
    <3> SUFFICES ASSUME L3Idx(q) \in Run(L3Idx(p), n)
                 PROVE  q \in Run(p, n) /\ L3Idx(q) - L3Idx(p) = q - p
      OBVIOUS
    <3> DEFINE j == L3Idx(q) - L3Idx(p)
    <3>0. L3Idx(q) \in Int
      BY <1>1 DEF Index
    <3>1. j \in 0 .. n - 1 /\ L3Idx(q) = L3Idx(p) + j
      BY <1>1, <3>0 DEF Run, Group
    <3> HIDE DEF j
    <3>2. p + j \in Pages /\ Same3(p, p + j) /\ L3Idx(p + j) = L3Idx(p) + j
      BY <3>1 DEF Group
    <3>3. Same3(p + j, q)
      BY <1>5, <3>2 DEF Same3, Same2
    <3>4. p + j = q
      BY <1>1, <3>1, <3>2, <3>3, PageOf
    <3> QED BY <1>1, <3>1, <3>4, SMTT(30) DEF Run, Group, j
  <2>5. q \in Run(p, n) => L3Idx(q) \in Run(L3Idx(p), n)
    <3> SUFFICES ASSUME q \in Run(p, n) PROVE L3Idx(q) \in Run(L3Idx(p), n)
      OBVIOUS
    <3> DEFINE j == q - p
    <3>1. j \in 0 .. n - 1 /\ q = p + j
      BY <1>1 DEF Run, Group
    <3> HIDE DEF j
    <3>2. L3Idx(q) = L3Idx(p) + j
      BY <3>1 DEF Group
    <3> QED BY <1>1, <3>1, <3>2 DEF Run, Group
  <2> HIDE DEF l3
  <2>6. CASE q \in Run(p, n)
    BY <1>3, <2>1, <2>2, <2>4, <2>5, <2>6
  <2>7. CASE q \notin Run(p, n)
    BY <1>3, <2>1, <2>2, <2>3, <2>4, <2>7
  <2> QED BY <2>6, <2>7
<1>6. CASE ~ Same3(p, q)
  <2>1. q \notin Run(p, n)
    <3> SUFFICES ASSUME q \in Run(p, n) PROVE FALSE
      OBVIOUS
    <3> DEFINE j == q - p
    <3>1. j \in 0 .. n - 1 /\ q = p + j
      BY <1>1 DEF Run, Group
    <3> HIDE DEF j
    <3> QED BY <1>6, <3>1 DEF Group
  <2>2. (E3(q)' <=> E3(q)) /\ (E3(q) => N3(q)' = N3(q))
    BY <1>2, <1>6 DEF Grown
  <2>3. E3(q) => table'[N3(q)] = table[N3(q)]
    <3>1. E3(q) => N3(q) \in Ram /\ N3(q) \notin {Top(p), L2Of(p), L3Of(p)}
      BY <1>6, OtherTables, TopIn DEF Below, Used
    <3> QED BY <3>1 DEF Written
  <2> QED BY <1>3, <1>4, <2>1, <2>2, <2>3
<1> QED BY <1>5, <1>6

\* The tables still form two trees.
LEMMA TreeStep ==
  ASSUME InputAssumption, FramesInv, TreeInv, NEW p \in Plain, ~ NoTable(p), NEW n, Written(p, n),
         UNCHANGED <<large, ttbr0, L1>>, ttbr0 # L1, free' = free \ {L2Of(p), L3Of(p)}
  PROVE  FramesInv' /\ TreeInv'
<1> DEFINE l2 == L2Of(p)
           l3 == L3Of(p)
<1>1. /\ l2 \in Ram /\ l3 \in Ram /\ l3 # l2 /\ l3 # ttbr0 /\ l3 # L1 /\ Top(p) \in {ttbr0, L1}
      /\ E2(p) => l2 = N2(p)
      /\ ~ E2(p) => l2 \in free
      /\ IF large THEN l2 = Top(p) ELSE l2 # ttbr0 /\ l2 # L1
      /\ ttbr0 \in Used /\ L1 \in Used
  BY PathRight, TopIn DEF TreeInv
<1>2. Plain' = Plain /\ Ram' = Ram /\ Index' = Index
  BY DEF Plain, Pages, Window, L1Idx, L2Idx, Index, NPte, Ram
<1>3. \A q \in Plain : Grown(p, q)
  BY GrownRight
<1>4. \A q \in Plain :
        /\ E2(q) => N2(q) \in Used /\ N2(q) # l3 /\ (~ large => N2(q) # ttbr0 /\ N2(q) # L1)
        /\ E2(q) /\ ~ Same2(p, q) => N2(q) # l2
        /\ E3(q) => N3(q) \in Below /\ N3(q) # l2
        /\ E3(q) /\ ~ Same3(p, q) => N3(q) # l3
  BY OtherTables
<1>5. /\ \A q, r : (Same2(q, r)' <=> Same2(q, r)) /\ (Same3(q, r)' <=> Same3(q, r))
      /\ \A q, r : Same2(p, q) /\ Same2(p, r) => Same2(q, r)
      /\ \A q, r : Same3(p, q) /\ Same3(p, r) => Same3(q, r)
      /\ \A q : Same3(p, q) => Same2(p, q)
  BY DEF Same3, Same2, L1Idx, L2Idx, NPte
<1>6. /\ Used \subseteq Used' /\ Below \subseteq Below'
      /\ l2 \in Used' /\ l3 \in Below' /\ (~ large => l2 \in Below')
  BY <1>1, <1>2 DEF Used, Below
<1>7. FramesInv'
  <2>1. \A f \in free' : f \in Ram /\ table'[f] = table[f] /\ table[f] = EmptyTable
    <3> SUFFICES ASSUME NEW f \in free'
                 PROVE  f \in Ram /\ table'[f] = table[f] /\ table[f] = EmptyTable
      OBVIOUS
    <3>1. f \in free /\ f \in Ram /\ f # l2 /\ f # l3 /\ f # Top(p)
      BY <1>1 DEF Used, FramesInv
    <3> QED BY <3>1 DEF Written, FramesInv
  <2>2. EmptyTable' = EmptyTable
    BY DEF EmptyTable, Index, NPte, NoPte
  <2> QED BY <1>2, <2>1, <2>2 DEF FramesInv, Written
<1> HIDE DEF l2, l3
<1>8. ttbr0' \in Used' /\ L1' \in Used'
  BY <1>1, <1>6 DEF Used
<1>9. ASSUME NEW q \in Plain, E2(q)' PROVE IF large THEN N2(q)' \in Used' ELSE N2(q)' \in Below'
  <2>1. CASE Same2(p, q)
    <3>1. N2(q)' = l2
      BY <1>3, <1>9, <2>1 DEF Grown, l2
    <3> QED BY <1>6, <3>1 DEF Used, Below
  <2>2. CASE ~ Same2(p, q)
    <3>1. E2(q) /\ N2(q)' = N2(q)
      BY <1>3, <1>9, <2>2 DEF Grown
    <3>2. IF large THEN N2(q) \in Used ELSE N2(q) \in Below
      BY <1>4, <3>1 DEF Below
    <3> QED BY <1>6, <3>1, <3>2 DEF Used, Below
  <2> QED BY <2>1, <2>2
<1>10. ASSUME NEW q \in Plain, NEW r \in Plain, E2(q)', E2(r)', N2(q)' = N2(r)'
       PROVE  Same2(q, r)'
  <2>1. CASE Same2(p, q) /\ Same2(p, r)
    BY <1>5, <2>1
  <2>2. CASE Same2(p, q) /\ ~ Same2(p, r)
    BY <1>3, <1>4, <1>10, <2>2 DEF Grown, l2
  <2>3. CASE ~ Same2(p, q) /\ Same2(p, r)
    BY <1>3, <1>4, <1>10, <2>3 DEF Grown, l2
  <2>4. CASE ~ Same2(p, q) /\ ~ Same2(p, r)
    <3>1. E2(q) /\ E2(r) /\ N2(q) = N2(r)
      BY <1>3, <1>10, <2>4 DEF Grown
    <3> QED BY <1>5, <3>1 DEF TreeInv
  <2> QED BY <2>1, <2>2, <2>3, <2>4
<1>11. ASSUME NEW q \in Plain, E3(q)' PROVE N3(q)' \in Below'
  <2>1. CASE Same3(p, q)
    <3>1. N3(q)' = l3
      BY <1>3, <1>11, <2>1 DEF Grown, l3
    <3> QED BY <1>6, <3>1 DEF Used, Below
  <2>2. CASE ~ Same3(p, q)
    <3>1. E3(q) /\ N3(q)' = N3(q)
      BY <1>3, <1>11, <2>2 DEF Grown
    <3> QED BY <1>4, <1>6, <3>1 DEF Used, Below
  <2> QED BY <2>1, <2>2
<1>12. ASSUME NEW q \in Plain, NEW r \in Plain, E3(q)', E2(r)' PROVE N3(q)' # N2(r)'
  <2>1. N3(q)' = l3 \/ (E3(q) /\ N3(q)' = N3(q))
    BY <1>3, <1>12 DEF Grown, l3
  <2>2. N2(r)' = l2 \/ (E2(r) /\ N2(r)' = N2(r))
    BY <1>3, <1>12 DEF Grown, l2
  <2>3. E3(q) /\ E2(r) => N3(q) # N2(r)
    BY DEF TreeInv
  <2> QED BY <1>1, <1>4, <2>1, <2>2, <2>3
<1>13. ASSUME NEW q \in Plain, NEW r \in Plain, E3(q)', E3(r)', N3(q)' = N3(r)'
       PROVE  Same3(q, r)'
  <2>1. CASE Same3(p, q) /\ Same3(p, r)
    BY <1>5, <2>1
  <2>2. CASE Same3(p, q) /\ ~ Same3(p, r)
    BY <1>3, <1>4, <1>13, <2>2 DEF Grown, l3
  <2>3. CASE ~ Same3(p, q) /\ Same3(p, r)
    BY <1>3, <1>4, <1>13, <2>3 DEF Grown, l3
  <2>4. CASE ~ Same3(p, q) /\ ~ Same3(p, r)
    <3>1. E3(q) /\ E3(r) /\ N3(q) = N3(r)
      BY <1>3, <1>13, <2>4 DEF Grown
    <3> QED BY <1>5, <3>1 DEF TreeInv
  <2> QED BY <2>1, <2>2, <2>3, <2>4
<1>14. table'[L1][L1L1] = table[L1][L1L1] /\ NoPte' = NoPte
  <2>1. L1 \in Ram /\ L1 # l3 /\ L1L1 \in Index /\ table[L1][L1L1] # NoPte
    BY <1>1, Geometry DEF TreeInv, Used
  <2>2. CASE L1 # Top(p)
    BY <1>1, <2>1, <2>2 DEF Written, l2, l3
  <2>3. CASE L1 = Top(p) /\ large
    BY <1>1, <2>1, <2>3 DEF Written, l2, l3
  <2>4. CASE L1 = Top(p) /\ ~ large
    BY <2>1, <2>4 DEF Written
  <2> QED BY <2>2, <2>3, <2>4 DEF NoPte
<1>15. TreeInv'
  <2>1. table'[L1'][L1L1] # NoPte' /\ table'[L1'][L1L1].pa = L1'
    BY <1>14 DEF TreeInv
  <2>2. \A q \in Plain : E2(q)' => IF large' THEN N2(q)' \in Used' ELSE N2(q)' \in Below'
    BY <1>9
  <2>3. \A q, r \in Plain : E2(q)' /\ E2(r)' /\ N2(q)' = N2(r)' => Same2(q, r)'
    BY <1>10
  <2>4. \A q \in Plain : E3(q)' => N3(q)' \in Below'
    BY <1>11
  <2>5. \A q, r \in Plain : E3(q)' /\ E2(r)' => N3(q)' # N2(r)'
    BY <1>12
  <2>6. \A q, r \in Plain : E3(q)' /\ E3(r)' /\ N3(q)' = N3(r)' => Same3(q, r)'
    BY <1>13
  <2> QED BY <1>2, <1>8, <2>1, <2>2, <2>3, <2>4, <2>5, <2>6 DEF TreeInv
<1> QED BY <1>7, <1>15

-----------------------------------------------------------------------------
(* Addresses and pages                                                     *)

\* An address is in a page, at an offset.
LEMMA Address ==
  ASSUME NEW a \in Int
  PROVE  /\ Frame(a) \in Int /\ Off(a) \in 0 .. PageSize - 1 /\ a = PageSize * Frame(a) + Off(a)
         /\ a >= 0 => Frame(a) >= 0
         /\ TruncPg(a) = PageSize * Frame(a) /\ TruncPg(a) \in Int
         /\ TruncPg(a) <= a /\ a < TruncPg(a) + PageSize
         /\ a % PageSize = 0 => a = PageSize * Frame(a)
<1>1. PageSize \in Nat \ {0}
  BY Geometry
<1>2. /\ Frame(a) \in Int /\ Off(a) \in 0 .. PageSize - 1 /\ a = PageSize * Frame(a) + Off(a)
      /\ a >= 0 => Frame(a) >= 0
  BY <1>1, DivMod, Zenon DEF Frame, Off
<1>3. TruncPg(a) = Frame(a) * PageSize
  BY DEF TruncPg, Frame
<1>4. Off(a) = a % PageSize
  BY DEF Off
<1> HIDE DEF Frame, Off, TruncPg
<1> QED BY <1>1, <1>2, <1>3, <1>4, SMT

\* A whole number of pages, and an offset.
LEMMA PageNumber ==
  ASSUME NEW n \in Int, NEW r \in 0 .. PageSize - 1
  PROVE  Frame(PageSize * n + r) = n /\ Off(PageSize * n + r) = r
<1>1. PageSize \in Nat \ {0}
  BY Geometry
<1> QED BY <1>1, Unique, Zenon DEF Frame, Off

\* The base of a page.
LEMMA WholePages ==
  ASSUME NEW n \in Int
  PROVE  /\ PageSize * n \in Int /\ Frame(PageSize * n) = n /\ (PageSize * n) % PageSize = 0
         /\ n >= 0 => PageSize * n >= 0
<1>1. PageSize \in Nat \ {0} /\ 0 \in 0 .. PageSize - 1
  BY Geometry
<1>2. Frame(PageSize * n + 0) = n /\ Off(PageSize * n + 0) = 0
  BY <1>1, PageNumber
<1>3. PageSize * n \in Int /\ PageSize * n + 0 = PageSize * n /\ (n >= 0 => PageSize * n >= 0)
  BY <1>1, SMT
<1> QED BY <1>2, <1>3 DEF Off

\* Pages are in the order of their addresses.
LEMMA PageOrder ==
  ASSUME NEW m \in Int, NEW n \in Int
  PROVE  /\ m < n <=> PageSize * m < PageSize * n
         /\ m <= n <=> PageSize * m <= PageSize * n
<1>1. PageSize \in Nat \ {0} /\ PageSize * m \in Int /\ PageSize * n \in Int
  BY Geometry, WholePages
<1>2. n - m >= 1 => PageSize * (n - m) >= PageSize
  BY <1>1, Times
<1>3. m - n >= 1 => PageSize * (m - n) >= PageSize
  BY <1>1, Times
<1>4. PageSize * (n - m) = PageSize * n - PageSize * m /\ PageSize * (m - n) = PageSize * m - PageSize * n
  BY <1>1, SMT
<1> QED BY <1>1, <1>2, <1>3, <1>4

\* Rounding up.
LEMMA Rounded ==
  ASSUME NEW a \in Nat
  PROVE  /\ RoundPg(a) \in Nat /\ RoundPg(a) % PageSize = 0 /\ a <= RoundPg(a)
         /\ RoundPg(a) = PageSize * Frame(RoundPg(a)) /\ Frame(RoundPg(a)) \in Nat
<1> DEFINE b == a + PageSize - 1
<1>0. PageSize \in Nat \ {0}
  BY Geometry
<1>1. PageSize \in Nat \ {0} /\ b \in Nat
  BY <1>0
<1>2. TruncPg(b) = PageSize * Frame(b) /\ Frame(b) \in Nat /\ b < TruncPg(b) + PageSize
  BY <1>1, Address
<1>3. RoundPg(a) = PageSize * Frame(b)
  BY <1>2 DEF RoundPg
<1>4. RoundPg(a) \in Int /\ Frame(RoundPg(a)) = Frame(b) /\ RoundPg(a) % PageSize = 0 /\ RoundPg(a) >= 0
  BY <1>2, <1>3, WholePages
<1> QED BY <1>1, <1>2, <1>3, <1>4

-----------------------------------------------------------------------------
(* The invariant of all steps                                              *)

CallSet == [vaddr : Nat \cup {Anywhere}, paddr : Nat, size : Nat, flags : Flags]
Attr(flags) == [prot |-> flags, ish |-> "dev" \notin flags /\ num_cpu > 1]

StateInv ==
  /\ large \in BOOLEAN /\ file \in Files /\ num_cpu \in NumCpus \cup {1}
  /\ pc \in {"init_smp", "init_mmu", "map", "loop", "crashed"}
  /\ pc \in {"map", "loop"} => ttbr0 # L1
  /\ k \in 1 .. Len(file) + 2 /\ half \in BOOLEAN
  /\ half => k <= Len(file) /\ file[k].paddr # 0
  /\ free_vaddr \in Nat /\ free_vaddr % PageSize = 0 /\ va \in Int /\ va % PageSize = 0
  /\ todo \in Seq(CallSet)
  /\ FramesInv

\* Before there are tables nothing is mapped.
StartInv ==
  /\ table = [f \in Ram |-> EmptyTable] /\ free \in Pools
  /\ DOMAIN mapped = {} /\ asked = {} /\ ttbr0 = L1

\* Each page leads to what it was mapped to; contiguous groups are whole.
MappedInv ==
  /\ DOMAIN mapped \subseteq Plain
  /\ \A p \in DOMAIN mapped :
       /\ mapped[p].pa \in Int
       /\ Walk(p) # NoPte /\ Walk(p).pa = mapped[p].pa /\ Walk(p).attr = Attr(mapped[p].flags)
  /\ \A p \in Plain : p \notin DOMAIN mapped => Walk(p) = NoPte
  /\ \A p \in DOMAIN mapped : Walk(p).contig =>
       \A q \in Run(p - (p % ContigPages), ContigPages) :
         /\ q \in DOMAIN mapped /\ Walk(q).contig /\ mapped[q].flags = mapped[p].flags
         /\ mapped[q].pa = mapped[p].pa + (q - p)
         /\ mapped[q].pa % ContigPages = q % ContigPages

\* The call in progress has mapped its pages so far, in order.
LoopInv ==
  pc = "loop" =>
    LET c == Head(todo)
        first == Frame(end - Size(c))
    IN  /\ todo # << >> /\ end \in Int /\ Size(c) \in Nat
        /\ end % PageSize = 0 /\ (end - Size(c)) % PageSize = 0
        /\ 0 <= end - Size(c) /\ end - Size(c) <= va /\ va <= end
        /\ end < UserEnd \/ end - Size(c) >= UserEnd
        /\ pte = [pa |-> Frame(c.paddr) + (Frame(va) - first), attr |-> Attr(c.flags), contig |-> FALSE]
        /\ \A q \in first .. Frame(va) - 1 :
             q \in DOMAIN mapped /\ mapped[q].pa = Frame(c.paddr) + (q - first)

\* What was asked for is mapped.
AskedInv ==
  \A r \in asked : \A i \in 0 .. r.call.size - 1 :
    LET v == r.at + i IN
    /\ v \in Int /\ Frame(v) \in DOMAIN mapped
    /\ mapped[Frame(v)].pa * PageSize + Off(v) = r.call.paddr + i

IInv ==
  /\ StateInv
  /\ IF Running THEN TreeInv /\ MappedInv /\ LoopInv /\ AskedInv ELSE StartInv

-----------------------------------------------------------------------------
(* MapGroup keeps the invariant                                            *)

\* What MapGroup maps lies in the area, on pages that share their tables.
LEMMA AreaPages ==
  ASSUME IInv, AreasApart, MapGroup
  PROVE  LET p == Frame(va)
             n == IF UseContig THEN ContigPages ELSE 1
         IN  /\ n \in Nat \ {0} /\ p \in Int /\ va = PageSize * p /\ end = PageSize * Frame(end)
             /\ p + n <= Frame(end) /\ Frame(end) \in Int
             /\ \A j \in 0 .. n - 1 : p + j \in Plain /\ p + j \notin DOMAIN mapped
             /\ Group(p, n)
<1> DEFINE p == Frame(va)
           e == Frame(end)
           n == IF UseContig THEN ContigPages ELSE 1
           c == Head(todo)
<1>1. /\ PageSize \in Nat \ {0} /\ ContigPages \in Nat \ {0} /\ UserPages \in Nat \ {0}
      /\ pc = "loop" /\ va < end
  BY Geometry DEF MapGroup
<1>2. Running /\ LoopInv /\ va \in Int /\ va % PageSize = 0
  BY <1>1 DEF IInv, Running, StateInv
<1>3. /\ end \in Int /\ end % PageSize = 0 /\ Size(c) \in Nat
      /\ 0 <= end - Size(c) /\ end - Size(c) <= va /\ va <= end
      /\ end < UserEnd \/ end - Size(c) >= UserEnd
  BY <1>1, <1>2 DEF LoopInv
<1>4. va = PageSize * p /\ end = PageSize * e /\ p \in Int /\ e \in Int /\ p >= 0
  BY <1>2, <1>3, Address
<1>5. p < e
  BY <1>1, <1>4, PageOrder
<1>6. n \in Nat \ {0} /\ p + n <= e
  <2>1. CASE UseContig
    <3>1. end - va >= ContigPages * PageSize
      BY <2>1 DEF UseContig
    <3>2. PageSize * (p + ContigPages) = va + ContigPages * PageSize
      BY <1>1, <1>4, SMT
    <3>3. PageSize * (p + ContigPages) <= PageSize * e
      <4>1. ContigPages * PageSize \in Int
        BY <1>1, SMT
      <4> QED BY <1>2, <1>3, <1>4, <3>1, <3>2, <4>1
    <3>4. p + ContigPages <= e
      BY <1>1, <1>4, <3>3, PageOrder
    <3> QED BY <1>1, <2>1, <3>4
  <2>2. CASE ~ UseContig
    BY <1>4, <1>5, <2>2
  <2> QED BY <2>1, <2>2
<1>7. \A q \in p .. e - 1 : q \notin DOMAIN mapped /\ q < 2 * UserPages /\ ~ Window(q)
  BY <1>1 DEF AreasApart
<1> HIDE DEF p, e, n, c
<1>8. \A j \in 0 .. n - 1 : p + j \in Plain /\ p + j \notin DOMAIN mapped
  <2> SUFFICES ASSUME NEW j \in 0 .. n - 1
               PROVE  p + j \in Plain /\ p + j \notin DOMAIN mapped
    OBVIOUS
  <2>1. p + j \in p .. e - 1 /\ p + j >= 0 /\ p + j \in Int
    BY <1>4, <1>6
  <2>2. p + j \notin DOMAIN mapped /\ p + j < 2 * UserPages /\ ~ Window(p + j)
    BY <1>7, <2>1
  <2> QED BY <1>1, <2>1, <2>2 DEF Plain, Pages
<1>9. \A j \in 0 .. n - 1 : p < UserPages <=> p + j < UserPages
  <2> SUFFICES ASSUME NEW j \in 0 .. n - 1, p < UserPages PROVE p + j < UserPages
    BY <1>1, <1>4, <1>6
  <2>1. UserEnd = PageSize * UserPages /\ UserEnd \in Int
    BY <1>1, SMT DEF UserEnd
  <2>2. va < UserEnd
    BY <1>1, <1>4, <2>1, PageOrder
  <2>3. end < UserEnd
    BY <1>2, <1>3, <2>1, <2>2
  <2>4. e < UserPages
    BY <1>1, <1>4, <2>1, <2>3, PageOrder
  <2> QED BY <1>1, <1>4, <1>6, <2>4
<1>10. \A j \in 0 .. n - 1 : j = 0 \/ (p % ContigPages = 0 /\ j < ContigPages)
  BY <1>1 DEF UseContig, p, n
<1>11. Group(p, n)
  <2> SUFFICES ASSUME NEW j \in 0 .. n - 1
               PROVE  p + j \in Pages /\ Same3(p, p + j) /\ L3Idx(p + j) = L3Idx(p) + j
    BY <1>6 DEF Group
  <2>1. p \in Pages
    <3>1. 0 \in 0 .. n - 1 /\ p + 0 = p
      BY <1>4, <1>6
    <3>2. p + 0 \in Plain
      BY <1>8, <3>1
    <3> QED BY <3>1, <3>2 DEF Plain
  <2>2. p + j \in Pages /\ j \in Nat
    BY <1>6, <1>8 DEF Plain
  <2>3. p < UserPages <=> p + j < UserPages
    BY <1>9
  <2>4. j = 0 \/ (p % ContigPages = 0 /\ j < ContigPages)
    BY <1>10
  <2> QED BY <2>1, <2>2, <2>3, <2>4, GroupPages
<1> QED BY <1>4, <1>6, <1>8, <1>11 DEF p, e, n

\* Pages of a group all have the group in common.
LEMMA GroupFirst ==
  ASSUME NEW p \in Int, p % ContigPages = 0, NEW j \in 0 .. ContigPages - 1
  PROVE  (p + j) - ((p + j) % ContigPages) = p
<1>1. ContigPages \in Nat \ {0}
  BY Geometry
<1>2. (p % ContigPages) + j \in 0 .. ContigPages - 1 /\ j \in Int
  BY <1>1
<1>3. (p + j) % ContigPages = (p % ContigPages) + j
  BY <1>1, <1>2, IdxNext, Zenon
<1> QED BY <1>1, <1>3

\* Frames of a group are aligned like its pages.
LEMMA GroupAligned ==
  ASSUME NEW a \in Int, NEW p \in Int, a % ContigPages = 0, p % ContigPages = 0,
         NEW j \in 0 .. ContigPages - 1
  PROVE  (a + j) % ContigPages = (p + j) % ContigPages
<1>1. ContigPages \in Nat \ {0} /\ j \in Int
  BY Geometry
<1>2. (a % ContigPages) + j \in 0 .. ContigPages - 1 /\ (p % ContigPages) + j \in 0 .. ContigPages - 1
  BY <1>1
<1>3. (a + j) % ContigPages = (a % ContigPages) + j
  BY <1>1, <1>2, IdxNext, Zenon
<1>4. (p + j) % ContigPages = (p % ContigPages) + j
  BY <1>1, <1>2, IdxNext, Zenon
<1> QED BY <1>3, <1>4

\* A group of pages gets its entries, and nothing else changes.
LEMMA MapGroupStep == IInv /\ AreasApart /\ InputAssumption /\ MapGroup => IInv'
<1> SUFFICES ASSUME IInv, AreasApart, InputAssumption, MapGroup PROVE IInv'
  OBVIOUS
<1> DEFINE p == Frame(va)
           n == IF UseContig THEN ContigPages ELSE 1
           c == Head(todo)
           first == Frame(end - Size(c))
           N(q) == [pte EXCEPT !.pa = @ + (q - p), !.contig = (n # 1)]
           M(q) == [pa |-> Frame(c.paddr) + (q - first), flags |-> c.flags]
<1>1. /\ pc = "loop" /\ pc' = pc /\ ~ NoTable(p) /\ va' = va + n * PageSize
      /\ pte' = [pte EXCEPT !.pa = @ + n]
      /\ mapped' = [q \in DOMAIN mapped \cup Run(p, n) |-> IF q \in Run(p, n) THEN M(q) ELSE mapped[q]]
      /\ UNCHANGED <<large, file, num_cpu, ttbr0, L1, free_vaddr, todo, end, k, half, asked>>
  BY DEF MapGroup, confVars, elfVars
<1>2. Running /\ StateInv /\ FramesInv /\ TreeInv /\ MappedInv /\ LoopInv /\ AskedInv /\ ttbr0 # L1
  BY <1>1 DEF IInv, Running, StateInv
<1>3. /\ n \in Nat \ {0} /\ p \in Int /\ va = PageSize * p /\ end = PageSize * Frame(end)
      /\ p + n <= Frame(end) /\ Frame(end) \in Int
      /\ \A j \in 0 .. n - 1 : p + j \in Plain /\ p + j \notin DOMAIN mapped
      /\ Group(p, n)
  BY AreaPages
<1>4. p \in Plain
  <2>1. 0 \in 0 .. n - 1 /\ p + 0 = p
    BY <1>3
  <2>2. p + 0 \in Plain
    BY <1>3, <2>1
  <2> QED BY <2>1, <2>2
<1>5. Written(p, n)
  BY <1>1, <1>2, <1>4, WriteRight
<1>6. free' = free \ {L2Of(p), L3Of(p)}
  <2>1. Path(p).l2 = L2Of(p) /\ Path(p).l3 = L3Of(p)
    BY DEF Path, L3Of
  <2>2. free' = free \ {Path(p).l2, Path(p).l3}
    BY DEF MapGroup
  <2> QED BY <2>1, <2>2
<1>7. FramesInv' /\ TreeInv'
  BY <1>1, <1>2, <1>4, <1>5, <1>6, TreeStep
<1>8. \A q \in Plain : Walk(q)' = IF q \in Run(p, n) THEN N(q) ELSE Walk(q)
  <2> SUFFICES ASSUME NEW q \in Plain
               PROVE  Walk(q)' = IF q \in Run(p, n) THEN N(q) ELSE Walk(q)
    OBVIOUS
  <2> QED BY <1>1, <1>2, <1>3, <1>4, <1>5, WalkStep
<1>9. /\ end \in Int /\ end % PageSize = 0 /\ Size(c) \in Nat /\ (end - Size(c)) % PageSize = 0
      /\ 0 <= end - Size(c) /\ end - Size(c) <= va /\ va <= end
      /\ end < UserEnd \/ end - Size(c) >= UserEnd
      /\ pte = [pa |-> Frame(c.paddr) + (p - first), attr |-> Attr(c.flags), contig |-> FALSE]
      /\ \A q \in first .. p - 1 : q \in DOMAIN mapped /\ mapped[q].pa = Frame(c.paddr) + (q - first)
      /\ todo # << >>
  BY <1>1, <1>2 DEF LoopInv
<1>10. Frame(c.paddr) \in Int /\ first \in Int
  <2>1. c \in CallSet
    BY <1>2, <1>9 DEF StateInv
  <2>2. c.paddr \in Int /\ end - Size(c) \in Int
    BY <1>9, <2>1 DEF CallSet
  <2>3. \A a \in Int : Frame(a) \in Int
    BY Address, Zenon
  <2> HIDE DEF c
  <2> QED BY <2>2, <2>3
<1>11. va' = PageSize * (p + n) /\ va' \in Int /\ va' % PageSize = 0 /\ Frame(va)' = p + n
  <2>1. va' = PageSize * (p + n)
    <3> HIDE DEF p, n
    <3>1. PageSize \in Nat \ {0}
      BY Geometry
    <3> QED BY <1>1, <1>3, <3>1, SMT
  <2>2. p + n \in Int
    BY <1>3
  <2>3. Frame(va)' = Frame(va')
    BY DEF Frame
  <2> QED BY <2>1, <2>2, <2>3, WholePages
<1>12. StateInv'
  BY <1>1, <1>2, <1>7, <1>11 DEF StateInv
<1>13. Running'
  BY <1>1, <1>2 DEF Running
<1> HIDE DEF p, n, c, first
<1>14. /\ Plain' = Plain /\ NoPte' = NoPte /\ ContigPages' = ContigPages
       /\ \A f : Attr(f)' = Attr(f)
  BY <1>1 DEF Plain, Pages, Window, L1Idx, L2Idx, NPte, NoPte, ContigPages, Attr
<1>15. DOMAIN mapped' = DOMAIN mapped \cup Run(p, n) /\ Run(p, n) \subseteq Plain
       /\ Run(p, n) \cap DOMAIN mapped = {}
  <2>1. \A q \in Run(p, n) : q - p \in 0 .. n - 1 /\ p + (q - p) = q
    BY <1>3 DEF Run
  <2>2. \A q \in Run(p, n) : q \in Plain /\ q \notin DOMAIN mapped
    BY <1>3, <2>1
  <2> QED BY <1>1, <2>2
<1>16. \A q \in Run(p, n) : /\ mapped'[q] = M(q) /\ mapped'[q].pa = Frame(c.paddr) + (q - first)
                            /\ mapped'[q].flags = c.flags /\ q \in Int /\ q \in p .. p + n - 1
  BY <1>1, <1>3 DEF Run
<1>17. \A q \in DOMAIN mapped : q \notin Run(p, n) /\ mapped'[q] = mapped[q] /\ Walk(q)' = Walk(q)
  BY <1>1, <1>2, <1>8, <1>15 DEF MappedInv
<1>18. \A q \in Run(p, n) :
         /\ Walk(q)' # NoPte /\ Walk(q)'.pa = mapped'[q].pa /\ Walk(q)'.attr = Attr(mapped'[q].flags)
         /\ Walk(q)'.contig = (n # 1)
  <2> SUFFICES ASSUME NEW q \in Run(p, n)
               PROVE  /\ Walk(q)' # NoPte /\ Walk(q)'.pa = mapped'[q].pa
                      /\ Walk(q)'.attr = Attr(mapped'[q].flags) /\ Walk(q)'.contig = (n # 1)
    OBVIOUS
  <2>1. Walk(q)' = N(q)
    BY <1>8, <1>15
  <2>2. /\ N(q).pa = (Frame(c.paddr) + (p - first)) + (q - p) /\ N(q).attr = Attr(c.flags)
        /\ N(q).contig = (n # 1) /\ N(q) # NoPte
    <3> DEFINE a == Frame(c.paddr) + (p - first)
               attr == Attr(c.flags)
               d == q - p
               b == n # 1
    <3>1. pte = [pa |-> a, attr |-> attr, contig |-> FALSE]
      BY <1>9
    <3>2. N(q) = [pte EXCEPT !.pa = @ + d, !.contig = b]
      OBVIOUS
    <3> HIDE DEF N, a, attr, d, b
    <3>3. N(q).pa = a + d /\ N(q).attr = attr
      BY <3>1, <3>2
    <3>4. N(q).contig = b
      BY <3>1, <3>2
    <3>5. "attr" \in DOMAIN N(q) /\ "attr" \notin DOMAIN NoPte
      BY <3>1, <3>2 DEF NoPte
    <3> QED BY <3>3, <3>4, <3>5 DEF a, attr, d, b
  <2>3. q \in Int
    BY <1>16
  <2>4. (Frame(c.paddr) + (p - first)) + (q - p) = Frame(c.paddr) + (q - first)
    BY <1>3, <1>10, <2>3
  <2>5. mapped'[q].pa = Frame(c.paddr) + (q - first) /\ mapped'[q].flags = c.flags
    BY <1>16
  <2> HIDE DEF N
  <2> QED BY <2>1, <2>2, <2>4, <2>5
<1> HIDE DEF N, M
<1>19. MappedInv'
  <2>1. \A q \in DOMAIN mapped' :
          /\ mapped'[q].pa \in Int
          /\ Walk(q)' # NoPte /\ Walk(q)'.pa = mapped'[q].pa /\ Walk(q)'.attr = Attr(mapped'[q].flags)
    <3> SUFFICES ASSUME NEW q \in DOMAIN mapped'
                 PROVE  /\ mapped'[q].pa \in Int
                        /\ Walk(q)' # NoPte /\ Walk(q)'.pa = mapped'[q].pa
                        /\ Walk(q)'.attr = Attr(mapped'[q].flags)
      OBVIOUS
    <3>1. CASE q \in Run(p, n)
      BY <1>10, <1>16, <1>18, <3>1
    <3>2. CASE q \in DOMAIN mapped
      BY <1>2, <1>17, <3>2 DEF MappedInv
    <3> QED BY <1>15, <3>1, <3>2
  <2>2. \A q \in Plain : q \notin DOMAIN mapped' => Walk(q)' = NoPte
    BY <1>2, <1>8, <1>15 DEF MappedInv
  <2>3. ASSUME NEW q \in DOMAIN mapped', Walk(q)'.contig, NEW g \in Run(q - (q % ContigPages), ContigPages)
        PROVE  /\ g \in DOMAIN mapped' /\ Walk(g)'.contig /\ mapped'[g].flags = mapped'[q].flags
               /\ mapped'[g].pa = mapped'[q].pa + (g - q)
               /\ mapped'[g].pa % ContigPages = g % ContigPages
    <3>1. CASE q \in DOMAIN mapped
      <4>1. /\ g \in DOMAIN mapped /\ Walk(g).contig /\ mapped[g].flags = mapped[q].flags
            /\ mapped[g].pa = mapped[q].pa + (g - q)
            /\ mapped[g].pa % ContigPages = g % ContigPages
        BY <1>2, <1>17, <2>3, <3>1 DEF MappedInv
      <4> QED BY <1>15, <1>17, <3>1, <4>1
    <3>2. CASE q \in Run(p, n)
      <4>1. n = ContigPages /\ UseContig
        BY <1>18, <2>3, <3>2 DEF n
      <4>2. p % ContigPages = 0 /\ pte.pa % ContigPages = 0
        BY <4>1 DEF UseContig, p
      <4>3. q - p \in 0 .. ContigPages - 1 /\ p + (q - p) = q
        BY <1>3, <1>16, <3>2, <4>1
      <4>4. q - (q % ContigPages) = p
        <5> DEFINE j == q - p
        <5>1. p + j = q /\ j \in 0 .. ContigPages - 1
          BY <4>3
        <5> HIDE DEF j
        <5>2. (p + j) - ((p + j) % ContigPages) = p
          BY <1>3, <4>2, <5>1, GroupFirst
        <5> QED BY <5>1, <5>2, Zenon
      <4>5. g \in Run(p, n)
        BY <2>3, <4>1, <4>4
      <4>6. mapped'[g].pa = Frame(c.paddr) + (g - first) /\ g \in Int /\ g \in p .. p + n - 1
        BY <1>16, <4>5
      <4>7. mapped'[g].pa = pte.pa + (g - p) /\ pte.pa \in Int
        BY <1>3, <1>9, <1>10, <4>6
      <4>8. g - p \in 0 .. ContigPages - 1 /\ p + (g - p) = g
        BY <1>3, <4>1, <4>6
      <4>9. mapped'[g].pa % ContigPages = g % ContigPages
        <5>1. (pte.pa + (g - p)) % ContigPages = (p + (g - p)) % ContigPages
          BY <1>3, <4>2, <4>7, <4>8, GroupAligned
        <5> QED BY <4>7, <4>8, <5>1
      <4>10. mapped'[g].pa = mapped'[q].pa + (g - q)
        BY <1>10, <1>16, <3>2, <4>5
      <4>11. mapped'[g].flags = mapped'[q].flags
        BY <1>16, <3>2, <4>5
      <4>12. Walk(g)'.contig /\ g \in DOMAIN mapped'
        BY <1>15, <1>18, <2>3, <3>2, <4>5
      <4> QED BY <4>9, <4>10, <4>11, <4>12
    <3> QED BY <1>15, <3>1, <3>2
  <2>4. DOMAIN mapped' \subseteq Plain
    BY <1>2, <1>15 DEF MappedInv
  <2>5. \A q \in DOMAIN mapped' : Walk(q)'.contig =>
          \A g \in Run(q - (q % ContigPages), ContigPages) :
            /\ g \in DOMAIN mapped' /\ Walk(g)'.contig /\ mapped'[g].flags = mapped'[q].flags
            /\ mapped'[g].pa = mapped'[q].pa + (g - q)
            /\ mapped'[g].pa % ContigPages = g % ContigPages
    BY <2>3
  <2>6. \A a, b : Run(a, b)' = Run(a, b)
    BY DEF Run
  <2> QED BY <1>14, <2>1, <2>2, <2>4, <2>5 DEF MappedInv, Run
<1>20. LoopInv'
  <2>1. c' = c /\ Size(c)' = Size(c) /\ first' = first /\ Frame(c.paddr)' = Frame(c.paddr)
    BY <1>1 DEF c, first, Size, RoundPg, TruncPg, Off, Frame
  <2>2. va' <= end /\ va <= va'
    <3>1. PageSize * (p + n) <= PageSize * Frame(end) /\ PageSize * p <= PageSize * (p + n)
      <4>1. p + n \in Int /\ p <= p + n
        BY <1>3
      <4> QED BY <1>3, <4>1, PageOrder
    <3> QED BY <1>3, <1>11, <3>1
  <2>3. pte' = [pa |-> Frame(c.paddr) + ((p + n) - first), attr |-> Attr(c.flags), contig |-> FALSE]
    <3>1. pte' = [pa |-> (Frame(c.paddr) + (p - first)) + n, attr |-> Attr(c.flags), contig |-> FALSE]
      BY <1>1, <1>9
    <3>2. (Frame(c.paddr) + (p - first)) + n = Frame(c.paddr) + ((p + n) - first)
      BY <1>3, <1>10
    <3> QED BY <3>1, <3>2
  <2>4. ASSUME NEW q \in first .. (p + n) - 1
        PROVE  q \in DOMAIN mapped' /\ mapped'[q].pa = Frame(c.paddr) + (q - first)
    <3>1. CASE q < p
      <4>1. q \in first .. p - 1
        BY <1>3, <1>10, <3>1
      <4> QED BY <1>9, <1>15, <1>17, <4>1
    <3>2. CASE q >= p
      <4>1. q \in Run(p, n)
        BY <1>3, <1>10, <3>2 DEF Run
      <4> QED BY <1>15, <1>16, <4>1
    <3> QED BY <1>3, <1>10, <3>1, <3>2
  <2>5. UserEnd' = UserEnd /\ va \in Int /\ Head(todo)' = c
    BY <1>2, <2>1 DEF UserEnd, StateInv, c
  <2>6. /\ todo' # << >> /\ end' \in Int /\ Size(c) \in Nat
        /\ end' % PageSize = 0 /\ (end' - Size(c)) % PageSize = 0
        /\ 0 <= end' - Size(c) /\ end' - Size(c) <= va' /\ va' <= end'
        /\ end' < UserEnd \/ end' - Size(c) >= UserEnd
    <3>1. end' = end /\ todo' = todo
      BY <1>1
    <3> QED BY <1>9, <1>11, <2>2, <2>5, <3>1
  <2>7. \A f : Attr(f)' = Attr(f)
    BY <1>14
  <2>8. (Head(todo))' = c /\ Size(Head(todo))' = Size(c) /\ Frame(end - Size(Head(todo)))' = first
        /\ Frame(Head(todo).paddr)' = Frame(c.paddr) /\ Head(todo).flags' = c.flags
    BY <1>1, <2>1 DEF c, first, Size, RoundPg, TruncPg, Off, Frame
  <2>9. Attr(Head(todo).flags)' = Attr(c.flags)
    BY <1>1 DEF Attr, c
  <2> QED BY <1>11, <2>3, <2>4, <2>6, <2>8, <2>9 DEF LoopInv, UserEnd
<1>21. AskedInv'
  <2>1. \A q \in DOMAIN mapped : q \in DOMAIN mapped' /\ mapped'[q] = mapped[q]
    BY <1>15, <1>17
  <2>2. asked' = asked
    BY <1>1
  <2> QED BY <1>2, <2>1, <2>2 DEF AskedInv, Frame, Off
<1> QED BY <1>7, <1>12, <1>13, <1>19, <1>20, <1>21 DEF IInv

-----------------------------------------------------------------------------
(* The steps that leave the tables alone                                   *)

\* With the same tables, walks are the same; less free memory does no harm.
LEMMA QuietStep ==
  ASSUME TreeInv, MappedInv, UNCHANGED <<large, num_cpu, ttbr0, L1, table, mapped>>, free' \subseteq free
  PROVE  TreeInv' /\ MappedInv'
<1>1. /\ Plain' = Plain /\ Used \subseteq Used' /\ Below \subseteq Below' /\ NoPte' = NoPte
      /\ ContigPages' = ContigPages
  BY DEF Plain, Pages, Window, L1Idx, L2Idx, NPte, Used, Below, Ram, NoPte, ContigPages
<1>2. /\ \A p : (E2(p)' <=> E2(p)) /\ N2(p)' = N2(p) /\ (E3(p)' <=> E3(p)) /\ N3(p)' = N3(p)
      /\ \A p : Walk(p)' = Walk(p)
      /\ \A p, q : (Same2(p, q)' <=> Same2(p, q)) /\ (Same3(p, q)' <=> Same3(p, q))
      /\ \A f : Attr(f)' = Attr(f)
  BY DEF E2, N2, E3, N3, Walk, Same2, Same3, Top, L1Idx, L2Idx, L3Idx, NPte, NoPte, Attr
<1>3. TreeInv'
  BY <1>1, <1>2 DEF TreeInv
<1>4. MappedInv'
  BY <1>1, <1>2 DEF MappedInv, Run
<1> QED BY <1>3, <1>4

\* The same for the frames.
LEMMA QuietFrames ==
  ASSUME FramesInv, UNCHANGED <<large, table>>, free' \subseteq free
  PROVE  FramesInv'
<1>1. Ram' = Ram /\ Index' = Index /\ EmptyTable' = EmptyTable
  BY DEF Ram, Index, NPte, EmptyTable, NoPte
<1> QED BY <1>1 DEF FramesInv

\* The same for what was asked for.
LEMMA QuietAsked ==
  ASSUME AskedInv, UNCHANGED <<mapped, asked>>
  PROVE  AskedInv'
BY DEF AskedInv, Frame, Off

\* The front of a sequence.
LEMMA Front ==
  ASSUME NEW S, NEW s \in Seq(S), s # << >>
  PROVE  Head(s) \in S /\ Tail(s) \in Seq(S)
OBVIOUS

\* What holds of the other variables when a caller goes on.
LEMMA CallerStep ==
  ASSUME IInv, Running, UNCHANGED <<large, file, num_cpu, ttbr0, L1, table, mapped, asked>>,
         free' \subseteq free, pc' \in {"map", "crashed"}, ttbr0 # L1,
         UNCHANGED <<free_vaddr, va>>, k' \in 1 .. Len(file) + 2, half' \in BOOLEAN,
         half' => k' <= Len(file) /\ file[k'].paddr # 0, todo' \in Seq(CallSet)
  PROVE  IInv'
<1>1. StateInv /\ TreeInv /\ MappedInv /\ AskedInv
  BY DEF IInv
<1>2. TreeInv' /\ MappedInv' /\ AskedInv'
  BY <1>1, QuietStep, QuietAsked
<1>3. FramesInv'
  BY <1>1, QuietFrames DEF StateInv
<1>4. StateInv'
  BY <1>1, <1>3 DEF StateInv, CallSet, Anywhere, Flags
<1>5. LoopInv'
  BY DEF LoopInv
<1>6. Running'
  BY DEF Running
<1> QED BY <1>2, <1>4, <1>5, <1>6 DEF IInv

\* The invariant holds at the start.
LEMMA InitIInv == Init /\ InputAssumption => IInv
<1> SUFFICES ASSUME Init, InputAssumption PROVE IInv
  OBVIOUS
<1> USE DEF Init
<1>1. FramesInv
  <2>1. free \subseteq Ram
    BY DEF Ram
  <2>2. \A f \in Ram : DOMAIN table[f] = Index
    BY DEF EmptyTable
  <2>3. \A f \in free : table[f] = EmptyTable
    BY <2>1
  <2> QED BY <2>1, <2>2, <2>3 DEF FramesInv
<1>2. free_vaddr \in Nat /\ free_vaddr % PageSize = 0 /\ va \in Int /\ va % PageSize = 0
  <2>1. PageSize \in Nat \ {0} /\ BasePage \in Nat
    BY Geometry
  <2>2. free_vaddr = PageSize * BasePage /\ va = PageSize * 0 /\ va = 0
    BY <2>1, SMT DEF Base
  <2>3. PageSize * BasePage \in Int /\ (PageSize * BasePage) % PageSize = 0 /\ PageSize * BasePage >= 0
    <3>1. BasePage \in Int /\ BasePage >= 0
      BY <2>1
    <3> QED BY <3>1, WholePages
  <2>4. (PageSize * 0) % PageSize = 0
    BY WholePages
  <2> QED BY <2>2, <2>3, <2>4
<1>3. k \in 1 .. Len(file) + 2
  <2>1. file \in Seq(Header)
    BY DEF InputAssumption
  <2>2. Len(file) \in Nat
    BY <2>1
  <2> QED BY <2>2
<1>4. StateInv
  <2>1. todo \in Seq(CallSet)
    OBVIOUS
  <2>2. /\ large \in BOOLEAN /\ file \in Files /\ num_cpu = 1 /\ pc = "init_smp" /\ half = FALSE
    OBVIOUS
  <2> QED BY ONLY <1>1, <1>2, <1>3, <2>1, <2>2 DEF StateInv
<1>5. ~ Running
  BY DEF Running
<1>6. StartInv
  BY DEF StartInv
<1> QED BY <1>4, <1>5, <1>6 DEF IInv

\* init_smp() touches no table.
LEMMA InitSmpStep == IInv /\ InputAssumption /\ InitSmp => IInv'
<1> SUFFICES ASSUME IInv, InputAssumption, InitSmp PROVE IInv'
  OBVIOUS
<1>1. /\ pc = "init_smp" /\ pc' = "init_mmu" /\ num_cpu' \in NumCpus
      /\ UNCHANGED <<large, file, ttbr0, L1, table, free_vaddr, free, todo, va, k, half, asked, mapped>>
  BY DEF InitSmp, tableVars, callVars, elfVars, histVars
<1>2. ~ Running /\ ~ Running' /\ StateInv /\ StartInv
  BY <1>1 DEF Running, IInv
<1>3. FramesInv'
  BY <1>1, <1>2, QuietFrames DEF StateInv
<1>4. StateInv'
  BY <1>1, <1>2, <1>3 DEF StateInv, CallSet, Anywhere, Flags
<1>5. StartInv'
  <2>1. Ram' = Ram /\ EmptyTable' = EmptyTable
    BY <1>1 DEF Ram, Index, NPte, EmptyTable, NoPte
  <2> QED BY <1>1, <1>2, <2>1 DEF StartInv
<1> QED BY <1>2, <1>4, <1>5 DEF IInv

\* From its entry to its loop, aarch64_map() only finds out where.
LEMMA MapEnterStep == IInv /\ InputAssumption /\ MapEnter => IInv'
<1> SUFFICES ASSUME IInv, InputAssumption, MapEnter PROVE IInv'
  OBVIOUS
<1> DEFINE c == Head(todo)
           v == TruncPg(Vaddr(c))
<1>1. /\ pc = "map" /\ todo # << >> /\ pc' = IF BadCall(c) THEN "crashed" ELSE "loop"
      /\ va' = v /\ end' = va' + Size(c)
      /\ pte' = SetPte(Frame(c.paddr), c.flags)
      /\ free_vaddr' = NextFree(c)
      /\ UNCHANGED <<large, file, num_cpu, ttbr0, L1, table, free, todo, k, half, asked, mapped>>
  BY DEF MapEnter, confVars, elfVars, histVars
<1>2. Running /\ StateInv /\ TreeInv /\ MappedInv /\ AskedInv /\ ttbr0 # L1
  BY <1>1 DEF IInv, Running, StateInv
<1>3. c \in CallSet /\ c.paddr \in Nat /\ c.size \in Nat
  <2>1. todo \in Seq(CallSet)
    BY <1>2 DEF StateInv
  <2>2. c \in CallSet
    BY <1>1, <2>1, Front
  <2> QED BY <2>2 DEF CallSet
<1>4. /\ Size(c) \in Nat /\ Size(c) % PageSize = 0
      /\ Size(c) = PageSize * Frame(Size(c)) /\ Frame(Size(c)) \in Nat
  <2>1. Off(c.paddr) \in Nat
    <3>1. PageSize \in Nat \ {0} /\ c.paddr \in Int
      BY <1>3, Geometry
    <3>2. Off(c.paddr) \in 0 .. PageSize - 1
      BY <3>1, Address
    <3> QED BY <3>1, <3>2
  <2>2. c.size + Off(c.paddr) \in Nat
    BY <1>3, <2>1
  <2> QED BY <2>2, Rounded DEF Size
<1>5. Vaddr(c) \in Nat
  BY <1>2, <1>3 DEF Vaddr, StateInv, CallSet
<1>6. v = PageSize * Frame(Vaddr(c)) /\ Frame(Vaddr(c)) \in Nat /\ v \in Nat /\ v % PageSize = 0
  <2>1. v = PageSize * Frame(Vaddr(c)) /\ Frame(Vaddr(c)) \in Nat
    BY <1>5, Address
  <2>2. Frame(Vaddr(c)) \in Int /\ Frame(Vaddr(c)) >= 0
    BY <2>1
  <2>3. PageSize * Frame(Vaddr(c)) \in Int /\ PageSize * Frame(Vaddr(c)) >= 0
        /\ (PageSize * Frame(Vaddr(c))) % PageSize = 0
    BY <2>2, WholePages
  <2> QED BY <2>1, <2>3
<1>7. free_vaddr' \in Nat /\ free_vaddr' % PageSize = 0
  <2>1. free_vaddr \in Int /\ free_vaddr >= 0 /\ free_vaddr % PageSize = 0
    BY <1>2 DEF StateInv
  <2>2. free_vaddr = PageSize * Frame(free_vaddr) /\ Frame(free_vaddr) \in Int
    BY <2>1, Address
  <2>3. PageSize * (Frame(free_vaddr) + Frame(Size(c))) = free_vaddr + Size(c)
    <3>1. PageSize \in Nat \ {0}
      BY Geometry
    <3> HIDE DEF c
    <3> QED BY <1>4, <2>2, <3>1, SMT
  <2>4. (free_vaddr + Size(c)) % PageSize = 0
    <3>1. Frame(free_vaddr) + Frame(Size(c)) \in Int
      BY <1>4, <2>2
    <3>2. (PageSize * (Frame(free_vaddr) + Frame(Size(c)))) % PageSize = 0
      BY <3>1, WholePages
    <3> QED BY <2>3, <3>2
  <2> QED BY <1>1, <1>4, <2>1, <2>4 DEF NextFree
<1>8. end' \in Int /\ end' % PageSize = 0 /\ end' - Size(c) = v
  <2>1. end' = v + Size(c)
    BY <1>1
  <2>2. PageSize * (Frame(Vaddr(c)) + Frame(Size(c))) = v + Size(c)
    <3>1. PageSize \in Nat \ {0}
      BY Geometry
    <3> HIDE DEF c, v
    <3> QED BY <1>4, <1>6, <3>1, SMT
  <2>3. (v + Size(c)) % PageSize = 0
    <3>1. Frame(Vaddr(c)) + Frame(Size(c)) \in Int
      BY <1>4, <1>6
    <3>2. (PageSize * (Frame(Vaddr(c)) + Frame(Size(c)))) % PageSize = 0
      BY <3>1, WholePages
    <3> QED BY <2>2, <3>2
  <2> HIDE DEF v
  <2> QED BY <1>4, <1>6, <2>1, <2>3
<1>9. FramesInv'
  BY <1>1, <1>2, QuietFrames DEF StateInv
<1>10. va' \in Int /\ va' % PageSize = 0
  <2> HIDE DEF v
  <2> QED BY <1>1, <1>6
<1>11. StateInv'
  BY <1>1, <1>2, <1>7, <1>9, <1>10 DEF StateInv, CallSet, Anywhere, Flags
<1>12. TreeInv' /\ MappedInv' /\ AskedInv'
  BY <1>1, <1>2, QuietStep, QuietAsked
<1>13. Running'
  BY <1>1, <1>2 DEF Running
<1>14. LoopInv'
  <2> SUFFICES ASSUME pc' = "loop" PROVE LoopInv'
    BY DEF LoopInv
  <2>1. ~ BadCall(c)
    BY <1>1
  <2>2. end' < UserEnd \/ v >= UserEnd
    <3>1. UserEnd \in Int
      <4>1. UserPages \in Nat \ {0} /\ PageSize \in Nat \ {0}
        BY Geometry
      <4> QED BY <4>1, SMT DEF UserEnd
    <3>2. v < UserEnd => ~ (v + Size(c) >= UserEnd)
      BY <2>1 DEF BadCall
    <3>3. end' = v + Size(c)
      BY <1>1
    <3> HIDE DEF v
    <3> QED BY <1>4, <1>6, <3>1, <3>2, <3>3
  <2>3. /\ Head(todo)' = c /\ Size(Head(todo))' = Size(c) /\ Frame(Head(todo).paddr)' = Frame(c.paddr)
        /\ Frame(end - Size(Head(todo)))' = Frame(v) /\ Frame(va)' = Frame(v)
        /\ Head(todo).flags' = c.flags /\ UserEnd' = UserEnd
    BY <1>1, <1>8 DEF Size, RoundPg, TruncPg, Off, Frame, UserEnd
  <2>4. Attr(Head(todo).flags)' = Attr(c.flags)
    BY <1>1 DEF Attr
  <2>5. Frame(v) \in Int /\ Frame(c.paddr) \in Int
    <3>1. v \in Int /\ c.paddr \in Int
      <4> HIDE DEF v, c
      <4> QED BY <1>3, <1>6
    <3>2. \A a \in Int : Frame(a) \in Int
      BY Address, Zenon
    <3> QED BY <3>1, <3>2
  <2>6. pte' = [pa |-> Frame(c.paddr) + (Frame(v) - Frame(v)), attr |-> Attr(c.flags), contig |-> FALSE]
    <3>1. pte' = [pa |-> Frame(c.paddr), attr |-> Attr(c.flags), contig |-> FALSE]
      BY <1>1 DEF SetPte, Attr
    <3>2. Frame(c.paddr) + (Frame(v) - Frame(v)) = Frame(c.paddr)
      BY <2>5
    <3> QED BY <3>1, <3>2
  <2>7. Frame(v) .. Frame(v) - 1 = {}
    BY <2>5
  <2>8. /\ end' - Size(c) = v /\ 0 <= v /\ v <= va' /\ va' <= end' /\ todo' # << >> /\ v % PageSize = 0
    <3>1. va' = v
      BY <1>1
    <3>2. todo' # << >>
      BY <1>1
    <3> HIDE DEF v
    <3> QED BY <1>1, <1>4, <1>6, <1>8, <3>1, <3>2
  <2> HIDE DEF c, v
  <2>9. /\ todo' # << >> /\ end' \in Int /\ Size(c) \in Nat /\ end' % PageSize = 0
        /\ (end' - Size(c)) % PageSize = 0 /\ 0 <= end' - Size(c) /\ end' - Size(c) <= va' /\ va' <= end'
        /\ end' < UserEnd \/ end' - Size(c) >= UserEnd
    BY <1>4, <1>8, <2>2, <2>8
  <2>10. \A q \in Frame(v) .. Frame(v) - 1 :
           q \in DOMAIN mapped' /\ mapped'[q].pa = Frame(c.paddr) + (q - Frame(v))
    BY <2>7
  <2> QED BY <2>3, <2>4, <2>6, <2>9, <2>10 DEF LoopInv
<1> QED BY <1>11, <1>12, <1>13, <1>14 DEF IInv

\* What a call has mapped is what its caller asked for.
LEMMA MapReturnStep == IInv /\ MapReturn => IInv'
<1> SUFFICES ASSUME IInv, MapReturn PROVE IInv'
  OBVIOUS
<1> DEFINE c == Head(todo)
           first == Frame(end - Size(c))
           last == Frame(end)
           new == [call |-> c, at |-> (end - Size(c)) + Off(c.paddr)]
<1>1. /\ pc = "loop" /\ va >= end /\ pc' = "map" /\ todo' = Tail(todo)
      /\ asked' = IF c.vaddr = Anywhere THEN asked \cup {new} ELSE asked
      /\ UNCHANGED <<large, file, num_cpu, ttbr0, L1, table, free_vaddr, free, va, end, k, half, mapped>>
  BY DEF MapReturn, confVars, tableVars, elfVars
<1>2. Running /\ StateInv /\ TreeInv /\ MappedInv /\ LoopInv /\ AskedInv /\ ttbr0 # L1
  BY <1>1 DEF IInv, Running, StateInv
<1>3. /\ todo # << >> /\ end \in Int /\ Size(c) \in Nat
      /\ end % PageSize = 0 /\ (end - Size(c)) % PageSize = 0
      /\ 0 <= end - Size(c) /\ end - Size(c) <= va /\ va <= end
      /\ \A q \in first .. Frame(va) - 1 : q \in DOMAIN mapped /\ mapped[q].pa = Frame(c.paddr) + (q - first)
  BY <1>1, <1>2 DEF LoopInv
<1>4. c \in CallSet /\ Tail(todo) \in Seq(CallSet)
  BY <1>2, <1>3, Front DEF StateInv
<1>5. c.paddr \in Nat /\ c.size \in Nat
  BY <1>4 DEF CallSet
<1>6. va = end
  BY <1>1, <1>2, <1>3 DEF StateInv
<1>7. TreeInv' /\ MappedInv'
  BY <1>1, <1>2, QuietStep
<1>8. FramesInv'
  BY <1>1, <1>2, QuietFrames DEF StateInv
<1>9. StateInv'
  BY <1>1, <1>2, <1>4, <1>8 DEF StateInv, CallSet, Anywhere, Flags
<1>10. Running' /\ LoopInv'
  BY <1>1, <1>2 DEF Running, LoopInv
<1> HIDE DEF c, first, last
<1>11. ASSUME NEW i \in 0 .. c.size - 1
       PROVE  LET v == new.at + i IN
              /\ v \in Int /\ Frame(v) \in DOMAIN mapped
              /\ mapped[Frame(v)].pa * PageSize + Off(v) = c.paddr + i
  <2> DEFINE a == Frame(c.paddr)
             o == Off(c.paddr)
             x == o + i
             m == Frame(x)
             r == Off(x)
             f == first + m
  <2>0. PageSize \in Nat \ {0}
    BY Geometry
  <2>1. a \in Int /\ o \in 0 .. PageSize - 1 /\ c.paddr = PageSize * a + o
    <3>1. c.paddr \in Int
      BY <1>5
    <3> QED BY <3>1, Address
  <2>2. x \in Nat
    BY <1>5, <2>0, <2>1
  <2> HIDE DEF a, o
  <2>3. m \in Nat /\ r \in 0 .. PageSize - 1 /\ x = PageSize * m + r
    <3>1. x \in Int /\ x >= 0
      BY <2>2
    <3> HIDE DEF x
    <3> QED BY <3>1, Address
  <2>4. first \in Int /\ last \in Int /\ end - Size(c) = PageSize * first /\ end = PageSize * last
    <3>1. end - Size(c) \in Int /\ (end - Size(c)) % PageSize = 0
      BY <1>3
    <3>2. end - Size(c) = PageSize * first /\ first \in Int
      BY <3>1, Address DEF first
    <3>3. end = PageSize * last /\ last \in Int
      BY <1>3, Address DEF last
    <3> QED BY <3>2, <3>3
  <2>5. x < Size(c)
    <3>1. c.size + o \in Nat
      BY <1>5, <2>0, <2>1
    <3>2. c.size + o <= Size(c)
      BY <3>1, Rounded DEF Size, o
    <3> QED BY <1>3, <1>5, <2>1, <3>2
  <2> HIDE DEF x, m, r
  <2>6. m < last - first
    <3>1. PageSize * (last - first) = Size(c)
      <4>1. PageSize * (last - first) = PageSize * last - PageSize * first
        BY <2>0, <2>4, SMT
      <4> QED BY <1>3, <2>4, <4>1
    <3>2. PageSize * m <= x /\ PageSize * m \in Int
      <4>1. PageSize * m \in Int
        BY <2>0, <2>3, SMT
      <4> QED BY <2>3, <4>1
    <3>3. PageSize * m < PageSize * (last - first)
      BY <1>3, <2>2, <2>5, <3>1, <3>2
    <3>4. m \in Int /\ last - first \in Int
      BY <2>3, <2>4
    <3> QED BY <3>3, <3>4, PageOrder
  <2>7. new.at + i = PageSize * f + r
    <3>1. new.at + i = (end - Size(c)) + x
      <4>1. new.at = (end - Size(c)) + o
        BY DEF o
      <4> QED BY <1>3, <2>0, <2>1, <4>1 DEF x
    <3>2. PageSize * f = PageSize * first + PageSize * m
      BY <2>0, <2>3, <2>4, SMT
    <3>3. PageSize * first \in Int /\ PageSize * m \in Int
      BY <2>0, <2>3, <2>4, SMT
    <3> QED BY <2>0, <2>3, <2>4, <3>1, <3>2, <3>3
  <2>8. f \in Int /\ f \in first .. last - 1
    BY <2>3, <2>4, <2>6
  <2> HIDE DEF f
  <2>9. Frame(new.at + i) = f /\ Off(new.at + i) = r /\ new.at + i \in Int
    <3>1. PageSize * f \in Int
      BY <2>8, WholePages
    <3>2. Frame(PageSize * f + r) = f /\ Off(PageSize * f + r) = r
      BY <2>3, <2>8, PageNumber, Zenon
    <3>3. PageSize * f + r \in Int
      BY <2>0, <2>3, <3>1
    <3> HIDE DEF new
    <3> QED BY <2>7, <3>2, <3>3
  <2>10. f \in DOMAIN mapped /\ mapped[f].pa = a + (f - first)
    BY <1>3, <1>6, <2>8 DEF last, a
  <2>11. mapped[f].pa * PageSize + r = c.paddr + i
    <3>1. mapped[f].pa = a + m
      BY <2>1, <2>3, <2>4, <2>10 DEF f
    <3>2. (a + m) * PageSize = PageSize * a + PageSize * m
      BY <2>0, <2>1, <2>3, SMT
    <3>3. PageSize * a \in Int /\ PageSize * m \in Int
      BY <2>0, <2>1, <2>3, SMT
    <3> QED BY <2>0, <2>1, <2>3, <3>1, <3>2, <3>3 DEF x
  <2> QED BY <2>9, <2>10, <2>11
<1>12. AskedInv'
  <2>1. ASSUME NEW w \in asked', NEW i \in 0 .. w.call.size - 1
        PROVE  LET v == w.at + i IN
               /\ v \in Int /\ Frame(v) \in DOMAIN mapped
               /\ mapped[Frame(v)].pa * PageSize + Off(v) = w.call.paddr + i
    <3>1. CASE w \in asked
      BY <1>2, <2>1, <3>1 DEF AskedInv
    <3>2. CASE w = new
      BY <1>11, <2>1, <3>2
    <3> QED BY <1>1, <3>1, <3>2
  <2> QED BY <1>1, <2>1 DEF AskedInv, Frame, Off
<1> QED BY <1>7, <1>9, <1>10, <1>12 DEF IInv

-----------------------------------------------------------------------------
(* The callers of aarch64_map(), and its initialisation                    *)

\* A segment of the executable.
LEMMA Segment ==
  ASSUME InputAssumption, file \in Files, k \in 1 .. Len(file)
  PROVE  /\ Seg.vaddr \in Nat /\ Seg.paddr \in Nat /\ Seg.src \in Nat /\ Seg.filesz \in Nat
         /\ Seg.memsz \in Nat /\ Seg.flags \in Flags /\ Seg.filesz <= Seg.memsz
         /\ Lead \in Nat
<1>1. file \in Seq(Header)
  BY DEF InputAssumption
<1>2. Seg \in Header
  BY <1>1 DEF Seg
<1>3. /\ Seg.vaddr \in Nat /\ Seg.paddr \in Nat /\ Seg.src \in Nat /\ Seg.filesz \in Nat
      /\ Seg.memsz \in Nat /\ Seg.flags \in Flags /\ Seg.filesz <= Seg.memsz
  <2> HIDE DEF Seg
  <2> QED BY <1>2 DEF Header
<1>4. Lead \in Nat
  <2>1. PageSize \in Nat \ {0}
    BY Geometry
  <2>2. Seg.vaddr \in Int
    BY <1>3
  <2>3. Lead \in 0 .. PageSize - 1
    BY <2>2, Address DEF Lead
  <2> QED BY <2>1, <2>3
<1> QED BY <1>3, <1>4

\* The sizes that load_elf64mmu() works with.
LEMMA SegmentSizes ==
  ASSUME InputAssumption, file \in Files, k \in 1 .. Len(file)
  PROVE  /\ Filesz \in Nat /\ Memsz \in Nat /\ InPlace \in Nat /\ InPlace <= Memsz
         /\ TruncPg(Seg.vaddr) \in Nat /\ TruncPg(Seg.paddr) \in Nat
<1> DEFINE a == Seg.filesz + Lead
           b == Seg.memsz + Lead
<1>1. a \in Nat /\ b \in Nat /\ a <= b
  <2>1. Seg.filesz \in Nat /\ Seg.memsz \in Nat /\ Seg.filesz <= Seg.memsz /\ Lead \in Nat
    BY Segment, Zenon
  <2> HIDE DEF Seg, Lead
  <2> QED BY <2>1
<1>2. Filesz = (IF Whole THEN RoundPg(a) ELSE a) /\ Memsz = IF Whole THEN RoundPg(a) ELSE b
  BY DEF Filesz, Memsz
<1>3. RoundPg(a) \in Nat
  BY <1>1, Rounded
<1> HIDE DEF a, b
<1>4. Filesz \in Nat /\ Memsz \in Nat /\ Filesz <= Memsz
  BY <1>1, <1>2, <1>3
<1>5. \A z \in Nat : TruncPg(z) \in Nat /\ TruncPg(z) <= z
  <2> SUFFICES ASSUME NEW z \in Nat PROVE TruncPg(z) \in Nat /\ TruncPg(z) <= z
    OBVIOUS
  <2>0. z \in Int /\ z >= 0
    OBVIOUS
  <2>1. TruncPg(z) = PageSize * Frame(z) /\ Frame(z) \in Int /\ Frame(z) >= 0 /\ TruncPg(z) <= z
    BY <2>0, Address, Zenon
  <2>2. PageSize * Frame(z) \in Int /\ PageSize * Frame(z) >= 0
    BY <2>1, WholePages
  <2> QED BY <2>1, <2>2
<1>6. Seg.vaddr \in Nat /\ Seg.paddr \in Nat
  BY Segment, Zenon
<1>7. InPlace \in Nat /\ InPlace <= Filesz
  BY <1>4, <1>5, Zenon DEF InPlace
<1>8. TruncPg(Seg.vaddr) \in Nat /\ TruncPg(Seg.paddr) \in Nat
  BY <1>5, <1>6, Zenon
<1> HIDE DEF InPlace, Filesz, Memsz
<1>9. InPlace <= Memsz
  BY <1>4, <1>7
<1> QED BY <1>4, <1>7, <1>8, <1>9

\* Memory that is found is in the memory that was free.
LEMMA FoundMemory ==
  ASSUME InputAssumption, FramesInv, NEW n, Fits(n) # {}
  PROVE  CallocRam(n) \in Nat /\ CallocRam(n) * PageSize \in Nat
<1>1. free \subseteq Nat
  BY DEF FramesInv, InputAssumption, Ram
<1>2. Fits(n) \in SUBSET Nat
  BY <1>1 DEF Fits
<1>3. Lowest(Fits(n)) \in Fits(n)
  BY <1>2, LowestIn
<1>4. CallocRam(n) = Lowest(Fits(n))
  BY DEF CallocRam, Lowest
<1>5. PageSize \in Nat \ {0} /\ CallocRam(n) \in Nat
  BY <1>2, <1>3, <1>4, Geometry
<1> HIDE DEF CallocRam
<1> QED BY <1>5, SMT

\* A call is what aarch64_map() expects.
LEMMA CallRight ==
  ASSUME NEW v \in Nat \cup {Anywhere}, NEW a \in Nat, NEW s \in Nat, NEW f \in Flags
  PROVE  <<Call(v, a, s, f)>> \in Seq(CallSet) /\ Call(v, a, s, f) \in CallSet
<1>1. Call(v, a, s, f) \in CallSet
  BY DEF Call, CallSet
<1> HIDE DEF Call
<1> QED BY <1>1

\* Callers of aarch64_map() touch no table.
LEMMA CallersStep ==
  ASSUME IInv, InputAssumption,
         \/ \E q \in Callouts : CalloutMap(q)
         \/ MapInPlace \/ MapRest \/ CopySegment \/ MapSyspage
  PROVE  IInv'
<1>1. /\ Idle /\ pc = "map" /\ pc' = pc /\ UNCHANGED <<confVars, tableVars, va, histVars>>
  BY DEF CalloutMap, MapInPlace, MapRest, CopySegment, MapSyspage, Idle, callVars, elfVars
<1>2. Running /\ StateInv /\ ttbr0 # L1 /\ FramesInv /\ file \in Files
  BY <1>1 DEF IInv, Running, StateInv
<1>3. UNCHANGED <<large, file, num_cpu, ttbr0, L1, table, mapped, asked, free_vaddr, va>>
  BY <1>1 DEF confVars, tableVars, histVars
<1>4. /\ k \in 1 .. Len(file) + 2 /\ half \in BOOLEAN /\ (half => k <= Len(file) /\ file[k].paddr # 0)
      /\ Len(file) \in Nat /\ k \in Int
  <2>1. k \in 1 .. Len(file) + 2 /\ half \in BOOLEAN
        /\ (half => k <= Len(file) /\ file[k].paddr # 0)
    BY <1>2 DEF StateInv
  <2>2. file \in Seq(Header)
    BY <1>2 DEF InputAssumption
  <2>3. Len(file) \in Nat
    BY <2>2
  <2> QED BY <2>1, <2>3
<1>5. todo = << >> /\ todo \in Seq(CallSet)
  BY <1>1, <1>2 DEF Idle, StateInv
<1>6. /\ free' \subseteq free /\ k' \in 1 .. Len(file) + 2 /\ half' \in BOOLEAN
      /\ (half' => k' <= Len(file) /\ file[k'].paddr # 0) /\ todo' \in Seq(CallSet)
  <2>1. CASE \E q \in Callouts : CalloutMap(q)
    <3>1. PICK q \in Callouts : CalloutMap(q)
      BY <2>1
    <3>2. q.paddr \in Nat /\ q.size \in Nat /\ q.flags \in Flags
      BY DEF InputAssumption
    <3>3. <<Call(Anywhere, q.paddr, q.size, q.flags)>> \in Seq(CallSet)
      BY <3>2, CallRight
    <3>4. todo' \in Seq(CallSet) /\ free' = free /\ k' = k /\ half' = half
      BY <3>1, <3>3 DEF CalloutMap, elfVars
    <3> QED BY <1>4, <3>4
  <2>2. CASE MapInPlace
    <3>1. k \in 1 .. Len(file)
      BY <1>4, <2>2 DEF MapInPlace
    <3>2. /\ TruncPg(Seg.vaddr) \in Nat /\ TruncPg(Seg.paddr) \in Nat /\ InPlace \in Nat
          /\ Seg.flags \in Flags
      BY <1>2, <3>1, Segment, SegmentSizes
    <3>3. <<Call(TruncPg(Seg.vaddr), TruncPg(Seg.paddr), InPlace, Seg.flags)>> \in Seq(CallSet)
      BY <3>2, CallRight
    <3>4. todo' \in Seq(CallSet) /\ free' = free /\ k' = k /\ half' = TRUE
      BY <2>2, <3>3 DEF MapInPlace
    <3>5. file[k].paddr # 0
      BY <2>2 DEF MapInPlace, Seg
    <3> QED BY <1>4, <3>1, <3>4, <3>5
  <2>3. CASE MapRest
    <3> DEFINE rest == RoundPg(Memsz - InPlace)
               d == CallocRam(Frame(rest))
    <3>1. k \in 1 .. Len(file)
      BY <1>4, <2>3 DEF MapRest
    <3>2. /\ TruncPg(Seg.vaddr) \in Nat /\ Memsz \in Nat /\ InPlace \in Nat /\ InPlace <= Memsz
          /\ Seg.flags \in Flags
      BY <1>2, <3>1, Segment, SegmentSizes
    <3>3. rest \in Nat
      <4>1. Memsz - InPlace \in Nat
        BY <3>2
      <4> QED BY <4>1, Rounded
    <3>4. /\ k' = k + 1 /\ half' = FALSE
          /\ IF rest = 0 THEN UNCHANGED <<todo, free>>
             ELSE /\ Fits(Frame(rest)) # {} /\ free' = free \ Run(d, Frame(rest))
                  /\ todo' = <<Call(TruncPg(Seg.vaddr) + InPlace, d * PageSize, rest, Seg.flags)>>
      BY <2>3 DEF MapRest
    <3>5. Fits(Frame(rest)) # {} => d * PageSize \in Nat
      BY <1>2, FoundMemory
    <3> HIDE DEF rest, d
    <3>6. TruncPg(Seg.vaddr) + InPlace \in Nat
      BY <3>2
    <3>7. rest # 0 => <<Call(TruncPg(Seg.vaddr) + InPlace, d * PageSize, rest, Seg.flags)>> \in Seq(CallSet)
      BY <3>2, <3>3, <3>4, <3>5, <3>6, CallRight
    <3>8. todo' \in Seq(CallSet) /\ free' \subseteq free
      BY <1>5, <3>4, <3>7
    <3>9. k' \in 1 .. Len(file) + 2 /\ half' = FALSE
      BY <1>4, <3>1, <3>4
    <3> QED BY <3>8, <3>9
  <2>4. CASE CopySegment
    <3> DEFINE n == Frame(RoundPg(Memsz))
               d == CallocRam(n)
    <3>1. k \in 1 .. Len(file)
      BY <1>4, <2>4 DEF CopySegment
    <3>2. TruncPg(Seg.vaddr) \in Nat /\ Memsz \in Nat /\ Seg.flags \in Flags
      BY <1>2, <3>1, Segment, SegmentSizes
    <3>3. /\ Fits(n) # {} /\ free' = free \ Run(d, n) /\ k' = k + 1 /\ half' = half
          /\ todo' = <<Call(TruncPg(Seg.vaddr), d * PageSize, Memsz, Seg.flags)>>
      BY <2>4 DEF CopySegment
    <3>4. d * PageSize \in Nat
      BY <1>2, <3>3, FoundMemory
    <3> HIDE DEF n, d
    <3>5. todo' \in Seq(CallSet) /\ free' \subseteq free
      BY <3>2, <3>3, <3>4, CallRight
    <3>6. ~ half
      BY <1>4, <2>4 DEF CopySegment, Seg
    <3>7. k' \in 1 .. Len(file) + 2
      BY <1>4, <3>1, <3>3
    <3> QED BY <1>4, <3>3, <3>5, <3>6, <3>7
  <2>5. CASE MapSyspage
    <3> DEFINE n == Frame(RoundPg(SyspageSize))
               d == CallocRam(n)
               a == Call(Anywhere, d * PageSize, SyspageSize, {"w", "x"})
               b == Call(Anywhere, d * PageSize, SyspageSize, {"x", "u"})
    <3>1. /\ k = Len(file) + 1 /\ Fits(n) # {} /\ free' = free \ Run(d, n)
          /\ k' = k + 1 /\ half' = half /\ todo' = <<a, b>>
      BY <2>5 DEF MapSyspage
    <3>2. d * PageSize \in Nat
      BY <1>2, <3>1, FoundMemory
    <3>3. SyspageSize \in Nat
      BY GeometryAssumption
    <3> HIDE DEF n, d
    <3>4. {"w", "x"} \in Flags /\ {"x", "u"} \in Flags
      BY DEF Flags
    <3>5. a \in CallSet /\ b \in CallSet
      BY <3>2, <3>3, <3>4, CallRight
    <3> HIDE DEF a, b
    <3>6. todo' \in Seq(CallSet) /\ free' \subseteq free
      BY <3>1, <3>5
    <3>7. ~ half
      BY <1>4, <3>1
    <3> QED BY <1>4, <3>1, <3>6, <3>7
  <2> QED BY <2>1, <2>2, <2>3, <2>4, <2>5
<1> QED BY <1>1, <1>2, <1>3, <1>6, CallerStep

\* Stopping for lack of memory touches no table.
LEMMA OutOfMemoryStep == IInv /\ OutOfMemory => IInv'
<1> SUFFICES ASSUME IInv, OutOfMemory PROVE IInv'
  OBVIOUS
<1>1. pc' = "crashed" /\ UNCHANGED <<confVars, tableVars, ram, free, callVars, elfVars, histVars>>
  BY DEF OutOfMemory
<1>2. UNCHANGED <<large, file, num_cpu, ttbr0, L1, table, mapped, asked, free_vaddr, va, free, k, half, todo>>
  BY <1>1 DEF confVars, tableVars, histVars, callVars, elfVars
<1>3. CASE Running
  <2>1. StateInv /\ ttbr0 # L1
    BY <1>3 DEF IInv, Running
  <2> QED BY <1>1, <1>2, <1>3, <2>1, CallerStep DEF StateInv
<1>4. CASE ~ Running
  <2>1. StateInv /\ StartInv
    BY <1>4 DEF IInv
  <2>2. FramesInv'
    BY <1>2, <2>1, QuietFrames DEF StateInv
  <2>3. StateInv'
    BY <1>1, <1>2, <2>1, <2>2 DEF StateInv, CallSet, Anywhere, Flags
  <2>4. StartInv'
    <3>1. Ram' = Ram /\ EmptyTable' = EmptyTable
      BY <1>2 DEF Ram, Index, NPte, EmptyTable, NoPte
    <3> QED BY <1>2, <2>1, <3>1 DEF StartInv
  <2>5. ~ Running'
    BY <1>2, <2>1 DEF StartInv, Running
  <2> QED BY <2>3, <2>4, <2>5 DEF IInv
<1> QED BY <1>3, <1>4

\* Steps of others.
LEMMA StutterStep == IInv /\ UNCHANGED vars => IInv'
<1> SUFFICES ASSUME IInv, UNCHANGED vars PROVE IInv'
  OBVIOUS
<1>1. UNCHANGED <<large, file, num_cpu, pc, ttbr0, L1, table, mapped, asked, free_vaddr, va, end, pte,
                 free, k, half, todo>>
  BY DEF vars, confVars, tableVars, histVars, callVars, elfVars
<1>2. StateInv /\ FramesInv
  BY DEF IInv, StateInv
<1>3. FramesInv'
  BY <1>1, <1>2, QuietFrames
<1>4. StateInv'
  BY <1>1, <1>2, <1>3 DEF StateInv, CallSet, Anywhere, Flags
<1>5. Running' <=> Running
  BY <1>1 DEF Running
<1>6. CASE Running
  <2>1. TreeInv /\ MappedInv /\ AskedInv /\ LoopInv
    BY <1>6 DEF IInv
  <2>2. TreeInv' /\ MappedInv' /\ AskedInv'
    BY <1>1, <2>1, QuietStep, QuietAsked
  <2>3. LoopInv'
    BY <1>1, <2>1 DEF LoopInv, Size, RoundPg, TruncPg, Off, Frame, UserEnd, Attr
  <2> QED BY <1>4, <1>5, <1>6, <2>2, <2>3 DEF IInv
<1>7. CASE ~ Running
  <2>1. StartInv
    BY <1>7 DEF IInv
  <2>2. Ram' = Ram /\ EmptyTable' = EmptyTable
    BY <1>1 DEF Ram, Index, NPte, EmptyTable, NoPte
  <2>3. StartInv'
    BY <1>1, <2>1, <2>2 DEF StartInv
  <2> QED BY <1>4, <1>5, <1>7, <2>3 DEF IInv
<1> QED BY <1>6, <1>7

\* What aarch64_map_init() leaves behind: two roots, with 4K pages a table of
\* the startup mappings, and nothing in them but what shows the tables.
Started ==
  /\ ttbr0 \in Used /\ L1 \in Used /\ ttbr0 # L1
  /\ table[L1][L1L1] # NoPte /\ table[L1][L1L1].pa = L1
  /\ DOMAIN mapped = {} /\ asked = {}
  /\ \E t2 : /\ ~ large => t2 \in Below /\ table[L1][L1L2].pa = t2
             /\ \A i \in Index : table[ttbr0][i] = NoPte
             /\ \A i \in Index : table[L1][i] # NoPte => i = L1L1 \/ (~ large /\ i = L1L2)
             /\ ~ large => \A i \in Index : table[t2][i] # NoPte => i = L2L2

\* From there the invariant holds.
LEMMA StartedRight == Started => TreeInv /\ MappedInv /\ AskedInv
<1> SUFFICES ASSUME Started PROVE TreeInv /\ MappedInv /\ AskedInv
  OBVIOUS
<1>1. /\ ttbr0 \in Used /\ L1 \in Used /\ ttbr0 # L1
      /\ table[L1][L1L1] # NoPte /\ table[L1][L1L1].pa = L1
      /\ DOMAIN mapped = {} /\ asked = {}
  BY DEF Started
<1>2. PICK t2 : /\ ~ large => t2 \in Below /\ table[L1][L1L2].pa = t2
                /\ \A i \in Index : table[ttbr0][i] = NoPte
                /\ \A i \in Index : table[L1][i] # NoPte => i = L1L1 \/ (~ large /\ i = L1L2)
                /\ ~ large => \A i \in Index : table[t2][i] # NoPte => i = L2L2
  BY DEF Started
<1>3. ASSUME NEW p \in Plain
      PROVE  /\ p \in Int /\ L1Idx(p) \in Index /\ L2Idx(p) \in Index
             /\ Top(p) = (IF p < UserPages THEN ttbr0 ELSE L1)
             /\ ~ (p < UserPages) => p >= UserPages
             /\ p >= UserPages => (IF large THEN L2Idx(p) # L1L1
                                   ELSE L1Idx(p) # L1L1 /\ (L1Idx(p) = L1L2 => L2Idx(p) # L2L2))
  <2>1. p \in Int /\ p \in Pages /\ L1Idx(p) \in Index /\ L2Idx(p) \in Index
    BY NumberOfPage
  <2>2. ~ (p < UserPages) => p >= UserPages
    BY <2>1, Geometry
  <2> QED BY <2>1, <2>2 DEF Plain, Window, Top
<1>4. ASSUME NEW p \in Plain, E2(p)
      PROVE  IF large THEN N2(p) = Top(p)
             ELSE N2(p) = t2 /\ L1Idx(p) = L1L2 /\ p >= UserPages /\ ~ (p < UserPages)
  BY <1>2, <1>3, <1>4 DEF E2, N2
<1>5. ASSUME NEW p \in Plain PROVE ~ E3(p)
  <2> SUFFICES ASSUME E3(p) PROVE FALSE
    OBVIOUS
  <2>1. E2(p) /\ table[N2(p)][L2Idx(p)] # NoPte
    BY DEF E3
  <2> QED BY <1>2, <1>3, <1>4, <2>1
<1>6. \A p \in Plain : E2(p) => IF large THEN N2(p) \in Used ELSE N2(p) \in Below
  BY <1>1, <1>2, <1>3, <1>4
<1>7. \A p, q \in Plain : E2(p) /\ E2(q) /\ N2(p) = N2(q) => Same2(p, q)
  BY <1>1, <1>3, <1>4 DEF Same2
<1>8. TreeInv
  BY <1>1, <1>5, <1>6, <1>7 DEF TreeInv
<1>9. MappedInv
  <2>1. \A p \in Plain : Walk(p) = NoPte
    BY <1>5, WalkIs
  <2> QED BY <1>1, <2>1 DEF MappedInv
<1>10. AskedInv
  BY <1>1 DEF AskedInv
<1> QED BY <1>8, <1>9, <1>10

\* The same after a step.
LEMMA StartedThen == Started' => TreeInv' /\ MappedInv' /\ AskedInv'
BY StartedRight, PTL

\* The frames of the first tables are different frames that were free.
LEMMA FirstFrames ==
  ASSUME InputAssumption, free \in Pools, ~ NoFirstTables
  PROVE  LET t0 == Lowest(free)
             t1 == Lowest(free \ {t0})
             t2 == Lowest(free \ {t0, t1})
             l0 == Lowest(free \ IF large THEN {t0, t1} ELSE {t0, t1, t2})
         IN  /\ t0 \in free /\ t1 \in free \ {t0} /\ l0 \in free
             /\ ~ large => t2 \in free \ {t0, t1}
<1> DEFINE t0 == Lowest(free)
           t1 == Lowest(free \ {t0})
           t2 == Lowest(free \ {t0, t1})
           l0 == Lowest(free \ IF large THEN {t0, t1} ELSE {t0, t1, t2})
<1>1. free \subseteq 0 .. UserPages - 1
  BY DEF InputAssumption
<1>2. Cardinality(free) \in Nat
  <2>1. IsFiniteSet(0 .. UserPages - 1)
    BY Geometry, FS_Interval
  <2> QED BY <1>1, <2>1, FS_Subset, FS_CardinalityType
<1>3. /\ ~ (Cardinality(free) < 1) /\ ~ (Cardinality(free) < 2) /\ ~ (Cardinality(free) < 3)
      /\ ~ large => ~ (Cardinality(free) < 4)
  BY <1>2 DEF NoFirstTables
<1>4. /\ free # {} /\ free \ {t0} # {} /\ free \ {t0, t1} # {}
      /\ ~ large => free \ {t0, t1, t2} # {}
  <2>1. free # {} /\ free \ {t0} # {} /\ free \ {t0, t1} # {}
    BY <1>3, OneLeft, Zenon
  <2>2. ~ large => free \ {t0, t1, t2} # {}
    BY <1>3, OneLeft, Zenon
  <2> QED BY <2>1, <2>2
<1>5. \A S : free \ S \in SUBSET Nat
  <2>1. 0 .. UserPages - 1 \subseteq Nat
    BY Geometry
  <2> QED BY <1>1, <2>1
<1>6. \A S : free \ S # {} => Lowest(free \ S) \in free \ S
  BY <1>5, LowestIn
<1>7. free \ {} = free
  OBVIOUS
<1>8. t0 \in free /\ t1 \in free \ {t0} /\ t2 \in free \ {t0, t1}
  BY <1>4, <1>6, <1>7
<1>9. l0 \in free
  <2>1. CASE large
    BY <1>4, <1>6, <2>1
  <2>2. CASE ~ large
    BY <1>4, <1>6, <2>2
  <2> QED BY <2>1, <2>2
<1> QED BY <1>8, <1>9

\* aarch64_map_init() starts the trees.
LEMMA AarchMapInitStep == IInv /\ InputAssumption /\ AarchMapInit => IInv'
<1> SUFFICES ASSUME IInv, InputAssumption, AarchMapInit PROVE IInv'
  OBVIOUS
<1> DEFINE t0 == Lowest(free)
           t1 == Lowest(free \ {t0})
           t2 == Lowest(free \ {t0, t1})
           tables == IF large THEN {t0, t1} ELSE {t0, t1, t2}
           l0 == Lowest(free \ tables)
           start == TruncPg(Startup[1])
           size == RoundPg(Startup[1] + Startup[2]) - start
           c1 == Call(Anywhere, l0 * PageSize, PageSize, {"w"})
           c2 == Call(start, start, size, {"w", "x"})
<1>1. /\ pc = "init_mmu" /\ pc' = "map" /\ ~ NoFirstTables
      /\ ttbr0' = t0 /\ L1' = t1 /\ table' = FirstTables(t0, t1, t2)
      /\ free_vaddr' = Base /\ free' = free \ (tables \cup {l0}) /\ todo' = <<c1, c2>>
      /\ UNCHANGED <<large, file, num_cpu, va, k, half, asked, mapped>>
  BY DEF AarchMapInit, confVars, elfVars, histVars
<1>2. StateInv /\ StartInv
  BY <1>1 DEF IInv, Running
<1>3. /\ free \in Pools /\ free \subseteq Ram /\ free \subseteq Nat
      /\ table = [f \in Ram |-> EmptyTable] /\ DOMAIN mapped = {} /\ asked = {}
  BY <1>2 DEF StartInv, InputAssumption, Ram
<1>4. /\ t0 \in free /\ t1 \in free \ {t0} /\ l0 \in free
      /\ ~ large => t2 \in free \ {t0, t1}
  BY <1>1, <1>3, FirstFrames
<1>5. start \in Nat /\ size \in Nat /\ l0 * PageSize \in Nat /\ PageSize \in Nat
  <2>1. Startup[1] \in Nat /\ Startup[2] \in Nat
    BY DEF InputAssumption
  <2>2. start = PageSize * Frame(Startup[1]) /\ Frame(Startup[1]) \in Int /\ Frame(Startup[1]) >= 0
        /\ start <= Startup[1]
    <3>1. Startup[1] \in Int /\ Startup[1] >= 0
      BY <2>1
    <3> QED BY <3>1, Address, Zenon
  <2>3. start \in Int /\ start >= 0
    BY <2>2, WholePages, Zenon
  <2>4. Startup[1] + Startup[2] \in Nat
    BY <2>1
  <2>5. RoundPg(Startup[1] + Startup[2]) \in Nat
        /\ Startup[1] + Startup[2] <= RoundPg(Startup[1] + Startup[2])
    BY <2>4, Rounded, Zenon
  <2> HIDE DEF start
  <2>6. start \in Nat /\ size \in Nat
    <3> DEFINE y == RoundPg(Startup[1] + Startup[2])
    <3>1. y \in Nat /\ Startup[1] + Startup[2] <= y
      BY <2>5
    <3> HIDE DEF y
    <3> QED BY <2>1, <2>2, <2>3, <3>1 DEF y
  <2>7. l0 \in Nat /\ PageSize \in Nat
    BY <1>3, <1>4, Geometry
  <2>8. l0 * PageSize \in Nat
    <3> HIDE DEF l0
    <3> QED BY <2>7, SMT
  <2> QED BY <2>6, <2>7, <2>8
<1> HIDE DEF t0, t1, t2, l0, start, size
<1>6. todo' \in Seq(CallSet)
  <2>1. {"w"} \in Flags /\ {"w", "x"} \in Flags
    BY DEF Flags
  <2>2. c1 \in CallSet /\ c2 \in CallSet
    BY <1>5, <2>1, CallRight
  <2> HIDE DEF c1, c2
  <2> QED BY <1>1, <2>2
<1> HIDE DEF c1, c2
<1>7. /\ Ram' = Ram /\ Index' = Index /\ NoPte' = NoPte /\ EmptyTable' = EmptyTable
      /\ UNCHANGED <<large, NPte>>
  BY <1>1 DEF Ram, Index, NPte, EmptyTable, NoPte
<1>8. L1L1 \in Index /\ (~ large => {L1L2, L2L2} \subseteq Index /\ L1L1 # L1L2)
  BY Geometry
<1>9. /\ table' \in [Ram -> [Index -> {TablePte(t1), TablePte(t2), NoPte}]]
      /\ \A f \in Ram : f # t1 /\ (large \/ f # t2) => table'[f] = EmptyTable
      /\ table'[t1][L1L1] = TablePte(t1)
      /\ \A i \in Index : table'[t1][i] # NoPte => i = L1L1 \/ (~ large /\ i = L1L2)
      /\ ~ large => /\ table'[t1][L1L2] = TablePte(t2)
                    /\ \A i \in Index : table'[t2][i] # NoPte => i = L2L2
  <2>1. CASE large
    <3>1. table' = [table EXCEPT ![t1] = [table[t1] EXCEPT ![L1L1] = TablePte(t1)]]
      BY <1>1, <2>1 DEF FirstTables
    <3>2. table[t1] = [i \in Index |-> NoPte]
      BY <1>3, <1>4 DEF EmptyTable
    <3> HIDE DEF tables
    <3> QED BY <1>3, <1>4, <1>8, <2>1, <3>1, <3>2 DEF EmptyTable
  <2>2. CASE ~ large
    <3> DEFINE A == [EmptyTable EXCEPT ![L1L1] = TablePte(t1), ![L1L2] = TablePte(t2)]
               B2 == [EmptyTable EXCEPT ![L2L2] = TablePte(t1)]
    <3>1. table[t2] = EmptyTable /\ t1 # t2 /\ t1 \in Ram /\ t2 \in Ram
      BY <1>3, <1>4, <2>2
    <3>2. table' = [table EXCEPT ![t1] = A, ![t2] = B2]
      BY <1>1, <1>3, <2>2, <3>1 DEF FirstTables
    <3>3. /\ A \in [Index -> {TablePte(t1), TablePte(t2), NoPte}]
          /\ A[L1L1] = TablePte(t1) /\ A[L1L2] = TablePte(t2)
          /\ \A i \in Index : A[i] # NoPte => i = L1L1 \/ i = L1L2
      BY <1>8, <2>2 DEF EmptyTable
    <3>4. /\ B2 \in [Index -> {TablePte(t1), TablePte(t2), NoPte}]
          /\ \A i \in Index : B2[i] # NoPte => i = L2L2
      BY <1>8, <2>2 DEF EmptyTable
    <3> HIDE DEF A, B2, tables
    <3>5. table'[t1] = A /\ table'[t2] = B2 /\ \A f \in Ram : f # t1 /\ f # t2 => table'[f] = EmptyTable
      BY <1>3, <3>1, <3>2
    <3>6. table' \in [Ram -> [Index -> {TablePte(t1), TablePte(t2), NoPte}]]
      <4>1. EmptyTable \in [Index -> {TablePte(t1), TablePte(t2), NoPte}]
        BY DEF EmptyTable
      <4> QED BY <1>3, <3>2, <3>3, <3>4, <4>1
    <3> QED BY <2>2, <3>3, <3>4, <3>5, <3>6
  <2> QED BY <2>1, <2>2
<1>10. FramesInv'
  <2>1. DOMAIN table' = Ram /\ \A f \in Ram : DOMAIN table'[f] = Index
    BY <1>9
  <2>2. free' \subseteq Ram /\ \A f \in free' : f # t1 /\ (large \/ f # t2)
    BY <1>1, <1>3
  <2>3. \A f \in free' : table'[f] = EmptyTable
    BY <1>9, <2>2
  <2> QED BY <1>7, <2>1, <2>2, <2>3 DEF FramesInv
<1>11. Started'
  <2>1. t0 \in Used' /\ t1 \in Used' /\ (~ large => t2 \in Below') /\ t0 # t1
    <3>1. t0 \in Ram' /\ t1 \in Ram' /\ (~ large => t2 \in Ram')
      BY <1>3, <1>4, <1>7
    <3>2. t0 \notin free' /\ t1 \notin free' /\ (~ large => t2 \notin free' /\ t2 # t0 /\ t2 # t1) /\ t0 # t1
      BY <1>1, <1>4
    <3> QED BY <1>1, <3>1, <3>2 DEF Used, Below
  <2>2. TablePte(t1) # NoPte /\ TablePte(t1).pa = t1 /\ TablePte(t2).pa = t2
    BY PteIsSet
  <2>3. table'[t1][L1L1] # NoPte /\ table'[t1][L1L1].pa = t1
    BY <1>9, <2>2
  <2>4. ~ large => table'[t1][L1L2].pa = t2
    BY <1>9, <2>2
  <2>5. \A i \in Index : table'[t0][i] = NoPte
    <3>1. table'[t0] = EmptyTable
      BY <1>3, <1>4, <1>9
    <3> QED BY <3>1 DEF EmptyTable
  <2>6. DOMAIN mapped' = {} /\ asked' = {}
    BY <1>1, <1>3
  <2> QED BY <1>1, <1>7, <1>9, <2>1, <2>2, <2>3, <2>4, <2>5, <2>6 DEF Started
<1>12. TreeInv' /\ MappedInv' /\ AskedInv'
  BY <1>11, StartedThen
<1>13. free_vaddr' \in Nat /\ free_vaddr' % PageSize = 0
  <2>1. PageSize \in Nat \ {0} /\ BasePage \in Nat
    BY Geometry
  <2>2. Base = PageSize * BasePage
    BY <2>1, SMT DEF Base
  <2>3. BasePage \in Int /\ BasePage >= 0
    BY <2>1
  <2>4. PageSize * BasePage \in Int /\ (PageSize * BasePage) % PageSize = 0 /\ PageSize * BasePage >= 0
    BY <2>3, WholePages, Zenon
  <2> QED BY <1>1, <2>2, <2>4
<1>14. ttbr0' # L1' /\ Running'
  BY <1>1, <1>4 DEF Running
<1>15. StateInv'
  BY <1>1, <1>2, <1>6, <1>10, <1>13, <1>14 DEF StateInv, CallSet, Anywhere, Flags
<1>16. LoopInv'
  BY <1>1 DEF LoopInv
<1> QED BY <1>12, <1>14, <1>15, <1>16 DEF IInv

-----------------------------------------------------------------------------
(* The theorems                                                            *)

\* The invariant is kept by every step.
LEMMA NextStep == IInv /\ AreasApart /\ InputAssumption /\ [Next]_vars => IInv'
<1> SUFFICES ASSUME IInv, AreasApart, InputAssumption, [Next]_vars PROVE IInv'
  OBVIOUS
<1>1. CASE InitSmp
  BY <1>1, InitSmpStep
<1>2. CASE AarchMapInit
  BY <1>2, AarchMapInitStep
<1>3. CASE MapEnter
  BY <1>3, MapEnterStep
<1>4. CASE MapGroup
  BY <1>4, MapGroupStep
<1>5. CASE MapReturn
  BY <1>5, MapReturnStep
<1>6. CASE (\E q \in Callouts : CalloutMap(q)) \/ MapInPlace \/ MapRest \/ CopySegment \/ MapSyspage
  BY <1>6, CallersStep
<1>7. CASE OutOfMemory
  BY <1>7, OutOfMemoryStep
<1>8. CASE UNCHANGED vars
  BY <1>8, StutterStep
<1> QED BY <1>1, <1>2, <1>3, <1>4, <1>5, <1>6, <1>7, <1>8 DEF Next
\* The parts of TablesRight follow from the invariant: where pages lead,
LEMMA WalkIsRight == IInv /\ Running => WalkRight
<1> SUFFICES ASSUME IInv, Running, NEW p \in Pages
             PROVE  LET e == Walk(p) IN
                    IF ~ Window(p)
                    THEN IF p \notin DOMAIN mapped THEN e = NoPte
                         ELSE /\ e # NoPte /\ e.pa = mapped[p].pa /\ e.attr.prot = mapped[p].flags
                              /\ e.attr.ish = ("dev" \notin mapped[p].flags /\ num_cpu > 1)
                    ELSE IF large THEN e = table[L1][L3Idx(p)]
                    ELSE L1Idx(p) = L1L1 /\ table[L1][L2Idx(p)] # NoPte
                           => e = table[table[L1][L2Idx(p)].pa][L3Idx(p)]
  BY DEF WalkRight, Pages
<1>1. TreeInv /\ MappedInv
  BY DEF IInv
<1>2. CASE ~ Window(p)
  <2>1. p \in Plain
    BY <1>2 DEF Plain
  <2>2. CASE p \notin DOMAIN mapped
    BY <1>1, <1>2, <2>1, <2>2 DEF MappedInv
  <2>3. CASE p \in DOMAIN mapped
    <3>1. Walk(p) # NoPte /\ Walk(p).pa = mapped[p].pa /\ Walk(p).attr = Attr(mapped[p].flags)
      BY <1>1, <2>3 DEF MappedInv
    <3>2. /\ Attr(mapped[p].flags).prot = mapped[p].flags
          /\ Attr(mapped[p].flags).ish = ("dev" \notin mapped[p].flags /\ num_cpu > 1)
      BY DEF Attr
    <3> QED BY <1>2, <2>3, <3>1, <3>2, Zenon
  <2> QED BY <2>2, <2>3
<1>3. CASE Window(p)
  <2>1. Top(p) = L1
    <3>1. p \in Int /\ p >= UserPages /\ UserPages \in Int
      BY <1>3, Geometry DEF Window, Pages
    <3> QED BY <3>1 DEF Top
  <2>2. table[L1][L1L1] # NoPte /\ table[L1][L1L1].pa = L1
    BY <1>1 DEF TreeInv
  <2>3. CASE large
    BY <1>3, <2>1, <2>2, <2>3 DEF Walk, Window
  <2>4. CASE ~ large
    BY <1>3, <2>1, <2>2, <2>4 DEF Walk
  <2> QED BY <2>3, <2>4
<1> QED BY <1>2, <1>3

\* that contiguous groups are whole,
LEMMA ContigIsRight == IInv /\ Running => ContigRight
<1> SUFFICES ASSUME IInv, Running, NEW p \in Pages, ~ Window(p), Walk(p) # NoPte, Walk(p).contig,
                    NEW q \in Run(p - (p % ContigPages), ContigPages)
             PROVE  /\ Walk(q) # NoPte /\ Walk(q).contig /\ Walk(q).attr = Walk(p).attr
                    /\ Walk(q).pa = Walk(p).pa + (q - p)
                    /\ Walk(q).pa % ContigPages = q % ContigPages
  BY DEF ContigRight, Pages
<1>1. MappedInv /\ p \in Plain
  BY DEF IInv, Plain
<1>2. p \in DOMAIN mapped
  BY <1>1 DEF MappedInv
<1>3. /\ q \in DOMAIN mapped /\ Walk(q).contig /\ mapped[q].flags = mapped[p].flags
      /\ mapped[q].pa = mapped[p].pa + (q - p)
      /\ mapped[q].pa % ContigPages = q % ContigPages
  BY <1>1, <1>2 DEF MappedInv
<1>4. \A x \in {p, q} : Walk(x) # NoPte /\ Walk(x).pa = mapped[x].pa /\ Walk(x).attr = Attr(mapped[x].flags)
  BY <1>1, <1>2, <1>3 DEF MappedInv
<1> QED BY <1>3, <1>4

\* and that what was asked for is seen.
LEMMA AskedIsRight == IInv /\ Running => AskedRight
<1> SUFFICES ASSUME IInv, Running, NEW r \in asked, NEW i \in 0 .. r.call.size - 1
             PROVE  Trans(r.at + i) = r.call.paddr + i
  BY DEF AskedRight
<1> DEFINE v == r.at + i
<1>1. AskedInv /\ MappedInv
  BY DEF IInv
<1>2. Frame(v) \in DOMAIN mapped /\ mapped[Frame(v)].pa * PageSize + Off(v) = r.call.paddr + i
  BY <1>1 DEF AskedInv
<1>3. Walk(Frame(v)) # NoPte /\ Walk(Frame(v)).pa = mapped[Frame(v)].pa
  BY <1>1, <1>2 DEF MappedInv
<1> QED BY <1>2, <1>3 DEF Trans

\* So the invariant implies the property.
LEMMA InvRight == IInv => TablesRight
<1> SUFFICES ASSUME IInv, Running PROVE TablesRight
  BY DEF TablesRight
<1>1. TypeOK
  BY DEF IInv, StateInv, FramesInv, TypeOK
<1> QED BY <1>1, WalkIsRight, ContigIsRight, AskedIsRight DEF TablesRight

-----------------------------------------------------------------------------
(* The areas of the callers are apart                                      *)

\* Pages that a call with an address of its own asks for, and those that
\* have been asked for so far: by startup, by the calls without an address,
\* and by the segments that load_elf64mmu() has dealt with.
CallPages(c) == Frame(c.vaddr) .. Frame(c.vaddr) + Frame(Size(c)) - 1
Taken(p) ==
  \/ p \in StartupPages
  \/ p \in BasePage .. Frame(free_vaddr) - 1
  \/ \E s \in 1 .. Len(file) :
       /\ p \in SegmentPages(file[s])
       /\ s < k \/ (half /\ s = k /\ p < Frame(Seg.vaddr) + Frame(InPlace))

\* A page that a call may map.
Free(p) == p \notin DOMAIN mapped /\ p < 2 * UserPages /\ ~ Window(p) /\ Taken(p)

Entered(i) == i = 1 /\ pc = "loop"

\* Pages that call i of the list is still to have from free_vaddr on.
Due(i) ==
  IF i \in DOMAIN todo /\ todo[i].vaddr = Anywhere /\ ~ Entered(i) THEN Frame(Size(todo[i])) ELSE 0

\* Callouts whose place has not been asked for.
Wanted ==
  {q \in Callouts : /\ \A r \in asked : r.call.paddr # q.paddr
                    /\ \A i \in DOMAIN todo : todo[i].vaddr = Anywhere => todo[i].paddr # q.paddr}

\* Pages that the system page, once per mapping, and those callouts will have.
SysPages == Frame(RoundPg(SyspageSize))
ToCome == (IF k <= Len(file) + 1 THEN 2 * SysPages ELSE 0) + Cardinality(CalloutPages(Wanted))

PendingInv ==
  /\ Len(todo) <= 2
  /\ \A i \in DOMAIN todo : todo[i].vaddr # Anywhere =>
       /\ i = Len(todo)
       /\ ~ Entered(i) => \A p \in CallPages(todo[i]) : Free(p) /\ p \notin AutoPages

CurrentInv ==
  pc = "loop" => \A p \in Frame(va) .. Frame(end) - 1 :
    Free(p) /\ (Head(todo).vaddr = Anywhere => p \in AutoPages)

CountInv == Frame(free_vaddr) + Due(1) + Due(2) + ToCome <= BasePage + AutoCount

AreaInv ==
  pc \in {"map", "loop"} =>
    /\ \A p \in DOMAIN mapped : Taken(p)
    /\ BasePage <= Frame(free_vaddr)
    /\ PendingInv /\ CurrentInv /\ CountInv

\* A number of units in whole pages.
LEMMA WholeCount ==
  ASSUME NEW n \in Nat
  PROVE  /\ Frame(RoundPg(n)) = Frame(n + PageSize - 1) /\ Frame(RoundPg(n)) \in Nat
         /\ IsFiniteSet(PagesOf(0, n)) /\ Cardinality(PagesOf(0, n)) = Frame(RoundPg(n))
<1> DEFINE m == n + PageSize - 1
<1>0. PageSize \in Nat \ {0}
  BY Geometry
<1>1. PageSize \in Nat \ {0} /\ m \in Nat /\ m \in Int
  BY <1>0
<1>2. TruncPg(m) = PageSize * Frame(m) /\ Frame(m) \in Int /\ Frame(m) >= 0
  BY <1>1, Address
<1>3. Frame(PageSize * Frame(m)) = Frame(m)
  BY <1>2, WholePages
<1>4. Frame(RoundPg(n)) = Frame(m)
  BY <1>2, <1>3 DEF RoundPg
<1>5. Frame(0) = 0
  <2>1. PageSize * 0 = 0
    BY <1>1
  <2>2. Frame(PageSize * 0) = 0
    BY WholePages
  <2> QED BY <2>1, <2>2
<1>6. PagesOf(0, n) = 0 .. Frame(m) - 1
  BY <1>1, <1>5 DEF PagesOf
<1>7. IsFiniteSet(0 .. Frame(m) - 1) /\ Cardinality(0 .. Frame(m) - 1) = Frame(m)
  <2> DEFINE b == Frame(m) - 1
  <2>1. b \in Int /\ 0 \in Int
    BY <1>2
  <2> HIDE DEF b
  <2>2. IsFiniteSet(0 .. b) /\ Cardinality(0 .. b) = IF 0 > b THEN 0 ELSE b - 0 + 1
    BY <2>1, FS_Interval, Zenon
  <2>3. Cardinality(0 .. b) = Frame(m)
    BY <1>2, <2>2 DEF b
  <2> QED BY <2>2, <2>3 DEF b
<1> QED BY <1>2, <1>4, <1>6, <1>7

\* A call's size in pages; without an offset in its page the size decides.
LEMMA CallSize ==
  ASSUME NEW c, c.paddr \in Nat, c.size \in Nat
  PROVE  /\ Size(c) \in Nat /\ Size(c) = PageSize * Frame(Size(c)) /\ Frame(Size(c)) \in Nat
         /\ c.paddr % PageSize = 0 => Size(c) = RoundPg(c.size)
<1>0. PageSize \in Nat \ {0} /\ c.paddr \in Int
  BY Geometry
<1>1. PageSize \in Nat \ {0} /\ Off(c.paddr) \in 0 .. PageSize - 1
  BY <1>0, Address
<1>2. c.size + Off(c.paddr) \in Nat
  BY <1>1
<1>3. Size(c) \in Nat /\ Size(c) = PageSize * Frame(Size(c)) /\ Frame(Size(c)) \in Nat
  BY <1>2, Rounded DEF Size
<1>4. c.paddr % PageSize = 0 => c.size + Off(c.paddr) = c.size
  BY DEF Off
<1> QED BY <1>3, <1>4 DEF Size

\* The pages of a segment.
LEMMA SegmentSpan ==
  ASSUME InputAssumption, file \in Files, k \in 1 .. Len(file)
  PROVE  /\ Frame(Seg.vaddr) \in Nat /\ Frame(InPlace) \in Nat /\ InPlace = PageSize * Frame(InPlace)
         /\ Frame(InPlace) <= Frame(RoundPg(Memsz)) /\ Frame(RoundPg(Memsz)) \in Nat
         /\ SegmentPages(Seg) = Frame(Seg.vaddr) .. Frame(Seg.vaddr) + Frame(RoundPg(Memsz)) - 1
<1> DEFINE v == Seg.vaddr
           a == Seg.filesz + Lead
           b == Seg.memsz + Lead
<1>1. /\ Seg.vaddr \in Nat /\ Seg.filesz \in Nat /\ Seg.memsz \in Nat /\ Lead \in Nat
      /\ InPlace \in Nat /\ InPlace <= Memsz /\ Memsz \in Nat /\ Filesz \in Nat
  BY Segment, SegmentSizes
<1>2. PageSize \in Nat \ {0}
  BY Geometry
<1>3. a \in Nat /\ b \in Nat
  <2> HIDE DEF Seg, Lead
  <2> QED BY <1>1
<1>4. v = PageSize * Frame(v) + Lead /\ Frame(v) \in Nat
  <2>1. v \in Int /\ v >= 0
    BY <1>1
  <2>2. v = PageSize * Frame(v) + Off(v) /\ Frame(v) \in Int /\ Frame(v) >= 0
    BY <2>1, Address, Zenon
  <2> QED BY <2>2 DEF Lead
<1>5. RoundPg(Memsz) = RoundPg(b)
  <2>1. CASE Whole
    <3>1. Memsz = RoundPg(a) /\ a = b
      BY <2>1 DEF Memsz, Whole
    <3>2. RoundPg(a) \in Nat /\ Frame(RoundPg(a)) \in Int /\ RoundPg(a) = PageSize * Frame(RoundPg(a))
      <4>1. /\ RoundPg(a) \in Nat /\ Frame(RoundPg(a)) \in Nat
            /\ RoundPg(a) = PageSize * Frame(RoundPg(a))
        BY <1>3, Rounded, Zenon
      <4> HIDE DEF a
      <4> QED BY <4>1
    <3>3. PageSize - 1 \in 0 .. PageSize - 1
      BY <1>2
    <3>4. Frame(PageSize * Frame(RoundPg(a)) + (PageSize - 1)) = Frame(RoundPg(a))
      BY <3>2, <3>3, PageNumber
    <3>5. TruncPg(PageSize * Frame(RoundPg(a)) + (PageSize - 1)) = PageSize * Frame(RoundPg(a))
      <4> DEFINE z == PageSize * Frame(RoundPg(a)) + (PageSize - 1)
      <4>1. z \in Int
        <5>1. PageSize * Frame(RoundPg(a)) \in Int
          BY <3>2, WholePages
        <5> QED BY <1>2, <5>1
      <4>2. TruncPg(z) = PageSize * Frame(z)
        BY <4>1, Address, Zenon
      <4> QED BY <3>4, <4>2
    <3>6. RoundPg(RoundPg(a)) = RoundPg(a)
      <4>1. RoundPg(a) + PageSize - 1 = PageSize * Frame(RoundPg(a)) + (PageSize - 1)
        BY <1>2, <3>2
      <4>2. RoundPg(RoundPg(a)) = TruncPg(RoundPg(a) + PageSize - 1)
        BY DEF RoundPg
      <4> QED BY <3>2, <3>5, <4>1, <4>2
    <3> QED BY <3>1, <3>6
  <2>2. CASE ~ Whole
    BY <2>2 DEF Memsz
  <2> QED BY <2>1, <2>2
<1>6. Frame(RoundPg(b)) = Frame(b + PageSize - 1) /\ Frame(RoundPg(b)) \in Nat
  BY <1>3, WholeCount
<1>7. Frame(v + Seg.memsz + PageSize - 1) = Frame(v) + Frame(b + PageSize - 1)
  <2> DEFINE m == b + PageSize - 1
             f == Frame(v)
             g == Frame(m)
             r == Off(m)
  <2>1. m \in Int /\ m >= 0
    BY <1>2, <1>3
  <2>2. m = PageSize * g + r /\ g \in Int /\ r \in 0 .. PageSize - 1
    BY <2>1, Address, Zenon
  <2>3. v + Seg.memsz + PageSize - 1 = PageSize * f + m
    <3> HIDE DEF f, Seg, Lead
    <3>1. v \in Nat /\ Seg.memsz \in Nat /\ Lead \in Nat /\ v = PageSize * f + Lead /\ f \in Nat
      BY <1>1, <1>4 DEF f
    <3>2. PageSize * f \in Int
      BY <1>2, <3>1, SMT
    <3> QED BY <1>2, <3>1, <3>2
  <2>4. f \in Int
    BY <1>4
  <2> HIDE DEF m, f, g, r
  <2>5. PageSize * f + m = PageSize * (f + g) + r
    BY <1>2, <2>2, <2>4, SMT
  <2>6. f + g \in Int
    BY <2>2, <2>4
  <2>7. Frame(PageSize * (f + g) + r) = f + g
    BY <2>2, <2>6, PageNumber, Zenon
  <2> QED BY <2>3, <2>5, <2>7 DEF f, g, m
<1>8. SegmentPages(Seg) = Frame(v) .. Frame(v) + Frame(RoundPg(Memsz)) - 1
  <2> DEFINE e == Frame(v + Seg.memsz + PageSize - 1)
             n == Frame(RoundPg(Memsz))
             f == Frame(v)
  <2>1. SegmentPages(Seg) = f .. e - 1
    BY DEF SegmentPages, PagesOf
  <2>2. e = f + n
    BY <1>5, <1>6, <1>7
  <2>20. f \in Int /\ n \in Int
    BY <1>4, <1>5, <1>6
  <2> HIDE DEF e, n, f
  <2>3. f .. e - 1 = f .. f + n - 1
    BY <2>2, <2>20
  <2>4. SegmentPages(Seg) = f .. f + n - 1
    BY <2>1, <2>3
  <2> QED BY <2>4 DEF f, n
<1>9. InPlace = PageSize * Frame(InPlace) /\ Frame(InPlace) \in Nat
  <2>1. Filesz \in Nat
    BY <1>1
  <2>2. TruncPg(Filesz) = PageSize * Frame(Filesz) /\ Frame(Filesz) \in Int /\ Frame(Filesz) >= 0
    <3> DEFINE z == Filesz
    <3>1. z \in Int /\ z >= 0
      <4> HIDE DEF z
      <4>1. z \in Nat
        BY <2>1 DEF z
      <4> QED BY <4>1
    <3> HIDE DEF z
    <3>2. TruncPg(z) = PageSize * Frame(z) /\ Frame(z) \in Int /\ Frame(z) >= 0
      BY <3>1, Address
    <3> QED BY <3>2 DEF z
  <2>3. Frame(PageSize * Frame(Filesz)) = Frame(Filesz)
    BY <2>2, WholePages, Zenon
  <2>4. Frame(InPlace) = Frame(Filesz) /\ InPlace = PageSize * Frame(Filesz)
    BY <2>2, <2>3 DEF InPlace
  <2> HIDE DEF InPlace, Filesz
  <2> QED BY <2>2, <2>4
<1>10. Frame(InPlace) <= Frame(RoundPg(Memsz))
  <2>1. /\ Memsz <= RoundPg(Memsz) /\ RoundPg(Memsz) = PageSize * Frame(RoundPg(Memsz))
        /\ Frame(RoundPg(Memsz)) \in Nat /\ RoundPg(Memsz) \in Nat
    BY <1>1, Rounded
  <2> DEFINE m == Frame(InPlace)
             n == Frame(RoundPg(Memsz))
  <2>2. PageSize * m <= PageSize * n /\ m \in Int /\ n \in Int
    <3>1. InPlace <= RoundPg(Memsz)
      <4> HIDE DEF InPlace, Memsz
      <4> QED BY <1>1, <2>1
    <3> QED BY <1>9, <2>1, <3>1
  <2> HIDE DEF m, n
  <2>3. m <= n
    BY <2>2, PageOrder
  <2> QED BY <2>3 DEF m, n
<1>11. Frame(RoundPg(Memsz)) \in Nat
  BY <1>5, <1>6
<1> QED BY <1>4, <1>8, <1>9, <1>10, <1>11

\* Automatic addresses meet neither tables nor startup nor an executable.
LEMMA AutoApart ==
  ASSUME SpaceAssumption, file \in Files, NEW p \in AutoPages
  PROVE  /\ p \in Int /\ UserPages <= p /\ p < 2 * UserPages /\ ~ Window(p) /\ p \notin StartupPages
         /\ \A s \in DOMAIN file : p \notin SegmentPages(file[s])
<1>1. BasePage \in Nat /\ UserPages \in Nat /\ UserPages <= BasePage
  BY Geometry
<1>2. p \in Int /\ BasePage <= p
  BY <1>1 DEF AutoPages
<1>3. p < 2 * UserPages /\ ~ Shows4K(p) /\ ~ Shows64K(p)
  BY DEF SpaceAssumption
<1>4. ~ Window(p)
  BY <1>3 DEF Window, Shows4K, Shows64K, L1Idx, L2Idx, NPte
<1>5. p \notin StartupPages
  <2>1. p \in StartupPages => p < UserPages
    BY DEF SpaceAssumption
  <2> QED BY <1>1, <1>2, <2>1
<1>6. \A s \in DOMAIN file : p \notin SegmentPages(file[s])
  BY DEF SpaceAssumption
<1> QED BY <1>1, <1>2, <1>3, <1>4, <1>5, <1>6

\* Each segment's pages are its own.
LEMMA SegmentApart ==
  ASSUME SpaceAssumption, file \in Files, NEW s \in DOMAIN file, NEW p \in SegmentPages(file[s])
  PROVE  /\ p < 2 * UserPages /\ ~ Window(p) /\ p \notin StartupPages /\ p \notin AutoPages
         /\ \A t \in DOMAIN file : s # t => p \notin SegmentPages(file[t])
<1>1. /\ p < 2 * UserPages /\ p \notin StartupPages /\ p \notin AutoPages
      /\ p >= UserPages => ~ Shows4K(p) /\ ~ Shows64K(p)
      /\ \A t \in DOMAIN file : s # t => p \notin SegmentPages(file[t])
  BY DEF SpaceAssumption
<1>2. ~ Window(p)
  BY <1>1 DEF Window, Shows4K, Shows64K, L1Idx, L2Idx, NPte
<1> QED BY <1>1, <1>2

\* The pages of some callouts are at most those of all.
LEMMA CalloutCount ==
  ASSUME SpaceAssumption, NEW C \in SUBSET Callouts, NEW D \in SUBSET C
  PROVE  /\ IsFiniteSet(CalloutPages(C)) /\ Cardinality(CalloutPages(C)) \in Nat
         /\ Cardinality(CalloutPages(D)) \in Nat
         /\ Cardinality(CalloutPages(D)) <= Cardinality(CalloutPages(C))
<1>1. IsFiniteSet(CalloutPages(Callouts))
  BY DEF SpaceAssumption
<1>2. CalloutPages(C) \in SUBSET CalloutPages(Callouts) /\ CalloutPages(D) \in SUBSET CalloutPages(C)
  BY DEF CalloutPages
<1>3. IsFiniteSet(CalloutPages(C))
  BY <1>1, <1>2, FS_Subset
<1>4. /\ IsFiniteSet(CalloutPages(D))
      /\ Cardinality(CalloutPages(D)) <= Cardinality(CalloutPages(C))
  BY <1>2, <1>3, FS_Subset
<1> QED BY <1>3, <1>4, FS_CardinalityType

\* Without one of them they are fewer by its pages.
LEMMA OneCallout ==
  ASSUME InputAssumption, SpaceAssumption, NEW C \in SUBSET Callouts, NEW q \in C,
         NEW D \in SUBSET (C \ {q})
  PROVE  LET n == Frame(RoundPg(q.size + Off(q.paddr)))
         IN  n \in Nat /\ Cardinality(CalloutPages(D)) + n <= Cardinality(CalloutPages(C))
<1> DEFINE m == q.size + Off(q.paddr)
           n == Frame(RoundPg(m))
           P == PagesOf(0, m)
           X == CalloutPages(D)
           Y == {q} \X P
<1>1. m \in Nat
  <2>1. q.size \in Nat /\ q.paddr \in Int
    BY DEF InputAssumption
  <2>2. PageSize \in Nat \ {0} /\ Off(q.paddr) \in 0 .. PageSize - 1
    BY <2>1, Geometry, Address
  <2> QED BY <2>1, <2>2
<1> HIDE DEF m
<1>2. n \in Nat /\ IsFiniteSet(P) /\ Cardinality(P) = n
  BY <1>1, WholeCount
<1>3. IsFiniteSet({q}) /\ Cardinality({q}) = 1
  BY FS_Singleton
<1> HIDE DEF P, n
<1>4. IsFiniteSet(Y) /\ Cardinality(Y) = n
  <2>1. IsFiniteSet(Y) /\ Cardinality(Y) = Cardinality({q}) * Cardinality(P)
    BY <1>2, <1>3, FS_Product
  <2> HIDE DEF Y
  <2> QED BY <1>2, <1>3, <2>1
<1>5. /\ IsFiniteSet(CalloutPages(C)) /\ Cardinality(CalloutPages(C)) \in Nat
      /\ Cardinality(X) \in Nat /\ IsFiniteSet(X)
  <2>1. D \in SUBSET C /\ D \in SUBSET Callouts
    OBVIOUS
  <2> QED BY <2>1, CalloutCount
<1>6. X \cap Y = {}
  <2> SUFFICES ASSUME NEW z, z \in X, z \in Y PROVE FALSE
    OBVIOUS
  <2>1. PICK r \in D : z \in {r} \X PagesOf(0, r.size + Off(r.paddr))
    BY DEF CalloutPages
  <2>2. z[1] = r /\ z[1] = q
    BY <2>1
  <2> QED BY <2>2
<1>7. X \cup Y \in SUBSET CalloutPages(C)
  <2>1. X \subseteq CalloutPages(C)
    BY DEF CalloutPages
  <2>2. Y \subseteq CalloutPages(C)
    BY DEF CalloutPages, P, m
  <2> QED BY <2>1, <2>2
<1> HIDE DEF X, Y
<1>8. IsFiniteSet(X \cup Y) /\ Cardinality(X \cup Y) = Cardinality(X) + Cardinality(Y) - Cardinality({})
  BY <1>4, <1>5, <1>6, FS_Union
<1>9. Cardinality({}) = 0
  BY FS_EmptySet
<1>10. Cardinality(X \cup Y) <= Cardinality(CalloutPages(C))
  BY <1>5, <1>7, FS_Subset
<1>11. Cardinality(X \cup Y) = Cardinality(X) + n
  BY <1>2, <1>4, <1>5, <1>8, <1>9
<1> QED BY <1>2, <1>5, <1>10, <1>11 DEF n, m, X

\* The number of automatic addresses is that of the pages to come.
LEMMA AutoIs ==
  ASSUME SpaceAssumption
  PROVE  /\ SysPages \in Nat /\ Cardinality(CalloutPages(Callouts)) \in Nat
         /\ AutoCount = 1 + 2 * SysPages + Cardinality(CalloutPages(Callouts)) /\ AutoCount \in Nat
<1>1. SyspageSize \in Nat
  BY GeometryAssumption
<1>2. Cardinality(PagesOf(0, SyspageSize)) = SysPages /\ SysPages \in Nat
  BY <1>1, WholeCount DEF SysPages
<1>3. Cardinality(CalloutPages(Callouts)) \in Nat
  BY CalloutCount
<1> QED BY <1>2, <1>3 DEF AutoCount

\* What CountInv adds up are numbers.
LEMMA CountTypes ==
  ASSUME StateInv, SpaceAssumption
  PROVE  /\ Frame(free_vaddr) \in Int /\ \A i : Due(i) \in Nat
         /\ SysPages \in Nat /\ ToCome \in Nat /\ Cardinality(CalloutPages(Wanted)) \in Nat
         /\ ToCome >= Cardinality(CalloutPages(Wanted))
<1>1. Frame(free_vaddr) \in Int
  <2>1. free_vaddr \in Int
    BY DEF StateInv
  <2> QED BY <2>1, Address
<1>2. ASSUME NEW i PROVE Due(i) \in Nat
  <2> SUFFICES ASSUME i \in DOMAIN todo PROVE Frame(Size(todo[i])) \in Nat
    BY DEF Due
  <2>1. todo \in Seq(CallSet)
    BY DEF StateInv
  <2>2. todo[i] \in CallSet
    BY <2>1
  <2>3. todo[i].paddr \in Nat /\ todo[i].size \in Nat
    BY <2>2 DEF CallSet
  <2> QED BY <2>3, CallSize
<1>3. SysPages \in Nat
  BY AutoIs
<1>4. Cardinality(CalloutPages(Wanted)) \in Nat
  <2>1. Wanted \in SUBSET Callouts
    BY DEF Wanted
  <2> QED BY <2>1, CalloutCount
<1> HIDE DEF SysPages
<1>5. ToCome \in Nat /\ ToCome >= Cardinality(CalloutPages(Wanted))
  BY <1>3, <1>4 DEF ToCome
<1> QED BY <1>1, <1>2, <1>3, <1>4, <1>5

\* So far they are within what there is.
LEMMA AutoSoFar ==
  ASSUME StateInv, SpaceAssumption, CountInv
  PROVE  BasePage .. Frame(free_vaddr) - 1 \subseteq AutoPages
<1>1. Frame(free_vaddr) \in Int /\ Due(1) \in Nat /\ Due(2) \in Nat /\ ToCome \in Nat
  BY CountTypes
<1>2. BasePage \in Nat /\ AutoCount \in Nat
  BY Geometry, AutoIs
<1>3. Frame(free_vaddr) <= BasePage + AutoCount
  BY <1>1, <1>2 DEF CountInv
<1> QED BY <1>1, <1>2, <1>3 DEF AutoPages

\* What is taken stays taken.
LEMMA TakenStays ==
  ASSUME file' = file, k \in Int, Frame(free_vaddr) \in Int, Frame(free_vaddr)' \in Int,
         Frame(free_vaddr) <= Frame(free_vaddr)',
         \/ k' = k /\ (half => half')
         \/ k' = k + 1
  PROVE  \A p : Taken(p) => Taken(p)'
<1> SUFFICES ASSUME NEW p, Taken(p) PROVE Taken(p)'
  OBVIOUS
<1>1. CASE p \in StartupPages
  BY <1>1 DEF Taken
<1>2. CASE p \in BasePage .. Frame(free_vaddr) - 1
  <2>1. BasePage \in Nat
    BY Geometry
  <2>2. p \in BasePage .. Frame(free_vaddr)' - 1
    BY <1>2, <2>1
  <2> QED BY <2>2 DEF Taken
<1>3. ASSUME NEW s \in 1 .. Len(file), p \in SegmentPages(file[s]),
             s < k \/ (half /\ s = k /\ p < Frame(Seg.vaddr) + Frame(InPlace))
      PROVE  Taken(p)'
  <2>1. CASE k' = k /\ (half => half')
    <3>1. Seg' = Seg /\ InPlace' = InPlace
      BY <2>1 DEF Seg, InPlace, Filesz, Whole, Lead, TruncPg, RoundPg, Off
    <3>2. s < k' \/ (half' /\ s = k' /\ p < Frame(Seg'.vaddr) + Frame(InPlace'))
      BY <1>3, <2>1, <3>1
    <3> QED BY <1>3, <3>2 DEF Taken, Frame
  <2>2. CASE k' = k + 1
    <3>1. s < k'
      BY <1>3, <2>2
    <3> QED BY <1>3, <3>1 DEF Taken
  <2> QED BY <2>1, <2>2
<1> QED BY <1>1, <1>2, <1>3 DEF Taken

\* An automatic address that is not taken, and a segment's pages.
LEMMA AutoTaken ==
  ASSUME SpaceAssumption, file \in Files, file \in Seq(Header), NEW p \in AutoPages, Taken(p)
  PROVE  p <= Frame(free_vaddr) - 1
<1>1. p \notin StartupPages /\ \A s \in DOMAIN file : p \notin SegmentPages(file[s])
  BY AutoApart
<1>2. DOMAIN file = 1 .. Len(file)
  OBVIOUS
<1> QED BY <1>1, <1>2 DEF Taken

\* A page of a segment that load_elf64mmu() has not come to is not taken.
LEMMA SegmentTaken ==
  ASSUME StateInv, InputAssumption, SpaceAssumption, CountInv, k \in 1 .. Len(file),
         NEW p \in SegmentPages(Seg), Taken(p)
  PROVE  half /\ p < Frame(Seg.vaddr) + Frame(InPlace)
<1>1. file \in Files /\ file \in Seq(Header)
  BY DEF StateInv, InputAssumption
<1>2. DOMAIN file = 1 .. Len(file) /\ Len(file) \in Nat /\ k \in DOMAIN file /\ Seg = file[k]
  BY <1>1 DEF Seg
<1>3. /\ p \notin StartupPages /\ p \notin AutoPages
      /\ \A t \in DOMAIN file : k # t => p \notin SegmentPages(file[t])
  BY <1>1, <1>2, SegmentApart
<1>4. p \notin BasePage .. Frame(free_vaddr) - 1
  BY <1>3, AutoSoFar
<1>5. PICK s \in 1 .. Len(file) : /\ p \in SegmentPages(file[s])
                                  /\ s < k \/ (half /\ s = k /\ p < Frame(Seg.vaddr) + Frame(InPlace))
  BY <1>3, <1>4 DEF Taken
<1>6. s = k
  BY <1>2, <1>3, <1>5
<1>7. ~ (s < k)
  BY <1>2, <1>6
<1> QED BY <1>5, <1>7

\* A whole number of pages need not be rounded.
LEMMA WholeRound ==
  ASSUME NEW n \in Int
  PROVE  RoundPg(PageSize * n) = PageSize * n
<1> DEFINE z == PageSize * n + (PageSize - 1)
<1>1. PageSize \in Nat \ {0} /\ PageSize * n \in Int
  BY Geometry, WholePages
<1>2. PageSize - 1 \in 0 .. PageSize - 1 /\ z \in Int
  BY <1>1
<1>3. Frame(z) = n
  BY <1>2, PageNumber
<1>4. TruncPg(z) = PageSize * Frame(z)
  BY <1>2, Address, Zenon
<1>5. PageSize * n + PageSize - 1 = z
  BY <1>1
<1> HIDE DEF z
<1> QED BY <1>3, <1>4, <1>5 DEF RoundPg

\* A free page that is not mapped stays free.
LEMMA FreeStays ==
  ASSUME UNCHANGED <<large, file>>, k \in Int, Frame(free_vaddr) \in Int, Frame(free_vaddr)' \in Int,
         Frame(free_vaddr) <= Frame(free_vaddr)',
         \/ k' = k /\ (half => half')
         \/ k' = k + 1
  PROVE  \A p : /\ Taken(p) => Taken(p)'
                /\ Free(p) /\ p \notin DOMAIN mapped' => Free(p)'
<1>1. \A p : Taken(p) => Taken(p)'
  BY TakenStays
<1>2. \A p : Window(p)' <=> Window(p)
  BY DEF Window, L1Idx, L2Idx, NPte
<1> QED BY <1>1, <1>2 DEF Free

\* The invariants of the next state, in terms of its variables.
LEMMA PendingIs ==
  ASSUME Len(todo') <= 2,
         \A i \in DOMAIN todo' : todo'[i].vaddr # Anywhere =>
           /\ i = Len(todo')
           /\ ~ Entered(i)' => \A p \in CallPages(todo'[i]) : Free(p)' /\ p \notin AutoPages
  PROVE  PendingInv'
<1>1. AutoPages' = AutoPages /\ Anywhere' = Anywhere
  BY DEF AutoPages, AutoCount, CalloutPages, PagesOf, Frame, Off, Anywhere
<1> QED BY <1>1 DEF PendingInv, CallPages, Size, Frame, Off, RoundPg, TruncPg

\* The count of the automatic pages likewise.
LEMMA CountIs ==
  ASSUME Frame(free_vaddr') + Due(1)' + Due(2)' + ToCome' <= BasePage + AutoCount
  PROVE  CountInv'
<1>1. AutoCount' = AutoCount
  BY DEF AutoCount, CalloutPages, PagesOf, Frame, Off
<1> QED BY <1>1 DEF CountInv, Frame

\* The first calls are for the L0 tables and for startup itself.
LEMMA AreaBegin == IInv /\ InputAssumption /\ SpaceAssumption /\ AarchMapInit => AreaInv'
<1> SUFFICES ASSUME IInv, InputAssumption, SpaceAssumption, AarchMapInit PROVE AreaInv'
  OBVIOUS
<1> DEFINE t0 == Lowest(free)
           t1 == Lowest(free \ {t0})
           t2 == Lowest(free \ {t0, t1})
           l0 == Lowest(free \ (IF large THEN {t0, t1} ELSE {t0, t1, t2}))
           start == TruncPg(Startup[1])
           stop == RoundPg(Startup[1] + Startup[2])
           c == Call(Anywhere, l0 * PageSize, PageSize, {"w"})
           d == Call(start, start, stop - start, {"w", "x"})
<1>1. /\ pc = "init_mmu" /\ pc' = "map" /\ free_vaddr' = Base /\ todo' = <<c, d>>
      /\ ~ NoFirstTables /\ UNCHANGED <<large, file, k, half, asked, mapped>>
  BY DEF AarchMapInit, confVars, elfVars, histVars
<1>2. StateInv /\ FramesInv /\ StartInv
  BY <1>1 DEF IInv, Running, StateInv
<1>3. PageSize \in Nat \ {0} /\ BasePage \in Nat /\ UserPages \in Nat \ {0} /\ UserPages <= BasePage
  BY Geometry
<1>4. l0 \in Nat
  <2>1. free \in SUBSET Nat /\ t0 \in free
    <3>1. free \in SUBSET Nat
      BY <1>2 DEF FramesInv, InputAssumption, Ram
    <3>2. ~ Cardinality(free) < IF large THEN 3 ELSE 4
      BY <1>1 DEF NoFirstTables
    <3>3. Cardinality(free) \in Nat
      <4>1. free \subseteq 0 .. UserPages - 1
        BY <1>2 DEF StartInv, InputAssumption
      <4>2. IsFiniteSet(0 .. UserPages - 1)
        BY <1>3, FS_Interval
      <4>3. IsFiniteSet(free)
        BY <4>1, <4>2, FS_Subset
      <4> QED BY <4>3, FS_CardinalityType
    <3>4. ~ Cardinality(free) < 1
      BY <3>2, <3>3
    <3>5. free # {}
      BY <3>4, OneLeft
    <3> QED BY <3>1, <3>5, LowestIn
  <2>2. free \ (IF large THEN {t0, t1} ELSE {t0, t1, t2}) # {}
    <3>1. CASE large
      BY <1>1, <3>1, OneLeft DEF NoFirstTables
    <3>2. CASE ~ large
      BY <1>1, <3>2, OneLeft DEF NoFirstTables
    <3> QED BY <3>1, <3>2
  <2> DEFINE S == free \ (IF large THEN {t0, t1} ELSE {t0, t1, t2})
  <2>3. S \in SUBSET Nat
    BY <2>1
  <2>4. Lowest(S) \in S
    BY <2>2, <2>3, LowestIn
  <2> QED BY <2>3, <2>4
<1>5. Frame(Size(c)) = 1 /\ c.vaddr = Anywhere
  <2> HIDE DEF l0
  <2>1. l0 * PageSize = PageSize * l0 /\ l0 \in Int /\ l0 * PageSize \in Nat
    BY <1>3, <1>4, SMT
  <2>2. (l0 * PageSize) % PageSize = 0
    BY <2>1, WholePages
  <2>3. c.paddr = l0 * PageSize /\ c.size = PageSize /\ c.vaddr = Anywhere
    BY DEF Call
  <2> HIDE DEF c
  <2>4. Size(c) = RoundPg(PageSize)
    BY <1>3, <2>1, <2>2, <2>3, CallSize
  <2>5. PageSize * 1 = PageSize
    BY <1>3
  <2>6. RoundPg(PageSize) = PageSize /\ Frame(PageSize) = 1
    BY <2>5, WholeRound, WholePages
  <2> QED BY <2>3, <2>4, <2>6
<1>6. d.vaddr # Anywhere /\ CallPages(d) = StartupPages
  <2> DEFINE a == Startup[1]
             b == a + Startup[2]
             f == Frame(a)
             g == Frame(b + PageSize - 1)
  <2>1. a \in Nat /\ b \in Nat /\ a <= b
    BY DEF InputAssumption
  <2>2. start = PageSize * f /\ f \in Nat /\ start <= a
    BY <2>1, Address
  <2>3. stop = PageSize * g /\ g \in Nat /\ b <= stop
    <3>1. stop = PageSize * Frame(stop) /\ b <= stop
      BY <2>1, Rounded
    <3>2. Frame(stop) = g /\ Frame(stop) \in Nat
      BY <2>1, WholeCount
    <3> QED BY <3>1, <3>2
  <2> HIDE DEF a, b, f, g, start, stop
  <2>4. start \in Nat /\ stop \in Nat /\ start <= stop
    <3>1. start \in Int /\ stop \in Int /\ start >= 0
      BY <2>2, <2>3, WholePages
    <3> QED BY <2>1, <2>2, <2>3, <3>1
  <2>5. f <= g
    BY <2>2, <2>3, <2>4, PageOrder
  <2>6. stop - start = PageSize * (g - f) /\ stop - start \in Nat
    <3>1. PageSize * (g - f) = PageSize * g - PageSize * f
      BY <1>3, <2>2, <2>3, SMT
    <3> QED BY <2>2, <2>3, <2>4, <3>1
  <2>7. start % PageSize = 0 /\ Frame(start) = f
    BY <2>2, WholePages
  <2>8. d.vaddr = start /\ d.paddr = start /\ d.size = stop - start
    BY DEF Call
  <2> HIDE DEF d
  <2>9. Size(d) = RoundPg(stop - start)
    BY <2>4, <2>6, <2>7, <2>8, CallSize
  <2>10. g - f \in Int
    BY <2>2, <2>3
  <2>11. Size(d) = PageSize * (g - f) /\ Frame(Size(d)) = g - f
    BY <2>6, <2>9, <2>10, WholeRound, WholePages
  <2>12. CallPages(d) = f .. f + (g - f) - 1
    BY <2>7, <2>8, <2>11 DEF CallPages
  <2>13. CallPages(d) = f .. g - 1
    BY <2>2, <2>3, <2>12
  <2>14. d.vaddr # Anywhere
    BY <2>4, <2>8 DEF Anywhere
  <2> QED BY <2>13, <2>14 DEF StartupPages, PagesOf, f, g, a, b
<1> HIDE DEF c, d
<1>7. DOMAIN mapped = {} /\ asked = {}
  BY <1>2 DEF StartInv
<1>8. Frame(free_vaddr') = BasePage
  <2>1. Base = PageSize * BasePage /\ BasePage \in Int
    BY <1>3, SMT DEF Base
  <2> QED BY <1>1, <2>1, WholePages
<1>9. PendingInv'
  <2>1. \A p \in StartupPages : Free(p)' /\ p \notin AutoPages
    <3> SUFFICES ASSUME NEW p \in StartupPages PROVE Free(p)' /\ p \notin AutoPages
      OBVIOUS
    <3>1. p < UserPages /\ p \in Int
      <4>1. p < UserPages
        BY DEF SpaceAssumption
      <4>2. p \in Int
        BY DEF StartupPages, PagesOf
      <4> QED BY <4>1, <4>2
    <3>2. p \notin AutoPages
      BY <1>3, <3>1 DEF AutoPages
    <3>3. Taken(p)' /\ ~ Window(p)' /\ p < 2 * UserPages
      BY <1>3, <3>1 DEF Taken, Window
    <3> QED BY <1>1, <1>7, <3>2, <3>3 DEF Free
  <2>2. Len(todo') = 2 /\ DOMAIN todo' = {1, 2} /\ todo'[1] = c /\ todo'[2] = d
    BY <1>1
  <2>3. \A i \in DOMAIN todo' : todo'[i].vaddr # Anywhere =>
          i = Len(todo') /\ \A p \in CallPages(todo'[i]) : Free(p)' /\ p \notin AutoPages
    BY <1>5, <1>6, <2>1, <2>2
  <2> QED BY <2>2, <2>3, PendingIs
<1>10. CountInv'
  <2>1. Due(1)' = 1 /\ Due(2)' = 0
    BY <1>1, <1>5, <1>6 DEF Due, Entered, Size, Frame, Off, RoundPg, TruncPg, Anywhere
  <2> DEFINE W == Cardinality(CalloutPages(Wanted'))
             X == Cardinality(CalloutPages(Callouts))
  <2>2. W \in Nat /\ X \in Nat /\ W <= X
    <3>1. Wanted' \in SUBSET Callouts
      BY DEF Wanted
    <3> QED BY <3>1, CalloutCount
  <2>3. SysPages \in Nat /\ AutoCount = 1 + 2 * SysPages + X
    BY AutoIs
  <2>4. ToCome' = (IF k <= Len(file) + 1 THEN 2 * SysPages ELSE 0) + W
    BY <1>1 DEF ToCome, SysPages, Frame, RoundPg, TruncPg, CalloutPages, PagesOf, Off
  <2> HIDE DEF W, X
  <2>5. 1 + ToCome' <= AutoCount
    BY <2>2, <2>3, <2>4
  <2>6. ToCome' \in Int
    BY <2>2, <2>3, <2>4
  <2>7. Frame(free_vaddr') + Due(1)' + Due(2)' + ToCome' <= BasePage + AutoCount
    BY <1>3, <1>8, <2>1, <2>3, <2>5, <2>6
  <2> QED BY <2>7, CountIs
<1>11. CurrentInv'
  BY <1>1 DEF CurrentInv
<1>12. BasePage <= Frame(free_vaddr')
  BY <1>3, <1>8
<1> QED BY <1>1, <1>7, <1>9, <1>10, <1>11, <1>12 DEF AreaInv, Frame

\* What call i is still to have, in terms of the next state's variables,
LEMMA DueIs ==
  ASSUME NEW i \in Nat
  PROVE  Due(i)' = IF i \in DOMAIN todo' /\ todo'[i].vaddr = Anywhere /\ ~ Entered(i)'
                   THEN Frame(Size(todo'[i])) ELSE 0
BY DEF Due, Entered, Anywhere, Size, Frame, Off, RoundPg, TruncPg

\* and what those who have not asked yet will have.
LEMMA ToComeIs ==
  ToCome' = (IF k' <= Len(file') + 1 THEN 2 * SysPages ELSE 0) + Cardinality(CalloutPages(Wanted'))
BY DEF ToCome, SysPages, Frame, RoundPg, TruncPg, CalloutPages, PagesOf, Off

\* A call's area begins at its address, or at the first automatic one that
\* is left.
LEMMA AreaEnter == IInv /\ AreaInv /\ InputAssumption /\ SpaceAssumption /\ MapEnter => AreaInv'
<1> SUFFICES ASSUME IInv, AreaInv, InputAssumption, SpaceAssumption, MapEnter, pc' \in {"map", "loop"}
             PROVE AreaInv'
  BY DEF AreaInv
<1> DEFINE c == Head(todo)
           s == Size(c)
<1>1. /\ pc = "map" /\ todo # << >> /\ pc' = "loop"
      /\ va' = TruncPg(Vaddr(c)) /\ end' = va' + s /\ free_vaddr' = NextFree(c)
      /\ UNCHANGED <<large, file, todo, k, half, asked, mapped>>
  BY DEF MapEnter, confVars, elfVars, histVars
<1>2. StateInv /\ file \in Files /\ k \in Int /\ free_vaddr \in Nat /\ free_vaddr % PageSize = 0
  BY <1>1 DEF IInv, StateInv
<1>3. /\ \A p \in DOMAIN mapped : Taken(p)
      /\ BasePage <= Frame(free_vaddr) /\ PendingInv /\ CountInv
  BY <1>1 DEF AreaInv
<1>4. todo \in Seq(CallSet) /\ c \in CallSet /\ todo[1] = c /\ 1 \in DOMAIN todo
  <2>1. todo \in Seq(CallSet)
    BY <1>2 DEF StateInv
  <2>2. todo[1] = c /\ 1 \in DOMAIN todo
    BY <1>1, <2>1
  <2> QED BY <1>1, <2>1, <2>2, Front
<1>5. c.paddr \in Nat /\ c.size \in Nat /\ (c.vaddr # Anywhere => c.vaddr \in Nat)
  BY <1>4 DEF CallSet
<1>6. s = PageSize * Frame(s) /\ Frame(s) \in Nat
  BY <1>5, CallSize
<1>7. PageSize \in Nat \ {0} /\ BasePage \in Nat
  BY Geometry
<1>8. Frame(free_vaddr) \in Int /\ free_vaddr = PageSize * Frame(free_vaddr)
  BY <1>2, Address
<1> HIDE DEF c, s
<1>9. \E f \in Int :
        /\ Frame(va') = f /\ Frame(end') = f + Frame(s)
        /\ IF c.vaddr = Anywhere
           THEN f = Frame(free_vaddr) /\ Frame(free_vaddr') = f + Frame(s)
           ELSE f = Frame(c.vaddr) /\ free_vaddr' = free_vaddr
  <2> DEFINE w == IF c.vaddr = Anywhere THEN free_vaddr ELSE c.vaddr
             f == Frame(w)
  <2>1. w \in Nat /\ w \in Int /\ Vaddr(c) = w
    BY <1>2, <1>5 DEF Vaddr
  <2>2. f \in Int /\ TruncPg(w) = PageSize * f
    BY <2>1, Address
  <2>3. va' = PageSize * f
    BY <1>1, <2>1, <2>2
  <2>4. end' = PageSize * f + PageSize * Frame(s)
    BY <1>1, <1>6, <2>3
  <2> HIDE DEF f
  <2>5. end' = PageSize * (f + Frame(s)) /\ f + Frame(s) \in Int
    BY <1>6, <1>7, <2>2, <2>4, SMT
  <2>6. Frame(va') = f /\ Frame(end') = f + Frame(s)
    BY <2>2, <2>3, <2>5, WholePages
  <2>7. CASE c.vaddr = Anywhere
    <3>1. free_vaddr' = free_vaddr + s
      BY <1>1, <2>7 DEF NextFree, s
    <3>2. f = Frame(free_vaddr)
      BY <2>7 DEF f
    <3>3. free_vaddr' = end'
      BY <1>6, <1>8, <2>4, <3>1, <3>2
    <3> QED BY <2>2, <2>6, <2>7, <3>2, <3>3
  <2>8. CASE c.vaddr # Anywhere
    <3>1. free_vaddr' = free_vaddr
      BY <1>1, <2>8 DEF NextFree
    <3>2. f = Frame(c.vaddr)
      BY <2>8 DEF f
    <3> QED BY <2>2, <2>6, <2>8, <3>1, <3>2
  <2> QED BY <2>7, <2>8
<1>10. PICK f \in Int :
         /\ Frame(va') = f /\ Frame(end') = f + Frame(s)
         /\ IF c.vaddr = Anywhere
            THEN f = Frame(free_vaddr) /\ Frame(free_vaddr') = f + Frame(s)
            ELSE f = Frame(c.vaddr) /\ free_vaddr' = free_vaddr
  BY <1>9
<1>11. Frame(free_vaddr') \in Int /\ Frame(free_vaddr) <= Frame(free_vaddr') /\ Frame(free_vaddr)' = Frame(free_vaddr')
  <2>1. Frame(free_vaddr)' = Frame(free_vaddr')
    BY DEF Frame
  <2> QED BY <1>6, <1>8, <1>10, <2>1
<1>12. \A p : /\ Taken(p) => Taken(p)'
              /\ Free(p) /\ p \notin DOMAIN mapped' => Free(p)'
  BY <1>1, <1>2, <1>8, <1>11, FreeStays
<1>13. Entered(1)' /\ ~ Entered(1) /\ \A i : i # 1 => ~ Entered(i)' /\ ~ Entered(i)
  BY <1>1 DEF Entered
<1>14. CountInv'
  <2>1. Due(1)' = 0 /\ Due(2)' = Due(2)
    BY <1>1, <1>13, DueIs DEF Due
  <2>2. Due(1) = IF c.vaddr = Anywhere THEN Frame(s) ELSE 0
    BY <1>4, <1>13 DEF Due, s
  <2>3. ToCome' = ToCome
    <3>1. Wanted' = Wanted
      BY <1>1 DEF Wanted, Anywhere
    <3>2. ToCome' = (IF k' <= Len(file') + 1 THEN 2 * SysPages ELSE 0) + Cardinality(CalloutPages(Wanted'))
      BY ToComeIs
    <3> QED BY <1>1, <3>1, <3>2 DEF ToCome
  <2>4. ToCome \in Nat /\ Due(2) \in Nat /\ AutoCount \in Nat
    BY <1>2, CountTypes, AutoIs
  <2>5. Frame(free_vaddr') + Due(1)' + Due(2)' + ToCome' <= BasePage + AutoCount
    BY <1>3, <1>6, <1>7, <1>8, <1>10, <2>1, <2>2, <2>3, <2>4 DEF CountInv
  <2> QED BY <2>5, CountIs
<1>15. PendingInv'
  <2>1. \A i \in DOMAIN todo : todo[i].vaddr # Anywhere =>
          /\ i = Len(todo)
          /\ ~ Entered(i)' => \A p \in CallPages(todo[i]) : Free(p)' /\ p \notin AutoPages
    <3> SUFFICES ASSUME NEW i \in DOMAIN todo, todo[i].vaddr # Anywhere
                 PROVE  /\ i = Len(todo)
                        /\ ~ Entered(i)' => \A p \in CallPages(todo[i]) : Free(p)' /\ p \notin AutoPages
      OBVIOUS
    <3>1. i = Len(todo)
      BY <1>3 DEF PendingInv
    <3>2. ASSUME ~ Entered(i)', NEW p \in CallPages(todo[i])
          PROVE  Free(p)' /\ p \notin AutoPages
      <4>1. ~ Entered(i)
        BY <1>13, <3>2
      <4>2. Free(p) /\ p \notin AutoPages
        BY <1>3, <3>2, <4>1 DEF PendingInv
      <4>3. p \notin DOMAIN mapped'
        BY <1>1, <4>2 DEF Free
      <4> QED BY <1>12, <4>2, <4>3
    <3> QED BY <3>1, <3>2
  <2> QED BY <1>1, <1>3, <2>1, PendingIs DEF PendingInv
<1>16. \A p \in f .. f + Frame(s) - 1 : Free(p)' /\ (c.vaddr = Anywhere => p \in AutoPages)
  <2> SUFFICES ASSUME NEW p \in f .. f + Frame(s) - 1
               PROVE  Free(p)' /\ (c.vaddr = Anywhere => p \in AutoPages)
    OBVIOUS
  <2>0. p \in Int /\ f <= p /\ p < f + Frame(s)
    BY <1>6
  <2>1. CASE c.vaddr = Anywhere
    <3>1. Due(1) = Frame(s)
      BY <1>4, <1>13, <2>1 DEF Due, s
    <3>2. ToCome \in Nat /\ Due(2) \in Nat /\ AutoCount \in Nat
      BY <1>2, CountTypes, AutoIs
    <3>3. f + Frame(s) <= BasePage + AutoCount
      <4>1. f + Due(1) + Due(2) + ToCome <= BasePage + AutoCount
        BY <1>3, <1>10, <2>1 DEF CountInv
      <4> QED BY <1>6, <1>7, <3>1, <3>2, <4>1
    <3>4. p \in AutoPages
      BY <1>3, <1>6, <1>7, <1>10, <2>0, <2>1, <3>2, <3>3 DEF AutoPages
    <3>5. p < 2 * UserPages /\ ~ Window(p)
      BY <1>2, <3>4, AutoApart
    <3>6. ~ Taken(p)
      <4>1. file \in Seq(Header)
        BY <1>2 DEF InputAssumption
      <4>2. Taken(p) => p <= Frame(free_vaddr) - 1
        BY <1>2, <3>4, <4>1, AutoTaken
      <4> QED BY <1>8, <1>10, <2>0, <2>1, <4>2
    <3>7. p \notin DOMAIN mapped
      BY <1>3, <3>6
    <3>8. Taken(p)'
      <4>1. p \in BasePage .. Frame(free_vaddr') - 1
        BY <1>3, <1>6, <1>7, <1>10, <2>0, <2>1
      <4> QED BY <4>1 DEF Taken, Frame
    <3>9. ~ Window(p)'
      BY <1>1, <3>5 DEF Window, L1Idx, L2Idx, NPte
    <3> QED BY <1>1, <3>4, <3>5, <3>7, <3>8, <3>9 DEF Free
  <2>2. CASE c.vaddr # Anywhere
    <3>1. p \in CallPages(c)
      BY <1>10, <2>2 DEF CallPages, s
    <3>2. Free(p)
      BY <1>3, <1>4, <1>13, <2>2, <3>1 DEF PendingInv
    <3> QED BY <1>1, <1>12, <2>2, <3>2 DEF Free
  <2> QED BY <2>1, <2>2
<1>17. CurrentInv'
  <2>1. AutoPages' = AutoPages /\ Head(todo') = c
    BY <1>1 DEF AutoPages, AutoCount, CalloutPages, PagesOf, Frame, Off, c
  <2>2. \A p \in Frame(va') .. Frame(end') - 1 :
          Free(p)' /\ (Head(todo').vaddr = Anywhere => p \in AutoPages)
    BY <1>6, <1>10, <1>16, <2>1
  <2> QED BY <2>1, <2>2 DEF CurrentInv, Frame, Anywhere
<1>18. BasePage <= Frame(free_vaddr')
  BY <1>3, <1>7, <1>8, <1>11
<1> QED BY <1>1, <1>3, <1>11, <1>12, <1>14, <1>15, <1>17, <1>18 DEF AreaInv

\* So the contract of aarch64_map() is kept.
LEMMA AreaIsApart == AreaInv => AreasApart
BY DEF AreaInv, CurrentInv, Free, AreasApart

\* A group is a part of the area, and the rest of it stays free.
LEMMA AreaGroup ==
  IInv /\ AreaInv /\ InputAssumption /\ SpaceAssumption /\ MapGroup => AreaInv'
<1> SUFFICES ASSUME IInv, AreaInv, InputAssumption, SpaceAssumption, MapGroup PROVE AreaInv'
  OBVIOUS
<1> DEFINE p == Frame(va)
           n == IF UseContig THEN ContigPages ELSE 1
           e == Frame(end)
<1>1. /\ pc = "loop" /\ pc' = pc /\ va' = va + n * PageSize
      /\ DOMAIN mapped' = DOMAIN mapped \cup Run(p, n)
      /\ UNCHANGED <<large, file, free_vaddr, todo, end, k, half, asked>>
  BY DEF MapGroup, confVars, elfVars
<1>2. StateInv /\ k \in Int /\ free_vaddr \in Nat
  BY DEF IInv, StateInv
<1>3. AreasApart
  BY AreaIsApart
<1>4. /\ n \in Nat \ {0} /\ p \in Int /\ va = PageSize * p /\ end = PageSize * e
      /\ p + n <= e /\ e \in Int
  BY <1>3, AreaPages
<1>5. /\ \A q \in DOMAIN mapped : Taken(q)
      /\ BasePage <= Frame(free_vaddr) /\ PendingInv /\ CurrentInv /\ CountInv
  BY <1>1 DEF AreaInv
<1>6. Frame(free_vaddr) \in Int /\ Frame(free_vaddr)' = Frame(free_vaddr)
  BY <1>1, <1>2, Address DEF Frame
<1>7. \A q : /\ Taken(q) => Taken(q)'
             /\ Free(q) /\ q \notin DOMAIN mapped' => Free(q)'
  BY <1>1, <1>2, <1>6, FreeStays
<1> HIDE DEF p, n, e
<1>8. \A q \in Run(p, n) : q \in p .. e - 1
  BY <1>4 DEF Run
<1>9. \A q \in DOMAIN mapped' : Taken(q)'
  <2> SUFFICES ASSUME NEW q \in DOMAIN mapped' PROVE Taken(q)
    BY <1>7
  <2>1. CASE q \in DOMAIN mapped
    BY <1>5, <2>1
  <2>2. CASE q \in Run(p, n)
    BY <1>1, <1>5, <1>8, <2>2 DEF CurrentInv, Free, p, e
  <2> QED BY <1>1, <2>1, <2>2
<1>10. todo # << >> /\ todo \in Seq(CallSet) /\ 1 \in DOMAIN todo /\ todo[1] = Head(todo)
  <2>1. todo # << >> /\ todo \in Seq(CallSet)
    BY <1>1, <1>2 DEF IInv, LoopInv, Running, StateInv
  <2> QED BY <2>1
<1>11. PendingInv'
  <2>1. ASSUME NEW i \in DOMAIN todo, todo[i].vaddr # Anywhere
        PROVE  i = Len(todo) /\ (~ Entered(i)' => \A q \in CallPages(todo[i]) : Free(q)' /\ q \notin AutoPages)
    <3>1. i = Len(todo)
      BY <1>5, <2>1 DEF PendingInv
    <3>2. ASSUME ~ Entered(i)', NEW q \in CallPages(todo[i])
          PROVE  Free(q)' /\ q \notin AutoPages
      <4>1. i # 1 /\ ~ Entered(i)
        BY <1>1, <3>2 DEF Entered
      <4>2. Free(q) /\ q \notin AutoPages
        BY <1>5, <2>1, <3>2, <4>1 DEF PendingInv
      <4>3. Head(todo).vaddr = Anywhere
        <5>1. 1 # Len(todo)
          BY <3>1, <4>1
        <5> QED BY <1>5, <1>10, <5>1 DEF PendingInv
      <4>4. q \notin Run(p, n)
        BY <1>1, <1>5, <1>8, <4>2, <4>3 DEF CurrentInv, p, e
      <4>5. q \notin DOMAIN mapped'
        BY <1>1, <4>2, <4>4 DEF Free
      <4> QED BY <1>7, <4>2, <4>5
    <3> QED BY <3>1, <3>2
  <2> QED BY <1>1, <1>5, <2>1, PendingIs DEF PendingInv
<1>12. CurrentInv'
  <2>1. va' = PageSize * (p + n) /\ p + n \in Int
    <3>1. PageSize \in Nat \ {0}
      BY Geometry
    <3> QED BY <1>1, <1>4, <3>1, SMT
  <2>2. Frame(va') = p + n
    BY <2>1, WholePages
  <2>3. ASSUME NEW q \in p + n .. e - 1
        PROVE  Free(q)' /\ (Head(todo).vaddr = Anywhere => q \in AutoPages)
    <3>1. q \in p .. e - 1 /\ q \notin Run(p, n)
      BY <1>4, <2>3 DEF Run
    <3>2. Free(q) /\ (Head(todo).vaddr = Anywhere => q \in AutoPages)
      BY <1>1, <1>5, <3>1 DEF CurrentInv, p, e
    <3>3. q \notin DOMAIN mapped'
      BY <1>1, <3>1, <3>2 DEF Free
    <3> QED BY <1>7, <3>2, <3>3
  <2>4. AutoPages' = AutoPages
    BY DEF AutoPages, AutoCount, CalloutPages, PagesOf, Frame, Off
  <2>5. \A q \in Frame(va') .. Frame(end') - 1 :
          Free(q)' /\ (Head(todo').vaddr = Anywhere => q \in AutoPages)
    BY <1>1, <2>2, <2>3 DEF e
  <2> QED BY <2>4, <2>5 DEF CurrentInv, Frame, Anywhere
<1>13. CountInv'
  <2>1. Due(1)' = Due(1) /\ Due(2)' = Due(2)
    <3>1. Entered(1)' = Entered(1) /\ Entered(2)' = Entered(2)
      BY <1>1 DEF Entered
    <3> QED BY <1>1, <3>1, DueIs DEF Due
  <2>2. ToCome' = ToCome
    <3>1. Wanted' = Wanted
      BY <1>1 DEF Wanted, Anywhere
    <3>2. ToCome' = (IF k' <= Len(file') + 1 THEN 2 * SysPages ELSE 0) + Cardinality(CalloutPages(Wanted'))
      BY ToComeIs
    <3> QED BY <1>1, <3>1, <3>2 DEF ToCome
  <2> QED BY <1>1, <1>5, <2>1, <2>2, CountIs DEF CountInv
<1> QED BY <1>5, <1>6, <1>9, <1>11, <1>12, <1>13 DEF AreaInv

\* What has been asked for is no more to come; its pages are mapped.
LEMMA AreaReturn ==
  IInv /\ AreaInv /\ InputAssumption /\ SpaceAssumption /\ MapReturn => AreaInv'
<1> SUFFICES ASSUME IInv, AreaInv, InputAssumption, SpaceAssumption, MapReturn PROVE AreaInv'
  OBVIOUS
<1> DEFINE c == Head(todo)
<1>1. /\ pc = "loop" /\ pc' = "map" /\ todo' = Tail(todo)
      /\ asked' = IF c.vaddr = Anywhere
                  THEN asked \cup {[call |-> c, at |-> (end - Size(c)) + Off(c.paddr)]} ELSE asked
      /\ UNCHANGED <<large, file, free_vaddr, k, half, mapped>>
  BY DEF MapReturn, confVars, elfVars, tableVars
<1>2. StateInv /\ k \in Int /\ free_vaddr \in Nat
  BY DEF IInv, StateInv
<1>3. /\ \A q \in DOMAIN mapped : Taken(q)
      /\ BasePage <= Frame(free_vaddr) /\ PendingInv /\ CountInv
  BY <1>1 DEF AreaInv
<1>4. Frame(free_vaddr) \in Int /\ Frame(free_vaddr)' = Frame(free_vaddr)
  BY <1>1, <1>2, Address DEF Frame
<1>5. \A q : /\ Taken(q) => Taken(q)'
             /\ Free(q) /\ q \notin DOMAIN mapped' => Free(q)'
  BY <1>1, <1>2, <1>4, FreeStays
<1>6. todo # << >> /\ todo \in Seq(CallSet) /\ Len(todo) <= 2
  BY <1>1, <1>2, <1>3 DEF IInv, LoopInv, Running, StateInv, PendingInv
<1>7. /\ Len(todo') = Len(todo) - 1 /\ Len(todo) \in {1, 2} /\ todo[1] = c
      /\ DOMAIN todo' = 1 .. Len(todo) - 1 /\ \A i \in DOMAIN todo' : todo'[i] = todo[i + 1]
      /\ DOMAIN todo = 1 .. Len(todo)
  <2>1. Len(todo) \in Nat /\ Len(todo) # 0
    BY <1>6
  <2>2. /\ Len(todo') = Len(todo) - 1 /\ todo[1] = c
        /\ DOMAIN todo' = 1 .. Len(todo) - 1 /\ \A i \in DOMAIN todo' : todo'[i] = todo[i + 1]
        /\ DOMAIN todo = 1 .. Len(todo)
    BY <1>1, <1>6
  <2> QED BY <1>6, <2>1, <2>2
<1>8. Entered(1) /\ ~ Entered(2) /\ \A i : ~ Entered(i)'
  BY <1>1 DEF Entered
<1> HIDE DEF c
<1>9. PendingInv'
  <2>1. ASSUME NEW i \in DOMAIN todo', todo'[i].vaddr # Anywhere
        PROVE  i = Len(todo') /\ \A q \in CallPages(todo'[i]) : Free(q)' /\ q \notin AutoPages
    <3>1. i = 1 /\ Len(todo) = 2 /\ todo'[i] = todo[2] /\ 2 \in DOMAIN todo
      BY <1>7
    <3>2. \A q \in CallPages(todo[2]) : Free(q) /\ q \notin AutoPages
      BY <1>3, <1>8, <2>1, <3>1 DEF PendingInv
    <3>3. ASSUME NEW q \in CallPages(todo[2]) PROVE Free(q)' /\ q \notin AutoPages
      <4>1. Free(q) /\ q \notin AutoPages
        BY <3>2
      <4>2. q \notin DOMAIN mapped'
        BY <1>1, <4>1 DEF Free
      <4> QED BY <1>5, <4>1, <4>2
    <3> QED BY <1>7, <3>1, <3>3
  <2>2. Len(todo') <= 2
    BY <1>7
  <2> QED BY <2>1, <2>2, PendingIs
<1>10. CountInv'
  <2>1. Due(1)' = Due(2) /\ Due(2)' = 0
    <3>1. Due(1)' = IF 1 \in DOMAIN todo' /\ todo'[1].vaddr = Anywhere /\ ~ Entered(1)'
                    THEN Frame(Size(todo'[1])) ELSE 0
      BY DueIs
    <3>2. Due(2)' = IF 2 \in DOMAIN todo' /\ todo'[2].vaddr = Anywhere /\ ~ Entered(2)'
                    THEN Frame(Size(todo'[2])) ELSE 0
      BY DueIs
    <3>3. 2 \notin DOMAIN todo' /\ (1 \in DOMAIN todo' <=> 2 \in DOMAIN todo)
      BY <1>7
    <3>4. 1 \in DOMAIN todo' => todo'[1] = todo[2]
      BY <1>7
    <3> QED BY <1>8, <3>1, <3>2, <3>3, <3>4 DEF Due
  <2>2. Wanted' \in SUBSET Wanted
    <3> SUFFICES ASSUME NEW q \in Wanted' PROVE q \in Wanted
      OBVIOUS
    <3>1. /\ q \in Callouts /\ \A r \in asked' : r.call.paddr # q.paddr
          /\ \A i \in DOMAIN todo' : todo'[i].vaddr = Anywhere => todo'[i].paddr # q.paddr
      BY DEF Wanted, Anywhere
    <3>2. \A r \in asked : r.call.paddr # q.paddr
      BY <1>1, <3>1
    <3>3. ASSUME c.vaddr = Anywhere PROVE c.paddr # q.paddr
      <4> DEFINE r == [call |-> c, at |-> (end - Size(c)) + Off(c.paddr)]
      <4>1. r \in asked' /\ r.call = c
        BY <1>1, <3>3
      <4> HIDE DEF r
      <4> QED BY <3>1, <4>1
    <3>4. ASSUME NEW i \in DOMAIN todo, todo[i].vaddr = Anywhere PROVE todo[i].paddr # q.paddr
      <4>1. CASE i = 1
        BY <1>7, <3>3, <3>4, <4>1
      <4>2. CASE i # 1
        <5>1. i = 2 /\ 1 \in DOMAIN todo' /\ todo'[1] = todo[2]
          BY <1>7, <4>2
        <5> QED BY <3>1, <3>4, <5>1
      <4> QED BY <4>1, <4>2
    <3> QED BY <3>1, <3>2, <3>4 DEF Wanted
  <2> DEFINE V == Cardinality(CalloutPages(Wanted))
             W == Cardinality(CalloutPages(Wanted'))
  <2>3. V \in Nat /\ W \in Nat /\ W <= V
    <3>1. Wanted \in SUBSET Callouts
      BY DEF Wanted
    <3> QED BY <2>2, <3>1, CalloutCount
  <2>4. SysPages \in Nat /\ Due(1) = 0 /\ Due(2) \in Nat /\ AutoCount \in Nat /\ BasePage \in Nat
    BY <1>2, <1>8, CountTypes, AutoIs, Geometry DEF Due
  <2>5. ToCome' = (IF k <= Len(file) + 1 THEN 2 * SysPages ELSE 0) + W
    BY <1>1, ToComeIs
  <2>6. ToCome = (IF k <= Len(file) + 1 THEN 2 * SysPages ELSE 0) + V
    BY DEF ToCome
  <2>7. Frame(free_vaddr) + Due(1) + Due(2) + ToCome <= BasePage + AutoCount
    BY <1>3 DEF CountInv
  <2> HIDE DEF V, W
  <2>8. Frame(free_vaddr) + Due(1)' + Due(2)' + ToCome' <= BasePage + AutoCount
    BY <1>4, <2>1, <2>3, <2>4, <2>5, <2>6, <2>7
  <2> QED BY <1>1, <2>8, CountIs
<1>11. CurrentInv'
  BY <1>1 DEF CurrentInv
<1> QED BY <1>1, <1>3, <1>4, <1>5, <1>9, <1>10, <1>11 DEF AreaInv

\* A caller asks for the pages of the segment at hand that nobody has.
LEMMA AreaSegment ==
  ASSUME IInv, AreaInv, InputAssumption, SpaceAssumption, Idle, pc' = "map",
         UNCHANGED <<large, file, free_vaddr, asked, mapped>>, k \in 1 .. Len(file),
         \/ k' = k /\ half'
         \/ k' = k + 1,
         \/ todo' = << >>
         \/ \E c \in CallSet :
              /\ todo' = <<c>> /\ c.vaddr # Anywhere
              /\ \A p \in CallPages(c) :
                   /\ p \in SegmentPages(Seg)
                   /\ half => p >= Frame(Seg.vaddr) + Frame(InPlace)
                   /\ k' = k => p < Frame(Seg.vaddr) + Frame(InPlace)
  PROVE  AreaInv'
<1>1. pc = "map" /\ todo = << >> /\ pc' = "map"
  BY DEF Idle
<1>2. StateInv /\ k \in Int /\ free_vaddr \in Nat /\ file \in Files /\ file \in Seq(Header)
  BY DEF IInv, StateInv, InputAssumption
<1>3. /\ \A q \in DOMAIN mapped : Taken(q)
      /\ BasePage <= Frame(free_vaddr) /\ CountInv
  BY <1>1 DEF AreaInv
<1>4. Frame(free_vaddr) \in Int /\ Frame(free_vaddr)' = Frame(free_vaddr)
  BY <1>2, Address DEF Frame
<1>5. \A q : Taken(q) => Taken(q)'
  BY <1>2, <1>4, TakenStays
<1>6. \A i : ~ Entered(i)' /\ ~ Entered(i)
  BY <1>1 DEF Entered
<1>7. \A i \in DOMAIN todo' : todo'[i].vaddr # Anywhere
  <2>1. CASE todo' = << >>
    BY <2>1
  <2>2. CASE todo' # << >>
    BY <2>2
  <2> QED BY <2>1, <2>2
<1>8. PendingInv'
  <2>1. CASE todo' = << >>
    <3>1. Len(todo') = 0 /\ DOMAIN todo' = {}
      BY <2>1
    <3> QED BY <3>1, PendingIs
  <2>2. CASE todo' # << >>
    <3>1. PICK c \in CallSet :
            /\ todo' = <<c>> /\ c.vaddr # Anywhere
            /\ \A p \in CallPages(c) :
                 /\ p \in SegmentPages(Seg)
                 /\ half => p >= Frame(Seg.vaddr) + Frame(InPlace)
                 /\ k' = k => p < Frame(Seg.vaddr) + Frame(InPlace)
      BY <2>2
    <3>2. Len(todo') = 1 /\ DOMAIN todo' = {1} /\ todo'[1] = c
      BY <3>1
    <3>3. ASSUME NEW p \in CallPages(c) PROVE Free(p)' /\ p \notin AutoPages
      <4>1. p \in SegmentPages(Seg) /\ Seg = file[k] /\ k \in DOMAIN file
        BY <1>2, <3>1 DEF Seg
      <4>2. p < 2 * UserPages /\ ~ Window(p) /\ p \notin AutoPages
        BY <1>2, <4>1, SegmentApart
      <4>3. ~ Taken(p)
        <5>1. /\ Frame(Seg.vaddr) \in Nat /\ Frame(InPlace) \in Nat
              /\ SegmentPages(Seg) = Frame(Seg.vaddr) .. Frame(Seg.vaddr) + Frame(RoundPg(Memsz)) - 1
              /\ Frame(RoundPg(Memsz)) \in Nat
          BY <1>2, SegmentSpan
        <5>2. p \in Int
          BY <4>1, <5>1
        <5>3. Taken(p) => half /\ p < Frame(Seg.vaddr) + Frame(InPlace)
          BY <1>2, <1>3, <4>1, SegmentTaken
        <5>4. half => p >= Frame(Seg.vaddr) + Frame(InPlace)
          BY <3>1
        <5> QED BY <5>1, <5>2, <5>3, <5>4
      <4>4. p \notin DOMAIN mapped'
        BY <1>3, <4>3
      <4>5. ~ Window(p)'
        BY <4>2 DEF Window, L1Idx, L2Idx, NPte
      <4>6. Taken(p)'
        <5>1. CASE k' = k /\ half'
          <6>1. p < Frame(Seg.vaddr) + Frame(InPlace)
            BY <3>1, <5>1
          <6>2. Seg' = Seg /\ InPlace' = InPlace
            BY <5>1 DEF Seg, InPlace, Filesz, Whole, Lead, TruncPg, RoundPg, Off
          <6>3. /\ k \in 1 .. Len(file') /\ p \in SegmentPages(file'[k])
                /\ half' /\ k = k' /\ p < Frame(Seg'.vaddr) + Frame(InPlace')
            BY <4>1, <5>1, <6>1, <6>2
          <6> QED BY <6>3 DEF Taken, Frame, SegmentPages, PagesOf
        <5>2. CASE k' = k + 1
          <6>1. k \in 1 .. Len(file') /\ p \in SegmentPages(file'[k]) /\ k < k'
            BY <1>2, <4>1, <5>2
          <6> QED BY <6>1 DEF Taken, SegmentPages, PagesOf, Frame
        <5> QED BY <5>1, <5>2
      <4> QED BY <4>2, <4>4, <4>5, <4>6 DEF Free
    <3> QED BY <3>1, <3>2, <3>3, PendingIs
  <2> QED BY <2>1, <2>2
<1>9. CountInv'
  <2>1. Due(1)' = 0 /\ Due(2)' = 0
    BY <1>7, DueIs
  <2>2. Wanted' = Wanted
    <3>1. Wanted' = {q \in Callouts : /\ \A r \in asked' : r.call.paddr # q.paddr
                       /\ \A i \in DOMAIN todo' : todo'[i].vaddr = Anywhere => todo'[i].paddr # q.paddr}
      BY DEF Wanted, Anywhere
    <3>2. DOMAIN todo = {}
      BY <1>1
    <3> QED BY <1>7, <3>1, <3>2 DEF Wanted
  <2>3. ToCome' = ToCome
    <3>1. k <= Len(file) + 1 /\ k' <= Len(file) + 1
      <4>1. Len(file) \in Nat
        BY <1>2
      <4> QED BY <4>1
    <3>2. ToCome' = (IF k' <= Len(file') + 1 THEN 2 * SysPages ELSE 0) + Cardinality(CalloutPages(Wanted'))
      BY ToComeIs
    <3> QED BY <2>2, <3>1, <3>2 DEF ToCome
  <2>4. ToCome \in Nat /\ Due(1) \in Nat /\ Due(2) \in Nat /\ AutoCount \in Nat /\ BasePage \in Nat
    BY <1>2, CountTypes, AutoIs, Geometry
  <2>5. Frame(free_vaddr) + Due(1) + Due(2) + ToCome <= BasePage + AutoCount
    BY <1>3 DEF CountInv
  <2>6. Frame(free_vaddr') + Due(1)' + Due(2)' + ToCome' <= BasePage + AutoCount
    <3>1. free_vaddr' = free_vaddr
      OBVIOUS
    <3> QED BY <1>4, <2>1, <2>3, <2>4, <2>5, <3>1
  <2> QED BY <2>6, CountIs
<1>10. CurrentInv'
  BY <1>1 DEF CurrentInv
<1> QED BY <1>1, <1>3, <1>4, <1>5, <1>8, <1>9, <1>10 DEF AreaInv

\* A callout's place, and the system page, are asked for once.
LEMMA AreaCallout ==
  ASSUME IInv, AreaInv, InputAssumption, SpaceAssumption, NEW q \in Callouts, CalloutMap(q)
  PROVE  AreaInv'
<1> DEFINE c == Call(Anywhere, q.paddr, q.size, q.flags)
           n == Frame(RoundPg(q.size + Off(q.paddr)))
<1>1. /\ pc = "map" /\ pc' = "map" /\ todo = << >> /\ todo' = <<c>> /\ ~ half
      /\ \A r \in asked : r.call.paddr # q.paddr
      /\ UNCHANGED <<large, file, free_vaddr, k, half, asked, mapped>>
  BY DEF CalloutMap, Idle, confVars, tableVars, elfVars, histVars
<1>2. StateInv /\ k \in Int /\ free_vaddr \in Nat
  BY <1>1 DEF IInv, StateInv
<1>3. /\ \A p \in DOMAIN mapped : Taken(p)
      /\ BasePage <= Frame(free_vaddr) /\ CountInv
  BY <1>1 DEF AreaInv
<1>4. Frame(free_vaddr) \in Int /\ Frame(free_vaddr)' = Frame(free_vaddr)
  BY <1>1, <1>2, Address DEF Frame
<1>5. \A p : Taken(p) => Taken(p)'
  BY <1>1, <1>2, <1>4, TakenStays
<1>6. c.vaddr = Anywhere /\ c.paddr = q.paddr /\ Frame(Size(c)) = n
  BY DEF Call, Size
<1> HIDE DEF c, n
<1>7. Len(todo') = 1 /\ DOMAIN todo' = {1} /\ todo'[1] = c /\ DOMAIN todo = {}
  BY <1>1
<1>8. PendingInv'
  BY <1>6, <1>7, PendingIs
<1>9. CountInv'
  <2>1. Due(1)' = n /\ Due(2)' = 0
    <3>1. ~ Entered(1)' /\ 2 \notin DOMAIN todo'
      BY <1>1, <1>7 DEF Entered
    <3> QED BY <1>6, <1>7, <3>1, DueIs
  <2>2. Wanted \in SUBSET Callouts /\ q \in Wanted /\ Wanted' \in SUBSET (Wanted \ {q})
    <3>1. q \in Wanted
      BY <1>1, <1>7 DEF Wanted
    <3>2. Wanted' = {x \in Callouts : /\ \A r \in asked' : r.call.paddr # x.paddr
                       /\ \A i \in DOMAIN todo' : todo'[i].vaddr = Anywhere => todo'[i].paddr # x.paddr}
      BY DEF Wanted, Anywhere
    <3>3. q \notin Wanted'
      BY <1>6, <1>7, <3>2
    <3>4. Wanted' \subseteq Wanted
      BY <1>1, <1>7, <3>2 DEF Wanted
    <3> QED BY <3>1, <3>3, <3>4 DEF Wanted
  <2> DEFINE V == Cardinality(CalloutPages(Wanted))
             W == Cardinality(CalloutPages(Wanted'))
  <2>3. n \in Nat /\ W + n <= V
    BY <2>2, OneCallout DEF n
  <2>4. V \in Nat /\ W \in Nat
    BY <2>2, CalloutCount
  <2>5. SysPages \in Nat /\ Due(1) = 0 /\ Due(2) = 0 /\ AutoCount \in Nat /\ BasePage \in Nat
    BY <1>7, AutoIs, Geometry DEF Due
  <2>6. ToCome' = (IF k <= Len(file) + 1 THEN 2 * SysPages ELSE 0) + W
    BY <1>1, ToComeIs
  <2>7. ToCome = (IF k <= Len(file) + 1 THEN 2 * SysPages ELSE 0) + V
    BY DEF ToCome
  <2>8. Frame(free_vaddr) + Due(1) + Due(2) + ToCome <= BasePage + AutoCount
    BY <1>3 DEF CountInv
  <2> HIDE DEF V, W
  <2>9. Frame(free_vaddr) + Due(1)' + Due(2)' + ToCome' <= BasePage + AutoCount
    BY <1>4, <2>1, <2>3, <2>4, <2>5, <2>6, <2>7, <2>8
  <2> QED BY <1>1, <2>9, CountIs
<1>10. CurrentInv'
  BY <1>1 DEF CurrentInv
<1> QED BY <1>1, <1>3, <1>4, <1>5, <1>8, <1>9, <1>10 DEF AreaInv

\* The system page, for the kernel and for users.
LEMMA AreaSyspage ==
  IInv /\ AreaInv /\ InputAssumption /\ SpaceAssumption /\ MapSyspage => AreaInv'
<1> SUFFICES ASSUME IInv, AreaInv, InputAssumption, SpaceAssumption, MapSyspage PROVE AreaInv'
  OBVIOUS
<1> DEFINE n == Frame(RoundPg(SyspageSize))
           z == CallocRam(n)
           c == Call(Anywhere, z * PageSize, SyspageSize, {"w", "x"})
           d == Call(Anywhere, z * PageSize, SyspageSize, {"x", "u"})
<1>1. /\ pc = "map" /\ pc' = "map" /\ todo = << >> /\ todo' = <<c, d>> /\ Fits(n) # {}
      /\ k = Len(file) + 1 /\ k' = k + 1
      /\ UNCHANGED <<large, file, free_vaddr, half, asked, mapped>>
  BY DEF MapSyspage, Idle, confVars, tableVars, histVars
<1>2. StateInv /\ FramesInv /\ k \in Int /\ free_vaddr \in Nat /\ Len(file) \in Nat
  <2>1. StateInv
    BY DEF IInv
  <2>2. file \in Seq(Header)
    BY <2>1 DEF StateInv, InputAssumption
  <2>3. Len(file) \in Nat
    BY <2>2
  <2> QED BY <2>1, <2>3 DEF StateInv
<1>3. /\ \A p \in DOMAIN mapped : Taken(p)
      /\ BasePage <= Frame(free_vaddr) /\ CountInv
  BY <1>1 DEF AreaInv
<1>4. Frame(free_vaddr) \in Int /\ Frame(free_vaddr)' = Frame(free_vaddr)
  BY <1>1, <1>2, Address DEF Frame
<1>5. \A p : Taken(p) => Taken(p)'
  BY <1>1, <1>2, <1>4, TakenStays
<1>6. /\ c.vaddr = Anywhere /\ d.vaddr = Anywhere
      /\ Frame(Size(c)) = SysPages /\ Frame(Size(d)) = SysPages
  <2>1. z \in Nat /\ z * PageSize \in Nat
    BY <1>1, <1>2, FoundMemory
  <2> HIDE DEF z
  <2>2. (z * PageSize) % PageSize = 0
    <3>1. z \in Int /\ PageSize \in Nat \ {0}
      BY <2>1, Geometry
    <3>2. z * PageSize = PageSize * z
      BY <3>1, SMT
    <3> QED BY <3>1, <3>2, WholePages
  <2>3. SyspageSize \in Nat
    BY GeometryAssumption
  <2>4. /\ c.vaddr = Anywhere /\ c.paddr = z * PageSize /\ c.size = SyspageSize
        /\ d.vaddr = Anywhere /\ d.paddr = z * PageSize /\ d.size = SyspageSize
    BY DEF Call
  <2> HIDE DEF c, d
  <2>5. Size(c) = RoundPg(SyspageSize) /\ Size(d) = RoundPg(SyspageSize)
    BY <2>1, <2>2, <2>3, <2>4, CallSize
  <2> QED BY <2>4, <2>5 DEF SysPages
<1> HIDE DEF c, d, z, n
<1>7. Len(todo') = 2 /\ DOMAIN todo' = {1, 2} /\ todo'[1] = c /\ todo'[2] = d /\ DOMAIN todo = {}
  BY <1>1
<1>8. PendingInv'
  BY <1>6, <1>7, PendingIs
<1>9. CountInv'
  <2>1. Due(1)' = SysPages /\ Due(2)' = SysPages
    <3>1. ~ Entered(1)' /\ ~ Entered(2)'
      BY <1>1 DEF Entered
    <3> QED BY <1>6, <1>7, <3>1, DueIs
  <2>2. Wanted \in SUBSET Callouts /\ Wanted' \in SUBSET Wanted
    <3>1. Wanted' = {x \in Callouts : /\ \A r \in asked' : r.call.paddr # x.paddr
                       /\ \A i \in DOMAIN todo' : todo'[i].vaddr = Anywhere => todo'[i].paddr # x.paddr}
      BY DEF Wanted, Anywhere
    <3> QED BY <1>1, <1>7, <3>1 DEF Wanted
  <2> DEFINE V == Cardinality(CalloutPages(Wanted))
             W == Cardinality(CalloutPages(Wanted'))
  <2>3. V \in Nat /\ W \in Nat /\ W <= V
    BY <2>2, CalloutCount
  <2>4. SysPages \in Nat /\ Due(1) = 0 /\ Due(2) = 0 /\ AutoCount \in Nat /\ BasePage \in Nat
    BY <1>7, AutoIs, Geometry DEF Due
  <2>5. ToCome' = W
    <3>1. ToCome' = (IF k' <= Len(file') + 1 THEN 2 * SysPages ELSE 0) + W
      BY ToComeIs
    <3>2. ~ (k' <= Len(file') + 1)
      BY <1>1, <1>2
    <3> HIDE DEF W
    <3> QED BY <2>3, <3>1, <3>2
  <2>6. ToCome = 2 * SysPages + V
    BY <1>1, <1>2 DEF ToCome
  <2>7. Frame(free_vaddr) + Due(1) + Due(2) + ToCome <= BasePage + AutoCount
    BY <1>3 DEF CountInv
  <2> HIDE DEF V, W
  <2>8. Frame(free_vaddr) + Due(1)' + Due(2)' + ToCome' <= BasePage + AutoCount
    BY <1>4, <2>1, <2>3, <2>4, <2>5, <2>6, <2>7
  <2> QED BY <1>1, <2>8, CountIs
<1>10. CurrentInv'
  BY <1>1 DEF CurrentInv
<1> QED BY <1>1, <1>3, <1>4, <1>5, <1>8, <1>9, <1>10 DEF AreaInv

\* The page an address is in.
LEMMA PageBase ==
  ASSUME NEW a \in Nat
  PROVE  TruncPg(a) = PageSize * Frame(a) /\ Frame(a) \in Int
<1>1. a \in Int
  OBVIOUS
<1> QED BY <1>1, Address

\* A segment in place: its whole pages.
LEMMA AreaInPlace ==
  IInv /\ AreaInv /\ InputAssumption /\ SpaceAssumption /\ MapInPlace => AreaInv'
<1> SUFFICES ASSUME IInv, AreaInv, InputAssumption, SpaceAssumption, MapInPlace PROVE AreaInv'
  OBVIOUS
<1> DEFINE c == Call(TruncPg(Seg.vaddr), TruncPg(Seg.paddr), InPlace, Seg.flags)
           f == Frame(Seg.vaddr)
           n == Frame(InPlace)
<1>1. /\ Idle /\ pc' = "map" /\ k <= Len(file) /\ ~ half /\ half' /\ k' = k /\ todo' = <<c>>
      /\ UNCHANGED <<large, file, free_vaddr, asked, mapped>>
  BY DEF MapInPlace, Idle, confVars, tableVars, histVars
<1>2. StateInv /\ file \in Files /\ k \in 1 .. Len(file)
  <2>1. StateInv
    BY DEF IInv
  <2> QED BY <1>1, <2>1 DEF StateInv
<1>3. /\ Seg.vaddr \in Nat /\ Seg.paddr \in Nat /\ Seg.flags \in Flags /\ InPlace \in Nat
      /\ TruncPg(Seg.vaddr) \in Nat /\ TruncPg(Seg.paddr) \in Nat
  BY <1>2, Segment, SegmentSizes
<1>4. /\ f \in Nat /\ n \in Nat /\ InPlace = PageSize * n /\ n <= Frame(RoundPg(Memsz))
      /\ Frame(RoundPg(Memsz)) \in Nat
      /\ SegmentPages(Seg) = f .. f + Frame(RoundPg(Memsz)) - 1
  BY <1>2, SegmentSpan
<1>5. /\ c \in CallSet /\ c.vaddr = TruncPg(Seg.vaddr) /\ c.paddr = TruncPg(Seg.paddr)
      /\ c.size = InPlace
  <2>1. c \in CallSet
    BY <1>3, CallRight
  <2> QED BY <2>1 DEF Call
<1>6. CallPages(c) = f .. f + n - 1 /\ c.vaddr # Anywhere
  <2>1. TruncPg(Seg.vaddr) = PageSize * f /\ TruncPg(Seg.paddr) = PageSize * Frame(Seg.paddr)
        /\ Frame(Seg.paddr) \in Int
    BY <1>3, PageBase
  <2>2. Frame(c.vaddr) = f /\ c.paddr % PageSize = 0
    BY <1>4, <1>5, <2>1, WholePages
  <2>3. Size(c) = RoundPg(InPlace)
    BY <1>3, <1>5, <2>2, CallSize
  <2>4. Size(c) = PageSize * n /\ Frame(Size(c)) = n
    BY <1>4, <2>3, WholeRound, WholePages
  <2>5. c.vaddr # Anywhere
    BY <1>3, <1>5 DEF Anywhere
  <2> QED BY <2>2, <2>4, <2>5 DEF CallPages
<1> HIDE DEF c, f, n
<1>7. \A p \in CallPages(c) :
        p \in SegmentPages(Seg) /\ p < f + n
  BY <1>4, <1>6
<1> QED BY <1>1, <1>2, <1>5, <1>6, <1>7, AreaSegment DEF f, n

\* The rest of it: what follows those.
LEMMA AreaRest ==
  IInv /\ AreaInv /\ InputAssumption /\ SpaceAssumption /\ MapRest => AreaInv'
<1> SUFFICES ASSUME IInv, AreaInv, InputAssumption, SpaceAssumption, MapRest PROVE AreaInv'
  OBVIOUS
<1> DEFINE rest == RoundPg(Memsz - InPlace)
           z == CallocRam(Frame(rest))
           c == Call(TruncPg(Seg.vaddr) + InPlace, z * PageSize, rest, Seg.flags)
           f == Frame(Seg.vaddr)
           n == Frame(InPlace)
           m == Frame(RoundPg(Memsz))
<1>1. /\ Idle /\ pc' = "map" /\ half /\ k' = k + 1
      /\ IF rest = 0 THEN todo' = todo ELSE Fits(Frame(rest)) # {} /\ todo' = <<c>>
      /\ UNCHANGED <<large, file, free_vaddr, asked, mapped>>
  BY DEF MapRest, Idle, confVars, tableVars, histVars
<1>2. StateInv /\ FramesInv /\ file \in Files /\ k \in 1 .. Len(file)
  <2>1. StateInv
    BY DEF IInv
  <2> QED BY <1>1, <2>1 DEF StateInv
<1>3. /\ Seg.vaddr \in Nat /\ Seg.flags \in Flags /\ InPlace \in Nat /\ Memsz \in Nat
      /\ InPlace <= Memsz /\ TruncPg(Seg.vaddr) \in Nat
  BY <1>2, Segment, SegmentSizes
<1>4. /\ f \in Nat /\ n \in Nat /\ InPlace = PageSize * n /\ n <= m /\ m \in Nat
      /\ SegmentPages(Seg) = f .. f + m - 1
  BY <1>2, SegmentSpan
<1>5. CASE rest = 0
  <2>1. todo' = << >>
    BY <1>1, <1>5 DEF Idle
  <2> QED BY <1>1, <1>2, <2>1, AreaSegment
<1>6. CASE rest # 0
  <2>1. z \in Nat /\ z * PageSize \in Nat
    BY <1>1, <1>2, <1>6, FoundMemory
  <2>2. rest \in Nat /\ rest = PageSize * (m - n)
    <3>1. PageSize \in Nat \ {0} /\ Memsz - InPlace \in Nat
      BY <1>3, Geometry
    <3>2. rest \in Nat
      BY <3>1, Rounded
    <3> DEFINE x == Memsz - InPlace + PageSize - 1
               y == Memsz + PageSize - 1
               g == Frame(x)
               r == Off(x)
    <3>3. x \in Int /\ y = PageSize * n + x
      <4> HIDE DEF n
      <4>1. PageSize * n \in Int
        BY <1>4, WholePages
      <4> QED BY <1>3, <1>4, <3>1, <4>1
    <3>4. x = PageSize * g + r /\ g \in Int /\ r \in 0 .. PageSize - 1 /\ TruncPg(x) = PageSize * g
      BY <3>3, Address, Zenon
    <3>5. rest = PageSize * g
      BY <3>4 DEF RoundPg
    <3>6. m = Frame(y)
      BY <1>3, WholeCount
    <3> HIDE DEF x, y, g, r, n, m, rest
    <3>7. y = PageSize * (n + g) + r /\ n + g \in Int
      BY <1>4, <3>1, <3>3, <3>4, SMT
    <3>8. Frame(y) = n + g
      BY <3>4, <3>7, PageNumber
    <3>9. g = m - n
      BY <1>4, <3>4, <3>6, <3>8
    <3> QED BY <3>2, <3>5, <3>9
  <2>3. /\ c \in CallSet /\ c.vaddr = TruncPg(Seg.vaddr) + InPlace /\ c.paddr = z * PageSize
        /\ c.size = rest /\ TruncPg(Seg.vaddr) + InPlace \in Nat
    <3>1. TruncPg(Seg.vaddr) + InPlace \in Nat
      BY <1>3
    <3>2. c \in CallSet
      BY <1>3, <2>1, <2>2, <3>1, CallRight
    <3> QED BY <3>1, <3>2 DEF Call
  <2> HIDE DEF rest, z, c
  <2>4. CallPages(c) = f + n .. f + m - 1 /\ c.vaddr # Anywhere
    <3>1. PageSize \in Nat \ {0} /\ TruncPg(Seg.vaddr) = PageSize * f
      BY <1>3, Geometry, PageBase
    <3>2. (z * PageSize) % PageSize = 0
      <4>1. z * PageSize = PageSize * z /\ z \in Int
        BY <2>1, <3>1, SMT
      <4> QED BY <4>1, WholePages
    <3>3. Size(c) = RoundPg(rest)
      BY <2>1, <2>2, <2>3, <3>2, CallSize
    <3>4. m - n \in Int
      BY <1>4
    <3>5. Size(c) = PageSize * (m - n)
      BY <2>2, <3>3, <3>4, WholeRound
    <3>6. Frame(Size(c)) = m - n
      BY <3>4, <3>5, WholePages
    <3> HIDE DEF f, n, m
    <3>7. c.vaddr = PageSize * (f + n) /\ f + n \in Int
      BY <1>4, <2>3, <3>1, SMT
    <3>8. Frame(c.vaddr) = f + n
      BY <3>7, WholePages
    <3>9. CallPages(c) = f + n .. (f + n) + (m - n) - 1
      BY <3>6, <3>8 DEF CallPages
    <3>10. CallPages(c) = f + n .. f + m - 1
      BY <1>4, <3>9
    <3>11. c.vaddr # Anywhere
      BY <2>3 DEF Anywhere
    <3> QED BY <3>10, <3>11
  <2>5. \A p \in CallPages(c) : p \in SegmentPages(Seg) /\ p >= f + n
    <3> HIDE DEF f, n, m
    <3> QED BY <1>4, <2>4
  <2>6. todo' = <<c>> /\ k' # k
    BY <1>1, <1>2, <1>6
  <2> QED BY <1>1, <1>2, <2>3, <2>4, <2>5, <2>6, AreaSegment
<1> QED BY <1>5, <1>6

\* A segment that is copied.
LEMMA AreaCopy ==
  IInv /\ AreaInv /\ InputAssumption /\ SpaceAssumption /\ CopySegment => AreaInv'
<1> SUFFICES ASSUME IInv, AreaInv, InputAssumption, SpaceAssumption, CopySegment PROVE AreaInv'
  OBVIOUS
<1> DEFINE w == Frame(RoundPg(Memsz))
           z == CallocRam(w)
           c == Call(TruncPg(Seg.vaddr), z * PageSize, Memsz, Seg.flags)
           f == Frame(Seg.vaddr)
<1>1. /\ Idle /\ pc' = "map" /\ k <= Len(file) /\ Seg.paddr = 0 /\ k' = k + 1 /\ todo' = <<c>>
      /\ Fits(w) # {}
      /\ UNCHANGED <<large, file, free_vaddr, asked, mapped>>
  BY DEF CopySegment, Idle, confVars, tableVars, histVars
<1>2. StateInv /\ FramesInv /\ file \in Files /\ k \in 1 .. Len(file) /\ ~ half
  <2>1. StateInv
    BY DEF IInv
  <2> QED BY <1>1, <2>1 DEF StateInv, Seg
<1>3. /\ Seg.vaddr \in Nat /\ Seg.flags \in Flags /\ Memsz \in Nat /\ TruncPg(Seg.vaddr) \in Nat
  BY <1>2, Segment, SegmentSizes
<1>4. f \in Nat /\ w \in Nat /\ SegmentPages(Seg) = f .. f + w - 1
  BY <1>2, SegmentSpan
<1>5. z \in Nat /\ z * PageSize \in Nat
  BY <1>1, <1>2, FoundMemory
<1>6. /\ c \in CallSet /\ c.vaddr = TruncPg(Seg.vaddr) /\ c.paddr = z * PageSize /\ c.size = Memsz
  <2>1. c \in CallSet
    BY <1>3, <1>5, CallRight
  <2> QED BY <2>1 DEF Call
<1> HIDE DEF z, c
<1>7. CallPages(c) = f .. f + w - 1 /\ c.vaddr # Anywhere
  <2>1. PageSize \in Nat \ {0} /\ TruncPg(Seg.vaddr) = PageSize * f
    BY <1>3, Geometry, PageBase
  <2>2. Frame(c.vaddr) = f
    BY <1>4, <1>6, <2>1, WholePages
  <2>3. (z * PageSize) % PageSize = 0
    <3>1. z * PageSize = PageSize * z /\ z \in Int
      BY <1>5, <2>1, SMT
    <3> QED BY <3>1, WholePages
  <2>4. Size(c) = RoundPg(Memsz)
    BY <1>3, <1>5, <1>6, <2>3, CallSize
  <2>5. c.vaddr # Anywhere
    BY <1>3, <1>6 DEF Anywhere
  <2> QED BY <2>2, <2>4, <2>5 DEF CallPages
<1>8. \A p \in CallPages(c) : p \in SegmentPages(Seg)
  BY <1>4, <1>7
<1>9. k' # k
  BY <1>1, <1>2
<1> QED BY <1>1, <1>2, <1>6, <1>7, <1>8, <1>9, AreaSegment

\* Every step keeps the areas apart.
LEMMA AreaStep ==
  IInv /\ AreaInv /\ InputAssumption /\ SpaceAssumption /\ [Next]_vars => AreaInv'
<1> SUFFICES ASSUME IInv, AreaInv, InputAssumption, SpaceAssumption, [Next]_vars PROVE AreaInv'
  OBVIOUS
<1>1. CASE InitSmp
  BY <1>1 DEF InitSmp, AreaInv
<1>2. CASE AarchMapInit
  BY <1>2, AreaBegin
<1>3. CASE MapEnter
  BY <1>3, AreaEnter
<1>4. CASE MapGroup
  BY <1>4, AreaGroup
<1>5. CASE MapReturn
  BY <1>5, AreaReturn
<1>6. CASE \E q \in Callouts : CalloutMap(q)
  BY <1>6, AreaCallout
<1>7. CASE MapInPlace
  BY <1>7, AreaInPlace
<1>8. CASE MapRest
  BY <1>8, AreaRest
<1>9. CASE CopySegment
  BY <1>9, AreaCopy
<1>10. CASE MapSyspage
  BY <1>10, AreaSyspage
<1>11. CASE OutOfMemory
  BY <1>11 DEF OutOfMemory, AreaInv
<1>12. CASE UNCHANGED vars
  <2>1. UNCHANGED <<large, file, pc, free_vaddr, todo, va, end, k, half, asked, mapped>>
    BY <1>12 DEF vars, confVars, tableVars, callVars, elfVars, histVars
  <2>2. CASE pc \notin {"map", "loop"}
    BY <2>1, <2>2 DEF AreaInv
  <2>3. CASE pc \in {"map", "loop"}
    <3>1. StateInv /\ k \in Int /\ free_vaddr \in Nat
      BY DEF IInv, StateInv
    <3>2. /\ \A q \in DOMAIN mapped : Taken(q)
          /\ BasePage <= Frame(free_vaddr) /\ PendingInv /\ CurrentInv /\ CountInv
      BY <2>3 DEF AreaInv
    <3>3. Frame(free_vaddr) \in Int /\ Frame(free_vaddr)' = Frame(free_vaddr)
      BY <2>1, <3>1, Address DEF Frame
    <3>4. \A q : /\ Taken(q) => Taken(q)'
                 /\ Free(q) /\ q \notin DOMAIN mapped' => Free(q)'
      BY <2>1, <3>1, <3>3, FreeStays
    <3>5. \A q : Free(q) => Free(q)'
      BY <2>1, <3>4 DEF Free
    <3>6. \A i : Entered(i)' <=> Entered(i)
      BY <2>1 DEF Entered
    <3>7. PendingInv'
      BY <2>1, <3>2, <3>5, <3>6, PendingIs DEF PendingInv
    <3>8. CurrentInv'
      <4>1. AutoPages' = AutoPages
        BY DEF AutoPages, AutoCount, CalloutPages, PagesOf, Frame, Off
      <4>2. pc' = "loop" => \A p \in Frame(va') .. Frame(end') - 1 :
              Free(p)' /\ (Head(todo').vaddr = Anywhere => p \in AutoPages)
        BY <2>1, <3>2, <3>5 DEF CurrentInv
      <4> QED BY <4>1, <4>2 DEF CurrentInv, Frame, Anywhere
    <3>9. CountInv'
      <4>1. Due(1)' = Due(1) /\ Due(2)' = Due(2)
        BY <2>1, <3>6, DueIs DEF Due
      <4>2. Wanted' = Wanted
        BY <2>1 DEF Wanted, Anywhere
      <4>3. ToCome' = ToCome
        BY <2>1, <4>2, ToComeIs DEF ToCome
      <4> QED BY <2>1, <3>2, <4>1, <4>3, CountIs DEF CountInv
    <3> QED BY <2>1, <3>2, <3>3, <3>4, <3>7, <3>8, <3>9 DEF AreaInv
  <2> QED BY <2>2, <2>3
<1> QED BY <1>1, <1>2, <1>3, <1>4, <1>5, <1>6, <1>7, <1>8, <1>9, <1>10, <1>11, <1>12 DEF Next

\* Both invariants hold in every state, and with them the contract.
LEMMA AreasInvariant == Spec => [](IInv /\ AreaInv /\ AreasApart)
<1>1. Init => IInv /\ AreaInv
  BY InitIInv, InputAssumption DEF Init, AreaInv
<1>2. IInv /\ AreaInv /\ [Next]_vars => (IInv /\ AreaInv)'
  BY NextStep, AreaStep, AreaIsApart, InputAssumption, SpaceAssumption
<1>3. AreaInv => AreasApart
  BY AreaIsApart
<1> QED BY <1>1, <1>2, <1>3, PTL DEF Spec

\* The contract that aarch64_map() does not check is kept by all its callers:
\* none asks for a page that is already mapped, that shows the tables or that
\* is beyond them. The executables' pages are apart from each other, and the
\* addresses that aarch64_map() chooses, one after the other without looking,
\* do not reach them while the layout has room for every callout once.
THEOREM AreasStayApart == Spec => []AreasApart
BY AreasInvariant, PTL

-----------------------------------------------------------------------------
(* The tables themselves                                                   *)

\* What the hardware finds in the tables is what the callers of aarch64_map()
\* asked for: each page leads to its frame with its rights, contiguous groups
\* are whole, no other page leads anywhere, and the addresses that
\* aarch64_map() chose go on showing what they were chosen for - for both page
\* sizes, whatever the memory, the executable and the callouts' requests, with
\* any number of calls.
THEOREM TablesAreRight == Spec => []TablesRight
<1>1. IInv => TablesRight
  BY InvRight
<1> QED BY <1>1, AreasInvariant, PTL

-----------------------------------------------------------------------------
(* The loading of the executable into the tables                           *)

\* Unit i of segment s as it is to be, and whether load_elf64mmu() has dealt
\* with it.
Content(s, i) == IF i < file[s].filesz THEN <<s, i>> ELSE Zero
Dealt(s, i) == s < k \/ (half /\ s = k /\ Lead + i < InPlace)

\* Address v shows unit u, or it will when the call at hand has come to it.
Shows(v, u, flags) ==
  /\ Frame(v) \in DOMAIN mapped /\ mapped[Frame(v)].flags = flags
  /\ mapped[Frame(v)].pa * PageSize + Off(v) = u
Promised(c, v, u, flags) ==
  /\ c.vaddr \in Nat /\ c.vaddr % PageSize = 0 /\ c.paddr \in Nat /\ c.paddr % PageSize = 0
  /\ c.vaddr <= v /\ v < c.vaddr + Size(c) /\ u = c.paddr + (v - c.vaddr) /\ flags = c.flags
WillShow(v, u, flags) ==
  /\ todo # << >> /\ Promised(Head(todo), v, u, flags)
  /\ \/ pc = "map"
     \/ pc = "loop" /\ va <= v /\ end = Head(todo).vaddr + Size(Head(todo))
Found(v, u, flags) == Shows(v, u, flags) \/ WillShow(v, u, flags)

\* It is in memory that is not free, and the tables lead to it or will.
Loaded(s, i) ==
  \E u \in 0 .. UserEnd - 1 :
    ram[u] = Content(s, i) /\ Frame(u) \notin free /\ Found(file[s].vaddr + i, u, file[s].flags)
LoadedInv ==
  pc # "crashed" => \A s \in 1 .. Len(file) : \A i \in 0 .. file[s].memsz - 1 :
    Dealt(s, i) => Loaded(s, i)

\* The files are still where they were in the image.
SourceInv ==
  /\ pc \in {"init_smp", "init_mmu"} => k = 1 /\ ~ half
  /\ DOMAIN ram = 0 .. UserEnd - 1
  /\ \A s \in 1 .. Len(file) : \A i \in 0 .. file[s].filesz - 1 :
       ram[Source(file[s]) + i] = <<s, i>>

\* The range that the kernel is told has what has been loaded.
RangeInv ==
  /\ boot_vaddr \in Nat \X Nat
  /\ \A s \in 1 .. Len(file) : s < k \/ (half /\ s = k) =>
       /\ boot_vaddr[1] # 0 /\ boot_vaddr[1] <= file[s].vaddr
       /\ file[s].vaddr + file[s].memsz <= boot_vaddr[2]
ElfInv == LoadedInv /\ SourceInv /\ RangeInv

\* The address of a page.
LEMMA WholeAddress ==
  ASSUME NEW a \in Nat, a % PageSize = 0
  PROVE  TruncPg(a) = a /\ a = PageSize * Frame(a) /\ Frame(a) \in Int /\ Off(a) = 0
<1>1. a \in Int
  OBVIOUS
<1>2. a = PageSize * Frame(a) /\ TruncPg(a) = PageSize * Frame(a) /\ Frame(a) \in Int
  BY <1>1, Address, Zenon
<1> QED BY <1>2 DEF Off

\* Products of sums.
LEMMA Distribute ==
  ASSUME NEW a \in Int, NEW b \in Int, NEW c \in Int, NEW d \in Int
  PROVE  /\ (a + (b - c)) * d = d * a + (d * b - d * c)
         /\ d * a \in Int /\ d * b \in Int /\ d * c \in Int
BY SMT

\* Numbers in a segment.
LEMMA FileIs ==
  ASSUME InputAssumption, LayoutAssumption, file \in Files, NEW s \in 1 .. Len(file)
  PROVE  /\ {file[s].vaddr, file[s].filesz, file[s].memsz, file[s].paddr, file[s].src, Source(file[s])} \subseteq Nat
         /\ file[s].filesz <= file[s].memsz /\ file[s].flags \in Flags
         /\ file[s].vaddr >= PageSize
         /\ file[s].paddr # 0 => Off(file[s].paddr) = Off(file[s].vaddr)
         /\ \A i \in 0 .. file[s].filesz - 1 :
              /\ Source(file[s]) + i \in 0 .. UserEnd - 1 /\ Source(file[s]) + i \in Stored(file[s])
              /\ Frame(Source(file[s]) + i) \notin Ram
         /\ \A t \in 1 .. Len(file) : s # t => Stored(file[s]) \cap Stored(file[t]) = {}
<1>1. file \in Seq(Header) /\ DOMAIN file = 1 .. Len(file)
  BY DEF InputAssumption
<1> DEFINE h == file[s]
<1>2. h \in Header
  BY <1>1
<1>3. /\ \A u \in Stored(h) : u < UserPages * PageSize /\ Frame(u) \notin Ram
      /\ \A t \in 1 .. Len(file) : s # t => Stored(h) \cap Stored(file[t]) = {}
      /\ h.paddr # 0 => Off(h.paddr) = Off(h.vaddr)
      /\ h.vaddr >= PageSize
  BY <1>1 DEF LayoutAssumption
<1> HIDE DEF h
<1>4. /\ {h.vaddr, h.filesz, h.memsz, h.paddr, h.src} \subseteq Nat /\ h.filesz <= h.memsz
      /\ h.flags \in Flags
  BY <1>2 DEF Header
<1>5. Source(h) \in Nat
  BY <1>4 DEF Source
<1>6. \A i \in 0 .. h.filesz - 1 : Source(h) + i \in Stored(h) /\ Source(h) + i >= 0
  BY <1>4, <1>5, SMTT(30) DEF Stored
<1>7. UserEnd = UserPages * PageSize /\ UserEnd \in Int
  <2>1. UserPages \in Nat /\ PageSize \in Nat
    BY Geometry
  <2> QED BY <2>1, SMT DEF UserEnd
<1>8. \A i \in 0 .. h.filesz - 1 : Source(h) + i < UserEnd /\ Frame(Source(h) + i) \notin Ram
  BY <1>3, <1>6, <1>7
<1>9. \A i \in 0 .. h.filesz - 1 : Source(h) + i \in 0 .. UserEnd - 1
  BY <1>4, <1>5, <1>6, <1>7, <1>8
<1> QED BY <1>3, <1>4, <1>5, <1>6, <1>8, <1>9 DEF h

\* At the start everything is in the image.
LEMMA InitElf == Init /\ InputAssumption /\ LayoutAssumption => ElfInv
<1> SUFFICES ASSUME Init, InputAssumption, LayoutAssumption PROVE ElfInv
  OBVIOUS
<1>1. /\ file \in Files /\ k = 1 /\ half = FALSE /\ boot_vaddr = <<0, 0>>
      /\ ram = [u \in 0 .. UserEnd - 1 |-> ImageUnit(u)]
  BY DEF Init
<1>2. file \in Seq(Header) /\ DOMAIN file = 1 .. Len(file)
  BY <1>1 DEF InputAssumption
<1>3. \A s \in 1 .. Len(file) : ~ (s < k)
  BY <1>1
<1>4. LoadedInv /\ RangeInv
  BY <1>1, <1>3 DEF LoadedInv, RangeInv, Dealt
<1>5. ASSUME NEW s \in 1 .. Len(file), NEW i \in 0 .. file[s].filesz - 1
      PROVE  ram[Source(file[s]) + i] = <<s, i>>
  <2> DEFINE u == Source(file[s]) + i
             hits == {x \in DOMAIN file : u \in Stored(file[x])}
  <2>1. u \in 0 .. UserEnd - 1 /\ u \in Stored(file[s]) /\ u - Source(file[s]) = i
    BY <1>1, FileIs
  <2>2. ASSUME NEW x \in hits PROVE x = s
    <3>1. x \in 1 .. Len(file) /\ u \in Stored(file[x])
      BY <1>2
    <3>2. \A t \in 1 .. Len(file) : s # t => Stored(file[s]) \cap Stored(file[t]) = {}
      BY <1>1, FileIs
    <3> QED BY <2>1, <3>1, <3>2
  <2>3. s \in hits
    BY <1>2, <2>1
  <2>4. ImageUnit(u) = IF hits = {} THEN Junk
                       ELSE <<CHOOSE x \in hits : TRUE, u - Source(file[CHOOSE x \in hits : TRUE])>>
    BY Zenon DEF ImageUnit
  <2>5. (CHOOSE x \in hits : TRUE) = s
    BY <2>2, <2>3
  <2> HIDE DEF u, hits
  <2>6. ImageUnit(u) = <<s, u - Source(file[s])>>
    BY <2>3, <2>4, <2>5
  <2>7. ram[u] = <<s, i>>
    BY <1>1, <2>1, <2>6
  <2> QED BY <2>7 DEF u
<1>6. SourceInv
  BY <1>1, <1>5 DEF SourceInv
<1> QED BY <1>4, <1>6 DEF ElfInv

-----------------------------------------------------------------------------
\* Steps of aarch64_map(): the memory stays, and addresses show what they did.
LEMMA ElfStays ==
  ASSUME ElfInv, UNCHANGED <<file, ram, k, half, boot_vaddr>>, free' \subseteq free,
         pc' # "crashed" => pc # "crashed", pc' \notin {"init_smp", "init_mmu"},
         pc' # "crashed" => \A v \in Nat : \A u \in 0 .. UserEnd - 1 : \A flags :
           Found(v, u, flags) => Found(v, u, flags)',
         file \in Files, InputAssumption, LayoutAssumption
  PROVE  ElfInv'
<1>1. /\ \A s, i : Content(s, i)' = Content(s, i) /\ (Dealt(s, i)' <=> Dealt(s, i))
      /\ UserEnd' = UserEnd
  BY DEF Content, Dealt, Lead, InPlace, Filesz, Whole, Seg, UserEnd, Zero, Off, TruncPg, RoundPg
<1>2. SourceInv' /\ RangeInv'
  BY DEF ElfInv, SourceInv, RangeInv, Source, UserEnd
<1>3. ASSUME pc' # "crashed", NEW s \in 1 .. Len(file), NEW i \in 0 .. file[s].memsz - 1, Dealt(s, i)
      PROVE  Loaded(s, i)'
  <2>1. Loaded(s, i)
    BY <1>3 DEF ElfInv, LoadedInv
  <2>2. PICK u \in 0 .. UserEnd - 1 :
          /\ ram[u] = Content(s, i) /\ Frame(u) \notin free
          /\ Found(file[s].vaddr + i, u, file[s].flags)
    BY <2>1 DEF Loaded
  <2>3. file[s].vaddr + i \in Nat
    <3>1. file[s].vaddr \in Nat /\ file[s].memsz \in Nat
      BY FileIs
    <3> QED BY <3>1
  <2>4. Found(file[s].vaddr + i, u, file[s].flags)'
    BY <1>3, <2>2, <2>3
  <2> QED BY <1>1, <2>2, <2>4 DEF Loaded, Frame
<1>4. LoadedInv'
  BY <1>1, <1>3 DEF LoadedInv
<1> QED BY <1>2, <1>4 DEF ElfInv

\* Before there are tables nothing has been loaded.
LEMMA ElfStart == ElfInv /\ (InitSmp \/ AarchMapInit) => ElfInv'
<1> SUFFICES ASSUME ElfInv, InitSmp \/ AarchMapInit PROVE ElfInv'
  OBVIOUS
<1>1. pc \in {"init_smp", "init_mmu"} /\ UNCHANGED <<file, ram, k, half, boot_vaddr>>
  BY DEF InitSmp, AarchMapInit, confVars, elfVars
<1>2. k = 1 /\ ~ half
  BY <1>1 DEF ElfInv, SourceInv
<1>3. SourceInv'
  BY <1>1, <1>2 DEF ElfInv, SourceInv, Source, UserEnd
<1>4. RangeInv'
  BY <1>1 DEF ElfInv, RangeInv
<1>5. LoadedInv'
  BY <1>1, <1>2 DEF LoadedInv, Dealt
<1> QED BY <1>3, <1>4, <1>5 DEF ElfInv

\* Size and addresses mean the same in all states.
LEMMA SameFound ==
  /\ \A c : Size(c)' = Size(c)
  /\ \A c, v, u, flags : Promised(c, v, u, flags)' <=> Promised(c, v, u, flags)
  /\ \A v, u, flags : mapped' = mapped => (Shows(v, u, flags)' <=> Shows(v, u, flags))
BY DEF Size, Promised, Shows, Frame, Off, RoundPg, TruncPg

LEMMA ElfEnter == IInv /\ ElfInv /\ InputAssumption /\ LayoutAssumption /\ MapEnter => ElfInv'
<1> SUFFICES ASSUME IInv, ElfInv, InputAssumption, LayoutAssumption, MapEnter PROVE ElfInv'
  OBVIOUS
<1> DEFINE c == Head(todo)
<1>1. /\ pc = "map" /\ todo # << >> /\ pc' = IF BadCall(c) THEN "crashed" ELSE "loop"
      /\ va' = TruncPg(Vaddr(c)) /\ end' = va' + Size(c)
      /\ UNCHANGED <<file, ram, free, todo, k, half, boot_vaddr, mapped>>
  BY DEF MapEnter, confVars, elfVars, histVars
<1>2. file \in Files
  BY DEF IInv, StateInv
<1>3. ASSUME NEW v \in Nat, NEW u \in 0 .. UserEnd - 1, NEW flags, Found(v, u, flags), pc' # "crashed"
      PROVE  Found(v, u, flags)'
  <2>1. CASE Shows(v, u, flags)
    BY <1>1, <2>1, SameFound DEF Found
  <2>2. CASE WillShow(v, u, flags)
    <3>1. Promised(c, v, u, flags)
      BY <2>2 DEF WillShow
    <3>2. c.vaddr \in Nat /\ c.vaddr % PageSize = 0 /\ c.vaddr <= v
      BY <3>1 DEF Promised
    <3>3. Vaddr(c) = c.vaddr
      BY <3>2 DEF Vaddr, Anywhere
    <3>4. TruncPg(c.vaddr) = c.vaddr
      <4> HIDE DEF c
      <4> QED BY <3>2, WholeAddress
    <3>5. va' = c.vaddr /\ va' <= v /\ pc' = "loop" /\ end' = c.vaddr + Size(c)
      BY <1>1, <1>3, <3>2, <3>3, <3>4
    <3>6. (todo # << >> /\ Promised(Head(todo), v, u, flags))'
      BY <1>1, <3>1 DEF Promised, Size, RoundPg, TruncPg, Off
    <3>7. (pc = "loop" /\ va <= v /\ end = Head(todo).vaddr + Size(Head(todo)))'
      BY <1>1, <3>5 DEF Size, RoundPg, TruncPg, Off
    <3>8. WillShow(v, u, flags)'
      BY <3>6, <3>7 DEF WillShow
    <3> QED BY <3>8 DEF Found
  <2> QED BY <1>3, <2>1, <2>2 DEF Found
<1> QED BY <1>1, <1>2, <1>3, ElfStays

\* A page that is mapped shows what it is mapped for, and no page is mapped
\* twice.
LEMMA ElfGroup ==
  IInv /\ ElfInv /\ AreasApart /\ InputAssumption /\ LayoutAssumption /\ MapGroup => ElfInv'
<1> SUFFICES ASSUME IInv, ElfInv, AreasApart, InputAssumption, LayoutAssumption, MapGroup PROVE ElfInv'
  OBVIOUS
<1> DEFINE p == Frame(va)
           n == IF UseContig THEN ContigPages ELSE 1
           c == Head(todo)
           first == Frame(end - Size(c))
           M(q) == [pa |-> Frame(c.paddr) + (q - first), flags |-> c.flags]
<1>1. /\ pc = "loop" /\ pc' = pc /\ va' = va + n * PageSize
      /\ mapped' = [q \in DOMAIN mapped \cup Run(p, n) |-> IF q \in Run(p, n) THEN M(q) ELSE mapped[q]]
      /\ UNCHANGED <<file, ram, todo, end, k, half, boot_vaddr>> /\ free' \subseteq free
  BY DEF MapGroup, confVars, elfVars
<1>2. file \in Files
  BY DEF IInv, StateInv
<1>3. /\ n \in Nat \ {0} /\ p \in Int /\ va = PageSize * p
      /\ \A j \in 0 .. n - 1 : p + j \in Plain /\ p + j \notin DOMAIN mapped
  BY AreaPages
<1>4. PageSize \in Nat \ {0}
  BY Geometry
<1> HIDE DEF p, n
<1>5. va' = PageSize * (p + n) /\ va' \in Int
  <2>1. va' = PageSize * p + n * PageSize
    BY <1>1, <1>3
  <2> QED BY <1>3, <1>4, <2>1, SMT
<1>6. \A q \in Run(p, n) : q \in Int /\ q \notin DOMAIN mapped
  <2> SUFFICES ASSUME NEW q \in Run(p, n) PROVE q \in Int /\ q \notin DOMAIN mapped
    OBVIOUS
  <2>1. q \in Int /\ q - p \in 0 .. n - 1 /\ p + (q - p) = q
    BY <1>3 DEF Run
  <2> QED BY <1>3, <2>1
<1>66. Size(c) \in Nat
  <2>1. Running /\ LoopInv
    BY <1>1 DEF IInv, StateInv, Running
  <2> QED BY <1>1, <2>1 DEF LoopInv
<1>7. ASSUME NEW v \in Nat, NEW u \in 0 .. UserEnd - 1, NEW flags, Found(v, u, flags)
      PROVE  Found(v, u, flags)'
  <2>1. CASE Shows(v, u, flags)
    <3>1. Frame(v) \in DOMAIN mapped' /\ mapped'[Frame(v)] = mapped[Frame(v)]
      BY <1>1, <1>6, <2>1 DEF Shows
    <3>2. Shows(v, u, flags)'
      BY <2>1, <3>1 DEF Shows, Frame, Off
    <3> QED BY <3>2 DEF Found
  <2>2. CASE WillShow(v, u, flags)
    <3>1. /\ todo # << >> /\ Promised(c, v, u, flags) /\ va <= v /\ end = c.vaddr + Size(c)
      BY <1>1, <2>2 DEF WillShow
    <3>2. /\ c.vaddr \in Nat /\ c.vaddr % PageSize = 0 /\ c.paddr \in Nat /\ c.paddr % PageSize = 0
          /\ c.vaddr <= v /\ v < c.vaddr + Size(c) /\ u = c.paddr + (v - c.vaddr) /\ flags = c.flags
      BY <3>1 DEF Promised
    <3>3. CASE va' <= v
      <4>1. Promised(c, v, u, flags)' /\ Size(c)' = Size(c) /\ Head(todo') = c
        BY <1>1, <3>1, SameFound
      <4> HIDE DEF c
      <4>2. WillShow(v, u, flags)'
        BY <1>1, <3>1, <3>3, <4>1 DEF WillShow
      <4> QED BY <4>2 DEF Found
    <3>4. CASE v < va'
      <4> DEFINE q == Frame(v)
      <4>1. q \in Int /\ v = PageSize * q + Off(v) /\ Off(v) \in 0 .. PageSize - 1
        BY Address
      <4>2. q \in Run(p, n)
        <5>1. p <= q
          <6>1. PageSize * p < PageSize * (q + 1)
            <7>1. PageSize * (q + 1) = PageSize * q + PageSize /\ PageSize * q \in Int
              BY <1>4, <4>1, SMT
            <7> HIDE DEF q
            <7> QED BY <1>3, <1>4, <3>1, <4>1, <7>1
          <6> HIDE DEF q
          <6>2. p < q + 1
            BY <1>3, <4>1, <6>1, PageOrder
          <6> QED BY <1>3, <4>1, <6>2
        <5>2. q < p + n
          <6>1. PageSize * q < PageSize * (p + n)
            <7>1. PageSize * q \in Int /\ Off(v) \in Int /\ Off(v) >= 0
              BY <1>4, <4>1, SMT
            <7> HIDE DEF q
            <7> QED BY <1>5, <3>4, <4>1, <7>1
          <6> HIDE DEF q
          <6> QED BY <1>3, <4>1, <6>1, PageOrder
        <5> HIDE DEF q
        <5> QED BY <1>3, <4>1, <5>1, <5>2 DEF Run
      <4>3. Frame(v) \in DOMAIN mapped' /\ mapped'[q] = M(q)
        BY <1>1, <4>2
      <4>4. first = Frame(c.vaddr) /\ first \in Int /\ c.vaddr = PageSize * first
        <5>1. Size(c) \in Nat
          BY <1>66
        <5>2. end - Size(c) = c.vaddr
          BY <3>1, <3>2, <5>1
        <5> HIDE DEF c
        <5> QED BY <3>2, <5>2, WholeAddress
      <4>5. Frame(c.paddr) \in Int /\ c.paddr = PageSize * Frame(c.paddr)
        <5> HIDE DEF c
        <5> QED BY <3>2, WholeAddress
      <4>6. M(q).flags = flags /\ M(q).pa = Frame(c.paddr) + (q - first)
        BY <3>2
      <4>7. M(q).pa * PageSize + Off(v) = u
        <5> DEFINE f == Frame(c.paddr)
        <5>1. (f + (q - first)) * PageSize = PageSize * f + (PageSize * q - PageSize * first)
              /\ PageSize * f \in Int /\ PageSize * q \in Int /\ PageSize * first \in Int
          <6> HIDE DEF f, q, first
          <6>1. f \in Int /\ q \in Int /\ first \in Int /\ PageSize \in Int
            BY <1>4, <4>1, <4>4, <4>5 DEF f
          <6> QED BY <6>1, Distribute
        <5> DEFINE x == PageSize * f
                   y == PageSize * q
                   z == PageSize * first
        <5>2. M(q).pa * PageSize = x + (y - z)
          BY <4>6, <5>1
        <5>3. c.paddr = x /\ v = y + Off(v) /\ c.vaddr = z /\ {x, y, z} \subseteq Int
              /\ u = c.paddr + (v - c.vaddr) /\ Off(v) \in Int /\ u \in Int
          BY <3>2, <4>1, <4>4, <4>5, <5>1
        <5> HIDE DEF x, y, z, f, q, first, M, c
        <5> QED BY <5>2, <5>3
      <4> HIDE DEF M
      <4>8. Shows(v, u, flags)'
        BY <4>3, <4>6, <4>7 DEF Shows, Frame, Off
      <4> QED BY <4>8 DEF Found
    <3> QED BY <1>5, <3>3, <3>4
  <2> QED BY <1>7, <2>1, <2>2 DEF Found
<1> QED BY <1>1, <1>2, <1>7, ElfStays

\* When aarch64_map() returns, all of its call is done.
LEMMA ElfReturn == IInv /\ ElfInv /\ InputAssumption /\ LayoutAssumption /\ MapReturn => ElfInv'
<1> SUFFICES ASSUME IInv, ElfInv, InputAssumption, LayoutAssumption, MapReturn PROVE ElfInv'
  OBVIOUS
<1>1. /\ pc = "loop" /\ va >= end /\ pc' = "map"
      /\ UNCHANGED <<file, ram, free, k, half, boot_vaddr, mapped>>
  BY DEF MapReturn, confVars, elfVars
<1>2. file \in Files /\ va \in Int /\ Running
  BY <1>1 DEF IInv, StateInv, Running
<1>3. Size(Head(todo)) \in Nat /\ end \in Int
  BY <1>1, <1>2 DEF IInv, LoopInv
<1>4. ASSUME NEW v \in Nat, NEW u \in 0 .. UserEnd - 1, NEW flags, Found(v, u, flags)
      PROVE  Found(v, u, flags)'
  <2>1. ~ WillShow(v, u, flags)
    <3> SUFFICES ASSUME WillShow(v, u, flags) PROVE FALSE
      OBVIOUS
    <3>1. va <= v /\ v < Head(todo).vaddr + Size(Head(todo)) /\ end = Head(todo).vaddr + Size(Head(todo))
      BY <1>1 DEF WillShow, Promised
    <3> QED BY <1>1, <1>2, <1>3, <3>1
  <2> QED BY <1>1, <1>4, <2>1, SameFound DEF Found
<1> QED BY <1>1, <1>2, <1>4, ElfStays

\* Calls for other callers, and an early end, leave all of it alone.
LEMMA ElfOthers ==
  ASSUME IInv, ElfInv, InputAssumption, LayoutAssumption,
         \/ \E q \in Callouts : CalloutMap(q)
         \/ OutOfMemory \/ UNCHANGED vars
  PROVE  ElfInv'
<1>1. file \in Files
  BY DEF IInv, StateInv
<1>2. CASE \E q \in Callouts : CalloutMap(q)
  <2>1. /\ pc = "map" /\ pc' = pc /\ todo = << >>
        /\ UNCHANGED <<file, ram, free, k, half, boot_vaddr, mapped>>
    BY <1>2 DEF CalloutMap, Idle, confVars, elfVars, histVars
  <2>2. \A v \in Nat : \A u \in 0 .. UserEnd - 1 : \A flags : Found(v, u, flags) => Found(v, u, flags)'
    BY <2>1, SameFound DEF Found, WillShow
  <2> QED BY <1>1, <2>1, <2>2, ElfStays
<1>3. CASE OutOfMemory
  <2>1. pc' = "crashed" /\ UNCHANGED <<file, ram, free, k, half, boot_vaddr>>
    BY <1>3 DEF OutOfMemory, confVars, elfVars
  <2> QED BY <1>1, <2>1, ElfStays
<1>4. CASE UNCHANGED vars
  <2>1. UNCHANGED <<file, ram, free, k, half, boot_vaddr, mapped, pc, todo, va, end>>
    BY <1>4 DEF vars, confVars, elfVars, histVars, callVars
  <2>2. UserEnd' = UserEnd /\ \A s, i : Content(s, i)' = Content(s, i) /\ (Dealt(s, i)' <=> Dealt(s, i))
    BY <2>1 DEF Content, Dealt, Lead, InPlace, Filesz, Whole, Seg, UserEnd, Zero, Off, TruncPg, RoundPg
  <2>3. \A v, u, flags : Found(v, u, flags)' <=> Found(v, u, flags)
    BY <2>1, SameFound DEF Found, WillShow
  <2>4. \A s, i : Loaded(s, i)' <=> Loaded(s, i)
    BY <2>1, <2>2, <2>3 DEF Loaded, Frame
  <2>5. LoadedInv'
    BY <2>1, <2>2, <2>4 DEF ElfInv, LoadedInv
  <2>6. SourceInv' /\ RangeInv'
    BY <2>1 DEF ElfInv, SourceInv, RangeInv, Source, UserEnd
  <2> QED BY <2>5, <2>6 DEF ElfInv
<1> QED BY <1>2, <1>3, <1>4

-----------------------------------------------------------------------------
\* Whole pages: their sums, differences and rounding.
LEMMA WholeSums ==
  ASSUME NEW a \in Nat, NEW b \in Nat, a % PageSize = 0, b % PageSize = 0
  PROVE  (a + b) % PageSize = 0 /\ RoundPg(a) = a
<1> DEFINE x == Frame(a)
           y == Frame(b)
<1>1. a = PageSize * x /\ b = PageSize * y /\ x \in Int /\ y \in Int
  BY WholeAddress
<1>2. PageSize \in Nat \ {0}
  BY Geometry
<1> HIDE DEF x, y
<1>3. a + b = PageSize * (x + y)
  BY <1>1, <1>2, SMT
<1>4. (a + b) % PageSize = 0
  BY <1>1, <1>3, WholePages
<1>5. RoundPg(a) = TruncPg(PageSize * x + (PageSize - 1))
  BY <1>1, <1>2 DEF RoundPg
<1>6. PageSize - 1 \in 0 .. PageSize - 1
  BY <1>2
<1>7. Frame(PageSize * x + (PageSize - 1)) = x /\ PageSize * x + (PageSize - 1) \in Int
  BY <1>1, <1>2, <1>6, PageNumber
<1>8. TruncPg(PageSize * x + (PageSize - 1)) = PageSize * x
  BY <1>7, Address
<1> QED BY <1>1, <1>4, <1>5, <1>8

\* An address is the base of its page and an offset.
LEMMA Split ==
  ASSUME NEW a \in Nat
  PROVE  /\ TruncPg(a) \in Nat /\ TruncPg(a) % PageSize = 0 /\ a = TruncPg(a) + Off(a)
         /\ Off(a) \in Nat /\ Off(a) < PageSize
<1>1. a \in Int /\ a >= 0
  OBVIOUS
<1>2. /\ Frame(a) \in Int /\ Off(a) \in 0 .. PageSize - 1 /\ a = PageSize * Frame(a) + Off(a)
      /\ Frame(a) >= 0 /\ TruncPg(a) = PageSize * Frame(a)
  BY <1>1, Address, Zenon
<1>3. PageSize * Frame(a) \in Int /\ (PageSize * Frame(a)) % PageSize = 0 /\ PageSize * Frame(a) >= 0
  BY <1>2, WholePages
<1>4. PageSize \in Nat
  BY Geometry
<1> HIDE DEF Frame, Off, TruncPg
<1> QED BY <1>2, <1>3, <1>4

\* What calloc_ram() gives was free, and is cleared; all else stays.
LEMMA Allocated ==
  ASSUME InputAssumption, FramesInv, DOMAIN ram = 0 .. UserEnd - 1, NEW n \in Nat, Fits(n) # {},
         NEW d, d = CallocRam(n)
  PROVE  /\ d \in Nat /\ d * PageSize \in Nat /\ (d * PageSize) % PageSize = 0
         /\ Run(d, n) \subseteq free
         /\ DOMAIN Cleared(ram, d, n) = 0 .. UserEnd - 1
         /\ \A u \in 0 .. UserEnd - 1 : Frame(u) \notin free => Cleared(ram, d, n)[u] = ram[u]
         /\ \A x \in Nat : x < PageSize * n =>
              /\ d * PageSize + x \in 0 .. UserEnd - 1 /\ Frame(d * PageSize + x) \in Run(d, n)
              /\ Cleared(ram, d, n)[d * PageSize + x] = Zero
<1>1. d \in Nat /\ d * PageSize \in Nat
  BY FoundMemory
<1>2. free \subseteq 0 .. UserPages - 1
  BY DEF FramesInv, InputAssumption, Ram
<1>3. d \in Fits(n)
  <2>0. free \subseteq Nat
    BY DEF FramesInv, InputAssumption, Ram
  <2>1. Fits(n) \in SUBSET Nat
    BY <2>0 DEF Fits
  <2>2. Lowest(Fits(n)) \in Fits(n)
    BY <2>1, LowestIn
  <2> QED BY <2>2 DEF CallocRam, Lowest
<1>4. Run(d, n) \subseteq free
  BY <1>3 DEF Fits
<1>5. PageSize \in Nat \ {0} /\ UserPages \in Nat
  BY Geometry
<1>6. d * PageSize = PageSize * d
  BY <1>1, <1>5, SMT
<1>7. (d * PageSize) % PageSize = 0
  BY <1>1, <1>6, WholePages
<1>8. UserEnd = PageSize * UserPages
  BY <1>5, SMT DEF UserEnd
<1>9. DOMAIN Cleared(ram, d, n) = 0 .. UserEnd - 1
  BY DEF Cleared
<1>10. \A u \in 0 .. UserEnd - 1 : Frame(u) \notin free => Cleared(ram, d, n)[u] = ram[u]
  BY <1>4 DEF Cleared
<1>11. ASSUME NEW x \in Nat, x < PageSize * n
       PROVE  /\ d * PageSize + x \in 0 .. UserEnd - 1 /\ Frame(d * PageSize + x) \in Run(d, n)
              /\ Cleared(ram, d, n)[d * PageSize + x] = Zero
  <2> DEFINE f == Frame(x)
             r == Off(x)
  <2>1. x = PageSize * f + r /\ f \in Int /\ f >= 0 /\ r \in 0 .. PageSize - 1
    <3>1. x \in Int /\ x >= 0
      OBVIOUS
    <3> QED BY <3>1, Address, Zenon
  <2> HIDE DEF f, r
  <2>2. f < n
    <3>1. PageSize * f <= x /\ PageSize * f \in Int /\ PageSize * n \in Int
      BY <1>5, <2>1, WholePages
    <3>2. PageSize * f < PageSize * n
      BY <1>11, <3>1
    <3> QED BY <2>1, <3>2, PageOrder
  <2>3. d * PageSize + x = PageSize * (d + f) + r
    BY <1>1, <1>5, <2>1, SMT
  <2>4. d + f \in Run(d, n) /\ d + f \in Int /\ d + f >= 0
    BY <1>1, <2>1, <2>2 DEF Run
  <2>5. Frame(d * PageSize + x) = d + f
    BY <2>1, <2>3, <2>4, PageNumber
  <2>6. d + f <= UserPages - 1
    BY <1>2, <1>4, <2>4
  <2>7. d * PageSize + x < UserEnd
    <3>0. UserPages - 1 \in Int
      BY <1>5
    <3>1. PageSize * (d + f) <= PageSize * (UserPages - 1) /\ PageSize * (UserPages - 1) \in Int
          /\ PageSize * (d + f) \in Int
      BY <2>4, <2>6, <3>0, PageOrder, WholePages
    <3>2. PageSize * (UserPages - 1) = PageSize * UserPages - PageSize /\ PageSize * UserPages \in Int
      BY <1>5, SMT
    <3> QED BY <1>5, <1>8, <2>1, <2>3, <3>1, <3>2
  <2>8. d * PageSize + x \in 0 .. UserEnd - 1
    <3>1. UserEnd \in Int
      BY <1>5, <1>8, SMT
    <3> QED BY <1>1, <2>7, <3>1
  <2>9. Cleared(ram, d, n)[d * PageSize + x] = Zero
    BY <2>4, <2>5, <2>8 DEF Cleared
  <2> QED BY <2>4, <2>5, <2>8, <2>9
<1> QED BY <1>1, <1>4, <1>7, <1>9, <1>10, <1>11

\* A copy into memory that was given: the first cnt units are those at src,
\* zeroes follow, and what was not free stays.
CopyIn(m, d, n, src, cnt) ==
  /\ DOMAIN m = 0 .. UserEnd - 1
  /\ \A u \in 0 .. UserEnd - 1 : Frame(u) \notin free => m[u] = ram[u]
  /\ \A x \in Nat : x < cnt /\ src + x \in 0 .. UserEnd - 1 /\ Frame(src + x) \notin free =>
       m[d * PageSize + x] = ram[src + x]
  /\ \A x \in Nat : cnt <= x /\ x < PageSize * n => m[d * PageSize + x] = Zero
LEMMA CopiedIs ==
  ASSUME InputAssumption, FramesInv, DOMAIN ram = 0 .. UserEnd - 1, NEW n \in Nat, Fits(n) # {},
         NEW d, d = CallocRam(n), NEW src \in Int, NEW cnt \in Nat, cnt <= PageSize * n,
         NEW m, m = Copied(Cleared(ram, d, n), d * PageSize, src, cnt)
  PROVE  CopyIn(m, d, n, src, cnt)
<1> DEFINE c == Cleared(ram, d, n)
           b == d * PageSize
<1>1. /\ d \in Nat /\ b \in Nat /\ Run(d, n) \subseteq free /\ DOMAIN c = 0 .. UserEnd - 1
      /\ \A u \in 0 .. UserEnd - 1 : Frame(u) \notin free => c[u] = ram[u]
      /\ \A x \in Nat : x < PageSize * n =>
           b + x \in 0 .. UserEnd - 1 /\ Frame(b + x) \in Run(d, n) /\ c[b + x] = Zero
  BY Allocated
<1> HIDE DEF c, b
<1>2. m = [u \in 0 .. UserEnd - 1 |-> IF u \in Run(b, cnt) THEN c[src + (u - b)] ELSE c[u]]
  BY <1>1 DEF Copied, c, b
<1>3. PageSize * n \in Int
  <2>1. n \in Int
    OBVIOUS
  <2> QED BY <2>1, WholePages
<1>4. ASSUME NEW u \in 0 .. UserEnd - 1, Frame(u) \notin free PROVE m[u] = ram[u]
  <2>1. u \notin Run(b, cnt)
    <3> SUFFICES ASSUME u \in Run(b, cnt) PROVE FALSE
      OBVIOUS
    <3> DEFINE x == u - b
    <3>1. x \in Nat /\ x < cnt /\ u = b + x
      BY <1>1 DEF Run
    <3> HIDE DEF x
    <3>2. x < PageSize * n
      BY <1>3, <3>1
    <3> QED BY <1>1, <1>4, <3>1, <3>2
  <2> QED BY <1>1, <1>2, <1>4, <2>1
<1>5. ASSUME NEW x \in Nat, x < cnt, src + x \in 0 .. UserEnd - 1, Frame(src + x) \notin free
      PROVE  m[b + x] = ram[src + x]
  <2>1. b + x \in 0 .. UserEnd - 1
    BY <1>1, <1>3, <1>5
  <2>2. b + x \in Run(b, cnt) /\ src + ((b + x) - b) = src + x
    BY <1>1, <1>5 DEF Run
  <2>3. m[b + x] = c[src + x]
    BY <1>2, <2>1, <2>2
  <2> QED BY <1>1, <1>5, <2>3
<1>6. ASSUME NEW x \in Nat, cnt <= x, x < PageSize * n PROVE m[b + x] = Zero
  <2>1. b + x \in 0 .. UserEnd - 1 /\ c[b + x] = Zero
    BY <1>1, <1>6
  <2>2. b + x \notin Run(b, cnt)
    BY <1>1, <1>6 DEF Run
  <2> QED BY <1>2, <2>1, <2>2
<1> QED BY <1>2, <1>4, <1>5, <1>6 DEF b, CopyIn

\* Steps of the callers: memory that was not free stays, and so do the files
\* in the image and what has been loaded.
LEMMA MemoryKept ==
  ASSUME IInv, ElfInv, InputAssumption, LayoutAssumption, Idle, pc' = "map",
         UNCHANGED <<file, mapped>>, free' \subseteq free, DOMAIN ram' = 0 .. UserEnd - 1,
         \A u \in 0 .. UserEnd - 1 : Frame(u) \notin free => ram'[u] = ram[u]
  PROVE  /\ SourceInv'
         /\ \A s \in 1 .. Len(file) : \A i \in 0 .. file[s].memsz - 1 :
              Dealt(s, i) => Loaded(s, i)'
<1>1. file \in Files /\ free \subseteq Ram /\ UserEnd' = UserEnd
  BY DEF IInv, StateInv, FramesInv, UserEnd
<1>2. ASSUME NEW s \in 1 .. Len(file), NEW i \in 0 .. file[s].filesz - 1
      PROVE  ram'[Source(file[s]) + i] = <<s, i>>
  <2>1. Source(file[s]) + i \in 0 .. UserEnd - 1 /\ Frame(Source(file[s]) + i) \notin free
    BY <1>1, FileIs
  <2>2. ram[Source(file[s]) + i] = <<s, i>>
    BY DEF ElfInv, SourceInv
  <2> QED BY <2>1, <2>2
<1>3. SourceInv'
  BY <1>1, <1>2 DEF SourceInv, Source
<1>4. ASSUME NEW s \in 1 .. Len(file), NEW i \in 0 .. file[s].memsz - 1, Dealt(s, i)
      PROVE  Loaded(s, i)'
  <2>1. Loaded(s, i)
    BY <1>4 DEF ElfInv, LoadedInv, Idle
  <2>2. PICK u \in 0 .. UserEnd - 1 :
          /\ ram[u] = Content(s, i) /\ Frame(u) \notin free
          /\ Found(file[s].vaddr + i, u, file[s].flags)
    BY <2>1 DEF Loaded
  <2>3. Shows(file[s].vaddr + i, u, file[s].flags)
    BY <2>2 DEF Found, WillShow, Idle
  <2>4. Found(file[s].vaddr + i, u, file[s].flags)'
    BY <2>3, SameFound DEF Found
  <2>5. Content(s, i)' = Content(s, i)
    BY DEF Content, Zero
  <2>6. ram'[u] = Content(s, i)' /\ Frame(u)' \notin free'
    BY <2>2, <2>5 DEF Frame
  <2> QED BY <1>1, <2>4, <2>6 DEF Loaded
<1> QED BY <1>3, <1>4

\* A call that aarch64_map() is going to do loads what it is for.
LEMMA CallLoads ==
  ASSUME pc' = "map", file' = file, NEW a \in Nat, NEW b \in Nat, NEW size \in Nat, NEW flags,
         a % PageSize = 0, b % PageSize = 0, todo' = <<Call(a, b, size, flags)>>,
         NEW s, NEW i, NEW x \in Nat, x < RoundPg(size), file[s].vaddr + i = a + x,
         b + x \in 0 .. UserEnd - 1, ram'[b + x] = Content(s, i), Frame(b + x) \notin free',
         file[s].flags = flags
  PROVE  Loaded(s, i)'
<1> DEFINE c == Call(a, b, size, flags)
           v == a + x
<1>1. c.vaddr = a /\ c.paddr = b /\ c.size = size /\ c.flags = flags
  BY DEF Call
<1>2. Size(c) = RoundPg(size)
  <2>1. Off(b) = 0
    BY DEF Off
  <2>2. c.size + Off(c.paddr) = size
    BY <1>1, <2>1
  <2> QED BY <2>2 DEF Size
<1> HIDE DEF c
<1>3. RoundPg(size) \in Nat
  BY Rounded
<1>4. /\ c.vaddr <= v /\ v < c.vaddr + Size(c) /\ b + x = c.paddr + (v - c.vaddr)
  BY <1>1, <1>2, <1>3
<1>5. Promised(c, v, b + x, flags)
  BY <1>1, <1>4 DEF Promised
<1>6. todo' = <<c>> /\ todo' # << >> /\ Head(todo') = c
  BY DEF c
<1> HIDE DEF v
<1>7. Promised(c, v, b + x, flags)'
  BY <1>5 DEF Promised, Size, RoundPg, TruncPg, Off
<1>8. WillShow(v, b + x, flags)'
  BY <1>6, <1>7 DEF WillShow
<1>9. Found(v, b + x, flags)'
  BY <1>8 DEF Found
<1>10. Content(s, i)' = Content(s, i) /\ UserEnd' = UserEnd
  BY DEF Content, Zero, UserEnd
<1>11. v = file[s].vaddr + i
  BY DEF v
<1> QED BY <1>9, <1>10, <1>11 DEF Loaded, Frame

\* The range for the kernel has the segment at hand, and those before it.
LEMMA RangeStep ==
  ASSUME InputAssumption, LayoutAssumption, file \in Files, RangeInv, k \in 1 .. Len(file), ~ half,
         BootRange, file' = file, (k' = k /\ half') \/ (k' = k + 1 /\ ~ half')
  PROVE  RangeInv'
<1> DEFINE v == TruncPg(Seg.vaddr)
           e == v + Seg.memsz + Lead
           b1 == boot_vaddr[1]
           b2 == boot_vaddr[2]
           c1 == IF b1 = 0 \/ b1 > v THEN v ELSE b1
           c2 == IF b2 < e THEN e ELSE b2
<1>1. /\ Seg.vaddr \in Nat /\ Seg.memsz \in Nat /\ Seg.vaddr >= PageSize /\ k \in Int
      /\ Seg = file[k]
  <2>1. file[k].vaddr \in Nat /\ file[k].memsz \in Nat /\ file[k].vaddr >= PageSize
    BY FileIs
  <2>2. file \in Seq(Header)
    BY DEF InputAssumption
  <2>3. Len(file) \in Nat
    BY <2>2
  <2> QED BY <2>1, <2>3 DEF Seg
<1>2. v \in Nat /\ Lead \in Nat /\ Seg.vaddr = v + Lead /\ Lead < PageSize
  BY <1>1, Split DEF Lead
<1>3. boot_vaddr' = <<c1, c2>>
  BY DEF BootRange
<1>4. b1 \in Nat /\ b2 \in Nat
  BY DEF RangeInv
<1>5. PageSize \in Nat
  BY Geometry
<1> HIDE DEF v, b1, b2
<1>6. v # 0 /\ v <= Seg.vaddr /\ e = Seg.vaddr + Seg.memsz /\ e \in Nat
  BY <1>1, <1>2, <1>5, SMTT(30)
<1> HIDE DEF e
<1>7. /\ c1 \in Nat /\ c2 \in Nat /\ c1 # 0 /\ c1 <= v /\ e <= c2
      /\ b1 # 0 => c1 <= b1
      /\ b2 <= c2
  BY <1>2, <1>4, <1>6
<1> HIDE DEF c1, c2
<1>8. boot_vaddr' \in Nat \X Nat /\ boot_vaddr'[1] = c1 /\ boot_vaddr'[2] = c2
  BY <1>3, <1>7
<1>9. ASSUME NEW s \in 1 .. Len(file), s < k' \/ (half' /\ s = k')
      PROVE  c1 <= file[s].vaddr /\ file[s].vaddr + file[s].memsz <= c2
  <2>1. file[s].vaddr \in Nat /\ file[s].memsz \in Nat
    BY FileIs
  <2>2. CASE s = k
    BY <1>1, <1>2, <1>6, <1>7, <2>2
  <2>3. CASE s # k
    <3>1. s < k
      BY <1>1, <1>9, <2>3
    <3>2. b1 # 0 /\ b1 <= file[s].vaddr /\ file[s].vaddr + file[s].memsz <= b2
      BY <3>1 DEF RangeInv, b1, b2
    <3> QED BY <1>4, <1>7, <2>1, <3>2
  <2> QED BY <2>2, <2>3
<1> QED BY <1>7, <1>8, <1>9 DEF RangeInv

\* No range is added for the rest of a segment, and for the system page.
LEMMA SameRange ==
  ASSUME RangeInv, UNCHANGED <<file, boot_vaddr>>, \A s \in 1 .. Len(file) :
           s < k' \/ (half' /\ s = k') => s < k \/ (half /\ s = k)
  PROVE  RangeInv'
BY DEF RangeInv

\* How load_elf64mmu() divides the segment at hand.
LEMMA SegmentParts ==
  ASSUME InputAssumption, LayoutAssumption, file \in Files, k \in 1 .. Len(file)
  PROVE  /\ Seg.vaddr \in Nat /\ Seg.paddr \in Nat /\ Seg.src \in Nat
         /\ Seg.filesz \in Nat /\ Seg.memsz \in Nat /\ Filesz \in Nat /\ Memsz \in Nat
         /\ InPlace \in Nat /\ Lead \in Nat /\ TruncPg(Seg.vaddr) \in Nat
         /\ TruncPg(Seg.paddr) \in Nat /\ Off(Filesz) \in Nat
         /\ Seg = file[k] /\ Seg.vaddr = TruncPg(Seg.vaddr) + Lead /\ TruncPg(Seg.vaddr) % PageSize = 0
         /\ Seg.filesz <= Seg.memsz /\ Filesz <= Memsz /\ Lead + Seg.memsz <= Memsz
         /\ InPlace % PageSize = 0 /\ Filesz = InPlace + Off(Filesz) /\ (Whole => InPlace = Memsz)
         /\ \A i \in 0 .. Seg.memsz - 1 : Lead + i < Filesz <=> i < Seg.filesz
         /\ Seg.paddr # 0 => /\ Seg.paddr = TruncPg(Seg.paddr) + Lead /\ TruncPg(Seg.paddr) % PageSize = 0
                             /\ Source(Seg) = Seg.paddr
         /\ Seg.paddr = 0 => Source(Seg) = Seg.src
<1> DEFINE a == Seg.filesz + Lead
           b == Seg.memsz + Lead
<1>1. /\ Seg.vaddr \in Nat /\ Seg.paddr \in Nat /\ Seg.src \in Nat /\ Seg.filesz \in Nat
      /\ Seg.memsz \in Nat /\ Lead \in Nat /\ Seg.filesz <= Seg.memsz /\ Seg = file[k]
  BY Segment, Zenon DEF Seg
<1>2. Seg.paddr # 0 => Off(Seg.paddr) = Lead
  BY FileIs, Zenon DEF Seg, Lead
<1>3. Whole => Seg.memsz = Seg.filesz
  BY DEF Whole
<1>4. Filesz = (IF Whole THEN RoundPg(a) ELSE a) /\ Memsz = IF Whole THEN RoundPg(a) ELSE b
  BY DEF Filesz, Memsz
<1>5. /\ TruncPg(Seg.vaddr) \in Nat /\ TruncPg(Seg.vaddr) % PageSize = 0
      /\ Seg.vaddr = TruncPg(Seg.vaddr) + Lead
      /\ TruncPg(Seg.paddr) \in Nat /\ TruncPg(Seg.paddr) % PageSize = 0
      /\ Seg.paddr = TruncPg(Seg.paddr) + Off(Seg.paddr)
  BY <1>1, Split, Zenon DEF Lead
<1>6. Source(Seg) = IF Seg.paddr # 0 THEN Seg.paddr ELSE Seg.src
  BY Zenon DEF Source
<1> HIDE DEF Seg, Lead, Whole, Filesz, Memsz
<1>7. a \in Nat /\ b \in Nat /\ a <= b
  BY <1>1
<1>8. RoundPg(a) \in Nat /\ RoundPg(a) % PageSize = 0 /\ a <= RoundPg(a)
  BY <1>7, Rounded
<1>9. Filesz \in Nat /\ Memsz \in Nat /\ Filesz <= Memsz
  BY <1>4, <1>7, <1>8
<1>10. Lead + Seg.memsz <= Memsz
  BY <1>1, <1>3, <1>4, <1>8
<1>11. ASSUME NEW i \in 0 .. Seg.memsz - 1 PROVE Lead + i < Filesz <=> i < Seg.filesz
  BY <1>1, <1>3, <1>4, <1>8
<1>12. /\ InPlace \in Nat /\ InPlace % PageSize = 0 /\ Filesz = InPlace + Off(Filesz)
       /\ Off(Filesz) \in Nat
  BY <1>9, Split DEF InPlace
<1>13. Whole => InPlace = Memsz
  BY <1>4, <1>8, WholeAddress DEF InPlace
<1> HIDE DEF a, b, InPlace
<1> QED BY <1>1, <1>2, <1>5, <1>6, <1>9, <1>10, <1>11, <1>12, <1>13, Zenon

\* What of the file is in the image, for the segment at hand.
LEMMA InImage ==
  ASSUME ElfInv, InputAssumption, LayoutAssumption, FramesInv, file \in Files, k \in 1 .. Len(file),
         NEW i \in 0 .. Seg.filesz - 1
  PROVE  /\ Source(Seg) + i \in 0 .. UserEnd - 1 /\ Frame(Source(Seg) + i) \notin free
         /\ ram[Source(Seg) + i] = <<k, i>>
<1>1. Seg = file[k]
  BY DEF Seg
<1>2. Source(Seg) + i \in 0 .. UserEnd - 1 /\ Frame(Source(Seg) + i) \notin Ram
  BY <1>1, FileIs
<1>3. ram[Source(Seg) + i] = <<k, i>>
  BY <1>1 DEF ElfInv, SourceInv
<1> QED BY <1>2, <1>3 DEF FramesInv

\* Pages that are used in place have what the file has there.
LEMMA ElfPlace == IInv /\ ElfInv /\ InputAssumption /\ LayoutAssumption /\ MapInPlace => ElfInv'
<1> SUFFICES ASSUME IInv, ElfInv, InputAssumption, LayoutAssumption, MapInPlace PROVE ElfInv'
  OBVIOUS
<1> DEFINE a == TruncPg(Seg.vaddr)
           b == TruncPg(Seg.paddr)
<1>1. /\ Idle /\ k <= Len(file) /\ Seg.paddr # 0 /\ ~ half /\ half' = TRUE /\ k' = k /\ BootRange
      /\ pc' = "map" /\ UNCHANGED <<file, mapped, ram, free>>
      /\ todo' = <<Call(a, b, InPlace, Seg.flags)>>
  BY DEF MapInPlace, Idle, confVars, histVars
<1>2. file \in Files /\ FramesInv /\ k \in 1 .. Len(file) + 2
  BY DEF IInv, StateInv
<1>3. k \in 1 .. Len(file) /\ Len(file) \in Nat
  <2>1. Len(file) \in Nat
    BY <1>2 DEF InputAssumption
  <2> QED BY <1>1, <1>2, <2>1
<1>4. /\ Seg.vaddr \in Nat /\ Seg.paddr \in Nat /\ Seg.filesz \in Nat
      /\ Seg.memsz \in Nat /\ Filesz \in Nat /\ Memsz \in Nat /\ InPlace \in Nat
      /\ Lead \in Nat /\ a \in Nat /\ b \in Nat /\ Off(Filesz) \in Nat
      /\ Seg = file[k] /\ Seg.vaddr = a + Lead /\ a % PageSize = 0 /\ Filesz = InPlace + Off(Filesz)
      /\ InPlace % PageSize = 0 /\ Seg.paddr = b + Lead /\ b % PageSize = 0 /\ Source(Seg) = Seg.paddr
      /\ \A i \in 0 .. Seg.memsz - 1 : Lead + i < Filesz <=> i < Seg.filesz
  BY <1>1, <1>2, <1>3, SegmentParts
<1>5. /\ SourceInv'
      /\ \A s \in 1 .. Len(file) : \A i \in 0 .. file[s].memsz - 1 : Dealt(s, i) => Loaded(s, i)'
  <2>1. DOMAIN ram = 0 .. UserEnd - 1
    BY DEF ElfInv, SourceInv
  <2> QED BY <1>1, <2>1, MemoryKept
<1>6. RangeInv'
  <2>1. RangeInv
    BY DEF ElfInv
  <2> QED BY <1>1, <1>2, <1>3, <2>1, RangeStep
<1>7. Lead' = Lead /\ InPlace' = InPlace
  BY <1>1 DEF Lead, InPlace, Filesz, Whole, Seg, Off, TruncPg, RoundPg
<1>8. ASSUME NEW s, s = k, NEW i \in 0 .. Seg.memsz - 1, Lead + i < InPlace PROVE Loaded(s, i)'
  <2> DEFINE x == Lead + i
  <2> HIDE DEF a, b, Seg, Lead, InPlace, Filesz, Memsz
  <2>0. i \in Nat /\ x \in Nat /\ x < InPlace /\ x < Filesz
    <3>1. /\ Seg.memsz \in Nat /\ Lead \in Nat /\ InPlace \in Nat /\ Off(Filesz) \in Nat
          /\ Filesz = InPlace + Off(Filesz) /\ i \in 0 .. Seg.memsz - 1 /\ Lead + i < InPlace
      BY <1>4, <1>8
    <3> QED BY ONLY <3>1
  <2>1. i \in Nat /\ x \in Nat /\ x < InPlace /\ i < Seg.filesz
    BY <1>4, <2>0
  <2>2. i \in 0 .. Seg.filesz - 1
    <3>1. Seg.filesz \in Nat
      BY <1>4
    <3>2. i \in Nat /\ i < Seg.filesz
      BY <2>1
    <3> QED BY ONLY <3>1, <3>2
  <2>3. Seg.vaddr + i = a + x /\ b + x = Source(Seg) + i
    BY <1>4, <2>1
  <2>4. b + x \in 0 .. UserEnd - 1 /\ Frame(b + x) \notin free /\ ram[b + x] = <<s, i>>
    BY <1>2, <1>3, <1>8, <2>2, <2>3, InImage
  <2>5. Content(s, i) = <<s, i>>
    BY <1>4, <1>8, <2>1 DEF Content
  <2> HIDE DEF x
  <2>6. x < RoundPg(InPlace)
    BY <1>4, <2>1, WholeSums
  <2>7. file[s].vaddr + i = a + x /\ file[s].flags = Seg.flags
    BY <1>4, <1>8, <2>3
  <2>8. a \in Nat /\ b \in Nat /\ InPlace \in Nat
    BY <1>4
  <2> QED BY <1>1, <1>4, <2>1, <2>4, <2>5, <2>6, <2>7, <2>8, CallLoads, ZenonT(40)
<1>9. LoadedInv'
  <2> SUFFICES ASSUME NEW s \in 1 .. Len(file), NEW i \in 0 .. file[s].memsz - 1, Dealt(s, i)'
               PROVE  Loaded(s, i)'
    BY <1>1 DEF LoadedInv
  <2>1. s < k \/ (s = k /\ Lead + i < InPlace)
    BY <1>1, <1>7 DEF Dealt
  <2>2. CASE s < k
    BY <1>5, <2>2 DEF Dealt
  <2>3. CASE s = k /\ Lead + i < InPlace
    <3>1. i \in 0 .. Seg.memsz - 1
      BY <1>4, <2>3, Zenon
    <3> QED BY <1>8, <2>3, <3>1
  <2> QED BY <2>1, <2>2, <2>3
<1> QED BY <1>5, <1>6, <1>9 DEF ElfInv

\* The rest of such a segment, if there is any, gets memory of its own.
LEMMA ElfRest == IInv /\ ElfInv /\ InputAssumption /\ LayoutAssumption /\ MapRest => ElfInv'
<1> SUFFICES ASSUME IInv, ElfInv, InputAssumption, LayoutAssumption, MapRest PROVE ElfInv'
  OBVIOUS
<1> DEFINE v == TruncPg(Seg.vaddr)
           p == TruncPg(Seg.paddr)
           rest == RoundPg(Memsz - InPlace)
           n == Frame(rest)
           d == CallocRam(n)
           a == v + InPlace
           b == d * PageSize
           src == p + InPlace
<1>1. /\ Idle /\ half /\ k' = k + 1 /\ ~ half' /\ pc' = "map" /\ UNCHANGED <<file, mapped, boot_vaddr>>
      /\ IF rest = 0 THEN UNCHANGED <<todo, ram, free>>
         ELSE /\ Fits(n) # {}
              /\ ram' = Copied(Cleared(ram, d, n), b, src, Off(Filesz))
              /\ free' = free \ Run(d, n)
              /\ todo' = <<Call(a, b, rest, Seg.flags)>>
  BY DEF MapRest, Idle, confVars, histVars
<1>2. file \in Files /\ FramesInv /\ k \in 1 .. Len(file) + 2 /\ k <= Len(file) /\ Seg.paddr # 0
  BY <1>1 DEF IInv, StateInv, Seg
<1>3. k \in 1 .. Len(file) /\ Len(file) \in Nat
  <2>1. Len(file) \in Nat
    BY <1>2 DEF InputAssumption
  <2> QED BY <1>2, <2>1
<1>4. /\ Seg.vaddr \in Nat /\ Seg.paddr \in Nat /\ Seg.filesz \in Nat
      /\ Seg.memsz \in Nat /\ Filesz \in Nat /\ Memsz \in Nat /\ InPlace \in Nat
      /\ Lead \in Nat /\ v \in Nat /\ p \in Nat /\ Off(Filesz) \in Nat
      /\ Seg = file[k] /\ Seg.vaddr = v + Lead /\ v % PageSize = 0 /\ Filesz = InPlace + Off(Filesz)
      /\ InPlace % PageSize = 0 /\ Seg.paddr = p + Lead /\ p % PageSize = 0 /\ Source(Seg) = Seg.paddr
      /\ Filesz <= Memsz /\ Lead + Seg.memsz <= Memsz /\ Seg.filesz <= Seg.memsz
      /\ \A i \in 0 .. Seg.memsz - 1 : Lead + i < Filesz <=> i < Seg.filesz
  BY <1>2, <1>3, SegmentParts
<1>5. DOMAIN ram = 0 .. UserEnd - 1
  BY DEF ElfInv, SourceInv
<1> HIDE DEF v, p, Seg, Lead, InPlace, Filesz, Memsz
<1>6. Memsz - InPlace \in Nat
  BY <1>4
<1>7. rest \in Nat /\ rest % PageSize = 0 /\ Memsz - InPlace <= rest /\ rest = PageSize * n /\ n \in Nat
  BY <1>6, Rounded
<1> HIDE DEF rest
<1>8. ASSUME rest # 0
      PROVE  /\ d \in Nat /\ b \in Nat /\ b % PageSize = 0
             /\ \A x \in Nat : x < PageSize * n =>
                  b + x \in 0 .. UserEnd - 1 /\ Frame(b + x) \in Run(d, n)
             /\ CopyIn(ram', d, n, src, Off(Filesz))
  <2>1. Fits(n) # {} /\ ram' = Copied(Cleared(ram, d, n), b, src, Off(Filesz))
    BY <1>1, <1>8
  <2>2. Off(Filesz) \in Nat /\ src \in Int /\ Off(Filesz) <= PageSize * n
    BY <1>4, <1>7
  <2>3. d = CallocRam(n)
    OBVIOUS
  <2> HIDE DEF n, d
  <2>4. /\ d \in Nat /\ b \in Nat /\ b % PageSize = 0
        /\ \A x \in Nat : x < PageSize * n => b + x \in 0 .. UserEnd - 1 /\ Frame(b + x) \in Run(d, n)
    BY <1>2, <1>5, <1>7, <2>1, <2>3, Allocated
  <2> HIDE DEF src
  <2>5. CopyIn(ram', d, n, src, Off(Filesz))
    BY <1>2, <1>5, <1>7, <2>1, <2>2, <2>3, CopiedIs
  <2> QED BY <2>4, <2>5
<1>9. /\ SourceInv'
      /\ \A s \in 1 .. Len(file) : \A i \in 0 .. file[s].memsz - 1 : Dealt(s, i) => Loaded(s, i)'
  <2>1. free' \subseteq free /\ DOMAIN ram' = 0 .. UserEnd - 1
        /\ \A u \in 0 .. UserEnd - 1 : Frame(u) \notin free => ram'[u] = ram[u]
    BY <1>1, <1>5, <1>8 DEF CopyIn
  <2> QED BY <1>1, <2>1, MemoryKept
<1>10. RangeInv'
  <2>1. RangeInv /\ k \in Int
    BY <1>2 DEF ElfInv
  <2>2. ASSUME NEW s \in 1 .. Len(file), s < k' PROVE s < k \/ s = k
    BY <1>1, <2>1, <2>2
  <2> QED BY <1>1, <2>1, <2>2, SameRange
<1>11. ASSUME NEW s, s = k, NEW i \in 0 .. Seg.memsz - 1, ~ (Lead + i < InPlace) PROVE Loaded(s, i)'
  <2> DEFINE x == Lead + i - InPlace
  <2>00. i \in Nat /\ i < Seg.memsz /\ Lead + i >= InPlace
    <3>1. /\ Seg.memsz \in Nat /\ Lead \in Nat /\ InPlace \in Nat
          /\ i \in 0 .. Seg.memsz - 1 /\ ~ (Lead + i < InPlace)
      BY <1>4, <1>11
    <3> QED BY ONLY <3>1
  <2>01. /\ Seg.memsz \in Nat /\ Lead \in Nat /\ InPlace \in Nat /\ Memsz \in Nat
         /\ Lead + Seg.memsz <= Memsz
    BY <1>4
  <2>0. i \in Nat /\ x \in Nat /\ x < Memsz - InPlace
    <3> HIDE DEF Seg, Lead, InPlace, Memsz
    <3> QED BY ONLY <2>00, <2>01
  <2>1. i \in Nat /\ x \in Nat /\ x < Memsz - InPlace /\ x < rest /\ rest # 0
    BY <1>6, <1>7, <2>0
  <2>2. Seg.vaddr + i = a + x /\ a \in Nat
    BY <1>4, <2>1, SMTT(30)
  <2>3. b + x \in 0 .. UserEnd - 1 /\ Frame(b + x) \in Run(d, n) /\ b \in Nat /\ b % PageSize = 0
    BY <1>7, <1>8, <2>1
  <2>4. Frame(b + x) \notin free'
    BY <1>1, <2>1, <2>3
  <2>5. ram'[b + x] = Content(s, i)
    <3>1. CASE i < Seg.filesz
      <4>0. Lead + i < Filesz
        BY <1>4, <3>1
      <4>1. x < Off(Filesz) /\ src + x = Source(Seg) + i
        <5>1. x < Off(Filesz)
          BY <1>4, <2>1, <4>0
        <5>2. src + x = Source(Seg) + i
          BY <1>4, <2>1
        <5> QED BY <5>1, <5>2
      <4>2. i \in 0 .. Seg.filesz - 1
        BY <1>4, <2>1, <3>1
      <4>3. /\ Source(Seg) + i \in 0 .. UserEnd - 1 /\ Frame(Source(Seg) + i) \notin free
            /\ ram[Source(Seg) + i] = <<k, i>>
        BY <1>2, <1>3, <4>2, InImage
      <4>4. ram'[b + x] = <<k, i>>
        BY <1>8, <2>1, <4>1, <4>3 DEF CopyIn
      <4> QED BY <1>4, <1>11, <3>1, <4>4 DEF Content
    <3>2. CASE ~ (i < Seg.filesz)
      <4>1. Off(Filesz) <= x
        BY <1>4, <2>1, <3>2, SMTT(30)
      <4>2. ram'[b + x] = Zero
        BY <1>7, <1>8, <2>1, <4>1 DEF CopyIn
      <4> QED BY <1>4, <1>11, <3>2, <4>2 DEF Content
    <3> QED BY <3>1, <3>2
  <2>6. a % PageSize = 0
    BY <1>4, WholeSums
  <2>7. RoundPg(rest) = rest
    BY <1>7, WholeSums
  <2>8. file[s].vaddr + i = a + x /\ file[s].flags = Seg.flags /\ todo' = <<Call(a, b, rest, Seg.flags)>>
    BY <1>1, <1>4, <1>11, <2>1, <2>2
  <2>9. pc' = "map" /\ file' = file
    BY <1>1
  <2> HIDE DEF x, a, b, d, n
  <2>10. x \in Nat /\ x < RoundPg(rest)
    BY <2>1, <2>7
  <2> QED BY <1>7, <2>2, <2>3, <2>4, <2>5, <2>6, <2>8, <2>9, <2>10, CallLoads
<1>12. LoadedInv'
  <2> SUFFICES ASSUME NEW s \in 1 .. Len(file), NEW i \in 0 .. file[s].memsz - 1, Dealt(s, i)'
               PROVE  Loaded(s, i)'
    BY <1>1 DEF LoadedInv
  <2>1. s < k + 1 /\ k \in Int
    BY <1>1, <1>2 DEF Dealt
  <2>2. CASE s < k
    BY <1>9, <2>2 DEF Dealt
  <2>3. CASE s = k /\ Lead + i < InPlace
    BY <1>1, <1>9, <2>3 DEF Dealt
  <2>4. CASE s = k /\ ~ (Lead + i < InPlace)
    <3>1. i \in 0 .. Seg.memsz - 1
      BY <1>4, <2>4, Zenon
    <3> QED BY <1>11, <2>4, <3>1
  <2> QED BY <2>1, <2>2, <2>3, <2>4
<1> QED BY <1>9, <1>10, <1>12 DEF ElfInv

\* A segment that is copied is what the file has, and then zeroes.
LEMMA ElfCopy == IInv /\ ElfInv /\ InputAssumption /\ LayoutAssumption /\ CopySegment => ElfInv'
<1> SUFFICES ASSUME IInv, ElfInv, InputAssumption, LayoutAssumption, CopySegment PROVE ElfInv'
  OBVIOUS
<1> DEFINE a == TruncPg(Seg.vaddr)
           size == RoundPg(Memsz)
           n == Frame(size)
           d == CallocRam(n)
           b == d * PageSize
           src == Seg.src - Lead
<1>1. /\ Idle /\ k <= Len(file) /\ Seg.paddr = 0 /\ k' = k + 1 /\ half' = half /\ BootRange
      /\ pc' = "map" /\ UNCHANGED <<file, mapped>> /\ Fits(n) # {}
      /\ ram' = Copied(Cleared(ram, d, n), b, src, Filesz) /\ free' = free \ Run(d, n)
      /\ todo' = <<Call(a, b, Memsz, Seg.flags)>>
  BY DEF CopySegment, Idle, confVars, histVars
<1>2. file \in Files /\ FramesInv /\ k \in 1 .. Len(file) + 2 /\ half \in BOOLEAN /\ ~ half
  BY <1>1 DEF IInv, StateInv, Seg
<1>3. k \in 1 .. Len(file) /\ Len(file) \in Nat
  <2>1. Len(file) \in Nat
    BY <1>2 DEF InputAssumption
  <2> QED BY <1>1, <1>2, <2>1
<1>4. /\ Seg.vaddr \in Nat /\ Seg.src \in Nat /\ Seg.filesz \in Nat /\ Seg.memsz \in Nat
      /\ Filesz \in Nat /\ Memsz \in Nat /\ Lead \in Nat /\ a \in Nat
      /\ Seg = file[k] /\ Seg.vaddr = a + Lead /\ a % PageSize = 0 /\ Source(Seg) = Seg.src
      /\ Filesz <= Memsz /\ Lead + Seg.memsz <= Memsz /\ Seg.filesz <= Seg.memsz
      /\ \A i \in 0 .. Seg.memsz - 1 : Lead + i < Filesz <=> i < Seg.filesz
  BY <1>1, <1>2, <1>3, SegmentParts
<1>5. DOMAIN ram = 0 .. UserEnd - 1
  BY DEF ElfInv, SourceInv
<1> HIDE DEF a
<1>6. size \in Nat /\ size = PageSize * n /\ n \in Nat /\ Memsz <= size
  BY <1>4, Rounded
<1> HIDE DEF size
<1>7. /\ d \in Nat /\ b \in Nat /\ b % PageSize = 0
      /\ \A x \in Nat : x < PageSize * n => b + x \in 0 .. UserEnd - 1 /\ Frame(b + x) \in Run(d, n)
      /\ CopyIn(ram', d, n, src, Filesz)
  <2>1. Filesz \in Nat /\ src \in Int /\ Filesz <= PageSize * n
    BY <1>4, <1>6
  <2>2. d = CallocRam(n)
    OBVIOUS
  <2> HIDE DEF n, d
  <2>3. /\ d \in Nat /\ b \in Nat /\ b % PageSize = 0
        /\ \A x \in Nat : x < PageSize * n => b + x \in 0 .. UserEnd - 1 /\ Frame(b + x) \in Run(d, n)
    BY <1>1, <1>2, <1>5, <1>6, <2>2, Allocated
  <2> HIDE DEF src
  <2>4. CopyIn(ram', d, n, src, Filesz)
    BY <1>1, <1>2, <1>5, <1>6, <2>1, <2>2, CopiedIs
  <2> QED BY <2>3, <2>4
<1>8. /\ SourceInv'
      /\ \A s \in 1 .. Len(file) : \A i \in 0 .. file[s].memsz - 1 : Dealt(s, i) => Loaded(s, i)'
  <2>1. free' \subseteq free /\ DOMAIN ram' = 0 .. UserEnd - 1
        /\ \A u \in 0 .. UserEnd - 1 : Frame(u) \notin free => ram'[u] = ram[u]
    BY <1>1, <1>7 DEF CopyIn
  <2> QED BY <1>1, <2>1, MemoryKept
<1>9. RangeInv'
  <2>1. RangeInv
    BY DEF ElfInv
  <2> QED BY <1>1, <1>2, <1>3, <2>1, RangeStep
<1>10. ASSUME NEW s, s = k, NEW i \in 0 .. Seg.memsz - 1 PROVE Loaded(s, i)'
  <2> DEFINE x == Lead + i
  <2>1. i \in Nat /\ i < Seg.memsz /\ x \in Nat /\ x < Memsz /\ x < size
    <3>1. /\ Seg.memsz \in Nat /\ Lead \in Nat /\ Memsz \in Nat /\ Lead + Seg.memsz <= Memsz
          /\ i \in 0 .. Seg.memsz - 1 /\ Memsz <= size /\ size \in Nat
      BY <1>4, <1>6, <1>10
    <3> QED BY ONLY <3>1
  <2>2. Seg.vaddr + i = a + x
    BY <1>4, <2>1
  <2>3. b + x \in 0 .. UserEnd - 1 /\ Frame(b + x) \in Run(d, n) /\ b \in Nat /\ b % PageSize = 0
    BY <1>6, <1>7, <2>1
  <2>4. Frame(b + x) \notin free'
    BY <1>1, <2>3
  <2>5. ram'[b + x] = Content(s, i)
    <3>1. CASE i < Seg.filesz
      <4>1. x < Filesz
        BY <1>4, <3>1
      <4>2. src + x = Source(Seg) + i
        BY <1>4, <2>1
      <4>3. i \in 0 .. Seg.filesz - 1
        BY <1>4, <2>1, <3>1
      <4>4. /\ Source(Seg) + i \in 0 .. UserEnd - 1 /\ Frame(Source(Seg) + i) \notin free
            /\ ram[Source(Seg) + i] = <<k, i>>
        BY <1>2, <1>3, <4>3, InImage
      <4>5. ram'[b + x] = <<k, i>>
        BY <1>7, <2>1, <4>1, <4>2, <4>4 DEF CopyIn
      <4> QED BY <1>4, <1>10, <3>1, <4>5 DEF Content
    <3>2. CASE ~ (i < Seg.filesz)
      <4>1. ~ (x < Filesz)
        BY <1>4, <3>2
      <4>2. Filesz <= x
        BY <1>4, <2>1, <4>1
      <4>3. ram'[b + x] = Zero
        BY <1>6, <1>7, <2>1, <4>2 DEF CopyIn
      <4> QED BY <1>4, <1>10, <3>2, <4>3 DEF Content
    <3> QED BY <3>1, <3>2
  <2>6. file[s].vaddr + i = a + x /\ file[s].flags = Seg.flags /\ todo' = <<Call(a, b, Memsz, Seg.flags)>>
    BY <1>1, <1>4, <1>10, <2>2
  <2>7. pc' = "map" /\ file' = file /\ a \in Nat /\ a % PageSize = 0 /\ Memsz \in Nat
    BY <1>1, <1>4
  <2>8. x \in Nat /\ x < RoundPg(Memsz)
    BY <2>1 DEF size
  <2> HIDE DEF x, b, d, n
  <2> QED BY <2>3, <2>4, <2>5, <2>6, <2>7, <2>8, CallLoads
<1>11. LoadedInv'
  <2> SUFFICES ASSUME NEW s \in 1 .. Len(file), NEW i \in 0 .. file[s].memsz - 1, Dealt(s, i)'
               PROVE  Loaded(s, i)'
    BY <1>1 DEF LoadedInv
  <2>1. s < k + 1 /\ k \in Int
    BY <1>1, <1>2 DEF Dealt
  <2>2. CASE s < k
    BY <1>8, <2>2 DEF Dealt
  <2>3. CASE s = k
    <3>1. i \in 0 .. Seg.memsz - 1
      BY <1>4, <2>3, Zenon
    <3> QED BY <1>10, <2>3, <3>1
  <2> QED BY <2>1, <2>2, <2>3
<1> QED BY <1>8, <1>9, <1>11 DEF ElfInv

\* The system page is in other memory.
LEMMA ElfSyspage == IInv /\ ElfInv /\ InputAssumption /\ LayoutAssumption /\ MapSyspage => ElfInv'
<1> SUFFICES ASSUME IInv, ElfInv, InputAssumption, LayoutAssumption, MapSyspage PROVE ElfInv'
  OBVIOUS
<1> DEFINE size == RoundPg(SyspageSize)
           n == Frame(size)
           d == CallocRam(n)
<1>1. /\ Idle /\ k = Len(file) + 1 /\ k' = k + 1 /\ half' = half
      /\ pc' = "map" /\ UNCHANGED <<file, mapped, boot_vaddr>> /\ Fits(n) # {}
      /\ ram' = Cleared(ram, d, n) /\ free' = free \ Run(d, n)
  BY DEF MapSyspage, Idle, confVars, histVars
<1>2. file \in Files /\ FramesInv /\ half \in BOOLEAN /\ (half => k <= Len(file))
  BY DEF IInv, StateInv
<1>3. Len(file) \in Nat /\ ~ half
  <2>1. Len(file) \in Nat
    BY <1>2 DEF InputAssumption
  <2> QED BY <1>1, <1>2, <2>1
<1>4. DOMAIN ram = 0 .. UserEnd - 1 /\ RangeInv
  BY DEF ElfInv, SourceInv
<1>5. n \in Nat
  <2>1. SyspageSize \in Nat
    BY GeometryAssumption
  <2> QED BY <2>1, Rounded
<1>6. DOMAIN ram' = 0 .. UserEnd - 1 /\ \A u \in 0 .. UserEnd - 1 : Frame(u) \notin free => ram'[u] = ram[u]
  <2>1. d = CallocRam(n)
    OBVIOUS
  <2> HIDE DEF n, d
  <2> QED BY <1>1, <1>2, <1>4, <1>5, <2>1, Allocated
<1>7. /\ SourceInv'
      /\ \A s \in 1 .. Len(file) : \A i \in 0 .. file[s].memsz - 1 : Dealt(s, i) => Loaded(s, i)'
  <2>1. free' \subseteq free
    BY <1>1
  <2> QED BY <1>1, <1>6, <2>1, MemoryKept
<1>8. \A s \in 1 .. Len(file) : s < k
  BY <1>1, <1>3
<1>9. RangeInv'
  BY <1>1, <1>4, <1>8, SameRange
<1>10. LoadedInv'
  BY <1>1, <1>7, <1>8 DEF LoadedInv, Dealt
<1> QED BY <1>7, <1>9, <1>10 DEF ElfInv

\* All steps keep what has been loaded.
LEMMA ElfStep ==
  IInv /\ ElfInv /\ AreasApart /\ InputAssumption /\ LayoutAssumption /\ [Next]_vars => ElfInv'
<1> SUFFICES ASSUME IInv, ElfInv, AreasApart, InputAssumption, LayoutAssumption, [Next]_vars
             PROVE  ElfInv'
  OBVIOUS
<1>1. CASE InitSmp \/ AarchMapInit
  BY <1>1, ElfStart
<1>2. CASE MapEnter
  BY <1>2, ElfEnter
<1>3. CASE MapGroup
  BY <1>3, ElfGroup
<1>4. CASE MapReturn
  BY <1>4, ElfReturn
<1>5. CASE MapInPlace
  BY <1>5, ElfPlace
<1>6. CASE MapRest
  BY <1>6, ElfRest
<1>7. CASE CopySegment
  BY <1>7, ElfCopy
<1>8. CASE MapSyspage
  BY <1>8, ElfSyspage
<1>9. CASE (\E q \in Callouts : CalloutMap(q)) \/ OutOfMemory \/ UNCHANGED vars
  BY <1>9, ElfOthers
<1> QED BY <1>1, <1>2, <1>3, <1>4, <1>5, <1>6, <1>7, <1>8, <1>9 DEF Next

\* Between the calls of aarch64_map() what has been loaded can be read.
LEMMA ElfIsRight == IInv /\ ElfInv /\ InputAssumption /\ LayoutAssumption => ElfRight
<1> SUFFICES ASSUME IInv, ElfInv, InputAssumption, LayoutAssumption, Idle,
                    NEW s \in 1 .. Len(file), s < k
             PROVE  /\ \A i \in 0 .. file[s].memsz - 1 :
                         LET v == file[s].vaddr + i IN
                         /\ Trans(v) # -1 /\ Walk(Frame(v)).attr.prot = file[s].flags
                         /\ ram[Trans(v)] = IF i < file[s].filesz THEN <<s, i>> ELSE Zero
                    /\ boot_vaddr[1] <= file[s].vaddr /\ file[s].vaddr + file[s].memsz <= boot_vaddr[2]
  BY DEF ElfRight
<1>1. pc = "map" /\ todo = << >> /\ Running /\ MappedInv
  BY DEF Idle, IInv, StateInv, Running
<1>2. ASSUME NEW i \in 0 .. file[s].memsz - 1
      PROVE  LET v == file[s].vaddr + i IN
             /\ Trans(v) # -1 /\ Walk(Frame(v)).attr.prot = file[s].flags
             /\ ram[Trans(v)] = IF i < file[s].filesz THEN <<s, i>> ELSE Zero
  <2> DEFINE v == file[s].vaddr + i
  <2>1. Loaded(s, i)
    BY <1>1 DEF ElfInv, LoadedInv, Dealt
  <2>2. PICK u \in 0 .. UserEnd - 1 :
          ram[u] = Content(s, i) /\ Found(v, u, file[s].flags)
    BY <2>1 DEF Loaded
  <2>3. /\ Frame(v) \in DOMAIN mapped /\ mapped[Frame(v)].flags = file[s].flags
        /\ mapped[Frame(v)].pa * PageSize + Off(v) = u
    BY <1>1, <2>2 DEF Found, WillShow, Shows
  <2> HIDE DEF v
  <2>4. /\ Walk(Frame(v)) # NoPte /\ Walk(Frame(v)).pa = mapped[Frame(v)].pa
        /\ Walk(Frame(v)).attr = Attr(mapped[Frame(v)].flags)
    BY <1>1, <2>3 DEF MappedInv
  <2>5. Trans(v) = u
    BY <2>3, <2>4 DEF Trans
  <2>6. Walk(Frame(v)).attr.prot = file[s].flags
    BY <2>3, <2>4 DEF Attr
  <2>7. u # -1
    OBVIOUS
  <2> QED BY <2>2, <2>5, <2>6, <2>7 DEF Content, v
<1>3. boot_vaddr[1] <= file[s].vaddr /\ file[s].vaddr + file[s].memsz <= boot_vaddr[2]
  BY DEF ElfInv, RangeInv
<1> QED BY <1>2, <1>3

\* What load_elf64mmu() has loaded reads as the file says at the addresses it
\* is linked at, with the rights it asks for and zeroes where the file has
\* nothing, and the kernel is told a range with all of it - whatever the
\* segments, the page size and the memory.
THEOREM ElfIsLoaded == Spec => []ElfRight
<1>1. Init => ElfInv
  BY InitElf, InputAssumption, LayoutAssumption
<1>2. IInv /\ ElfInv /\ AreasApart /\ [Next]_vars => ElfInv'
  BY ElfStep, InputAssumption, LayoutAssumption
<1>3. IInv /\ ElfInv => ElfRight
  BY ElfIsRight, InputAssumption, LayoutAssumption
<1> QED BY <1>1, <1>2, <1>3, AreasInvariant, PTL DEF Spec

-----------------------------------------------------------------------------
(* The directory of the image: Bootstraps, B of BootInputs                  *)

\* Segment s of file f of the image at hand, and whether it is in its place.
Part(f, s) == image.dir[f].segs[s]
InPlaceNow(f, s) == f < dir \/ (f = dir /\ bpc = "phdr" /\ s < seg)
\* The bootstrap executables that come before entry n of the directory.
Passed(n) == {f \in B!Boots : f < n}

DirInv ==
  /\ image \in Images /\ dir \in 1 .. Len(image.dir) + 1 /\ seg \in Nat \ {0}
  /\ bpc \in {"dir", "phdr", "done", "crashed"}
  /\ bpc = "phdr" => dir \in B!Boots
  /\ bpc = "done" => dir = Len(image.dir) + 1 /\ prev # 0
  /\ DOMAIN next_entry = DOMAIN image.dir /\ DOMAIN loader = DOMAIN image.dir
  /\ DOMAIN mem = B!Run(0, MemSize)
HeadersInv ==
  \A f \in B!Boots : f < dir \/ (f = dir /\ bpc = "phdr") =>
    LET hd == image.dir[f].hdr IN
    hd.machine = EmNative /\ hd.data = DataNative /\ loader[f] = hd.class
\* The chain as far as it has been made.
ChainInv ==
  bpc # "crashed" =>
    /\ IF Passed(dir) = {} THEN prev = 0
       ELSE /\ prev \in Passed(dir) /\ \A f \in Passed(dir) : f <= prev
            /\ first_bootstrap_start_vaddr = B!EntryOf(Passed(dir))
    /\ \A f \in DOMAIN image.dir :
         next_entry[f] = IF f \in Passed(dir) THEN B!EntryOf({g \in Passed(dir) : g > f})
                         ELSE 0
\* What of the files is where it is to be, and what is still in the image:
\* PlacesRight with the other half, that says what LoadSegment reads.
PlacedInv ==
  ~ image.virtual => \A f \in B!Boots : \A s \in DOMAIN image.dir[f].segs :
    LET p == Part(f, s) IN p.load /\ InPlaceNow(f, s) =>
      /\ \A i \in 0 .. p.memsz - 1 :
           mem[p.vaddr + i] = IF i < p.filesz THEN <<f, s, i>> ELSE <<B!Zero>>
      /\ bfree \cap B!Linked(p) = {}
StoredInv ==
  ~ image.virtual /\ bpc # "crashed" => \A f \in B!Boots : \A s \in DOMAIN image.dir[f].segs :
    LET p == Part(f, s) IN p.load /\ ~ InPlaceNow(f, s) =>
      /\ \A i \in 0 .. p.filesz - 1 : mem[p.offset + i] = <<f, s, i>>
      /\ B!Linked(p) \subseteq bfree \/ B!Linked(p) \cap bfree = {}
      /\ p.paddr = p.vaddr => B!Linked(p) \cap bfree = {}
BInv == DirInv /\ HeadersInv /\ ChainInv /\ PlacedInv /\ StoredInv

\* What the layout says of an image, of a segment and of two segments of it.
LEMMA ImageIs ==
  ASSUME ImagesAssumption, NEW img \in Images
  PROVE  /\ img.dir \in Seq(B!FileType) /\ img.virtual \in BOOLEAN /\ img.inoBits \in BOOLEAN
         /\ B!LaidOut(img) /\ MemSize \in Nat
         /\ Len(img.dir) \in Nat /\ DOMAIN img.dir = 1 .. Len(img.dir)
<1>1. img \in B!ImageType
  BY DEF ImagesAssumption
<1>2. img.dir \in Seq(B!FileType) /\ img.virtual \in BOOLEAN /\ img.inoBits \in BOOLEAN
  BY <1>1 DEF B!ImageType
<1> QED BY <1>2 DEF ImagesAssumption

PartFacts(img, f, s) ==
  LET p == img.dir[f].segs[s] IN
  /\ p \in B!Segment /\ <<f, s>> \in B!Segments(img) /\ f \in Nat /\ s \in Nat \ {0}
  /\ {p.offset, p.vaddr, p.filesz, p.memsz} \subseteq Nat /\ p.filesz <= p.memsz
  /\ Len(img.dir[f].segs) \in Nat /\ DOMAIN img.dir[f].segs = 1 .. Len(img.dir[f].segs)
  /\ B!Stored(p) \cup B!Linked(p) \subseteq B!Run(0, MemSize)
  /\ p.load => B!Linked(p) \subseteq img.free \/ B!Linked(p) \cap img.free = {}
  /\ p.load /\ p.paddr = p.vaddr =>
       p.offset = p.vaddr /\ p.filesz = p.memsz /\ B!Linked(p) \cap img.free = {}
LEMMA PartIs ==
  ASSUME ImagesAssumption, NEW img \in Images, NEW f \in DOMAIN img.dir,
         NEW s \in DOMAIN img.dir[f].segs
  PROVE  PartFacts(img, f, s)
<1> DEFINE p == img.dir[f].segs[s]
<1>1. img.dir[f] \in B!FileType
  BY ImageIs
<1>2. img.dir[f].segs \in Seq(B!Segment)
  BY <1>1 DEF B!FileType
<1>3. p \in B!Segment /\ f \in Nat /\ s \in Nat \ {0}
      /\ Len(img.dir[f].segs) \in Nat /\ DOMAIN img.dir[f].segs = 1 .. Len(img.dir[f].segs)
  BY <1>2, ImageIs
<1>4. {p.offset, p.vaddr, p.filesz, p.memsz} \subseteq Nat /\ p.filesz <= p.memsz
  BY <1>3 DEF B!Segment
<1>5. <<f, s>> \in B!Segments(img) /\ B!SegmentOf(img, <<f, s>>) = p
  <2>1. <<f, s>> \in {f} \X DOMAIN img.dir[f].segs
    OBVIOUS
  <2> QED BY <2>1 DEF B!Segments, B!SegmentOf
<1> HIDE DEF p
<1>6. B!LaidOut(img)
  BY ImageIs
<1>7. /\ B!Stored(p) \cup B!Linked(p) \subseteq B!Run(0, MemSize)
      /\ p.load => B!Linked(p) \subseteq img.free \/ B!Linked(p) \cap img.free = {}
      /\ p.load /\ p.paddr = p.vaddr =>
           p.offset = p.vaddr /\ p.filesz = p.memsz /\ B!Linked(p) \cap img.free = {}
  BY <1>5, <1>6 DEF B!LaidOut
<1> QED BY <1>3, <1>4, <1>5, <1>7 DEF p, PartFacts

LEMMA PartsApart ==
  ASSUME ImagesAssumption, NEW img \in Images, NEW f \in DOMAIN img.dir, NEW g \in DOMAIN img.dir,
         NEW s \in DOMAIN img.dir[f].segs, NEW t \in DOMAIN img.dir[g].segs
  PROVE  LET p == img.dir[f].segs[s]
             q == img.dir[g].segs[t]
         IN  /\ <<f, s>> # <<g, t>> => B!Stored(p) \cap B!Stored(q) = {}
             /\ p.load /\ q.load /\ (g > f \/ (g = f /\ t > s))
                  => B!Linked(p) \cap (B!Stored(q) \cup B!Linked(q)) = {}
<1>1. /\ <<f, s>> \in B!Segments(img) /\ <<g, t>> \in B!Segments(img)
      /\ B!SegmentOf(img, <<f, s>>) = img.dir[f].segs[s]
      /\ B!SegmentOf(img, <<g, t>>) = img.dir[g].segs[t]
  BY PartIs DEF B!SegmentOf, PartFacts
<1>2. B!LaidOut(img)
  BY ImageIs
<1>3. B!Later(<<g, t>>, <<f, s>>) <=> (g > f \/ (g = f /\ t > s))
  BY DEF B!Later
<1> DEFINE P(h, k1) == LET p == B!SegmentOf(img, h)
                           q == B!SegmentOf(img, k1)
                       IN  /\ k1 # h => B!Stored(p) \cap B!Stored(q) = {}
                           /\ p.load /\ q.load /\ B!Later(k1, h)
                                => B!Linked(p) \cap (B!Stored(q) \cup B!Linked(q)) = {}
<1>4. \A h \in B!Segments(img) : \A k1 \in B!Segments(img) : P(h, k1)
  BY <1>2 DEF B!LaidOut
<1>5. P(<<f, s>>, <<g, t>>)
  <2> HIDE DEF P
  <2> QED BY <1>1, <1>4
<1> QED BY <1>1, <1>3, <1>5

\* The least of some numbers, and the entry it stands for.
LEMMA LeastIs ==
  ASSUME NEW S \in SUBSET Nat, NEW x \in S, \A y \in S : x <= y
  PROVE  B!Least(S) = x
<1>1. B!Least(S) \in S /\ \A y \in S : B!Least(S) <= y
  BY DEF B!Least
<1>2. B!Least(S) <= x /\ x <= B!Least(S)
  BY <1>1
<1>3. B!Least(S) \in Nat /\ x \in Nat
  BY <1>1
<1> HIDE DEF B!Least
<1> QED BY <1>2, <1>3
LEMMA EntryIs ==
  ASSUME NEW S \in SUBSET Nat, NEW x \in S, \A y \in S : x <= y
  PROVE  B!EntryOf(S) = image.dir[x].entry
<1>1. B!Least(S) = x
  BY LeastIs
<1> QED BY <1>1 DEF B!EntryOf
\* One that comes later changes nothing.
LEMMA EntryStays ==
  ASSUME NEW S \in SUBSET Nat, S # {}, NEW T \in SUBSET Nat, \A t \in T : \A y \in S : y < t
  PROVE  B!EntryOf(S \cup T) = B!EntryOf(S)
<1>1. PICK x \in S : \A y \in S : x <= y
  <2>1. PICK n \in S : \A y \in S : ~ (<<y, n>> \in OpToRel(<, Nat))
    <3>1. S \subseteq Nat
      OBVIOUS
    <3> QED BY <3>1, WFMin, NatLessThanWellFounded
  <2>2. ASSUME NEW y \in S PROVE n <= y
    <3>1. ~ (y < n)
      BY <2>1 DEF OpToRel
    <3> QED BY <3>1
  <2> QED BY <2>2
<1>2. B!EntryOf(S) = image.dir[x].entry
  BY <1>1, EntryIs
<1>3. x \in S \cup T /\ \A y \in S \cup T : x <= y
  BY <1>1
<1>4. S \cup T \in SUBSET Nat
  OBVIOUS
<1>5. B!EntryOf(S \cup T) = image.dir[x].entry
  BY <1>3, <1>4, EntryIs
<1> QED BY <1>2, <1>5

-----------------------------------------------------------------------------
(* The steps of load_bootstraps().                                         *)

\* The bootstrap executables are files of the directory.
LEMMA BootsIs ==
  ASSUME ImagesAssumption, image \in Images
  PROVE  /\ B!Boots \subseteq DOMAIN image.dir /\ B!Boots \subseteq Nat \ {0}
         /\ DOMAIN image.dir = 1 .. Len(image.dir) /\ Len(image.dir) \in Nat
         /\ \A n : Passed(n) \subseteq B!Boots
<1>1. DOMAIN image.dir = 1 .. Len(image.dir) /\ Len(image.dir) \in Nat
  BY ImageIs
<1> QED BY <1>1 DEF B!Boots, Passed

LEMMA BootInit0 == ImagesAssumption /\ B!Init => BInv
<1> SUFFICES ASSUME ImagesAssumption, B!Init
             PROVE  BInv
  OBVIOUS
<1>1. /\ image \in Images /\ bpc \in {"dir", "crashed"} /\ dir = 1 /\ seg = 1 /\ prev = 0
      /\ first_bootstrap_start_vaddr = 0 /\ bfree = image.free
      /\ mem = [u \in B!Run(0, MemSize) |-> B!ImageUnit(image, u)]
      /\ next_entry = [f \in DOMAIN image.dir |-> 0] /\ loader = [f \in DOMAIN image.dir |-> 0]
  BY DEF B!Init
<1>2. /\ B!Boots \subseteq DOMAIN image.dir /\ B!Boots \subseteq Nat \ {0}
      /\ DOMAIN image.dir = 1 .. Len(image.dir) /\ Len(image.dir) \in Nat
  BY <1>1, BootsIs
<1>3. DirInv
  BY <1>1, <1>2 DEF DirInv
<1>4. \A f \in B!Boots : ~ (f < dir) /\ (bpc # "phdr")
  BY <1>1, <1>2
<1>5. Passed(dir) = {}
  BY <1>4 DEF Passed
<1>6. HeadersInv /\ ChainInv
  BY <1>1, <1>4, <1>5 DEF HeadersInv, ChainInv
<1>7. PlacedInv
  BY <1>4 DEF PlacedInv, InPlaceNow
<1>8. StoredInv
  <2> SUFFICES ASSUME NEW f \in B!Boots, NEW s \in DOMAIN image.dir[f].segs, Part(f, s).load
               PROVE  /\ \A i \in 0 .. Part(f, s).filesz - 1 : mem[Part(f, s).offset + i] = <<f, s, i>>
                      /\ \/ B!Linked(Part(f, s)) \subseteq bfree
                         \/ B!Linked(Part(f, s)) \cap bfree = {}
                      /\ Part(f, s).paddr = Part(f, s).vaddr => B!Linked(Part(f, s)) \cap bfree = {}
    BY DEF StoredInv
  <2> DEFINE p == Part(f, s)
  <2>0. f \in DOMAIN image.dir /\ image \in Images
    BY <1>1, <1>2
  <2>1. /\ {p.offset, p.filesz} \subseteq Nat
        /\ B!Stored(p) \subseteq B!Run(0, MemSize)
        /\ B!Linked(p) \subseteq image.free \/ B!Linked(p) \cap image.free = {}
        /\ p.paddr = p.vaddr => B!Linked(p) \cap image.free = {}
    <3>1. PartFacts(image, f, s) /\ p = image.dir[f].segs[s] /\ p.load
      BY <2>0, PartIs DEF Part
    <3> HIDE DEF p
    <3> QED BY <3>1 DEF PartFacts
  <2>2. ASSUME NEW i \in 0 .. p.filesz - 1
        PROVE  mem[p.offset + i] = <<f, s, i>>
    <3> DEFINE u == p.offset + i
               hits == {x \in B!Segments(image) : u \in B!Stored(B!SegmentOf(image, x))}
    <3>1. u \in B!Stored(p) /\ u - p.offset = i
      BY <2>1 DEF B!Stored, B!Run
    <3>2. <<f, s>> \in hits /\ B!SegmentOf(image, <<f, s>>) = p
      BY <2>0, <3>1, PartIs DEF Part, B!SegmentOf, PartFacts
    <3>3. ASSUME NEW x \in hits PROVE x = <<f, s>>
      <4>1. PICK g \in DOMAIN image.dir : \E t \in DOMAIN image.dir[g].segs : x = <<g, t>>
        BY DEF B!Segments
      <4>2. PICK t \in DOMAIN image.dir[g].segs : x = <<g, t>>
        BY <4>1
      <4>3. u \in B!Stored(image.dir[g].segs[t])
        BY <4>2 DEF B!SegmentOf
      <4>4. u \in B!Stored(image.dir[f].segs[s])
        BY <3>1 DEF Part
      <4>5. <<f, s>> # <<g, t>> =>
              B!Stored(image.dir[f].segs[s]) \cap B!Stored(image.dir[g].segs[t]) = {}
        BY <2>0, PartsApart
      <4> QED BY <4>2, <4>3, <4>4, <4>5
    <3>4. (CHOOSE x \in hits : TRUE) = <<f, s>> /\ hits # {}
      BY <3>2, <3>3
    <3>5. B!ImageUnit(image, u) = <<f, s, u - p.offset>>
      <4> DEFINE c == CHOOSE x \in hits : TRUE
      <4>1. B!ImageUnit(image, u) = IF hits = {} THEN <<B!Junk>>
              ELSE <<c[1], c[2], u - B!SegmentOf(image, c).offset>>
        BY Zenon DEF B!ImageUnit
      <4> HIDE DEF u, p
      <4>2. c = <<f, s>>
        BY <3>4
      <4> HIDE DEF c, hits
      <4> QED BY <3>2, <3>4, <4>1, <4>2
    <3>6. u \in B!Run(0, MemSize)
      BY <2>1, <3>1
    <3> HIDE DEF u, p, hits
    <3>7. mem[u] = <<f, s, i>>
      BY <1>1, <3>1, <3>5, <3>6
    <3> QED BY <3>7 DEF u
  <2> QED BY <1>1, <2>1, <2>2
<1> QED BY <1>3, <1>6, <1>7, <1>8 DEF BInv

\* Steps that leave memory alone.
LEMMA MemoryStays ==
  ASSUME BInv, ImagesAssumption, UNCHANGED <<image, mem, bfree>>,
         bpc' # "crashed" => bpc # "crashed",
         \A f \in B!Boots : \A s \in DOMAIN image.dir[f].segs :
           /\ InPlaceNow(f, s)' => InPlaceNow(f, s)
           /\ bpc' # "crashed" /\ InPlaceNow(f, s) => InPlaceNow(f, s)'
  PROVE  PlacedInv' /\ StoredInv'
<1>1. B!Boots' = B!Boots /\ \A f, s : Part(f, s)' = Part(f, s)
  BY DEF B!Boots, Part
<1>2. PlacedInv /\ StoredInv
  BY DEF BInv
<1> DEFINE Placed1(f, s) == LET p == Part(f, s) IN
             /\ \A i \in 0 .. p.memsz - 1 :
                  mem[p.vaddr + i] = IF i < p.filesz THEN <<f, s, i>> ELSE <<B!Zero>>
             /\ bfree \cap B!Linked(p) = {}
           Stored1(f, s) == LET p == Part(f, s) IN
             /\ \A i \in 0 .. p.filesz - 1 : mem[p.offset + i] = <<f, s, i>>
             /\ B!Linked(p) \subseteq bfree \/ B!Linked(p) \cap bfree = {}
             /\ p.paddr = p.vaddr => B!Linked(p) \cap bfree = {}
<1>3. /\ PlacedInv <=> (~ image.virtual => \A f \in B!Boots : \A s \in DOMAIN image.dir[f].segs :
                          Part(f, s).load /\ InPlaceNow(f, s) => Placed1(f, s))
      /\ StoredInv <=> (~ image.virtual /\ bpc # "crashed" =>
                          \A f \in B!Boots : \A s \in DOMAIN image.dir[f].segs :
                            Part(f, s).load /\ ~ InPlaceNow(f, s) => Stored1(f, s))
  BY DEF PlacedInv, StoredInv
<1>4. /\ PlacedInv' <=> (~ image'.virtual => \A f \in B!Boots' : \A s \in DOMAIN image'.dir[f].segs :
                          Part(f, s)'.load /\ InPlaceNow(f, s)' => Placed1(f, s)')
      /\ StoredInv' <=> (~ image'.virtual /\ bpc' # "crashed" =>
                          \A f \in B!Boots' : \A s \in DOMAIN image'.dir[f].segs :
                            Part(f, s)'.load /\ ~ InPlaceNow(f, s)' => Stored1(f, s)')
  BY DEF PlacedInv, StoredInv
<1>5. \A f, s : Placed1(f, s)' <=> Placed1(f, s)
  BY <1>1 DEF B!Linked, B!Run, B!Zero, Part
<1>6. \A f, s : Stored1(f, s)' <=> Stored1(f, s)
  BY <1>1 DEF B!Linked, B!Run, Part
<1> HIDE DEF Placed1, Stored1
<1> QED BY <1>1, <1>2, <1>3, <1>4, <1>5, <1>6

\* NextEntry, Done, Crash and stuttering do not touch the chain.
LEMMA ChainStays ==
  ASSUME BInv, ImagesAssumption, bpc # "crashed",
         UNCHANGED <<image, prev, first_bootstrap_start_vaddr, next_entry>>,
         Passed(dir') = Passed(dir)
  PROVE  ChainInv'
<1>1. B!Boots' = B!Boots /\ Passed(dir)' = Passed(dir)
  BY DEF Passed, B!Boots
<1>2. \A S : B!EntryOf(S)' = B!EntryOf(S)
  BY DEF B!EntryOf, B!Least
<1>3. ChainInv
  BY DEF BInv
<1> QED BY <1>1, <1>2, <1>3 DEF ChainInv

LEMMA NextEntryStep == BInv /\ ImagesAssumption /\ B!NextEntry => BInv'
<1> SUFFICES ASSUME BInv, ImagesAssumption, B!NextEntry PROVE BInv'
  OBVIOUS
<1>0. /\ bpc = "dir" /\ bpc' = "dir" /\ dir <= Len(image.dir) /\ ~ image.dir[dir].bootstrap
      /\ dir' = dir + 1
      /\ UNCHANGED <<image, seg, mem, bfree, prev, first_bootstrap_start_vaddr, next_entry, loader>>
  BY DEF B!NextEntry, B!Entry, B!File
<1>1. DirInv /\ HeadersInv
  BY DEF BInv
<1>2. /\ B!Boots \subseteq DOMAIN image.dir /\ B!Boots \subseteq Nat \ {0}
      /\ DOMAIN image.dir = 1 .. Len(image.dir) /\ Len(image.dir) \in Nat
  BY <1>1, BootsIs DEF DirInv
<1>3. dir \in Nat /\ dir \notin B!Boots
  BY <1>0, <1>1, <1>2 DEF DirInv, B!Boots
<1>4. DirInv'
  BY <1>0, <1>1, <1>2, <1>3 DEF DirInv
<1>5. B!Boots' = B!Boots /\ \A f \in B!Boots : f < dir' <=> f < dir
  BY <1>0, <1>2, <1>3 DEF B!Boots
<1>6. HeadersInv'
  BY <1>0, <1>1, <1>5 DEF HeadersInv
<1>7. ChainInv'
  BY <1>0, <1>5, ChainStays DEF Passed
<1>8. PlacedInv' /\ StoredInv'
  BY <1>0, <1>5, MemoryStays DEF InPlaceNow
<1> QED BY <1>4, <1>6, <1>7, <1>8 DEF BInv

LEMMA LoadElfStep == BInv /\ ImagesAssumption /\ B!LoadElf => BInv'
<1> SUFFICES ASSUME BInv, ImagesAssumption, B!LoadElf PROVE BInv'
  OBVIOUS
<1> DEFINE hd == image.dir[dir].hdr
<1>1. DirInv /\ HeadersInv /\ ChainInv
  BY DEF BInv
<1>2. /\ B!Boots \subseteq DOMAIN image.dir /\ B!Boots \subseteq Nat \ {0}
      /\ DOMAIN image.dir = 1 .. Len(image.dir) /\ Len(image.dir) \in Nat
  BY <1>1, BootsIs DEF DirInv
<1>3. bpc = "dir" /\ dir \in B!Boots
  BY <1>1, <1>2 DEF B!LoadElf, B!Entry, B!File, DirInv, B!Boots
<1>4. CASE B!load_elf(hd) = 0
  <2>1. bpc' = "crashed" /\ UNCHANGED <<image, dir, seg, prev, first_bootstrap_start_vaddr,
                                        next_entry, loader, mem, bfree>>
    BY <1>4 DEF B!LoadElf, B!Crash, B!File, B!imageVars
  <2>2. B!Boots' = B!Boots /\ DirInv'
    BY <1>1, <2>1 DEF DirInv, B!Boots
  <2>3. HeadersInv'
    BY <1>1, <2>1, <2>2 DEF HeadersInv
  <2>4. ChainInv'
    BY <2>1 DEF ChainInv
  <2>5. PlacedInv' /\ StoredInv'
    BY <1>3, <2>1, MemoryStays DEF InPlaceNow
  <2> QED BY <2>2, <2>3, <2>4, <2>5 DEF BInv
<1>5. CASE B!load_elf(hd) # 0
  <2>1. /\ bpc' = "phdr" /\ seg' = 1 /\ loader' = [loader EXCEPT ![dir] = B!load_elf(hd)]
        /\ UNCHANGED <<image, dir, prev, first_bootstrap_start_vaddr, next_entry, mem, bfree>>
    BY <1>5 DEF B!LoadElf, B!File
  <2>2. hd.machine = EmNative /\ hd.data = DataNative /\ B!load_elf(hd) = hd.class
    BY <1>5 DEF B!load_elf, B!is_elf32, B!is_elf64, B!is_elf, B!elf32_phdr, B!elf64_phdr
  <2>3. B!Boots' = B!Boots
    BY <2>1 DEF B!Boots
  <2>4. DirInv'
    BY <1>1, <1>3, <2>1, <2>3 DEF DirInv
  <2>5. HeadersInv'
    <3> HIDE DEF hd
    <3>1. loader'[dir] = B!load_elf(hd) /\ \A f \in B!Boots : f # dir => loader'[f] = loader[f]
      BY <1>1, <1>2, <1>3, <2>1 DEF DirInv
    <3>2. \A f \in B!Boots : f < dir => f # dir
      BY <1>2, <1>3
    <3> QED BY <1>1, <2>1, <2>2, <2>3, <3>1, <3>2 DEF HeadersInv, hd
  <2>6. ChainInv'
    BY <1>3, <2>1, ChainStays
  <2>7. \A f \in B!Boots : \A s \in DOMAIN image.dir[f].segs : InPlaceNow(f, s)' <=> InPlaceNow(f, s)
    <3> SUFFICES ASSUME NEW f \in B!Boots, NEW s \in DOMAIN image.dir[f].segs
                 PROVE  InPlaceNow(f, s)' <=> InPlaceNow(f, s)
      OBVIOUS
    <3>1. s \in Nat \ {0}
      BY <1>1, <1>2, PartIs DEF PartFacts, DirInv
    <3> QED BY <1>3, <2>1, <3>1 DEF InPlaceNow
  <2>8. PlacedInv' /\ StoredInv'
    BY <1>3, <2>1, <2>7, MemoryStays
  <2> QED BY <2>4, <2>5, <2>6, <2>8 DEF BInv
<1> QED BY <1>4, <1>5

LEMMA DoneStep == BInv /\ ImagesAssumption /\ B!Done => BInv'
<1> SUFFICES ASSUME BInv, ImagesAssumption, B!Done PROVE BInv'
  OBVIOUS
<1>0. /\ bpc = "dir" /\ dir > Len(image.dir) /\ bpc' = IF prev = 0 THEN "crashed" ELSE "done"
      /\ UNCHANGED <<image, dir, seg, prev, first_bootstrap_start_vaddr, next_entry, loader, mem, bfree>>
  BY DEF B!Done, B!imageVars
<1>1. DirInv /\ HeadersInv /\ ChainInv
  BY DEF BInv
<1>2. Len(image.dir) \in Nat
  BY <1>1, ImageIs DEF DirInv
<1>3. B!Boots' = B!Boots /\ DirInv'
  BY <1>0, <1>1, <1>2 DEF DirInv, B!Boots
<1>4. HeadersInv'
  BY <1>0, <1>1, <1>3 DEF HeadersInv
<1>5. ChainInv'
  BY <1>0, ChainStays
<1>6. PlacedInv' /\ StoredInv'
  BY <1>0, MemoryStays DEF InPlaceNow
<1> QED BY <1>3, <1>4, <1>5, <1>6 DEF BInv

LEMMA BootStutter == BInv /\ ImagesAssumption /\ UNCHANGED B!vars => BInv'
<1> SUFFICES ASSUME BInv, ImagesAssumption, UNCHANGED B!vars PROVE BInv'
  OBVIOUS
<1>0. UNCHANGED <<image, bpc, dir, seg, prev, first_bootstrap_start_vaddr, next_entry, loader, mem, bfree>>
  BY DEF B!vars, B!imageVars
<1>1. DirInv /\ HeadersInv /\ ChainInv
  BY DEF BInv
<1>2. B!Boots' = B!Boots /\ DirInv'
  BY <1>0, <1>1 DEF DirInv, B!Boots
<1>3. HeadersInv'
  BY <1>0, <1>1, <1>2 DEF HeadersInv
<1>4. ChainInv'
  <2>1. CASE bpc = "crashed"
    BY <1>0, <2>1 DEF ChainInv
  <2>2. CASE bpc # "crashed"
    BY <1>0, <2>2, ChainStays
  <2> QED BY <2>1, <2>2
<1>5. PlacedInv' /\ StoredInv'
  BY <1>0, MemoryStays DEF InPlaceNow
<1> QED BY <1>2, <1>3, <1>4, <1>5 DEF BInv

\* The chain grows by one link, which is to the executable just loaded.
LEMMA LinkStep == BInv /\ ImagesAssumption /\ B!Link => BInv'
<1> SUFFICES ASSUME BInv, ImagesAssumption, B!Link PROVE BInv'
  OBVIOUS
<1>0. /\ bpc = "phdr" /\ (image.virtual \/ seg = Len(image.dir[dir].segs) + 1)
      /\ UNCHANGED <<image, seg, mem, bfree, loader>>
  BY DEF B!Link, B!File
<1>1. DirInv /\ HeadersInv /\ ChainInv /\ PlacedInv
  BY DEF BInv
<1>2. /\ B!Boots \subseteq DOMAIN image.dir /\ B!Boots \subseteq Nat \ {0}
      /\ DOMAIN image.dir = 1 .. Len(image.dir) /\ Len(image.dir) \in Nat
      /\ \A n : Passed(n) \subseteq B!Boots
  BY <1>1, BootsIs DEF DirInv
<1>3. dir \in B!Boots /\ dir \in Nat
  BY <1>0, <1>1, <1>2 DEF DirInv
<1>4. B!Boots' = B!Boots /\ DOMAIN next_entry' = DOMAIN next_entry
  BY <1>0 DEF B!Boots, B!Link, B!Chained
<1>5. CASE ~ image.dir[dir].signature
  <2>1. bpc' = "crashed" /\ UNCHANGED <<prev, dir>>
    BY <1>5 DEF B!Link, B!File
  <2>2. DirInv'
    BY <1>0, <1>1, <1>4, <2>1 DEF DirInv
  <2>3. HeadersInv'
    BY <1>0, <1>1, <1>4, <2>1 DEF HeadersInv
  <2>4. ChainInv'
    BY <2>1 DEF ChainInv
  <2>5. PlacedInv' /\ StoredInv'
    BY <1>0, <2>1, MemoryStays DEF InPlaceNow
  <2> QED BY <2>2, <2>3, <2>4, <2>5 DEF BInv
<1>6. CASE image.dir[dir].signature
  <2>1. bpc' = "dir" /\ prev' = dir /\ dir' = dir + 1
    BY <1>6 DEF B!Link, B!File
  <2>2. DirInv'
    BY <1>0, <1>1, <1>2, <1>3, <1>4, <2>1 DEF DirInv
  <2>3. \A f \in B!Boots : f < dir' <=> f < dir \/ f = dir
    BY <1>2, <1>3, <2>1
  <2>4. HeadersInv'
    BY <1>0, <1>1, <1>4, <2>1, <2>3 DEF HeadersInv
  <2> DEFINE L == Passed(dir)
             e == image.dir[dir].entry
  <2>5. /\ Passed(dir)' = L \cup {dir} /\ dir \notin L /\ L \subseteq B!Boots
        /\ \A f \in L : f < dir /\ f \in Nat \ {0}
    BY <1>2, <1>3, <1>4, <2>1, <2>3 DEF Passed
  <2>6. \A S : B!EntryOf(S)' = B!EntryOf(S)
    BY <1>0 DEF B!EntryOf, B!Least
  <2>7. B!EntryOf({dir}) = e
    <3>1. {dir} \in SUBSET Nat /\ \A y \in {dir} : dir <= y
      BY <1>3
    <3> QED BY <3>1, EntryIs
  <2>8. B!EntryOf({}) = 0
    BY DEF B!EntryOf
  <2>9. /\ IF L = {} THEN prev = 0
           ELSE /\ prev \in L /\ \A f \in L : f <= prev
                /\ first_bootstrap_start_vaddr = B!EntryOf(L)
        /\ \A f \in DOMAIN image.dir :
             next_entry[f] = IF f \in L THEN B!EntryOf({g \in L : g > f}) ELSE 0
    BY <1>0, <1>1 DEF ChainInv
  <2>10. IF prev # 0 THEN /\ next_entry' = [next_entry EXCEPT ![prev] = e]
                          /\ UNCHANGED first_bootstrap_start_vaddr
         ELSE first_bootstrap_start_vaddr' = e /\ UNCHANGED next_entry
    BY DEF B!Link, B!Chained, B!File
  <2> HIDE DEF L, e
  <2>11. ASSUME L = {} PROVE ChainInv'
    <3>1. prev = 0 /\ first_bootstrap_start_vaddr' = e /\ next_entry' = next_entry
      BY <2>9, <2>10, <2>11
    <3>2. Passed(dir)' = {dir} /\ {g \in {dir} : g > dir} = {}
      BY <1>3, <2>5, <2>11
    <3>3. \A f \in DOMAIN image.dir :
            next_entry'[f] = IF f \in {dir} THEN B!EntryOf({g \in {dir} : g > f}) ELSE 0
      BY <2>8, <2>9, <2>11, <3>1, <3>2
    <3>4. dir \in {dir} /\ {dir} # {} /\ \A f \in {dir} : f <= dir
      BY <1>3
    <3>5. first_bootstrap_start_vaddr' = B!EntryOf({dir})
      BY <2>7, <3>1
    <3> QED BY <1>0, <2>1, <2>6, <3>2, <3>3, <3>4, <3>5 DEF ChainInv
  <2>12. ASSUME L # {} PROVE ChainInv'
    <3>1. /\ prev \in L /\ prev # 0 /\ \A f \in L : f <= prev
          /\ next_entry' = [next_entry EXCEPT ![prev] = e]
          /\ first_bootstrap_start_vaddr' = B!EntryOf(L)
      BY <2>5, <2>9, <2>10, <2>12
    <3>2. L \in SUBSET Nat /\ {dir} \in SUBSET Nat /\ \A t \in {dir} : \A y \in L : y < t
      BY <1>3, <2>5
    <3>3. B!EntryOf(L \cup {dir}) = B!EntryOf(L)
      BY <2>12, <3>2, EntryStays
    <3>4. ASSUME NEW f \in DOMAIN image.dir
          PROVE  next_entry'[f] = IF f \in L \cup {dir}
                                  THEN B!EntryOf({g \in L \cup {dir} : g > f}) ELSE 0
      <4>1. CASE f = dir
        <5>1. {g \in L \cup {dir} : g > f} = {}
          <6>1. ASSUME NEW g \in L \cup {dir} PROVE ~ (g > dir)
            <7>1. CASE g = dir
              BY <1>3, <7>1
            <7>2. CASE g \in L
              BY <1>3, <2>5, <7>2
            <7> QED BY <7>1, <7>2
          <6> QED BY <4>1, <6>1
        <5>2. next_entry'[f] = next_entry[f] /\ next_entry[f] = 0
          BY <1>1, <2>5, <2>9, <3>1, <4>1 DEF DirInv
        <5> QED BY <2>8, <4>1, <5>1, <5>2
      <4>2. CASE f = prev
        <5>1. {g \in L \cup {dir} : g > f} = {dir}
          BY <1>3, <2>5, <3>1, <4>2
        <5>2. next_entry'[f] = e
          BY <1>1, <3>1, <4>2 DEF DirInv
        <5> QED BY <2>7, <3>1, <4>2, <5>1, <5>2
      <4>3. CASE f \in L /\ f # prev
        <5> DEFINE S == {g \in L : g > f}
        <5>1. {g \in L \cup {dir} : g > f} = S \cup {dir}
          BY <1>3, <2>5, <4>3
        <5>2. prev \in S
          BY <2>5, <3>1, <4>3
        <5>3. S \in SUBSET Nat /\ \A t \in {dir} : \A y \in S : y < t
          BY <2>5
        <5>4. next_entry'[f] = B!EntryOf(S)
          BY <2>9, <3>1, <4>3
        <5> HIDE DEF S
        <5>5. B!EntryOf(S \cup {dir}) = B!EntryOf(S)
          BY <3>2, <5>2, <5>3, EntryStays
        <5> QED BY <4>3, <5>1, <5>4, <5>5
      <4>4. CASE f \notin L /\ f # dir
        <5>1. next_entry'[f] = next_entry[f] /\ next_entry[f] = 0
          BY <1>1, <2>9, <3>1, <4>4 DEF DirInv
        <5> QED BY <4>4, <5>1
      <4> QED BY <4>1, <4>2, <4>3, <4>4
    <3>5. dir \in L \cup {dir} /\ \A f \in L \cup {dir} : f <= dir
      BY <1>3, <2>5
    <3> QED BY <1>0, <2>1, <2>5, <2>6, <3>1, <3>3, <3>4, <3>5 DEF ChainInv
  <2>13. ChainInv'
    BY <2>11, <2>12
  <2>14. PlacedInv' /\ StoredInv'
    <3>1. CASE image.virtual
      BY <1>0, <3>1 DEF PlacedInv, StoredInv
    <3>2. CASE ~ image.virtual
      <4>1. \A f \in B!Boots : \A s \in DOMAIN image.dir[f].segs : InPlaceNow(f, s)' <=> InPlaceNow(f, s)
        <5> SUFFICES ASSUME NEW f \in B!Boots, NEW s \in DOMAIN image.dir[f].segs
                     PROVE  InPlaceNow(f, s)' <=> InPlaceNow(f, s)
          OBVIOUS
        <5>1. /\ s \in Nat /\ Len(image.dir[f].segs) \in Nat
              /\ DOMAIN image.dir[f].segs = 1 .. Len(image.dir[f].segs)
          BY <1>1, <1>2, PartIs DEF PartFacts, DirInv
        <5>2. f = dir => s < seg
          BY <1>0, <3>2, <5>1
        <5> QED BY <1>0, <2>1, <2>3, <5>2 DEF InPlaceNow
      <4> QED BY <1>0, <2>1, <4>1, MemoryStays
    <3> QED BY <3>1, <3>2
  <2> QED BY <2>2, <2>4, <2>13, <2>14 DEF BInv
<1> QED BY <1>5, <1>6

\* A segment is put where it is linked, over nothing that is still needed.
LEMMA LoadSegmentStep == BInv /\ ImagesAssumption /\ B!LoadSegment => BInv'
<1> SUFFICES ASSUME BInv, ImagesAssumption, B!LoadSegment PROVE BInv'
  OBVIOUS
<1>1. DirInv /\ HeadersInv /\ ChainInv /\ PlacedInv /\ StoredInv
  BY DEF BInv
<1> DEFINE c == Part(dir, seg)
<1>2. /\ bpc = "phdr" /\ ~ image.virtual /\ seg' = seg + 1
      /\ IF c.load /\ c.paddr # c.vaddr THEN mem' = B!Placed(mem, c) /\ bfree' = B!Taken(bfree, c)
         ELSE UNCHANGED <<mem, bfree>>
      /\ UNCHANGED <<image, bpc, dir, prev, first_bootstrap_start_vaddr, next_entry, loader>>
  BY DEF B!LoadSegment, Part, B!Phdr, B!File
<1>3. /\ B!Boots \subseteq DOMAIN image.dir /\ B!Boots \subseteq Nat \ {0}
      /\ DOMAIN image.dir = 1 .. Len(image.dir) /\ dir \in B!Boots /\ image \in Images
  BY <1>1, <1>2, BootsIs DEF DirInv
<1>4. seg \in DOMAIN image.dir[dir].segs
  <2>1. seg <= Len(image.dir[dir].segs) /\ seg \in Nat \ {0}
    BY <1>1 DEF B!LoadSegment, B!File, DirInv
  <2>2. image.dir[dir].segs \in Seq(B!Segment)
    <3>1. image.dir[dir] \in B!FileType
      BY <1>3, ImageIs
    <3> QED BY <3>1 DEF B!FileType
  <2> QED BY <2>1, <2>2
<1>5. B!Boots' = B!Boots /\ \A f, s : Part(f, s)' = Part(f, s)
  BY <1>2 DEF B!Boots, Part
<1>6. DOMAIN mem' = DOMAIN mem
  BY <1>2 DEF B!Placed
<1>7. DirInv'
  BY <1>1, <1>2, <1>5, <1>6 DEF DirInv
<1>8. HeadersInv'
  BY <1>1, <1>2, <1>5 DEF HeadersInv
<1>9. ChainInv'
  BY <1>2, ChainStays
<1> HIDE DEF c
\* The step as it is seen from another segment.
<1>10. ASSUME NEW f \in B!Boots, NEW s \in DOMAIN image.dir[f].segs
       PROVE  /\ InPlaceNow(f, s)' <=> InPlaceNow(f, s) \/ <<f, s>> = <<dir, seg>>
              /\ <<f, s>> = <<dir, seg>> => ~ InPlaceNow(f, s)
              /\ InPlaceNow(f, s) => dir > f \/ (dir = f /\ seg > s)
              /\ ~ InPlaceNow(f, s)' => f > dir \/ (f = dir /\ s > seg)
  <2>1. s \in Nat /\ seg \in Nat /\ f \in Nat /\ dir \in Nat
    BY <1>1, <1>3, PartIs DEF PartFacts, DirInv
  <2> QED BY <1>2, <2>1 DEF InPlaceNow
<1>11. bfree' \subseteq bfree
  BY <1>2 DEF B!Taken
<1>12. ASSUME NEW u \in DOMAIN mem, c.load => u \notin B!Linked(c)
       PROVE  mem'[u] = mem[u]
  <2>1. CASE c.load /\ c.paddr # c.vaddr
    <3>1. PartFacts(image, dir, seg) /\ c = image.dir[dir].segs[seg]
      BY <1>3, <1>4, PartIs DEF Part, c
    <3>2. {c.vaddr, c.filesz, c.memsz} \subseteq Nat /\ c.filesz <= c.memsz
      BY <3>1 DEF PartFacts
    <3>3. u \notin B!Run(c.vaddr, c.filesz) /\ u \notin B!Run(c.vaddr + c.filesz, c.memsz - c.filesz)
      BY <1>12, <2>1, <3>2 DEF B!Run, B!Linked
    <3> QED BY <1>2, <2>1, <3>3 DEF B!Placed
  <2> QED BY <1>2, <2>1
<1>13. ASSUME NEW f \in B!Boots, NEW s \in DOMAIN image.dir[f].segs, Part(f, s).load,
              InPlaceNow(f, s)'
       PROVE  LET p == Part(f, s) IN
              /\ \A i \in 0 .. p.memsz - 1 :
                   mem'[p.vaddr + i] = IF i < p.filesz THEN <<f, s, i>> ELSE <<B!Zero>>
              /\ bfree' \cap B!Linked(p) = {}
  <2> DEFINE p == Part(f, s)
  <2>1. PartFacts(image, f, s) /\ p = image.dir[f].segs[s] /\ p.load
    BY <1>3, <1>13, PartIs DEF Part
  <2> HIDE DEF p
  <2>2. /\ {p.vaddr, p.offset, p.filesz, p.memsz} \subseteq Nat /\ p.filesz <= p.memsz
        /\ B!Linked(p) \subseteq DOMAIN mem /\ B!Stored(p) \subseteq DOMAIN mem
        /\ p.paddr = p.vaddr =>
             p.offset = p.vaddr /\ p.filesz = p.memsz
    BY <1>1, <2>1 DEF PartFacts, DirInv
  <2>3. \A i \in 0 .. p.memsz - 1 : p.vaddr + i \in B!Linked(p)
    BY <2>2 DEF B!Linked, B!Run
  <2>4. CASE InPlaceNow(f, s)
    <3>1. /\ \A i \in 0 .. p.memsz - 1 :
               mem[p.vaddr + i] = IF i < p.filesz THEN <<f, s, i>> ELSE <<B!Zero>>
          /\ bfree \cap B!Linked(p) = {}
      BY <1>1, <1>2, <2>1, <2>4 DEF PlacedInv, p
    <3>2. c.load => B!Linked(p) \cap B!Linked(c) = {}
      BY <1>3, <1>4, <1>10, <2>1, <2>4, PartsApart DEF Part, c
    <3>3. \A i \in 0 .. p.memsz - 1 : mem'[p.vaddr + i] = mem[p.vaddr + i]
      BY <1>12, <2>2, <2>3, <3>2
    <3> QED BY <1>11, <3>1, <3>3 DEF p
  <2>5. CASE <<f, s>> = <<dir, seg>>
    <3>1. p = c /\ ~ InPlaceNow(f, s)
      BY <1>10, <2>5 DEF p, c
    <3>2. /\ \A i \in 0 .. p.filesz - 1 : mem[p.offset + i] = <<f, s, i>>
          /\ B!Linked(p) \subseteq bfree \/ B!Linked(p) \cap bfree = {}
          /\ p.paddr = p.vaddr => B!Linked(p) \cap bfree = {}
      BY <1>1, <1>2, <2>1, <3>1 DEF StoredInv, p
    <3>3. CASE c.paddr # c.vaddr
      <4>1. mem' = B!Placed(mem, p) /\ bfree' = B!Taken(bfree, p)
        BY <1>2, <2>1, <3>1, <3>3
      <4>2. bfree' \cap B!Linked(p) = {}
        BY <3>2, <4>1 DEF B!Taken
      <4>3. ASSUME NEW i \in 0 .. p.memsz - 1
            PROVE  mem'[p.vaddr + i] = IF i < p.filesz THEN <<f, s, i>> ELSE <<B!Zero>>
        <5>1. /\ p.vaddr + i \in DOMAIN mem /\ (p.vaddr + i) - p.vaddr = i
              /\ p.vaddr + i \in B!Run(p.vaddr, p.filesz) <=> i < p.filesz
              /\ p.vaddr + i \in B!Run(p.vaddr + p.filesz, p.memsz - p.filesz) <=> ~ (i < p.filesz)
              /\ i < p.filesz => i \in 0 .. p.filesz - 1
          BY <2>2, <2>3 DEF B!Run
        <5> QED BY <3>2, <4>1, <5>1 DEF B!Placed
      <4> QED BY <4>2, <4>3 DEF p
    <3>4. CASE c.paddr = c.vaddr
      <4>1. mem' = mem /\ bfree' = bfree
        BY <1>2, <3>4
      <4>2. p.offset = p.vaddr /\ p.filesz = p.memsz /\ B!Linked(p) \cap bfree = {}
        BY <2>2, <3>1, <3>2, <3>4
      <4>3. \A i \in 0 .. p.memsz - 1 : i < p.filesz /\ mem[p.vaddr + i] = <<f, s, i>>
        BY <2>2, <3>2, <4>2
      <4> QED BY <4>1, <4>2, <4>3 DEF p
    <3> QED BY <3>3, <3>4
  <2> QED BY <1>10, <1>13, <2>4, <2>5
<1>14. ASSUME NEW f \in B!Boots, NEW s \in DOMAIN image.dir[f].segs, Part(f, s).load,
              ~ InPlaceNow(f, s)'
       PROVE  LET p == Part(f, s) IN
              /\ \A i \in 0 .. p.filesz - 1 : mem'[p.offset + i] = <<f, s, i>>
              /\ B!Linked(p) \subseteq bfree' \/ B!Linked(p) \cap bfree' = {}
              /\ p.paddr = p.vaddr => B!Linked(p) \cap bfree' = {}
  <2> DEFINE p == Part(f, s)
  <2>1. PartFacts(image, f, s) /\ p = image.dir[f].segs[s] /\ p.load
    BY <1>3, <1>14, PartIs DEF Part
  <2> HIDE DEF p
  <2>2. /\ {p.offset, p.filesz} \subseteq Nat /\ B!Stored(p) \subseteq DOMAIN mem
    BY <1>1, <2>1 DEF PartFacts, DirInv
  <2>3. ~ InPlaceNow(f, s) /\ (f > dir \/ (f = dir /\ s > seg))
    BY <1>10, <1>14
  <2>4. /\ \A i \in 0 .. p.filesz - 1 : mem[p.offset + i] = <<f, s, i>>
        /\ B!Linked(p) \subseteq bfree \/ B!Linked(p) \cap bfree = {}
        /\ p.paddr = p.vaddr => B!Linked(p) \cap bfree = {}
    BY <1>1, <1>2, <2>1, <2>3 DEF StoredInv, p
  <2>5. c.load => B!Linked(c) \cap (B!Stored(p) \cup B!Linked(p)) = {}
    BY <1>3, <1>4, <2>1, <2>3, PartsApart DEF Part, c
  <2>6. \A i \in 0 .. p.filesz - 1 : p.offset + i \in B!Stored(p)
    BY <2>2 DEF B!Stored, B!Run
  <2>7. \A i \in 0 .. p.filesz - 1 : mem'[p.offset + i] = mem[p.offset + i]
    BY <1>12, <2>2, <2>5, <2>6
  <2>8. bfree' = bfree \/ (c.load /\ bfree' = bfree \ B!Linked(c))
    BY <1>2 DEF B!Taken
  <2>9. B!Linked(p) \subseteq bfree' \/ B!Linked(p) \cap bfree' = {}
    BY <2>4, <2>5, <2>8
  <2> QED BY <1>11, <2>4, <2>7, <2>9 DEF p
<1>15. PlacedInv'
  BY <1>2, <1>5, <1>13 DEF PlacedInv, B!Linked, B!Run, B!Zero
<1>16. StoredInv'
  BY <1>2, <1>5, <1>14 DEF StoredInv, B!Linked, B!Run
<1> QED BY <1>7, <1>8, <1>9, <1>15, <1>16 DEF BInv

\* Through any image that is laid out as mkifs does it, load_bootstraps()
\* makes one chain of the bootstrap executables, in the order of the
\* directory, and each of their segments ends up in its place whole, whatever
\* it is moved over.
THEOREM BootstrapsAreRight == B!Spec => []B!BootstrapsRight
<1>1. ImagesAssumption
  BY ImagesAssumption
<1>2. BInv /\ [B!Next]_(B!vars) => BInv'
  BY <1>1, NextEntryStep, LoadElfStep, LoadSegmentStep, LinkStep, DoneStep, BootStutter DEF B!Next
<1>3. BInv => B!BootstrapsRight
  <2> SUFFICES ASSUME BInv PROVE B!ChainRight /\ B!PlacesRight
    BY DEF B!BootstrapsRight
  <2>1. DirInv /\ HeadersInv /\ ChainInv /\ PlacedInv
    BY DEF BInv
  <2>2. B!PlacesRight
    BY <2>1 DEF B!PlacesRight, PlacedInv, Part, InPlaceNow
  <2>3. ASSUME bpc = "done"
        PROVE  B!ChainRight
    <3>1. /\ B!Boots \subseteq DOMAIN image.dir /\ B!Boots \subseteq Nat \ {0}
          /\ DOMAIN image.dir = 1 .. Len(image.dir) /\ Len(image.dir) \in Nat
      BY <1>1, <2>1, BootsIs DEF DirInv
    <3>2. dir = Len(image.dir) + 1 /\ prev # 0
      BY <2>1, <2>3 DEF DirInv
    <3>3. \A f \in B!Boots : f < dir
      BY <3>1, <3>2
    <3>4. Passed(dir) = B!Boots
      BY <3>3 DEF Passed
    <3>5. \A f : B!After(f) = {g \in B!Boots : g > f}
      BY DEF B!After
    <3>6. /\ first_bootstrap_start_vaddr = B!EntryOf(B!Boots)
          /\ \A f \in DOMAIN image.dir :
               next_entry[f] = IF f \in B!Boots THEN B!EntryOf(B!After(f)) ELSE 0
      BY <2>1, <2>3, <3>2, <3>4, <3>5 DEF ChainInv
    <3>7. \A f \in B!Boots : LET h == image.dir[f].hdr IN
            h.machine = EmNative /\ h.data = DataNative /\ loader[f] = h.class
      BY <2>1, <3>3 DEF HeadersInv
    <3> QED BY <3>6, <3>7 DEF B!ChainRight
  <2> QED BY <2>2, <2>3 DEF B!ChainRight
<1> QED BY <1>1, <1>2, <1>3, BootInit0, PTL DEF B!Spec

\* The same with the other bootstrap executables of the image: each is what
\* its file says and starts the next one.
THEOREM LoadedIsRight == Spec /\ B!Spec => []LoadedRight
<1>1. Spec => []ElfRight /\ []AreasApart
  BY ElfIsLoaded, AreasStayApart
<1>2. B!Spec => []B!BootstrapsRight
  BY BootstrapsAreRight
<1>3. ElfRight /\ AreasApart /\ B!BootstrapsRight => LoadedRight
  BY DEF LoadedRight
<1> QED BY <1>1, <1>2, <1>3, PTL

-----------------------------------------------------------------------------
(* The spin-table start: Fdt, F of BootInputs                               *)

\* The number of a CPU and its release address, as a tree has them.
CpuOf(t)      == 1 .. F!fdt_num_cpu(t) - 1
PropOf(t, c, name) == F!fdt_getprop(t, F!CpuList(t)[c + 1], name)
ParkedOf(t)   == {c \in CpuOf(t) : PropOf(t, c, "cpu-release-addr").len \in {4, 8}}
MpidrOf(t, c) == F!CellNumber(PropOf(t, c, "reg"))

\* The trees tell the truth: every CPU but the first has a number of its
\* own, which is not zero, the value spin_shim_id has before any is written.
Truthful ==
  \A t \in Trees :
    /\ F!fdt_num_cpu(t) \in Nat
    /\ \A c, d \in CpuOf(t) :
         MpidrOf(t, c) # 0 /\ (MpidrOf(t, c) = MpidrOf(t, d) => c = d)

\* CPUs whose number spin_shim_id has held, this one's among them.
Ids == {F!Mpidr(d) : d \in {x \in F!Others : x <= cpu}}

\* What memory and the lines not yet cleaned hold at each step: the shim
\* can only let a CPU out when the start routine is there to go to.
PlaceInv ==
  /\ cpu \in Nat
  /\ spc = "idle" => ap = << >> /\ shim_start = F!Zero /\ shim_id = 0 /\ dirty = << >>
  /\ spc # "idle" => /\ tree \in Trees /\ DOMAIN ap = ParkedOf(tree) /\ cpu > 0
                     /\ DOMAIN event = DOMAIN ap
                     /\ \A c \in DOMAIN ap : F!ReleaseAddr(c) \in DOMAIN release
  /\ spc \in {"clean_release", "id", "clean_id", "wait"} => cpu \in DOMAIN ap
DirtyInv ==
  /\ F!TheStart \in DOMAIN dirty => dirty[F!TheStart] = F!start
  /\ F!TheId \in DOMAIN dirty => dirty[F!TheId] \in Ids
  /\ \A a : F!At(a) \in DOMAIN dirty => dirty[F!At(a)] = F!Shim
MemoryInv ==
  /\ shim_start \in {F!Zero, F!start} /\ shim_id \in {0} \cup Ids
  /\ \A a \in DOMAIN release : release[a] \in {F!Zero, F!Shim}
ShimInv ==
  /\ spc = "clean_start" => F!TheStart \in DOMAIN dirty \/ shim_start = F!start
  /\ spc \in {"release", "clean_release", "id", "clean_id", "wait"} => shim_start = F!start
  /\ shim_id # 0 \/ F!TheId \in DOMAIN dirty => shim_start = F!start
ApInv == \A c \in DOMAIN ap : ap[c] \in {F!Zero, F!Shim} \/ (ap[c] = F!start /\ c <= cpu)
\* Those whose turn is over run, and at the end every turn is.
TurnInv ==
  /\ spc # "idle" => \A c \in F!Others : c < cpu => c \in DOMAIN ap /\ ap[c] = F!start
  /\ spc = "done" => \A c \in F!Others : c < cpu
AllRun == spc = "done" => \A c \in F!Others : F!Running(c)
SpinInv == PlaceInv /\ DirtyInv /\ MemoryInv /\ ShimInv /\ ApInv

-----------------------------------------------------------------------------
\* The words in memory are told apart, and so are the values in them.
LEMMA Words ==
  /\ F!TheStart # F!TheId /\ \A a : F!At(a) # F!TheStart /\ F!At(a) # F!TheId
  /\ \A a, b : F!At(a) = F!At(b) => a = b
  /\ F!start # F!Zero /\ F!start # F!Shim /\ F!Shim # F!Zero
BY DEF F!TheStart, F!TheId, F!At, F!start, F!Zero, F!Shim

\* The CPUs' numbers and release addresses are those of the tree.
LEMMA SameTree ==
  ASSUME UNCHANGED tree
  PROVE  /\ F!Others' = F!Others
         /\ \A c : F!ReleaseAddr(c)' = F!ReleaseAddr(c) /\ F!Mpidr(c)' = F!Mpidr(c)
         /\ \A c : ParkedOf(c)' = ParkedOf(c)
BY DEF F!Others, F!ReleaseAddr, F!Mpidr, F!CpuProp

\* The CPUs and their numbers as the tree of the state has them.
LEMMA OfTree ==
  /\ F!Others = CpuOf(tree)
  /\ \A c : F!Mpidr(c) = MpidrOf(tree, c)
BY DEF F!Others, CpuOf, F!Mpidr, MpidrOf, F!CpuProp, PropOf

\* What a store leaves in the cache, and what cleaning a line does.
LEMMA StoreIs ==
  ASSUME NEW w, NEW v, F!Store(w, v)
  PROVE  /\ DOMAIN dirty' = DOMAIN dirty \cup {w} /\ dirty'[w] = v
         /\ \A x \in DOMAIN dirty : x # w => dirty'[x] = dirty[x]
BY DEF F!Store

\* A cache line written back changes the one word of memory it holds.
LEMMA CleanIs ==
  ASSUME NEW w, F!Clean(w)
  PROVE  /\ DOMAIN dirty' = DOMAIN dirty \ {w}
         /\ \A x \in DOMAIN dirty \ {w} : dirty'[x] = dirty[x]
         /\ shim_start' = (IF w = F!TheStart /\ w \in DOMAIN dirty THEN dirty[w] ELSE shim_start)
         /\ shim_id' = (IF w = F!TheId /\ w \in DOMAIN dirty THEN dirty[w] ELSE shim_id)
         /\ DOMAIN release' = DOMAIN release
         /\ \A a \in DOMAIN release :
              release'[a] = IF w = F!At(a) /\ w \in DOMAIN dirty THEN dirty[w] ELSE release[a]
BY DEF F!Clean

\* Cleaning a line keeps what memory may hold, whoever cleans it: CPU 0 in
\* its turn, or the cache.
LEMMA CleanKeeps ==
  ASSUME DirtyInv, MemoryInv, ApInv, NEW w, F!Clean(w), UNCHANGED <<tree, cpu, ap>>,
         shim_id # 0 \/ F!TheId \in DOMAIN dirty => shim_start = F!start
  PROVE  /\ DirtyInv' /\ MemoryInv' /\ ApInv'
         /\ shim_start = F!start => shim_start' = F!start
         /\ F!TheStart \in DOMAIN dirty => F!TheStart \in DOMAIN dirty' \/ shim_start' = F!start
         /\ w = F!TheStart /\ F!TheStart \in DOMAIN dirty => shim_start' = F!start
         /\ shim_id' # 0 \/ F!TheId \in DOMAIN dirty' => shim_start' = F!start
<1>i. Ids' = Ids /\ Ids \subseteq Ids'
  <2>1. F!Others' = F!Others /\ \A c : F!Mpidr(c)' = F!Mpidr(c)
    BY SameTree
  <2> QED BY <2>1 DEF Ids
<1>c. /\ DOMAIN dirty' = DOMAIN dirty \ {w}
      /\ \A x \in DOMAIN dirty \ {w} : dirty'[x] = dirty[x]
      /\ shim_start' = (IF w = F!TheStart /\ w \in DOMAIN dirty THEN dirty[w] ELSE shim_start)
      /\ shim_id' = (IF w = F!TheId /\ w \in DOMAIN dirty THEN dirty[w] ELSE shim_id)
      /\ DOMAIN release' = DOMAIN release
      /\ \A a \in DOMAIN release :
           release'[a] = IF w = F!At(a) /\ w \in DOMAIN dirty THEN dirty[w] ELSE release[a]
  BY CleanIs
<1>d. /\ F!TheStart \in DOMAIN dirty => dirty[F!TheStart] = F!start
      /\ F!TheId \in DOMAIN dirty => dirty[F!TheId] \in Ids
      /\ \A a : F!At(a) \in DOMAIN dirty => dirty[F!At(a)] = F!Shim
  BY DEF DirtyInv
<1>s. F!TheStart' = F!TheStart /\ F!TheId' = F!TheId /\ \A a : F!At(a)' = F!At(a)
  BY DEF F!TheStart, F!TheId, F!At
<1>1. DirtyInv'
  BY <1>c, <1>d, <1>i DEF DirtyInv, F!TheStart, F!TheId, F!At, F!start, F!Shim
<1>2. MemoryInv'
  <2>1. shim_start' \in {F!Zero, F!start} /\ shim_id' \in {0} \cup Ids
    BY <1>c, <1>d DEF MemoryInv
  <2>2. \A a \in DOMAIN release : release'[a] \in {F!Zero, F!Shim}
    BY <1>c, <1>d DEF MemoryInv
  <2> QED BY <1>c, <1>i, <2>1, <2>2 DEF MemoryInv, F!Zero, F!start, F!Shim
<1>3. ApInv'
  BY DEF ApInv, F!Zero, F!Shim, F!start
<1>4. /\ shim_start = F!start => shim_start' = F!start
      /\ F!TheStart \in DOMAIN dirty => F!TheStart \in DOMAIN dirty' \/ shim_start' = F!start
      /\ w = F!TheStart /\ F!TheStart \in DOMAIN dirty => shim_start' = F!start
  BY <1>c, <1>d
<1>5. shim_id' # 0 \/ F!TheId \in DOMAIN dirty' => shim_start' = F!start
  BY <1>c, <1>4
<1> QED BY <1>1, <1>2, <1>3, <1>4, <1>5

\* A store keeps it, when it is one of those that CPU 0 makes.
LEMMA StoreKeeps ==
  ASSUME DirtyInv, MemoryInv, ApInv, UNCHANGED <<tree, cpu, ap, F!memory>>, NEW w, NEW v,
         F!Store(w, v),
         \/ w = F!TheStart /\ v = F!start
         \/ w = F!TheId /\ v \in Ids
         \/ \E a : w = F!At(a) /\ v = F!Shim
  PROVE  DirtyInv' /\ MemoryInv' /\ ApInv' /\ (w # F!TheId => DOMAIN dirty' \subseteq DOMAIN dirty \cup {w})
<1>i. Ids' = Ids
  <2>1. F!Others' = F!Others /\ \A c : F!Mpidr(c)' = F!Mpidr(c)
    BY SameTree
  <2> QED BY <2>1 DEF Ids
<1>c. /\ DOMAIN dirty' = DOMAIN dirty \cup {w} /\ dirty'[w] = v
      /\ \A x \in DOMAIN dirty : x # w => dirty'[x] = dirty[x]
  BY StoreIs
<1>d. /\ F!TheStart \in DOMAIN dirty' => dirty'[F!TheStart] = F!start
      /\ F!TheId \in DOMAIN dirty' => dirty'[F!TheId] \in Ids
      /\ \A a : F!At(a) \in DOMAIN dirty' => dirty'[F!At(a)] = F!Shim
  BY <1>c, Words DEF DirtyInv
<1>1. DirtyInv'
  BY <1>d, <1>i DEF DirtyInv, F!TheStart, F!TheId, F!At, F!start, F!Shim
<1>2. MemoryInv'
  BY <1>i DEF MemoryInv, F!memory, F!Zero, F!start, F!Shim
<1>3. ApInv'
  BY DEF ApInv, F!Zero, F!Shim, F!start
<1> QED BY <1>c, <1>1, <1>2, <1>3

-----------------------------------------------------------------------------
(* The steps.                                                              *)

\* start_aps() begins.
LEMMA BeginStep ==
  ASSUME SpinInv, F!Begin
  PROVE  SpinInv'
<1>0. /\ spc = "idle" /\ shim_start = F!Zero /\ shim_id = 0 /\ dirty = << >>
      /\ tree' \in Trees /\ cpu' = 1 /\ spc' = "start"
      /\ UNCHANGED <<shim_start, shim_id, dirty>>
  BY DEF SpinInv, PlaceInv, F!Begin
<1> DEFINE parked == ParkedOf(tree')
           Value(c) == PropOf(tree', c, "cpu-release-addr")
<1>1. /\ release' = [a \in {F!CellNumber(Value(c)) : c \in parked} |-> F!Zero]
      /\ ap' = [c \in parked |-> F!Zero] /\ event' = [c \in parked |-> FALSE]
  BY DEF F!Begin, ParkedOf, CpuOf, PropOf
<1>2. \A c \in parked : F!ReleaseAddr(c)' \in DOMAIN release'
  <2>1. \A c : F!ReleaseAddr(c)' = F!CellNumber(Value(c))
    BY DEF F!ReleaseAddr, F!CpuProp, PropOf
  <2> QED BY <1>1, <2>1
<1>3. PlaceInv'
  <2>1. DOMAIN ap' = ParkedOf(tree)' /\ DOMAIN event' = DOMAIN ap'
    BY <1>1 DEF ParkedOf, CpuOf, PropOf
  <2>2. \A c \in DOMAIN ap' : F!ReleaseAddr(c)' \in DOMAIN release'
    BY <1>1, <1>2
  <2> QED BY <1>0, <2>1, <2>2 DEF PlaceInv
<1>4. DirtyInv' /\ MemoryInv'
  <2>1. \A a \in DOMAIN release' : release'[a] = F!Zero
    BY <1>1
  <2> QED BY <1>0, <2>1 DEF DirtyInv, MemoryInv, F!Zero
<1>5. ShimInv'
  BY <1>0 DEF ShimInv
<1>6. ApInv'
  BY <1>1 DEF ApInv, F!Zero
<1> QED BY <1>3, <1>4, <1>5, <1>6 DEF SpinInv

\* A cache may write a dirty line back at any time.
LEMMA EvictStep ==
  ASSUME SpinInv, F!Evict
  PROVE  SpinInv'
<1>0. /\ PlaceInv /\ DirtyInv /\ MemoryInv /\ ShimInv /\ ApInv
      /\ UNCHANGED <<tree, cpu, spc, ap, event>>
  BY DEF SpinInv, F!Evict
<1>1. PICK w : w \in DOMAIN dirty /\ F!Clean(w)
  BY DEF F!Evict
<1>2. shim_id # 0 \/ F!TheId \in DOMAIN dirty => shim_start = F!start
  BY <1>0 DEF ShimInv
<1>3. /\ DirtyInv' /\ MemoryInv' /\ ApInv'
      /\ shim_start = F!start => shim_start' = F!start
      /\ F!TheStart \in DOMAIN dirty => F!TheStart \in DOMAIN dirty' \/ shim_start' = F!start
      /\ shim_id' # 0 \/ F!TheId \in DOMAIN dirty' => shim_start' = F!start
  BY <1>0, <1>1, <1>2, CleanKeeps
<1>4. PlaceInv'
  <2>1. spc # "idle"
    BY <1>0, <1>1 DEF PlaceInv
  <2>2. DOMAIN release' = DOMAIN release
    BY <1>1, CleanIs
  <2>3. F!Others' = F!Others /\ \A c : F!ReleaseAddr(c)' = F!ReleaseAddr(c)
    BY <1>0, SameTree
  <2> QED BY <1>0, <2>1, <2>2, <2>3 DEF PlaceInv, ParkedOf, CpuOf, PropOf
<1>5. ShimInv'
  BY <1>0, <1>3 DEF ShimInv, F!TheStart, F!TheId, F!start
<1> QED BY <1>3, <1>4, <1>5 DEF SpinInv

\* CPU 0 writes the start routine, a release address or a CPU's number.
LEMMA WriteStep ==
  ASSUME SpinInv, F!SetStart \/ F!Release \/ F!SetId
  PROVE  SpinInv'
<1>0. /\ PlaceInv /\ DirtyInv /\ MemoryInv /\ ShimInv /\ ApInv
      /\ UNCHANGED <<tree, cpu, ap, event, F!memory>>
  BY DEF SpinInv, F!SetStart, F!Release, F!SetId, F!Goto
<1>s. F!Others' = F!Others /\ \A c : F!ReleaseAddr(c)' = F!ReleaseAddr(c)
  BY <1>0, SameTree
<1>p. spc # "idle" /\ spc' # "idle"
  BY DEF F!SetStart, F!Release, F!SetId, F!Goto
<1>t. spc' \in {"clean_release", "clean_id"} => cpu \in DOMAIN ap
  <2>1. CASE F!SetStart
    BY <2>1 DEF F!SetStart, F!Goto
  <2>2. CASE F!Release
    <3>1. cpu \in ParkedOf(tree)
      BY <2>2 DEF F!Release, F!Releasable, ParkedOf, CpuOf, PropOf, F!CpuProp, F!Others
    <3> QED BY <1>0, <1>p, <3>1 DEF PlaceInv
  <2>3. CASE F!SetId
    BY <1>0, <2>3 DEF F!SetId, F!Goto, PlaceInv
  <2> QED BY <2>1, <2>2, <2>3
<1>1. PlaceInv'
  <2>1. spc' \notin {"id", "wait"}
    BY DEF F!SetStart, F!Release, F!SetId, F!Goto
  <2> QED BY <1>0, <1>s, <1>p, <1>t, <2>1 DEF PlaceInv, ParkedOf, CpuOf, PropOf, F!memory
<1>2. CASE F!SetStart
  <2>1. spc' = "clean_start" /\ F!Store(F!TheStart, F!start)
    BY <1>2 DEF F!SetStart, F!Goto
  <2>2. DirtyInv' /\ MemoryInv' /\ ApInv' /\ DOMAIN dirty' = DOMAIN dirty \cup {F!TheStart}
    BY <1>0, <2>1, StoreKeeps, StoreIs
  <2>3. ShimInv'
    BY <1>0, <2>1, <2>2, Words DEF ShimInv, F!memory, F!TheStart, F!TheId, F!start
  <2> QED BY <1>1, <2>2, <2>3 DEF SpinInv
<1>3. CASE F!Release
  <2>1. spc = "release" /\ spc' = "clean_release" /\ F!Store(F!At(F!ReleaseAddr(cpu)), F!Shim)
    BY <1>3 DEF F!Release, F!Goto
  <2>2. DirtyInv' /\ MemoryInv' /\ ApInv'
    BY <1>0, <2>1, StoreKeeps
  <2>3. ShimInv'
    BY <1>0, <2>1 DEF ShimInv, F!memory, F!start
  <2> QED BY <1>1, <2>2, <2>3 DEF SpinInv
<1>4. CASE F!SetId
  <2>1. spc = "id" /\ spc' \in {"failed", "clean_id", "crash"}
    BY <1>4 DEF F!SetId, F!Goto
  <2>2. \/ spc' \in {"failed", "crash"} /\ UNCHANGED dirty
        \/ F!Store(F!TheId, F!Mpidr(cpu))
    BY <1>4 DEF F!SetId, F!Goto, F!Mpidr
  <2>3. F!Mpidr(cpu) \in Ids
    <3>1. cpu \in F!Others /\ cpu <= cpu
      <4>1. cpu \in DOMAIN ap /\ DOMAIN ap = ParkedOf(tree) /\ cpu \in Nat
        BY <1>0, <2>1 DEF PlaceInv
      <4> QED BY <4>1, OfTree DEF ParkedOf
    <3> QED BY <3>1 DEF Ids
  <2>4. DirtyInv' /\ MemoryInv' /\ ApInv'
    <3>1. CASE UNCHANGED dirty
      <4>1. Ids' = Ids
        BY <1>0, SameTree DEF Ids
      <4> QED BY <1>0, <3>1, <4>1
              DEF DirtyInv, MemoryInv, ApInv, F!memory, F!TheStart, F!TheId, F!At, F!Zero, F!start, F!Shim
    <3>2. CASE F!Store(F!TheId, F!Mpidr(cpu))
      BY <1>0, <2>3, <3>2, StoreKeeps
    <3> QED BY <2>2, <3>1, <3>2
  <2>5. ShimInv'
    BY <1>0, <2>1 DEF ShimInv, F!memory, F!start
  <2> QED BY <1>1, <2>4, <2>5 DEF SpinInv
<1> QED BY <1>2, <1>3, <1>4

\* CPU 0 cleans what it has written, if it is not clean yet.
LEMMA CleanStep ==
  ASSUME SpinInv, F!CleanStart \/ F!CleanRelease \/ F!CleanId
  PROVE  SpinInv'
<1>0. /\ PlaceInv /\ DirtyInv /\ MemoryInv /\ ShimInv /\ ApInv
      /\ UNCHANGED <<tree, cpu, ap>> /\ DOMAIN event' = DOMAIN event
  BY DEF SpinInv, F!CleanStart, F!CleanRelease, F!CleanId, F!Goto, F!SIGNAL
<1>1. PICK w : /\ F!Clean(w)
               /\ \/ spc = "clean_start" /\ spc' = "release" /\ w = F!TheStart
                  \/ spc = "clean_release" /\ spc' = "id"
                  \/ spc = "clean_id" /\ spc' = "wait"
  BY DEF F!CleanStart, F!CleanRelease, F!CleanId, F!Goto
<1>2. shim_id # 0 \/ F!TheId \in DOMAIN dirty => shim_start = F!start
  BY <1>0 DEF ShimInv
<1>3. /\ DirtyInv' /\ MemoryInv' /\ ApInv'
      /\ shim_start = F!start => shim_start' = F!start
      /\ w = F!TheStart /\ F!TheStart \in DOMAIN dirty => shim_start' = F!start
      /\ shim_id' # 0 \/ F!TheId \in DOMAIN dirty' => shim_start' = F!start
  BY <1>0, <1>1, <1>2, CleanKeeps
<1>4. PlaceInv'
  <2>1. DOMAIN release' = DOMAIN release
    BY <1>1, CleanIs
  <2>2. F!Others' = F!Others /\ \A c : F!ReleaseAddr(c)' = F!ReleaseAddr(c)
    BY <1>0, SameTree
  <2> QED BY <1>0, <1>1, <2>1, <2>2 DEF PlaceInv, ParkedOf, CpuOf, PropOf
<1>5. ShimInv'
  BY <1>0, <1>1, <1>3 DEF ShimInv, F!TheStart, F!TheId, F!start
<1> QED BY <1>3, <1>4, <1>5 DEF SpinInv

\* CPU 0 goes on to the next CPU, or gives up.
LEMMA NextCpuStep ==
  ASSUME SpinInv, F!NextCpu \/ F!NotReleasable
  PROVE  SpinInv'
<1>0. /\ PlaceInv /\ DirtyInv /\ MemoryInv /\ ShimInv /\ ApInv /\ cpu \in Nat
      /\ UNCHANGED <<tree, ap, event, F!memory, dirty>>
      /\ cpu' \in {cpu, cpu + 1}
      /\ spc \in {"wait", "release"} /\ spc' \in {"start", "done", "failed"}
  BY DEF SpinInv, F!NextCpu, F!NotReleasable, F!Goto, PlaceInv
<1>1. cpu <= cpu' /\ cpu' \in Nat /\ cpu' >= cpu
  BY <1>0
<1>2. F!Others' = F!Others /\ \A c : F!ReleaseAddr(c)' = F!ReleaseAddr(c) /\ F!Mpidr(c)' = F!Mpidr(c)
  BY <1>0, SameTree
<1>3. Ids \subseteq Ids'
  <2>1. \A d \in F!Others : d <= cpu => d <= cpu'
    <3>1. \A d \in F!Others : d \in Int
      BY DEF F!Others
    <3> QED BY <1>0, <1>1, <3>1
  <2> QED BY <1>2, <2>1 DEF Ids
<1>4. PlaceInv'
  BY <1>0, <1>1, <1>2 DEF PlaceInv, F!memory, ParkedOf, CpuOf, PropOf
<1>5. DirtyInv' /\ MemoryInv'
  BY <1>0, <1>3 DEF DirtyInv, MemoryInv, F!memory, F!TheStart, F!TheId, F!At, F!Zero, F!start, F!Shim
<1>6. ShimInv'
  BY <1>0 DEF ShimInv, F!memory, F!TheId, F!start
<1>7. ApInv'
  <2>1. \A c \in DOMAIN ap : c \in Int
    BY <1>0 DEF PlaceInv, ParkedOf, CpuOf
  <2> QED BY <1>0, <1>1, <2>1 DEF ApInv, F!Zero, F!Shim, F!start
<1> QED BY <1>4, <1>5, <1>6, <1>7 DEF SpinInv

\* A CPU leaves firmware's loop or the shim. Only the one whose number the
\* shim holds gets out, and that number was written in its turn.
LEMMA ParkingStep ==
  ASSUME Truthful, SpinInv, NEW c \in DOMAIN ap, F!Parking(c)
  PROVE  SpinInv'
<1>0. /\ PlaceInv /\ DirtyInv /\ MemoryInv /\ ShimInv /\ ApInv
      /\ UNCHANGED <<tree, cpu, spc, F!memory, dirty>> /\ DOMAIN event' = DOMAIN event
      /\ DOMAIN ap' = DOMAIN ap /\ \A d \in DOMAIN ap : d # c => ap'[d] = ap[d]
  BY DEF SpinInv, F!Parking, F!Parked, F!spin_shim_rtn, F!Wake, F!ApOnly
<1>1. spc # "idle" /\ tree \in Trees /\ c \in CpuOf(tree)
  BY <1>0 DEF PlaceInv, ParkedOf
<1>2. ap'[c] \in {F!Zero, F!Shim} \/ (ap'[c] = F!start /\ c <= cpu)
  <2>1. CASE F!Parked(c)
    <3>1. ap'[c] = release[F!ReleaseAddr(c)] /\ F!ReleaseAddr(c) \in DOMAIN release
      BY <1>0, <1>1, <2>1 DEF F!Parked, PlaceInv
    <3> QED BY <1>0, <3>1 DEF MemoryInv
  <2>2. CASE F!spin_shim_rtn(c) /\ shim_id = F!Mpidr(c)
    <3>1. ap'[c] = shim_start
      BY <2>2 DEF F!spin_shim_rtn
    <3>2. shim_id # 0
      BY <1>1, <2>2, OfTree DEF Truthful
    <3>3. PICK d \in F!Others : d <= cpu /\ F!Mpidr(d) = F!Mpidr(c)
      BY <1>0, <2>2, <3>2 DEF MemoryInv, Ids
    <3>4. d = c
      <4>1. d \in CpuOf(tree) /\ MpidrOf(tree, c) = MpidrOf(tree, d)
        BY <3>3, OfTree
      <4> QED BY <1>1, <4>1 DEF Truthful
    <3>5. shim_start = F!start
      BY <1>0, <3>2 DEF ShimInv
    <3> QED BY <3>1, <3>3, <3>4, <3>5
  <2>3. CASE F!spin_shim_rtn(c) /\ shim_id # F!Mpidr(c)
    BY <2>3 DEF F!spin_shim_rtn
  <2> QED BY <2>1, <2>2, <2>3 DEF F!Parking
<1>3. ApInv'
  BY <1>0, <1>2 DEF ApInv, F!Zero, F!Shim, F!start
<1>4. PlaceInv'
  <2>1. F!Others' = F!Others /\ \A d : F!ReleaseAddr(d)' = F!ReleaseAddr(d)
    BY <1>0, SameTree
  <2> QED BY <1>0, <1>1, <2>1 DEF PlaceInv, F!memory, ParkedOf, CpuOf, PropOf
<1>5. DirtyInv' /\ MemoryInv'
  <2>1. Ids' = Ids
    BY <1>0, SameTree DEF Ids
  <2> QED BY <1>0, <2>1 DEF DirtyInv, MemoryInv, F!memory, F!TheStart, F!TheId, F!At, F!Zero, F!start, F!Shim
<1>6. ShimInv'
  BY <1>0 DEF ShimInv, F!memory, F!TheStart, F!TheId, F!start
<1> QED BY <1>3, <1>4, <1>5, <1>6 DEF SpinInv

\* A step of another part of startup leaves the spin tables alone.
LEMMA SpinStutter ==
  ASSUME SpinInv, UNCHANGED F!spinVars
  PROVE  SpinInv'
<1>0. /\ PlaceInv /\ DirtyInv /\ MemoryInv /\ ShimInv /\ ApInv
      /\ UNCHANGED <<tree, cpu, spc, shim_start, shim_id, release, dirty, ap, event>>
  BY DEF SpinInv, F!spinVars
<1>1. PlaceInv'
  <2>1. F!Others' = F!Others /\ \A c : F!ReleaseAddr(c)' = F!ReleaseAddr(c)
    BY <1>0, SameTree
  <2> QED BY <1>0, <2>1 DEF PlaceInv, ParkedOf, CpuOf, PropOf, F!Zero
<1>2. DirtyInv' /\ MemoryInv' /\ ShimInv' /\ ApInv'
  <2>1. Ids' = Ids
    BY <1>0, SameTree DEF Ids
  <2> QED BY <1>0, <2>1
          DEF DirtyInv, MemoryInv, ShimInv, ApInv, F!TheStart, F!TheId, F!At, F!Zero, F!start, F!Shim
<1> QED BY <1>1, <1>2 DEF SpinInv

\* The turns: only NextCpu ends one, once the CPU runs, and a CPU that runs
\* is never put back.
LEMMA TurnStep ==
  ASSUME Truthful, SpinInv, TurnInv, [F!Next]_F!vars
  PROVE  TurnInv'
<1>0. cpu \in Nat /\ (spc # "idle" => F!fdt_num_cpu(tree) \in Nat)
  BY DEF SpinInv, PlaceInv, Truthful
<1>1. CASE F!Begin
  <2>1. cpu' = 1 /\ spc' = "start" /\ tree' \in Trees
    BY <1>1 DEF F!Begin
  <2>2. \A c \in F!Others' : ~(c < 1)
    <3>1. F!Others' = 1 .. F!fdt_num_cpu(tree') - 1 /\ F!fdt_num_cpu(tree') \in Nat
      BY <2>1 DEF F!Others, Truthful
    <3> QED BY <3>1
  <2> QED BY <2>1, <2>2 DEF TurnInv
<1>2. CASE F!NextCpu
  <2>1. /\ spc = "wait" /\ spc' = (IF cpu + 1 \in F!Others THEN "start" ELSE "done")
        /\ ap[cpu] = F!start /\ cpu' = cpu + 1 /\ UNCHANGED <<tree, ap>>
        /\ cpu \in DOMAIN ap /\ DOMAIN ap = ParkedOf(tree)
    BY <1>2 DEF F!NextCpu, F!Goto, F!Running, SpinInv, PlaceInv
  <2>2. F!Others' = F!Others /\ F!start' = F!start
    BY <2>1, SameTree DEF F!start
  <2>3. F!fdt_num_cpu(tree) \in Nat /\ F!Others = 1 .. F!fdt_num_cpu(tree) - 1 /\ cpu \in F!Others
    BY <1>0, <2>1, OfTree DEF ParkedOf, F!Others
  <2>4. \A c \in F!Others : c < cpu + 1 => c = cpu \/ c < cpu
    BY <1>0, <2>3
  <2>5. \A c \in F!Others : c < cpu => c \in DOMAIN ap /\ ap[c] = F!start
    BY <2>1 DEF TurnInv
  <2>6. spc' = "done" => \A c \in F!Others : c < cpu + 1
    BY <1>0, <2>1, <2>3
  <2> QED BY <2>1, <2>2, <2>4, <2>5, <2>6 DEF TurnInv
<1>3. CASE \E c \in DOMAIN ap : F!Parking(c)
  <2>1. PICK c \in DOMAIN ap : F!Parking(c)
    BY <1>3
  <2>2. /\ UNCHANGED <<tree, cpu, spc>> /\ DOMAIN ap' = DOMAIN ap
        /\ \A d \in DOMAIN ap : ap[d] # ap'[d] => ap[d] \in {F!Zero, F!Shim}
    BY <2>1 DEF F!Parking, F!Parked, F!spin_shim_rtn, F!Wake, F!ApOnly
  <2>3. F!Others' = F!Others /\ F!start' = F!start /\ F!start \notin {F!Zero, F!Shim}
    BY <2>2, SameTree, Words DEF F!start
  <2> QED BY <2>2, <2>3 DEF TurnInv
<1>4. CASE \/ F!AskIntr \/ UNCHANGED F!vars \/ F!Evict \/ F!SetStart \/ F!CleanStart \/ F!NotReleasable
           \/ F!Release \/ F!CleanRelease \/ F!SetId \/ F!CleanId
  <2>1. /\ UNCHANGED <<tree, cpu, ap>> /\ (spc = "idle" <=> spc' = "idle")
        /\ (spc' = "done" => spc = "done")
    <3>1. CASE F!Evict
      BY <3>1 DEF F!Evict
    <3>2. CASE F!AskIntr \/ UNCHANGED F!vars
      BY <3>2 DEF F!AskIntr, F!vars, F!spinVars
    <3>3. CASE F!SetStart \/ F!Release \/ F!SetId \/ F!NotReleasable
      BY <3>3 DEF F!SetStart, F!Release, F!SetId, F!NotReleasable, F!Goto
    <3>4. CASE F!CleanStart \/ F!CleanRelease \/ F!CleanId
      BY <3>4 DEF F!CleanStart, F!CleanRelease, F!CleanId, F!Goto
    <3> QED BY <1>4, <3>1, <3>2, <3>3, <3>4
  <2>2. F!Others' = F!Others /\ F!start' = F!start
    BY <2>1, SameTree DEF F!start
  <2> QED BY <2>1, <2>2 DEF TurnInv
<1> QED BY <1>1, <1>2, <1>3, <1>4 DEF F!Next, F!SpinStart

-----------------------------------------------------------------------------
\* What memory holds at each step of CPU 0 is kept by every step.
THEOREM SpinInvariance ==
  ASSUME Truthful
  PROVE  F!Spec => []SpinInv
<1>1. F!Init => SpinInv
  <2>1. F!Init => PlaceInv /\ DirtyInv /\ MemoryInv
    BY DEF F!Init, PlaceInv, DirtyInv, MemoryInv
  <2>2. F!Init => ShimInv /\ ApInv
    BY DEF F!Init, ShimInv, ApInv
  <2> QED BY <2>1, <2>2 DEF SpinInv
<1>2. SpinInv /\ [F!Next]_F!vars => SpinInv'
  <2> SUFFICES ASSUME SpinInv, [F!Next]_F!vars PROVE SpinInv'
    OBVIOUS
  <2>1. CASE F!AskIntr \/ UNCHANGED F!vars
    BY <2>1, SpinStutter DEF F!AskIntr, F!vars
  <2>2. CASE F!Begin
    BY <2>2, BeginStep
  <2>3. CASE F!Evict
    BY <2>3, EvictStep
  <2>4. CASE F!SetStart \/ F!Release \/ F!SetId
    BY <2>4, WriteStep
  <2>5. CASE F!CleanStart \/ F!CleanRelease \/ F!CleanId
    BY <2>5, CleanStep
  <2>6. CASE F!NextCpu \/ F!NotReleasable
    BY <2>6, NextCpuStep
  <2>7. CASE \E c \in DOMAIN ap : F!Parking(c)
    <3>1. PICK c \in DOMAIN ap : F!Parking(c)
      BY <2>7
    <3> QED BY <3>1, ParkingStep
  <2> QED BY <2>1, <2>2, <2>3, <2>4, <2>5, <2>6, <2>7 DEF F!Next, F!SpinStart
<1> QED BY <1>1, <1>2, PTL DEF F!Spec

\* One CPU at a time is released into start-up, whatever lines are evicted
\* early and however the parked CPUs share release addresses
\* (fdt_smp_spin_start.c).
THEOREM OneIsReleasedAtATime ==
  ASSUME Truthful
  PROVE  F!Spec => []OneAtATime
<1>1. SpinInv => OneAtATime
  BY DEF SpinInv, ApInv, OneAtATime, F!OneAtATime
<1>2. F!Spec => []SpinInv
  BY SpinInvariance
<1> QED BY <1>1, <1>2, PTL

\* Start-up goes on only when every other CPU of the tree runs: the safety
\* half of EachStarts.
THEOREM AllRunWhenDone ==
  ASSUME Truthful
  PROVE  F!Spec => []AllRun
<1>1. F!Init => TurnInv
  BY DEF F!Init, TurnInv
<1>2. SpinInv /\ TurnInv /\ [F!Next]_F!vars => TurnInv'
  BY TurnStep
<1>3. TurnInv => AllRun
  <2> SUFFICES ASSUME TurnInv, spc = "done", NEW c \in F!Others PROVE F!Running(c)
    BY DEF AllRun
  <2> QED BY DEF TurnInv, F!Running
<1>4. F!Spec => []SpinInv
  BY SpinInvariance
<1> QED BY <1>1, <1>2, <1>3, <1>4, PTL DEF F!Spec

-----------------------------------------------------------------------------
(* Loops. FoldLeft is unfolded into the values that its accumulator takes. *)

\* Induction over the natural numbers, for a set: a least counterexample
\* would have a predecessor.
LEMMA Induct ==
  ASSUME NEW S, 0 \in S, \A n \in Nat : n \in S => n + 1 \in S
  PROVE  \A n \in Nat : n \in S
<1> DEFINE T == Nat \ S
<1>1. SUFFICES ASSUME T # {} PROVE FALSE
  OBVIOUS
<1>2. PICK x \in T : \A y \in T : ~ (<<y, x>> \in OpToRel(<, Nat))
  <2>1. T \subseteq Nat
    OBVIOUS
  <2> HIDE DEF T
  <2> QED BY <1>1, <2>1, WFMin, NatLessThanWellFounded
<1>3. x # 0 /\ x - 1 \in Nat /\ x - 1 < x
  OBVIOUS
<1>4. <<x - 1, x>> \in OpToRel(<, Nat)
  BY <1>3 DEF OpToRel
<1>5. x - 1 \in S
  BY <1>2, <1>3, <1>4
<1> QED BY <1>3, <1>5

\* The greatest of some numbers, as FoldLeft takes it.
Greatest(S) == CHOOSE x \in S : \A y \in S : x >= y

LEMMA GreatestIs ==
  ASSUME NEW S \in SUBSET Int, NEW m \in S, \A y \in S : y <= m
  PROVE  Greatest(S) = m
<1>1. \A y \in S : m >= y
  OBVIOUS
<1>2. Greatest(S) \in S /\ \A y \in S : Greatest(S) >= y
  BY <1>1 DEF Greatest
<1>3. Greatest(S) \in Int /\ m \in Int /\ Greatest(S) >= m /\ Greatest(S) <= m
  BY <1>2
<1> QED BY <1>3

\* That of a range, and what is left without it.
LEMMA TopOfRange ==
  ASSUME NEW j \in Nat, j # 0
  PROVE  Greatest(1 .. j) = j /\ (1 .. j) \ {j} = 1 .. j - 1 /\ 1 .. j # {}
<1>1. 1 .. j \in SUBSET Int /\ j \in 1 .. j /\ \A y \in 1 .. j : y <= j
  OBVIOUS
<1>2. Greatest(1 .. j) = j
  BY <1>1, GreatestIs, Zenon
<1>3. (1 .. j) \ {j} = 1 .. j - 1
  OBVIOUS
<1> QED BY <1>1, <1>2, <1>3

-----------------------------------------------------------------------------
(* The interrupt parent and its cache                                      *)

\* Where a search begins.
SearchFrom(c, node) == [done |-> FALSE, r |-> F!Hang, node |-> node, c |-> c]

\* The rounds of the loop that looks for the parent.
Rounds(t, c, node, h) ==
  LET n == Len(t.nodes) + 1 IN
  /\ h[0] = SearchFrom(c, node) /\ h[n] = F!fdt_get_intr_cells(t, c, node)
  /\ \A j \in 1 .. n : h[j] = F!IntrUp(t, h[j - 1])

\* The fold of fdt_get_intr_cells() makes these rounds.
LEMMA IntrLoop ==
  ASSUME NEW t, NEW c, NEW node, Len(t.nodes) \in Nat
  PROVE  \E h : Rounds(t, c, node, h)
<1> DEFINE b == SearchFrom(c, node)
           n == Len(t.nodes) + 1
<1>0. n \in Nat
  OBVIOUS
<1> HIDE DEF b, n
<1> DEFINE Graph(j, g) == g = [s \in SUBSET (1 .. j) |->
                                 IF s = {} THEN b ELSE F!IntrUp(t, g[s \ {Greatest(s)}])]
           Has(j) == \E g : Graph(j, g)
           S == {j \in Nat : Has(j)}
           iter == CHOOSE it : Graph(n, it)
           h == [j \in 0 .. n |-> iter[1 .. j]]
<1>1. 0 \in S
  <2> DEFINE g == [s \in SUBSET (1 .. 0) |-> b]
  <2>1. \A s \in SUBSET (1 .. 0) : s = {}
    OBVIOUS
  <2>2. Graph(0, g)
    BY <2>1
  <2>3. Has(0)
    <3> HIDE DEF g
    <3> QED BY <2>2
  <2> HIDE DEF Has
  <2> QED BY <2>3
<1>2. ASSUME NEW j \in Nat, j \in S PROVE j + 1 \in S
  <2>1. PICK g : Graph(j, g)
    BY <1>2
  <2> DEFINE f == [s \in SUBSET (1 .. j + 1) |->
                     IF j + 1 \in s THEN F!IntrUp(t, g[s \ {j + 1}]) ELSE g[s]]
             r == [s \in SUBSET (1 .. j + 1) |->
                     IF s = {} THEN b ELSE F!IntrUp(t, f[s \ {Greatest(s)}])]
  <2>2. \A s \in SUBSET (1 .. j + 1) : s \ {j + 1} \in SUBSET (1 .. j)
    <3>1. \A y \in 1 .. j + 1 : y # j + 1 => y \in 1 .. j
      OBVIOUS
    <3> QED BY <3>1
  <2>3. ASSUME NEW s \in SUBSET (1 .. j + 1) PROVE f[s] = r[s]
    <3>1. CASE j + 1 \in s
      <4>1. Greatest(s) = j + 1
        <5>1. s \in SUBSET Int /\ \A y \in s : y <= j + 1
          OBVIOUS
        <5> QED BY <3>1, <5>1, GreatestIs
      <4>2. f[s] = F!IntrUp(t, g[s \ {j + 1}])
        BY <3>1
      <4>3. f[s \ {j + 1}] = g[s \ {j + 1}]
        BY <2>2
      <4>4. r[s] = F!IntrUp(t, f[s \ {Greatest(s)}])
        BY <3>1
      <4> QED BY <4>1, <4>2, <4>3, <4>4
    <3>2. CASE j + 1 \notin s /\ s # {}
      <4> DEFINE m == Greatest(s)
      <4> HIDE DEF m
      <4>0. s \in SUBSET (1 .. j)
        BY <3>2
      <4>1. s \ {m} \in SUBSET (1 .. j + 1) /\ j + 1 \notin s \ {m}
        BY <3>2, Zenon
      <4>2. g[s] = F!IntrUp(t, g[s \ {m}])
        BY <2>1, <3>2, <4>0 DEF m
      <4>3. f[s] = g[s] /\ f[s \ {m}] = g[s \ {m}]
        BY <3>2, <4>1
      <4>4. r[s] = F!IntrUp(t, f[s \ {m}])
        BY <3>2 DEF m
      <4> QED BY <4>2, <4>3, <4>4
    <3>3. CASE s = {}
      <4>1. {} \in SUBSET (1 .. j) /\ j + 1 \notin {}
        OBVIOUS
      <4>2. g[{}] = b
        BY <2>1, <4>1
      <4> QED BY <3>3, <4>1, <4>2
    <3> QED BY <3>1, <3>2, <3>3
  <2>4. f = r
    BY <2>3
  <2>5. Has(j + 1)
    <3>1. Graph(j + 1, f)
      BY <2>4
    <3> HIDE DEF f
    <3> QED BY <3>1
  <2> HIDE DEF Has
  <2> QED BY <2>5
<1> HIDE DEF S
<1>3. \A j \in Nat : j \in S
  BY <1>1, <1>2, Induct
<1>4. Graph(n, iter)
  <2>1. Has(n)
    BY <1>0, <1>3 DEF S
  <2> HIDE DEF Graph
  <2> QED BY <2>1
<1>5. F!fdt_get_intr_cells(t, c, node) = iter[1 .. n]
  BY DEF F!fdt_get_intr_cells, F!FoldLeft, F!MapThenFoldSet, F!Max, Greatest, b, SearchFrom, n
<1> HIDE DEF iter
<1>6. iter[1 .. 0] = b
  <2>1. 1 .. 0 = {} /\ 1 .. 0 \in SUBSET (1 .. n)
    OBVIOUS
  <2> QED BY <1>4, <2>1
<1>7. ASSUME NEW j \in 1 .. n PROVE iter[1 .. j] = F!IntrUp(t, iter[1 .. j - 1])
  <2>1. Greatest(1 .. j) = j /\ (1 .. j) \ {j} = 1 .. j - 1 /\ 1 .. j # {}
    BY <1>0, TopOfRange
  <2>2. 1 .. j \in SUBSET (1 .. n)
    BY <1>0
  <2> QED BY <1>4, <2>1, <2>2
<1>8. h[0] = b /\ h[n] = iter[1 .. n] /\ \A j \in 1 .. n : h[j] = F!IntrUp(t, h[j - 1])
  <2>1. \A j \in 1 .. n : j - 1 \in 0 .. n /\ j \in 0 .. n
    BY <1>0
  <2>2. h[0] = iter[1 .. 0] /\ h[n] = iter[1 .. n] /\ \A j \in 0 .. n : h[j] = iter[1 .. j]
    BY <1>0
  <2> HIDE DEF h
  <2> QED BY <1>6, <1>7, <2>1, <2>2
<1>9. Rounds(t, c, node, h)
  BY <1>5, <1>8 DEF b, n, Rounds
<1> HIDE DEF h
<1> QED BY <1>9

\* The cache has what a search without it would find.
CacheOf(c, t) ==
  LET up == F!fdt_node_offset_by_phandle(t, c.phandle) IN
  /\ c.fdt = t.addr /\ c.parent = up /\ ~ (up < 0)
  /\ F!fdt_get_int(t, up, 0, "#interrupt-cells") = F!Answer(0, c.cells)
  /\ c.cells \in 1 .. FDT_MAX_NCELLS
Cached(c) == c = F!NoCache \/ \E t \in Trees : CacheOf(c, t)

\* Two searches from the same node, one with what is cached and one
\* without, are at the same place.
Alike(c, s, u) ==
  /\ s.done = u.done /\ s.r = u.r /\ s.node = u.node /\ s.done \in BOOLEAN
  /\ Cached(s.c) /\ (~ s.done => s.c = c /\ u.c = F!NoCache)
  /\ s = [done |-> s.done, r |-> s.r, node |-> s.node, c |-> s.c]
  /\ u = [done |-> u.done, r |-> u.r, node |-> u.node, c |-> u.c]

\* They are when both have come to the same end.
LEMMA AlikeWhenDone ==
  ASSUME NEW c, NEW r, NEW node, NEW cs, NEW cu, Cached(cs)
  PROVE  Alike(c, [done |-> TRUE, r |-> r, node |-> node, c |-> cs],
                  [done |-> TRUE, r |-> r, node |-> node, c |-> cu])
BY DEF Alike

\* What a property's first cell is read as: a property that is longer gives
\* the offset of the next cell.
LEMMA ReadU32 ==
  ASSUME NEW t, NEW node, NEW name
  PROVE  LET a == F!fdt_get_u32(t, node, 0, name)
             p == F!fdt_getprop(t, node, name)
         IN \/ a.r = p.len /\ p.len < 0 /\ a.v = << >>
            \/ a.r = -11 \/ a.r = 0 \/ a.r = 4
BY DEF F!fdt_get_u32, F!GetNumber, F!Error, F!Answer, F!BADSTRUCTURE

\* One round with an up and a number of cells gives two alike searches.
LEMMA AtAlike ==
  ASSUME NEW t \in Trees, NEW c, NEW s, NEW u, Alike(c, s, u), ~ s.done, NEW ph, NEW up, NEW n,
         ph # F!NoPhandle => \/ up < 0
                             \/ up = F!fdt_node_offset_by_phandle(t, ph)
                             \/ n.r # F!NOTFOUND /\ n.r # 0,
         n = F!fdt_get_int(t, up, 0, "#interrupt-cells"),
         n.r = 0 => n = F!Answer(0, n.v)
  PROVE  Alike(c, F!IntrAt(t, s, ph, up, n), F!IntrAt(t, u, ph, up, n))
<1> DEFINE x == F!IntrAt(t, s, ph, up, n)
           y == F!IntrAt(t, u, ph, up, n)
<1>0. /\ s.done = FALSE /\ u.done = FALSE /\ s.r = u.r /\ s.node = u.node
      /\ s.c = c /\ u.c = F!NoCache /\ Cached(c)
      /\ s = [done |-> FALSE, r |-> s.r, node |-> s.node, c |-> c]
      /\ u = [done |-> FALSE, r |-> s.r, node |-> s.node, c |-> F!NoCache]
  BY DEF Alike
<1>1. CASE up < 0
  BY <1>0, <1>1 DEF F!IntrAt, F!Done, Alike
<1>2. CASE ~ (up < 0) /\ n.r = F!NOTFOUND
  BY <1>0, <1>2 DEF F!IntrAt, Alike
<1>3. CASE ~ (up < 0) /\ n.r # F!NOTFOUND /\ (n.r < 0 \/ n.r # 0 \/ n.v \notin 1 .. FDT_MAX_NCELLS)
  BY <1>0, <1>3 DEF F!IntrAt, F!Done, Alike
<1>4. CASE ~ (up < 0) /\ n.r = 0 /\ n.v \in 1 .. FDT_MAX_NCELLS
  <2> DEFINE d == [fdt |-> t.addr, phandle |-> ph, parent |-> up, cells |-> n.v]
             cx == IF ph = F!NoPhandle THEN c ELSE d
             cy == IF ph = F!NoPhandle THEN F!NoCache ELSE d
  <2>1. /\ x = [done |-> TRUE, r |-> n.v, node |-> up, c |-> cx]
        /\ y = [done |-> TRUE, r |-> n.v, node |-> up, c |-> cy]
    BY <1>0, <1>4 DEF F!IntrAt, F!NOTFOUND
  <2>2. ph # F!NoPhandle => CacheOf(d, t)
    BY <1>4 DEF CacheOf
  <2>3. Cached(cx)
    BY <1>0, <2>2 DEF Cached
  <2> HIDE DEF cx, cy
  <2> QED BY <2>1, <2>3, AlikeWhenDone
<1> QED BY <1>1, <1>2, <1>3, <1>4

\* So is every round.
LEMMA UpAlike ==
  ASSUME NEW t \in Trees, NEW c, NEW s, NEW u, Alike(c, s, u)
  PROVE  Alike(c, F!IntrUp(t, s), F!IntrUp(t, u))
<1> DEFINE a == F!fdt_get_u32(t, s.node, 0, "interrupt-parent")
           up == F!UpBy(t, s.node, a)
           ph == IF a.r >= 0 THEN a.v ELSE F!NoPhandle
           n == F!fdt_get_int(t, up, 0, "#interrupt-cells")
<1>1. CASE s.done
  BY <1>1 DEF F!IntrUp, Alike
<1>2. CASE ~ s.done
  <2>0. /\ s.done = FALSE /\ u.done = FALSE /\ s.r = u.r /\ s.node = u.node
        /\ s.c = c /\ u.c = F!NoCache /\ Cached(c)
        /\ s = [done |-> FALSE, r |-> s.r, node |-> s.node, c |-> c]
        /\ u = [done |-> FALSE, r |-> s.r, node |-> s.node, c |-> F!NoCache]
    BY <1>2 DEF Alike
  <2>1. /\ F!IntrUp(t, s) = F!IntrBy(t, s, a) /\ F!IntrUp(t, u) = F!IntrBy(t, u, a)
    BY <2>0 DEF F!IntrUp
  <2> HIDE DEF a
  <2>2. ~ F!Hit(F!NoCache, t, a.v)
    BY TreesAssumption DEF F!Hit, F!NoCache
  <2>3. F!IntrBy(t, u, a) = F!IntrAt(t, u, ph, up, n)
    BY <2>0, <2>2 DEF F!IntrBy, F!IntrTo
  <2>4. n.r = 0 => n = F!Answer(0, n.v)
    <3> HIDE DEF up
    <3> QED BY DEF F!fdt_get_int, F!fdt_get_u32, F!GetNumber, F!Answer, F!Error
  <2>5. ph # F!NoPhandle => \/ up < 0
                            \/ up = F!fdt_node_offset_by_phandle(t, ph)
                            \/ n.r # F!NOTFOUND /\ n.r # 0
    <3>1. CASE a.r = 0
      BY <3>1 DEF F!UpBy
    <3>2. CASE a.r = -11
      BY <3>2 DEF F!UpBy, F!NOTFOUND
    <3>3. CASE a.r = 4
      <4>1. up = 4
        BY <3>3 DEF F!UpBy, F!NOTFOUND
      <4>2. ~ F!IsNode(t, 4)
        BY DEF F!IsNode, F!Step
      <4>3. n.r = -4
        BY <4>1, <4>2 DEF F!fdt_get_int, F!fdt_get_u32, F!GetNumber, F!fdt_getprop, F!NoProp,
                          F!BADOFFSET, F!Error, F!Answer
      <4> QED BY <4>3 DEF F!NOTFOUND
    <3>4. CASE a.r = F!NOTFOUND
      BY <3>4 DEF F!NOTFOUND
    <3>5. CASE a.r < 0 /\ a.r # F!NOTFOUND /\ a.r # 0
      BY <3>5 DEF F!UpBy
    <3> QED BY <3>1, <3>2, <3>3, <3>4, <3>5, ReadU32 DEF a
  <2>6. CASE ~ (a.r = 0 /\ F!Hit(c, t, a.v))
    <3>1. F!IntrBy(t, s, a) = F!IntrAt(t, s, ph, up, n)
      BY <2>0, <2>6 DEF F!IntrBy, F!IntrTo
    <3> HIDE DEF ph, up
    <3>2. n = F!fdt_get_int(t, up, 0, "#interrupt-cells")
      OBVIOUS
    <3> HIDE DEF n
    <3>3. Alike(c, F!IntrAt(t, s, ph, up, n), F!IntrAt(t, u, ph, up, n))
      BY <1>2, <2>4, <2>5, <3>2, AtAlike
    <3> QED BY <2>1, <2>3, <3>1, <3>3
  <2>7. CASE a.r = 0 /\ F!Hit(c, t, a.v)
    <3>1. c # F!NoCache
      BY <2>2, <2>7
    <3>2. c.fdt = t.addr /\ c.phandle = a.v
      BY <2>7 DEF F!Hit
    <3>3. PICK t2 \in Trees : CacheOf(c, t2)
      BY <2>0, <3>1 DEF Cached
    <3>4. t2 = t
      BY <3>2, <3>3, TreesAssumption DEF CacheOf
    <3>5. up = c.parent /\ ~ (up < 0) /\ n = F!Answer(0, c.cells) /\ c.cells \in 1 .. FDT_MAX_NCELLS
      BY <2>7, <3>2, <3>3, <3>4 DEF CacheOf, F!UpBy
    <3>6. F!IntrBy(t, s, a) = [done |-> TRUE, r |-> c.cells, node |-> c.parent, c |-> c]
      BY <2>0, <2>7 DEF F!IntrBy
    <3> HIDE DEF up, n
    <3>7. n.r = 0 /\ n.v = c.cells
      BY <3>5 DEF F!Answer
    <3>8. PICK d : F!IntrAt(t, u, ph, up, n)
                       = [done |-> TRUE, r |-> c.cells, node |-> c.parent, c |-> d]
      <4>1. F!IntrAt(t, u, ph, up, n)
              = [done |-> TRUE, r |-> n.v, node |-> up,
                 c |-> IF ph = F!NoPhandle THEN u.c
                       ELSE [fdt |-> t.addr, phandle |-> ph, parent |-> up, cells |-> n.v]]
        BY <3>5, <3>7 DEF F!IntrAt, F!NOTFOUND
      <4> QED BY <3>5, <3>7, <4>1
    <3> QED BY <2>0, <2>1, <2>3, <3>6, <3>8, AlikeWhenDone
  <2> QED BY <2>6, <2>7
<1> QED BY <1>1, <1>2 DEF Alike

\* And so is the whole search, which leaves a cache as it should be.
LEMMA SearchAlike ==
  ASSUME NEW t \in Trees, NEW c, Cached(c), NEW node, Len(t.nodes) \in Nat
  PROVE  LET s == F!fdt_get_intr_cells(t, c, node)
             u == F!fdt_get_intr_cells(t, F!NoCache, node)
         IN  s.r = u.r /\ s.node = u.node /\ Cached(s.c)
<1> DEFINE n == Len(t.nodes) + 1
<1>0. n \in Nat
  OBVIOUS
<1>1. PICK h : Rounds(t, c, node, h)
  BY IntrLoop, Zenon
<1>2. PICK g : Rounds(t, F!NoCache, node, g)
  BY IntrLoop, Zenon
<1>5. /\ h[0] = SearchFrom(c, node) /\ h[n] = F!fdt_get_intr_cells(t, c, node)
      /\ g[0] = SearchFrom(F!NoCache, node) /\ g[n] = F!fdt_get_intr_cells(t, F!NoCache, node)
      /\ \A j \in 1 .. n : h[j] = F!IntrUp(t, h[j - 1]) /\ g[j] = F!IntrUp(t, g[j - 1])
  BY <1>1, <1>2 DEF Rounds
<1> HIDE DEF n
<1> DEFINE S == {j \in Nat : j <= n => Alike(c, h[j], g[j])}
<1>3. 0 \in S
  <2>1. Alike(c, SearchFrom(c, node), SearchFrom(F!NoCache, node))
    BY DEF Alike, SearchFrom
  <2> QED BY <1>5, <2>1
<1>4. ASSUME NEW j \in Nat, j \in S PROVE j + 1 \in S
  <2>1. CASE j + 1 <= n
    <3>1. j + 1 \in 1 .. n /\ (j + 1) - 1 = j /\ j <= n
      BY <1>0, <2>1
    <3>2. h[j + 1] = F!IntrUp(t, h[j]) /\ g[j + 1] = F!IntrUp(t, g[j])
      BY <1>5, <3>1
    <3>3. Alike(c, h[j], g[j])
      BY <1>4, <3>1
    <3>4. Alike(c, h[j + 1], g[j + 1])
      BY <3>2, <3>3, UpAlike
    <3> QED BY <3>4
  <2> QED BY <2>1
<1> HIDE DEF S
<1>6. \A j \in Nat : j \in S
  BY <1>3, <1>4, Induct
<1>7. Alike(c, h[n], g[n])
  BY <1>0, <1>6 DEF S
<1> QED BY <1>5, <1>7 DEF Alike

\* A call answers as if nothing had been asked before.
LEMMA CallAlike ==
  ASSUME NEW t \in Trees, NEW c, Cached(c), NEW node, NEW index, NEW num, Len(t.nodes) \in Nat
  PROVE  /\ F!fdt_get_intr(t, c, node, index, num).ans
              = F!fdt_get_intr(t, F!NoCache, node, index, num).ans
         /\ Cached(F!fdt_get_intr(t, c, node, index, num).c)
<1> DEFINE p == F!fdt_getprop(t, node, "interrupts")
           s == F!fdt_get_intr_cells(t, c, node)
           u == F!fdt_get_intr_cells(t, F!NoCache, node)
<1>1. s.r = u.r /\ s.node = u.node /\ Cached(s.c)
  BY SearchAlike
<1>2. F!IntrOf(t, p, s, index, num) = F!IntrOf(t, p, u, index, num)
  <2> HIDE DEF p, s, u
  <2> QED BY <1>1 DEF F!IntrOf
<1>3. CASE p.len < 0
  BY <1>3 DEF F!fdt_get_intr
<1>4. CASE ~ (p.len < 0)
  <2>1. /\ F!fdt_get_intr(t, c, node, index, num) = [ans |-> F!IntrOf(t, p, s, index, num), c |-> s.c]
        /\ F!fdt_get_intr(t, F!NoCache, node, index, num).ans = F!IntrOf(t, p, u, index, num)
    BY <1>4 DEF F!fdt_get_intr, F!IntrFrom
  <2> QED BY <1>1, <1>2, <2>1
<1> QED BY <1>3, <1>4

\* The interrupts that fdt_get_intr() finds are those that a search without
\* the cache would find, whatever trees, nodes and phandles were asked for
\* before (fdt_get_intr_cells.c).
THEOREM IntrIsRight == F!Spec => []IntrRight
<1> DEFINE CacheInv == Cached(cache) /\ IntrRight
<1>1. F!Init => CacheInv
  BY DEF F!Init, Cached, IntrRight, F!IntrRight
<1>2. CacheInv /\ [F!Next]_(F!vars) => CacheInv'
  <2> SUFFICES ASSUME CacheInv, [F!Next]_(F!vars) PROVE CacheInv'
    OBVIOUS
  <2>1. CASE UNCHANGED F!callVars
    BY <2>1 DEF F!callVars, IntrRight, F!IntrRight
  <2>2. CASE F!AskIntr
    <3>1. PICK t \in Trees : \E node \in F!Nodes(t), index \in 0 .. 1 :
             LET call == F!fdt_get_intr(t, cache, node, index, 2) IN
             /\ cache' = call.c
             /\ treeAsked' = [t |-> t, node |-> node, index |-> index, ans |-> call.ans]
      BY <2>2 DEF F!AskIntr
    <3>2. PICK node \in F!Nodes(t), index \in 0 .. 1 :
             /\ cache' = F!fdt_get_intr(t, cache, node, index, 2).c
             /\ treeAsked' = [t |-> t, node |-> node, index |-> index,
                              ans |-> F!fdt_get_intr(t, cache, node, index, 2).ans]
      BY <3>1
    <3>3. Len(t.nodes) \in Nat
      BY TreesAssumption
    <3>4. /\ F!fdt_get_intr(t, cache, node, index, 2).ans
               = F!fdt_get_intr(t, F!NoCache, node, index, 2).ans
          /\ Cached(F!fdt_get_intr(t, cache, node, index, 2).c)
      BY <3>3, CallAlike
    <3> QED BY <3>2, <3>4 DEF IntrRight, F!IntrRight
  <2>3. F!Next => F!AskIntr \/ UNCHANGED F!callVars
    BY DEF F!Next, F!Begin, F!SpinStart, F!Evict, F!Parking, F!SetStart, F!CleanStart,
           F!NotReleasable, F!Release, F!CleanRelease, F!SetId, F!CleanId, F!NextCpu,
           F!Parked, F!spin_shim_rtn, F!ApOnly, F!Goto, F!callVars
  <2> QED BY <2>1, <2>2, <2>3 DEF F!vars, F!callVars
<1> QED BY <1>1, <1>2, PTL DEF F!Spec
=============================================================================
