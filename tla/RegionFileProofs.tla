-------------------------- MODULE RegionFileProofs --------------------------
(***************************************************************************)
(* Proofs about RegionFile, for every region size, every set of contents   *)
(* and every width of the table's fields.                                  *)
(*                                                                         *)
(* The argument: the table describes a partition of the file into extents  *)
(* (Layout) and each extent starts with the whole serialization of one     *)
(* content (Readable).  Three lemmas say what the three ways of saving do  *)
(* to the sectors and the table (AppendFacts, InPlaceFacts, GrowFacts);    *)
(* SaveLayout and SaveLoads conclude that a save keeps the layout, stores  *)
(* the chunk and leaves what every other slot loads alone.  The theorems   *)
(* about Spec follow from those two.                                       *)
(***************************************************************************)
EXTENDS RegionFile, TLAPS

-----------------------------------------------------------------------------
(* The inductive invariant.                                                *)

InFile(f) ==
  \A s \in Slot : Used(f, s) =>
    /\ f.table[s].sectors >= 1
    /\ f.table[s].index + f.table[s].sectors - 1 <= f.size

Apart(f) ==
  \A s, q \in Slot : Used(f, s) /\ Used(f, q) /\ s # q =>
    \/ f.table[s].index + f.table[s].sectors <= f.table[q].index
    \/ f.table[q].index + f.table[q].sectors <= f.table[s].index

Covered(f) ==
  \A k \in 1..f.size : \E s \in Slot :
    /\ Used(f, s)
    /\ f.table[s].index <= k
    /\ k < f.table[s].index + f.table[s].sectors

Layout(f) ==
  /\ IsFile(f)
  /\ f.size < IndexLimit
  /\ \A s \in Slot : f.table[s].sectors <= MaxSectors
  /\ InFile(f)
  /\ Apart(f)
  /\ Covered(f)

\* The extent of slot s starts with the serialization of p.
Holds(f, s, p) ==
  /\ Sectors[p] <= f.table[s].sectors
  /\ \A k \in 1..Sectors[p] : f.data[f.table[s].index + k - 1] = <<p, k>>

Readable(f) == \A s \in Slot : Used(f, s) => \E p \in Payload : Holds(f, s, p)

IInv ==
  /\ TypeOK
  /\ Layout(file)
  /\ Readable(file)
  /\ CleanMatchesFile

-----------------------------------------------------------------------------
(* Arithmetic of the table's fields.                                       *)

\* A value that fits a field is kept by it.
LEMMA FieldKeeps == ASSUME NEW n \in Nat, NEW x \in Nat, x < n PROVE x % n = x
BY SMT

\* A content takes at least one sector and at most MaxSectors.
LEMMA SectorsRange ==
  ASSUME NEW p \in Payload
  PROVE  Sectors[p] \in Nat /\ 1 <= Sectors[p] /\ Sectors[p] <= MaxSectors
         /\ MaxSectors < SectorLimit /\ SectorLimit \in Nat /\ IndexLimit \in Nat
BY ConstantsAssumption

\* The fields of an entry are natural numbers below their limits.
LEMMA EntryRange ==
  ASSUME NEW f, IsFile(f), NEW s \in Slot
  PROVE  /\ f.table[s] = [index |-> f.table[s].index, sectors |-> f.table[s].sectors]
         /\ f.table[s].index \in Nat /\ f.table[s].index < IndexLimit
         /\ f.table[s].sectors \in Nat /\ f.table[s].sectors < SectorLimit
         /\ f.size \in Nat
<1>1. f.table[s] \in Entry
  BY DEF IsFile
<1>. QED
  BY <1>1, ConstantsAssumption DEF Entry, IsFile

\* The same for a whole layout, with what InFile says in numbers.
LEMMA LayoutRange ==
  ASSUME NEW f, Layout(f)
  PROVE  /\ f.size \in Nat /\ f.size < IndexLimit
         /\ \A q \in Slot :
              /\ f.table[q].index \in Nat /\ f.table[q].index < IndexLimit
              /\ f.table[q].sectors \in Nat /\ f.table[q].sectors <= MaxSectors
              /\ ~Used(f, q) => f.table[q].index = 0
              /\ Used(f, q) => /\ f.table[q].index >= 1
                              /\ f.table[q].sectors >= 1
                              /\ f.table[q].index + f.table[q].sectors <= f.size + 1
<1>1. IsFile(f) /\ f.size < IndexLimit
  BY DEF Layout
<1>2. f.size \in Nat
  BY <1>1 DEF IsFile
<1>3. ASSUME NEW q \in Slot
      PROVE  /\ f.table[q].index \in Nat /\ f.table[q].index < IndexLimit
             /\ f.table[q].sectors \in Nat /\ f.table[q].sectors <= MaxSectors
  BY <1>1, EntryRange DEF Layout
<1>4. ASSUME NEW q \in Slot, Used(f, q)
      PROVE  /\ f.table[q].index >= 1
             /\ f.table[q].sectors >= 1
             /\ f.table[q].index + f.table[q].sectors <= f.size + 1
  <2>1. f.table[q].sectors >= 1 /\ f.table[q].index + f.table[q].sectors - 1 <= f.size
    BY <1>4 DEF Layout, InFile
  <2>2. f.table[q].index # 0
    BY <1>4 DEF Used
  <2>. QED
    BY <2>1, <2>2, <1>2, <1>3
<1>. QED
  BY <1>1, <1>2, <1>3, <1>4 DEF Used

-----------------------------------------------------------------------------
(* What loadChunk gives back.                                              *)

\* An extent that holds p loads p.
LEMMA LoadHeld ==
  ASSUME NEW f, Layout(f), NEW s \in Slot, Used(f, s), NEW p \in Payload, Holds(f, s, p)
  PROVE  LoadChunk(f, s) = p
<1>. DEFINE i == f.table[s].index
            n == f.table[s].sectors
<1>1. i \in Nat /\ n \in Nat /\ f.size \in Nat /\ i + n - 1 <= f.size
  BY LayoutRange
<1>2. Sectors[p] \in Nat /\ 1 <= Sectors[p] /\ Sectors[p] <= n
  BY SectorsRange DEF Holds
<1>3. \A k \in 1..Sectors[p] : i + k - 1 <= f.size
  BY <1>1, <1>2
<1>4. \A k \in 1..Sectors[p] : f.data[i + k - 1] = <<p, k>>
  BY DEF Holds
<1>5. f.data[i] = <<p, 1>>
  <2>1. f.data[i + 1 - 1] = <<p, 1>>
    BY <1>2, <1>4
  <2>2. i + 1 - 1 = i
    BY <1>1
  <2>. QED
    BY <2>1, <2>2
<1>. QED
  BY <1>2, <1>3, <1>4, <1>5 DEF LoadChunk

-----------------------------------------------------------------------------
(* Every save is the same change of the file: the chunk's sectors start at *)
(* i, where the slot has m sectors so far (none if it is new), and g more  *)
(* sectors are opened behind them.                                         *)

PlacedTable(f, s, i, m, g) ==
  [q \in Slot |->
     IF q = s THEN [index |-> i, sectors |-> m + g]
     ELSE IF f.table[q].index > i
       THEN [index |-> f.table[q].index + g, sectors |-> f.table[q].sectors]
     ELSE f.table[q]]

PlacedData(f, p, i, g) ==
  [k \in 1..(f.size + g) |->
     IF k < i THEN f.data[k]
     ELSE IF k < i + Sectors[p] THEN <<p, k - i + 1>>
     ELSE f.data[k - g]]

Placed(f, s, p, i, m, g) ==
  [table |-> PlacedTable(f, s, i, m, g), size |-> f.size + g, data |-> PlacedData(f, p, i, g)]

\* The place i with m sectors belongs to slot s, and g more make room for p.
Room(f, s, p, i, m, g) ==
  /\ i \in Nat /\ m \in Nat /\ g \in Nat
  /\ 1 <= i /\ i + m - 1 <= f.size
  /\ f.size + g < IndexLimit
  /\ Sectors[p] <= m + g /\ m + g <= MaxSectors
  /\ g > 0 => Sectors[p] = m + g
  /\ Used(f, s) => i = f.table[s].index /\ m = f.table[s].sectors
  /\ ~Used(f, s) => i = f.size + 1 /\ m = 0
  /\ \A q \in Slot : Used(f, q) /\ q # s =>
       \/ i + m <= f.table[q].index
       \/ f.table[q].index + f.table[q].sectors <= i

\* A new chunk is placed behind the last sector.
LEMMA AppendFacts ==
  ASSUME NEW f, Layout(f), NEW s \in Slot, NEW p \in Payload, ~Used(f, s),
         FitsIndex(f, s, p)
  PROVE  /\ Room(f, s, p, f.size + 1, 0, Sectors[p])
         /\ SaveChunk(f, s, p) = Placed(f, s, p, f.size + 1, 0, Sectors[p])
<1>. DEFINE n == Sectors[p]
            w == WriteAt(f, f.size + 1, p)
            g == AppendChunk(f, s, p)
<1>1. n \in Nat /\ 1 <= n /\ n <= MaxSectors /\ n < SectorLimit /\ f.size \in Nat
      /\ SectorLimit \in Nat /\ IndexLimit \in Nat
  BY SectorsRange, ConstantsAssumption DEF Layout, IsFile
<1>2. f.size + n < IndexLimit
  BY DEF FitsIndex, Growth
<1>3. n % SectorLimit = n
  BY <1>1, FieldKeeps
<1>4. (f.size + 1) % IndexLimit = f.size + 1
  BY <1>1, <1>2, FieldKeeps
<1>5. Room(f, s, p, f.size + 1, 0, n)
  <2>1. ASSUME NEW q \in Slot, Used(f, q)
        PROVE  f.table[q].index + f.table[q].sectors <= f.size + 1
    BY <2>1, <1>1, LayoutRange
  <2>. QED
    BY <2>1, <1>1, <1>2 DEF Room
<1>6. /\ w.table = f.table
      /\ w.size = f.size + n
      /\ w.data = PlacedData(f, p, f.size + 1, n)
  <2>1. f.size + 1 + n - 1 = f.size + n /\ f.size + n > f.size
    BY <1>1
  <2>2. w.table = f.table /\ w.size = f.size + n
    BY <2>1 DEF WriteAt
  <2>3. w.data = [k \in 1..(f.size + n) |->
                   IF k \in (f.size + 1)..(f.size + n)
                   THEN <<p, k - (f.size + 1) + 1>> ELSE f.data[k]]
    BY <2>1 DEF WriteAt
  <2>4. [k \in 1..(f.size + n) |->
           IF k \in (f.size + 1)..(f.size + n)
           THEN <<p, k - (f.size + 1) + 1>> ELSE f.data[k]]
        = PlacedData(f, p, f.size + 1, n)
    BY <1>1 DEF PlacedData
  <2>. QED
    BY <2>2, <2>3, <2>4, Zenon
<1>7. [f.table EXCEPT ![s] = [index |-> f.size + 1, sectors |-> n]]
      = PlacedTable(f, s, f.size + 1, 0, n)
  <2>1. ASSUME NEW q \in Slot, q # s
        PROVE  ~(f.table[q].index > f.size + 1)
    BY <1>1, LayoutRange
  <2>2. f.table \in [Slot -> Entry]
    BY DEF Layout, IsFile
  <2>3. 0 + n = n
    BY <1>1
  <2>. QED
    BY <2>1, <2>2, <2>3, Zenon DEF PlacedTable
<1>8. g = [table |-> [w.table EXCEPT ![s] = [index |-> f.size + 1, sectors |-> n]],
           size |-> w.size, data |-> w.data]
  BY <1>3, <1>4 DEF AppendChunk
<1>9. g = Placed(f, s, p, f.size + 1, 0, n)
  BY <1>6, <1>7, <1>8, Zenon DEF Placed
<1>. QED
  BY <1>5, <1>9 DEF SaveChunk

\* A chunk that fits its sectors is rewritten where it is.
LEMMA InPlaceFacts ==
  ASSUME NEW f, Layout(f), NEW s \in Slot, NEW p \in Payload, Used(f, s),
         Sectors[p] <= f.table[s].sectors
  PROVE  /\ Room(f, s, p, f.table[s].index, f.table[s].sectors, 0)
         /\ SaveChunk(f, s, p) = Placed(f, s, p, f.table[s].index, f.table[s].sectors, 0)
<1>. DEFINE n == Sectors[p]
            i == f.table[s].index
            m == f.table[s].sectors
            w == WriteAt(f, i, p)
<1>1. /\ n \in Nat /\ 1 <= n /\ n <= m /\ m <= MaxSectors /\ MaxSectors \in Nat
      /\ i \in Nat /\ m \in Nat /\ f.size \in Nat /\ 1 <= i /\ i + m <= f.size + 1
      /\ f.size < IndexLimit
  BY SectorsRange, LayoutRange, ConstantsAssumption
<1>2. Room(f, s, p, i, m, 0)
  <2>1. \A q \in Slot : Used(f, q) /\ q # s =>
           \/ i + m <= f.table[q].index
           \/ f.table[q].index + f.table[q].sectors <= i
    BY DEF Layout, Apart
  <2>. QED
    BY <2>1, <1>1 DEF Room
<1>3. w.table = PlacedTable(f, s, i, m, 0)
  <2>1. ASSUME NEW q \in Slot
        PROVE  /\ f.table[q].index + 0 = f.table[q].index /\ m + 0 = m
               /\ f.table[q] = [index |-> f.table[q].index, sectors |-> f.table[q].sectors]
    BY <1>1, LayoutRange, EntryRange DEF Layout
  <2>2. f.table \in [Slot -> Entry]
    BY DEF Layout, IsFile
  <2>3. w.table = f.table
    BY DEF WriteAt
  <2>4. f.table = [q \in Slot |-> f.table[q]]
    BY <2>2
  <2>5. ASSUME NEW q \in Slot PROVE f.table[q] = PlacedTable(f, s, i, m, 0)[q]
    BY <2>1, Zenon DEF PlacedTable
  <2>. QED
    BY <2>3, <2>4, <2>5, Zenon DEF PlacedTable
<1>4. w.size = f.size + 0
  <2>1. w.size = IF i + n - 1 > f.size THEN i + n - 1 ELSE f.size
    BY DEF WriteAt
  <2>. QED
    BY <2>1, <1>1
<1>5. w.data = PlacedData(f, p, i, 0)
  <2>1. w.data = [k \in 1..w.size |-> IF k \in i..(i + n - 1) THEN <<p, k - i + 1>> ELSE f.data[k]]
    BY DEF WriteAt
  <2>2. ASSUME NEW k \in 1..(f.size + 0)
        PROVE  (IF k \in i..(i + n - 1) THEN <<p, k - i + 1>> ELSE f.data[k])
               = (IF k < i THEN f.data[k]
                  ELSE IF k < i + n THEN <<p, k - i + 1>> ELSE f.data[k - 0])
    <3>1. k \in i..(i + n - 1) <=> ~(k < i) /\ k < i + n
      BY <1>1
    <3>2. k - 0 = k
      BY <1>1
    <3>. QED
      BY <3>1, <3>2, Zenon
  <2>. QED
    BY <2>1, <1>4, <2>2, Zenon DEF PlacedData
<1>6. SaveChunk(f, s, p) = w
  BY <1>1 DEF SaveChunk, Rewrite
<1>7. w = [table |-> w.table, size |-> w.size, data |-> w.data]
  BY DEF WriteAt
<1>8. w = Placed(f, s, p, i, m, 0)
  BY <1>3, <1>4, <1>5, <1>7, Zenon DEF Placed
<1>. QED
  BY <1>2, <1>6, <1>8

\* A chunk that does not is rewritten at the same place, with what is behind it moved.
LEMMA GrowFacts ==
  ASSUME NEW f, Layout(f), NEW s \in Slot, NEW p \in Payload, Used(f, s),
         Sectors[p] > f.table[s].sectors, FitsIndex(f, s, p)
  PROVE  LET g == Sectors[p] - f.table[s].sectors
         IN  /\ Room(f, s, p, f.table[s].index, f.table[s].sectors, g)
             /\ SaveChunk(f, s, p) = Placed(f, s, p, f.table[s].index, f.table[s].sectors, g)
<1>. DEFINE n == Sectors[p]
            i == f.table[s].index
            m == f.table[s].sectors
            g == n - m
            r == ResizeSector(f, s, g)
            w == WriteAt(r, i, p)
<1>1. /\ n \in Nat /\ 1 <= n /\ m < n /\ n <= MaxSectors /\ MaxSectors \in Nat
      /\ i \in Nat /\ m \in Nat /\ f.size \in Nat /\ 1 <= i /\ i + m <= f.size + 1
      /\ 1 <= m /\ MaxSectors < SectorLimit /\ SectorLimit \in Nat /\ IndexLimit \in Nat
  BY SectorsRange, LayoutRange, ConstantsAssumption
<1>2. g \in Nat /\ 1 <= g /\ m + g = n
  BY <1>1
<1>3. f.size + g < IndexLimit
  BY <1>1 DEF FitsIndex, Growth
<1>4. Room(f, s, p, i, m, g)
  <2>1. \A q \in Slot : Used(f, q) /\ q # s =>
           \/ i + m <= f.table[q].index
           \/ f.table[q].index + f.table[q].sectors <= i
    BY DEF Layout, Apart
  <2>. QED
    BY <2>1, <1>1, <1>2, <1>3 DEF Room
<1>5. r.table = PlacedTable(f, s, i, m, g)
  <2>1. (m + g) % SectorLimit = m + g
    <3>1. n < SectorLimit
      BY <1>1
    <3>2. n % SectorLimit = n
      BY <3>1, <1>1, FieldKeeps
    <3>. QED
      BY <3>2, <1>2, Zenon
  <2>2. ASSUME NEW q \in Slot PROVE (f.table[q].index + g) % IndexLimit = f.table[q].index + g
    <3>1. f.table[q].index \in Nat /\ f.table[q].index <= f.size
      BY <1>1, LayoutRange
    <3>. DEFINE x == f.table[q].index + g
    <3>2. x \in Nat /\ x < IndexLimit
      BY <3>1, <1>1, <1>2, <1>3
    <3>. HIDE DEF x
    <3>3. x % IndexLimit = x
      BY <3>2, <1>1, FieldKeeps
    <3>. QED
      BY <3>3, Zenon DEF x
  <2>3. r.table = GrownTable(f, s, g)
    BY DEF ResizeSector
  <2>4. GrownTable(f, s, g) = PlacedTable(f, s, i, m, g)
    BY <2>1, <2>2, Zenon DEF GrownTable, PlacedTable
  <2>. QED
    BY <2>3, <2>4, Zenon
<1>6. w.table = r.table
  BY DEF WriteAt
<1>7. w.size = f.size + g
  <2>1. r.size = IF i + m > f.size THEN f.size ELSE f.size + g
    BY DEF ResizeSector
  <2>2. w.size = IF i + n - 1 > r.size THEN i + n - 1 ELSE r.size
    BY DEF WriteAt
  <2>. QED
    BY <2>1, <2>2, <1>1, <1>2
<1>8. w.data = PlacedData(f, p, i, g)
  <2>1. w.data = [k \in 1..w.size |-> IF k \in i..(i + n - 1) THEN <<p, k - i + 1>> ELSE r.data[k]]
    BY DEF WriteAt
  <2>2. r.data = [k \in 1..r.size |-> IF k >= (i + m) + g THEN f.data[k - g]
                                    ELSE IF k <= f.size THEN f.data[k] ELSE Hole]
    BY DEF ResizeSector
  <2>3. r.size = IF i + m > f.size THEN f.size ELSE f.size + g
    BY DEF ResizeSector
  <2>4. ASSUME NEW k \in 1..(f.size + g), ~(k \in i..(i + n - 1))
        PROVE  /\ k < i => r.data[k] = f.data[k]
               /\ ~(k < i) => ~(k < i + n) /\ r.data[k] = f.data[k - g]
    <3>1. k \in 1..r.size
      BY <2>3, <2>4, <1>1, <1>2
    <3>2. r.data[k] = IF k >= (i + m) + g THEN f.data[k - g]
                      ELSE IF k <= f.size THEN f.data[k] ELSE Hole
      BY <3>1, <2>2, Zenon
    <3>. QED
      BY <3>2, <2>4, <1>1, <1>2
  <2>5. ASSUME NEW k \in 1..(f.size + g)
        PROVE  (IF k \in i..(i + n - 1) THEN <<p, k - i + 1>> ELSE r.data[k])
               = (IF k < i THEN f.data[k]
                  ELSE IF k < i + n THEN <<p, k - i + 1>> ELSE f.data[k - g])
    <3>1. k \in i..(i + n - 1) <=> ~(k < i) /\ k < i + n
      BY <1>1
    <3>. QED
      BY <3>1, <2>4, Zenon
  <2>. QED
    BY <2>1, <1>7, <2>5, Zenon DEF PlacedData
<1>9. SaveChunk(f, s, p) = w
  BY <1>1 DEF SaveChunk, Rewrite
<1>10. w = [table |-> w.table, size |-> w.size, data |-> w.data]
  BY DEF WriteAt
<1>11. w = Placed(f, s, p, i, m, g)
  BY <1>5, <1>6, <1>7, <1>8, <1>10, Zenon DEF Placed
<1>. QED
  BY <1>4, <1>9, <1>11

-----------------------------------------------------------------------------
(* What placing a chunk does to the layout and to the contents.            *)

\* An entry behind the place moves by g, one before it stays, and s gets m + g sectors.
LEMMA PlacedEntries ==
  ASSUME NEW f, Layout(f), NEW s \in Slot, NEW p \in Payload,
         NEW i, NEW m, NEW g, Room(f, s, p, i, m, g),
         NEW h, h = Placed(f, s, p, i, m, g)
  PROVE  /\ h.size = f.size + g
         /\ h.table[s].index = i /\ h.table[s].sectors = m + g
         /\ Used(h, s)
         /\ \A q \in Slot : q # s =>
              /\ h.table[q].sectors = f.table[q].sectors
              /\ Used(h, q) <=> Used(f, q)
              /\ Used(f, q) =>
                   \/ /\ h.table[q].index = f.table[q].index
                      /\ f.table[q].index + f.table[q].sectors <= i
                   \/ /\ h.table[q].index = f.table[q].index + g
                      /\ i + m <= f.table[q].index
                      /\ i < f.table[q].index
<1>1. /\ h.size = f.size + g
      /\ h.table = PlacedTable(f, s, i, m, g)
  BY DEF Placed
<1>2. /\ i \in Nat /\ m \in Nat /\ g \in Nat /\ 1 <= i
  BY DEF Room
<1>3. h.table[s] = [index |-> i, sectors |-> m + g]
  BY <1>1, Zenon DEF PlacedTable
<1>4. ASSUME NEW q \in Slot, q # s
      PROVE  h.table[q] = IF f.table[q].index > i
                          THEN [index |-> f.table[q].index + g, sectors |-> f.table[q].sectors]
                          ELSE f.table[q]
  BY <1>1, <1>4, Zenon DEF PlacedTable
<1>5. ASSUME NEW q \in Slot, q # s
      PROVE  /\ h.table[q].sectors = f.table[q].sectors
             /\ f.table[q].index > i => h.table[q].index = f.table[q].index + g
             /\ ~(f.table[q].index > i) => h.table[q].index = f.table[q].index
  <2>1. CASE f.table[q].index > i
    <3>1. h.table[q] = [index |-> f.table[q].index + g, sectors |-> f.table[q].sectors]
      BY <1>4, <1>5, <2>1, Zenon
    <3>. QED
      BY <3>1, <2>1
  <2>2. CASE ~(f.table[q].index > i)
    <3>1. h.table[q] = f.table[q]
      BY <1>4, <1>5, <2>2, Zenon
    <3>. QED
      BY <3>1, <2>2, Zenon
  <2>. QED
    BY <2>1, <2>2, Zenon
<1>6. ASSUME NEW q \in Slot, q # s
      PROVE  /\ f.table[q].index \in Nat /\ f.table[q].sectors \in Nat
             /\ Used(f, q) => f.table[q].sectors >= 1
             /\ Used(f, q) => \/ i + m <= f.table[q].index
                             \/ f.table[q].index + f.table[q].sectors <= i
  BY <1>6, LayoutRange DEF Room
<1>7. ASSUME NEW q \in Slot, q # s, Used(f, q), ~(f.table[q].index > i)
      PROVE  f.table[q].index + f.table[q].sectors <= i
  <2>1. CASE i + m <= f.table[q].index
    <3>1. f.table[q].index = i /\ m = 0
      BY <2>1, <1>2, <1>6, <1>7
    <3>2. Used(f, s) => f.table[s].sectors >= 1
      BY LayoutRange
    <3>3. i = f.size + 1
      BY <3>1, <3>2 DEF Room
    <3>4. f.table[q].index + f.table[q].sectors <= f.size + 1 /\ f.table[q].sectors >= 1
          /\ f.size \in Nat
      BY <1>7, LayoutRange
    <3>. QED
      BY <3>1, <3>3, <3>4, <1>2, <1>6
  <2>2. CASE f.table[q].index + f.table[q].sectors <= i
    BY <2>2
  <2>. QED
    BY <2>1, <2>2, <1>6, <1>7
<1>. QED
  BY <1>1, <1>2, <1>3, <1>5, <1>6, <1>7 DEF Used

\* The sectors of a placed chunk lie in the file, and the file stays a file.
LEMMA PlacedIsFile ==
  ASSUME NEW f, Layout(f), NEW s \in Slot, NEW p \in Payload,
         NEW i, NEW m, NEW g, Room(f, s, p, i, m, g),
         NEW h, h = Placed(f, s, p, i, m, g)
  PROVE  IsFile(h) /\ h.size < IndexLimit /\ \A q \in Slot : h.table[q].sectors <= MaxSectors
<1>. DEFINE n == Sectors[p]
<1>1. /\ h = [table |-> h.table, size |-> h.size, data |-> h.data]
      /\ h.size = f.size + g
      /\ h.table = PlacedTable(f, s, i, m, g)
      /\ h.data = PlacedData(f, p, i, g)
  BY DEF Placed
<1>2. /\ i \in Nat /\ m \in Nat /\ g \in Nat /\ 1 <= i /\ i + m - 1 <= f.size
      /\ f.size + g < IndexLimit /\ n <= m + g /\ m + g <= MaxSectors
      /\ (g > 0 => n = m + g)
  BY DEF Room
<1>3. /\ n \in Nat /\ 1 <= n /\ n <= MaxSectors /\ MaxSectors < SectorLimit
      /\ SectorLimit \in Nat /\ IndexLimit \in Nat /\ MaxSectors \in Nat
      /\ f.size \in Nat
  BY SectorsRange, LayoutRange, ConstantsAssumption
<1>4. i < IndexLimit
  <2>1. CASE Used(f, s)
    BY <2>1, LayoutRange DEF Room
  <2>2. CASE ~Used(f, s)
    <3>1. i = f.size + 1 /\ m = 0
      BY <2>2 DEF Room
    <3>. QED
      BY <3>1, <1>2, <1>3
  <2>. QED
    BY <2>1, <2>2
<1>5. h.table \in [Slot -> Entry]
  <2>1. [index |-> i, sectors |-> m + g] \in Entry
    BY <1>2, <1>3, <1>4 DEF Entry
  <2>2. ASSUME NEW q \in Slot, f.table[q].index > i
        PROVE  [index |-> f.table[q].index + g, sectors |-> f.table[q].sectors] \in Entry
    <3>1. f.table[q].index \in Nat /\ f.table[q].index <= f.size
          /\ f.table[q].sectors \in Nat /\ f.table[q].sectors <= MaxSectors
      BY <2>2, <1>2, <1>3, LayoutRange
    <3>. QED
      BY <3>1, <1>2, <1>3 DEF Entry
  <2>3. ASSUME NEW q \in Slot PROVE f.table[q] \in Entry
    BY DEF Layout, IsFile
  <2>. QED
    BY <1>1, <2>1, <2>2, <2>3, Zenon DEF PlacedTable
<1>6. h.data \in [1..h.size -> Sector]
  <2>1. ASSUME NEW k \in 1..(f.size + g)
        PROVE  (IF k < i THEN f.data[k]
                ELSE IF k < i + n THEN <<p, k - i + 1>> ELSE f.data[k - g]) \in Sector
    <3>0. f.data \in [1..f.size -> Sector]
      BY DEF Layout, IsFile
    <3>1. CASE k < i
      <4>1. k \in 1..f.size
        BY <3>1, <1>2, <1>3
      <4>. QED
        BY <4>1, <3>0, <3>1
    <3>2. CASE ~(k < i) /\ k < i + n
      <4>1. k - i + 1 \in 1..MaxSectors
        BY <3>2, <1>2, <1>3
      <4>. QED
        BY <4>1, <3>2 DEF Sector
    <3>3. CASE ~(k < i) /\ ~(k < i + n)
      <4>1. k - g \in 1..f.size
        BY <3>3, <1>2, <1>3
      <4>. QED
        BY <4>1, <3>0, <3>3
    <3>. QED
      BY <3>1, <3>2, <3>3
  <2>. QED
    BY <1>1, <2>1, Zenon DEF PlacedData
<1>7. ASSUME NEW q \in Slot PROVE h.table[q].sectors <= MaxSectors
  <2>1. CASE q = s
    BY <2>1, <1>2, PlacedEntries
  <2>2. CASE q # s
    BY <2>2, LayoutRange, PlacedEntries
  <2>. QED
    BY <2>1, <2>2
<1>. QED
  BY <1>1, <1>2, <1>3, <1>5, <1>6, <1>7 DEF IsFile

\* The extents still partition the file.
LEMMA PlacedLayout ==
  ASSUME NEW f, Layout(f), NEW s \in Slot, NEW p \in Payload,
         NEW i, NEW m, NEW g, Room(f, s, p, i, m, g),
         NEW h, h = Placed(f, s, p, i, m, g)
  PROVE  Layout(h)
<1>1. /\ i \in Nat /\ m \in Nat /\ g \in Nat /\ 1 <= i /\ i + m - 1 <= f.size
      /\ f.size \in Nat /\ 1 <= m + g
  BY SectorsRange, LayoutRange DEF Room
<1>2. /\ h.size = f.size + g
      /\ h.table[s].index = i /\ h.table[s].sectors = m + g
      /\ Used(h, s)
  BY PlacedEntries
<1>3. ASSUME NEW q \in Slot, q # s, Used(h, q)
      PROVE  /\ Used(f, q)
             /\ f.table[q].index \in Nat /\ f.table[q].sectors \in Nat
             /\ f.table[q].sectors >= 1
             /\ f.table[q].index + f.table[q].sectors <= f.size + 1
             /\ h.table[q].sectors = f.table[q].sectors
             /\ \/ /\ h.table[q].index = f.table[q].index
                   /\ f.table[q].index + f.table[q].sectors <= i
                \/ /\ h.table[q].index = f.table[q].index + g
                   /\ i + m <= f.table[q].index
  BY <1>3, PlacedEntries, LayoutRange
<1>4. InFile(h)
  <2>1. h.table[s].sectors >= 1 /\ h.table[s].index + h.table[s].sectors - 1 <= h.size
    BY <1>1, <1>2
  <2>2. ASSUME NEW q \in Slot, q # s, Used(h, q)
        PROVE  h.table[q].sectors >= 1 /\ h.table[q].index + h.table[q].sectors - 1 <= h.size
    BY <1>1, <1>2, <1>3, <2>2
  <2>. QED
    BY <2>1, <2>2 DEF InFile
<1>5. Apart(h)
  <2>1. ASSUME NEW q \in Slot, q # s, Used(h, q)
        PROVE  \/ h.table[s].index + h.table[s].sectors <= h.table[q].index
               \/ h.table[q].index + h.table[q].sectors <= h.table[s].index
    BY <1>1, <1>2, <1>3, <2>1
  <2>2. ASSUME NEW a \in Slot, NEW b \in Slot, a # b, a # s, b # s, Used(h, a), Used(h, b)
        PROVE  \/ h.table[a].index + h.table[a].sectors <= h.table[b].index
               \/ h.table[b].index + h.table[b].sectors <= h.table[a].index
    <3>1. \/ f.table[a].index + f.table[a].sectors <= f.table[b].index
          \/ f.table[b].index + f.table[b].sectors <= f.table[a].index
      BY <1>3, <2>2 DEF Layout, Apart
    <3>. QED
      BY <3>1, <1>1, <1>3, <2>2
  <2>. QED
    BY <2>1, <2>2 DEF Apart
<1>6. Covered(h)
  <2>. SUFFICES ASSUME NEW k \in 1..(f.size + g)
                PROVE  \E q \in Slot : /\ Used(h, q)
                                       /\ h.table[q].index <= k
                                       /\ k < h.table[q].index + h.table[q].sectors
    BY <1>2 DEF Covered
  <2>1. CASE i <= k /\ k < i + (m + g)
    BY <2>1, <1>2
  <2>2. ASSUME k < i \/ i + (m + g) <= k,
               NEW c \in 1..f.size, c = IF k < i THEN k ELSE k - g
        PROVE  \E q \in Slot : /\ Used(h, q)
                               /\ h.table[q].index <= k
                               /\ k < h.table[q].index + h.table[q].sectors
    <3>1. PICK q \in Slot : /\ Used(f, q)
                            /\ f.table[q].index <= c
                            /\ c < f.table[q].index + f.table[q].sectors
      BY DEF Layout, Covered
    <3>2. q # s
      <4>1. ASSUME q = s PROVE FALSE
        <5>1. i = f.table[q].index /\ m = f.table[q].sectors
          BY <3>1, <4>1 DEF Room
        <5>. QED
          BY <5>1, <3>1, <2>2, <1>1
      <4>. QED
        BY <4>1
    <3>3. Used(h, q)
      BY <3>1, <3>2, PlacedEntries
    <3>. QED
      BY <3>1, <3>2, <3>3, <2>2, <1>1, <1>3
  <2>3. CASE k < i
    <3>1. k \in 1..f.size
      BY <2>3, <1>1
    <3>. QED
      BY <3>1, <2>2, <2>3
  <2>4. CASE i + (m + g) <= k
    <3>1. k - g \in 1..f.size /\ ~(k < i)
      BY <2>4, <1>1
    <3>. QED
      BY <3>1, <2>2, <2>4
  <2>. QED
    BY <2>1, <2>3, <2>4, <1>1
<1>7. IsFile(h) /\ h.size < IndexLimit /\ \A q \in Slot : h.table[q].sectors <= MaxSectors
  BY PlacedIsFile
<1>. QED
  BY <1>4, <1>5, <1>6, <1>7 DEF Layout

\* The placed slot holds its content, and every other slot holds what it held.
LEMMA PlacedHolds ==
  ASSUME NEW f, Layout(f), NEW s \in Slot, NEW p \in Payload,
         NEW i, NEW m, NEW g, Room(f, s, p, i, m, g),
         NEW h, h = Placed(f, s, p, i, m, g)
  PROVE  /\ Holds(h, s, p)
         /\ \A q \in Slot, r \in Payload :
              q # s /\ Used(f, q) /\ Holds(f, q, r) => Holds(h, q, r)
<1>. DEFINE n == Sectors[p]
<1>1. /\ i \in Nat /\ m \in Nat /\ g \in Nat /\ 1 <= i /\ i + m - 1 <= f.size
      /\ f.size \in Nat /\ n \in Nat /\ 1 <= n /\ n <= m + g /\ (g > 0 => n = m + g)
  BY SectorsRange, LayoutRange DEF Room
<1>2. h.table[s].index = i /\ h.table[s].sectors = m + g
  BY PlacedEntries
<1>3. ASSUME NEW k \in 1..(f.size + g)
      PROVE  h.data[k] = IF k < i THEN f.data[k]
                         ELSE IF k < i + n THEN <<p, k - i + 1>> ELSE f.data[k - g]
  BY Zenon DEF Placed, PlacedData
<1>4. Holds(h, s, p)
  <2>1. ASSUME NEW k \in 1..n
        PROVE  h.data[i + k - 1] = <<p, k>>
    <3>1. i + k - 1 \in 1..(f.size + g) /\ ~(i + k - 1 < i) /\ i + k - 1 < i + n
          /\ (i + k - 1) - i + 1 = k
      BY <1>1
    <3>. QED
      BY <3>1, <1>3, Zenon
  <2>. QED
    BY <2>1, <1>1, <1>2 DEF Holds
<1>5. ASSUME NEW q \in Slot, NEW r \in Payload, q # s, Used(f, q), Holds(f, q, r)
      PROVE  Holds(h, q, r)
  <2>. DEFINE a == f.table[q].index
              b == f.table[q].sectors
              c == h.table[q].index
  <2>1. /\ a \in Nat /\ b \in Nat /\ 1 <= a /\ a + b <= f.size + 1
        /\ Sectors[r] \in Nat /\ Sectors[r] <= b
        /\ h.table[q].sectors = b
        /\ \/ c = a /\ a + b <= i
           \/ c = a + g /\ i + m <= a
    BY <1>5, LayoutRange, SectorsRange, PlacedEntries DEF Holds
  <2>2. ASSUME NEW k \in 1..Sectors[r]
        PROVE  h.data[c + k - 1] = <<r, k>>
    <3>1. f.data[a + k - 1] = <<r, k>>
      BY <1>5 DEF Holds
    <3>2. CASE c = a /\ a + b <= i
      <4>1. c + k - 1 \in 1..(f.size + g) /\ c + k - 1 < i /\ c + k - 1 = a + k - 1
        BY <3>2, <2>1, <1>1
      <4>. QED
        BY <4>1, <3>1, <1>3, Zenon
    <3>3. CASE c = a + g /\ i + m <= a
      <4>1. c + k - 1 \in 1..(f.size + g) /\ ~(c + k - 1 < i) /\ (c + k - 1) - g = a + k - 1
        BY <3>3, <2>1, <1>1
      <4>2. CASE g = 0 /\ n < m
        <5>1. ~(c + k - 1 < i + n)
          BY <4>2, <3>3, <2>1, <1>1
        <5>. QED
          BY <5>1, <4>1, <3>1, <1>3, Zenon
      <4>3. CASE n = m + g
        <5>1. ~(c + k - 1 < i + n)
          BY <4>3, <3>3, <2>1, <1>1
        <5>. QED
          BY <5>1, <4>1, <3>1, <1>3, Zenon
      <4>. QED
        BY <4>2, <4>3, <1>1
    <3>. QED
      BY <3>2, <3>3, <2>1
  <2>. QED
    BY <2>1, <2>2 DEF Holds
<1>. QED
  BY <1>4, <1>5

-----------------------------------------------------------------------------
(* Saving a chunk, whichever way it takes.                                 *)

\* Every save that fits the index places the chunk somewhere with room for it.
LEMMA SaveIsPlaced ==
  ASSUME NEW f, Layout(f), NEW s \in Slot, NEW p \in Payload, FitsIndex(f, s, p)
  PROVE  \E i, m, g \in Nat : /\ Room(f, s, p, i, m, g)
                             /\ SaveChunk(f, s, p) = Placed(f, s, p, i, m, g)
<1>1. f.size + 1 \in Nat /\ 0 \in Nat /\ Sectors[p] \in Nat
      /\ f.table[s].index \in Nat /\ f.table[s].sectors \in Nat
  BY LayoutRange, SectorsRange
<1>2. CASE ~Used(f, s)
  BY <1>1, <1>2, AppendFacts
<1>3. CASE Used(f, s) /\ Sectors[p] <= f.table[s].sectors
  BY <1>1, <1>3, InPlaceFacts
<1>4. CASE Used(f, s) /\ Sectors[p] > f.table[s].sectors
  <2>1. Sectors[p] - f.table[s].sectors \in Nat
    BY <1>1, <1>4
  <2>. QED
    BY <1>1, <1>4, <2>1, GrowFacts
<1>. QED
  BY <1>1, <1>2, <1>3, <1>4

\* A save keeps the layout and the contents readable.
LEMMA SaveLayout ==
  ASSUME NEW f, Layout(f), Readable(f), NEW s \in Slot, NEW p \in Payload, FitsIndex(f, s, p)
  PROVE  Layout(SaveChunk(f, s, p)) /\ Readable(SaveChunk(f, s, p))
<1>. DEFINE h == SaveChunk(f, s, p)
<1>1. PICK i, m, g \in Nat : Room(f, s, p, i, m, g) /\ h = Placed(f, s, p, i, m, g)
  BY SaveIsPlaced
<1>. HIDE DEF h
<1>2. Layout(h)
  BY <1>1, PlacedLayout
<1>3. ASSUME NEW q \in Slot, Used(h, q)
      PROVE  \E r \in Payload : Holds(h, q, r)
  <2>1. CASE q = s
    BY <2>1, <1>1, PlacedHolds
  <2>2. CASE q # s
    <3>1. Used(f, q)
      BY <2>2, <1>1, <1>3, PlacedEntries
    <3>2. PICK r \in Payload : Holds(f, q, r)
      BY <3>1 DEF Readable
    <3>. QED
      BY <3>1, <3>2, <2>2, <1>1, PlacedHolds
  <2>. QED
    BY <2>1, <2>2
<1>4. Readable(h)
  BY <1>3 DEF Readable
<1>. QED
  BY <1>2, <1>4 DEF h

\* The saved slot loads what was saved, every other slot what it loaded before.
LEMMA SaveLoads ==
  ASSUME NEW f, Layout(f), Readable(f), NEW s \in Slot, NEW p \in Payload, FitsIndex(f, s, p)
  PROVE  /\ LoadChunk(SaveChunk(f, s, p), s) = p
         /\ Used(SaveChunk(f, s, p), s)
         /\ \A q \in Slot : q # s =>
              /\ LoadChunk(SaveChunk(f, s, p), q) = LoadChunk(f, q)
              /\ Used(SaveChunk(f, s, p), q) <=> Used(f, q)
<1>. DEFINE h == SaveChunk(f, s, p)
<1>1. PICK i, m, g \in Nat : Room(f, s, p, i, m, g) /\ h = Placed(f, s, p, i, m, g)
  BY SaveIsPlaced
<1>2. Layout(h)
  BY SaveLayout
<1>. HIDE DEF h
<1>3. LoadChunk(h, s) = p /\ Used(h, s)
  <2>1. Used(h, s) /\ Holds(h, s, p)
    BY <1>1, PlacedEntries, PlacedHolds
  <2>. QED
    BY <2>1, <1>2, LoadHeld
<1>4. ASSUME NEW q \in Slot, q # s
      PROVE  LoadChunk(h, q) = LoadChunk(f, q) /\ (Used(h, q) <=> Used(f, q))
  <2>1. Used(h, q) <=> Used(f, q)
    BY <1>1, <1>4, PlacedEntries
  <2>2. CASE ~Used(f, q)
    <3>1. LoadChunk(h, q) = Absent
      BY <2>1, <2>2 DEF LoadChunk
    <3>2. LoadChunk(f, q) = Absent
      BY <2>2 DEF LoadChunk
    <3>. QED
      BY <2>1, <3>1, <3>2
  <2>3. CASE Used(f, q)
    <3>1. PICK r \in Payload : Holds(f, q, r)
      BY <2>3 DEF Readable
    <3>2. LoadChunk(f, q) = r
      BY <3>1, <2>3, LoadHeld
    <3>3. Holds(h, q, r)
      BY <3>1, <2>3, <1>1, <1>4, PlacedHolds
    <3>4. LoadChunk(h, q) = r
      BY <3>3, <2>1, <2>3, <1>2, LoadHeld
    <3>. QED
      BY <2>1, <3>2, <3>4
  <2>. QED
    BY <2>2, <2>3
<1>. QED
  BY <1>3, <1>4 DEF h

-----------------------------------------------------------------------------
(* The invariant is inductive.                                             *)

\* What a slot loads is a content or nothing.
LEMMA LoadType ==
  ASSUME NEW f, Layout(f), Readable(f), NEW s \in Slot
  PROVE  /\ Used(f, s) => LoadChunk(f, s) \in Payload
         /\ ~Used(f, s) => LoadChunk(f, s) = Absent
<1>1. CASE Used(f, s)
  <2>1. PICK p \in Payload : Holds(f, s, p)
    BY <1>1 DEF Readable
  <2>. QED
    BY <1>1, <2>1, LoadHeld
<1>2. CASE ~Used(f, s)
  BY <1>2 DEF LoadChunk
<1>. QED
  BY <1>1, <1>2

\* A new file has an empty layout.
LEMMA InitIInv == Init => IInv
<1>. SUFFICES ASSUME Init PROVE IInv
  OBVIOUS
<1>1. /\ file.table = [s \in Slot |-> [index |-> 0, sectors |-> 0]]
      /\ file.size = 0
      /\ file.data = [k \in 1..0 |-> Hole]
      /\ file = [table |-> file.table, size |-> file.size, data |-> file.data]
  BY DEF Init, EmptyFile
<1>2. IsFile(file)
  <2>1. [index |-> 0, sectors |-> 0] \in Entry
    BY ConstantsAssumption DEF Entry
  <2>2. file.table \in [Slot -> Entry]
    BY <1>1, <2>1
  <2>3. file.data \in [1..file.size -> Sector]
    BY <1>1
  <2>. QED
    BY <1>1, <2>2, <2>3 DEF IsFile
<1>3. \A s \in Slot : ~Used(file, s) /\ file.table[s].sectors = 0
  <2>1. ASSUME NEW s \in Slot PROVE file.table[s] = [index |-> 0, sectors |-> 0]
    BY <1>1, Zenon
  <2>2. ASSUME NEW s \in Slot PROVE file.table[s].index = 0 /\ file.table[s].sectors = 0
    BY <2>1
  <2>. QED
    BY <2>2, Zenon DEF Used
<1>4. Layout(file) /\ Readable(file)
  BY <1>1, <1>2, <1>3, ConstantsAssumption
     DEF Layout, InFile, Apart, Covered, Readable
<1>5. TypeOK
  BY <1>2 DEF TypeOK, Init
<1>6. CleanMatchesFile
  BY DEF Init, CleanMatchesFile
<1>. QED
  BY <1>4, <1>5, <1>6 DEF IInv

\* A save of one slot, with that slot's chunk not in memory afterwards.
LEMMA SaveKeepsIInv ==
  ASSUME IInv, NEW s \in Slot, NEW p \in Payload, FitsIndex(file, s, p),
         file' = SaveChunk(file, s, p),
         mem' = [mem EXCEPT ![s] = Absent],
         changed' \in [Slot -> BOOLEAN],
         \A q \in Slot : q # s => changed'[q] = changed[q]
  PROVE  IInv'
<1>1. Layout(file) /\ Readable(file) /\ TypeOK /\ CleanMatchesFile
  BY DEF IInv
<1>2. Layout(file') /\ Readable(file')
  BY <1>1, SaveLayout
<1>3. TypeOK'
  <2>1. IsFile(file')
    BY <1>2 DEF Layout
  <2>. QED
    BY <2>1, <1>1 DEF TypeOK
<1>4. CleanMatchesFile'
  <2>. SUFFICES ASSUME NEW q \in Slot, mem'[q] # Absent, ~changed'[q]
                PROVE  mem'[q] = IF Used(file', q) THEN LoadChunk(file', q) ELSE Blank
    BY DEF CleanMatchesFile
  <2>1. q # s /\ mem'[q] = mem[q]
    BY <1>1 DEF TypeOK
  <2>2. changed[q] = changed'[q]
    BY <2>1
  <2>3. mem[q] = IF Used(file, q) THEN LoadChunk(file, q) ELSE Blank
    BY <1>1, <2>1, <2>2 DEF CleanMatchesFile
  <2>4. LoadChunk(file', q) = LoadChunk(file, q) /\ (Used(file', q) <=> Used(file, q))
    BY <1>1, <2>1, SaveLoads
  <2>. QED
    BY <2>1, <2>3, <2>4
<1>. QED
  BY <1>2, <1>3, <1>4 DEF IInv

\* A step that leaves the file alone keeps its layout.
LEMMA SameFile ==
  ASSUME IInv, UNCHANGED file
  PROVE  Layout(file') /\ Readable(file') /\ IsFile(file')
BY DEF IInv, Layout

\* Every step keeps the invariant: the file by SaveLayout, the chunks in memory by SaveLoads.
LEMMA NextIInv == IInv /\ [Next]_vars => IInv'
<1>. SUFFICES ASSUME IInv, [Next]_vars PROVE IInv'
  OBVIOUS
<1>0. Layout(file) /\ Readable(file) /\ TypeOK /\ CleanMatchesFile
  BY DEF IInv
<1>1. ASSUME NEW s \in Slot, Load(s) PROVE IInv'
  <2>1. /\ Layout(file') /\ Readable(file') /\ IsFile(file') /\ file' = file /\ changed' = changed
        /\ mem' = [mem EXCEPT ![s] = IF Used(file, s) THEN LoadChunk(file, s) ELSE Blank]
    BY <1>1, SameFile DEF Load
  <2>2. (IF Used(file, s) THEN LoadChunk(file, s) ELSE Blank) \in Payload
    BY <1>0, LoadType, ConstantsAssumption
  <2>3. TypeOK'
    BY <1>0, <2>1, <2>2 DEF TypeOK
  <2>4. CleanMatchesFile'
    BY <1>0, <2>1 DEF TypeOK, CleanMatchesFile
  <2>. QED
    BY <2>1, <2>3, <2>4 DEF IInv
<1>2. ASSUME NEW s \in Slot, Unload(s) PROVE IInv'
  <2>1. mem[s] \in Payload
    BY <1>0, <1>2 DEF TypeOK, Unload
  <2>2. /\ mem' = [mem EXCEPT ![s] = Absent]
        /\ changed' = [changed EXCEPT ![s] = FALSE]
        /\ changed' \in [Slot -> BOOLEAN]
        /\ \A q \in Slot : q # s => changed'[q] = changed[q]
    BY <1>0, <1>2 DEF TypeOK, Unload
  <2>3. CASE changed[s]
    BY <2>1, <2>2, <2>3, <1>2, SaveKeepsIInv DEF Unload
  <2>4. CASE ~changed[s]
    <3>1. Layout(file') /\ Readable(file') /\ IsFile(file') /\ file' = file
      BY <1>2, <2>4, SameFile DEF Unload
    <3>2. TypeOK'
      BY <1>0, <2>2, <3>1 DEF TypeOK
    <3>3. CleanMatchesFile'
      BY <1>0, <2>2, <3>1 DEF TypeOK, CleanMatchesFile
    <3>. QED
      BY <3>1, <3>2, <3>3 DEF IInv
  <2>. QED
    BY <2>3, <2>4
<1>3. ASSUME NEW s \in Slot, NEW p \in Payload, Edit(s, p) PROVE IInv'
  <2>1. /\ Layout(file') /\ Readable(file') /\ IsFile(file') /\ file' = file
        /\ mem' = [mem EXCEPT ![s] = p]
        /\ changed' = [changed EXCEPT ![s] = TRUE]
    BY <1>3, SameFile DEF Edit
  <2>2. TypeOK'
    BY <1>0, <2>1 DEF TypeOK
  <2>3. CleanMatchesFile'
    BY <1>0, <2>1 DEF TypeOK, CleanMatchesFile
  <2>. QED
    BY <2>1, <2>2, <2>3 DEF IInv
<1>4. ASSUME NEW s \in Slot, NEW p \in Payload, Generate(s, p) PROVE IInv'
  <2>1. mem' = [mem EXCEPT ![s] = Absent]
    BY <1>0, <1>4 DEF Generate, TypeOK
  <2>2. changed' = changed /\ changed \in [Slot -> BOOLEAN]
    BY <1>0, <1>4 DEF Generate, TypeOK
  <2>. QED
    BY <2>1, <2>2, <1>4, SaveKeepsIInv DEF Generate
<1>5. CASE UNCHANGED vars
  <2>1. Layout(file') /\ Readable(file')
    BY <1>5, SameFile DEF vars
  <2>. QED
    BY <1>0, <1>5, <2>1 DEF vars, IInv, TypeOK, IsFile, CleanMatchesFile
<1>. QED
  BY <1>1, <1>2, <1>3, <1>4, <1>5 DEF Next

LEMMA AlwaysIInv == Spec => []IInv
<1>. QED
  BY InitIInv, NextIInv, PTL DEF Spec

-----------------------------------------------------------------------------
(* The theorems.                                                           *)

(* Type correctness: the table's entries stay within their field widths,   *)
(* and loadChunk never leaves an undecodable chunk in memory.              *)
THEOREM TypeCorrect == Spec => []TypeOK
<1>1. IInv => TypeOK
  BY DEF IInv
<1>. QED
  BY <1>1, AlwaysIInv, PTL

(* No sector of the region file belongs to two chunks, after any sequence  *)
(* of saves, appends and resizes.                                          *)
THEOREM DisjointExtents == Spec => []ExtentsDisjoint
<1>1. IInv => ExtentsDisjoint
  <2>. SUFFICES ASSUME IInv, NEW s \in Slot, NEW q \in Slot, s # q,
                       NEW k, k \in Extent(file, s), k \in Extent(file, q)
                PROVE  FALSE
    BY DEF ExtentsDisjoint
  <2>1. Layout(file) /\ Used(file, s) /\ Used(file, q)
    BY DEF IInv, Extent
  <2>2. /\ file.table[s].index \in Nat /\ file.table[s].sectors \in Nat
        /\ file.table[q].index \in Nat /\ file.table[q].sectors \in Nat
    BY <2>1, LayoutRange
  <2>3. \/ file.table[s].index + file.table[s].sectors <= file.table[q].index
        \/ file.table[q].index + file.table[q].sectors <= file.table[s].index
    BY <2>1 DEF Layout, Apart
  <2>. QED
    BY <2>1, <2>2, <2>3 DEF Extent
<1>. QED
  BY <1>1, AlwaysIInv, PTL

(* The extents cover the file exactly: nothing is lost, nothing points     *)
(* past the end.                                                           *)
THEOREM PartitionedSectors == Spec => []SectorsPartitioned
<1>1. IInv => SectorsPartitioned
  <2>. SUFFICES ASSUME IInv PROVE SectorsPartitioned
    OBVIOUS
  <2>1. Layout(file)
    BY DEF IInv
  <2>2. ASSUME NEW k \in 1..file.size PROVE \E s \in Slot : k \in Extent(file, s)
    <3>1. PICK s \in Slot : /\ Used(file, s)
                            /\ file.table[s].index <= k
                            /\ k < file.table[s].index + file.table[s].sectors
      BY <2>1 DEF Layout, Covered
    <3>2. file.table[s].index \in Nat /\ file.table[s].sectors \in Nat /\ file.size \in Nat
      BY <2>1, LayoutRange
    <3>. QED
      BY <3>1, <3>2 DEF Extent
  <2>3. ASSUME NEW s \in Slot, NEW k, k \in Extent(file, s) PROVE k \in 1..file.size
    <3>1. Used(file, s)
      BY <2>3 DEF Extent
    <3>2. /\ file.table[s].index \in Nat /\ file.table[s].index >= 1
          /\ file.table[s].sectors \in Nat /\ file.size \in Nat
          /\ file.table[s].index + file.table[s].sectors <= file.size + 1
      BY <3>1, <2>1, LayoutRange
    <3>. QED
      BY <3>1, <3>2, <2>3 DEF Extent
  <2>. QED
    BY <2>2, <2>3 DEF SectorsPartitioned
<1>. QED
  BY <1>1, AlwaysIInv, PTL

(* loadChunk never decodes sectors that are not one whole chunk.           *)
THEOREM WholeLoads == Spec => []NeverTorn
<1>1. IInv => NeverTorn
  BY LoadType, ConstantsAssumption DEF IInv, NeverTorn
<1>. QED
  BY <1>1, AlwaysIInv, PTL

(* Dropping a chunk whose changedFromDisk flag is off loses nothing.       *)
THEOREM CleanChunksMatch == Spec => []CleanMatchesFile
<1>1. IInv => CleanMatchesFile
  BY DEF IInv
<1>. QED
  BY <1>1, AlwaysIInv, PTL

(* The region file, with its table, appends and resizes, implements the    *)
(* chunk store: each load gives the content saved last for that slot.      *)
THEOREM RegionFileImplementsStore == Spec => ImplementsStore
<1>. DEFINE store == [s \in Slot |-> LoadChunk(file, s)]
<1>1. Init => Store!Init
  <2>. SUFFICES ASSUME Init PROVE Store!Init
    OBVIOUS
  <2>1. ASSUME NEW s \in Slot PROVE LoadChunk(file, s) = Absent
    <3>1. Layout(file) /\ Readable(file)
      BY InitIInv DEF IInv
    <3>2. ~Used(file, s)
      <4>1. file.table[s] = [index |-> 0, sectors |-> 0]
        <5>1. file.table = [q \in Slot |-> [index |-> 0, sectors |-> 0]]
          BY DEF Init, EmptyFile
        <5>. QED
          BY <5>1, Zenon
      <4>. QED
        BY <4>1 DEF Used
    <3>. QED
      BY <3>1, <3>2, LoadType
  <2>. QED
    BY <2>1 DEF Init, Store!Init
<1>2. IInv /\ [Next]_vars => [Store!Next]_(Store!vars)
  <2>. SUFFICES ASSUME IInv, [Next]_vars PROVE [Store!Next]_(Store!vars)
    OBVIOUS
  <2>0. Layout(file) /\ Readable(file) /\ TypeOK
    BY DEF IInv
  <2>1. ASSUME NEW s \in Slot, Load(s) PROVE Store!Fetch(s)
    <3>1. IF Used(file, s) THEN LoadChunk(file, s) # Absent ELSE LoadChunk(file, s) = Absent
      BY <2>0, LoadType, ConstantsAssumption
    <3>. QED
      BY <2>1, <3>1 DEF Load, Store!Fetch
  <2>2. ASSUME NEW s \in Slot, NEW p \in Payload, FitsIndex(file, s, p),
               file' = SaveChunk(file, s, p)
        PROVE  store' = [store EXCEPT ![s] = p]
    <3>1. LoadChunk(file', s) = p
      BY <2>0, <2>2, SaveLoads
    <3>2. ASSUME NEW q \in Slot, q # s PROVE LoadChunk(file', q) = LoadChunk(file, q)
      BY <2>0, <2>2, <3>2, SaveLoads
    <3>. QED
      BY <3>1, <3>2, Zenon
  <2>3. ASSUME NEW s \in Slot, Unload(s) PROVE Store!Evict(s)
    <3>1. mem[s] \in Payload
      BY <2>0, <2>3 DEF TypeOK, Unload
    <3>2. changed[s] => store' = [store EXCEPT ![s] = mem[s]]
      BY <3>1, <2>2, <2>3 DEF Unload
    <3>3. ~changed[s] => store' = store
      BY <2>3 DEF Unload
    <3>. QED
      BY <3>2, <3>3, <2>3 DEF Unload, Store!Evict
  <2>4. ASSUME NEW s \in Slot, NEW p \in Payload, Edit(s, p) PROVE Store!Modify(s, p)
    BY <2>4 DEF Edit, Store!Modify
  <2>5. ASSUME NEW s \in Slot, NEW p \in Payload, Generate(s, p) PROVE Store!Import(s, p)
    BY <2>2, <2>5 DEF Generate, Store!Import
  <2>6. CASE UNCHANGED vars
    BY <2>6 DEF vars, Store!vars
  <2>. QED
    BY <2>1, <2>3, <2>4, <2>5, <2>6 DEF Next, Store!Next
<1>. QED
  BY <1>1, <1>2, AlwaysIInv, PTL DEF Spec, ImplementsStore, Store!Spec

=============================================================================
