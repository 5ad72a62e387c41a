------------------------- MODULE SaveSessionProofs -------------------------
(***************************************************************************)
(* Proofs about SaveSession, for every region size, every set of contents  *)
(* and every width of the table's fields.                                  *)
(*                                                                         *)
(* Two handles write one file, and each has a write in its buffer which    *)
(* the other does not see.  What makes this work is that only one of them  *)
(* ever has something to lose (ControlInv): the generator's last write is  *)
(* in its buffer as long as the server only loads, and the server does not *)
(* save before it stops.  This fails where blocks are set in the run that  *)
(* generates the world, hence ~FirstSessionEdits.                          *)
(*                                                                         *)
(* StoreInv therefore speaks of two files, the one on disk and the one     *)
(* that a flush of that handle would make of it (Flushed).  Both are       *)
(* Sound, the second gives back everything that was saved and is not       *)
(* astray, and the first everything but the chunk in the buffer.  Sound is *)
(* what is left of RegionFile's Layout after a kill, which may lose the    *)
(* end of the last chunk or its entry.                                     *)
(*                                                                         *)
(* The danger of a kill is a table entry that has grown while the file has *)
(* not: a chunk appended later would be put into its extent.  Before the   *)
(* first kill (UnbrokenInv) the generating run only appends and the later  *)
(* ones never do.  So a kill leaves a file in which every extent ends      *)
(* before the sector the file ends in (Inside), or one that is complete    *)
(* and is not appended to again.  Inside is what keeps the chunks that go  *)
(* astray apart from the others: their entries begin with that sector.     *)
(* Killed while it generates, the world is generated again over what the   *)
(* file has: that run rewrites and appends, and a second kill can do harm  *)
(* (README).  A file that a kill leaves without a table has nothing that   *)
(* is not astray (FileInv).  The invariant is UpToSecondKill.              *)
(***************************************************************************)
EXTENDS SaveSession, RegionFileProofs

-----------------------------------------------------------------------------
(* What the invariant says of one file.                                    *)

\* The table of a file a session can work with: no two chunks share a sector, and a chunk
\* begins in the file.  Where a kill cut the file short, it need not end in it, and sectors
\* of a lost append belong to no chunk: Layout does not hold.
Sound(f) ==
  /\ IsFile(f)
  /\ \A s \in Slot : f.table[s].sectors <= MaxSectors
  /\ \A s \in Slot : Used(f, s) => f.table[s].sectors >= 1 /\ f.table[s].index <= f.size
  /\ Apart(f)

Complete(f) == \A s \in Slot : Used(f, s)

\* Every chunk of the table ends before a sector the file ends in.
Inside(f) ==
  \A s \in Slot : Used(f, s) => f.table[s].index + f.table[s].sectors - 1 <= WholeSectors(f)

\* Slot q has the same sectors in h as in f, possibly at another place.
Agree(f, h, q) ==
  /\ h.table[q].sectors = f.table[q].sectors
  /\ Used(h, q) <=> Used(f, q)
  /\ Used(f, q) => \A k \in 1..f.table[q].sectors :
       /\ h.table[q].index + k - 1 <= h.size <=> f.table[q].index + k - 1 <= f.size
       /\ f.table[q].index + k - 1 <= f.size =>
            h.data[h.table[q].index + k - 1] = f.data[f.table[q].index + k - 1]

-----------------------------------------------------------------------------
(* Loading.                                                                *)

\* The numbers of a sound table.
LEMMA SoundRange ==
  ASSUME NEW f, Sound(f), NEW q \in Slot
  PROVE  /\ f.size \in Nat
         /\ f.table[q].index \in Nat /\ f.table[q].index < IndexLimit
         /\ f.table[q].sectors \in Nat /\ f.table[q].sectors <= MaxSectors
         /\ Used(f, q) => /\ 1 <= f.table[q].index /\ f.table[q].index <= f.size
                          /\ 1 <= f.table[q].sectors
<1>1. IsFile(f)
  BY DEF Sound
<1>2. /\ f.size \in Nat
      /\ f.table[q].index \in Nat /\ f.table[q].index < IndexLimit
      /\ f.table[q].sectors \in Nat
  BY <1>1, EntryRange
<1>3. f.table[q].sectors <= MaxSectors
      /\ (Used(f, q) => f.table[q].sectors >= 1 /\ f.table[q].index <= f.size)
  BY DEF Sound
<1>. QED
  BY <1>2, <1>3 DEF Used

\* loadChunk sees nothing of a file but the sectors of the chunk it loads.
LEMMA AgreeLoads ==
  ASSUME NEW f, NEW h, NEW q \in Slot, IsFile(f), IsFile(h), Agree(f, h, q)
  PROVE  LoadChunk(h, q) = LoadChunk(f, q)
<1>. DEFINE i == f.table[q].index
            j == h.table[q].index
            m == f.table[q].sectors
            Whole(p) == Sectors[p] <= m /\ \A k \in 1..Sectors[p] :
                          i + k - 1 <= f.size /\ f.data[i + k - 1] = <<p, k>>
            Moved(p) == Sectors[p] <= m /\ \A k \in 1..Sectors[p] :
                          j + k - 1 <= h.size /\ h.data[j + k - 1] = <<p, k>>
<1>1. CASE ~Used(f, q)
  BY <1>1 DEF Agree, LoadChunk
<1>2. CASE Used(f, q)
  <2>1. /\ h.table[q].sectors = m /\ Used(h, q) /\ m \in Nat
        /\ \A k \in 1..m : /\ j + k - 1 <= h.size <=> i + k - 1 <= f.size
                           /\ i + k - 1 <= f.size => h.data[j + k - 1] = f.data[i + k - 1]
    BY <1>2, EntryRange DEF Agree
  <2>2. ASSUME NEW p \in Payload PROVE Whole(p) <=> Moved(p)
    <3>1. CASE Sectors[p] <= m
      <4>1. \A k \in 1..Sectors[p] : k \in 1..m
        BY <3>1, <2>1, SectorsRange
      <4>2. \A k \in 1..Sectors[p] :
              (i + k - 1 <= f.size /\ f.data[i + k - 1] = <<p, k>>)
              <=> (j + k - 1 <= h.size /\ h.data[j + k - 1] = <<p, k>>)
        BY <2>1, <4>1, Zenon
      <4>. QED
        BY <4>2, Zenon
    <3>2. CASE ~(Sectors[p] <= m)
      BY <3>2
    <3>. QED
      BY <3>1, <3>2
  <2>3. LoadChunk(f, q) = IF \E p \in Payload : Whole(p) THEN f.data[i][1] ELSE Torn
    BY <1>2 DEF LoadChunk
  <2>4. LoadChunk(h, q) = IF \E p \in Payload : Moved(p) THEN h.data[j][1] ELSE Torn
    BY <2>1 DEF LoadChunk
  <2>5. ASSUME NEW p \in Payload, Whole(p) PROVE h.data[j] = f.data[i]
    <3>1. 1 \in 1..m /\ 1 \in 1..Sectors[p]
      BY <2>5, <2>1, SectorsRange
    <3>2. i + 1 - 1 <= f.size
      BY <3>1, <2>5
    <3>3. h.data[j + 1 - 1] = f.data[i + 1 - 1]
      BY <2>1, <3>1, <3>2
    <3>4. i \in Nat /\ j \in Nat
      BY EntryRange
    <3>5. i + 1 - 1 = i /\ j + 1 - 1 = j
      BY <3>4
    <3>. QED
      BY <3>3, <3>5, Zenon
  <2>. HIDE DEF Whole, Moved
  <2>6. CASE \E p \in Payload : Whole(p)
    <3>1. LoadChunk(f, q) = f.data[i][1] /\ LoadChunk(h, q) = h.data[j][1]
      BY <2>2, <2>3, <2>4, <2>6
    <3>2. h.data[j] = f.data[i]
      BY <2>5, <2>6
    <3>. QED
      BY <3>1, <3>2
  <2>7. CASE ~\E p \in Payload : Whole(p)
    BY <2>2, <2>3, <2>4, <2>7
  <2>. QED
    BY <2>6, <2>7
<1>. QED
  BY <1>1, <1>2

\* What loadChunk can return.
LEMMA LoadRange ==
  ASSUME NEW f, IsFile(f), NEW s \in Slot
  PROVE  /\ LoadChunk(f, s) \in Payload \cup {Absent, Torn}
         /\ Used(f, s) => LoadChunk(f, s) \in Payload \cup {Torn}
         /\ ~Used(f, s) => LoadChunk(f, s) = Absent
<1>. DEFINE i == f.table[s].index
            Whole(p) == Sectors[p] <= f.table[s].sectors /\ \A k \in 1..Sectors[p] :
                          i + k - 1 <= f.size /\ f.data[i + k - 1] = <<p, k>>
<1>1. CASE ~Used(f, s)
  BY <1>1 DEF LoadChunk
<1>2. CASE Used(f, s)
  <2>1. LoadChunk(f, s) = IF \E p \in Payload : Whole(p) THEN f.data[i][1] ELSE Torn
    BY <1>2 DEF LoadChunk
  <2>2. ASSUME NEW p \in Payload, Whole(p) PROVE f.data[i][1] = p
    <3>1. 1 \in 1..Sectors[p]
      BY SectorsRange
    <3>2. f.data[i + 1 - 1] = <<p, 1>>
      BY <2>2, <3>1
    <3>3. i \in Nat
      BY EntryRange
    <3>. QED
      BY <3>2, <3>3
  <2>. QED
    BY <1>2, <2>1, <2>2, Zenon
<1>. QED
  BY <1>1, <1>2

\* A chunk whose sectors are all those of p, in the file, loads p.
LEMMA HeldLoads ==
  ASSUME NEW f, IsFile(f), NEW s \in Slot, Used(f, s), NEW p \in Payload,
         Sectors[p] <= f.table[s].sectors,
         \A k \in 1..Sectors[p] : /\ f.table[s].index + k - 1 <= f.size
                                  /\ f.data[f.table[s].index + k - 1] = <<p, k>>
  PROVE  LoadChunk(f, s) = p
<1>1. f.data[f.table[s].index] = <<p, 1>>
  <2>1. 1 \in 1..Sectors[p]
    BY SectorsRange
  <2>2. f.data[f.table[s].index + 1 - 1] = <<p, 1>>
    BY <2>1
  <2>3. f.table[s].index \in Nat
    BY EntryRange
  <2>. QED
    BY <2>2, <2>3
<1>. QED
  BY <1>1 DEF LoadChunk

-----------------------------------------------------------------------------
(* Writing some sectors of a chunk, with a gap before them or without.     *)

\* What WholeSectors can be.
LEMMA WholeRange ==
  ASSUME NEW f, f.size \in Nat
  PROVE  /\ WholeSectors(f) \in Nat /\ WholeSectors(f) <= f.size /\ f.size <= WholeSectors(f) + 1
         /\ Ragged(f) => f.size >= 1 /\ WholeSectors(f) = f.size - 1
         /\ ~Ragged(f) => WholeSectors(f) = f.size
BY DEF WholeSectors, Ragged

\* Where the last byte of a write lies.
End(pos, hi, part) == IF part THEN pos + hi ELSE pos + hi - 1

\* h is f with sectors lo to hi of p written to it, p starting at pos, and a part of the next.
Written(f, pos, p, lo, hi, part, h) ==
  /\ IsFile(h)
  /\ h.table = f.table
  /\ h.size = (IF End(pos, hi, part) >= pos + lo - 1 /\ End(pos, hi, part) > f.size
               THEN End(pos, hi, part) ELSE f.size)
  /\ \A k \in 1..h.size :
       /\ k \in (pos + lo - 1)..(pos + hi - 1) => h.data[k] = <<p, k - pos + 1>>
       /\ part /\ k = pos + hi => h.data[k] = InPart(f, k)
       /\ k \notin (pos + lo - 1)..End(pos, hi, part) =>
            h.data[k] = IF k <= f.size THEN f.data[k] ELSE Hole

\* What fwrite does to the three parts of the file; it stays a file.
LEMMA WriteFacts ==
  ASSUME NEW f, IsFile(f), NEW pos \in Nat, NEW p \in Payload, NEW lo \in Nat, NEW hi \in Nat,
         1 <= lo, lo <= hi + 1, hi <= Sectors[p], NEW part \in BOOLEAN,
         NEW h, h = WritePart(f, pos, p, lo, hi, part)
  PROVE  Written(f, pos, p, lo, hi, part, h)
<1>. DEFINE last == pos + hi - 1
            end  == IF part THEN last + 1 ELSE last
            size == IF end >= pos + lo - 1 /\ end > f.size THEN end ELSE f.size
            val(k) == IF k \in (pos + lo - 1)..last THEN <<p, k - pos + 1>>
                      ELSE IF part /\ k = end THEN InPart(f, k)
                      ELSE IF k <= f.size THEN f.data[k] ELSE Hole
<1>1. h = [table |-> f.table, size |-> size, data |-> [k \in 1..size |-> val(k)]]
  BY DEF WritePart
<1>2. f.size \in Nat /\ f.data \in [1..f.size -> Sector] /\ f.table \in [Slot -> Entry]
  BY DEF IsFile
<1>3. size \in Nat /\ last \in Int /\ end \in Int /\ end = End(pos, hi, part)
  BY <1>2 DEF End
<1>4. ASSUME NEW k \in 1..size PROVE val(k) \in Sector
  <2>1. CASE k \in (pos + lo - 1)..last
    <3>1. k - pos + 1 \in 1..MaxSectors
      BY <2>1, SectorsRange, ConstantsAssumption
    <3>. QED
      BY <2>1, <3>1 DEF Sector
  <2>2. CASE k \notin (pos + lo - 1)..last
    <3>1. k <= f.size => f.data[k] \in Sector
      BY <1>2, <1>3
    <3>2. InPart(f, k) \in Sector
      BY DEF InPart, Sector
    <3>. QED
      BY <2>2, <3>1, <3>2 DEF Sector
  <2>. QED
    BY <2>1, <2>2
<1>. HIDE DEF size, val
<1>5. h.data \in [1..h.size -> Sector] /\ \A k \in 1..h.size : h.data[k] = val(k)
  BY <1>1, <1>4
<1>6. h.table = f.table /\ h.size = size /\ h = [table |-> h.table, size |-> h.size, data |-> h.data]
  BY <1>1
<1>7. IsFile(h)
  BY <1>2, <1>3, <1>5, <1>6 DEF IsFile
<1>8. h.size = IF end >= pos + lo - 1 /\ end > f.size THEN end ELSE f.size
  BY <1>6 DEF size
<1>9. ASSUME NEW k \in 1..h.size
      PROVE  /\ k \in (pos + lo - 1)..last => h.data[k] = <<p, k - pos + 1>>
             /\ part /\ k = pos + hi => h.data[k] = InPart(f, k)
             /\ k \notin (pos + lo - 1)..end => h.data[k] = IF k <= f.size THEN f.data[k] ELSE Hole
  <2>1. h.data[k] = val(k)
    BY <1>5
  <2>2. part /\ k = pos + hi => k \notin (pos + lo - 1)..last /\ k = end
    BY <1>3
  <2>3. k \notin (pos + lo - 1)..end => k \notin (pos + lo - 1)..last /\ ~(part /\ k = end)
    BY <1>3
  <2>. HIDE DEF last, end
  <2>. QED
    BY <2>1, <2>2, <2>3 DEF val
<1>. HIDE DEF end
<1>10. /\ h.size = (IF End(pos, hi, part) >= pos + lo - 1 /\ End(pos, hi, part) > f.size
                    THEN End(pos, hi, part) ELSE f.size)
       /\ \A k \in 1..h.size :
            /\ k \in (pos + lo - 1)..(pos + hi - 1) => h.data[k] = <<p, k - pos + 1>>
            /\ part /\ k = pos + hi => h.data[k] = InPart(f, k)
            /\ k \notin (pos + lo - 1)..End(pos, hi, part) =>
                 h.data[k] = IF k <= f.size THEN f.data[k] ELSE Hole
  BY <1>3, <1>8, <1>9
<1>. QED
  BY <1>6, <1>7, <1>10 DEF Written

\* Nothing is cut off by a write: there are no fewer whole sectors, and what was written
\* whole is among them.
LEMMA WrittenWhole ==
  ASSUME NEW f, IsFile(f), NEW pos \in Nat, 1 <= pos, NEW p \in Payload, NEW lo \in Nat,
         NEW hi \in Nat, 1 <= lo, lo <= hi + 1, hi <= Sectors[p], NEW part \in BOOLEAN,
         NEW h, Written(f, pos, p, lo, hi, part, h)
  PROVE  /\ WholeSectors(h) >= WholeSectors(f) /\ h.size >= f.size /\ h.size \in Nat
         /\ lo <= hi /\ ~part => WholeSectors(h) >= pos + hi - 1
         /\ ~Ragged(f) /\ ~part => ~Ragged(h)
<1>. DEFINE end == End(pos, hi, part)
<1>1. /\ f.size \in Nat /\ end \in Int /\ Sectors[p] \in Nat /\ Sectors[p] <= MaxSectors
      /\ MaxSectors \in Nat
      /\ part => end = pos + hi
      /\ ~part => end = pos + hi - 1
  BY SectorsRange, ConstantsAssumption DEF IsFile, End
<1>. HIDE DEF end
<1>2. /\ h.size = IF end >= pos + lo - 1 /\ end > f.size THEN end ELSE f.size
      /\ \A k \in 1..h.size :
           /\ k \in (pos + lo - 1)..(pos + hi - 1) => h.data[k] = <<p, k - pos + 1>>
           /\ part /\ k = pos + hi => h.data[k] = InPart(f, k)
           /\ k \notin (pos + lo - 1)..end => h.data[k] = IF k <= f.size THEN f.data[k] ELSE Hole
  BY DEF Written, end
<1>3. h.size \in Nat /\ h.size >= f.size
  BY <1>1, <1>2
<1>4. ASSUME NEW k \in 1..h.size, k \in (pos + lo - 1)..(pos + hi - 1) PROVE h.data[k] # Cut
  <2>1. k - pos + 1 \in 1..MaxSectors
    BY <1>1, <1>4
  <2>2. <<p, k - pos + 1>> \in Payload \X (1..MaxSectors)
    BY <2>1
  <2>3. h.data[k] = <<p, k - pos + 1>>
    BY <1>2, <1>4
  <2>. QED
    BY <2>2, <2>3, SessionAssumption
<1>5. CASE end >= pos + lo - 1 /\ end > f.size
  <2>1. h.size = end /\ end \in 1..h.size /\ end > 0
    BY <1>1, <1>2, <1>3, <1>5
  <2>2. CASE part
    <3>1. h.data[end] = InPart(f, end)
      BY <1>1, <1>2, <2>1, <2>2
    <3>2. h.data[h.size] = Cut
      BY <1>5, <2>1, <3>1 DEF InPart
    <3>3. WholeSectors(h) = h.size - 1
      BY <2>1, <3>2 DEF Ragged, WholeSectors
    <3>. QED
      BY <1>1, <1>3, <1>5, <2>1, <2>2, <3>3, WholeRange
  <2>3. CASE ~part
    <3>1. end \in (pos + lo - 1)..(pos + hi - 1)
      BY <1>1, <1>5, <2>3
    <3>2. h.data[h.size] # Cut
      BY <1>4, <2>1, <3>1
    <3>3. WholeSectors(h) = h.size /\ ~Ragged(h)
      BY <3>2 DEF Ragged, WholeSectors
    <3>. QED
      BY <1>1, <1>3, <2>1, <2>3, <3>3, WholeRange
  <2>. QED
    BY <2>2, <2>3
<1>6. CASE ~(end >= pos + lo - 1 /\ end > f.size)
  <2>1. h.size = f.size
    BY <1>2, <1>6
  <2>2. Ragged(h) => Ragged(f)
    <3>. SUFFICES ASSUME Ragged(h) PROVE Ragged(f)
      OBVIOUS
    <3>1. h.size \in 1..h.size /\ h.data[h.size] = Cut /\ f.size > 0
      BY <1>3, <2>1 DEF Ragged
    <3>2. CASE h.size \in (pos + lo - 1)..(pos + hi - 1)
      BY <3>1, <3>2, <1>4
    <3>3. CASE part /\ h.size = pos + hi
      <4>1. h.data[h.size] = InPart(f, h.size)
        BY <1>2, <3>1, <3>3
      <4>2. ~(h.size > f.size)
        BY <2>1, <1>1
      <4>. QED
        BY <3>1, <4>1, <4>2, SessionAssumption DEF InPart
    <3>4. CASE h.size \notin (pos + lo - 1)..end
      <4>1. h.data[h.size] = f.data[f.size]
        BY <1>1, <1>2, <2>1, <3>1, <3>4
      <4>. QED
        BY <3>1, <4>1 DEF Ragged
    <3>. QED
      BY <3>2, <3>3, <3>4, <1>1, <1>3
  <2>3. WholeSectors(h) >= WholeSectors(f)
    BY <1>1, <2>1, <2>2, WholeRange
  <2>4. lo <= hi /\ ~part => WholeSectors(h) >= pos + hi - 1
    <3>. SUFFICES ASSUME lo <= hi, ~part PROVE WholeSectors(h) >= pos + hi - 1
      OBVIOUS
    <3>1. end = pos + hi - 1 /\ end <= f.size /\ end >= pos + lo - 1
      BY <1>1, <1>6
    <3>2. CASE end = f.size
      <4>1. h.size \in 1..h.size /\ h.size \in (pos + lo - 1)..(pos + hi - 1)
        BY <3>1, <3>2, <2>1, <1>1
      <4>2. ~Ragged(h)
        BY <4>1, <1>4 DEF Ragged
      <4>. QED
        BY <4>2, <3>1, <3>2, <2>1, <1>3, WholeRange
    <3>3. CASE end < f.size
      BY <3>1, <3>3, <2>1, <1>1, <1>3, WholeRange
    <3>. QED
      BY <3>1, <3>2, <3>3, <1>1
  <2>. QED
    BY <1>3, <2>2, <2>3, <2>4
<1>. QED
  BY <1>5, <1>6

\* The sectors 1 to n - 1, with or without a part of the next, and then the rest give the
\* same file as all of them at once.
LEMMA TwoWrites ==
  ASSUME NEW f, IsFile(f), NEW pos \in Nat, 1 <= pos, pos <= f.size + 1, NEW p \in Payload,
         NEW n \in 1..Sectors[p], NEW part \in BOOLEAN
  PROVE  WritePart(WritePart(f, pos, p, 1, n - 1, part), pos, p, n, Sectors[p], FALSE)
           = WritePart(f, pos, p, 1, Sectors[p], FALSE)
<1>. DEFINE S == Sectors[p]
            a == WritePart(f, pos, p, 1, n - 1, part)
            b == WritePart(a, pos, p, n, S, FALSE)
            c == WritePart(f, pos, p, 1, S, FALSE)
            end == IF part THEN pos + n - 1 ELSE pos + n - 2
<1>1. S \in Nat /\ n \in Nat /\ n - 1 \in Nat /\ 1 <= n /\ n <= S /\ f.size \in Nat
  BY SectorsRange DEF IsFile
<1>2. Written(f, pos, p, 1, n - 1, part, a)
  BY <1>1, WriteFacts
<1>3. IsFile(a)
  BY <1>2 DEF Written
<1>o. 1 \in Nat /\ FALSE \in BOOLEAN /\ 1 <= 1 /\ 1 <= S + 1 /\ n <= S + 1 /\ S <= Sectors[p]
  BY <1>1
<1>4. Written(a, pos, p, n, S, FALSE, b)
  BY <1>1, <1>3, <1>o, WriteFacts, Zenon
<1>5. Written(f, pos, p, 1, S, FALSE, c)
  BY <1>1, <1>o, WriteFacts, Zenon
<1>. HIDE DEF a, b, c, S
<1>e. /\ End(pos, n - 1, part) = end /\ end \in Int /\ end <= pos + n - 1
      /\ pos + n - 2 <= end
      /\ End(pos, S, FALSE) = pos + S - 1
  BY <1>1 DEF End
<1>. HIDE DEF end
<1>6. /\ a.size = (IF end >= pos + 1 - 1 /\ end > f.size THEN end ELSE f.size)
      /\ b.size = (IF pos + S - 1 >= pos + n - 1 /\ pos + S - 1 > a.size
                   THEN pos + S - 1 ELSE a.size)
      /\ c.size = (IF pos + S - 1 >= pos + 1 - 1 /\ pos + S - 1 > f.size
                   THEN pos + S - 1 ELSE f.size)
  BY <1>2, <1>4, <1>5, <1>e DEF Written
<1>7. b.size = c.size /\ c.size \in Nat /\ a.size \in Nat /\ a.size <= c.size /\ f.size <= a.size
  BY <1>1, <1>6, <1>e
<1>8. ASSUME NEW k \in 1..c.size PROVE b.data[k] = c.data[k]
  <2>1. k \in Nat /\ 1 <= k /\ k <= c.size /\ k \in 1..b.size
    BY <1>7
  <2>2. CASE k \in (pos + n - 1)..(pos + S - 1)
    <3>1. k \in (pos + 1 - 1)..(pos + S - 1)
      BY <2>1, <2>2, <1>1
    <3>2. b.data[k] = <<p, k - pos + 1>>
      BY <2>1, <2>2, <1>4 DEF Written
    <3>3. c.data[k] = <<p, k - pos + 1>>
      BY <3>1, <1>5 DEF Written
    <3>. QED
      BY <3>2, <3>3
  <2>3. CASE k \notin (pos + n - 1)..(pos + S - 1)
    <3>1. k \in 1..a.size
      <4>1. k < pos + n - 1 \/ k > pos + S - 1
        BY <2>1, <2>3, <1>1
      <4>2. CASE k > pos + S - 1
        BY <4>2, <2>1, <1>1, <1>6, <1>7
      <4>3. CASE k < pos + n - 1
        BY <4>3, <2>1, <1>1, <1>6, <1>7, <1>e
      <4>. QED
        BY <4>1, <4>2, <4>3
    <3>2. b.data[k] = a.data[k]
      <4>1. b.data[k] = IF k <= a.size THEN a.data[k] ELSE Hole
        BY <2>1, <2>3, <1>4, <1>e DEF Written
      <4>. QED
        BY <3>1, <4>1
    <3>3. CASE k \in (pos + 1 - 1)..(pos + (n - 1) - 1)
      <4>1. k \in (pos + 1 - 1)..(pos + S - 1)
        BY <3>3, <1>1
      <4>2. a.data[k] = <<p, k - pos + 1>>
        BY <3>1, <3>3, <1>2 DEF Written
      <4>3. c.data[k] = <<p, k - pos + 1>>
        BY <4>1, <1>5 DEF Written
      <4>. QED
        BY <3>2, <4>2, <4>3
    <3>4. CASE k \notin (pos + 1 - 1)..(pos + (n - 1) - 1)
      <4>1. k \notin (pos + 1 - 1)..(pos + S - 1) /\ k \notin (pos + 1 - 1)..end
        BY <2>1, <2>3, <3>4, <1>1, <1>e
      <4>2. a.data[k] = IF k <= f.size THEN f.data[k] ELSE Hole
        BY <3>1, <4>1, <1>2, <1>e DEF Written
      <4>3. c.data[k] = IF k <= f.size THEN f.data[k] ELSE Hole
        BY <4>1, <1>5, <1>e DEF Written
      <4>. QED
        BY <3>2, <4>2, <4>3
    <3>. QED
      BY <3>3, <3>4
  <2>. QED
    BY <2>2, <2>3
<1>9. b.data = c.data
  <2>1. IsFile(b) /\ IsFile(c)
    BY <1>4, <1>5 DEF Written
  <2>2. b.data \in [1..c.size -> Sector] /\ c.data \in [1..c.size -> Sector]
    BY <2>1, <1>7 DEF IsFile
  <2>3. /\ b.data = [k \in 1..c.size |-> b.data[k]]
        /\ c.data = [k \in 1..c.size |-> c.data[k]]
    BY <2>2
  <2>. QED
    BY <2>3, <1>8, Zenon
<1>10. b = c
  <2>1. b.table = c.table
    BY <1>2, <1>4, <1>5 DEF Written
  <2>2. /\ b = [table |-> b.table, size |-> b.size, data |-> b.data]
        /\ c = [table |-> c.table, size |-> c.size, data |-> c.data]
    BY <1>4, <1>5 DEF Written, IsFile
  <2>. QED
    BY <2>1, <2>2, <1>7, <1>9, Zenon
<1>. QED
  BY <1>10 DEF a, b, c, S

-----------------------------------------------------------------------------
(* Writing into the sectors of a chunk.                                    *)

\* A file with the same table and no fewer sectors is as sound.
LEMMA SameTable ==
  ASSUME NEW f, NEW h, IsFile(f), IsFile(h), h.table = f.table, h.size >= f.size
  PROVE  /\ \A q \in Slot : Used(h, q) <=> Used(f, q)
         /\ Sound(f) => Sound(h)
         /\ Inside(f) /\ WholeSectors(h) >= WholeSectors(f) => Inside(h)
<1>1. \A q \in Slot : Used(h, q) <=> Used(f, q)
  BY DEF Used
<1>2. ASSUME NEW q \in Slot
      PROVE  /\ f.table[q].index \in Nat /\ f.table[q].sectors \in Nat
             /\ f.size \in Nat /\ h.size \in Nat
  BY EntryRange DEF IsFile
<1>3. ASSUME Sound(f) PROVE Sound(h)
  <2>1. Apart(h)
    BY <1>1, <1>3 DEF Sound, Apart
  <2>2. \A q \in Slot : h.table[q].sectors <= MaxSectors
    BY <1>3 DEF Sound
  <2>3. ASSUME NEW q \in Slot, Used(h, q)
        PROVE  h.table[q].sectors >= 1 /\ h.table[q].index <= h.size
    <3>1. f.table[q].sectors >= 1 /\ f.table[q].index <= f.size
      BY <2>3, <1>1, <1>3 DEF Sound
    <3>. QED
      BY <3>1, <1>2
  <2>. QED
    BY <2>1, <2>2, <2>3 DEF Sound
<1>4. ASSUME Inside(f), WholeSectors(h) >= WholeSectors(f) PROVE Inside(h)
  <2>1. ASSUME NEW q \in Slot, Used(h, q)
        PROVE  h.table[q].index + h.table[q].sectors - 1 <= WholeSectors(h)
    <3>1. f.table[q].index + f.table[q].sectors - 1 <= WholeSectors(f)
      BY <2>1, <1>1, <1>4 DEF Inside
    <3>2. WholeSectors(f) \in Nat /\ WholeSectors(h) \in Nat
      BY <1>2, WholeRange
    <3>. QED
      BY <3>1, <3>2, <1>2, <1>4
  <2>. QED
    BY <2>1 DEF Inside
<1>. QED
  BY <1>1, <1>3, <1>4

\* h is f with the first n sectors of p at the place of s, and the other chunks untouched.
WroteInto(f, s, p, n, part, h) ==
  /\ Sound(h) /\ h.table = f.table /\ h.size >= f.size
  /\ WholeSectors(h) >= WholeSectors(f)
  /\ \A q \in Slot : q # s => Agree(f, h, q)
  /\ n = Sectors[p] /\ ~part => /\ LoadChunk(h, s) = p
                                /\ f.table[s].index + n - 1 <= WholeSectors(h)

\* Sectors written into the extent of s are no other chunk's, even where the extent goes
\* past the end of the file and the file becomes longer.
LEMMA WriteAgrees ==
  ASSUME NEW f, Sound(f), NEW s \in Slot, Used(f, s), NEW p \in Payload,
         Sectors[p] <= f.table[s].sectors, NEW n \in Nat, NEW part \in BOOLEAN,
         n <= Sectors[p], part => n + 1 <= Sectors[p],
         NEW h, h = WritePart(f, f.table[s].index, p, 1, n, part)
  PROVE  WroteInto(f, s, p, n, part, h)
<1>. DEFINE i == f.table[s].index
            m == f.table[s].sectors
            end == End(i, n, part)
<1>1. /\ f.size \in Nat /\ i \in Nat /\ m \in Nat /\ 1 <= i /\ i <= f.size
      /\ 1 <= Sectors[p] /\ Sectors[p] \in Nat /\ n <= m
  BY SoundRange, SectorsRange
<1>e. end \in Int /\ end < i + m /\ i - 1 <= end
  BY <1>1 DEF End
<1>2. Written(f, i, p, 1, n, part, h)
  BY <1>1, WriteFacts DEF Sound
<1>3. IsFile(h) /\ h.table = f.table /\ IsFile(f)
  BY <1>2 DEF Written, Sound
<1>4. h.size = IF end >= i + 1 - 1 /\ end > f.size THEN end ELSE f.size
  BY <1>2 DEF Written
<1>5. /\ h.size \in Nat /\ h.size >= f.size /\ WholeSectors(h) >= WholeSectors(f)
      /\ 1 <= n /\ ~part => WholeSectors(h) >= i + n - 1
  <2>1. 1 \in Nat /\ 1 <= 1 /\ 1 <= n + 1 /\ n <= Sectors[p] /\ n \in Nat
    OBVIOUS
  <2>. HIDE DEF i
  <2>2. /\ WholeSectors(h) >= WholeSectors(f) /\ h.size >= f.size /\ h.size \in Nat
        /\ 1 <= n /\ ~part => WholeSectors(h) >= i + n - 1
        /\ ~Ragged(f) /\ ~part => ~Ragged(h)
    <3>1. i \in Nat /\ 1 <= i
      BY <1>1
    <3>. QED
      BY <2>1, <3>1, <1>2, <1>3, WrittenWhole
  <2>. QED
    BY <2>2
<1>6. Sound(h) /\ \A q \in Slot : Used(h, q) <=> Used(f, q)
  BY <1>3, <1>5, SameTable
<1>7. ASSUME NEW q \in Slot, q # s PROVE Agree(f, h, q)
  <2>1. CASE ~Used(f, q)
    BY <2>1, <1>3, <1>6 DEF Agree
  <2>2. CASE Used(f, q)
    <3>. DEFINE j == f.table[q].index
                l == f.table[q].sectors
    <3>1. j \in Nat /\ l \in Nat /\ 1 <= j /\ j <= f.size
      BY <2>2, SoundRange
    <3>2. i + m <= j \/ j + l <= i
      BY <2>2, <1>7 DEF Sound, Apart
    <3>3. ASSUME NEW k \in 1..l
          PROVE  /\ j + k - 1 <= h.size <=> j + k - 1 <= f.size
                 /\ j + k - 1 <= f.size => h.data[j + k - 1] = f.data[j + k - 1]
      <4>. DEFINE x == j + k - 1
      <4>0. k \in Nat /\ 1 <= k /\ k <= l
        BY <3>1
      <4>1. x \in Nat /\ 1 <= x /\ (j + l <= i => x < i) /\ j <= x
        <5>. HIDE DEF i, j, l
        <5>. QED
          BY <4>0, <3>1, <1>1
      <4>. HIDE DEF end
      <4>2. x <= h.size <=> x <= f.size
        BY <4>1, <3>1, <3>2, <1>1, <1>4, <1>e
      <4>3. ASSUME x <= f.size PROVE h.data[x] = f.data[x]
        <5>1. x \in 1..h.size
          BY <4>1, <4>3, <1>1, <1>5
        <5>. HIDE DEF x
        <5>2. x \notin (i + 1 - 1)..end
          <6>. HIDE DEF i, j, l, m
          <6>. QED
            BY <4>1, <3>1, <3>2, <1>1, <1>e
        <5>3. h.data[x] = IF x <= f.size THEN f.data[x] ELSE Hole
          BY <5>1, <5>2, <1>2 DEF Written, end
        <5>. QED
          BY <5>3, <4>3
      <4>. QED
        BY <4>2, <4>3
    <3>. QED
      BY <2>2, <3>3, <1>3, <1>6 DEF Agree
  <2>. QED
    BY <2>1, <2>2
<1>8. ASSUME n = Sectors[p] PROVE LoadChunk(h, s) = p /\ i + n - 1 <= WholeSectors(h)
  <2>0. ~part /\ 1 <= n
    BY <1>1, <1>8
  <2>1. i + n - 1 <= WholeSectors(h) /\ i + n - 1 <= h.size
    <3>1. WholeSectors(h) >= i + n - 1 /\ WholeSectors(h) \in Nat /\ WholeSectors(h) <= h.size
      BY <2>0, <1>5, WholeRange
    <3>. HIDE DEF i
    <3>. QED
      BY <3>1, <1>1, <1>5
  <2>2. ASSUME NEW k \in 1..Sectors[p]
        PROVE  i + k - 1 <= h.size /\ h.data[i + k - 1] = <<p, k>>
    <3>1. i + k - 1 \in 1..h.size /\ i + k - 1 \in (i + 1 - 1)..(i + n - 1)
          /\ (i + k - 1) - i + 1 = k
      BY <2>1, <1>1, <1>5, <1>8
    <3>2. h.data[i + k - 1] = <<p, (i + k - 1) - i + 1>>
      BY <3>1, <1>2 DEF Written
    <3>. QED
      BY <3>1, <3>2
  <2>3. Used(h, s) /\ Sectors[p] <= h.table[s].sectors /\ h.table[s].index = i
    BY <1>3, <1>6
  <2>. QED
    BY <2>1, <2>2, <2>3, <1>3, HeldLoads
<1>. QED
  BY <1>3, <1>5, <1>6, <1>7, <1>8 DEF WroteInto


-----------------------------------------------------------------------------
(* Growing a chunk.                                                        *)

\* A remainder fits a field.
LEMMA RemainderFits ==
  ASSUME NEW n \in Nat, 0 < n, NEW x \in Nat
  PROVE  x % n \in 0..(n - 1)
BY SMT

\* The three parts of the file resizeSector leaves; start is the end of the extent of s.
Resized(f, s, g, r) ==
  LET start == f.table[s].index + f.table[s].sectors
  IN  /\ IsFile(r)
      /\ r.table = GrownTable(f, s, g)
      /\ r.size = IF start > f.size THEN f.size ELSE f.size + g
      /\ \A k \in 1..r.size :
           /\ k >= start + g => r.data[k] = f.data[k - g]
           /\ k < start + g /\ k <= f.size => r.data[k] = f.data[k]

\* The grown table keeps to the widths of its fields.
LEMMA GrownTableType ==
  ASSUME NEW f, IsFile(f), NEW s \in Slot, NEW g \in Nat
  PROVE  GrownTable(f, s, g) \in [Slot -> Entry]
<1>1. /\ 0 < SectorLimit /\ 0 < IndexLimit /\ SectorLimit \in Nat /\ IndexLimit \in Nat
  BY ConstantsAssumption
<1>2. ASSUME NEW q \in Slot
      PROVE  (IF q = s
                THEN [index   |-> f.table[q].index,
                      sectors |-> (f.table[q].sectors + g) % SectorLimit]
              ELSE IF f.table[q].index > f.table[s].index
                THEN [index   |-> (f.table[q].index + g) % IndexLimit,
                      sectors |-> f.table[q].sectors]
              ELSE f.table[q]) \in Entry
  <2>. DEFINE a == (f.table[q].index + g) % IndexLimit
              b == (f.table[q].sectors + g) % SectorLimit
  <2>1. /\ f.table[q] \in Entry
        /\ f.table[q].index \in 0..(IndexLimit - 1)
        /\ f.table[q].sectors \in 0..(SectorLimit - 1)
        /\ f.table[q].index + g \in Nat /\ f.table[q].sectors + g \in Nat
    <3>1. f.table[q] \in Entry
      BY DEF IsFile
    <3>2. /\ f.table[q].index \in Nat /\ f.table[q].index < IndexLimit
          /\ f.table[q].sectors \in Nat /\ f.table[q].sectors < SectorLimit
      BY EntryRange
    <3>. QED
      BY <3>1, <3>2, <1>1
  <2>2. a \in 0..(IndexLimit - 1) /\ b \in 0..(SectorLimit - 1)
    BY <2>1, <1>1, RemainderFits
  <2>. HIDE DEF a, b
  <2>. QED
    BY <2>1, <2>2, Zenon DEF Entry, a, b
<1>. QED
  BY <1>2, Zenon DEF GrownTable

\* resizeSector reads only sectors of the file, if the extent of the chunk ends in it.
LEMMA ResizeFacts ==
  ASSUME NEW f, IsFile(f), NEW s \in Slot, Used(f, s), NEW g \in Nat, 1 <= g,
         Movable(f, f.table[s]), NEW r, r = ResizeSector(f, s, g)
  PROVE  Resized(f, s, g, r) /\ IsFile(r)
<1>. DEFINE start == f.table[s].index + f.table[s].sectors
            size  == IF start > f.size THEN f.size ELSE f.size + g
            val(k) == IF k >= start + g THEN f.data[k - g]
                      ELSE IF k <= f.size THEN f.data[k] ELSE Hole
<1>1. /\ f.size \in Nat /\ f.data \in [1..f.size -> Sector]
      /\ start \in Nat /\ 1 <= start /\ start <= f.size + 1
  <2>1. f.table[s].index \in Nat /\ f.table[s].sectors \in Nat /\ f.table[s].index # 0
    BY EntryRange DEF Used
  <2>2. f.size \in Nat /\ f.data \in [1..f.size -> Sector]
    BY DEF IsFile
  <2>3. WholeSectors(f) \in Nat /\ WholeSectors(f) <= f.size
    BY <2>2, WholeRange
  <2>4. start <= WholeSectors(f) + 1
    BY DEF Movable
  <2>5. start \in Nat /\ 1 <= start
    BY <2>1
  <2>. HIDE DEF start
  <2>6. f.size \in Nat
    BY <2>2
  <2>7. start <= f.size + 1
    BY <2>3, <2>4, <2>5, <2>6
  <2>. QED
    BY <2>2, <2>5, <2>7
<1>2. r = [table |-> GrownTable(f, s, g), size |-> size, data |-> [k \in 1..size |-> val(k)]]
  BY DEF ResizeSector
<1>. HIDE DEF start
<1>3. size \in Nat
  BY <1>1
<1>4. ASSUME NEW k \in 1..size PROVE val(k) \in Sector
  <2>1. CASE k >= start + g
    <3>1. k - g \in 1..f.size
      BY <2>1, <1>1
    <3>. QED
      BY <2>1, <3>1, <1>1
  <2>2. CASE k < start + g /\ k <= f.size
    <3>1. k \in 1..f.size /\ ~(k >= start + g)
      BY <2>2, <1>1, <1>3
    <3>2. val(k) = f.data[k]
      BY <2>2, <3>1
    <3>. QED
      BY <3>1, <3>2, <1>1
  <2>3. CASE k < start + g /\ k > f.size
    <3>1. ~(k >= start + g) /\ ~(k <= f.size)
      BY <2>3, <1>1, <1>3
    <3>. QED
      BY <3>1 DEF Sector
  <2>. QED
    BY <2>1, <2>2, <2>3, <1>1, <1>3
<1>. HIDE DEF size, val
<1>5. r.data \in [1..r.size -> Sector] /\ \A k \in 1..r.size : r.data[k] = val(k)
  BY <1>2, <1>4
<1>6. /\ r.table = GrownTable(f, s, g) /\ r.size = size
      /\ r = [table |-> r.table, size |-> r.size, data |-> r.data]
  BY <1>2
<1>7. IsFile(r)
  BY <1>3, <1>5, <1>6, GrownTableType DEF IsFile
<1>8. ASSUME NEW k \in 1..r.size
      PROVE  /\ k >= start + g => r.data[k] = f.data[k - g]
             /\ k < start + g /\ k <= f.size => r.data[k] = f.data[k]
  <2>1. r.data[k] = val(k)
    BY <1>5
  <2>2. k < start + g => ~(k >= start + g)
    BY <1>1, <1>3, <1>6
  <2>. QED
    BY <2>1, <2>2 DEF val
<1>. QED
  BY <1>6, <1>7, <1>8 DEF Resized, start, size

\* Growing s moves what is behind it, whole, and nothing else: the sectors that are opened
\* are those of s.  What ended before the sector the file ends in still does.
LEMMA ResizeAgrees ==
  ASSUME NEW f, Sound(f), NEW s \in Slot, Used(f, s), NEW g \in Nat, 1 <= g,
         f.table[s].sectors + g <= MaxSectors, f.size + g < IndexLimit,
         Movable(f, f.table[s]), NEW r, r = ResizeSector(f, s, g)
  PROVE  /\ Sound(r) /\ Used(r, s)
         /\ r.table[s].index = f.table[s].index /\ r.table[s].sectors = f.table[s].sectors + g
         /\ r.size >= f.size /\ WholeSectors(r) >= WholeSectors(f)
         /\ \A q \in Slot : q # s => Agree(f, r, q)
         /\ \A q \in Slot : q # s /\ Used(f, q) /\ Inside(f) =>
              r.table[q].index + r.table[q].sectors - 1 <= WholeSectors(r)
<1>. DEFINE i == f.table[s].index
            m == f.table[s].sectors
<1>0. /\ WholeSectors(f) \in Nat /\ WholeSectors(f) <= f.size
      /\ Ragged(f) => WholeSectors(f) = f.size - 1
      /\ ~Ragged(f) => WholeSectors(f) = f.size
  BY SoundRange, WholeRange
<1>1. /\ f.size \in Nat /\ i \in Nat /\ m \in Nat /\ 1 <= i /\ 1 <= m /\ i + m <= f.size + 1
      /\ i + m <= WholeSectors(f) + 1
      /\ m + g <= MaxSectors /\ MaxSectors \in Nat /\ MaxSectors < SectorLimit
      /\ SectorLimit \in Nat /\ IndexLimit \in Nat
  BY <1>0, SoundRange, ConstantsAssumption DEF Movable
<1>2. Resized(f, s, g, r) /\ IsFile(r)
  BY ResizeFacts DEF Sound
<1>3. /\ r.table = GrownTable(f, s, g)
      /\ r.size = IF i + m > f.size THEN f.size ELSE f.size + g
      /\ \A k \in 1..r.size :
           /\ k >= i + m + g => r.data[k] = f.data[k - g]
           /\ k < i + m + g /\ k <= f.size => r.data[k] = f.data[k]
  BY <1>2 DEF Resized
<1>4. r.size \in Nat /\ r.size >= f.size
  BY <1>1, <1>3
<1>5. r.table[s].index = i /\ r.table[s].sectors = m + g
  <2>1. r.table[s] = [index |-> i, sectors |-> (m + g) % SectorLimit]
    BY <1>3 DEF GrownTable
  <2>2. m + g \in Nat /\ m + g < SectorLimit
    BY <1>1
  <2>. HIDE DEF m
  <2>3. (m + g) % SectorLimit = m + g
    BY <2>2, <1>1, FieldKeeps
  <2>4. r.table[s] = [index |-> i, sectors |-> m + g]
    BY <2>1, <2>3, Zenon
  <2>. QED
    BY <2>4
\* A slot in front keeps its entry, one behind moves.
<1>6. ASSUME NEW q \in Slot, q # s, Used(f, q)
      PROVE  /\ r.table[q].sectors = f.table[q].sectors
             /\ \/ /\ r.table[q].index = f.table[q].index
                   /\ f.table[q].index + f.table[q].sectors <= i
                \/ /\ r.table[q].index = f.table[q].index + g
                   /\ i + m <= f.table[q].index
  <2>1. /\ f.table[q].index \in Nat /\ f.table[q].sectors \in Nat
        /\ 1 <= f.table[q].index /\ f.table[q].index <= f.size /\ 1 <= f.table[q].sectors
    BY <1>6, SoundRange
  <2>2. i + m <= f.table[q].index \/ f.table[q].index + f.table[q].sectors <= i
    BY <1>6 DEF Sound, Apart
  <2>3. CASE f.table[q].index > i
    <3>1. r.table[q] = [index |-> (f.table[q].index + g) % IndexLimit,
                        sectors |-> f.table[q].sectors]
      BY <1>3, <1>6, <2>3 DEF GrownTable
    <3>. DEFINE x == f.table[q].index + g
    <3>2. x \in Nat /\ x < IndexLimit
      BY <2>1, <1>1
    <3>3. i + m <= f.table[q].index
      BY <2>1, <2>2, <2>3, <1>1
    <3>. HIDE DEF x
    <3>4. x % IndexLimit = x
      BY <3>2, <1>1, FieldKeeps
    <3>5. r.table[q] = [index |-> x, sectors |-> f.table[q].sectors]
      BY <3>1, <3>4, Zenon DEF x
    <3>. QED
      BY <3>3, <3>5 DEF x
  <2>4. CASE ~(f.table[q].index > i)
    <3>1. r.table[q] = f.table[q]
      BY <1>3, <1>6, <2>4 DEF GrownTable
    <3>2. f.table[q].index + f.table[q].sectors <= i
      BY <2>1, <2>2, <2>4, <1>1
    <3>. QED
      BY <3>1, <3>2
  <2>. QED
    BY <2>3, <2>4
<1>7. ASSUME NEW q \in Slot, q # s, ~Used(f, q)
      PROVE  r.table[q].sectors = f.table[q].sectors /\ ~Used(r, q)
  <2>1. f.table[q].index = 0 /\ ~(f.table[q].index > i)
    BY <1>7, <1>1 DEF Used
  <2>2. r.table[q] = f.table[q]
    BY <1>3, <1>7, <2>1 DEF GrownTable
  <2>. QED
    BY <2>1, <2>2 DEF Used
<1>8. ASSUME NEW q \in Slot, q # s PROVE Used(r, q) <=> Used(f, q)
  <2>1. CASE Used(f, q)
    <3>1. f.table[q].index \in Nat /\ 1 <= f.table[q].index
      BY <2>1, SoundRange
    <3>2. r.table[q].index = f.table[q].index \/ r.table[q].index = f.table[q].index + g
      BY <1>6, <1>8, <2>1
    <3>. QED
      BY <2>1, <3>1, <3>2 DEF Used
  <2>2. CASE ~Used(f, q)
    BY <1>7, <1>8, <2>2
  <2>. QED
    BY <2>1, <2>2
<1>9. Used(r, s)
  BY <1>1, <1>5 DEF Used
<1>. HIDE DEF i, m
<1>10. ASSUME NEW q \in Slot, q # s, Used(f, q) PROVE Agree(f, r, q)
  <2>. DEFINE j == f.table[q].index
              e == r.table[q].index
              l == f.table[q].sectors
  <2>1. /\ j \in Nat /\ l \in Nat /\ 1 <= j /\ j <= f.size
        /\ (e = j /\ j + l <= i) \/ (e = j + g /\ i + m <= j)
        /\ r.table[q].sectors = l
    BY <1>6, <1>10, SoundRange
  <2>. HIDE DEF j, e, l
  <2>2. ASSUME NEW k \in 1..l
        PROVE  /\ e + k - 1 <= r.size <=> j + k - 1 <= f.size
               /\ j + k - 1 <= f.size => r.data[e + k - 1] = f.data[j + k - 1]
    <3>1. CASE e = j /\ j + l <= i
      <4>1. /\ j + k - 1 <= f.size /\ j + k - 1 <= r.size /\ j + k - 1 \in 1..r.size
            /\ j + k - 1 < i + m + g
        BY <2>1, <3>1, <1>1, <1>4
      <4>. QED
        BY <4>1, <3>1, <1>3
    <3>2. CASE e = j + g /\ i + m <= j
      <4>. DEFINE x == e + k - 1
      <4>1. r.size = f.size + g
        BY <2>1, <3>2, <1>1, <1>3
      <4>2. x <= r.size <=> j + k - 1 <= f.size
        BY <2>1, <3>2, <4>1, <1>1
      <4>3. ASSUME j + k - 1 <= f.size PROVE r.data[x] = f.data[j + k - 1]
        <5>1. x \in 1..r.size /\ x >= i + m + g /\ x - g = j + k - 1
          BY <2>1, <3>2, <4>2, <4>3, <1>1, <1>4
        <5>. HIDE DEF x
        <5>2. r.data[x] = f.data[x - g]
          BY <5>1, <1>3
        <5>. QED
          BY <5>1, <5>2
      <4>. QED
        BY <4>2, <4>3
    <3>. QED
      BY <2>1, <3>1, <3>2
  <2>3. Used(r, q) <=> Used(f, q)
    BY <1>8, <1>10
  <2>. QED
    BY <2>1, <2>2, <2>3 DEF Agree, j, e, l
<1>11. ASSUME NEW q \in Slot, q # s PROVE Agree(f, r, q)
  <2>1. CASE ~Used(f, q)
    BY <1>7, <1>11, <2>1 DEF Agree
  <2>. QED
    BY <1>10, <1>11, <2>1
<1>12. Apart(r)
  <2>1. ASSUME NEW a \in Slot, NEW b \in Slot, Used(f, a), Used(f, b), a # b
        PROVE  /\ f.table[a].index \in Nat /\ f.table[a].sectors \in Nat
               /\ f.table[b].index \in Nat /\ f.table[b].sectors \in Nat
               /\ \/ f.table[a].index + f.table[a].sectors <= f.table[b].index
                  \/ f.table[b].index + f.table[b].sectors <= f.table[a].index
    BY <2>1, SoundRange DEF Sound, Apart
  <2>2. ASSUME NEW a \in Slot, NEW b \in Slot, Used(r, a), Used(r, b), a # b
        PROVE  \/ r.table[a].index + r.table[a].sectors <= r.table[b].index
               \/ r.table[b].index + r.table[b].sectors <= r.table[a].index
    <3>1. Used(f, a) /\ Used(f, b)
      BY <2>2, <1>8
    <3>2. CASE a = s
      BY <2>1, <2>2, <3>1, <3>2, <1>1, <1>5, <1>6
    <3>3. CASE b = s
      BY <2>1, <2>2, <3>1, <3>3, <1>1, <1>5, <1>6
    <3>4. CASE a # s /\ b # s
      BY <2>1, <2>2, <3>1, <3>4, <1>1, <1>6
    <3>. QED
      BY <3>2, <3>3, <3>4
  <2>. QED
    BY <2>2 DEF Apart
<1>13. ASSUME NEW q \in Slot
       PROVE  /\ r.table[q].sectors <= MaxSectors
              /\ Used(r, q) => r.table[q].sectors >= 1 /\ r.table[q].index <= r.size
  <2>1. CASE q = s
    <3>1. i <= f.size
      BY SoundRange DEF i
    <3>. QED
      BY <2>1, <3>1, <1>1, <1>4, <1>5
  <2>2. CASE q # s /\ Used(f, q)
    <3>1. /\ f.table[q].index \in Nat /\ f.table[q].sectors \in Nat /\ 1 <= f.table[q].sectors
          /\ f.table[q].index <= f.size /\ f.table[q].sectors <= MaxSectors
      BY <2>2, SoundRange
    <3>. QED
      BY <2>2, <3>1, <1>1, <1>3, <1>4, <1>6
  <2>3. CASE q # s /\ ~Used(f, q)
    BY <2>3, <1>7, SoundRange
  <2>. QED
    BY <2>1, <2>2, <2>3
<1>14. Sound(r)
  BY <1>2, <1>12, <1>13 DEF Sound
<1>15. WholeSectors(r) = WholeSectors(f) + (r.size - f.size)
  <2>1. CASE i + m > f.size
    <3>1. r.size = f.size /\ i + m = f.size + 1
      BY <2>1, <1>1, <1>3
    <3>2. ~Ragged(f)
      BY <3>1, <1>0, <1>1
    <3>3. f.size > 0 => r.data[f.size] = f.data[f.size]
      BY <3>1, <1>1, <1>3
    <3>4. ~Ragged(r)
      BY <3>1, <3>2, <3>3 DEF Ragged
    <3>. QED
      BY <3>1, <3>2, <3>4, <1>0, <1>1 DEF WholeSectors
  <2>2. CASE i + m <= f.size
    <3>1. r.size = f.size + g /\ r.size \in 1..r.size /\ r.size >= i + m + g
          /\ r.size - g = f.size /\ r.size > 0 /\ f.size > 0
      BY <2>2, <1>1, <1>3, <1>4
    <3>2. r.data[r.size] = f.data[f.size]
      BY <3>1, <1>3
    <3>3. Ragged(r) <=> Ragged(f)
      BY <3>1, <3>2 DEF Ragged
    <3>. QED
      BY <3>1, <3>3, <1>1 DEF WholeSectors
  <2>. QED
    BY <2>1, <2>2, <1>1
<1>16. ASSUME NEW q \in Slot, q # s, Used(f, q), Inside(f)
       PROVE  r.table[q].index + r.table[q].sectors - 1 <= WholeSectors(r)
  <2>1. /\ f.table[q].index \in Nat /\ f.table[q].sectors \in Nat /\ f.table[q].index <= f.size
        /\ f.table[q].index + f.table[q].sectors - 1 <= WholeSectors(f)
    BY <1>16, SoundRange DEF Inside
  <2>2. r.table[q].sectors = f.table[q].sectors
    BY <1>6, <1>16
  <2>3. CASE r.table[q].index = f.table[q].index
    BY <2>1, <2>2, <2>3, <1>0, <1>1, <1>4, <1>15
  <2>4. CASE r.table[q].index = f.table[q].index + g /\ i + m <= f.table[q].index
    <3>1. r.size = f.size + g
      BY <2>1, <2>4, <1>1, <1>3
    <3>. QED
      BY <2>1, <2>2, <2>4, <3>1, <1>0, <1>1, <1>15
  <2>. QED
    BY <2>3, <2>4, <1>6, <1>16
<1>17. WholeSectors(r) >= WholeSectors(f)
  BY <1>0, <1>1, <1>4, <1>15
<1>. QED
  BY <1>4, <1>5, <1>9, <1>11, <1>14, <1>16, <1>17 DEF i, m

-----------------------------------------------------------------------------
(* Appending a chunk: its sectors, and then its entry.                     *)

\* The chunks of a file are where they were when something is written behind its whole sectors.
LEMMA PrefixAgrees ==
  ASSUME NEW f, Sound(f), Inside(f), NEW h, IsFile(h), h.table = f.table, h.size >= f.size,
         WholeSectors(h) >= WholeSectors(f),
         \A x \in 1..WholeSectors(f) : h.data[x] = f.data[x]
  PROVE  Sound(h) /\ Inside(h) /\ \A q \in Slot : Agree(f, h, q)
<1>1. Sound(h) /\ Inside(h) /\ \A q \in Slot : Used(h, q) <=> Used(f, q)
  <2>1. IsFile(f)
    BY DEF Sound
  <2>. QED
    BY <2>1, SameTable
<1>2. ASSUME NEW q \in Slot PROVE Agree(f, h, q)
  <2>1. ASSUME Used(f, q), NEW k \in 1..f.table[q].sectors
        PROVE  /\ f.table[q].index + k - 1 <= h.size <=> f.table[q].index + k - 1 <= f.size
               /\ h.data[f.table[q].index + k - 1] = f.data[f.table[q].index + k - 1]
    <3>1. /\ f.table[q].index \in Nat /\ f.table[q].sectors \in Nat /\ 1 <= f.table[q].index
          /\ f.table[q].index + f.table[q].sectors - 1 <= WholeSectors(f)
          /\ f.size \in Nat
      BY <2>1, SoundRange DEF Inside
    <3>2. h.size \in Nat /\ WholeSectors(f) \in Nat /\ WholeSectors(f) <= f.size
      BY <3>1, WholeRange DEF IsFile
    <3>3. f.table[q].index + k - 1 \in 1..WholeSectors(f)
      BY <3>1, <3>2
    <3>. QED
      BY <3>1, <3>2, <3>3
  <2>. QED
    BY <2>1, <1>1 DEF Agree
<1>. QED
  BY <1>1, <1>2

\* h is f with the first n sectors of p behind it, and its chunks untouched.
WroteBehind(f, p, n, part, h) ==
  /\ Sound(h) /\ Inside(h) /\ h.table = f.table
  /\ \A q \in Slot : Agree(f, h, q)
  /\ 1 <= n /\ ~part => /\ WholeSectors(h) >= f.size + n /\ ~Ragged(h)
                        /\ \A k \in 1..n : h.data[f.size + k] = <<p, k>>

\* The first n sectors of p, or some of them and a part of the next, written behind a file
\* that ends with a whole sector.
LEMMA AppendAgrees ==
  ASSUME NEW f, Sound(f), Inside(f), ~Ragged(f), NEW p \in Payload, NEW n \in Nat,
         n <= Sectors[p], NEW part \in BOOLEAN,
         NEW h, h = WritePart(f, f.size + 1, p, 1, n, part)
  PROVE  WroteBehind(f, p, n, part, h)
<1>. DEFINE i == f.size + 1
<1>1. f.size \in Nat /\ i \in Nat /\ 1 <= i /\ IsFile(f) /\ WholeSectors(f) = f.size
  BY WholeRange DEF Sound, IsFile
<1>2. Written(f, i, p, 1, n, part, h)
  BY <1>1, WriteFacts
<1>3. IsFile(h) /\ h.table = f.table
  BY <1>2 DEF Written
<1>4. /\ WholeSectors(h) >= WholeSectors(f) /\ h.size >= f.size /\ h.size \in Nat
      /\ 1 <= n /\ ~part => WholeSectors(h) >= i + n - 1
      /\ ~Ragged(f) /\ ~part => ~Ragged(h)
  <2>1. 1 \in Nat /\ 1 <= 1 /\ 1 <= n + 1 /\ n <= Sectors[p] /\ n \in Nat
    OBVIOUS
  <2>. HIDE DEF i
  <2>2. i \in Nat /\ 1 <= i
    BY <1>1
  <2>. QED
    BY <2>1, <2>2, <1>1, <1>2, WrittenWhole
<1>5. ASSUME NEW x \in 1..f.size PROVE h.data[x] = f.data[x]
  <2>1. x \in 1..h.size /\ x \notin (i + 1 - 1)..End(i, n, part)
    BY <1>1, <1>4 DEF End
  <2>2. h.data[x] = IF x <= f.size THEN f.data[x] ELSE Hole
    BY <2>1, <1>2 DEF Written
  <2>. QED
    BY <2>2, <1>1
<1>6. Sound(h) /\ Inside(h) /\ \A q \in Slot : Agree(f, h, q)
  BY <1>1, <1>3, <1>4, <1>5, PrefixAgrees
<1>7. ASSUME NEW k \in 1..n, 1 <= n, ~part PROVE h.data[f.size + k] = <<p, k>>
  <2>1. WholeSectors(h) <= h.size /\ WholeSectors(h) \in Nat
    BY <1>4, WholeRange
  <2>2. f.size + k \in 1..h.size
    BY <2>1, <1>1, <1>4, <1>7
  <2>3. f.size + k \in (i + 1 - 1)..(i + n - 1) /\ (f.size + k) - i + 1 = k
    BY <1>1, <1>7
  <2>4. h.data[f.size + k] = <<p, (f.size + k) - i + 1>>
    BY <2>2, <2>3, <1>2 DEF Written
  <2>. QED
    BY <2>3, <2>4
<1>8. 1 <= n /\ ~part => WholeSectors(h) >= f.size + n
  BY <1>1, <1>4
<1>. QED
  BY <1>3, <1>4, <1>6, <1>7, <1>8 DEF WroteBehind

\* Whatever is written from the middle of the last sector on.
LEMMA AstrayAgrees ==
  ASSUME NEW f, Sound(f), Inside(f), Ragged(f), NEW n \in Nat, NEW h, h = WriteAstray(f, n)
  PROVE  /\ Sound(h) /\ Inside(h) /\ h.table = f.table
         /\ \A q \in Slot : Agree(f, h, q)
         /\ WholeSectors(h) = f.size + n - 1
<1>. DEFINE size == f.size + n
            val(k) == IF k <= f.size THEN f.data[k] ELSE IF k < f.size + n THEN Hole ELSE Cut
<1>1. /\ f.size \in Nat /\ f.size >= 1 /\ IsFile(f) /\ WholeSectors(f) = f.size - 1
      /\ f.data \in [1..f.size -> Sector] /\ f.table \in [Slot -> Entry] /\ f.data[f.size] = Cut
  BY WholeRange DEF Sound, IsFile, Ragged
<1>2. h = [table |-> f.table, size |-> size, data |-> [k \in 1..size |-> val(k)]]
  BY DEF WriteAstray
<1>3. size \in Nat /\ size >= f.size /\ size >= 1 /\ size \in 1..size
  BY <1>1
<1>4. ASSUME NEW k \in 1..size PROVE val(k) \in Sector
  <2>1. k <= f.size => f.data[k] \in Sector
    BY <1>1, <1>3
  <2>. QED
    BY <2>1 DEF Sector
<1>5. val(size) = Cut
  <2>1. size <= f.size => size = f.size
    BY <1>1
  <2>2. ~(size < f.size + n)
    BY <1>1
  <2>. QED
    BY <2>1, <2>2, <1>1
<1>6. ASSUME NEW k \in 1..f.size PROVE k \in 1..size /\ val(k) = f.data[k]
  BY <1>1, <1>3
<1>. HIDE DEF size, val
<1>7. h.data \in [1..h.size -> Sector] /\ \A k \in 1..h.size : h.data[k] = val(k)
  BY <1>2, <1>4
<1>8. /\ h.table = f.table /\ h.size = size
      /\ h = [table |-> h.table, size |-> h.size, data |-> h.data]
  BY <1>2
<1>9. IsFile(h)
  BY <1>1, <1>3, <1>7, <1>8 DEF IsFile
<1>10. WholeSectors(h) = size - 1
  BY <1>3, <1>5, <1>7, <1>8 DEF WholeSectors, Ragged
<1>11. \A x \in 1..WholeSectors(f) : h.data[x] = f.data[x]
  <2>1. \A x \in 1..WholeSectors(f) : x \in 1..f.size
    BY <1>1
  <2>. QED
    BY <2>1, <1>6, <1>7, <1>8
<1>12. h.size >= f.size /\ WholeSectors(h) >= WholeSectors(f)
  BY <1>1, <1>3, <1>8, <1>10
<1>13. Sound(h) /\ Inside(h) /\ \A q \in Slot : Agree(f, h, q)
  BY <1>8, <1>9, <1>11, <1>12, PrefixAgrees
<1>14. WholeSectors(h) = f.size + n - 1
  BY <1>1, <1>10 DEF size
<1>. QED
  BY <1>8, <1>10, <1>13, <1>14

\* The entry gives s sectors that begin behind the whole ones there were.
LEMMA EntryAgrees ==
  ASSUME NEW f, Sound(f), Inside(f), NEW s \in Slot, ~Used(f, s),
         NEW h, Sound(h), Inside(h), h.table = f.table, \A q \in Slot : Agree(f, h, q),
         NEW i \in Nat, WholeSectors(f) < i, i < IndexLimit,
         NEW n \in 1..MaxSectors, i + n - 1 <= WholeSectors(h),
         NEW d, d = [table |-> [h.table EXCEPT ![s] = [index |-> i, sectors |-> n]],
                     size |-> h.size, data |-> h.data]
  PROVE  /\ Sound(d) /\ Inside(d) /\ Used(d, s)
         /\ Ragged(d) <=> Ragged(h)
         /\ \A q \in Slot : q # s => Agree(f, d, q)
         /\ \A p \in Payload :
              Sectors[p] = n /\ (\A k \in 1..n : h.data[i + k - 1] = <<p, k>>)
                => LoadChunk(d, s) = p
<1>1. /\ f.size \in Nat /\ n \in Nat /\ 1 <= n /\ n <= MaxSectors /\ MaxSectors < SectorLimit
      /\ MaxSectors \in Nat /\ SectorLimit \in Nat /\ IndexLimit \in Nat
      /\ WholeSectors(f) \in Nat /\ 1 <= i
  <2>1. f.size \in Nat
    BY DEF Sound, IsFile
  <2>2. WholeSectors(f) \in Nat
    BY <2>1, WholeRange
  <2>. QED
    BY <2>1, <2>2, ConstantsAssumption
<1>2. /\ IsFile(h) /\ h.table \in [Slot -> Entry] /\ h.data \in [1..h.size -> Sector]
      /\ h.size \in Nat
  BY DEF Sound, IsFile
<1>3. WholeSectors(h) \in Nat /\ WholeSectors(h) <= h.size
  BY <1>2, WholeRange
<1>4. [index |-> i, sectors |-> n] \in Entry
  <2>1. i \in 0..(IndexLimit - 1) /\ n \in 0..(SectorLimit - 1)
    BY <1>1
  <2>. QED
    BY <2>1 DEF Entry
<1>5. /\ d.size = h.size /\ d.data = h.data
      /\ d.table = [h.table EXCEPT ![s] = [index |-> i, sectors |-> n]]
      /\ d = [table |-> d.table, size |-> d.size, data |-> d.data]
  OBVIOUS
<1>6. IsFile(d)
  <2>1. d.table \in [Slot -> Entry]
    BY <1>2, <1>4, <1>5
  <2>. QED
    BY <2>1, <1>2, <1>5 DEF IsFile
<1>7. d.table[s].index = i /\ d.table[s].sectors = n
  <2>1. d.table[s] = [index |-> i, sectors |-> n]
    BY <1>2, <1>5
  <2>. QED
    BY <2>1
<1>8. \A q \in Slot : q # s => d.table[q] = f.table[q]
  BY <1>2, <1>5
<1>9. Used(d, s) /\ \A q \in Slot : q # s => (Used(d, q) <=> Used(f, q))
  BY <1>1, <1>7, <1>8 DEF Used
<1>10. ASSUME NEW q \in Slot, q # s PROVE Agree(f, d, q)
  <2>1. Agree(f, h, q) /\ h.table[q] = d.table[q] /\ (Used(d, q) <=> Used(h, q))
    BY <1>2, <1>8, <1>9, <1>10 DEF Used
  <2>. QED
    BY <2>1, <1>5, Zenon DEF Agree
<1>11. ASSUME NEW p \in Payload, Sectors[p] = n, \A k \in 1..n : h.data[i + k - 1] = <<p, k>>
       PROVE  LoadChunk(d, s) = p
  <2>1. ASSUME NEW k \in 1..Sectors[p]
        PROVE  d.table[s].index + k - 1 <= d.size /\ d.data[d.table[s].index + k - 1] = <<p, k>>
    <3>1. i + k - 1 <= h.size /\ k \in 1..n
      BY <1>1, <1>2, <1>3, <1>11
    <3>. QED
      BY <3>1, <1>5, <1>7, <1>11
  <2>2. Sectors[p] <= d.table[s].sectors
    BY <1>1, <1>7, <1>11
  <2>. QED
    BY <2>1, <2>2, <1>6, <1>9, HeldLoads
<1>12. ASSUME NEW q \in Slot, q # s, Used(d, q)
       PROVE  /\ d.table[q].index \in Nat /\ d.table[q].sectors \in Nat
              /\ 1 <= d.table[q].sectors
              /\ d.table[q].index + d.table[q].sectors <= i
              /\ d.table[q].index + d.table[q].sectors - 1 <= WholeSectors(h)
  <2>1. Used(f, q) /\ Used(h, q) /\ d.table[q] = f.table[q] /\ d.table[q] = h.table[q]
    BY <1>8, <1>9, <1>12 DEF Used
  <2>2. /\ f.table[q].index \in Nat /\ f.table[q].sectors \in Nat /\ 1 <= f.table[q].sectors
        /\ f.table[q].index + f.table[q].sectors - 1 <= WholeSectors(f)
        /\ h.table[q].index + h.table[q].sectors - 1 <= WholeSectors(h)
    BY <2>1, SoundRange DEF Inside
  <2>. QED
    BY <2>1, <2>2, <1>1, <1>3
<1>13. Apart(d)
  <2>1. ASSUME NEW a \in Slot, NEW b \in Slot, Used(d, a), Used(d, b), a # b
        PROVE  \/ d.table[a].index + d.table[a].sectors <= d.table[b].index
               \/ d.table[b].index + d.table[b].sectors <= d.table[a].index
    <3>1. CASE a = s
      BY <2>1, <3>1, <1>7, <1>12
    <3>2. CASE b = s
      BY <2>1, <3>2, <1>7, <1>12
    <3>3. CASE a # s /\ b # s
      BY <2>1, <3>3, <1>8, <1>9 DEF Sound, Apart
    <3>. QED
      BY <3>1, <3>2, <3>3
  <2>. QED
    BY <2>1 DEF Apart
<1>14. \A q \in Slot : d.table[q].sectors <= MaxSectors
  BY <1>1, <1>7, <1>8, SoundRange
<1>15. (Ragged(d) <=> Ragged(h)) /\ WholeSectors(d) = WholeSectors(h)
  BY <1>5 DEF Ragged, WholeSectors
<1>16. ASSUME NEW q \in Slot, Used(d, q)
       PROVE  /\ d.table[q].sectors >= 1 /\ d.table[q].index <= d.size
              /\ d.table[q].index + d.table[q].sectors - 1 <= WholeSectors(d)
  <2>1. CASE q = s
    BY <2>1, <1>1, <1>2, <1>3, <1>5, <1>7, <1>15
  <2>2. CASE q # s
    BY <2>2, <1>1, <1>2, <1>3, <1>5, <1>12, <1>15, <1>16
  <2>. QED
    BY <2>1, <2>2
<1>17. Sound(d) /\ Inside(d)
  BY <1>6, <1>13, <1>14, <1>16 DEF Sound, Inside
<1>. QED
  BY <1>9, <1>10, <1>11, <1>15, <1>17

-----------------------------------------------------------------------------
(* A growth that is cut off.                                               *)

\* Whatever was moved, the result is a file with the old table and the sectors up to start.
LEMMA MovedFacts ==
  ASSUME NEW f, IsFile(f), NEW s \in Slot, Used(f, s), NEW g \in Nat, 1 <= g,
         Movable(f, f.table[s]), NEW m \in Nat,
         f.table[s].index + f.table[s].sectors + m <= f.size + 1,
         NEW h, h = PartlyMoved(f, s, g, m)
  PROVE  /\ IsFile(h) /\ h.table = f.table /\ h.size >= f.size
         /\ \A k \in 1..f.size :
              k < f.table[s].index + f.table[s].sectors => h.data[k] = f.data[k]
<1>. DEFINE start == f.table[s].index + f.table[s].sectors
            last  == start + g + m - 1
            part  == start + m <= f.size
            end   == IF part THEN last + 1 ELSE last
            size  == IF start <= f.size /\ end > f.size THEN end ELSE f.size
            val(k) == IF k \in (start + g)..last THEN f.data[k - g]
                      ELSE IF part /\ k = end THEN InPart(f, k)
                      ELSE IF k <= f.size THEN f.data[k] ELSE Hole
<1>1. /\ f.size \in Nat /\ f.data \in [1..f.size -> Sector] /\ f.table \in [Slot -> Entry]
      /\ start \in Nat /\ 1 <= start /\ start + m <= f.size + 1
  <2>1. f.table[s].index \in Nat /\ f.table[s].sectors \in Nat /\ f.table[s].index # 0
    BY EntryRange DEF Used
  <2>2. f.size \in Nat /\ f.data \in [1..f.size -> Sector] /\ f.table \in [Slot -> Entry]
    BY DEF IsFile
  <2>3. start \in Nat /\ 1 <= start /\ start + m <= f.size + 1
    BY <2>1
  <2>. QED
    BY <2>2, <2>3
<1>2. h = [table |-> f.table, size |-> size, data |-> [k \in 1..size |-> val(k)]]
  BY DEF PartlyMoved
<1>. HIDE DEF start
<1>3. end \in Int /\ start <= end + 1 /\ size \in Nat /\ size >= f.size
  BY <1>1
<1>4. ASSUME NEW k \in 1..size PROVE val(k) \in Sector
  <2>1. CASE k \in (start + g)..last
    <3>1. k - g \in 1..f.size
      BY <2>1, <1>1
    <3>. QED
      BY <2>1, <3>1, <1>1
  <2>2. CASE k \notin (start + g)..last /\ k <= f.size
    <3>1. k \in 1..f.size
      BY <2>2, <1>1, <1>3
    <3>2. f.data[k] \in Sector /\ InPart(f, k) \in Sector
      BY <3>1, <1>1 DEF InPart, Sector
    <3>. HIDE DEF last, part, end
    <3>. QED
      BY <2>2, <3>2
  <2>3. CASE k \notin (start + g)..last /\ ~(k <= f.size)
    <3>1. Hole \in Sector /\ InPart(f, k) \in Sector
      BY DEF InPart, Sector
    <3>. HIDE DEF last, part, end
    <3>. QED
      BY <2>3, <3>1
  <2>. QED
    BY <2>1, <2>2, <2>3
<1>5. ASSUME NEW k \in 1..f.size, k < start PROVE k \in 1..size /\ val(k) = f.data[k]
  <2>1. k \notin (start + g)..last /\ k <= f.size /\ ~(part /\ k = end)
    BY <1>1, <1>5
  <2>2. k \in 1..size
    BY <1>1, <1>3
  <2>. HIDE DEF last, part, end, size
  <2>. QED
    BY <2>1, <2>2
<1>. HIDE DEF size, val
<1>6. h.data \in [1..h.size -> Sector] /\ \A k \in 1..h.size : h.data[k] = val(k)
  BY <1>2, <1>4
<1>7. /\ h.table = f.table /\ h.size = size
      /\ h = [table |-> h.table, size |-> h.size, data |-> h.data]
  BY <1>2
<1>8. IsFile(h)
  BY <1>1, <1>3, <1>6, <1>7 DEF IsFile
<1>9. \A k \in 1..f.size : k < start => h.data[k] = f.data[k]
  BY <1>5, <1>6, <1>7
<1>. QED
  BY <1>3, <1>7, <1>8, <1>9 DEF start

\* The chunk that was to grow and those in front of it are not touched.
LEMMA MovedAgrees ==
  ASSUME NEW f, Sound(f), NEW s \in Slot, Used(f, s), NEW g \in Nat, 1 <= g,
         Movable(f, f.table[s]), NEW m \in Nat,
         f.table[s].index + f.table[s].sectors + m <= f.size + 1,
         NEW h, h = PartlyMoved(f, s, g, m)
  PROVE  /\ Sound(h) /\ h.table = f.table
         /\ \A q \in Slot : q \notin Behind(f, s) => Agree(f, h, q)
<1>1. /\ IsFile(h) /\ h.table = f.table /\ h.size >= f.size
      /\ \A k \in 1..f.size :
           k < f.table[s].index + f.table[s].sectors => h.data[k] = f.data[k]
  <2>1. IsFile(f)
    BY DEF Sound
  <2>. QED
    BY <2>1, MovedFacts
<1>2. Sound(h) /\ \A q \in Slot : Used(h, q) <=> Used(f, q)
  BY <1>1, SameTable DEF Sound
<1>3. /\ f.size \in Nat /\ h.size \in Nat
      /\ f.table[s].index \in Nat /\ f.table[s].sectors \in Nat /\ 1 <= f.table[s].sectors
      /\ f.table[s].index + f.table[s].sectors <= f.size + 1
  <2>1. WholeSectors(f) \in Nat /\ WholeSectors(f) <= f.size
    BY SoundRange, WholeRange
  <2>. QED
    BY <1>1, <2>1, SoundRange DEF Movable, IsFile
<1>4. ASSUME NEW q \in Slot, q \notin Behind(f, s) PROVE Agree(f, h, q)
  <2>1. ASSUME Used(f, q), NEW k \in 1..f.table[q].sectors
        PROVE  /\ f.table[q].index + k - 1 <= h.size <=> f.table[q].index + k - 1 <= f.size
               /\ h.data[f.table[q].index + k - 1] = f.data[f.table[q].index + k - 1]
    <3>. DEFINE x == f.table[q].index + k - 1
    <3>1. /\ f.table[q].index \in Nat /\ f.table[q].sectors \in Nat /\ 1 <= f.table[q].index
          /\ x \in Nat /\ 1 <= x
      BY <2>1, SoundRange
    <3>2. x < f.table[s].index + f.table[s].sectors
      <4>1. ~(f.table[q].index > f.table[s].index)
        BY <1>4 DEF Behind
      <4>2. CASE q = s
        BY <4>2, <3>1
      <4>3. CASE q # s
        <5>1. \/ f.table[s].index + f.table[s].sectors <= f.table[q].index
              \/ f.table[q].index + f.table[q].sectors <= f.table[s].index
          BY <2>1, <4>3 DEF Sound, Apart
        <5>. QED
          BY <5>1, <4>1, <3>1, <1>3
      <4>. QED
        BY <4>2, <4>3
    <3>3. x \in 1..f.size /\ x <= h.size /\ x <= f.size
      BY <3>1, <3>2, <1>1, <1>3
    <3>. HIDE DEF x
    <3>4. h.data[x] = f.data[x]
      BY <3>2, <3>3, <1>1
    <3>. QED
      BY <3>3, <3>4 DEF x
  <2>. QED
    BY <2>1, <1>1, <1>2 DEF Agree
<1>. QED
  BY <1>1, <1>2, <1>4

-----------------------------------------------------------------------------
(* saveChunk, whose last write stays in the buffer.                        *)

\* The file with room for p at the place of s.
Opened(f, s, p) ==
  IF Sectors[p] > f.table[s].sectors
  THEN ResizeSector(f, s, Sectors[p] - f.table[s].sectors) ELSE f

NewEntry(i, p) == [index |-> i % IndexLimit, sectors |-> Sectors[p] % SectorLimit]

\* A buffered write is not an empty buffer.
LEMMA TailIsWrite ==
  ASSUME NEW s \in Slot, NEW i \in Nat, NEW p \in Payload, NEW n \in 1..Sectors[p]
  PROVE  /\ TailWrite(s, i, p, n) \in Writes /\ TailWrite(s, i, p, n) # None
         /\ TailWrite(s, i, p, n).slot = s
         /\ \A f : Flush(f, TailWrite(s, i, p, n)) = WritePart(f, i, p, n, Sectors[p], FALSE)
<1>. DEFINE w == TailWrite(s, i, p, n)
<1>1. n \in 1..MaxSectors /\ n <= Sectors[p]
  BY SectorsRange, ConstantsAssumption
<1>2. /\ w.kind = "tail" /\ w.slot = s /\ w.pos = i /\ w.payload = p /\ w.from = n
      /\ w \in [kind : {"tail"}, slot : Slot, pos : Nat, payload : Payload, from : 1..MaxSectors]
  BY <1>1 DEF TailWrite
<1>. HIDE DEF w
<1>3. w \in Writes
  BY <1>1, <1>2 DEF Writes
<1>4. w # None
  BY <1>3, SessionAssumption
<1>5. \A f : Flush(f, w) = WritePart(f, i, p, n, Sectors[p], FALSE)
  BY <1>2, <1>4 DEF Flush
<1>. QED
  BY <1>2, <1>3, <1>4, <1>5 DEF w

LEMMA EntryIsWrite ==
  ASSUME NEW s \in Slot, NEW e \in Entry
  PROVE  /\ EntryWrite(s, e) \in Writes /\ EntryWrite(s, e) # None
         /\ EntryWrite(s, e).slot = s
         /\ \A f : Flush(f, EntryWrite(s, e))
                     = [table |-> [f.table EXCEPT ![s] = e], size |-> f.size, data |-> f.data]
<1>. DEFINE w == EntryWrite(s, e)
<1>1. /\ w.kind = "entry" /\ w.slot = s /\ w.entry = e
      /\ w \in [kind : {"entry"}, slot : Slot, entry : Entry]
  BY DEF EntryWrite
<1>. HIDE DEF w
<1>2. w \in Writes
  BY <1>1 DEF Writes
<1>3. w # None
  BY <1>2, SessionAssumption
<1>4. \A f : Flush(f, w) = [table |-> [f.table EXCEPT ![s] = e], size |-> f.size, data |-> f.data]
  BY <1>1, <1>3 DEF Flush
<1>. QED
  BY <1>1, <1>2, <1>3, <1>4 DEF w

\* A new entry keeps to the widths of its fields; they lose nothing of what fits them.
LEMMA NewEntryType ==
  ASSUME NEW i \in Nat, NEW p \in Payload
  PROVE  /\ NewEntry(i, p) \in Entry
         /\ i < IndexLimit => NewEntry(i, p) = [index |-> i, sectors |-> Sectors[p]]
<1>1. /\ Sectors[p] \in Nat /\ Sectors[p] < SectorLimit
      /\ 0 < SectorLimit /\ 0 < IndexLimit /\ SectorLimit \in Nat /\ IndexLimit \in Nat
  BY SectorsRange, ConstantsAssumption
<1>2. i % IndexLimit \in 0..(IndexLimit - 1) /\ Sectors[p] % SectorLimit \in 0..(SectorLimit - 1)
  BY <1>1, RemainderFits
<1>3. NewEntry(i, p) \in Entry
  BY <1>2, Zenon DEF NewEntry, Entry
<1>4. ASSUME i < IndexLimit PROVE NewEntry(i, p) = [index |-> i, sectors |-> Sectors[p]]
  <2>1. i % IndexLimit = i /\ Sectors[p] % SectorLimit = Sectors[p]
    BY <1>1, <1>4, FieldKeeps
  <2>. QED
    BY <2>1, Zenon DEF NewEntry
<1>. QED
  BY <1>3, <1>4

\* Appending is the same fwrite, behind the last sector.
LEMMA AppendIsWrite ==
  ASSUME NEW f, IsFile(f), NEW s \in Slot, NEW p \in Payload,
         NEW w, w = AppendChunk(f, s, p)
  PROVE  /\ [table |-> f.table, size |-> w.size, data |-> w.data]
              = WritePart(f, f.size + 1, p, 1, Sectors[p], FALSE)
         /\ w.table[s] = NewEntry(f.size + 1, p)
<1>. DEFINE pos == f.size + 1
            last == pos + Sectors[p] - 1
            size == IF last > f.size THEN last ELSE f.size
            size2 == IF last >= pos + 1 - 1 /\ last > f.size THEN last ELSE f.size
            val(k) == IF k \in pos..last THEN <<p, k - pos + 1>> ELSE f.data[k]
            val2(k) == IF k \in (pos + 1 - 1)..last THEN <<p, k - pos + 1>>
                       ELSE IF k <= f.size THEN f.data[k] ELSE Hole
            a == WriteAt(f, pos, p)
<1>1. f.size \in Nat /\ f.table \in [Slot -> Entry] /\ Sectors[p] \in Nat /\ 1 <= Sectors[p]
  BY SectorsRange DEF IsFile
<1>2. a = [table |-> f.table, size |-> size, data |-> [k \in 1..size |-> val(k)]]
  BY DEF WriteAt
<1>3. WritePart(f, pos, p, 1, Sectors[p], FALSE)
        = [table |-> f.table, size |-> size2, data |-> [k \in 1..size2 |-> val2(k)]]
  BY DEF WritePart
<1>4. w = [table |-> [a.table EXCEPT ![s] = NewEntry(pos, p)], size |-> a.size, data |-> a.data]
  BY DEF AppendChunk, NewEntry
<1>5. size = size2
  BY <1>1
<1>6. ASSUME NEW k \in 1..size PROVE val(k) = val2(k)
  <2>1. /\ k \in pos..last <=> k \in (pos + 1 - 1)..last
        /\ k \notin pos..last => k <= f.size
    BY <1>1
  <2>. HIDE DEF pos, last
  <2>. QED
    BY <2>1
<1>. HIDE DEF pos, size, size2, val, val2, a
<1>7. [k \in 1..size |-> val(k)] = [k \in 1..size2 |-> val2(k)]
  BY <1>5, <1>6
<1>8. a.table = f.table /\ a.size = size /\ a.data = [k \in 1..size |-> val(k)]
  BY <1>2
<1>9. w.size = size /\ w.data = [k \in 1..size |-> val(k)]
      /\ w.table = [f.table EXCEPT ![s] = NewEntry(pos, p)]
  BY <1>4, <1>8
<1>10. w.table[s] = NewEntry(pos, p)
  BY <1>1, <1>9
<1>. QED
  BY <1>3, <1>5, <1>7, <1>9, <1>10 DEF pos

\* The three ways a save can go, where the file has a table.
InPlace(h, s, p, g) ==
  /\ Used(g, s)
  /\ Movable(g, g.table[s]) \/ Sectors[p] <= g.table[s].sectors
  /\ \E n \in 1..Sectors[p], part \in BOOLEAN :
       /\ file' = WritePart(Opened(g, s, p), g.table[s].index, p, 1, n - 1, part)
       /\ pend' = [pend EXCEPT ![h] = TailWrite(s, g.table[s].index, p, n)]
  /\ astray' = astray \ {s}

AtEnd(h, s, p, g) ==
  /\ ~Used(g, s) /\ ~Ragged(g)
  /\ file' = WritePart(g, g.size + 1, p, 1, Sectors[p], FALSE)
  /\ pend' = [pend EXCEPT ![h] = EntryWrite(s, NewEntry(g.size + 1, p))]
  /\ astray' = astray \ {s}

AtRaggedEnd(h, s, p, g) ==
  /\ ~Used(g, s) /\ Ragged(g)
  /\ file' = WriteAstray(g, Sectors[p])
  /\ pend' = [pend EXCEPT ![h] = EntryWrite(s, NewEntry(g.size, p))]
  /\ astray' = astray \cup {s}

LEMMA SaveCases ==
  ASSUME NEW h \in Handle, NEW s \in Slot, NEW p \in Payload, NEW g, IsFile(g),
         SaveWithTable(h, s, p, g)
  PROVE  /\ InPlace(h, s, p, g) \/ AtEnd(h, s, p, g) \/ AtRaggedEnd(h, s, p, g)
         /\ FitsIndex(g, s, p) /\ created # "empty" /\ created' = "yes"
<1>1. /\ SaveInPlace(h, s, p, g) \/ SaveAtEnd(h, s, p, g) \/ SaveAtRaggedEnd(h, s, p, g)
      /\ FitsIndex(g, s, p) /\ created # "empty" /\ created' = "yes"
  BY DEF SaveWithTable
<1>2. CASE SaveInPlace(h, s, p, g)
  <2>1. InPlace(h, s, p, g)
    BY <1>2, Zenon DEF SaveInPlace, InPlace, Opened
  <2>. QED
    BY <1>1, <2>1
<1>3. CASE SaveAtEnd(h, s, p, g)
  <2>. DEFINE w == AppendChunk(g, s, p)
  <2>1. /\ ~Used(g, s) /\ ~Ragged(g)
        /\ file' = [table |-> g.table, size |-> w.size, data |-> w.data]
        /\ pend' = [pend EXCEPT ![h] = EntryWrite(s, w.table[s])]
        /\ astray' = astray \ {s}
    BY <1>3 DEF SaveAtEnd
  <2>2. /\ [table |-> g.table, size |-> w.size, data |-> w.data]
             = WritePart(g, g.size + 1, p, 1, Sectors[p], FALSE)
        /\ w.table[s] = NewEntry(g.size + 1, p)
    BY AppendIsWrite
  <2>. HIDE DEF w
  <2>3. AtEnd(h, s, p, g)
    BY <2>1, <2>2, Zenon DEF AtEnd
  <2>. QED
    BY <1>1, <2>3
<1>4. CASE SaveAtRaggedEnd(h, s, p, g)
  <2>1. AtRaggedEnd(h, s, p, g)
    BY <1>4, Zenon DEF SaveAtRaggedEnd, AtRaggedEnd, NewEntry
  <2>. QED
    BY <1>1, <2>1
<1>. QED
  BY <1>1, <1>2, <1>3, <1>4

\* What a save changes besides the file: the buffer of its handle, and what is said of slot s.
LEMMA SaveParts ==
  ASSUME NEW h \in Handle, NEW s \in Slot, NEW p \in Payload, NEW g, IsFile(g),
         SaveWithTable(h, s, p, g), pend \in [Handle -> Writes \cup {None}]
  PROVE  /\ pend' \in [Handle -> Writes \cup {None}]
         /\ \A i \in Handle : i # h => pend'[i] = pend[i]
         /\ pend'[h] # None /\ pend'[h].slot = s
         /\ astray' = astray \ {s} \/ astray' = astray \cup {s}
<1>1. InPlace(h, s, p, g) \/ AtEnd(h, s, p, g) \/ AtRaggedEnd(h, s, p, g)
  BY SaveCases
<1>2. g.size \in Nat /\ g.size + 1 \in Nat /\ g.table[s].index \in Nat
  <2>1. g.size \in Nat /\ g.size + 1 \in Nat
    BY DEF IsFile
  <2>2. g.table[s].index \in Nat
    BY EntryRange
  <2>. QED
    BY <2>1, <2>2
<1>3. \E w \in Writes : w # None /\ w.slot = s /\ pend' = [pend EXCEPT ![h] = w]
  <2>1. CASE InPlace(h, s, p, g)
    <3>1. PICK n \in 1..Sectors[p] : pend' = [pend EXCEPT ![h] = TailWrite(s, g.table[s].index, p, n)]
      BY <2>1 DEF InPlace
    <3>2. TailWrite(s, g.table[s].index, p, n) \in Writes
          /\ TailWrite(s, g.table[s].index, p, n) # None
          /\ TailWrite(s, g.table[s].index, p, n).slot = s
      BY <1>2, TailIsWrite
    <3>. QED
      BY <3>1, <3>2, Zenon
  <2>2. CASE AtEnd(h, s, p, g)
    BY <1>2, <2>2, NewEntryType, EntryIsWrite DEF AtEnd
  <2>3. CASE AtRaggedEnd(h, s, p, g)
    BY <1>2, <2>3, NewEntryType, EntryIsWrite DEF AtRaggedEnd
  <2>. QED
    BY <1>1, <2>1, <2>2, <2>3
<1>4. PICK w \in Writes : w # None /\ w.slot = s /\ pend' = [pend EXCEPT ![h] = w]
  BY <1>3
<1>5. pend'[h] = w
  BY <1>4
<1>6. pend' \in [Handle -> Writes \cup {None}] /\ \A i \in Handle : i # h => pend'[i] = pend[i]
  BY <1>4
<1>7. astray' = astray \ {s} \/ astray' = astray \cup {s}
  BY <1>1 DEF InPlace, AtEnd, AtRaggedEnd
<1>. QED
  BY <1>4, <1>5, <1>6, <1>7

\* A chunk at its place, grown where it has to.
LEMMA OpenedType ==
  ASSUME NEW g, IsFile(g), NEW s \in Slot, Used(g, s), NEW p \in Payload,
         Movable(g, g.table[s]) \/ Sectors[p] <= g.table[s].sectors
  PROVE  IsFile(Opened(g, s, p))
<1>1. Sectors[p] \in Nat /\ g.table[s].sectors \in Nat
  BY SectorsRange, EntryRange
<1>2. CASE Sectors[p] > g.table[s].sectors
  <2>. DEFINE d == Sectors[p] - g.table[s].sectors
  <2>1. d \in Nat /\ 1 <= d /\ Movable(g, g.table[s])
    BY <1>1, <1>2
  <2>2. Opened(g, s, p) = ResizeSector(g, s, d)
    BY <1>2 DEF Opened
  <2>. HIDE DEF d
  <2>. QED
    BY <2>1, <2>2, ResizeFacts
<1>3. CASE ~(Sectors[p] > g.table[s].sectors)
  BY <1>3 DEF Opened
<1>. QED
  BY <1>2, <1>3

\* Writing astray gives a file.
LEMMA AstrayType ==
  ASSUME NEW f, IsFile(f), NEW n \in Nat, NEW h, h = WriteAstray(f, n)
  PROVE  IsFile(h)
<1>. DEFINE size == f.size + n
            val(k) == IF k <= f.size THEN f.data[k] ELSE IF k < f.size + n THEN Hole ELSE Cut
<1>1. f.size \in Nat /\ f.data \in [1..f.size -> Sector] /\ f.table \in [Slot -> Entry]
  BY DEF IsFile
<1>2. h = [table |-> f.table, size |-> size, data |-> [k \in 1..size |-> val(k)]]
  BY DEF WriteAstray
<1>3. size \in Nat
  BY <1>1
<1>4. ASSUME NEW k \in 1..size PROVE val(k) \in Sector
  <2>1. k <= f.size => f.data[k] \in Sector
    BY <1>1, <1>3
  <2>. QED
    BY <2>1 DEF Sector
<1>. HIDE DEF size, val
<1>5. [k \in 1..size |-> val(k)] \in [1..size -> Sector]
  BY <1>4
<1>. QED
  BY <1>1, <1>2, <1>3, <1>5 DEF IsFile

\* The file stays a file, and the buffer holds a write of slot s.
LEMMA SaveType ==
  ASSUME NEW h \in Handle, NEW s \in Slot, NEW p \in Payload, Save(h, s, p),
         IsFile(file), IsFile(Flush(file, pend[h])), pend \in [Handle -> Writes \cup {None}],
         saved \in [Slot -> Payload \cup {Absent, Torn}], astray \subseteq Slot,
         created \in {"no", "empty", "yes"}
  PROVE  /\ IsFile(file')
         /\ pend' \in [Handle -> Writes \cup {None}]
         /\ created' \in {"no", "empty", "yes"}
         /\ saved' \in [Slot -> Payload \cup {Absent, Torn}]
         /\ astray' \subseteq Slot
<1>. DEFINE g == Flush(file, pend[h])
<1>1. saved' \in [Slot -> Payload \cup {Absent, Torn}]
  BY DEF Save
<1>2. CASE SaveWithoutTable(s)
  BY <1>1, <1>2 DEF SaveWithoutTable
<1>3. CASE SaveWithTable(h, s, p, g)
  <2>. HIDE DEF g
  <2>1. IsFile(g)
    BY DEF g
  <2>2. /\ InPlace(h, s, p, g) \/ AtEnd(h, s, p, g) \/ AtRaggedEnd(h, s, p, g)
        /\ created' = "yes"
    BY <1>3, <2>1, SaveCases
  <2>3. /\ pend' \in [Handle -> Writes \cup {None}]
        /\ astray' = astray \ {s} \/ astray' = astray \cup {s}
    BY <1>3, <2>1, SaveParts
  <2>4. g.size \in Nat /\ g.size + 1 \in Nat /\ Sectors[p] \in Nat /\ 1 <= Sectors[p]
        /\ g.table[s].index \in Nat
    <3>1. g.size \in Nat /\ g.size + 1 \in Nat
      BY <2>1 DEF IsFile
    <3>2. g.table[s].index \in Nat
      BY <2>1, EntryRange
    <3>. QED
      BY <3>1, <3>2, SectorsRange
  <2>5. IsFile(file')
    <3>1. CASE InPlace(h, s, p, g)
      <4>1. IsFile(Opened(g, s, p))
        BY <2>1, <3>1, OpenedType DEF InPlace
      <4>2. PICK n \in 1..Sectors[p], part \in BOOLEAN :
              file' = WritePart(Opened(g, s, p), g.table[s].index, p, 1, n - 1, part)
        BY <3>1 DEF InPlace
      <4>3. n - 1 \in Nat /\ n - 1 <= Sectors[p] /\ 1 <= n - 1 + 1
        BY <2>4
      <4>4. Written(Opened(g, s, p), g.table[s].index, p, 1, n - 1, part, file')
        BY <4>1, <4>2, <4>3, <2>4, WriteFacts
      <4>. QED
        BY <4>4 DEF Written
    <3>2. CASE AtEnd(h, s, p, g)
      <4>1. 1 \in Nat /\ FALSE \in BOOLEAN /\ 1 <= 1 /\ 1 <= Sectors[p] + 1
            /\ Sectors[p] <= Sectors[p]
        BY <2>4
      <4>2. file' = WritePart(g, g.size + 1, p, 1, Sectors[p], FALSE)
        BY <3>2 DEF AtEnd
      <4>3. Written(g, g.size + 1, p, 1, Sectors[p], FALSE, file')
        BY <4>1, <4>2, <2>1, <2>4, WriteFacts, Zenon
      <4>. QED
        BY <4>3 DEF Written
    <3>3. CASE AtRaggedEnd(h, s, p, g)
      BY <3>3, <2>1, <2>4, AstrayType DEF AtRaggedEnd
    <3>. QED
      BY <2>2, <3>1, <3>2, <3>3
  <2>6. astray' \subseteq Slot
    BY <2>3
  <2>. QED
    BY <1>1, <2>2, <2>3, <2>5, <2>6
<1>. QED
  BY <1>2, <1>3 DEF Save

\* The file f with everything but s as in g; a is what of it is in the file while the end of
\* the save is in the buffer.
Keeps(g, s, a, f) ==
  /\ Sound(a) /\ Sound(f)
  /\ Used(f, s)
  /\ \A q \in Slot : q # s => /\ LoadChunk(f, q) = LoadChunk(g, q)
                             /\ LoadChunk(a, q) = LoadChunk(g, q)
  /\ \A q \in Slot : q # s => (Used(f, q) <=> Used(g, q)) /\ (Used(a, q) <=> Used(g, q))
  /\ Inside(g) => Inside(f)
  /\ Used(g, s) => Used(a, s)
  /\ Inside(g) /\ ~Used(g, s) => Inside(a)

\* In a some of the sectors of p are at the place of s, in f all of them.
Rewritten(g, s, p, a, f) ==
  \E n \in 1..Sectors[p], part \in BOOLEAN :
    /\ a = WritePart(Opened(g, s, p), g.table[s].index, p, 1, n - 1, part)
    /\ f = WritePart(a, g.table[s].index, p, n, Sectors[p], FALSE)

\* In a the sectors of p are at the end, in f the table has them.
Appended(g, s, p, a, f) ==
  /\ a = WritePart(g, g.size + 1, p, 1, Sectors[p], FALSE)
  /\ f = [table |-> [a.table EXCEPT ![s] = NewEntry(g.size + 1, p)],
          size |-> a.size, data |-> a.data]

\* A chunk the table knows.
LEMMA RewriteKeeps ==
  ASSUME NEW g, Sound(g), NEW s \in Slot, NEW p \in Payload, Used(g, s), FitsIndex(g, s, p),
         Movable(g, g.table[s]) \/ Sectors[p] <= g.table[s].sectors,
         NEW a, NEW f, Rewritten(g, s, p, a, f)
  PROVE  Keeps(g, s, a, f) /\ LoadChunk(f, s) = p
<1>0. PICK n \in 1..Sectors[p], part \in BOOLEAN :
        /\ a = WritePart(Opened(g, s, p), g.table[s].index, p, 1, n - 1, part)
        /\ f = WritePart(a, g.table[s].index, p, n, Sectors[p], FALSE)
  BY DEF Rewritten
<1>. DEFINE i == g.table[s].index
            m == g.table[s].sectors
            r == Opened(g, s, p)
<1>1. /\ g.size \in Nat /\ i \in Nat /\ m \in Nat /\ 1 <= i /\ i <= g.size /\ 1 <= m
      /\ m <= MaxSectors /\ MaxSectors \in Nat
      /\ Sectors[p] \in Nat /\ 1 <= Sectors[p] /\ Sectors[p] <= MaxSectors
      /\ n - 1 \in Nat /\ n - 1 <= Sectors[p] /\ n - 1 + 1 <= Sectors[p]
  BY SoundRange, SectorsRange, ConstantsAssumption
\* The place of s, with room for p.
<1>2. /\ Sound(r) /\ Used(r, s) /\ r.size >= g.size
      /\ r.table[s].index = i /\ Sectors[p] <= r.table[s].sectors
      /\ r.table[s].sectors = Sectors[p] \/ (r.table[s].sectors = m /\ r = g)
      /\ \A q \in Slot : q # s => Agree(g, r, q)
      /\ \A q \in Slot : q # s /\ Used(g, q) /\ Inside(g) =>
           r.table[q].index + r.table[q].sectors - 1 <= WholeSectors(r)
  <2>1. CASE Sectors[p] > m
    <3>. DEFINE d == Sectors[p] - m
    <3>1. d \in Nat /\ 1 <= d /\ m + d = Sectors[p]
      BY <1>1, <2>1
    <3>2. Movable(g, g.table[s]) /\ m + d <= MaxSectors
      BY <1>1, <2>1, <3>1
    <3>3. g.size + d < IndexLimit
      BY <2>1 DEF FitsIndex, Growth
    <3>4. r = ResizeSector(g, s, d)
      BY <2>1 DEF Opened
    <3>. HIDE DEF d, r
    <3>5. /\ Sound(r) /\ Used(r, s) /\ r.size >= g.size
          /\ r.table[s].index = i /\ r.table[s].sectors = m + d
          /\ \A q \in Slot : q # s => Agree(g, r, q)
          /\ \A q \in Slot : q # s /\ Used(g, q) /\ Inside(g) =>
               r.table[q].index + r.table[q].sectors - 1 <= WholeSectors(r)
      BY <3>1, <3>2, <3>3, <3>4, ResizeAgrees
    <3>. QED
      BY <3>1, <3>5, <1>1
  <2>2. CASE ~(Sectors[p] > m)
    <3>1. r = g
      BY <2>2 DEF Opened
    <3>2. \A q \in Slot : Agree(g, g, q)
      BY DEF Agree
    <3>3. \A q \in Slot : Used(g, q) /\ Inside(g) =>
            g.table[q].index + g.table[q].sectors - 1 <= WholeSectors(g)
      BY DEF Inside
    <3>. HIDE DEF r
    <3>. QED
      BY <3>1, <3>2, <3>3, <2>2, <1>1
  <2>. QED
    BY <2>1, <2>2
<1>3. f = WritePart(r, i, p, 1, Sectors[p], FALSE)
  <2>1. i <= r.size + 1 /\ IsFile(r) /\ r.size \in Nat
    <3>1. IsFile(r)
      BY <1>2 DEF Sound
    <3>2. r.size \in Nat
      BY <3>1 DEF IsFile
    <3>. HIDE DEF r
    <3>. QED
      BY <3>1, <3>2, <1>1, <1>2
  <2>2. f = WritePart(WritePart(r, i, p, 1, n - 1, part), i, p, n, Sectors[p], FALSE)
    BY <1>0, Zenon
  <2>. HIDE DEF r, i
  <2>3. WritePart(WritePart(r, i, p, 1, n - 1, part), i, p, n, Sectors[p], FALSE)
          = WritePart(r, i, p, 1, Sectors[p], FALSE)
    BY <2>1, <1>1, TwoWrites
  <2>. QED
    BY <2>2, <2>3, Zenon
<1>4. a = WritePart(r, i, p, 1, n - 1, part)
  BY <1>0, Zenon
<1>. HIDE DEF r, i, m
<1>5. /\ Sound(f) /\ f.table = r.table /\ WholeSectors(f) >= WholeSectors(r)
      /\ \A q \in Slot : q # s => Agree(r, f, q)
      /\ LoadChunk(f, s) = p /\ i + Sectors[p] - 1 <= WholeSectors(f)
  <2>. PICK no \in BOOLEAN : no = FALSE
    OBVIOUS
  <2>1. f = WritePart(r, r.table[s].index, p, 1, Sectors[p], no)
    <3>1. r.table[s].index = i
      BY <1>2
    <3>. QED
      BY <3>1, <1>3, Zenon
  <2>s. Sectors[p] <= Sectors[p] /\ ~no
    BY <1>1
  <2>2. WroteInto(r, s, p, Sectors[p], no, f)
    BY <2>1, <2>s, <1>1, <1>2, WriteAgrees
  <2>. QED
    BY <2>2, <2>s, <1>2 DEF WroteInto
<1>6. /\ Sound(a) /\ a.table = r.table
      /\ \A q \in Slot : q # s => Agree(r, a, q)
  <2>1. a = WritePart(r, r.table[s].index, p, 1, n - 1, part)
    BY <1>2, <1>4
  <2>2. WroteInto(r, s, p, n - 1, part, a)
    BY <2>1, <1>1, <1>2, WriteAgrees
  <2>. QED
    BY <2>2 DEF WroteInto
<1>7. ASSUME NEW q \in Slot, q # s
      PROVE  /\ LoadChunk(f, q) = LoadChunk(g, q) /\ LoadChunk(a, q) = LoadChunk(g, q)
             /\ Used(f, q) <=> Used(g, q)
             /\ Used(a, q) <=> Used(g, q)
  <2>1. IsFile(g) /\ IsFile(r) /\ IsFile(f) /\ IsFile(a)
    BY <1>2, <1>5, <1>6 DEF Sound
  <2>2. Agree(g, r, q) /\ Agree(r, f, q) /\ Agree(r, a, q)
    BY <1>2, <1>5, <1>6, <1>7
  <2>3. LoadChunk(r, q) = LoadChunk(g, q)
    BY <2>1, <2>2, AgreeLoads
  <2>4. LoadChunk(f, q) = LoadChunk(r, q) /\ LoadChunk(a, q) = LoadChunk(r, q)
    BY <2>1, <2>2, AgreeLoads
  <2>. QED
    BY <2>2, <2>3, <2>4 DEF Agree
<1>8. Used(f, s) /\ Used(a, s)
  BY <1>2, <1>5, <1>6 DEF Used
<1>9. ASSUME Inside(g) PROVE Inside(f)
  <2>1. ASSUME NEW q \in Slot, Used(f, q)
        PROVE  f.table[q].index + f.table[q].sectors - 1 <= WholeSectors(f)
    <3>0. /\ f.size \in Nat /\ r.size \in Nat /\ r.table[q].index \in Nat
          /\ r.table[q].sectors \in Nat
      BY <1>2, <1>5, SoundRange
    <3>1. WholeSectors(f) \in Nat /\ WholeSectors(r) \in Nat
      BY <3>0, WholeRange
    <3>e. f.table[q] = r.table[q] /\ WholeSectors(f) >= WholeSectors(r)
          /\ i + Sectors[p] - 1 <= WholeSectors(f)
      BY <1>5
    <3>2. CASE q # s
      <4>1. r.table[q].index + r.table[q].sectors - 1 <= WholeSectors(r)
        <5>1. Used(g, q)
          BY <2>1, <3>2, <1>7
        <5>. QED
          BY <5>1, <3>2, <1>2, <1>9
      <4>. QED
        BY ONLY <4>1, <3>0, <3>1, <3>e
    <3>3. CASE q = s
      <4>1. CASE r.table[s].sectors = Sectors[p]
        <5>1. r.table[s].index = i
          BY <1>2
        <5>. QED
          BY <5>1, <3>3, <3>e, <4>1, <1>1
      <4>2. CASE r.table[s].sectors = m /\ r = g
        <5>1. r.table[s].index + r.table[s].sectors - 1 <= WholeSectors(r)
          BY <1>2, <4>2, <1>9 DEF Inside
        <5>. QED
          BY ONLY <5>1, <3>0, <3>1, <3>3, <3>e
      <4>. QED
        BY <4>1, <4>2, <1>2
    <3>. QED
      BY <3>2, <3>3
  <2>. QED
    BY <2>1 DEF Inside
<1>. QED
  BY <1>5, <1>6, <1>7, <1>8, <1>9 DEF Keeps

\* What a save of a new chunk leaves of the others, whatever it wrote behind them.
LEMMA NewKeeps ==
  ASSUME NEW g, Sound(g), Inside(g), NEW s \in Slot, ~Used(g, s), NEW p \in Payload,
         NEW i \in Nat, WholeSectors(g) < i, i < IndexLimit,
         NEW a, Sound(a), Inside(a), a.table = g.table, \A q \in Slot : Agree(g, a, q),
         i + Sectors[p] - 1 <= WholeSectors(a),
         NEW f, f = [table |-> [a.table EXCEPT ![s] = NewEntry(i, p)],
                     size |-> a.size, data |-> a.data]
  PROVE  /\ Keeps(g, s, a, f)
         /\ Ragged(f) <=> Ragged(a)
         /\ (\A k \in 1..Sectors[p] : a.data[i + k - 1] = <<p, k>>) => LoadChunk(f, s) = p
<1>. DEFINE n == Sectors[p]
<1>1. n \in 1..MaxSectors /\ i + n - 1 <= WholeSectors(a)
  BY ConstantsAssumption
<1>2. f = [table |-> [a.table EXCEPT ![s] = [index |-> i, sectors |-> n]],
           size |-> a.size, data |-> a.data]
  <2>1. NewEntry(i, p) = [index |-> i, sectors |-> n]
    BY NewEntryType
  <2>. QED
    BY <2>1, Zenon
<1>. HIDE DEF n
<1>3. /\ Sound(f) /\ Inside(f) /\ Used(f, s)
      /\ Ragged(f) <=> Ragged(a)
      /\ \A q \in Slot : q # s => Agree(g, f, q)
      /\ \A r \in Payload :
           Sectors[r] = n /\ (\A k \in 1..n : a.data[i + k - 1] = <<r, k>>) => LoadChunk(f, s) = r
  BY ONLY <1>1, <1>2, Sound(g), Inside(g), s \in Slot, ~Used(g, s), Sound(a), Inside(a),
          a.table = g.table, \A q \in Slot : Agree(g, a, q), i \in Nat, WholeSectors(g) < i,
          i < IndexLimit, EntryAgrees
<1>4. ASSUME NEW q \in Slot, q # s
      PROVE  /\ LoadChunk(f, q) = LoadChunk(g, q) /\ LoadChunk(a, q) = LoadChunk(g, q)
             /\ Used(f, q) <=> Used(g, q)
             /\ Used(a, q) <=> Used(g, q)
  <2>1. IsFile(g) /\ IsFile(f) /\ IsFile(a)
    BY <1>3 DEF Sound
  <2>2. Agree(g, f, q) /\ Agree(g, a, q)
    BY <1>3, <1>4
  <2>. QED
    BY <2>1, <2>2, AgreeLoads DEF Agree
<1>5. Keeps(g, s, a, f)
  BY <1>3, <1>4 DEF Keeps
<1>. QED
  BY <1>3, <1>5 DEF n

\* A chunk the table does not know goes to the end, and astray where that is not the end
\* of a sector.
LEMMA AppendKeeps ==
  ASSUME NEW g, Sound(g), Inside(g), ~Ragged(g), NEW s \in Slot, NEW p \in Payload,
         ~Used(g, s), FitsIndex(g, s, p),
         NEW a, NEW f, Appended(g, s, p, a, f)
  PROVE  Keeps(g, s, a, f) /\ LoadChunk(f, s) = p /\ ~Ragged(f)
<1>. DEFINE i == g.size + 1
<1>1. g.size \in Nat /\ Sectors[p] \in Nat /\ 1 <= Sectors[p] /\ IndexLimit \in Nat
  BY SectorsRange, ConstantsAssumption DEF Sound, IsFile
<1>2. g.size + Sectors[p] < IndexLimit
  BY DEF FitsIndex, Growth
<1>3. /\ Sound(a) /\ Inside(a) /\ a.table = g.table
      /\ \A q \in Slot : Agree(g, a, q)
      /\ WholeSectors(a) >= g.size + Sectors[p] /\ ~Ragged(a)
      /\ \A k \in 1..Sectors[p] : a.data[g.size + k] = <<p, k>>
  <2>. PICK no \in BOOLEAN : no = FALSE
    OBVIOUS
  <2>1. a = WritePart(g, g.size + 1, p, 1, Sectors[p], no)
    BY Zenon DEF Appended
  <2>2. Sectors[p] <= Sectors[p] /\ ~no
    BY <1>1
  <2>3. WroteBehind(g, p, Sectors[p], no, a)
    BY <2>1, <2>2, <1>1, AppendAgrees
  <2>. QED
    BY <2>2, <2>3, <1>1 DEF WroteBehind
<1>4. WholeSectors(g) = g.size /\ WholeSectors(a) \in Nat
  <2>1. a.size \in Nat
    BY <1>3 DEF Sound, IsFile
  <2>2. WholeSectors(a) \in Nat
    BY <2>1, WholeRange
  <2>3. WholeSectors(g) = g.size
    BY <1>1, WholeRange
  <2>. QED
    BY <2>2, <2>3
<1>5. i \in Nat /\ WholeSectors(g) < i /\ i < IndexLimit /\ i + Sectors[p] - 1 <= WholeSectors(a)
  <2>1. WholeSectors(a) >= g.size + Sectors[p]
    BY <1>3
  <2>. QED
    BY ONLY <1>1, <1>2, <1>4, <2>1
<1>6. \A k \in 1..Sectors[p] : a.data[i + k - 1] = <<p, k>>
  <2>1. \A k \in 1..Sectors[p] : i + k - 1 = g.size + k
    BY <1>1
  <2>. QED
    BY <2>1, <1>1, <1>3
<1>7. f = [table |-> [a.table EXCEPT ![s] = NewEntry(i, p)], size |-> a.size, data |-> a.data]
  BY DEF Appended
<1>. HIDE DEF i
<1>8. /\ Keeps(g, s, a, f)
      /\ Ragged(f) <=> Ragged(a)
      /\ (\A k \in 1..Sectors[p] : a.data[i + k - 1] = <<p, k>>) => LoadChunk(f, s) = p
  BY ONLY <1>3, <1>5, <1>7, Sound(g), Inside(g), s \in Slot, ~Used(g, s), p \in Payload, NewKeeps
<1>. QED
  BY <1>3, <1>6, <1>8

LEMMA AstrayKeeps ==
  ASSUME NEW g, Sound(g), Inside(g), Ragged(g), NEW s \in Slot, NEW p \in Payload,
         ~Used(g, s), FitsIndex(g, s, p),
         NEW a, a = WriteAstray(g, Sectors[p]),
         NEW f, f = [table |-> [a.table EXCEPT ![s] = NewEntry(g.size, p)],
                     size |-> a.size, data |-> a.data]
  PROVE  Keeps(g, s, a, f)
<1>. DEFINE i == g.size
<1>1. i \in Nat /\ Sectors[p] \in Nat /\ 1 <= Sectors[p] /\ IndexLimit \in Nat
      /\ WholeSectors(g) < i
  <2>1. g.size \in Nat
    BY DEF Sound, IsFile
  <2>2. WholeSectors(g) = g.size - 1
    BY <2>1, WholeRange
  <2>. QED
    BY <2>1, <2>2, SectorsRange, ConstantsAssumption
<1>2. g.size + Sectors[p] < IndexLimit
  BY DEF FitsIndex, Growth
<1>3. /\ Sound(a) /\ Inside(a) /\ a.table = g.table
      /\ \A q \in Slot : Agree(g, a, q)
      /\ WholeSectors(a) = g.size + Sectors[p] - 1
  BY <1>1, AstrayAgrees
<1>4. i < IndexLimit /\ i + Sectors[p] - 1 <= WholeSectors(a)
  BY <1>1, <1>2, <1>3
<1>5. f = [table |-> [a.table EXCEPT ![s] = NewEntry(i, p)], size |-> a.size, data |-> a.data]
  OBVIOUS
<1>. HIDE DEF i
<1>. QED
  BY ONLY <1>1, <1>3, <1>4, <1>5, Sound(g), Inside(g), s \in Slot, ~Used(g, s), p \in Payload,
          NewKeeps

\* What a save of p makes of the file g, which has handle h's buffer: f, with what is in the
\* buffer then, stores p, or the chunk is astray.
Stored(h, s, p, g, f) ==
  /\ f = Flush(file', pend'[h])
  /\ Keeps(g, s, file', f)
  /\ s \notin astray' => LoadChunk(f, s) = p
  /\ ~Used(g, s) /\ ~Ragged(g) => ~Ragged(f) /\ astray' = astray \ {s}

LEMMA SaveStores ==
  ASSUME NEW h \in Handle, NEW s \in Slot, NEW p \in Payload,
         NEW g, Sound(g), Complete(g) \/ Inside(g), SaveWithTable(h, s, p, g),
         pend \in [Handle -> Writes \cup {None}]
  PROVE  Stored(h, s, p, g, Flush(file', pend'[h]))
<1>1. IsFile(g) /\ g.size \in Nat /\ g.size + 1 \in Nat
  BY DEF Sound, IsFile
<1>2. /\ InPlace(h, s, p, g) \/ AtEnd(h, s, p, g) \/ AtRaggedEnd(h, s, p, g)
      /\ FitsIndex(g, s, p)
  BY <1>1, SaveCases
<1>3. g.table[s].index \in Nat
  BY <1>1, EntryRange
<1>. DEFINE f == Flush(file', pend'[h])
<1>. SUFFICES Stored(h, s, p, g, f)
  OBVIOUS
<1>9. f = Flush(file', pend'[h])
  OBVIOUS
<1>4. CASE InPlace(h, s, p, g)
  <2>1. PICK n \in 1..Sectors[p], part \in BOOLEAN :
          /\ file' = WritePart(Opened(g, s, p), g.table[s].index, p, 1, n - 1, part)
          /\ pend' = [pend EXCEPT ![h] = TailWrite(s, g.table[s].index, p, n)]
    BY <1>4 DEF InPlace
  <2>2. pend'[h] = TailWrite(s, g.table[s].index, p, n)
    BY <2>1
  <2>3. f = WritePart(file', g.table[s].index, p, n, Sectors[p], FALSE)
    <3>1. \A x : Flush(x, TailWrite(s, g.table[s].index, p, n))
                  = WritePart(x, g.table[s].index, p, n, Sectors[p], FALSE)
      BY <1>3, TailIsWrite
    <3>. QED
      BY <2>2, <3>1, Zenon
  <2>. HIDE DEF f
  <2>4. Used(g, s) /\ (Movable(g, g.table[s]) \/ Sectors[p] <= g.table[s].sectors)
    BY <1>4 DEF InPlace
  <2>5. Keeps(g, s, file', f) /\ LoadChunk(f, s) = p
    <3>1. Rewritten(g, s, p, file', f)
      BY <2>1, <2>3, Zenon DEF Rewritten
    <3>. QED
      BY <3>1, <2>4, <1>2, RewriteKeeps
  <2>. QED
    BY <2>4, <2>5, <1>9, Zenon DEF Stored
<1>5. ASSUME NEW i \in Nat, pend' = [pend EXCEPT ![h] = EntryWrite(s, NewEntry(i, p))]
      PROVE  f = [table |-> [file'.table EXCEPT ![s] = NewEntry(i, p)],
                  size |-> file'.size, data |-> file'.data]
  <2>1. pend'[h] = EntryWrite(s, NewEntry(i, p))
    BY <1>5
  <2>2. NewEntry(i, p) \in Entry
    BY <1>5, NewEntryType
  <2>3. \A x : Flush(x, EntryWrite(s, NewEntry(i, p)))
                = [table |-> [x.table EXCEPT ![s] = NewEntry(i, p)], size |-> x.size, data |-> x.data]
    BY <2>2, EntryIsWrite
  <2>. QED
    BY <2>1, <2>3, Zenon
<1>6. ~Used(g, s) => Inside(g)
  BY DEF Complete
<1>. HIDE DEF f
<1>7. CASE AtEnd(h, s, p, g)
  <2>1. /\ ~Used(g, s) /\ ~Ragged(g)
        /\ file' = WritePart(g, g.size + 1, p, 1, Sectors[p], FALSE)
        /\ pend' = [pend EXCEPT ![h] = EntryWrite(s, NewEntry(g.size + 1, p))]
        /\ astray' = astray \ {s}
    BY <1>7 DEF AtEnd
  <2>2. f = [table |-> [file'.table EXCEPT ![s] = NewEntry(g.size + 1, p)],
             size |-> file'.size, data |-> file'.data]
    BY <2>1, <1>1, <1>5
  <2>3. Keeps(g, s, file', f) /\ LoadChunk(f, s) = p /\ ~Ragged(f)
    <3>1. Appended(g, s, p, file', f)
      BY <2>1, <2>2, Zenon DEF Appended
    <3>2. ~Used(g, s) /\ ~Ragged(g) /\ Inside(g) /\ FitsIndex(g, s, p)
      BY <2>1, <1>2, <1>6
    <3>. QED
      BY <3>1, <3>2, AppendKeeps
  <2>. QED
    BY <2>1, <2>3, <1>9, Zenon DEF Stored
<1>8. CASE AtRaggedEnd(h, s, p, g)
  <2>1. /\ ~Used(g, s) /\ Ragged(g)
        /\ file' = WriteAstray(g, Sectors[p])
        /\ pend' = [pend EXCEPT ![h] = EntryWrite(s, NewEntry(g.size, p))]
        /\ s \in astray'
    BY <1>8 DEF AtRaggedEnd
  <2>2. f = [table |-> [file'.table EXCEPT ![s] = NewEntry(g.size, p)],
             size |-> file'.size, data |-> file'.data]
    BY <2>1, <1>1, <1>5
  <2>3. Keeps(g, s, file', f)
    BY <2>1, <2>2, <1>2, <1>6, AstrayKeeps
  <2>. QED
    BY <2>1, <2>3, <1>9, Zenon DEF Stored
<1>. QED
  BY <1>2, <1>4, <1>7, <1>8

-----------------------------------------------------------------------------
(* Type correctness, for any number of kills.                              *)

\* A chunk that has changed is one of a running server, which has not deleted it yet.
TypeInv ==
  /\ SessionTypeOK
  /\ \A s \in Slot : changed[s] => phase = "running" \/ (phase = "stopping" /\ s \in todo)

LEMMA FlushType ==
  ASSUME NEW f, IsFile(f), NEW w \in Writes \cup {None}
  PROVE  IsFile(Flush(f, w))
<1>1. CASE w = None
  BY <1>1 DEF Flush
<1>2. CASE w \in [kind : {"entry"}, slot : Slot, entry : Entry]
  <2>1. w # None
    BY <1>2, SessionAssumption DEF Writes
  <2>2. w.kind = "entry" /\ w.slot \in Slot /\ w.entry \in Entry
    BY <1>2
  <2>3. Flush(f, w) = [table |-> [f.table EXCEPT ![w.slot] = w.entry],
                       size |-> f.size, data |-> f.data]
    BY <2>1, <2>2 DEF Flush
  <2>4. f.table \in [Slot -> Entry] /\ f.size \in Nat /\ f.data \in [1..f.size -> Sector]
    BY DEF IsFile
  <2>. DEFINE d == Flush(f, w)
  <2>5. /\ d.table = [f.table EXCEPT ![w.slot] = w.entry] /\ d.size = f.size /\ d.data = f.data
        /\ d = [table |-> d.table, size |-> d.size, data |-> d.data]
    BY <2>3
  <2>. HIDE DEF d
  <2>6. d.table \in [Slot -> Entry]
    BY <2>2, <2>4, <2>5
  <2>7. IsFile(d)
    BY <2>4, <2>5, <2>6 DEF IsFile
  <2>. QED
    BY <2>7 DEF d
<1>3. CASE w \in {v \in [kind : {"tail"}, slot : Slot, pos : Nat, payload : Payload,
                         from : 1..MaxSectors] : v.from <= Sectors[v.payload]}
  <2>1. w # None
    BY <1>3, SessionAssumption DEF Writes
  <2>2. w.kind = "tail" /\ w.pos \in Nat /\ w.payload \in Payload /\ w.from \in 1..MaxSectors
    BY <1>3
  <2>. PICK no \in BOOLEAN : no = FALSE
    OBVIOUS
  <2>3. Flush(f, w) = WritePart(f, w.pos, w.payload, w.from, Sectors[w.payload], no)
    BY <2>1, <2>2 DEF Flush
  <2>4. /\ Sectors[w.payload] \in Nat /\ w.from \in Nat /\ 1 <= w.from
        /\ Sectors[w.payload] <= Sectors[w.payload] /\ w.from <= Sectors[w.payload] + 1
    <3>1. /\ Sectors[w.payload] \in Nat /\ w.from \in Nat /\ 1 <= w.from
          /\ w.from <= Sectors[w.payload]
      BY <1>3, <2>2, SectorsRange, ConstantsAssumption
    <3>. QED
      BY <3>1
  <2>. DEFINE d == Flush(f, w)
  <2>. HIDE DEF d
  <2>5. Written(f, w.pos, w.payload, w.from, Sectors[w.payload], no, d)
    BY <2>2, <2>3, <2>4, WriteFacts DEF d
  <2>. QED
    BY <2>5 DEF Written, d
<1>. QED
  BY <1>1, <1>2, <1>3 DEF Writes

\* What SessionTypeOK says, part by part.
LEMMA TypeParts ==
  ASSUME TypeInv
  PROVE  /\ IsFile(file)
         /\ mem \in [Slot -> Payload \cup {Absent, Torn}] /\ changed \in [Slot -> BOOLEAN]
         /\ phase \in {"off", "generating", "running", "stopping"}
         /\ info \in BOOLEAN /\ fresh \in BOOLEAN /\ todo \subseteq Slot /\ kills \in 0..MaxKills
         /\ pend \in [Handle -> Writes \cup {None}]
         /\ phase = "off" => \A h \in Handle : pend[h] = None
         /\ created \in {"no", "empty", "yes"} /\ astray \subseteq Slot
         /\ saved \in [Slot -> Payload \cup {Absent, Torn}]
         /\ \A s \in Slot : changed[s] => mem[s] \in Payload
         /\ \A s \in Slot : changed[s] => phase = "running" \/ (phase = "stopping" /\ s \in todo)
         /\ \A h \in Handle : IsFile(Flush(file, pend[h]))
<1>1. IsFile(file) /\ pend \in [Handle -> Writes \cup {None}]
  BY DEF TypeInv, SessionTypeOK
<1>2. \A h \in Handle : IsFile(Flush(file, pend[h]))
  BY <1>1, FlushType
<1>. QED
  BY <1>1, <1>2 DEF TypeInv, SessionTypeOK

\* The server loads a chunk for every slot, whatever it decodes.
LEMMA LoadedType ==
  ASSUME IsFile(file)
  PROVE  Loaded \in [Slot -> Payload \cup {Absent, Torn}]
<1>1. ASSUME NEW s \in Slot
      PROVE  (IF created = "empty" THEN Torn
              ELSE IF Used(file, s) THEN LoadChunk(file, s) ELSE Blank) \in Payload \cup {Absent, Torn}
  BY LoadRange, ConstantsAssumption
<1>. QED
  BY <1>1 DEF Loaded

\* The process ends and leaves a file.
LEMMA LoseType ==
  ASSUME TypeInv, NEW f, IsFile(f), NEW hit, Lose(f, hit), created' \in {"no", "empty", "yes"}
  PROVE  TypeInv'
<1>1. /\ kills \in 0..MaxKills /\ MaxKills \in Nat /\ info \in BOOLEAN /\ fresh \in BOOLEAN
      /\ saved \in [Slot -> Payload \cup {Absent, Torn}] /\ astray \subseteq Slot
  BY TypeParts, SessionAssumption
<1>2. /\ kills < MaxKills /\ kills' = kills + 1 /\ file' = f /\ pend' = [h \in Handle |-> None]
      /\ saved' = [s \in Slot |-> IF s \in hit THEN LoadChunk(f, s) ELSE saved[s]]
      /\ mem' = [s \in Slot |-> Absent] /\ changed' = [s \in Slot |-> FALSE]
      /\ phase' = "off" /\ todo' = {} /\ info' = info /\ fresh' = fresh
      /\ astray' = astray \ hit
  BY DEF Lose
<1>3. \A s \in Slot : LoadChunk(f, s) \in Payload \cup {Absent, Torn}
  BY LoadRange
<1>4. saved' \in [Slot -> Payload \cup {Absent, Torn}]
  BY <1>1, <1>2, <1>3
<1>5. kills' \in 0..MaxKills
  BY <1>1, <1>2
<1>6. /\ pend' \in [Handle -> Writes \cup {None}] /\ \A h \in Handle : pend'[h] = None
      /\ mem' \in [Slot -> Payload \cup {Absent, Torn}] /\ changed' \in [Slot -> BOOLEAN]
      /\ astray' \subseteq Slot /\ \A s \in Slot : ~changed'[s]
  BY <1>1, <1>2
<1>7. IsFile(file')
  BY <1>2
<1>8. SessionTypeOK'
  BY <1>1, <1>2, <1>4, <1>5, <1>6, <1>7 DEF SessionTypeOK
<1>. QED
  BY <1>6, <1>8 DEF TypeInv

\* The same inside a save: what was written of it is there.
LEMMA KillInSaveType ==
  ASSUME TypeInv, NEW h \in Handle, NEW s \in Slot, NEW p \in Payload, KillInSave(h, s, p)
  PROVE  TypeInv'
<1>. DEFINE g == Flush(file, pend[h])
<1>1. IsFile(g) /\ IsFile(file)
  BY TypeParts
<1>2. /\ created' = "yes" \/ created' = "empty"
      /\ KillInAppend(h, s, p, g) \/ KillInResize(h, s, p, g) \/ Lose(file, {})
  BY DEF KillInSave
<1>. HIDE DEF g
<1>3. \A f, hit : IsFile(f) /\ Lose(f, hit) => TypeInv'
  BY <1>2, LoseType
<1>4. CASE KillInAppend(h, s, p, g)
  <2>1. CASE Lose(g, Buffered(Handle \ {h}))
    BY <1>1, <1>3, <2>1
  <2>2. CASE ~Lose(g, Buffered(Handle \ {h}))
    <3>1. PICK n \in 0..(Sectors[p] - 1) :
            Lose(IF Ragged(g) THEN WriteAstray(g, n) ELSE WritePart(g, g.size + 1, p, 1, n, TRUE),
                 Buffered(Handle \ {h}))
      BY <1>4, <2>2 DEF KillInAppend
    <3>2. n \in Nat /\ n <= Sectors[p] /\ Sectors[p] \in Nat /\ g.size + 1 \in Nat /\ 1 <= n + 1
      <4>1. Sectors[p] \in Nat
        BY SectorsRange
      <4>2. g.size \in Nat
        BY <1>1 DEF IsFile
      <4>. QED
        BY <4>1, <4>2
    <3>3. CASE Ragged(g)
      <4>1. IsFile(WriteAstray(g, n))
        BY <1>1, <3>2, AstrayType
      <4>. QED
        BY <3>1, <3>3, <4>1, <1>3
    <3>4. CASE ~Ragged(g)
      <4>. PICK yes \in BOOLEAN : yes = TRUE
        OBVIOUS
      <4>. DEFINE f == WritePart(g, g.size + 1, p, 1, n, yes)
      <4>1. Written(g, g.size + 1, p, 1, n, yes, f)
        <5>1. 1 \in Nat /\ 1 <= 1 /\ f = WritePart(g, g.size + 1, p, 1, n, yes)
          OBVIOUS
        <5>. HIDE DEF f
        <5>. QED
          BY <5>1, <1>1, <3>2, WriteFacts, Zenon
      <4>2. Lose(f, Buffered(Handle \ {h}))
        BY <3>1, <3>4, Zenon
      <4>. HIDE DEF f
      <4>3. IsFile(f)
        BY <4>1 DEF Written
      <4>. QED
        BY <4>2, <4>3, <1>3
    <3>. QED
      BY <3>3, <3>4
  <2>. QED
    BY <2>1, <2>2
<1>5. CASE KillInResize(h, s, p, g)
  <2>. DEFINE e == g.table[s]
              d == Sectors[p] - e.sectors
  <2>1. /\ Used(g, s) /\ d > 0 /\ Movable(g, e)
        /\ \/ Lose(g, Buffered(Handle \ {h}))
           \/ \E m \in 0..(g.size - e.index - e.sectors + 1) :
                Lose(PartlyMoved(g, s, d, m), Buffered(Handle \ {h}) \cup Behind(g, s))
    BY <1>5 DEF KillInResize
  <2>2. CASE Lose(g, Buffered(Handle \ {h}))
    BY <1>1, <1>3, <2>2
  <2>3. CASE ~Lose(g, Buffered(Handle \ {h}))
    <3>1. PICK m \in 0..(g.size - e.index - e.sectors + 1) :
            Lose(PartlyMoved(g, s, d, m), Buffered(Handle \ {h}) \cup Behind(g, s))
      BY <2>1, <2>3
    <3>2. /\ g.size \in Nat /\ e.index \in Nat /\ e.sectors \in Nat /\ Sectors[p] \in Nat
      BY <1>1, SectorsRange, EntryRange
    <3>3. m \in Nat /\ e.index + e.sectors + m <= g.size + 1 /\ d \in Nat /\ 1 <= d
      BY <3>2, <2>1
    <3>. HIDE DEF d
    <3>4. IsFile(PartlyMoved(g, s, d, m))
      BY <3>3, <1>1, <2>1, MovedFacts
    <3>. QED
      BY <3>1, <3>4, <1>3
  <2>. QED
    BY <2>2, <2>3
<1>6. CASE Lose(file, {})
  BY <1>1, <1>3, <1>6
<1>. QED
  BY <1>2, <1>4, <1>5, <1>6

\* No step leaves the types.
LEMMA NextType == TypeInv /\ [SessionNext]_session => TypeInv'
<1>. SUFFICES ASSUME TypeInv, [SessionNext]_session PROVE TypeInv'
  OBVIOUS
<1>0. /\ IsFile(file)
      /\ mem \in [Slot -> Payload \cup {Absent, Torn}] /\ changed \in [Slot -> BOOLEAN]
      /\ phase \in {"off", "generating", "running", "stopping"}
      /\ info \in BOOLEAN /\ fresh \in BOOLEAN /\ todo \subseteq Slot /\ kills \in 0..MaxKills
      /\ pend \in [Handle -> Writes \cup {None}]
      /\ phase = "off" => \A h \in Handle : pend[h] = None
      /\ created \in {"no", "empty", "yes"} /\ astray \subseteq Slot
      /\ saved \in [Slot -> Payload \cup {Absent, Torn}]
      /\ \A s \in Slot : changed[s] => mem[s] \in Payload
      /\ \A s \in Slot : changed[s] => phase = "running" \/ (phase = "stopping" /\ s \in todo)
  BY TypeParts
<1>1. ASSUME Start PROVE TypeInv'
  <2>1. CASE info
    <3>1. /\ phase = "off" /\ phase' = "running" /\ mem' = Loaded /\ fresh' = ~info
          /\ UNCHANGED <<file, changed, info, todo, pend, created, saved, astray, kills>>
      BY <1>1, <2>1 DEF Start
    <3>2. mem' \in [Slot -> Payload \cup {Absent, Torn}] /\ \A s \in Slot : ~changed[s]
      BY <3>1, <1>0, LoadedType
    <3>. QED
      BY <1>0, <3>1, <3>2 DEF TypeInv, SessionTypeOK
  <2>2. CASE ~info
    <3>1. /\ phase = "off" /\ phase' = "generating" /\ todo' = Slot /\ fresh' = ~info
          /\ UNCHANGED <<file, mem, changed, info, pend, created, saved, astray, kills>>
      BY <1>1, <2>2 DEF Start
    <3>2. \A s \in Slot : ~changed[s]
      BY <3>1, <1>0
    <3>. QED
      BY <1>0, <3>1, <3>2 DEF TypeInv, SessionTypeOK
  <2>. QED
    BY <2>1, <2>2
<1>2. ASSUME ServeGenerated PROVE TypeInv'
  <2>1. /\ phase = "generating" /\ phase' = "running" /\ mem' = Loaded /\ info' = TRUE
        /\ UNCHANGED <<file, changed, fresh, todo, pend, created, saved, astray, kills>>
    BY <1>2 DEF ServeGenerated
  <2>2. mem' \in [Slot -> Payload \cup {Absent, Torn}] /\ \A s \in Slot : ~changed[s]
    BY <2>1, <1>0, LoadedType
  <2>. QED
    BY <1>0, <2>1, <2>2 DEF TypeInv, SessionTypeOK
<1>3. ASSUME Stop PROVE TypeInv'
  <2>1. /\ phase' = "stopping" /\ todo' = Slot
        /\ UNCHANGED <<file, mem, changed, info, fresh, pend, created, saved, astray, kills>>
    BY <1>3 DEF Stop
  <2>. QED
    BY <1>0, <2>1 DEF TypeInv, SessionTypeOK
<1>4. ASSUME Exit PROVE TypeInv'
  <2>1. /\ file' = Flush(Flush(file, pend["server"]), pend["generator"])
        /\ pend' = [h \in Handle |-> None] /\ phase = "stopping" /\ phase' = "off" /\ todo = {}
        /\ UNCHANGED <<mem, changed, info, fresh, todo, created, saved, astray, kills>>
    BY <1>4 DEF Exit
  <2>5. \A s \in Slot : ~changed[s]
    BY <2>1, <1>0
  <2>2. pend["server"] \in Writes \cup {None} /\ pend["generator"] \in Writes \cup {None}
    BY <1>0 DEF Handle
  <2>3. IsFile(file')
    <3>1. IsFile(Flush(file, pend["server"]))
      BY <1>0, <2>2, FlushType
    <3>. QED
      BY <2>1, <2>2, <3>1, FlushType
  <2>4. pend' \in [Handle -> Writes \cup {None}] /\ \A h \in Handle : pend'[h] = None
    BY <2>1
  <2>. QED
    BY <1>0, <2>1, <2>3, <2>4, <2>5 DEF TypeInv, SessionTypeOK
<1>5. ASSUME ExitTerminates \/ Kill PROVE TypeInv'
  <2>1. Lose(file, Buffered(Handle)) /\ created' = created
    BY <1>5 DEF ExitTerminates, Kill
  <2>. QED
    BY <2>1, <1>0, LoseType
<1>6. ASSUME NEW s \in Slot, DeleteChunk(s) PROVE TypeInv'
  <2>1. /\ phase = "stopping" /\ todo' = todo \ {s}
        /\ mem' = [mem EXCEPT ![s] = Absent] /\ changed' = [changed EXCEPT ![s] = FALSE]
        /\ UNCHANGED <<phase, info, fresh, kills>>
    BY <1>6 DEF DeleteChunk
  <2>2. /\ IsFile(file') /\ pend' \in [Handle -> Writes \cup {None}]
        /\ created' \in {"no", "empty", "yes"} /\ astray' \subseteq Slot
        /\ saved' \in [Slot -> Payload \cup {Absent, Torn}]
    <3>1. CASE changed[s]
      <4>1. Save("server", s, mem[s]) /\ mem[s] \in Payload /\ "server" \in Handle
        BY <1>0, <1>6, <3>1 DEF DeleteChunk, Handle
      <4>2. IsFile(Flush(file, pend["server"]))
        BY <4>1, TypeParts
      <4>. QED
        BY <1>0, <4>1, <4>2, SaveType
    <3>2. CASE ~changed[s]
      BY <1>0, <1>6, <3>2 DEF DeleteChunk
    <3>. QED
      BY <3>1, <3>2
  <2>3. /\ mem' \in [Slot -> Payload \cup {Absent, Torn}] /\ changed' \in [Slot -> BOOLEAN]
        /\ \A q \in Slot : changed'[q] => changed[q] /\ q # s /\ mem'[q] = mem[q]
    BY <1>0, <2>1
  <2>4. \A q \in Slot : changed'[q] => mem'[q] \in Payload /\ q \in todo'
    BY <1>0, <2>1, <2>3
  <2>. QED
    BY <1>0, <2>1, <2>2, <2>3, <2>4 DEF TypeInv, SessionTypeOK
<1>7. ASSUME NEW s \in Slot, KillDeleting(s) PROVE TypeInv'
  <2>1. KillInSave("server", s, mem[s]) /\ mem[s] \in Payload /\ "server" \in Handle
    BY <1>0, <1>7 DEF KillDeleting, Handle
  <2>. QED
    BY <2>1, KillInSaveType
<1>8. ASSUME NEW s \in Slot, NEW p \in Payload, GenerateChunk(s, p) PROVE TypeInv'
  <2>1. /\ phase = "generating" /\ todo' = todo \ {s} /\ Save("generator", s, p)
        /\ UNCHANGED <<mem, changed, phase, info, fresh, kills>>
    BY <1>8 DEF GenerateChunk
  <2>2. "generator" \in Handle /\ IsFile(Flush(file, pend["generator"]))
    BY TypeParts DEF Handle
  <2>3. /\ IsFile(file') /\ pend' \in [Handle -> Writes \cup {None}]
        /\ created' \in {"no", "empty", "yes"} /\ astray' \subseteq Slot
        /\ saved' \in [Slot -> Payload \cup {Absent, Torn}]
    BY <1>0, <2>1, <2>2, SaveType
  <2>4. (\A q \in Slot : ~changed[q]) /\ todo' \subseteq Slot
    BY <1>0, <2>1
  <2>. QED
    BY <1>0, <2>1, <2>3, <2>4 DEF TypeInv, SessionTypeOK
<1>9. ASSUME NEW s \in Slot, NEW p \in Payload, KillGenerating(s, p) PROVE TypeInv'
  BY <1>9, KillInSaveType DEF KillGenerating, Handle
<1>10. ASSUME NEW s \in Slot, NEW p \in Payload, SetBlock(s, p) PROVE TypeInv'
  <2>1. /\ mem[s] # Absent /\ mem' = [mem EXCEPT ![s] = p]
        /\ changed' = [changed EXCEPT ![s] = TRUE] /\ phase = "running"
        /\ UNCHANGED <<file, phase, info, fresh, todo, pend, created, saved, astray, kills>>
    BY <1>10 DEF SetBlock, Edit
  <2>2. /\ mem' \in [Slot -> Payload \cup {Absent, Torn}] /\ changed' \in [Slot -> BOOLEAN]
        /\ \A q \in Slot : changed'[q] => mem'[q] \in Payload
    BY <1>0, <2>1
  <2>. QED
    BY <1>0, <2>1, <2>2 DEF TypeInv, SessionTypeOK
<1>11. CASE UNCHANGED session
  <2>1. /\ file' = file /\ mem' = mem /\ changed' = changed /\ phase' = phase /\ info' = info
        /\ fresh' = fresh /\ todo' = todo /\ pend' = pend /\ created' = created
        /\ saved' = saved /\ astray' = astray /\ kills' = kills
    BY <1>11 DEF session
  <2>. QED
    BY <1>0, <2>1 DEF TypeInv, SessionTypeOK
<1>. QED
  BY <1>1, <1>2, <1>3, <1>4, <1>5, <1>6, <1>7, <1>8, <1>9, <1>10, <1>11 DEF SessionNext

LEMMA InitType == SessionInit => TypeInv
<1>. SUFFICES ASSUME SessionInit PROVE TypeInv
  OBVIOUS
<1>1. IsFile(file)
  BY InitIInv DEF SessionInit, IInv, TypeOK
<1>2. /\ mem = [s \in Slot |-> Absent] /\ changed = [s \in Slot |-> FALSE]
      /\ phase = "off" /\ info = FALSE /\ fresh = FALSE /\ todo = {}
      /\ pend = [h \in Handle |-> None] /\ saved = [s \in Slot |-> Absent] /\ kills = 0
      /\ created = "no" /\ astray = {}
  BY DEF SessionInit, Init
<1>3. /\ mem \in [Slot -> Payload \cup {Absent, Torn}] /\ changed \in [Slot -> BOOLEAN]
      /\ \A s \in Slot : ~changed[s]
  BY <1>2
<1>4. /\ pend \in [Handle -> Writes \cup {None}] /\ \A h \in Handle : pend[h] = None
      /\ saved \in [Slot -> Payload \cup {Absent, Torn}]
  BY <1>2
<1>5. info \in BOOLEAN /\ fresh \in BOOLEAN /\ todo \subseteq Slot /\ kills \in 0..MaxKills
  <2>1. info \in BOOLEAN /\ fresh \in BOOLEAN
    BY <1>2, Zenon
  <2>2. todo \subseteq Slot /\ kills \in 0..MaxKills
    BY <1>2, SessionAssumption
  <2>. QED
    BY <2>1, <2>2
<1>6. SessionTypeOK
  BY <1>1, <1>2, <1>3, <1>4, <1>5 DEF SessionTypeOK
<1>. QED
  BY <1>3, <1>6 DEF TypeInv

(* Through any number of sessions and kills, inside a save too, the region *)
(* file keeps its form (entries within their field widths and a sector for *)
(* every place), no buffer of a FILE outlives its process, and what        *)
(* saveChunk is given for a changed chunk is a chunk's blocks and never    *)
(* what decoding a torn one gave.                                          *)
THEOREM SessionTypeCorrect == SessionSpec => []SessionTypeOK
<1>1. TypeInv => SessionTypeOK
  BY DEF TypeInv
<1>. QED
  BY <1>1, InitType, NextType, PTL DEF SessionSpec

-----------------------------------------------------------------------------
(* What is stored, while no more than one run ends without flushing and a  *)
(* fresh world is not edited.                                              *)

\* The file as an exit would leave it.
Flushed == Flush(Flush(file, pend["server"]), pend["generator"])

\* Only one handle at a time has something to lose: the generator's in the run that
\* generates the world, the server's in the later ones.
ControlInv ==
  /\ phase = "generating" => fresh /\ ~info
  /\ phase \in {"running", "stopping"} => info
  /\ fresh => pend["server"] = None /\ \A s \in Slot : ~changed[s]
  /\ ~fresh => pend["generator"] = None

\* A buffer holds bytes of a file with a table, and a world that is generated has a file.  In
\* one without a table everything is astray that was saved.
FileInv ==
  /\ created # "yes" => \A h \in Handle : pend[h] = None
  /\ \A s \in Slot : info \/ (phase = "generating" /\ s \notin todo) => created # "no"
  /\ created = "empty" =>
       \A s \in Slot : info \/ (phase = "generating" /\ s \notin todo) => s \in astray

AtRisk == \A s \in Slot \ (Buffered(Handle) \cup astray) : LoadChunk(file, s) = saved[s]

\* The file is sound with the buffers and without them, and with them it has what was saved.
\* It can be appended to only while every extent ends in it.
StoreInv ==
  /\ Sound(file) /\ Sound(Flushed)
  /\ Complete(Flushed) \/ Inside(Flushed)
  /\ \A s \in Slot : s \notin astray => LoadChunk(Flushed, s) = saved[s]
  /\ AtRisk

\* Before the first kill the generator only appends, at the end of a whole sector, and the
\* server never does: a kill leaves a file whose extents all end in it or one that nothing
\* will be appended to.
UnbrokenInv ==
  kills = 0 =>
    /\ astray = {} /\ created # "empty"
    /\ Inside(Flushed)
    /\ fresh => Inside(file)
    /\ phase = "off" /\ ~info => ~Ragged(file) /\ \A s \in Slot : ~Used(file, s)
    /\ phase = "generating" =>
         ~Ragged(Flushed) /\ \A s \in Slot : Used(Flushed, s) <=> s \notin todo
    /\ info => Complete(Flushed)
    /\ info /\ ~(fresh /\ phase # "off") => Complete(file)

SessionInv ==
  TypeInv /\ ControlInv /\ FileInv /\ StoreInv /\ UnbrokenInv /\ UnchangedMatchesSaved

\* With an empty buffer there is nothing to flush.
LEMMA FlushNone == \A f : Flush(f, None) = f
BY DEF Flush

LEMMA FlushedBy ==
  /\ pend["generator"] = None => Flushed = Flush(file, pend["server"])
  /\ pend["server"] = None => Flushed = Flush(file, pend["generator"])
BY FlushNone DEF Flushed

\* The same after a step.
LEMMA FlushedByNext ==
  /\ pend'["generator"] = None => Flushed' = Flush(file', pend'["server"])
  /\ pend'["server"] = None => Flushed' = Flush(file', pend'["generator"])
BY FlushNone DEF Flushed

\* A start finds no buffers.
LEMMA OffFlushed ==
  ASSUME TypeInv, phase = "off"
  PROVE  pend["server"] = None /\ pend["generator"] = None /\ Flushed = file
<1>1. pend["server"] = None /\ pend["generator"] = None
  BY TypeParts DEF Handle
<1>. QED
  BY <1>1, FlushedBy, FlushNone

\* Nothing is at risk with empty buffers.
LEMMA NoneBuffered ==
  ASSUME \A h \in Handle : pend[h] = None
  PROVE  Buffered(Handle) = {}
BY DEF Buffered

\* What a save through the only handle with a buffer changes, where the file has a table:
\* s is stored in it, and nothing goes astray that has a place or is put at a whole sector.
Kept(s) ==
  /\ Keeps(Flushed, s, file', Flushed')
  /\ created' = "yes"
  /\ Used(Flushed, s) \/ ~Ragged(Flushed) => astray' = astray \ {s}
  /\ ~Used(Flushed, s) /\ ~Ragged(Flushed) => ~Ragged(Flushed')

LEMMA SaveKeeps ==
  ASSUME TypeInv, FileInv, StoreInv, NEW h \in Handle, NEW s \in Slot, NEW p \in Payload,
         Save(h, s, p), \A i \in Handle : i # h => pend[i] = None
  PROVE  /\ created # "empty" => Kept(s)
         /\ created = "empty" => s \in astray' /\ astray \subseteq astray' /\ UNCHANGED <<pend, created>>
         /\ \A i \in Handle : i # h => pend'[i] = None
         /\ StoreInv'
<1>1. /\ pend \in [Handle -> Writes \cup {None}] /\ saved \in [Slot -> Payload \cup {Absent, Torn}]
      /\ IsFile(Flush(file, pend[h]))
  BY TypeParts
<1>2. saved' = [saved EXCEPT ![s] = p]
  BY DEF Save
<1>3. /\ Sound(file) /\ Sound(Flushed) /\ (Complete(Flushed) \/ Inside(Flushed)) /\ AtRisk
      /\ \A q \in Slot : q \notin astray => LoadChunk(Flushed, q) = saved[q]
  BY DEF StoreInv
<1>4. saved'[s] = p /\ \A q \in Slot : q # s => saved'[q] = saved[q]
  BY <1>1, <1>2
<1>5. Flushed = Flush(file, pend[h])
  <2>1. CASE h = "server"
    BY <2>1, FlushedBy DEF Handle
  <2>2. CASE h = "generator"
    BY <2>2, FlushedBy DEF Handle
  <2>. QED
    BY <2>1, <2>2 DEF Handle
<1>6. CASE SaveWithoutTable(s)
  <2>1. created = "empty" /\ astray' = astray \cup {s} /\ UNCHANGED <<file, pend, created>>
    BY <1>6 DEF SaveWithoutTable
  <2>2. Flushed' = Flushed /\ Buffered(Handle)' = Buffered(Handle)
    BY <2>1 DEF Flushed, Buffered
  <2>3. \A q \in Slot : q \notin astray' => LoadChunk(Flushed', q) = saved'[q]
    BY <2>1, <2>2, <1>3, <1>4
  <2>4. AtRisk'
    BY <2>1, <2>2, <1>3, <1>4 DEF AtRisk
  <2>5. StoreInv'
    BY <2>1, <2>2, <2>3, <2>4, <1>3 DEF StoreInv
  <2>. QED
    BY <2>1, <2>5
<1>7. CASE SaveWithTable(h, s, p, Flushed)
  <2>1. IsFile(Flushed)
    BY <1>3 DEF Sound
  <2>2. created # "empty" /\ created' = "yes"
    BY <1>7, <2>1, SaveCases
  <2>3. /\ \A i \in Handle : i # h => pend'[i] = pend[i]
        /\ pend'[h] # None /\ pend'[h].slot = s
        /\ astray' = astray \ {s} \/ astray' = astray \cup {s}
    BY <1>1, <1>7, <2>1, SaveParts
  <2>4. \A i \in Handle : i # h => pend'[i] = None
    BY <2>3
  <2>5. Flushed' = Flush(file', pend'[h])
    <3>1. CASE h = "server"
      BY <3>1, <2>4, FlushedByNext DEF Handle
    <3>2. CASE h = "generator"
      BY <3>2, <2>4, FlushedByNext DEF Handle
    <3>. QED
      BY <3>1, <3>2 DEF Handle
  <2>6. /\ Keeps(Flushed, s, file', Flushed')
        /\ s \notin astray' => LoadChunk(Flushed', s) = p
        /\ ~Used(Flushed, s) /\ ~Ragged(Flushed) => ~Ragged(Flushed') /\ astray' = astray \ {s}
    <3>1. Sound(Flushed) /\ (Complete(Flushed) \/ Inside(Flushed))
      BY <1>3
    <3>2. Stored(h, s, p, Flushed, Flush(file', pend'[h]))
      BY <1>1, <1>7, <3>1, SaveStores
    <3>3. Stored(h, s, p, Flushed, Flushed')
      BY <2>5, <3>2, Zenon
    <3>. QED
      BY <3>3 DEF Stored
  <2>7. Used(Flushed, s) => astray' = astray \ {s}
    BY <1>7, <2>1, SaveCases DEF InPlace, AtEnd, AtRaggedEnd
  <2>8. Kept(s)
    BY <2>2, <2>6, <2>7 DEF Kept
  <2>9. \A q \in Slot : q # s => /\ LoadChunk(Flushed', q) = LoadChunk(Flushed, q)
                                 /\ LoadChunk(file', q) = LoadChunk(Flushed, q)
    BY <2>6, Zenon DEF Keeps
  <2>10. \A q \in Slot : q # s /\ q \notin astray' => q \notin astray
    BY <2>3
  <2>11. \A q \in Slot : q \notin astray' => LoadChunk(Flushed', q) = saved'[q]
    BY <2>6, <2>9, <2>10, <1>3, <1>4
  <2>12. Complete(Flushed') \/ Inside(Flushed')
    <3>1. ASSUME Complete(Flushed) PROVE Complete(Flushed')
      <4>1. \A q \in Slot : q # s => (Used(Flushed', q) <=> Used(Flushed, q))
        BY <2>6, Zenon DEF Keeps
      <4>2. Used(Flushed', s)
        BY <2>6 DEF Keeps
      <4>. QED
        BY <3>1, <4>1, <4>2 DEF Complete
    <3>2. Inside(Flushed) => Inside(Flushed')
      BY <2>6 DEF Keeps
    <3>. QED
      BY <3>1, <3>2, <1>3
  <2>13. AtRisk'
    <3>1. s \in Buffered(Handle)'
      BY <2>3 DEF Buffered
    <3>2. \A q \in Slot : q # s /\ q \notin astray' => LoadChunk(file', q) = saved'[q]
      BY <2>9, <2>10, <1>3, <1>4
    <3>. QED
      BY <3>1, <3>2 DEF AtRisk
  <2>14. Sound(file') /\ Sound(Flushed')
    BY <2>6 DEF Keeps
  <2>15. StoreInv'
    BY <2>11, <2>12, <2>13, <2>14 DEF StoreInv
  <2>. QED
    BY <2>2, <2>4, <2>8, <2>15
<1>. QED
  BY <1>5, <1>6, <1>7 DEF Save

\* A run that ends without flushing, when it is the first.
LEMMA LoseInv ==
  ASSUME SessionInv, TypeInv', kills' <= 1, NEW f, NEW hit, Lose(f, hit),
         Sound(f), Complete(f) \/ Inside(f),
         \A s \in Slot : s \notin hit => LoadChunk(f, s) = saved[s],
         created' = created \/ created' = "yes" \/ (created' = "empty" /\ ~info)
  PROVE  SessionInv'
<1>1. /\ kills < MaxKills /\ kills' = kills + 1 /\ file' = f /\ pend' = [h \in Handle |-> None]
      /\ saved' = [s \in Slot |-> IF s \in hit THEN LoadChunk(f, s) ELSE saved[s]]
      /\ changed' = [s \in Slot |-> FALSE] /\ phase' = "off" /\ astray' = astray \ hit
      /\ info' = info
  BY DEF Lose
<1>2. kills \in Nat /\ kills = 0 /\ kills' # 0
  <2>1. kills \in 0..MaxKills /\ MaxKills \in Nat
    BY TypeParts, SessionAssumption DEF SessionInv
  <2>. QED
    BY <1>1, <2>1
<1>3. pend'["server"] = None /\ pend'["generator"] = None /\ \A h \in Handle : pend'[h] = None
  BY <1>1 DEF Handle
<1>4. Flushed' = f
  BY <1>1, <1>3, FlushedByNext, FlushNone
<1>5. \A s \in Slot : LoadChunk(f, s) = saved'[s]
  BY <1>1
<1>6. AtRisk'
  BY <1>1, <1>5 DEF AtRisk
<1>7. StoreInv'
  BY <1>1, <1>4, <1>5, <1>6 DEF StoreInv
<1>8. ControlInv'
  BY <1>1, <1>3 DEF ControlInv
<1>9. UnbrokenInv' /\ UnchangedMatchesSaved'
  BY <1>1, <1>2 DEF UnbrokenInv, UnchangedMatchesSaved
<1>10. FileInv'
  <2>1. created # "empty" /\ FileInv
    BY <1>2 DEF SessionInv, UnbrokenInv
  <2>. QED
    BY <2>1, <1>1, <1>3 DEF FileInv
<1>. QED
  BY <1>7, <1>8, <1>9, <1>10 DEF SessionInv

\* No kill has happened before one, and nothing is astray.
LEMMA FirstLoss ==
  ASSUME SessionInv, kills' <= 1, NEW f, NEW hit, Lose(f, hit)
  PROVE  kills = 0 /\ phase # "off" /\ astray = {}
BY TypeParts, SessionAssumption DEF Lose, SessionInv, UnbrokenInv

\* Server::init finds the world or begins to generate one.
LEMMA StartInv == ASSUME SessionInv, TypeInv', Start PROVE SessionInv'
<1>1. TypeInv /\ ControlInv /\ FileInv /\ StoreInv /\ UnbrokenInv
  BY DEF SessionInv
<1>2. phase = "off" /\ fresh' = ~info
      /\ UNCHANGED <<file, changed, info, pend, created, saved, astray, kills>>
  BY DEF Start
<1>c. \A s \in Slot : ~changed[s]
  BY <1>1, <1>2, TypeParts
<1>3. pend["server"] = None /\ pend["generator"] = None /\ Flushed = file
  BY <1>1, <1>2, OffFlushed
<1>4. Flushed' = Flushed
  BY <1>2 DEF Flushed
<1>5. StoreInv'
  <2>1. AtRisk'
    BY <1>1, <1>2 DEF StoreInv, AtRisk, Buffered
  <2>. QED
    BY <2>1, <1>1, <1>2, <1>4 DEF StoreInv
<1>6. CASE info
  <2>1. phase' = "running" /\ mem' = Loaded /\ ~fresh' /\ todo' = todo
    BY <1>2, <1>6 DEF Start
  <2>2. ControlInv'
    BY <1>1, <1>2, <1>3, <1>c, <1>6, <2>1 DEF ControlInv
  <2>3. UnbrokenInv'
    BY <1>1, <1>2, <1>3, <1>4, <1>6, <2>1 DEF UnbrokenInv
  <2>4. UnchangedMatchesSaved'
    <3>1. ASSUME NEW s \in Slot, s \notin astray'
          PROVE  mem'[s] = IF saved'[s] = Absent THEN Blank ELSE saved'[s]
      <4>1. LoadChunk(file, s) = saved[s] /\ IsFile(file)
        BY <1>1, <1>2, <1>3, <3>1 DEF StoreInv, Sound
      <4>2. created # "empty"
        BY <1>1, <1>2, <1>6, <3>1 DEF FileInv
      <4>3. mem'[s] = IF Used(file, s) THEN LoadChunk(file, s) ELSE Blank
        BY <2>1, <4>2 DEF Loaded
      <4>4. /\ Used(file, s) => LoadChunk(file, s) \in Payload \cup {Torn}
            /\ ~Used(file, s) => LoadChunk(file, s) = Absent
        BY <4>1, LoadRange
      <4>. QED
        BY <1>2, <4>1, <4>3, <4>4, ConstantsAssumption
    <3>. QED
      BY <3>1 DEF UnchangedMatchesSaved
  <2>5. FileInv'
    BY <1>1, <1>2, <1>6, <2>1 DEF FileInv
  <2>. QED
    BY <1>1, <1>5, <2>2, <2>3, <2>4, <2>5 DEF SessionInv
<1>7. CASE ~info
  <2>1. phase' = "generating" /\ todo' = Slot /\ fresh' /\ ~info'
    <3>1. phase' = "generating" /\ todo' = Slot
      BY <1>7 DEF Start
    <3>2. fresh' /\ ~info'
      BY <1>2, <1>7, Zenon
    <3>. QED
      BY <3>1, <3>2
  <2>2. ControlInv'
    BY <1>1, <1>2, <1>3, <1>c, <2>1 DEF ControlInv
  <2>3. UnbrokenInv'
    BY <1>1, <1>2, <1>3, <1>4, <1>7, <2>1 DEF UnbrokenInv
  <2>4. UnchangedMatchesSaved'
    BY <2>1 DEF UnchangedMatchesSaved
  <2>5. FileInv'
    BY <1>1, <1>2, <1>7, <2>1 DEF FileInv
  <2>. QED
    BY <1>5, <2>2, <2>3, <2>4, <2>5 DEF SessionInv
<1>. QED
  BY <1>6, <1>7

\* The generator saves a chunk; until the first kill it is a new one, which is appended.
LEMMA GenerateInv ==
  ASSUME SessionInv, TypeInv', NEW s \in Slot, NEW p \in Payload, GenerateChunk(s, p)
  PROVE  SessionInv'
<1>1. TypeInv /\ ControlInv /\ FileInv /\ StoreInv /\ UnbrokenInv
  BY DEF SessionInv
<1>2. /\ phase = "generating" /\ s \in todo /\ todo' = todo \ {s} /\ Save("generator", s, p)
      /\ UNCHANGED <<mem, changed, phase, info, fresh, kills>>
  BY DEF GenerateChunk
<1>3. fresh /\ ~info /\ pend["server"] = None
  BY <1>1, <1>2 DEF ControlInv
<1>4. "generator" \in Handle /\ \A i \in Handle : i # "generator" => pend[i] = None
  BY <1>3 DEF Handle
<1>5. /\ created # "empty" => Kept(s)
      /\ created = "empty" => s \in astray' /\ astray \subseteq astray' /\ UNCHANGED <<pend, created>>
      /\ \A i \in Handle : i # "generator" => pend'[i] = None
      /\ StoreInv'
  BY <1>1, <1>2, <1>4, SaveKeeps
<1>6. pend'["server"] = None
  BY <1>5 DEF Handle
<1>7. ControlInv'
  BY <1>1, <1>2, <1>3, <1>6 DEF ControlInv
<1>8. UnbrokenInv'
  <2>1. ASSUME kills = 0
        PROVE  /\ astray' = {} /\ created' # "empty" /\ ~Ragged(Flushed')
               /\ Inside(Flushed') /\ Inside(file')
               /\ \A q \in Slot : Used(Flushed', q) <=> q \notin todo'
    <3>1. /\ Inside(Flushed) /\ ~Ragged(Flushed) /\ astray = {} /\ created # "empty"
          /\ \A q \in Slot : Used(Flushed, q) <=> q \notin todo
      BY <2>1, <1>1, <1>2 DEF UnbrokenInv
    <3>2. ~Used(Flushed, s)
      BY <3>1, <1>2
    <3>3. Keeps(Flushed, s, file', Flushed') /\ created' = "yes" /\ astray' = astray \ {s}
          /\ ~Ragged(Flushed')
      BY <3>1, <3>2, <1>5 DEF Kept
    <3>4. Inside(Flushed') /\ Inside(file')
      BY <3>1, <3>2, <3>3 DEF Keeps
    <3>5. ASSUME NEW q \in Slot PROVE Used(Flushed', q) <=> q \notin todo'
      <4>1. CASE q = s
        BY <4>1, <1>2, <3>3 DEF Keeps
      <4>2. CASE q # s
        <5>1. Used(Flushed', q) <=> Used(Flushed, q)
          <6>1. \A r \in Slot : r # s => (Used(Flushed', r) <=> Used(Flushed, r))
            BY <3>3, Zenon DEF Keeps
          <6>. QED
            BY <6>1, <4>2, Zenon
        <5>2. q \notin todo' <=> q \notin todo
          BY <4>2, <1>2
        <5>. QED
          BY <5>1, <5>2, <3>1
      <4>. QED
        BY <4>1, <4>2
    <3>. QED
      BY <3>1, <3>3, <3>4, <3>5
  <2>. QED
    BY <2>1, <1>2, <1>3 DEF UnbrokenInv
<1>9. UnchangedMatchesSaved'
  BY <1>2 DEF UnchangedMatchesSaved
<1>10. FileInv'
  <2>1. CASE created # "empty"
    BY <2>1, <1>5 DEF Kept, FileInv
  <2>2. CASE created = "empty"
    BY <2>2, <1>1, <1>2, <1>3, <1>5 DEF FileInv
  <2>. QED
    BY <2>1, <2>2
<1>. QED
  BY <1>5, <1>7, <1>8, <1>9, <1>10 DEF SessionInv

\* The world is generated: every chunk has its place, the last one's entry in the buffer.
LEMMA ServeInv == ASSUME SessionInv, TypeInv', ServeGenerated PROVE SessionInv'
<1>1. TypeInv /\ ControlInv /\ FileInv /\ StoreInv /\ UnbrokenInv
  BY DEF SessionInv
<1>2. /\ phase = "generating" /\ todo = {} /\ info' /\ phase' = "running"
      /\ UNCHANGED <<file, changed, fresh, todo, pend, created, saved, astray, kills>>
  BY DEF ServeGenerated
<1>3. fresh
  BY <1>1, <1>2 DEF ControlInv
<1>4. Flushed' = Flushed
  BY <1>2 DEF Flushed
<1>5. StoreInv'
  <2>1. AtRisk'
    BY <1>1, <1>2 DEF StoreInv, AtRisk, Buffered
  <2>. QED
    BY <2>1, <1>1, <1>2, <1>4 DEF StoreInv
<1>6. ControlInv'
  BY <1>1, <1>2, <1>3 DEF ControlInv
<1>7. UnbrokenInv'
  BY <1>1, <1>2, <1>3, <1>4 DEF UnbrokenInv, Complete
<1>8. UnchangedMatchesSaved'
  BY <1>2, <1>3 DEF UnchangedMatchesSaved
<1>9. FileInv'
  BY <1>1, <1>2 DEF FileInv
<1>. QED
  BY <1>5, <1>6, <1>7, <1>8, <1>9 DEF SessionInv

\* A step that leaves the file and its buffers alone.
LEMMA SameStore ==
  ASSUME StoreInv, UNCHANGED <<file, pend, saved, astray>>
  PROVE  StoreInv' /\ Flushed' = Flushed
<1>1. Flushed' = Flushed
  BY DEF Flushed
<1>2. AtRisk'
  BY DEF StoreInv, AtRisk, Buffered
<1>. QED
  BY <1>1, <1>2 DEF StoreInv

\* Blocks are only set in a world that was loaded.
LEMMA SetBlockInv ==
  ASSUME ~FirstSessionEdits, SessionInv, TypeInv', NEW s \in Slot, NEW p \in Payload,
         SetBlock(s, p)
  PROVE  SessionInv'
<1>1. TypeInv /\ ControlInv /\ FileInv /\ StoreInv /\ UnbrokenInv /\ UnchangedMatchesSaved
  BY DEF SessionInv
<1>2. /\ phase = "running" /\ ~fresh /\ mem' = [mem EXCEPT ![s] = p]
      /\ changed' = [changed EXCEPT ![s] = TRUE]
      /\ UNCHANGED <<file, phase, info, fresh, todo, pend, created, saved, astray, kills>>
  BY DEF SetBlock, Edit
<1>3. StoreInv' /\ Flushed' = Flushed
  BY <1>1, <1>2, SameStore
<1>4. ControlInv'
  BY <1>1, <1>2 DEF ControlInv
<1>5. UnbrokenInv'
  BY <1>1, <1>2, <1>3 DEF UnbrokenInv
<1>6. UnchangedMatchesSaved'
  <2>1. mem \in [Slot -> Payload \cup {Absent, Torn}] /\ changed \in [Slot -> BOOLEAN]
    BY <1>1, TypeParts
  <2>2. ASSUME NEW q \in Slot, q \notin astray, ~changed'[q]
        PROVE  mem'[q] = IF saved[q] = Absent THEN Blank ELSE saved[q]
    <3>1. q # s
      BY <2>1, <2>2, <1>2
    <3>2. mem'[q] = mem[q] /\ ~changed[q]
      BY <2>1, <2>2, <3>1, <1>2
    <3>3. phase = "running" /\ ~fresh /\ q \in Slot \ astray
      BY <1>2, <2>2
    <3>4. mem[q] = IF saved[q] = Absent THEN Blank ELSE saved[q]
      BY <1>1, <3>2, <3>3, Zenon DEF UnchangedMatchesSaved
    <3>. QED
      BY <3>2, <3>4
  <2>. QED
    BY <2>2, <1>2 DEF UnchangedMatchesSaved
<1>7. FileInv'
  BY <1>1, <1>2 DEF FileInv
<1>. QED
  BY <1>3, <1>4, <1>5, <1>6, <1>7 DEF SessionInv

\* deleteAllChunks begins.
LEMMA StopInv == ASSUME SessionInv, TypeInv', Stop PROVE SessionInv'
<1>1. TypeInv /\ ControlInv /\ FileInv /\ StoreInv /\ UnbrokenInv
  BY DEF SessionInv
<1>2. /\ phase = "running" /\ phase' = "stopping" /\ todo' = Slot
      /\ UNCHANGED <<file, mem, changed, info, fresh, pend, created, saved, astray, kills>>
  BY DEF Stop
<1>3. StoreInv' /\ Flushed' = Flushed
  BY <1>1, <1>2, SameStore
<1>4. ControlInv'
  BY <1>1, <1>2 DEF ControlInv
<1>5. UnbrokenInv'
  BY <1>1, <1>2, <1>3 DEF UnbrokenInv
<1>6. UnchangedMatchesSaved'
  BY <1>2 DEF UnchangedMatchesSaved
<1>7. FileInv'
  BY <1>1, <1>2 DEF FileInv
<1>. QED
  BY <1>3, <1>4, <1>5, <1>6, <1>7 DEF SessionInv

\* A chunk that was changed is saved through the server's handle, in a run that loaded it.
LEMMA DeleteInv ==
  ASSUME SessionInv, TypeInv', NEW s \in Slot, DeleteChunk(s)
  PROVE  SessionInv'
<1>1. TypeInv /\ ControlInv /\ FileInv /\ StoreInv /\ UnbrokenInv
  BY DEF SessionInv
<1>2. /\ phase = "stopping" /\ s \in todo /\ todo' = todo \ {s}
      /\ changed' = [changed EXCEPT ![s] = FALSE]
      /\ UNCHANGED <<phase, info, fresh, kills>>
  BY DEF DeleteChunk
<1>3. info /\ changed \in [Slot -> BOOLEAN]
  BY <1>1, <1>2, TypeParts DEF ControlInv
<1>4. \A q \in Slot : changed'[q] => changed[q]
  BY <1>2, <1>3
<1>5. UnchangedMatchesSaved'
  BY <1>2 DEF UnchangedMatchesSaved
<1>6. CASE ~changed[s]
  <2>1. UNCHANGED <<file, pend, created, saved, astray>>
    BY <1>6 DEF DeleteChunk
  <2>2. StoreInv' /\ Flushed' = Flushed
    BY <1>1, <2>1, SameStore
  <2>3. ControlInv'
    BY <1>1, <1>2, <1>3, <1>4, <2>1 DEF ControlInv
  <2>4. UnbrokenInv'
    BY <1>1, <1>2, <2>1, <2>2 DEF UnbrokenInv
  <2>5. FileInv'
    BY <1>1, <1>2, <2>1 DEF FileInv
  <2>. QED
    BY <1>5, <2>2, <2>3, <2>4, <2>5 DEF SessionInv
<1>7. CASE changed[s]
  <2>1. ~fresh /\ pend["generator"] = None
    BY <1>1, <1>7 DEF ControlInv
  <2>2. Save("server", s, mem[s]) /\ mem[s] \in Payload
    BY <1>1, <1>7, TypeParts DEF DeleteChunk
  <2>3. "server" \in Handle /\ \A i \in Handle : i # "server" => pend[i] = None
    BY <2>1 DEF Handle
  <2>4. /\ created # "empty" => Kept(s)
        /\ created = "empty" => s \in astray' /\ astray \subseteq astray' /\ UNCHANGED <<pend, created>>
        /\ \A i \in Handle : i # "server" => pend'[i] = None
        /\ StoreInv'
    BY <1>1, <2>2, <2>3, SaveKeeps
  <2>5. pend'["generator"] = None
    BY <2>4 DEF Handle
  <2>6. ControlInv'
    BY <1>1, <1>2, <1>3, <1>4, <2>1, <2>5 DEF ControlInv
  <2>7. UnbrokenInv'
    <3>1. ASSUME kills = 0
          PROVE  /\ astray' = {} /\ created' # "empty"
                 /\ Inside(Flushed') /\ Complete(Flushed') /\ Complete(file')
      <4>1. Inside(Flushed) /\ Complete(Flushed) /\ astray = {} /\ created # "empty"
        BY <3>1, <1>1, <1>3 DEF UnbrokenInv
      <4>2. Used(Flushed, s)
        BY <4>1 DEF Complete
      <4>3. Keeps(Flushed, s, file', Flushed') /\ created' = "yes" /\ astray' = astray \ {s}
        BY <4>1, <4>2, <2>4 DEF Kept
      <4>4. Inside(Flushed') /\ Used(Flushed', s) /\ Used(file', s)
        BY <4>1, <4>2, <4>3 DEF Keeps
      <4>5. \A q \in Slot : q # s => (Used(Flushed', q) <=> Used(Flushed, q))
                                   /\ (Used(file', q) <=> Used(Flushed, q))
        BY <4>3, Zenon DEF Keeps
      <4>6. Complete(Flushed') /\ Complete(file')
        BY <4>1, <4>4, <4>5 DEF Complete
      <4>. QED
        BY <4>1, <4>3, <4>4, <4>6
    <3>. QED
      BY <3>1, <1>2, <2>1 DEF UnbrokenInv
  <2>8. FileInv'
    <3>1. CASE created # "empty"
      BY <3>1, <2>4 DEF Kept, FileInv
    <3>2. CASE created = "empty"
      BY <3>2, <1>1, <1>2, <1>3, <2>4 DEF FileInv
    <3>. QED
      BY <3>1, <3>2
  <2>. QED
    BY <1>5, <2>4, <2>6, <2>7, <2>8 DEF SessionInv
<1>. QED
  BY <1>6, <1>7

\* stdio writes what is buffered.
LEMMA ExitInv == ASSUME SessionInv, TypeInv', Exit PROVE SessionInv'
<1>1. TypeInv /\ ControlInv /\ FileInv /\ StoreInv /\ UnbrokenInv
  BY DEF SessionInv
<1>2. /\ phase = "stopping" /\ todo = {} /\ file' = Flushed
      /\ pend' = [h \in Handle |-> None] /\ phase' = "off"
      /\ UNCHANGED <<mem, changed, info, fresh, todo, created, saved, astray, kills>>
  BY DEF Exit, Flushed
<1>3. pend'["server"] = None /\ pend'["generator"] = None
  BY <1>2 DEF Handle
<1>4. Flushed' = Flushed
  BY <1>2, <1>3, FlushedByNext, FlushNone
<1>5. StoreInv'
  <2>1. \A s \in Slot : s \notin astray' => LoadChunk(file', s) = saved'[s]
    BY <1>1, <1>2 DEF StoreInv
  <2>2. AtRisk'
    BY <2>1 DEF AtRisk
  <2>. QED
    BY <2>2, <1>1, <1>2, <1>4 DEF StoreInv
<1>6. \A s \in Slot : ~changed[s]
  BY <1>1, <1>2, TypeParts
<1>7. ControlInv'
  BY <1>1, <1>2, <1>3, <1>6 DEF ControlInv
<1>8. UnbrokenInv'
  <2>1. info
    BY <1>1, <1>2 DEF ControlInv
  <2>. QED
    BY <2>1, <1>1, <1>2, <1>4 DEF UnbrokenInv
<1>9. UnchangedMatchesSaved'
  BY <1>2 DEF UnchangedMatchesSaved
<1>10. FileInv'
  <2>1. \A h \in Handle : pend'[h] = None
    BY <1>2
  <2>2. info
    BY <1>1, <1>2 DEF ControlInv
  <2>. QED
    BY <2>1, <2>2, <1>1, <1>2 DEF FileInv
<1>. QED
  BY <1>5, <1>7, <1>8, <1>9, <1>10 DEF SessionInv

\* A kill between two saves.
LEMMA KillInv ==
  ASSUME kills' <= 1, SessionInv, TypeInv', Lose(file, Buffered(Handle)), created' = created
  PROVE  SessionInv'
<1>1. TypeInv /\ ControlInv /\ StoreInv /\ UnbrokenInv
  BY DEF SessionInv
<1>2. kills = 0 /\ phase # "off" /\ astray = {}
  BY FirstLoss
<1>3. Complete(file) \/ Inside(file)
  BY <1>1, <1>2, TypeParts DEF UnbrokenInv, ControlInv
<1>4. Sound(file) /\ \A s \in Slot : s \notin Buffered(Handle) => LoadChunk(file, s) = saved[s]
  BY <1>1, <1>2 DEF StoreInv, AtRisk
<1>. QED
  BY <1>3, <1>4, LoseInv

\* A kill inside a save of the generator: before the file has a table, or when some sectors
\* are written that no entry names.
LEMMA KillGeneratingInv ==
  ASSUME kills' <= 1, SessionInv, TypeInv', NEW s \in Slot, NEW p \in Payload,
         KillGenerating(s, p)
  PROVE  SessionInv'
<1>1. TypeInv /\ ControlInv /\ FileInv /\ StoreInv /\ UnbrokenInv
  BY DEF SessionInv
<1>2. phase = "generating" /\ s \in todo /\ KillInSave("generator", s, p)
  BY DEF KillGenerating
<1>3. fresh /\ ~info /\ pend["server"] = None /\ Flushed = Flush(file, pend["generator"])
  BY <1>1, <1>2, FlushedBy DEF ControlInv
<1>. DEFINE others == Buffered(Handle \ {"generator"})
<1>4. \/ created' = "yes" /\ KillInAppend("generator", s, p, Flushed)
      \/ created' = "yes" /\ KillInResize("generator", s, p, Flushed)
      \/ created = "no" /\ created' = "empty" /\ Lose(file, {})
  BY <1>2, <1>3 DEF KillInSave
<1>. HIDE DEF others
<1>5. kills = 0 /\ astray = {}
  <2>1. \E f, hit : Lose(f, hit)
    BY <1>4 DEF KillInAppend, KillInResize
  <2>. QED
    BY <2>1, FirstLoss
<1>6. ~Used(Flushed, s) /\ Inside(Flushed) /\ ~Ragged(Flushed) /\ Sound(Flushed)
      /\ \A q \in Slot : LoadChunk(Flushed, q) = saved[q]
  BY <1>1, <1>2, <1>5 DEF UnbrokenInv, StoreInv
<1>7. CASE created = "no" /\ created' = "empty" /\ Lose(file, {})
  <2>1. Buffered(Handle) = {}
    BY <1>1, <1>7, NoneBuffered DEF FileInv
  <2>2. Sound(file) /\ \A q \in Slot : LoadChunk(file, q) = saved[q]
    BY <1>1, <1>5, <2>1 DEF StoreInv, AtRisk
  <2>3. Inside(file)
    BY <1>1, <1>3, <1>5 DEF UnbrokenInv
  <2>. QED
    BY <1>3, <1>7, <2>2, <2>3, LoseInv
<1>8. CASE created' = "yes" /\ KillInAppend("generator", s, p, Flushed)
  <2>1. CASE Lose(Flushed, others)
    BY <1>6, <1>8, <2>1, LoseInv
  <2>2. CASE ~Lose(Flushed, others)
    <3>. PICK yes \in BOOLEAN : yes = TRUE
      OBVIOUS
    <3>1. PICK n \in 0..(Sectors[p] - 1) :
            Lose(WritePart(Flushed, Flushed.size + 1, p, 1, n, yes), others)
      BY <1>6, <1>8, <2>2 DEF KillInAppend, others
    <3>. DEFINE f == WritePart(Flushed, Flushed.size + 1, p, 1, n, yes)
    <3>2. n \in Nat /\ n <= Sectors[p]
      BY SectorsRange
    <3>3. WroteBehind(Flushed, p, n, yes, f)
      BY <1>6, <3>2, AppendAgrees
    <3>4. Lose(f, others)
      BY <3>1
    <3>. HIDE DEF f
    <3>5. Sound(f) /\ Inside(f) /\ \A q \in Slot : Agree(Flushed, f, q)
      BY <3>3 DEF WroteBehind
    <3>6. \A q \in Slot : LoadChunk(f, q) = saved[q]
      <4>1. IsFile(f) /\ IsFile(Flushed)
        BY <1>6, <3>5 DEF Sound
      <4>. QED
        BY <4>1, <1>6, <3>5, AgreeLoads
    <3>. QED
      BY <1>8, <3>4, <3>5, <3>6, LoseInv
  <2>. QED
    BY <2>1, <2>2
<1>9. CASE KillInResize("generator", s, p, Flushed)
  BY <1>6, <1>9 DEF KillInResize
<1>. QED
  BY <1>4, <1>7, <1>8, <1>9

\* A kill inside a save of the server, while sectors are moved: only chunks behind are hit.
LEMMA KillDeletingInv ==
  ASSUME kills' <= 1, SessionInv, TypeInv', NEW s \in Slot, KillDeleting(s)
  PROVE  SessionInv'
<1>1. TypeInv /\ ControlInv /\ FileInv /\ StoreInv /\ UnbrokenInv
  BY DEF SessionInv
<1>2. phase = "stopping" /\ s \in todo /\ changed[s] /\ KillInSave("server", s, mem[s])
  BY DEF KillDeleting
<1>3. info /\ ~fresh /\ pend["generator"] = None /\ Flushed = Flush(file, pend["server"])
  BY <1>1, <1>2, FlushedBy DEF ControlInv
<1>4. mem[s] \in Payload /\ created # "no"
  BY <1>1, <1>2, <1>3, TypeParts DEF FileInv
<1>. DEFINE p == mem[s]
            i == Flushed.table[s].index
            l == Flushed.table[s].sectors
            d == Sectors[p] - l
            others == Buffered(Handle \ {"server"})
<1>5. created' = "yes" /\ (KillInAppend("server", s, p, Flushed) \/ KillInResize("server", s, p, Flushed))
  BY <1>2, <1>3, <1>4 DEF KillInSave
<1>. HIDE DEF others
<1>6. kills = 0 /\ astray = {}
  <2>1. \E f, hit : Lose(f, hit)
    BY <1>5 DEF KillInAppend, KillInResize
  <2>. QED
    BY <2>1, FirstLoss
<1>7. Complete(Flushed) /\ Sound(Flushed) /\ \A q \in Slot : LoadChunk(Flushed, q) = saved[q]
  BY <1>1, <1>3, <1>6 DEF UnbrokenInv, StoreInv
<1>8. /\ Used(Flushed, s) /\ d > 0 /\ Movable(Flushed, Flushed.table[s])
      /\ \/ Lose(Flushed, others)
         \/ \E m \in 0..(Flushed.size - i - l + 1) :
              Lose(PartlyMoved(Flushed, s, d, m), others \cup Behind(Flushed, s))
  BY <1>5, <1>7 DEF Complete, KillInAppend, KillInResize, others
<1>9. CASE Lose(Flushed, others)
  BY <1>5, <1>7, <1>9, LoseInv
<1>10. CASE ~Lose(Flushed, others)
  <2>1. PICK m \in 0..(Flushed.size - i - l + 1) :
          Lose(PartlyMoved(Flushed, s, d, m), others \cup Behind(Flushed, s))
    BY <1>8, <1>10
  <2>2. Flushed.size \in Nat /\ i \in Nat /\ l \in Nat /\ Sectors[p] \in Nat
    BY <1>4, <1>7, SoundRange, SectorsRange
  <2>3. m \in Nat /\ i + l + m <= Flushed.size + 1 /\ d \in Nat /\ 1 <= d
    BY <1>8, <2>2
  <2>. DEFINE f == PartlyMoved(Flushed, s, d, m)
  <2>. HIDE DEF d
  <2>4. /\ Sound(f) /\ f.table = Flushed.table
        /\ \A q \in Slot : q \notin Behind(Flushed, s) => Agree(Flushed, f, q)
    BY <1>7, <1>8, <2>3, MovedAgrees
  <2>5. Lose(f, others \cup Behind(Flushed, s))
    BY <2>1
  <2>. HIDE DEF f
  <2>6. Complete(f)
    BY <1>7, <2>4 DEF Complete, Used
  <2>7. ASSUME NEW q \in Slot, q \notin others \cup Behind(Flushed, s)
        PROVE  LoadChunk(f, q) = saved[q]
    <3>1. IsFile(f) /\ IsFile(Flushed)
      BY <1>7, <2>4 DEF Sound
    <3>2. Agree(Flushed, f, q)
      BY <2>4, <2>7
    <3>. QED
      BY <3>1, <3>2, <1>7, AgreeLoads
  <2>. QED
    BY <1>5, <2>4, <2>5, <2>6, <2>7, LoseInv
<1>. QED
  BY <1>9, <1>10

\* Every step but a second kill keeps the invariant.
LEMMA NextInv ==
  ASSUME ~FirstSessionEdits, SessionInv, [SessionNext]_session, kills' <= 1
  PROVE  SessionInv'
<1>1. TypeInv' /\ TypeInv
  BY NextType DEF SessionInv
<1>2. ASSUME Kill \/ ExitTerminates PROVE SessionInv'
  BY <1>1, <1>2, KillInv DEF Kill, ExitTerminates
<1>3. CASE UNCHANGED session
  <2>1. /\ file' = file /\ mem' = mem /\ changed' = changed /\ phase' = phase /\ info' = info
        /\ fresh' = fresh /\ todo' = todo /\ pend' = pend /\ created' = created
        /\ saved' = saved /\ astray' = astray /\ kills' = kills
    BY <1>3 DEF session
  <2>2. ControlInv /\ FileInv /\ StoreInv /\ UnbrokenInv /\ UnchangedMatchesSaved
    BY DEF SessionInv
  <2>3. StoreInv' /\ Flushed' = Flushed
    BY <2>1, <2>2, SameStore
  <2>4. ControlInv'
    BY <2>1, <2>2 DEF ControlInv
  <2>5. UnbrokenInv'
    BY <2>1, <2>2, <2>3 DEF UnbrokenInv
  <2>6. UnchangedMatchesSaved'
    BY <2>1, <2>2 DEF UnchangedMatchesSaved
  <2>7. FileInv'
    BY <2>1, <2>2 DEF FileInv
  <2>. QED
    BY <1>1, <2>3, <2>4, <2>5, <2>6, <2>7 DEF SessionInv
<1>. QED
  BY <1>1, <1>2, <1>3, StartInv, GenerateInv, ServeInv, SetBlockInv, StopInv, DeleteInv, ExitInv,
     KillGeneratingInv, KillDeletingInv DEF SessionNext

LEMMA InitSession == SessionInit => SessionInv
<1>. SUFFICES ASSUME SessionInit PROVE SessionInv
  OBVIOUS
<1>1. TypeInv
  BY InitType
<1>2. /\ Init /\ changed = [s \in Slot |-> FALSE]
      /\ phase = "off" /\ info = FALSE /\ fresh = FALSE
      /\ pend = [h \in Handle |-> None] /\ saved = [s \in Slot |-> Absent] /\ kills = 0
      /\ created = "no" /\ astray = {}
  BY DEF SessionInit, Init
<1>3. pend["server"] = None /\ pend["generator"] = None /\ Flushed = file
  BY <1>1, <1>2, OffFlushed
<1>4. Layout(file) /\ IsFile(file)
  BY <1>2, InitIInv DEF IInv, Layout
<1>5. \A s \in Slot : ~Used(file, s)
  <2>1. file.table = [s \in Slot |-> [index |-> 0, sectors |-> 0]]
    BY <1>2 DEF Init, EmptyFile
  <2>2. ASSUME NEW s \in Slot PROVE file.table[s] = [index |-> 0, sectors |-> 0]
    BY <2>1, Zenon
  <2>3. ASSUME NEW s \in Slot PROVE file.table[s].index = 0
    BY <2>2
  <2>. QED
    BY <2>3, Zenon DEF Used
<1>6. Sound(file) /\ Inside(file)
  BY <1>4, <1>5 DEF Layout, Sound, Inside
<1>7. \A s \in Slot : LoadChunk(file, s) = saved[s]
  BY <1>2, <1>4, <1>5, LoadRange
<1>8. StoreInv
  BY <1>3, <1>6, <1>7 DEF StoreInv, AtRisk
<1>9. ControlInv
  BY <1>2, <1>3 DEF ControlInv
<1>10. UnbrokenInv
  <2>1. ~Ragged(file)
    BY <1>2 DEF Init, EmptyFile, Ragged
  <2>. QED
    BY <2>1, <1>2, <1>3, <1>5, <1>6 DEF UnbrokenInv
<1>11. UnchangedMatchesSaved
  BY <1>2 DEF UnchangedMatchesSaved
<1>12. FileInv
  BY <1>2 DEF FileInv
<1>. QED
  BY <1>1, <1>8, <1>9, <1>10, <1>11, <1>12 DEF SessionInv

\* So it holds up to that one.
UpToSecondKill == TypeInv /\ (kills <= 1 => SessionInv)

LEMMA AlwaysSession ==
  ASSUME ~FirstSessionEdits
  PROVE  SessionSpec => []UpToSecondKill
<1>1. SessionInit => UpToSecondKill
  BY InitSession DEF UpToSecondKill, SessionInv
<1>2. UpToSecondKill /\ [SessionNext]_session => UpToSecondKill'
  <2>. SUFFICES ASSUME UpToSecondKill, [SessionNext]_session PROVE UpToSecondKill'
    OBVIOUS
  <2>1. TypeInv /\ TypeInv'
    BY NextType DEF UpToSecondKill
  <2>2. kills' = kills \/ kills' = kills + 1
    <3>1. ASSUME NEW h, NEW s, NEW p, KillInSave(h, s, p) PROVE kills' = kills + 1
      BY <3>1 DEF KillInSave, KillInAppend, KillInResize, Lose
    <3>. QED
      BY <3>1, Zenon DEF SessionNext, session, Start, ServeGenerated, Stop, Exit, ExitTerminates,
         Kill, Lose, DeleteChunk, KillDeleting, GenerateChunk, KillGenerating, SetBlock
  <2>3. kills \in Nat
    BY <2>1, TypeParts, SessionAssumption
  <2>4. ASSUME kills' <= 1 PROVE SessionInv'
    <3>1. kills <= 1
      BY <2>2, <2>3, <2>4
    <3>2. SessionInv
      BY <3>1 DEF UpToSecondKill
    <3>. QED
      BY <3>2, <2>4, NextInv
  <2>. QED
    BY <2>1, <2>4 DEF UpToSecondKill
<1>. QED
  BY <1>1, <1>2, PTL DEF SessionSpec

-----------------------------------------------------------------------------
(* The theorems.                                                           *)

(* Where no block is set in the run that generates the world, and up to    *)
(* the second run that ends without flushing: whatever the sizes of the    *)
(* chunks and the order in which they are saved, and wherever the first    *)
(* kill falls (inside resizeSector, in the middle of a sector of an        *)
(* append, before the file has its table), the file gives back what was    *)
(* last saved for every chunk that no FILE still has in its buffer and     *)
(* that has not been appended to a file such a kill has left ragged or     *)
(* without a table.  Before that kill no chunk is astray.                  *)
THEOREM OneKillCostsBufferedChunks ==
  ASSUME ~FirstSessionEdits
  PROVE  SessionSpec => [](kills <= 1 => OnlyLastSaveAtRisk)
<1>1. UpToSecondKill => (kills <= 1 => OnlyLastSaveAtRisk)
  <2>. SUFFICES ASSUME UpToSecondKill, kills <= 1 PROVE OnlyLastSaveAtRisk
    OBVIOUS
  <2>1. AtRisk /\ UnbrokenInv
    BY DEF UpToSecondKill, SessionInv, StoreInv
  <2>2. kills \in Nat
    BY TypeParts, SessionAssumption DEF UpToSecondKill
  <2>. QED
    BY <2>1, <2>2 DEF AtRisk, UnbrokenInv, OnlyLastSaveAtRisk
<1>. QED
  BY <1>1, AlwaysSession, PTL

(* Under the same conditions a chunk of the running server that            *)
(* Server::init loaded, that was not astray and nobody has changed, is the *)
(* one that was saved last, so deleteAllChunks may drop it.                *)
THEOREM UnchangedChunksMatch ==
  ASSUME ~FirstSessionEdits
  PROVE  SessionSpec => [](kills <= 1 => UnchangedMatchesSaved)
<1>1. UpToSecondKill => (kills <= 1 => UnchangedMatchesSaved)
  BY DEF UpToSecondKill, SessionInv
<1>. QED
  BY <1>1, AlwaysSession, PTL

(* Under the same conditions the indices do follow the shifts, whenever    *)
(* one looks, those of chunks that are astray too (they begin in front of  *)
(* their chunk's data, but no two share a sector): what breaks them is a   *)
(* run that sets blocks in the world it has generated, where both handles  *)
(* have a buffer.                                                          *)
THEOREM IndicesFollowWithoutFirstEdits ==
  ASSUME ~FirstSessionEdits
  PROVE  SessionSpec => [](kills <= 1 => IndicesFollowShifts)
<1>1. Sound(file) => IndicesFollowShifts
  <2>. SUFFICES ASSUME Sound(file), NEW s \in Slot, NEW q \in Slot, s # q,
                       NEW k, k \in Extent(file, s), k \in Extent(file, q)
                PROVE  FALSE
    BY DEF IndicesFollowShifts
  <2>1. Used(file, s) /\ Used(file, q)
    BY DEF Extent
  <2>2. /\ file.table[s].index \in Nat /\ file.table[s].sectors \in Nat
        /\ file.table[q].index \in Nat /\ file.table[q].sectors \in Nat
    BY SoundRange
  <2>3. \/ file.table[s].index + file.table[s].sectors <= file.table[q].index
        \/ file.table[q].index + file.table[q].sectors <= file.table[s].index
    BY <2>1 DEF Sound, Apart
  <2>4. /\ k \in file.table[s].index .. (file.table[s].index + file.table[s].sectors - 1)
        /\ k \in file.table[q].index .. (file.table[q].index + file.table[q].sectors - 1)
    BY <2>1 DEF Extent
  <2>. QED
    BY <2>2, <2>3, <2>4
<1>2. UpToSecondKill => (kills <= 1 => IndicesFollowShifts)
  BY <1>1 DEF UpToSecondKill, SessionInv, StoreInv
<1>. QED
  BY <1>2, AlwaysSession, PTL
=============================================================================
