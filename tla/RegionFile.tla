----------------------------- MODULE RegionFile -----------------------------
(***************************************************************************)
(* The region file of server/ChunkIO.cpp, behind one open FILE handle.     *)
(*                                                                         *)
(* A file starts with a lookup table of one entry per chunk of the region: *)
(* a 16-bit index (0: never saved, n: the n-th sector after the table) and *)
(* an 8-bit number of sectors.  After it come the sectors of the saved     *)
(* chunks.  A new chunk is appended at the end of the file; a chunk that   *)
(* has outgrown its sectors pushes everything behind it towards the end    *)
(* and the table follows.  Sectors are never given back.                   *)
(*                                                                         *)
(* A sector's bytes are abstracted to <<p, k>>, "the k-th sector of the    *)
(* serialization of content p".  mx serializes saveChunk and loadChunk and *)
(* every fseek flushes what was written before it, so with one handle each *)
(* call is one step; what happens between two handles and in a crash is    *)
(* the subject of SaveSession.                                             *)
(***************************************************************************)
EXTENDS Integers

CONSTANTS
  Slot,          \* chunk positions of the region (256 in the code)
  Payload,       \* contents a chunk can have
  Blank,         \* content of a newly constructed Chunk
  Absent,        \* no chunk, in memory or in the file
  Hole,          \* a sector that was skipped over, or of which only a part was written
  Cut,           \* a sector the file ends in, or ended in once (only after a kill: SaveSession)
  Torn,          \* what loadChunk decodes from sectors that are not one chunk
  Sectors,       \* Sectors[p]: sectors the serialization of p takes
  MaxSectors,    \* sectors loadChunk's buffer can take (32)
  SectorLimit,   \* a table entry keeps its sector count modulo this (256)
  IndexLimit     \* and its index modulo this (65536)

ASSUME ConstantsAssumption ==
  /\ MaxSectors \in Nat /\ SectorLimit \in Nat /\ IndexLimit \in Nat
  /\ MaxSectors < SectorLimit
  /\ 0 < IndexLimit
  /\ Sectors \in [Payload -> 1..MaxSectors]
  /\ Blank \in Payload
  /\ Absent \notin Payload /\ Torn \notin Payload /\ Torn # Absent

VARIABLES
  file,      \* [table, size, data] of the region file
  mem,       \* content of the chunk the World holds for a slot
  changed    \* its changedFromDisk flag

vars == <<file, mem, changed>>

Entry == [index : 0..(IndexLimit - 1), sectors : 0..(SectorLimit - 1)]
Sector == (Payload \X (1..MaxSectors)) \cup {Hole, Cut}

-----------------------------------------------------------------------------
(* The file operations.                                                    *)

\* What getFile writes into a file it creates: a table of zeros.
EmptyFile ==
  [table |-> [s \in Slot |-> [index |-> 0, sectors |-> 0]], size |-> 0, data |-> [k \in 1..0 |-> Hole]]

Used(f, s) == f.table[s].index # 0

\* The sectors the table gives to a slot.
Extent(f, s) ==
  IF Used(f, s) THEN f.table[s].index .. (f.table[s].index + f.table[s].sectors - 1) ELSE {}

\* fwrite of a chunk's sectors and padding from sector pos on.
WriteAt(f, pos, p) ==
  LET last == pos + Sectors[p] - 1
      size == IF last > f.size THEN last ELSE f.size
  IN  [table |-> f.table,
       size  |-> size,
       data  |-> [k \in 1..size |-> IF k \in pos..last THEN <<p, k - pos + 1>> ELSE f.data[k]]]

GrownTableNoShift(f, s, g) ==    \* mutant: the entries behind are not moved
  [f.table EXCEPT ![s].sectors = (@ + g) % SectorLimit]

GrownTableMovesSelf(f, s, g) ==  \* mutant: >= where the code has >
  [q \in Slot |->
     [index |-> IF f.table[q].index >= f.table[s].index
                THEN f.table[q].index + g ELSE f.table[q].index,
      sectors |-> IF q = s THEN f.table[q].sectors + g ELSE f.table[q].sectors]]

\* The table after the chunk of slot s has grown by g sectors.
GrownTable(f, s, g) ==
  [q \in Slot |->
     IF q = s
       THEN [index   |-> f.table[q].index,
             sectors |-> (f.table[q].sectors + g) % SectorLimit]
     ELSE IF f.table[q].index > f.table[s].index
       THEN [index   |-> (f.table[q].index + g) % IndexLimit,
             sectors |-> f.table[q].sectors]
     ELSE f.table[q]]

\* resizeSector: everything behind the chunk moves g sectors towards the end.  The
\* sectors in between keep their old bytes, and nothing is written when nothing is behind.
ResizeSector(f, s, g) ==
  LET start == f.table[s].index + f.table[s].sectors
      size  == IF start > f.size THEN f.size ELSE f.size + g
  IN  [table |-> GrownTable(f, s, g),
       size  |-> size,
       data  |-> [k \in 1..size |->
                    IF k >= start + g THEN f.data[k - g]
                    ELSE IF k <= f.size THEN f.data[k] ELSE Hole]]

RewriteNoResize(f, s, p) == WriteAt(f, f.table[s].index, p)     \* mutant

\* saveChunk for a slot the table knows: in place, after growing if that is needed.
Rewrite(f, s, p) ==
  LET e == f.table[s]
  IN  WriteAt(IF Sectors[p] > e.sectors THEN ResizeSector(f, s, Sectors[p] - e.sectors) ELSE f,
              e.index, p)

AppendAtLastSector(f, s, p) ==   \* mutant: an off-by-one in currentSector
  LET pos == IF f.size = 0 THEN 1 ELSE f.size
  IN  [WriteAt(f, pos, p) EXCEPT
         !.table[s] = [index |-> pos % IndexLimit, sectors |-> Sectors[p] % SectorLimit]]

\* saveChunk for a new slot: the sectors go to the end, the entry into the table last.
AppendChunk(f, s, p) ==
  LET w == WriteAt(f, f.size + 1, p)
      e == [index |-> (f.size + 1) % IndexLimit, sectors |-> Sectors[p] % SectorLimit]
  IN  [table |-> [w.table EXCEPT ![s] = e], size |-> w.size, data |-> w.data]

SaveChunk(f, s, p) == IF Used(f, s) THEN Rewrite(f, s, p) ELSE AppendChunk(f, s, p)

\* loadChunk reads the sectors of the entry; unSerialize finds the lengths in the first.
LoadChunk(f, s) ==
  IF ~Used(f, s) THEN Absent
  ELSE LET e == f.table[s]
       IN  IF \E p \in Payload :
                /\ Sectors[p] <= e.sectors
                /\ \A k \in 1..Sectors[p] :
                     /\ e.index + k - 1 <= f.size
                     /\ f.data[e.index + k - 1] = <<p, k>>
           THEN f.data[e.index][1]
           ELSE Torn

\* How much a save makes the file grow.
Growth(f, s, p) ==
  IF ~Used(f, s) THEN Sectors[p]
  ELSE IF Sectors[p] > f.table[s].sectors THEN Sectors[p] - f.table[s].sectors ELSE 0

\* Bound: every index the file needs fits the 16 bits of a table entry.
FitsIndex(f, s, p) == f.size + Growth(f, s, p) < IndexLimit

-----------------------------------------------------------------------------
(* The world and its chunks.                                               *)

Init ==
  /\ file = EmptyFile
  /\ mem = [s \in Slot |-> Absent]
  /\ changed = [s \in Slot |-> FALSE]

\* Server::init: world.getChunk makes a blank chunk, loadChunk fills it if the table has it.
Load(s) ==
  /\ mem[s] = Absent
  /\ mem' = [mem EXCEPT ![s] = IF Used(file, s) THEN LoadChunk(file, s) ELSE Blank]
  /\ UNCHANGED <<file, changed>>

EditKeepsFlag(s, p) ==           \* mutant: the change is not marked
  /\ mem[s] # Absent
  /\ mem' = [mem EXCEPT ![s] = p]
  /\ UNCHANGED <<file, changed>>

\* Chunk::setBlock, setSunlight, setTorchlight.
Edit(s, p) ==
  /\ mem[s] # Absent
  /\ mem' = [mem EXCEPT ![s] = p]
  /\ changed' = [changed EXCEPT ![s] = TRUE]
  /\ UNCHANGED file

\* World::deleteChunk with the server's delete callback.
Unload(s) ==
  /\ mem[s] # Absent
  /\ IF changed[s]
       THEN /\ FitsIndex(file, s, mem[s])
            /\ file' = SaveChunk(file, s, mem[s])
       ELSE UNCHANGED file
  /\ mem' = [mem EXCEPT ![s] = Absent]
  /\ changed' = [changed EXCEPT ![s] = FALSE]

\* WorldGenerator::generate saves each chunk of its own world, new or already in the file.
Generate(s, p) ==
  /\ mem[s] = Absent
  /\ FitsIndex(file, s, p)
  /\ file' = SaveChunk(file, s, p)
  /\ UNCHANGED <<mem, changed>>

Next ==
  \E s \in Slot :
    \/ Load(s)
    \/ Unload(s)
    \/ \E p \in Payload : Edit(s, p) \/ Generate(s, p)

Spec == Init /\ [][Next]_vars

-----------------------------------------------------------------------------
(* Properties.                                                             *)

(* The shapes of the file, the chunks in memory and their flags.           *)
IsFile(f) ==
  /\ f = [table |-> f.table, size |-> f.size, data |-> f.data]
  /\ f.table \in [Slot -> Entry]
  /\ f.size \in Nat
  /\ f.data \in [1..f.size -> Sector]

TypeOK ==
  /\ IsFile(file)
  /\ mem \in [Slot -> Payload \cup {Absent}]
  /\ changed \in [Slot -> BOOLEAN]

(* The table of ChunkIO never gives one sector to two chunks.  An append,  *)
(* an in-place save or a resize that misplaces or fails to move an entry   *)
(* would let one chunk's next save overwrite another's blocks.             *)
ExtentsDisjoint ==
  \A s, q \in Slot : s # q => Extent(file, s) \cap Extent(file, q) = {}

(* Every sector of the file belongs to a chunk and every extent lies in    *)
(* the file: appends and resizes leave no hole and never point past the    *)
(* end, so the end of the file is where the next chunk may go.             *)
SectorsPartitioned == UNION {Extent(file, s) : s \in Slot} = 1..file.size

(* Whatever the order of saves, appends and resizes, each used extent      *)
(* starts with the whole serialization of a single content, so loadChunk   *)
(* never decodes a mixture of two chunks.                                  *)
NeverTorn == \A s \in Slot : LoadChunk(file, s) # Torn

(* A chunk whose changedFromDisk flag is off is what the file would give   *)
(* back: deleteChunk may drop it without saving.                           *)
CleanMatchesFile ==
  \A s \in Slot :
    mem[s] # Absent /\ ~changed[s] =>
      mem[s] = IF Used(file, s) THEN LoadChunk(file, s) ELSE Blank

(* The region file implements the chunk store: loading gives back the last *)
(* content saved for that slot, and saving a slot changes no other.        *)
Store == INSTANCE ChunkStore WITH store <- [s \in Slot |-> LoadChunk(file, s)]
ImplementsStore == Store!Spec
=============================================================================
