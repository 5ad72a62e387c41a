----------------------------- MODULE SaveSession -----------------------------
(***************************************************************************)
(* The life of a world's save over several runs of the program: Server's   *)
(* init, run and shutdown, WorldGenerator::generate, and the two ChunkIO   *)
(* objects through which they reach a region file.                         *)
(*                                                                         *)
(* Neither ChunkIO ever closes its FILE (flushSaveBuffer has no caller).   *)
(* The bytes written since a handle's last fseek stay in its stdio buffer: *)
(* after an append the table entry, after a rewrite the end of the data.   *)
(* They reach the file at the handle's next fseek or when stdio flushes    *)
(* its streams at the exit, and are lost when the process is killed.  The  *)
(* generator's handle is not used again once the world is generated, so    *)
(* its last entry waits there while the server works through a handle of   *)
(* its own.                                                                *)
(*                                                                         *)
(* `file` is what the operating system has.  A kill may fall between two   *)
(* saves or inside one, between the writes of resizeSector and saveChunk.  *)
(* stdio writes out whole blocks of the file, and as the table is 768      *)
(* bytes long a block ends inside a sector: the file a killed append       *)
(* leaves behind ends in the middle of one.  saveChunk appends there, but  *)
(* notes the sector (ChunkIO.cpp divides and truncates), so that chunk and *)
(* all that are appended later lie a part of a sector behind the places    *)
(* their entries name: they are astray until they are saved in place.      *)
(* A kill before the table of a new file is written is worse: the file     *)
(* stays without one for ever.                                             *)
(* A client that has drawn a frame in game does not exit, it terminates:   *)
(* its static Job deletes a std::thread that can still be joined.  Where   *)
(* abort does not flush stdio that is a kill after the last save.          *)
(***************************************************************************)
EXTENDS RegionFile

CONSTANTS
  None,               \* an empty stdio buffer
  FirstSessionEdits,  \* whether blocks are set in the run that generated the world
  MaxKills            \* bound: how often the process ends without flushing

\* What a stdio buffer can hold: a table entry after an append; after a rewrite the sectors
\* of a payload, which starts at pos, from a certain one on.
Writes ==
  [kind : {"entry"}, slot : Slot, entry : Entry] \cup
  {w \in [kind : {"tail"}, slot : Slot, pos : Nat, payload : Payload, from : 1..MaxSectors] :
     w.from <= Sectors[w.payload]}

ASSUME SessionAssumption ==
  /\ FirstSessionEdits \in BOOLEAN /\ MaxKills \in Nat /\ None \notin Writes
  /\ Hole # Cut /\ Cut \notin Payload \X (1..MaxSectors)

VARIABLES
  phase,     \* "off", "generating", "running" or "stopping"
  info,      \* save/info.json says "generated"
  fresh,     \* this run generated the world
  todo,      \* chunks still to be generated, or to be deleted at the end
  pend,      \* pend[h]: what handle h has in its buffer
  created,   \* the region file: "no", "empty" (it has no table) or "yes"
  saved,     \* history: what saveChunk was last given for a slot
  astray,    \* history: slots whose entries have not named their data since the last save
  kills      \* kills so far

session == <<file, mem, changed, phase, info, fresh, todo, pend, created, saved, astray, kills>>

Handle == {"generator", "server"}

-----------------------------------------------------------------------------
(* Writing, and what is buffered.                                          *)

\* The file ends in the middle of a sector.
Ragged(f) == f.size > 0 /\ f.data[f.size] = Cut

WholeSectors(f) == IF Ragged(f) THEN f.size - 1 ELSE f.size

\* Sector k once a part of it has been overwritten.
InPart(f, k) == IF k > f.size \/ (k = f.size /\ Ragged(f)) THEN Cut ELSE Hole

\* Sectors lo to hi of p, which starts at pos, and a part of the next one if part says so.
WritePart(f, pos, p, lo, hi, part) ==
  LET last == pos + hi - 1
      end  == IF part THEN last + 1 ELSE last
      size == IF end >= pos + lo - 1 /\ end > f.size THEN end ELSE f.size
  IN  [table |-> f.table,
       size  |-> size,
       data  |-> [k \in 1..size |-> IF k \in (pos + lo - 1)..last THEN <<p, k - pos + 1>>
                                    ELSE IF part /\ k = end THEN InPart(f, k)
                                    ELSE IF k <= f.size THEN f.data[k] ELSE Hole]]

\* As many bytes as n sectors have, from the middle of the last sector on.
WriteAstray(f, n) ==
  [table |-> f.table,
   size  |-> f.size + n,
   data  |-> [k \in 1..(f.size + n) |-> IF k <= f.size THEN f.data[k]
                                        ELSE IF k < f.size + n THEN Hole ELSE Cut]]

EntryWrite(s, e)        == [kind |-> "entry", slot |-> s, entry |-> e]
TailWrite(s, pos, p, n) == [kind |-> "tail", slot |-> s, pos |-> pos, payload |-> p, from |-> n]

FlushForgets(f, w) == f          \* mutant: fseek drops what is buffered

\* The file once a buffer has been written to it.
Flush(f, w) ==
  IF w = None THEN f
  ELSE IF w.kind = "entry"
    THEN [table |-> [f.table EXCEPT ![w.slot] = w.entry], size |-> f.size, data |-> f.data]
  ELSE WritePart(f, w.pos, w.payload, w.from, Sectors[w.payload], FALSE)

-----------------------------------------------------------------------------
(* saveChunk of content p for slot s through handle h; g is the file once  *)
(* its first fseek has flushed the handle.                                 *)

\* resizeSector reads from the end of the extent to the end of the file.  When a kill has
\* cut the extent off, it asks for a buffer of negative size and the program ends: there
\* the model stops.
Movable(f, e) == e.index + e.sectors <= WholeSectors(f) + 1

\* The slot has an entry: the data goes to its place, from sector n on it stays in the
\* buffer.  Where stdio has written out a block, it has written a part of that sector too.
SaveInPlace(h, s, p, g) ==
  LET e == g.table[s]
      r == IF Sectors[p] > e.sectors THEN ResizeSector(g, s, Sectors[p] - e.sectors) ELSE g
  IN  /\ Used(g, s)
      /\ Movable(g, e) \/ Sectors[p] <= e.sectors
      /\ \E n \in 1..Sectors[p], part \in BOOLEAN :
           /\ part \/ n = 1
           /\ file' = WritePart(r, e.index, p, 1, n - 1, part)
           /\ pend' = [pend EXCEPT ![h] = TailWrite(s, e.index, p, n)]
      /\ astray' = astray \ {s}

\* It has none: the data goes to the end of the file, the entry stays in the buffer.
SaveAtEnd(h, s, p, g) ==
  LET w == AppendChunk(g, s, p)
  IN  /\ ~Used(g, s) /\ ~Ragged(g)
      /\ file' = [table |-> g.table, size |-> w.size, data |-> w.data]
      /\ pend' = [pend EXCEPT ![h] = EntryWrite(s, w.table[s])]
      /\ astray' = astray \ {s}

\* The same where the end lies inside a sector: the entry names the one it lies in.
SaveAtRaggedEnd(h, s, p, g) ==
  LET e == [index |-> g.size % IndexLimit, sectors |-> Sectors[p] % SectorLimit]
  IN  /\ ~Used(g, s) /\ Ragged(g)
      /\ file' = WriteAstray(g, Sectors[p])
      /\ pend' = [pend EXCEPT ![h] = EntryWrite(s, e)]
      /\ astray' = astray \cup {s}

\* Without a table the entries are read out of chunk data and written into it.  The model
\* does not follow the file any further: whatever is saved is astray.
SaveWithoutTable(s) ==
  /\ created = "empty"
  /\ astray' = astray \cup {s}
  /\ UNCHANGED <<file, pend, created>>

\* With it; the first fseek of all has written the table of a new file.
SaveWithTable(h, s, p, g) ==
  /\ created # "empty" /\ created' = "yes"
  /\ FitsIndex(g, s, p)
  /\ SaveInPlace(h, s, p, g) \/ SaveAtEnd(h, s, p, g) \/ SaveAtRaggedEnd(h, s, p, g)

Save(h, s, p) ==
  /\ SaveWithTable(h, s, p, Flush(file, pend[h])) \/ SaveWithoutTable(s)
  /\ saved' = [saved EXCEPT ![s] = p]

-----------------------------------------------------------------------------
\* Server::init's loop over all chunks.  Decoding sectors that are not one chunk is undefined
\* behaviour: Torn stands for whatever blocks it gives.
Loaded ==
  [s \in Slot |-> IF created = "empty" THEN Torn
                  ELSE IF Used(file, s) THEN LoadChunk(file, s) ELSE Blank]

SessionInit ==
  /\ Init
  /\ phase = "off"
  /\ info = FALSE
  /\ fresh = FALSE
  /\ todo = {}
  /\ pend = [h \in Handle |-> None]
  /\ created = "no"
  /\ astray = {}
  /\ saved = [s \in Slot |-> Absent]
  /\ kills = 0

\* Server::init up to generate, or to its end when info.json says so.
Start ==
  /\ phase = "off"
  /\ fresh' = ~info
  /\ IF info
       THEN phase' = "running" /\ mem' = Loaded /\ UNCHANGED todo
       ELSE phase' = "generating" /\ todo' = Slot /\ UNCHANGED mem
  /\ UNCHANGED <<file, changed, info, pend, created, saved, astray, kills>>

\* generate saves its chunks one by one.
GenerateChunk(s, p) ==
  /\ phase = "generating"
  /\ s \in todo
  /\ Save("generator", s, p)
  /\ todo' = todo \ {s}
  /\ UNCHANGED <<mem, changed, phase, info, fresh, kills>>

\* generate writes info.json and returns; the server loads its chunks from the file.
ServeGenerated ==
  /\ phase = "generating"
  /\ todo = {}
  /\ info' = TRUE
  /\ phase' = "running"
  /\ mem' = Loaded
  /\ UNCHANGED <<file, changed, fresh, todo, pend, created, saved, astray, kills>>

SetBlock(s, p) ==
  /\ phase = "running"
  /\ fresh => FirstSessionEdits
  /\ Edit(s, p)
  /\ UNCHANGED <<phase, info, fresh, todo, pend, created, saved, astray, kills>>

\* run leaves its loop for deleteAllChunks.
Stop ==
  /\ phase = "running"
  /\ phase' = "stopping"
  /\ todo' = Slot
  /\ UNCHANGED <<file, mem, changed, info, fresh, pend, created, saved, astray, kills>>

\* deleteChunk with the delete callback.
DeleteChunk(s) ==
  /\ phase = "stopping"
  /\ s \in todo
  /\ IF changed[s] THEN Save("server", s, mem[s])
                   ELSE UNCHANGED <<file, pend, created, saved, astray>>
  /\ todo' = todo \ {s}
  /\ mem' = [mem EXCEPT ![s] = Absent]
  /\ changed' = [changed EXCEPT ![s] = FALSE]
  /\ UNCHANGED <<phase, info, fresh, kills>>

\* The process ends with file f and without flushing: what is in memory or in a buffer
\* is lost.  Of a chunk that is hit, what the file gives is what counts as saved.
Lose(f, hit) ==
  /\ phase # "off"
  /\ kills < MaxKills
  /\ kills' = kills + 1
  /\ file' = f
  /\ pend' = [h \in Handle |-> None]
  /\ saved' = [s \in Slot |-> IF s \in hit THEN LoadChunk(f, s) ELSE saved[s]]
  /\ astray' = astray \ hit
  /\ mem' = [s \in Slot |-> Absent]
  /\ changed' = [s \in Slot |-> FALSE]
  /\ phase' = "off"
  /\ todo' = {}
  /\ UNCHANGED <<info, fresh>>

\* The chunks whose last bytes wait in the buffers of the handles hs.
Buffered(hs) == {pend[h].slot : h \in {i \in hs : pend[i] # None}}

ExitClosesServerOnly ==          \* mutant: only the server's handle is flushed
  /\ phase = "stopping"
  /\ todo = {}
  /\ file' = Flush(file, pend["server"])
  /\ pend' = [pend EXCEPT !["server"] = None]
  /\ phase' = "off"
  /\ UNCHANGED <<mem, changed, info, fresh, todo, created, saved, astray, kills>>

\* The process exits: stdio flushes its streams, the last opened first.
Exit ==
  /\ phase = "stopping"
  /\ todo = {}
  /\ file' = Flush(Flush(file, pend["server"]), pend["generator"])
  /\ pend' = [h \in Handle |-> None]
  /\ phase' = "off"
  /\ UNCHANGED <<mem, changed, info, fresh, todo, created, saved, astray, kills>>

\* Job::~Job ends the process among the destructors of static objects, before stdio flushes.
ExitTerminates ==
  /\ phase = "stopping"
  /\ todo = {}
  /\ Lose(file, Buffered(Handle))
  /\ UNCHANGED created

\* The process is killed between two saves.
Kill == Lose(file, Buffered(Handle)) /\ UNCHANGED created

\* The file when m of the sectors behind slot s have been moved by g, and a part of the next
\* one if there is one; the table has not been written yet.
PartlyMoved(f, s, g, m) ==
  LET start == f.table[s].index + f.table[s].sectors
      last  == start + g + m - 1
      part  == start + m <= f.size
      end   == IF part THEN last + 1 ELSE last
      size  == IF start <= f.size /\ end > f.size THEN end ELSE f.size
  IN  [table |-> f.table,
       size  |-> size,
       data  |-> [k \in 1..size |-> IF k \in (start + g)..last THEN f.data[k - g]
                                    ELSE IF part /\ k = end THEN InPart(f, k)
                                    ELSE IF k <= f.size THEN f.data[k] ELSE Hole]]

Behind(f, s) == {q \in Slot : f.table[q].index > f.table[s].index}

\* saveChunk cut short before the last of its writes.  Whatever follows (the table of
\* resizeSector, sectors in place, the end of an append) is the state after Save, then Kill.
\* An append has written some sectors and no entry,
KillInAppend(h, s, p, g) ==
  /\ ~Used(g, s)
  /\ \/ Lose(g, Buffered(Handle \ {h}))
     \/ \E n \in 0..(Sectors[p] - 1) :
          Lose(IF Ragged(g) THEN WriteAstray(g, n) ELSE WritePart(g, g.size + 1, p, 1, n, TRUE),
               Buffered(Handle \ {h}))

\* a resize has moved some sectors and not the table,
KillInResize(h, s, p, g) ==
  LET e == g.table[s]
      d == Sectors[p] - e.sectors
  IN  /\ Used(g, s) /\ d > 0 /\ Movable(g, e)
      /\ \/ Lose(g, Buffered(Handle \ {h}))
         \/ \E m \in 0..(g.size - e.index - e.sectors + 1) :
              Lose(PartlyMoved(g, s, d, m), Buffered(Handle \ {h}) \cup Behind(g, s))

\* a new file has not got its table.
KillInSave(h, s, p) ==
  LET g == Flush(file, pend[h])
  IN  \/ /\ created # "empty" /\ created' = "yes"
         /\ FitsIndex(g, s, p)
         /\ KillInAppend(h, s, p, g) \/ KillInResize(h, s, p, g)
      \/ created = "no" /\ created' = "empty" /\ Lose(file, {})

KillGenerating(s, p) == phase = "generating" /\ s \in todo /\ KillInSave("generator", s, p)
KillDeleting(s) ==
  phase = "stopping" /\ s \in todo /\ changed[s] /\ KillInSave("server", s, mem[s])

SessionNext ==
  \/ Start \/ ServeGenerated \/ Stop \/ Exit \/ ExitTerminates \/ Kill
  \/ \E s \in Slot :
       \/ DeleteChunk(s) \/ KillDeleting(s)
       \/ \E p \in Payload : GenerateChunk(s, p) \/ KillGenerating(s, p) \/ SetBlock(s, p)

SessionSpec == SessionInit /\ [][SessionNext]_session

-----------------------------------------------------------------------------
(* Properties.                                                             *)

(* The shapes of the state.  A buffer lives no longer than its process,    *)
(* and a chunk that has to be saved is one somebody has set a block in.    *)
SessionTypeOK ==
  /\ IsFile(file)
  /\ mem \in [Slot -> Payload \cup {Absent, Torn}]
  /\ changed \in [Slot -> BOOLEAN]
  /\ \A s \in Slot : changed[s] => mem[s] \in Payload
  /\ phase \in {"off", "generating", "running", "stopping"}
  /\ info \in BOOLEAN /\ fresh \in BOOLEAN
  /\ todo \subseteq Slot
  /\ kills \in 0..MaxKills
  /\ pend \in [Handle -> Writes \cup {None}]
  /\ phase = "off" => \A h \in Handle : pend[h] = None
  /\ created \in {"no", "empty", "yes"}
  /\ saved \in [Slot -> Payload \cup {Absent, Torn}]
  /\ astray \subseteq Slot

(* At any moment the file gives back what was last saved for every chunk   *)
(* but the one a handle still holds in its buffer and those astray.  So an *)
(* exit that flushes costs nothing; a kill costs the chunks in the buffers,*)
(* and inside a resize those that were being moved, never one stored in    *)
(* front of the chunk that grows nor that one itself.  A kill inside an    *)
(* append damages nothing that is stored: what it costs are the chunks     *)
(* that are appended after it, which go astray.  Without a kill none does. *)
OnlyLastSaveAtRisk ==
  /\ \A s \in Slot \ (Buffered(Handle) \cup astray) : LoadChunk(file, s) = saved[s]
  /\ astray # {} => kills > 0

(* What is being edited is what is stored: a chunk of the running server   *)
(* that has not changed and was not astray is the one saved last, which    *)
(* the next start will load.  A chunk that was loaded before its entry had *)
(* reached the file differs.                                               *)
UnchangedMatchesSaved ==
  phase = "running" /\ ~fresh =>
    \A s \in Slot \ astray : ~changed[s] => mem[s] = IF saved[s] = Absent THEN Blank ELSE saved[s]

(* "update all indices in the buffer that are ahead of this updated chunk" *)
(* (ChunkIO.cpp): after an orderly shutdown no table entry points into the *)
(* middle of another chunk.                                                *)
IndicesFollowShifts ==
  phase = "off" => \A s, q \in Slot : s # q => Extent(file, s) \cap Extent(file, q) = {}
=============================================================================
