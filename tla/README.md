# A verification project for voxel-game

A Minecraft-like game in C++14: a client that renders and plays, a server (integrated or
dedicated) that owns the world, ENet between them, and mods in LuaJIT. The repository has no
tests and its README only says how to build and run. The TLA+ modules here model the parts
whose correctness depends on the order of steps; TLC checks them on small instances and TLAPS
proves the results listed under *Proofs* for every value of the constants.

All paths are below `src/` of the repository, so `src/server/Server.cpp` is `src/src/server/Server.cpp`
in `PROJECT.json`. `PROJECT.json` maps every definition to the lines it stands for.

## 1. Inventory

| Component | State | Operations | Talks to |
|---|---|---|---|
| **Chunk storage** `server/ChunkIO` | one `FILE` per region with a table of (16-bit index, 8-bit sector count) and sectors of 1 kB; stdio buffers; `mx` | `getFile`, `chunkHasFile`, `loadChunk`, `saveChunk`, `resizeSector`, `flushSaveBuffer` (never called) | server (load at start, save at delete), world generator (its own `ChunkIO`) |
| **World generation** `common/WorldGenerator`, Lua `worldgen.lua` | its own `World`, `info.json` | `generate`, `addDecorationBlock`, noise | chunk storage |
| **Server** `server/Server`, `ServerWorld` | `ServerWorld`, players, `running` | `init`, `run`, `updatePlayerMovements`, `receivePackets`, `shutdown` | server network manager, chunk storage |
| **World** `common/World` | chunk map, entities, delete callback, `mouseOver` | `getChunk`, `getBlock`, `setBlock`, `deleteChunk`, `informChunkChange`, `getChunkNeighborhood`, `raycastBlocks`, `update` | chunks, both networks through its subclasses |
| **Chunk** `common/Chunk` | blocks, light, height map, `changedFromDisk`, `isDirty`, `hasNeighbors` | `setBlock`, `setBlockRaw`, the six light searches, `calculateSunLighting`, `serialize`, `unSerialize` | world (neighbourhood), chunk storage and packets (serialization) |
| **Client chunk management** `client/Client`, `ClientWorld` | `expectedChunks`, world, players | `manageChunks`, `receivePackets`, `connectToServer`, `setBlock` | client network manager, chunk renderers |
| **Chunk renderers** `client/WorldRenderer`, `ChunkRenderer`, `ChunkMesh` | renderer map, list, dead renderers, four mesh queues and threads | `getChunkRenderer`, `deleteChunkRenderer`, `render`, `generateMesh` | world (reads blocks), OpenGL |
| **Worker job** `util/Job`, `Client::render` | two queues, `abortNetworkProcessing` | `run`, `wait` | client (chunks, packets) while the main thread renders |
| **Networks** `client/NetworkManagerClient`, `server/NetworkManagerServer`, `util/Packet` | ENet peers, `packetBuffer` | connect, send, broadcast, poll | each other |
| **Player** `common/Player`, Lua `Player.lua` | position, velocity, held item | `update`, `getCollisions`, movement, digging, placing | world |
| **Inventory, items, crafting** `mods/base` | stacks, held stack, recipes | `addItems`, `takeItems`, slots, `onUse` | Lua events, world |
| **Lua bindings, blocks, entities, engine, vendored code** | registries filled at start | — | everything |

### What is hard here

* **Storage.** A chunk that outgrows its sectors moves everything behind it and the table with
  it; two `ChunkIO` objects have the same file open and neither closes it, so what is on disk
  at an exit or a kill depends on which stdio buffer holds what.
* **Chunk transfer.** Chunks are requested, dropped and requested again while the player walks;
  replies arrive for chunks that are no longer wanted; blocks are set optimistically on the
  client, ordered by the server and broadcast to everyone, between the snapshots.
* **Chunks out of nowhere.** `World::getChunk` creates what it does not find. Ray casts,
  collision tests, lighting and out-of-range broadcasts leave blank chunks in the client's map,
  which `manageChunks` takes for loaded ones.
* **Renderers.** Raw pointers in a list and owners in a map, removal by swapping, recycling; and
  remesh jobs on other threads that keep a pointer to a renderer meanwhile recycled.
* **Frames.** Client packets are processed by a job while the main thread renders, without a
  lock on the world, and stopped through a plain `bool`.
* **Lighting.** Incremental removal and re-adding of light over chunk borders.
* **Widths.** Sector counts of 8 bits, indices and packet lengths of 16, run lengths of 8.

### What makes each component correct

* Storage: no sector belongs to two chunks; loading gives back what was saved last; a chunk
  whose flag is clean may be dropped; a kill costs what was being saved or moved, and nothing else
  that the file has (what is appended after it is another matter, see `SaveSession`).
* Transfer: each missing chunk is asked for once and arrives; a client's chunks from the server
  converge to the server's.
* Renderers: map, list and indices agree; what is drawn at a position is the world's chunk;
  every change of a chunk is meshed after it happened.
* Lighting: at rest the light equals what propagation from all sources gives; searches terminate.
* Inventory: no item appears or disappears.
* Frame: the job and the main thread never touch the client's world at once; packets are applied
  in order and none is lost whatever the time of the abort; frames and the shutdown go on.

## 2. Modules

| Module | Role | Models |
|---|---|---|
| `ChunkStore` | abstract specification | what storage promises to the server |
| `RegionFile` | component | `ChunkIO` behind one handle, with the world's load, edit and delete |
| `SaveSession` | composition, extends `RegionFile` | generator and server with a handle each, over starts, exits and kills |
| `ChunkSync` | composition of clients, networks and server | requests, chunk data, block packets, the chunk maps, clients that end |
| `FrameJob` | composition of the client's main thread, its job and the integrated server | `Client::run` and `render`, `Job`, the abort flag, `packetBuffer`, `Server::run` |
| `RendererPool` | component | `getChunkRenderer`, `deleteChunkRenderer` and the chunk map they look into |
| `Remesh` | composition of world, renderers and remesh threads | `isDirty`, `hasNeighbors`, the mesh queues and threads, the vertex buffer |
| `Lighting` | component | `Chunk::setBlock` with the searches for sun and torch light, `calculateSunLighting` |
| `ChunkCodec` | component | `Chunk::serialize` and `unSerialize`, `rleEncode` and `rleDecode` in steps |
| `MC…` | instances for TLC | small sets, symmetry |
| `RegionFileProofs`, `SaveSessionProofs`, `ChunkSyncProofs`, `FrameJobProofs`, `RendererPoolProofs`, `RemeshProofs`, `LightingProofs`, `ChunkCodecProofs` | TLAPS | the theorems below |

### `RegionFile` and `ChunkStore`

`file.table`, `file.size` and `file.data` are the lookup table, the number of sectors after it
and their contents. A sector is `<<p, k>>`, the k-th sector of the serialization of content
`p`; what the bytes are does not matter to where they are put. `SaveChunk` is `saveChunk` from
the table lookup to the last write, `ResizeSector` is `resizeSector` (which writes 0 bytes when
nothing lies behind the chunk), `GrownTable` its loop over the table. The entry of a chunk that
is appended is written after its data, as in the code. `mem` and `changed` are the World's chunk
and its `changedFromDisk`. `Load`, `Edit`, `Unload` and `Generate` are the callers: the loop of
`Server::init`, the setters of `Chunk`, `World::deleteChunk` with the server's callback, and the
generator. `Edit` is the setter that marks the chunk; `setBlockRaw`, which changes a block and not the flag and which only
mods call through Lua, is not modelled. `mx` serializes `loadChunk` and `saveChunk`, and every write is preceded by an `fseek`
that flushes the write before it, so behind one handle a call is a single step.

`ChunkStore` knows of neither sectors nor tables: `store[s]` is the last content saved.
`RegionFile` implements it with `store[s] <- LoadChunk(file, s)`.

### `SaveSession`

The program's runs: `Start` (generating when `info.json` does not say `generated`),
`GenerateChunk`, `ServeGenerated`, `SetBlock`, `Stop`, `DeleteChunk` and an end. Each handle has a
buffer `pend[h]`: after an append the table entry is in it, after a rewrite the end of the data,
from any sector on (stdio decides). A handle's next save flushes it first. `saved` is a history
variable, what `saveChunk` was last given; when an end has lost a chunk, what counts as saved for
it is what is in the file.

There are three ways to end. `Exit` closes both streams, the server's first (the one opened last).
`ExitTerminates` is the exit of a client that has started its job: the destructor of `Job` does not
join its thread, so `std::terminate` aborts the process, and no stream is flushed. `Kill` may
come at any time, also inside a save: `KillInSave` leaves the file as the writes so far have made
it (`KillInAppend`, or `KillInResize` with `PartlyMoved` for a move of the chunks behind; `resizeSector` writes
the data first and the table last). In the last two `Lose` drops what the buffers hold.

Where such a file ends is decided by stdio, which writes out blocks of 4096 bytes. The table takes 768 bytes, so
each block ends 256 bytes into a sector, and so does the file that a killed append leaves behind. Its last
sector is `Cut`, and the file is `Ragged`. `saveChunk` appends at `SEEK_END` all the same, computes the index with a
truncating division (`ChunkIO.cpp:174`), and writes an entry that begins in front of the data. This chunk and all
that are appended later, whose ends are no better aligned, are `astray`: what is loaded for them is `Torn`, until a
later save puts them into the place their entry names. That is what the code does after one kill while it
generates a world, and it goes on to serve such a world; no line of the repository says otherwise. A world
whose generation was killed is generated again, over what is in the file: the chunks the table knows are
rewritten in place, the others appended astray.

A new region file is `created` in two steps: `fopen` makes it, and its table is in the buffer until the first
`fseek`. A kill in between leaves an empty file, which every later run takes for one with a table. All chunks saved
to it count as astray and what is loaded as `Torn`; what the bytes of the file become is not followed.

`resizeSector` computes how much lies behind a chunk as a difference that is negative when a kill has cut the
chunk's extent off (`Movable` is false). It then asks for a buffer of negative size and the program ends; the model has
no step there. `Torn` stands for whatever blocks decoding such sectors gives. The server loads torn chunks like others,
and they may be edited and saved.

### `ChunkSync`

A client's `mem` is its chunk map (`Absent`: no entry), `shown` the positions that have a
`ChunkRenderer`, i.e. that the server has sent, `expected` the keys of `expectedChunks`, `up` and
`down` the queues of one ENet channel each way, `down` with the client's `packetBuffer` at its
end. `ManageChunks` deletes what is out of range, then asks for what is missing and not expected,
in the code's loop order. It runs in `Connect` and at the end of every `Move`, since between two
frames without a move or a packet it does nothing. `Created` is `World::getChunk`; `Placed` is
`World::setBlock`, whose lighting takes (and creates) the whole neighbourhood; `Effects` is
`ServerWorld::setBlock` with the one `onPlace` of the base mod, `base:stone` placing dirt on top.
Blocks of a chunk are one column of `Height` cells, and `onPlace` may set the one above it, which
`setBlock` ignores after having created the chunk.

`Leave` is the end of a client's process. Some of what it had sent still arrives; its chunks, renderers and
expectations are gone, the server sends it nothing more (`getPeer`, the peers of a broadcast), and
it may connect again once its packets have been dealt with.

### `RendererPool`

`renderers` is `chunkRenderers`, `list` is `rendererList`, `dead` is `deadRenderers`, and `pos`,
`index`, `chunk` are fields of a renderer. Chunk objects are numbered, so that one deleted and
created again at the same position is another one. `Receive` is a chunk packet (`getChunk`,
`unSerialize`, `getChunkRenderer`), `Drop` a deletion by `manageChunks`, `Touch` any other
`getChunk`.

### `Remesh`

`world`, `hasNeighbors` and `dirty` are the chunk map and two flags of its chunks; `FlagsAfter` is
what the calls of `informChunkChange` do to them, one per chunk made, in the order they are made.
`queue[l]` and `busy[l]` are a remesh queue and the job its thread works on. `generateMesh` reads a
chunk in `Parts` steps, `BeginMesh` and `PushFaces`, each appending to the `buffer` of the job's
renderer, and ends with `FinishMesh`, which sets `update` (`updateMesh`). `WorldRenderer::render` works
on one renderer at a time: `Enqueue` makes the job of a dirty chunk, `TakeMesh` is
`ChunkMesh::generate`, `DrawMesh` the reset of `updateMesh` after it, which a thread's
`FinishMesh` can precede. Contents are version numbers per part, and a mesh is the sequence of
what was pushed, so that a stale, doubled, cut or foreign mesh can be told from the right one. Chunk
objects are numbered (`gen`) and jobs keep theirs after the world has dropped it.

A mesh is made from nine chunks: which faces are seen, their light and their ambient occlusion depend on the blocks
and the light of the neighbours. The neighbourhood of a chunk, as far as its mesh shows it, is one version number, `edge`. It
changes when a neighbour is made, when one arrives from the server, and when a block or the light of a cell next to the chunk
changes. A job holds the neighbours it was made with (`near`, `getChunkNeighborhood`), also when the world has
dropped one and made it again meanwhile. Some changes mark the chunks that see them dirty: a block at a side marks the
chunk across it, and light marks the chunks it gets to (`lit` of `SetBlock`). Others do not: an arriving
chunk marks only itself (`Client.cpp:164-168`), a block in a corner not the chunk diagonally across it (`World.cpp:65-77`),
light on this side of a border not the chunk behind it, and a chunk that is made blank nobody either. `unmarked` remembers
that the surroundings of a chunk have changed in such a way since it was last marked.

`ChangesMeshed` and `DirtyGetsRead` are about the chunk's own blocks. `MeshExact` is about the whole mesh, `around` included,
under two conditions that name what the code leaves wrong.

* `~unmarked`: a chunk meshed before its neighbour arrives keeps faces and light made against a blank chunk until something
  marks it, and so does one that a corner block is set next to. Such meshes occur in the run.
* `~mixed`: the last job began `Undisturbed`. Without that condition TLC finds, within
  16 steps, a mesh drawn twice (two jobs for one renderer append to one buffer before a frame
  takes it), a mesh that is only the end of a chunk (a frame takes the buffer of an earlier, finished
  job while the thread is appending the next), a mesh that stays in the buffer (its `updateMesh` is
  reset by the frame that took the one before) and the mesh of another position (a job outlives its chunk, and its
  renderer is recycled). They are mended by later changes of the chunk, once one of its jobs begins with an empty buffer.

No line of the repository promises otherwise in either case, so they are listed as hazards and not as findings.

### `FrameJob`

`main` is where the main thread is in `Client::run`, `connectToServer` and `render`, `worker` where the
job's thread is in `Job::threadLoop` and in the closure it was given, `server` the integrated server's
thread. `StartJob` and `EndFrame` are `startJob` and `waitForJob`, which pass one token each way through
blocking queues. The closure is `Manage` (`manageChunks`), then `Poll` and `PollDone` (`processEvents`
moves what has arrived into `packetBuffer`), then `Test` and `Handle` for each packet until the buffer is
empty or the abort flag is seen. `RaiseAbort` comes after the drawing and before the wait; the flag is lowered
after it. `CloseWindow` and `JoinServer` end the program. Packets are numbers in the order the
server sent them.

### `Lighting`

`blocks` and `light` are `Chunk::blocks` and the two halves of `lightMap`; `removal` and `spread` the two
queues of a search. An action takes one node: `Propagate` for sun and torch light (which differ only in `Passed`:
the sun keeps its strength downwards), `UnPropagate` for their removal, `Generate` for
`calculateSunLighting`. `Open` and `Fill` are the two halves of `setBlock`, what it does to the block and
which nodes it enqueues. Only when a search has ended does the next start, since all this is one thread's call.

The world is a slice one block thick. `SunExact` and `TorchExact` compare the incremental result with the
fixed point of the sources. `TorchExact` holds until torch light is removed in a row above an emitter
(`shadowed`): the removal does not compare levels downwards, and takes the light of the emitter below
as well. TLC finds this after two edits when the condition is dropped: a glowstone, and a stone above it. No
line of the repository promises otherwise. `TorchSpread` holds even then. `SearchesEnd` is termination.

`SunExact` has a condition of the same kind. A removal of sun goes down with its level undiminished and puts out
whatever lies there (`Chunk.cpp:450`), and since the queue is not ordered by level it may get to a brighter cell
before the removal of what has lit that cell: `Overtakes`, remembered in `overtaken`. The cell is then
marked with too low a level, its own dependants look as if they had another source, and they stay lit. In the
run `lighting` no removal overtakes another (checked once as an invariant), so there the sun is exact without a
condition; the proof (section 5) showed that one can. With levels up to 6, in five columns of eight rows of stone: open the
shaft from (0,7) down to (0,1), the corridor (1,6) to (4,6), from there (4,5), (4,4), (3,4), (3,3), and from the foot
of the shaft (1,1), (2,1), (2,2), (3,2), (4,2). A stone at (0,6) then leaves light 1 in (4,2), where no sun comes
any more: the removal arrives at (3,2) from (3,3) above it with level 1 before it arrives from (2,2) with level 3.
TLC reaches this state when it is given these 21 edits in order (checked once); a run that chooses its edits does
not get so far. The repository promises nothing about such caves.

### `ChunkCodec`

`rleEncode` and `rleDecode` are written as their loops, one action for each branch of an iteration: `ExtendRun`
(the byte joins the run), `NewRun`, `FinishRun` (the end of an array), `DecodeByte`, `NextPair`, `FinishArray`.
`serialize` runs the encoder over the blocks, then over the light, behind a header of two lengths,
and `unSerialize` finds the second array with the first length. `data` holds pairs of bytes; `span`
is a history variable that says of which cells each pair was made.

## 3. Runs

| Run | Instance | Shows |
|---|---|---|
| `region_layout` | 3 slots, contents of 1, 2 and 3 sectors, at most 9 sectors | the layout invariants, and that the file is a `ChunkStore` |
| `save_session` | the same with at most 6 sectors, one end without a flush, no edits in the generating run | a kill between saves or inside one (in the middle of a sector, or before the file has a table), or an aborting exit, costs of what is stored at most the chunk in a buffer and those being moved; a flushing exit costs nothing; only chunks appended behind a broken end go astray; the server edits what is stored |
| `session_shift` | edits in the generating run, no kill | finding 1: an index that did not follow a shift |
| `chunk_sync` | 2 clients, a strip of 4 chunks with one outside the world, 1 block, 2 moves or ends of a client | accounting of requests, cover of the window, convergence |
| `chunk_sync_live` | 1 client, 1 block at the bottom or the top, 3 moves or ends | missing chunks arrive |
| `player_freeze` | the same | finding 2: the player is not frozen |
| `renderer_pool` | 3 positions, 3 renderers, 7 chunk objects | map, list, indices and chunks agree |
| `remesh` | 2 neighbouring chunks in lanes of their own, 2 renderers, 2 parts, 3 chunk objects, 3 versions of a part and 2 of what is around | no change of a chunk is lost; meshes of undisturbed jobs are exact, neighbours included, unless a neighbour has changed without marking the chunk |
| `remesh_live` | the same with 1 renderer | a dirty chunk is read again |
| `frame_job` | 4 packets, 2 chunks the player can be in, from the menu to the end | main thread and job exclude each other, order and completeness of packets, progress of frames and of the shutdown |
| `lighting` | 3 columns of 6, levels up to 3, 4 kinds of block, 3 terrains, 3 edits | light is exact after every edit, searches end |
| `chunk_codec` | all chunks of 4 cells and bytes of 3 values | decoding undoes encoding, within the buffer |

Every property of a passing run has a mutant in `PROJECT.json`: a plausible bug in one mapped
definition that makes the property fail under the same configuration. The mutated forms stand
right before the definitions they replace and are marked `mutant`.

### Bounds

* `MaxSectors = 3`, `SectorLimit = 4`, `IndexLimit`: a chunk grows by one or by two sectors, at the
  front, in the middle and at the end of the file, once or in two steps. Three slots give a chunk with
  neighbours on both sides. The widths of the entry are kept (`%`), and the guard `FitsIndex` and
  the assumption `MaxSectors < SectorLimit` keep the runs inside them; see *Not modelled*.
  `IndexLimit = 7` in `save_session` leaves room for three chunks of two sectors, or for one chunk
  growing to three behind and before others.
* `MaxKills = 1` counts kills and aborting exits alike (where `abort` flushes streams, as some C libraries
  do, such an exit is an `Exit`). One is enough for a ragged end and the appends behind it, for an empty file, and for a
  world that is generated again. With two `OnlyLastSaveAtRisk` fails: the first leaves a world half generated, the second cuts off the
  end of the file's last chunk after its table entry has grown, and the next append then starts inside that
  extent. The hazards list has it.
* `FirstSessionEdits = FALSE` in `save_session` excludes finding 1, `TRUE` in `session_shift`
  exhibits it.
* `Size = 4`, `ByteLimit = 3`: a run length says at most 2, so that runs of 3 and 4 are split, and the last
  value wraps to the first, as 255 does to 0.
* `MaxEdits`, `MaxMoves`, `MaxChunks` cap counters that only grow. Two moves of two clients include
  walking off and coming back before the reply; three of one client include leaving the range of a
  chunk, its late reply, and the return. A client's end counts as a move; two moves and an end of two clients
  (1 168 330 states) have been checked once, with the same result.
* `frame_job`: `MaxPackets = 4` is enough for an abort with packets waiting, for packets that
  arrive while others are handled, and for several frames that share them out.
* `lighting`: `Editable` is the two rows above the floor. Light of level 3 set there stays within the six rows, which
  it has to: above and below the world everything reads as fully lit, and a removal that gets to
  a lit cell at the bottom goes on below it for ever. Three edits are, for instance, two emitters and the removal
  of one, or a roof, water below it and the opening of the roof. Four edits (785 518 states), and four columns of seven with
  levels up to 4 and three edits (the invariants, 479 063 states), have been checked once, with the same result.
* `Parts = 2` and `EditedParts = {1}`: blocks change in the part that is read first, before, while and after
  it is read; the second part shows cut meshes. `MaxChunks = 3`, `MaxVersion = 3`: one of the two
  chunks is dropped and made again, an arriving chunk (version 2) is changed once more. `MaxEdge = 2`: the neighbour of a chunk
  is made, arrives or changes once after it, marked or not. One
  renderer in `remesh_live` is recycled between the two chunks; two in `remesh` are on screen together. The other
  neighbours of the two chunks are taken to stay in the world.
* The strip of four chunks has `RenderDistance = 1`: it contains positions in range, out of range and
  outside the world. The spawn is inside.
* Symmetry: slots in the region runs, clients in `chunk_sync`, positions and renderers in
  `renderer_pool`, renderers in `remesh`. The runs with liveness or a single client use none.
* `CHECK_DEADLOCK FALSE` wherever players may stop and the bounds are used up; `region_layout` checks
  deadlock.

### Fairness

The `FairSpec` of `ChunkSync` assumes weak fairness of a client's packet processing and of the server's, per client.
The server polls every ten milliseconds in `run`, and a client's frames go on. `receivePackets` of
the client stops when the main thread raises `abortNetworkProcessing`, and tests the flag before the
first packet; what is assumed is that the worker handles a packet within some frame, which is
`EveryPacketHandled` of `FrameJob`.

The `FairSpec` of `FrameJob` is weakly fair for each thread (the scheduler runs it when it can run), and strongly fair for
the worker's steps while the flag is down. The latter says that the worker does not
always meet the flag up: it is started before the drawing, and the flag is raised only when the frame
has been drawn. Without it a frame could always be over before the first packet, and `EveryPacketHandled` fails.
In `Lighting` the searches are loops of one thread, which go on.

The `FairSpec` of `Remesh` assumes that frames go on, each
walking over all renderers, and that the remesh threads run. Players are not fair: they need not
move or build.

## 4. Findings

1. `session_shift`: `ChunkIO.cpp:111` says that `resizeSector` updates all indices ahead of the
   chunk. The generator's last entry is still in its own buffer then; an exit that flushes writes it with the
   old index, and it points into another chunk (one that does not flush loses the entry).
2. `player_freeze`: `Player.cpp:307` says *freezes player if not in chunk*, but `getCollisions` has
   just called `getChunk` for that very position, which creates it.

## 5. Proofs

`RegionFileProofs` proves, for any set of slots, contents, sector counts and limits that satisfy
`ConstantsAssumption`: `TypeCorrect`, `DisjointExtents`, `PartitionedSectors`, `WholeLoads`,
`CleanChunksMatch` and `RegionFileImplementsStore`. None of the invariants is inductive alone. The inductive
invariant joins them: that an append goes to a free place needs that the extents cover the file and nothing
beyond; that moving everything behind a chunk keeps extents disjoint needs that each lies wholly before or
behind it; that a load is whole after a move needs to know which content each extent starts with, which is
what relates it to `mem`. The argument goes by the three ways a save changes a file (in place, grown,
appended), one lemma each for what it does to extents and to contents; the refinement is then one case per
action.

`RendererPoolProofs` proves `PoolTypeCorrect`, `ListAlwaysMatchesMap`, `DeadAlwaysFree` and
`AlwaysShowsWorldChunk` for any number of positions and renderers. Their conjunction is inductive and no
part is: the index of a renderer is right after a swap only if no two positions share a renderer; that
follows from each renderer on screen knowing its position, which survives recycling only because dead
renderers are off screen.

`ChunkCodecProofs` proves `AlwaysRoundTrip`, `AlwaysFitsBuffer`, `AlwaysMaximalRuns` and `CodecTypeCorrect`
for arrays of any length and bytes of any width of two values or more, so for the program's 65 536 cells and
256 values, which no model checker reaches. The invariant `CodecInv` says that the pairs written tile the
cells before the current run, each pair true of its span, the spans of an array following one another from
cell 1; the decoder's output ends `j` cells into the span of the pair it is at. The length bound follows
from the tiling: the n-th pair of an array reaches at least its n-th cell.

`FrameJobProofs` proves `FrameTypeCorrect`, `JobAlwaysWithinFrame`, `FrameAlwaysManaged`, `AlwaysInOrder`
and `AbortAlwaysBounds` for any number of packets, frames and places. The inductive invariant `FrameInv`
says that there is one token between the two threads: in a frame it is in the job queue, with the worker or
in the return queue, outside it is nowhere; that the place is managed once the token is past `Manage`; and
that the flag is up exactly in the wait, where the worker may have one packet in its hands if none was
handled since. The order of the packets needs none of this: each step moves the head of one queue to the end
of the next.

`SaveSessionProofs` proves `SessionTypeCorrect` for any number of sessions and kills, and, for any number of
sessions up to the second kill, `OneKillCostsBufferedChunks`, `UnchangedChunksMatch` and
`IndicesFollowWithoutFirstEdits`. The last three assume `~FirstSessionEdits`, without which the last is
false (finding 1). The invariant `SessionInv` speaks of two files: the one on disk, and `Flushed`, which an
exit would leave. Both are `Sound`, which is `RegionFile`'s `Layout` without what a kill takes away (extents
that end in the file, and no gaps). `Flushed` gives back what was saved for every chunk that is not astray. This is
preserved since only one
handle ever has something to lose (`ControlInv`), and since before the first kill the generating run only
appends and the later ones never append (`UnbrokenInv`): a chunk whose entry has grown while its sectors
have not is harmless as long as nothing is appended after it. After the kill either nothing is appended any more, since the
table knows every chunk (`Complete`), or every extent ends before the sector the file ends in (`Inside`). The entry of a chunk that
goes astray begins with that sector, so it shares none with the others, and they keep what they have. A file without a table
has no chunk that is not astray (`FileInv`). The bound of one kill is needed: with
`MaxKills = 2` TLC violates `OnlyLastSaveAtRisk`. A program killed twice while it generates first rewrites
the last chunk of the file without its end, and then appends the next chunk into its extent.

`ChunkSyncProofs` proves `SyncTypeCorrect`, `WindowAlwaysCovered`, `RequestsAlwaysAccountedFor` and
`ChunksAlwaysConverge` for any number of clients, any set of positions, render distance, terrain and column
of blocks. The invariant is `ClientInv` for each client. `Accounted` says that its two queues hold at most
one request or reply for a position, only for one it expects, and do hold one for each it expects that is
inside the world. `Converges` says of each cell of a chunk it has been sent that the last packet in its
queue which sets the cell sets what the server has (and if there is none, the cell already has it), unless
the client has a block of its own for it on its way to the server. That `manageChunks` asks once for each
missing position is a lemma about the order of its loops (`Rank`).

`RemeshProofs` proves `RemeshTypeCorrect`, `NeighborsAlwaysExist`, `ChangesAlwaysMeshed` and
`MeshAlwaysExact` for any number of positions, threads (lanes), renderers and parts of a chunk, and whatever
`MaxChunks` and `MaxVersion` are. `NeighborsExist` is inductive with the shapes (`ShapeInv`). `MeshExact`
says nothing until all work for a renderer is over, so its invariant `MeshPhase` says how far the last job
has come while it is not: once no change waits for a job and no job for a thread, one thread is pushing and
the buffer has the first parts of the chunk as it is now, or the whole of it is in the buffer for the main
thread to take, or it is being drawn, or has been. `ChangesMeshed` is what keeps the parts already pushed
true to the chunk: a change makes it dirty. `NearInv` is what keeps the neighbours true: the last of the jobs that wait for a clean chunk
whose surroundings have not changed unmarked holds the neighbours the world has now.

`LightingProofs` is about worlds of any size, any kinds of block (emitters are solid, liquids are not), and
any number of edits. `TorchAlwaysSpreads` is `TorchSpread` without further assumptions. Its invariant
`SpreadInv` says for each open cell and each neighbour, at every moment of a search, that the cell has what
the neighbour gives, or the neighbour is still in the queue of the spreading, or the cell is still in that
of the removal. `LightTypeCorrect` assumes `Floor`: the lowest row is solid, does not emit and is not
edited; without it a removal goes down below the world for ever. `SolidAlwaysDark` is what keeps removals
above the floor, and needs no assumption. `SunAlwaysSpreads` and `GeneratedSunExact` say that no sun is missing
after any edits, and that all of it is exact before the first one, whether or not anything is overtaken. They
assume `Columns`: the world is generated with land up to some height in each column and
one sea level for all, as `worldgen.lua` makes it. Under overhangs `calculateSunLighting`, which goes up and
down only, would leave the open cells at the side of a column dark. The invariant `GenerationInv` gives each
column a row down to which the sun has come.

`SunAlwaysExact` and `TorchAlwaysExact` are the other half, that no light stays without a source, and with it
the whole of `SunExact` (under `Floor` and `Columns`) and `TorchExact` (under `Floor`, `NoLamps`: nothing
generated emits, and `BelowSky`: edits stay so far below the top that their light does not meet the sky, which reads
as fully lit: up to row 240 of 256). That every lit cell has a source is not an invariant, since a removal puts
out cells that keep another source, and their dependants wait for the spreading that follows. The invariant
`Supported` therefore speaks of the light `W` that each cell has *or is to get back*: each open cell that may hope for
light either has a giver whose hope is enough for it, or is awaited by a node of the removal that will put it out.
During a removal (`Removing`) a cell that is to get its light back was put out from above, lies below a dark
cell, and no queued node has a higher level than it had: this is where `~overtaken` is needed, and where the
counterexample above was found. A step of a removal takes from `W` what it puts out at its own level or a higher
one and leaves there what it puts out below it (`RemovalSupported`); a node that is
queued twice comes with its higher level first (`Steady`). At rest all of `W` has come back
(`RestLit`: of the cells that lack light, the brightest and uppermost would have been served), so each light has a giver
(`RestSourced`). Torch light is taken away in the order of its levels (`Falling`), so it is never overtaken; but a
removal might put out an emitter from above. `Guarded` says why it does not, as long as every emitter is at least as
high as the cell that was set: the open cells above an emitter are lit by it (`ShoneOnLit`), more brightly than
the removal is when it gets there (`ShoneOnKept`).

The instances that TLC runs meet the assumptions of all these theorems. It evaluates the named ones
(`ConstantsAssumption`, `SessionAssumption`, `LightAssumption`, `FrameAssumption`) in every run; the terrains of
`MCLighting` have a floor, are columns under one sea and have no emitters, and its edits leave the room that
`BelowSky` asks for; `MCSaveSession.cfg` sets `FirstSessionEdits = FALSE` and `MaxKills = 1`.

Only model-checked:

* liveness (`SearchesEnd`, `MissingChunksArrive` and the like): temporal reasoning under fairness is out of
  the prover's reach;
* that no removal of sun overtakes another in the instance of `lighting`: it is no invariant of larger ones.

## 6. Not modelled

* Limits of the format: chunks of 33 and more sectors, which `saveChunk` writes and `loadChunk`'s
  buffer cannot take; sector counts and indices that overflow; a packet length of 16 bits for a
  serialization of up to 262 152 bytes (`AlwaysFitsBuffer`). `MaxSectors` and `FitsIndex` stay inside them.
* Which blocks a torn chunk decodes to (undefined behaviour; the model has one value, `Torn`), the bytes of a region file
  without a table, and a second end without a flush.
* `setBlockRaw`, with which a mod may change a block without marking the chunk.
* A client that comes back while packets of its first life are under way: `Connect` waits until they have been dealt with.
* Light at the top and the bottom of the world, and light that a client computes against chunks it never
  received. The hazards say what the code does there.
* Player positions and chat: they are only shown. ENet itself: reliable packets are delivered once and in order.
* The inventory in Lua: conservation of items by `addItems`, `takeItems` and the slots is not stated yet.
* A renderer that is recycled while it is drawn, and the threads that outlive the renderer at the exit.
* Terrain, movement and collision arithmetic, drawing, the GUI, and the vendored libraries.
* Lua registries and bindings, filled once at start.

## 7. Plan

1. Which caves let a removal of sun be overtaken: a condition on the terrain for `~overtaken`.
2. `RendererPool` with the drawing and `FrameJob`'s job: what a frame may draw while the job recycles.
3. Chunk replies in bytes on top of `ChunkCodec`: the 16-bit length, and what `rleCache` still holds of the reply before.
4. `Inventory`: adding, taking, crafting, dragging, against conservation of items.

Nearly all lines below `src/` are vendored libraries (sol2, a JSON parser, FreeType, LuaJIT, GLFW and
others), which this project takes as given; its modules are about the program's own C++ and Lua.
