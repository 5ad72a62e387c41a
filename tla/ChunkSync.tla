------------------------------ MODULE ChunkSync ------------------------------
(***************************************************************************)
(* The chunks a client holds and the server that owns them: manageChunks   *)
(* and receivePackets of client/Client.cpp, ClientWorld, ServerWorld,      *)
(* World's chunk map and receivePackets of server/Server.cpp.              *)
(*                                                                         *)
(* A client requests the chunks within its render distance, drops the ones *)
(* it left behind, places blocks at once in its own world and tells the    *)
(* server, which broadcasts every block it sets to all clients, the sender *)
(* included.  Packets are ENet's reliable ones on one channel: per client  *)
(* a queue towards the server (up) and one back (down), the latter holding *)
(* what is in flight and what waits in the client's packetBuffer.          *)
(*                                                                         *)
(* World::getChunk creates the chunk it does not find, so looking at or    *)
(* placing a block leaves blank chunks that no server ever sent; a chunk   *)
(* the server sent is one that has a ChunkRenderer (`shown`).              *)
(*                                                                         *)
(* A client ends without a word: the server notices when ENet times out.   *)
(* What it had sent arrives up to some packet; another process that takes  *)
(* its place later starts with nothing.                                    *)
(*                                                                         *)
(* A client's frame is update, manageChunks, receivePackets one after the  *)
(* other, so each of its actions is one step; receivePackets may stop      *)
(* after any packet (abortNetworkProcessing, see FrameJob).                *)
(***************************************************************************)
EXTENDS Integers, Sequences, SequencesExt

CONSTANTS
  Client,
  Pos,             \* chunk positions <<x, z>> a player can reach or see
  WorldSize,       \* WORLD_SIZE of Server.cpp
  RenderDistance,
  Spawn,           \* the chunk of the player's first position
  Height,          \* blocks of a chunk that are told apart: a column (256)
  Block,
  Air,             \* blocks of a new Chunk
  Stone, Dirt,     \* base:stone puts base:dirt on top of itself (onPlace)
  Terrain,         \* Terrain[p]: what the server loaded for a position
  Absent,          \* no chunk in the client's World
  Placements,      \* pairs <<y, block>> the clients place in a chunk
  MaxEdits,        \* bound: blocks placed by all clients together
  MaxMoves         \* bound: steps of all players into another chunk, and clients' ends

Cell  == 0..(Height - 1)
Chunk == [Cell -> Block]
BlankChunk == [y \in Cell |-> Air]

ASSUME ConstantsAssumption ==
  /\ Pos \subseteq Nat \X Nat
  /\ WorldSize \in Nat /\ RenderDistance \in Nat /\ Height \in Nat
  /\ MaxEdits \in Nat /\ MaxMoves \in Nat
  /\ Spawn \in Pos
  /\ {Air, Stone, Dirt} \subseteq Block
  /\ Placements \subseteq (0..(Height - 1)) \X Block
  /\ Stone # Dirt
  /\ Terrain \in [Pos -> Chunk]
  /\ Absent \notin Chunk

VARIABLES
  server,    \* server[p]: blocks of the server's chunk
  online,    \* clients that have connected
  player,    \* player[c]: the chunk the player is in
  mem,       \* mem[c][p]: blocks of the client's chunk, or Absent
  shown,     \* shown[c]: positions with a ChunkRenderer
  expected,  \* expected[c]: keys of expectedChunks
  up, down,  \* packets from and to a client
  edits,     \* blocks placed so far
  moves      \* steps made and clients ended so far

vars == <<server, online, player, mem, shown, expected, up, down, edits, moves>>

-----------------------------------------------------------------------------
(* Positions and packets.                                                  *)

Within(p, q, d) == p[1] - q[1] \in -d..d /\ p[2] - q[2] \in -d..d

Window(p) == {q \in Pos : Within(q, p, RenderDistance)}
Near(p)   == {q \in Pos : Within(q, p, 1)}

Earlier(p, q) == p[1] < q[1] \/ (p[1] = q[1] /\ p[2] < q[2])

\* receivePackets of the server answers for these only.
InWorld(p) == p[1] > 0 /\ p[2] > 0 /\ p[1] < WorldSize /\ p[2] < WorldSize

Request(p)        == [type |-> "request", pos |-> p]
ChunkData(p, k)   == [type |-> "chunk", pos |-> p, chunk |-> k]
SetBlock(p, y, b) == [type |-> "block", pos |-> p, y |-> y, block |-> b]

BlockPacket(ys) == [type : {"block"}, pos : Pos, y : ys, block : Block]
UpPacket        == [type : {"request"}, pos : Pos] \cup BlockPacket(Cell)
\* onPlace may place one block above the top of the chunk.
DownPacket      == [type : {"chunk"}, pos : Pos, chunk : Chunk] \cup BlockPacket(0..Height)

-----------------------------------------------------------------------------
(* World.                                                                  *)

\* getChunk for each position of ps.
Created(m, ps) == [p \in Pos |-> IF p \in ps /\ m[p] = Absent THEN BlankChunk ELSE m[p]]

\* World::setBlock with Chunk::setBlock: outside the column only getChunk happens,
\* inside it the lighting takes the chunk's whole neighbourhood.
Placed(m, p, y, b) ==
  IF y \in Cell
    THEN [Created(m, Near(p)) EXCEPT ![p] = [@ EXCEPT ![y] = b]]
    ELSE Created(m, {p})

\* What ServerWorld::setBlock places: the block, then what its onPlace places.
Effects(y, b) == <<[y |-> y, block |-> b]>> \o
                 (IF b = Stone THEN <<[y |-> y + 1, block |-> Dirt]>> ELSE <<>>)

-----------------------------------------------------------------------------
(* The client.                                                             *)

RequestsAgain(m, exp, to) == {p \in Window(to) : m[p] = Absent}  \* mutant: expectedChunks is ignored

RequestsShort(m, exp, to) ==     \* mutant: x < render_distance where the code has +1
  {p \in Window(to) : m[p] = Absent /\ p \notin exp /\ p[1] - to[1] < RenderDistance}

\* The positions manageChunks asks for.
Missing(m, exp, to) == {p \in Window(to) : m[p] = Absent /\ p \notin exp}

\* The requests for the positions ps, in the order of the code's loops: the rank of a
\* position is the number of those before it.
Rank(p, ps)   == Cardinality({q \in ps : Earlier(q, p)}) + 1
Requested(ps) ==
  [i \in 1..Cardinality(ps) |-> Request(CHOOSE p \in ps : Rank(p, ps) = i)]

KeepsRenderers(c, to, m) ==      \* mutant: deleteChunkRenderer is not called
  LET kept == [p \in Pos |-> IF p \in Window(to) THEN m[p] ELSE Absent]
      new  == Missing(kept, expected[c], to)
  IN  /\ mem'      = [mem EXCEPT ![c] = kept]
      /\ expected' = [expected EXCEPT ![c] = @ \cup new]
      /\ up'       = [up EXCEPT ![c] = @ \o Requested(new)]
      /\ UNCHANGED shown

\* manageChunks for a client whose world is m and whose player is now in chunk `to`.
ManageChunks(c, to, m) ==
  LET kept == [p \in Pos |-> IF p \in Window(to) THEN m[p] ELSE Absent]
      new  == Missing(kept, expected[c], to)
  IN  /\ mem'      = [mem EXCEPT ![c] = kept]
      /\ shown'    = [shown EXCEPT ![c] = @ \cap Window(to)]
      /\ expected' = [expected EXCEPT ![c] = @ \cup new]
      /\ up'       = [up EXCEPT ![c] = @ \o Requested(new)]

Init ==
  /\ server = Terrain
  /\ online = {}
  /\ player = [c \in Client |-> Spawn]
  /\ mem = [c \in Client |-> [p \in Pos |-> Absent]]
  /\ shown = [c \in Client |-> {}]
  /\ expected = [c \in Client |-> {}]
  /\ up = [c \in Client |-> <<>>]
  /\ down = [c \in Client |-> <<>>]
  /\ edits = 0 /\ moves = 0

\* connectToServer: the first manageChunks happens here.
Connect(c) ==
  /\ c \notin online /\ up[c] = <<>>
  /\ online' = online \cup {c}
  /\ ManageChunks(c, Spawn, mem[c])
  /\ UNCHANGED <<server, player, down, edits, moves>>

\* The client's process ends.
Leave(c) ==
  /\ c \in online
  /\ moves < MaxMoves
  /\ moves' = moves + 1
  /\ online' = online \ {c}
  /\ \E n \in 0..Len(up[c]) : up' = [up EXCEPT ![c] = SubSeq(@, 1, n)]
  /\ down' = [down EXCEPT ![c] = <<>>]
  /\ player' = [player EXCEPT ![c] = Spawn]
  /\ mem' = [mem EXCEPT ![c] = [p \in Pos |-> Absent]]
  /\ shown' = [shown EXCEPT ![c] = {}]
  /\ expected' = [expected EXCEPT ![c] = {}]
  /\ UNCHANGED <<server, edits>>

\* Player::update crosses into another chunk, then the frame's manageChunks.  The
\* collision tests of the move have created the chunk by the time it is looked for.
Move(c, to) ==
  /\ c \in online
  /\ moves < MaxMoves
  /\ to \in Near(player[c]) \ {player[c]}
  /\ player' = [player EXCEPT ![c] = to]
  /\ ManageChunks(c, to, Created(mem[c], {to}))
  /\ moves' = moves + 1
  /\ UNCHANGED <<server, online, down, edits>>

\* getCollisions or raycastBlocks looks at a block of a chunk the client does not have.
Look(c, p) ==
  /\ c \in online
  /\ p \in Near(player[c])
  /\ mem[c][p] = Absent
  /\ mem' = [mem EXCEPT ![c] = Created(@, {p})]
  /\ UNCHANGED <<server, online, player, shown, expected, up, down, edits, moves>>

\* ClientWorld::setBlock.
PlaceBlock(c, p, y, b) ==
  /\ c \in online
  /\ edits < MaxEdits
  /\ p \in Near(player[c])
  /\ mem' = [mem EXCEPT ![c] = Placed(@, p, y, b)]
  /\ up' = [up EXCEPT ![c] = Append(@, SetBlock(p, y, b))]
  /\ edits' = edits + 1
  /\ UNCHANGED <<server, online, player, shown, expected, down, moves>>

ReceiveChunkStillExpected(c) ==  \* mutant: expectedChunks.erase is missing
  /\ down[c] # <<>> /\ Head(down[c]).type = "chunk"
  /\ mem' = [mem EXCEPT ![c][Head(down[c]).pos] = Head(down[c]).chunk]
  /\ shown' = [shown EXCEPT ![c] = @ \cup {Head(down[c]).pos}]
  /\ down' = [down EXCEPT ![c] = Tail(@)]
  /\ UNCHANGED <<server, online, player, expected, up, edits, moves>>

\* receivePackets, packet 3: unSerialize into the chunk, getChunkRenderer, erase.
ReceiveChunk(c) ==
  /\ down[c] # <<>> /\ Head(down[c]).type = "chunk"
  /\ LET d == Head(down[c])
     IN  /\ mem' = [mem EXCEPT ![c][d.pos] = d.chunk]
         /\ shown' = [shown EXCEPT ![c] = @ \cup {d.pos}]
         /\ expected' = [expected EXCEPT ![c] = @ \ {d.pos}]
  /\ down' = [down EXCEPT ![c] = Tail(@)]
  /\ UNCHANGED <<server, online, player, up, edits, moves>>

\* receivePackets, packet 4: setBlockNoPacket, in range or not.
ReceiveBlock(c) ==
  /\ down[c] # <<>> /\ Head(down[c]).type = "block"
  /\ LET d == Head(down[c])
     IN  mem' = [mem EXCEPT ![c] = Placed(@, d.pos, d.y, d.block)]
  /\ down' = [down EXCEPT ![c] = Tail(@)]
  /\ UNCHANGED <<server, online, player, shown, expected, up, edits, moves>>

-----------------------------------------------------------------------------
(* The server.                                                             *)

\* receivePackets, packet 3: a request from outside the world gets no answer, nor does
\* one whose sender is no longer connected (sendPacket, getPeer).
AnswerRequest(c) ==
  /\ up[c] # <<>> /\ Head(up[c]).type = "request"
  /\ LET p == Head(up[c]).pos
     IN  down' = IF InWorld(p) /\ c \in online THEN [down EXCEPT ![c] = Append(@, ChunkData(p, server[p]))]
                 ELSE down
  /\ up' = [up EXCEPT ![c] = Tail(@)]
  /\ UNCHANGED <<server, online, player, mem, shown, expected, edits, moves>>

BroadcastExceptSender(c, packets) ==  \* mutant: broadcastPacketExcept, as for positions
  down' = [d \in Client |-> IF d \in online \ {c} THEN down[d] \o packets ELSE down[d]]

\* broadcastPacket reaches every connected peer, the sender c of the block too.
Broadcast(c, packets) ==
  down' = [d \in Client |-> IF d \in online THEN down[d] \o packets ELSE down[d]]

\* receivePackets, packet 4: ServerWorld::setBlock and what onPlace sets in turn.
ApplyBlock(c) ==
  /\ up[c] # <<>> /\ Head(up[c]).type = "block"
  /\ LET u  == Head(up[c])
         es == Effects(u.y, u.block)
     IN  /\ server' = [server EXCEPT ![u.pos] =
                         [y \in Cell |-> IF \E i \in DOMAIN es : es[i].y = y
                                         THEN (CHOOSE e \in ToSet(es) : e.y = y).block
                                         ELSE @[y]]]
         /\ Broadcast(c, [i \in DOMAIN es |-> SetBlock(u.pos, es[i].y, es[i].block)])
  /\ up' = [up EXCEPT ![c] = Tail(@)]
  /\ UNCHANGED <<online, player, mem, shown, expected, edits, moves>>

-----------------------------------------------------------------------------
Receive(c) == ReceiveChunk(c) \/ ReceiveBlock(c)
Serve(c)   == AnswerRequest(c) \/ ApplyBlock(c)

Next ==
  \E c \in Client :
    \/ Connect(c) \/ Leave(c)
    \/ \E p \in Pos : Move(c, p) \/ Look(c, p)
    \/ \E p \in Pos, yb \in Placements : PlaceBlock(c, p, yb[1], yb[2])
    \/ Receive(c)
    \/ Serve(c)

Spec == Init /\ [][Next]_vars

(* The server polls its host every ten milliseconds and a client's frames  *)
(* go on: both get to the next packet, whatever the player does meanwhile. *)
FairSpec == Spec /\ \A c \in Client : WF_vars(Receive(c)) /\ WF_vars(Serve(c))

-----------------------------------------------------------------------------
(* Properties.                                                             *)

Held(c) == {p \in Pos : mem[c][p] # Absent}

Requests(c, p) == {i \in DOMAIN up[c] : up[c][i] = Request(p)}
Replies(c, p)  == {i \in DOMAIN down[c] : down[c][i].type = "chunk" /\ down[c][i].pos = p}

(* The shapes of the state; a renderer's chunk is a chunk of the world.    *)
TypeOK ==
  /\ server \in [Pos -> Chunk]
  /\ online \subseteq Client
  /\ player \in [Client -> Pos]
  /\ mem \in [Client -> [Pos -> Chunk \cup {Absent}]]
  /\ shown \in [Client -> SUBSET Pos]
  /\ expected \in [Client -> SUBSET Pos]
  /\ up \in [Client -> Seq(UpPacket)]
  /\ down \in [Client -> Seq(DownPacket)]
  /\ edits \in 0..MaxEdits /\ moves \in 0..MaxMoves
  /\ \A c \in Client : shown[c] \subseteq Held(c)

(* expectedChunks tells what is under way: a chunk of the world is in it   *)
(* exactly while one request or one reply for it travels, so no chunk is   *)
(* asked for twice and no answer is forgotten.  Positions outside the      *)
(* world are asked for once and expected for ever.                         *)
RequestsAccountedFor ==
  \A c \in online, p \in Pos :
    LET n == Cardinality(Requests(c, p)) + Cardinality(Replies(c, p))
    IN  /\ n > 0 => n = 1 /\ p \in expected[c]
        /\ InWorld(p) /\ p \in expected[c] => n = 1

(* Everything within the render distance of a connected player is in its   *)
(* world or expected: neither the chunks deleted at a move nor replies     *)
(* that arrive late leave a position that nobody asks for.                 *)
WindowCovered ==
  \A c \in online : Window(player[c]) \subseteq Held(c) \cup expected[c]

Pending(c, p, y) == \E i \in DOMAIN up[c] :
  up[c][i].type = "block" /\ up[c][i].pos = p /\ up[c][i].y = y

\* The packets that will decide block y of chunk p of client c, and what they put there.
Writes(c, p, y) == {i \in DOMAIN down[c] :
  /\ down[c][i].pos = p
  /\ down[c][i].type = "block" => down[c][i].y = y}

Value(d, y) == IF d.type = "chunk" THEN d.chunk[y] ELSE d.block

(* A client whose chunk came from the server, or is on its way, ends up    *)
(* with the server's blocks: once the packets in its queue are applied,    *)
(* every block it is not itself changing is the server's.  Two clients who *)
(* build in one chunk, a snapshot between two broadcasts, a chunk dropped  *)
(* and asked for again: none makes a client differ for good.               *)
ChunksConverge ==
  \A c \in Client, p \in Pos, y \in Cell :
    (p \in shown[c] \/ Replies(c, p) # {}) /\ ~Pending(c, p, y) =>
      LET ws == Writes(c, p, y)
      IN  server[p][y] = IF ws = {} THEN mem[c][p][y] ELSE Value(down[c][Max(ws)], y)

(* A chunk of the world that a player's client is missing within its       *)
(* render distance is eventually shown, unless the player goes away or the *)
(* client ends first.                                                      *)
MissingChunksArrive ==
  \A c \in Client, p \in Pos :
    c \in online /\ p \in Window(player[c]) /\ InWorld(p) /\ mem[c][p] = Absent
      ~> p \in shown[c] \/ p \notin Window(player[c]) \/ c \notin online

(* "freezes player if not in chunk" (Player.cpp): a player only moves into *)
(* a chunk that its world has at the beginning of the frame.               *)
FreezesOutsideChunks ==
  [][\A c \in online' : player'[c] # player[c] => mem[c][player'[c]] # Absent]_vars
=============================================================================
