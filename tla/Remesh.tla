-------------------------------- MODULE Remesh --------------------------------
(***************************************************************************)
(* How a changed chunk gets a new mesh: the isDirty and hasNeighbors flags *)
(* of common/World.cpp, WorldRenderer::render with its four queues and     *)
(* threads, ChunkRenderer::generateMesh and the mesh's double buffer.      *)
(*                                                                         *)
(* The main thread and a frame's job take turns, so what they do to the    *)
(* world and render's work on one renderer interleave only with the remesh *)
(* threads.  These read a chunk while it changes, append to the buffer of  *)
(* a renderer while the main thread takes it, and keep their renderer and  *)
(* chunk when the world has dropped them.                                  *)
(*                                                                         *)
(* A chunk object is its position and a generation.  Its blocks are told   *)
(* apart in parts, each a version number; a mesh is the sequence of the    *)
(* parts it was made from.  A part is also made from the blocks and the    *)
(* light around the chunk, which are one version number, edge: they change *)
(* when a neighbour is made or arrives, and when cells at a border change. *)
(* Not each of these changes marks the chunk that sees it dirty: the rest  *)
(* leaves its mesh as it was.  That a renderer on screen shows the chunk   *)
(* of the world is shown in RendererPool and built in here.                *)
(***************************************************************************)
EXTENDS Integers, Sequences, SequencesExt

CONSTANTS
  Pos,         \* chunk positions
  Around,      \* Around[p]: the positions of Pos next to p; others stay in the world
  Lane,        \* the remesh queues, each with its thread
  LaneOf,      \* LaneOf[p]: by the parity of p's coordinates
  Renderer,
  None,
  Parts,       \* parts of a chunk that are read one after the other
  EditedParts, \* those in which blocks are set
  MaxChunks,   \* bound: chunk objects made during a behaviour
  MaxVersion,  \* bound: versions of a part of one chunk object
  MaxEdge      \* bound: versions of what surrounds one chunk object

Part == 1..Parts

JobSet  == [renderer : Renderer, pos : Pos, gen : Nat \ {0}, near : [Pos -> Nat],
            next : 1..(Parts + 1)]
FaceSet == [pos : Pos, gen : Nat \ {0}, part : Part, version : Nat, around : Nat]

ASSUME ConstantsAssumption ==
  /\ Around \in [Pos -> SUBSET Pos]
  /\ \A p, q \in Pos : p \notin Around[p] /\ (q \in Around[p] <=> p \in Around[q])
  /\ LaneOf \in [Pos -> Lane]
  /\ None \notin Renderer \cup JobSet
  /\ EditedParts \subseteq 1..Parts
  /\ Parts \in Nat \ {0} /\ MaxChunks \in Nat
  /\ MaxVersion \in Nat /\ MaxEdge \in Nat

VARIABLES
  world,         \* positions with a chunk
  gen,           \* gen[p]: generation of p's chunk
  hasNeighbors, dirty,   \* flags of p's chunk
  version,       \* version[p][k]: content of part k of p's chunk
  edge,          \* edge[p]: content of the neighbours of p's chunk, as far as its mesh shows it
  unmarked,      \* history: edge[p] has changed since p's chunk was last marked dirty
  screen,        \* chunkRenderers[p], or None
  dead,          \* deadRenderers
  queue,         \* remeshQueue of a lane
  busy,          \* the job its thread is working on, or None
  buffer, update, mesh,  \* of a renderer: what was pushed, updateMesh, what is drawn
  main,          \* where the main thread is in render: <<>>, <<"draw", p>> or <<"taken", p>>
  read,          \* history: read[p][k], the version a job last read of p's chunk, 0 if none
  mixed          \* history: the renderer's last job to begin was not Undisturbed

worldVars  == <<world, gen, hasNeighbors, version, edge, unmarked>>
screenVars == <<screen, dead>>
meshVars   == <<buffer, update, mesh>>
vars == <<worldVars, dirty, screenVars, queue, busy, meshVars, main, read, mixed>>

\* The chunk objects of getChunkNeighborhood, by their generations.
Near(p) == [q \in Pos |-> IF q \in Around[p] THEN gen[q] ELSE 0]

Job(r, p) == [renderer |-> r, pos |-> p, gen |-> gen[p], near |-> Near(p), next |-> 1]

InWorld(j) == j.pos \in world /\ j.gen = gen[j.pos]

\* What generateMesh pushes for part k of a job's chunk, from its blocks and those of the
\* neighbours the job holds; of a chunk or of neighbours that are no longer those of the
\* world, version 0.
Faces(j, k) ==
  [pos |-> j.pos, gen |-> j.gen, part |-> k,
   version |-> IF InWorld(j) THEN version[j.pos][k] ELSE 0,
   around |-> IF InWorld(j) /\ j.near = Near(j.pos) THEN edge[j.pos] ELSE 0]

Jobs(l)    == ToSet(queue[l]) \cup ({busy[l]} \ {None})
Pending(r) == \E l \in Lane : \E j \in Jobs(l) : j.renderer = r

Total(f) == FoldFunction(LAMBDA a, b : a + b, 0, f)

Idle == main = <<>>

-----------------------------------------------------------------------------
Init ==
  /\ world = {}
  /\ gen = [p \in Pos |-> 0]
  /\ hasNeighbors = [p \in Pos |-> FALSE]
  /\ dirty = [p \in Pos |-> FALSE]
  /\ version = [p \in Pos |-> [k \in Part |-> 0]]
  /\ edge = [p \in Pos |-> 0]
  /\ unmarked = [p \in Pos |-> FALSE]
  /\ screen = [p \in Pos |-> None]
  /\ dead = <<>>
  /\ queue = [l \in Lane |-> <<>>]
  /\ busy = [l \in Lane |-> None]
  /\ buffer = [r \in Renderer |-> <<>>]
  /\ update = [r \in Renderer |-> FALSE]
  /\ mesh = [r \in Renderer |-> <<>>]
  /\ main = <<>>
  /\ read = [p \in Pos |-> [k \in Part |-> 0]]
  /\ mixed = [r \in Renderer |-> FALSE]

-----------------------------------------------------------------------------
(* The world, on the main thread or in the frame's job.                    *)

\* informChunkChange after each of the getChunk calls that make the chunks of s: a chunk
\* looks for its neighbours again whenever one of them is made after it.
FlagsAfter(s) ==
  [q \in Pos |->
     IF \E i \in DOMAIN s : q \in Around[s[i]] /\ q \notin {s[j] : j \in i..Len(s)}
       THEN q \in world \cup ToSet(s) /\ Around[q] \subseteq world \cup ToSet(s)
     ELSE IF q \in ToSet(s) THEN FALSE ELSE hasNeighbors[q]]

\* getChunk for the positions of s, in that order, then changes: the parts `parts` of the
\* chunks at `at` get new contents, which the chunks of `seen` have at their border.  So is
\* a chunk that is made, to those around it.
GetChunks(s, at, parts, seen) ==
  /\ world' = world \cup ToSet(s)
  /\ gen' = [p \in Pos |-> IF p \in ToSet(s) THEN gen[p] + 1 ELSE gen[p]]
  /\ Total(gen') <= MaxChunks
  /\ hasNeighbors' = FlagsAfter(s)
  /\ version' = [p \in Pos |-> [k \in Part |->
       (IF p \in ToSet(s) THEN 1 ELSE version[p][k]) + (IF p \in at /\ k \in parts THEN 1 ELSE 0)]]
  /\ \A p \in Pos, k \in Part : version'[p][k] <= MaxVersion
  /\ edge' = [p \in Pos |->
       IF p \in ToSet(s) THEN 1
       ELSE IF p \in world /\ (p \in seen \/ Around[p] \cap ToSet(s) # {}) THEN edge[p] + 1
       ELSE edge[p]]
  /\ \A p \in Pos : edge'[p] <= MaxEdge

\* A step marks the chunks of C dirty: the others that see a change keep their mesh, unless
\* they wait for a job anyway.
Mark(C) ==
  unmarked' = [p \in Pos |-> p \notin C /\ (unmarked[p] \/ (edge'[p] # edge[p] /\ ~dirty[p]))]

AroundAny(C) == UNION {Around[q] : q \in C}

\* World::setBlock, with the neighbours `lit` that its light reaches or whose border it is
\* on, and the chunks `seen` next to a cell that changes.  Those in lit are, and are marked;
\* the chunk across a corner and one behind a border that light has reached are not marked.
SetBlock(p, lit, k, seen) ==
  /\ Idle
  /\ lit \subseteq Around[p]
  /\ lit \subseteq seen /\ seen \subseteq AroundAny(lit \cup {p})
  /\ \E s \in SetToSeqs((Around[p] \cup {p}) \ world) :
       /\ GetChunks(s, lit \cup {p}, {k}, seen)
       /\ dirty' = [q \in Pos |-> IF q \in lit \cup {p} THEN TRUE
                                  ELSE IF q \in ToSet(s) THEN FALSE ELSE dirty[q]]
  /\ Mark(lit \cup {p})
  /\ UNCHANGED <<screenVars, queue, busy, meshVars, main, read, mixed>>

\* getChunkRenderer: a new renderer, or the one that died last, cleared.
Show(p) ==
  IF screen[p] # None THEN UNCHANGED <<screenVars, buffer, mesh>>
  ELSE IF dead = <<>>
    THEN /\ \E r \in Renderer \ ToSet([q \in Pos |-> screen[q]]) : screen' = [screen EXCEPT ![p] = r]
         /\ UNCHANGED <<dead, buffer, mesh>>
    ELSE LET r == Last(dead)
         IN  /\ screen' = [screen EXCEPT ![p] = r]
             /\ dead' = Front(dead)
             /\ buffer' = [buffer EXCEPT ![r] = <<>>]
             /\ mesh' = [mesh EXCEPT ![r] = <<>>]

\* Packet 3: getChunk, unSerialize, isDirty, getChunkRenderer.  The chunks around it are not
\* marked.
Receive(p) ==
  /\ Idle
  /\ GetChunks(IF p \in world THEN <<>> ELSE <<p>>, {p}, Part, Around[p])
  /\ dirty' = [dirty EXCEPT ![p] = TRUE]
  /\ Mark({p})
  /\ Show(p)
  /\ UNCHANGED <<queue, busy, update, main, read, mixed>>

\* The chunk object lives on in the jobs that hold it; the model no longer follows its content.
Forget(p) ==
  /\ version' = [version EXCEPT ![p] = [k \in Part |-> 0]]
  /\ edge' = [edge EXCEPT ![p] = 0]
  /\ unmarked' = [unmarked EXCEPT ![p] = FALSE]
  /\ read' = [read EXCEPT ![p] = [k \in Part |-> 0]]

DropSilently(p) ==               \* mutant: deleteChunk does not inform the neighbours
  /\ Idle
  /\ p \in world
  /\ world' = world \ {p}
  /\ dirty' = [dirty EXCEPT ![p] = FALSE]
  /\ hasNeighbors' = [hasNeighbors EXCEPT ![p] = FALSE]
  /\ screen' = [screen EXCEPT ![p] = None]
  /\ dead' = IF screen[p] = None THEN dead ELSE Append(dead, screen[p])
  /\ Forget(p)
  /\ UNCHANGED <<gen, queue, busy, meshVars, main, mixed>>

DropKeepsRenderer(p) ==          \* mutant: deleteChunkRenderer is missing
  /\ Idle
  /\ p \in world
  /\ world' = world \ {p}
  /\ dirty' = [dirty EXCEPT ![p] = FALSE]
  /\ hasNeighbors' = [q \in Pos |-> hasNeighbors[q] /\ q # p /\ q \notin Around[p]]
  /\ Forget(p)
  /\ UNCHANGED <<screenVars, gen, queue, busy, meshVars, main, mixed>>

\* manageChunks: deleteChunk, after which no neighbour has all of its own, and
\* deleteChunkRenderer.
Drop(p) ==
  /\ Idle
  /\ p \in world
  /\ world' = world \ {p}
  /\ dirty' = [dirty EXCEPT ![p] = FALSE]
  /\ hasNeighbors' = [q \in Pos |-> hasNeighbors[q] /\ q # p /\ q \notin Around[p]]
  /\ screen' = [screen EXCEPT ![p] = None]
  /\ dead' = IF screen[p] = None THEN dead ELSE Append(dead, screen[p])
  /\ Forget(p)
  /\ UNCHANGED <<gen, queue, busy, meshVars, main, mixed>>

-----------------------------------------------------------------------------
(* WorldRenderer::render, for one renderer of its list.                    *)

CanDraw(p) == screen[p] # None /\ hasNeighbors[p]

EnqueueUnchecked(p) ==           \* mutant: isDirty is cleared before hasNeighbors is tested
  /\ Idle
  /\ screen[p] # None
  /\ dirty[p]
  /\ dirty' = [dirty EXCEPT ![p] = FALSE]
  /\ IF hasNeighbors[p]
       THEN /\ queue' = [queue EXCEPT ![LaneOf[p]] = Append(@, Job(screen[p], p))]
            /\ main' = <<"draw", p>>
       ELSE UNCHANGED <<queue, main>>
  /\ UNCHANGED <<worldVars, screenVars, busy, meshVars, read, mixed>>

EnqueueOnce(p) ==                \* mutant: no second job for a renderer that has one
  /\ Idle
  /\ CanDraw(p) /\ dirty[p]
  /\ dirty' = [dirty EXCEPT ![p] = FALSE]
  /\ queue' = IF Pending(screen[p]) THEN queue
              ELSE [queue EXCEPT ![LaneOf[p]] = Append(@, Job(screen[p], p))]
  /\ main' = <<"draw", p>>
  /\ UNCHANGED <<worldVars, screenVars, busy, meshVars, read, mixed>>

\* A dirty chunk becomes a job.  Its neighbours exist (NeighborsExist): taking the
\* neighbourhood makes no chunk.
Enqueue(p) ==
  /\ Idle
  /\ CanDraw(p) /\ dirty[p]
  /\ dirty' = [dirty EXCEPT ![p] = FALSE]
  /\ queue' = [queue EXCEPT ![LaneOf[p]] = Append(@, Job(screen[p], p))]
  /\ main' = <<"draw", p>>
  /\ UNCHANGED <<worldVars, screenVars, busy, meshVars, read, mixed>>

\* ChunkRenderer::render with updateMesh set: ChunkMesh::generate takes the buffer.
TakeMesh(p) ==
  LET r == screen[p]
  IN  /\ main = <<"draw", p>> \/ (Idle /\ CanDraw(p) /\ ~dirty[p])
      /\ update[r]
      /\ mesh' = [mesh EXCEPT ![r] = buffer[r]]
      /\ buffer' = [buffer EXCEPT ![r] = <<>>]
      /\ main' = <<"taken", p>>
      /\ UNCHANGED <<worldVars, dirty, screenVars, queue, busy, update, read, mixed>>

\* The end of ChunkRenderer::render: updateMesh is reset if the mesh was taken.
DrawMesh(p) ==
  /\ \/ main = <<"draw", p>> /\ ~update[screen[p]] /\ UNCHANGED update
     \/ main = <<"taken", p>> /\ update' = [update EXCEPT ![screen[p]] = FALSE]
  /\ main' = <<>>
  /\ UNCHANGED <<worldVars, dirty, screenVars, queue, busy, buffer, mesh, read, mixed>>

-----------------------------------------------------------------------------
(* A remesh thread: remeshThread and generateMesh.                         *)

Push(j, k) ==
  /\ buffer' = [buffer EXCEPT ![j.renderer] = Append(@, Faces(j, k))]
  /\ read' = IF InWorld(j)
             THEN [read EXCEPT ![j.pos][k] = version[j.pos][k]] ELSE read

\* A job begins for the chunk its renderer is on screen for, when the renderer's last mesh
\* has been taken and no other thread is at work on it.
Undisturbed(j) ==
  /\ screen[j.pos] = j.renderer /\ gen[j.pos] = j.gen
  /\ ~update[j.renderer] /\ buffer[j.renderer] = <<>>
  /\ \A l \in Lane : busy[l] # None => busy[l].renderer # j.renderer

UpdateFirst(l) ==                \* mutant: updateMesh is set at the start of generateMesh
  /\ busy[l] = None /\ queue[l] # <<>>
  /\ LET j == Head(queue[l])
         r == j.renderer
     IN  /\ busy' = [busy EXCEPT ![l] = [j EXCEPT !.next = 2]]
         /\ Push(j, 1)
         /\ update' = [update EXCEPT ![r] = TRUE]
         /\ mixed' = [mixed EXCEPT ![r] = ~Undisturbed(j)]
  /\ queue' = [queue EXCEPT ![l] = Tail(@)]
  /\ UNCHANGED <<worldVars, dirty, screenVars, mesh, main>>

\* wait_dequeue, and the first part of the chunk.
BeginMesh(l) ==
  /\ busy[l] = None /\ queue[l] # <<>>
  /\ LET j == Head(queue[l])
         r == j.renderer
     IN  /\ busy' = [busy EXCEPT ![l] = [j EXCEPT !.next = 2]]
         /\ Push(j, 1)
         /\ mixed' = [mixed EXCEPT ![r] = ~Undisturbed(j)]
  /\ queue' = [queue EXCEPT ![l] = Tail(@)]
  /\ UNCHANGED <<worldVars, dirty, screenVars, update, mesh, main>>

\* The next part.
PushFaces(l) ==
  /\ busy[l] # None /\ busy[l].next <= Parts
  /\ Push(busy[l], busy[l].next)
  /\ busy' = [busy EXCEPT ![l].next = @ + 1]
  /\ UNCHANGED <<worldVars, dirty, screenVars, queue, update, mesh, main, mixed>>

\* The end of generateMesh.
FinishMesh(l) ==
  /\ busy[l] # None /\ busy[l].next > Parts
  /\ update' = [update EXCEPT ![busy[l].renderer] = TRUE]
  /\ busy' = [busy EXCEPT ![l] = None]
  /\ UNCHANGED <<worldVars, dirty, screenVars, queue, buffer, mesh, main, read, mixed>>

-----------------------------------------------------------------------------
Draw(p)   == Enqueue(p) \/ TakeMesh(p) \/ DrawMesh(p)
Thread(l) == BeginMesh(l) \/ PushFaces(l) \/ FinishMesh(l)

Next ==
  \/ \E p \in Pos :
       \/ Receive(p) \/ Drop(p)
       \/ \E lit \in SUBSET Around[p], k \in EditedParts :
            \E seen \in SUBSET AroundAny(lit \cup {p}) : SetBlock(p, lit, k, seen)
       \/ Draw(p)
  \/ \E l \in Lane : Thread(l)

Spec == Init /\ [][Next]_vars

(* Frames go on, each drawing every renderer of the list, and the remesh   *)
(* threads run.                                                            *)
FairSpec == Spec /\ (\A p \in Pos : WF_vars(Draw(p))) /\ (\A l \in Lane : WF_vars(Thread(l)))

-----------------------------------------------------------------------------
(* Properties.                                                             *)

(* The shapes of the state; a renderer belongs to one chunk of the world   *)
(* or waits to be recycled.                                                *)
TypeOK ==
  /\ world \subseteq Pos
  /\ gen \in [Pos -> Nat] /\ \A p \in world : gen[p] # 0
  /\ hasNeighbors \in [Pos -> BOOLEAN] /\ dirty \in [Pos -> BOOLEAN]
  /\ edge \in [Pos -> Nat] /\ unmarked \in [Pos -> BOOLEAN]
  /\ version \in [Pos -> [Part -> Nat]] /\ read \in [Pos -> [Part -> Nat]]
  /\ screen \in [Pos -> Renderer \cup {None}]
  /\ dead \in Seq(Renderer)
  /\ queue \in [Lane -> Seq(JobSet)] /\ busy \in [Lane -> JobSet \cup {None}]
  /\ buffer \in [Renderer -> Seq(FaceSet)] /\ mesh \in [Renderer -> Seq(FaceSet)]
  /\ update \in [Renderer -> BOOLEAN] /\ mixed \in [Renderer -> BOOLEAN]
  /\ main \in {<<>>} \cup ({"draw", "taken"} \X world)
  /\ \A p \in Pos : screen[p] # None => p \in world /\ screen[p] \notin ToSet(dead)

(* A chunk with the hasNeighbors flag has all its neighbours, through any  *)
(* sequence of chunks made, dropped and made again: the neighbourhood of a *)
(* remesh job is complete and taking it makes no chunk while render walks  *)
(* over the renderers.                                                     *)
NeighborsExist ==
  \A p \in Pos : hasNeighbors[p] => p \in world /\ Around[p] \subseteq world

WillRead(p, k) ==
  \E l \in Lane : \E j \in Jobs(l) : j.pos = p /\ j.gen = gen[p] /\ j.next <= k

(* No change of a chunk on screen is lost: it is dirty, or a job will read *)
(* the part that changed, or a job has read it after the change.  isDirty  *)
(* is cleared when the job is made and blocks change while it runs.        *)
ChangesMeshed ==
  \A p \in Pos, k \in Part :
    screen[p] # None => dirty[p] \/ WillRead(p, k) \/ read[p][k] = version[p][k]

(* When nothing is left to do for a renderer, it draws exactly its chunk   *)
(* as it is now, with what is around it, each part once.  Two conditions   *)
(* name what the code leaves wrong.  ~mixed: the last job was begun for    *)
(* the chunk on screen, when the mesh before it had been taken; two jobs   *)
(* that share the buffer can leave a mesh doubled or incomplete, and one   *)
(* that outlives its chunk a mesh of another place.  ~unmarked: no         *)
(* neighbour has changed without marking this chunk since it was last      *)
(* marked; a mesh is not made again for a neighbour that has arrived, or   *)
(* for a block set across its corner.                                      *)
MeshExact ==
  \A p \in Pos :
    LET r == screen[p]
    IN  /\ r # None /\ ~dirty[p] /\ ~Pending(r) /\ Idle
        /\ ~update[r] /\ ~mixed[r] /\ ~unmarked[p]
        => mesh[r] = [k \in Part |-> [pos |-> p, gen |-> gen[p], part |-> k,
                                      version |-> version[p][k], around |-> edge[p]]]

(* A dirty chunk on screen that has its neighbours is read again in full,  *)
(* unless it or a neighbour goes away.                                     *)
DirtyGetsRead ==
  \A p \in Pos : CanDraw(p) /\ dirty[p] ~> (~dirty[p] /\ read[p] = version[p]) \/ ~CanDraw(p)
=============================================================================
