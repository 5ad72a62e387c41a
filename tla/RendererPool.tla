---------------------------- MODULE RendererPool ----------------------------
(***************************************************************************)
(* The renderers of the chunks on screen: getChunkRenderer and             *)
(* deleteChunkRenderer of client/WorldRenderer.cpp, with the chunk map of  *)
(* common/World.cpp they look into.                                        *)
(*                                                                         *)
(* chunkRenderers owns the renderers by position; rendererList holds raw   *)
(* pointers to the same objects so that a frame can walk them quickly, and *)
(* every renderer knows its place in the list.  A renderer is removed by   *)
(* putting the last one into its place; it is kept in deadRenderers and    *)
(* recycled for the next chunk, whatever its position.                     *)
(*                                                                         *)
(* A chunk object is a number: deleting a chunk and coming back makes      *)
(* another one.  List places count from 1 where the code counts from 0.    *)
(***************************************************************************)
EXTENDS Integers, Sequences

CONSTANTS
  Pos,        \* chunk positions
  Renderer,   \* ChunkRenderer objects that can be allocated
  None,       \* no renderer at a position
  MaxChunks   \* bound: chunk objects made during a behaviour

ASSUME ConstantsAssumption == None \notin Renderer /\ MaxChunks \in Nat

VARIABLES
  chunks,     \* chunks[p]: the World's chunk object, 0 if there is none
  made,       \* chunk objects made so far
  renderers,  \* chunkRenderers[p], None if there is none
  list,       \* rendererList
  dead,       \* deadRenderers
  pos,        \* chunk_x, chunk_z of a renderer
  index,      \* its rendererIndex
  chunk       \* the chunk object it shows

vars == <<chunks, made, renderers, list, dead, pos, index, chunk>>

Live == {renderers[p] : p \in Pos} \ {None}
Dead == {dead[i] : i \in DOMAIN dead}

-----------------------------------------------------------------------------
Init ==
  /\ chunks = [p \in Pos |-> 0]
  /\ made = 0
  /\ renderers = [p \in Pos |-> None]
  /\ list = <<>>
  /\ dead = <<>>
  /\ pos \in [Renderer -> Pos]     \* of an object not yet constructed: anything
  /\ index = [r \in Renderer |-> 0]
  /\ chunk = [r \in Renderer |-> 0]

\* The chunk object World::getChunk returns for p.
GetChunk(p) == IF chunks[p] = 0 THEN made + 1 ELSE chunks[p]

CreateChunk(p) ==
  /\ chunks' = [chunks EXCEPT ![p] = GetChunk(p)]
  /\ made' = IF chunks[p] = 0 THEN made + 1 ELSE made

\* A block is looked at or set: getChunk alone.
Touch(p) ==
  /\ made < MaxChunks
  /\ chunks[p] = 0
  /\ CreateChunk(p)
  /\ UNCHANGED <<renderers, list, dead, pos, index, chunk>>

RecycleKeepsChunk(r, p) ==       \* mutant: recycle does not take the chunk over
  /\ renderers' = [renderers EXCEPT ![p] = r]
  /\ list' = Append(list, r)
  /\ pos' = [pos EXCEPT ![r] = p]
  /\ index' = [index EXCEPT ![r] = Len(list) + 1]
  /\ UNCHANGED chunk

\* Constructor or recycle, then the map and the list take the renderer in.
Install(r, p) ==
  /\ renderers' = [renderers EXCEPT ![p] = r]
  /\ list' = Append(list, r)
  /\ pos' = [pos EXCEPT ![r] = p]
  /\ index' = [index EXCEPT ![r] = Len(list) + 1]
  /\ chunk' = [chunk EXCEPT ![r] = GetChunk(p)]

GetChunkRendererKeepsDead(p) ==  \* mutant: deadRenderers.pop_back is missing
  IF renderers[p] # None THEN UNCHANGED <<renderers, list, dead, pos, index, chunk>>
  ELSE /\ IF dead = <<>>
            THEN \E r \in Renderer \ Live : Install(r, p)
            ELSE Install(dead[Len(dead)], p)
       /\ UNCHANGED dead

\* getChunkRenderer.
GetChunkRenderer(p) ==
  IF renderers[p] # None THEN UNCHANGED <<renderers, list, dead, pos, index, chunk>>
  ELSE IF dead = <<>>
    THEN /\ \E r \in Renderer \ Live : Install(r, p)
         /\ UNCHANGED dead
    ELSE /\ Install(dead[Len(dead)], p)
         /\ dead' = SubSeq(dead, 1, Len(dead) - 1)

\* Chunk data arrives for p: getChunk, then getChunkRenderer.
Receive(p) ==
  /\ made < MaxChunks
  /\ CreateChunk(p)
  /\ GetChunkRenderer(p)

DeleteIndexTooLow(p) ==          \* mutant: an index one too low
  IF renderers[p] = None THEN UNCHANGED <<renderers, list, dead, index>>
  ELSE LET r == renderers[p]
           last == list[Len(list)]
       IN  /\ list' = SubSeq([list EXCEPT ![index[r]] = last], 1, Len(list) - 1)
           /\ index' = [index EXCEPT ![last] = index[r] - 1]
           /\ dead' = Append(dead, r)
           /\ renderers' = [renderers EXCEPT ![p] = None]

DeleteForgetsIndex(p) ==         \* mutant: the moved renderer keeps its old index
  IF renderers[p] = None THEN UNCHANGED <<renderers, list, dead, index>>
  ELSE LET r == renderers[p]
       IN  /\ list' = SubSeq([list EXCEPT ![index[r]] = list[Len(list)]], 1, Len(list) - 1)
           /\ dead' = Append(dead, r)
           /\ renderers' = [renderers EXCEPT ![p] = None]
           /\ UNCHANGED index

\* deleteChunkRenderer.
DeleteChunkRenderer(p) ==
  IF renderers[p] = None THEN UNCHANGED <<renderers, list, dead, index>>
  ELSE LET r == renderers[p]
           last == list[Len(list)]
       IN  /\ list' = SubSeq([list EXCEPT ![index[r]] = last], 1, Len(list) - 1)
           /\ index' = [index EXCEPT ![last] = index[r]]
           /\ dead' = Append(dead, r)
           /\ renderers' = [renderers EXCEPT ![p] = None]

\* manageChunks drops p: deleteChunk, then deleteChunkRenderer.
Drop(p) ==
  /\ chunks[p] # 0
  /\ chunks' = [chunks EXCEPT ![p] = 0]
  /\ DeleteChunkRenderer(p)
  /\ UNCHANGED <<made, pos, chunk>>

Next == \E p \in Pos : Touch(p) \/ Receive(p) \/ Drop(p)

Spec == Init /\ [][Next]_vars

-----------------------------------------------------------------------------
(* Properties.                                                             *)

(* The shapes of the state.                                                *)
TypeOK ==
  /\ chunks \in [Pos -> 0..made]
  /\ made \in Nat
  /\ renderers \in [Pos -> Renderer \cup {None}]
  /\ list \in Seq(Renderer)
  /\ dead \in Seq(Renderer)
  /\ pos \in [Renderer -> Pos]
  /\ index \in [Renderer -> Nat]
  /\ chunk \in [Renderer -> Nat]

(* The list and the map hold the same renderers, each once, and each knows *)
(* its place.  A wrong index would make the next removal overwrite another *)
(* chunk's renderer, which would never be drawn again while its position   *)
(* still has it, or leave a pointer whose owner is gone.                   *)
ListMatchesMap ==
  /\ \A i \in DOMAIN list : index[list[i]] = i /\ renderers[pos[list[i]]] = list[i]
  /\ \A p \in Pos : renderers[p] # None =>
       index[renderers[p]] \in DOMAIN list /\ list[index[renderers[p]]] = renderers[p]

(* A renderer waiting to be recycled is not on screen and waits once: two  *)
(* positions never get the same renderer.                                  *)
DeadAreFree ==
  /\ Dead \cap Live = {}
  /\ \A i, j \in DOMAIN dead : dead[i] = dead[j] => i = j

(* What is drawn at a position is the chunk the World has there now: not a *)
(* deleted chunk, nor the chunk a recycled renderer showed before.         *)
ShowsWorldChunk ==
  \A p \in Pos : renderers[p] # None =>
    /\ chunks[p] # 0
    /\ pos[renderers[p]] = p
    /\ chunk[renderers[p]] = chunks[p]
=============================================================================
