---------------------------- MODULE RemeshProofs ----------------------------
(***************************************************************************)
(* Proofs about Remesh, for any number of positions, lanes, renderers and  *)
(* parts of a chunk, and without the bounds that TLC needs.                *)
(*                                                                         *)
(* That a mesh becomes exact is an argument about the last job of its      *)
(* renderer: MeshPhase says how far that job has come, from the parts it   *)
(* has pushed to the buffer the main thread has taken, and NearInv that    *)
(* the neighbours it holds are those of the world.                         *)
(***************************************************************************)
EXTENDS Remesh, SequenceTheorems, TLAPS

\* A renderer is on screen once or dead once; the main thread is in the render of one
\* that is on screen, and updateMesh is up as long as it has not reset it.
RenderInv ==
  /\ \A p, q \in Pos : screen[p] # None /\ screen[p] = screen[q] => p = q
  /\ \A i, j \in 1..Len(dead) : dead[i] = dead[j] => i = j
  /\ main # <<>> => screen[main[2]] # None
  /\ \A p \in Pos : main = <<"taken", p>> => update[screen[p]]

-----------------------------------------------------------------------------
(* Making chunks.                                                          *)

\* Chunks are made at positions that have none; nothing else changes but the blocks set.
LEMMA GetChunksFacts ==
  ASSUME TypeOK, NeighborsExist,
         NEW s, ToSet(s) \subseteq Pos \ world,
         NEW at \in SUBSET Pos, NEW parts \in SUBSET Part, NEW seen,
         GetChunks(s, at, parts, seen)
  PROVE  /\ world' \subseteq Pos /\ world \subseteq world'
         /\ gen' \in [Pos -> Nat] /\ \A p \in world' : gen'[p] # 0
         /\ hasNeighbors' \in [Pos -> BOOLEAN] /\ NeighborsExist'
         /\ version' \in [Pos -> [Part -> Nat]]
         /\ \A p \in world : gen'[p] = gen[p]
         /\ \A p \in world \ at : version'[p] = version[p]
         /\ edge' \in [Pos -> Nat]
         /\ \A p \in world : edge'[p] = edge[p] => \A q \in Around[p] : gen'[q] = gen[q]
<1>1. world' = world \cup ToSet(s)
  BY DEF GetChunks
<1>2. /\ gen \in [Pos -> Nat] /\ \A p \in world : gen[p] # 0
      /\ world \subseteq Pos
      /\ hasNeighbors \in [Pos -> BOOLEAN]
      /\ version \in [Pos -> [Part -> Nat]]
      /\ edge \in [Pos -> Nat]
  BY DEF TypeOK
<1>3. gen' = [p \in Pos |-> IF p \in ToSet(s) THEN gen[p] + 1 ELSE gen[p]]
  BY DEF GetChunks
<1>4. gen' \in [Pos -> Nat] /\ \A p \in world' : gen'[p] # 0
  BY <1>1, <1>2, <1>3
<1>5. hasNeighbors' = FlagsAfter(s)
  BY DEF GetChunks
<1>6. \A q \in Pos : \/ hasNeighbors'[q] = (q \in world' /\ Around[q] \subseteq world')
                     \/ hasNeighbors'[q] = FALSE
                     \/ hasNeighbors'[q] = hasNeighbors[q]
  BY <1>1, <1>5, Zenon DEF FlagsAfter
<1>7. hasNeighbors' \in [Pos -> BOOLEAN]
  <2>1. hasNeighbors' = [q \in Pos |-> hasNeighbors'[q]]
    BY <1>5, Zenon DEF FlagsAfter
  <2>2. \A q \in Pos : hasNeighbors[q] \in BOOLEAN
    BY <1>2
  <2>3. \A q \in Pos : hasNeighbors'[q] \in BOOLEAN
    BY <1>6, <2>2, Zenon
  <2>4. QED BY <2>1, <2>3, Zenon
<1>8. NeighborsExist'
  <2>1. SUFFICES ASSUME NEW q \in Pos, hasNeighbors'[q]
                 PROVE  q \in world' /\ Around[q] \subseteq world'
    BY DEF NeighborsExist
  <2>2. hasNeighbors[q] => q \in world /\ Around[q] \subseteq world
    BY DEF NeighborsExist
  <2>3. world \subseteq world'
    BY <1>1
  <2>4. QED BY <1>6, <2>1, <2>2, <2>3
<1>9. version' = [p \in Pos |-> [k \in Part |->
        (IF p \in ToSet(s) THEN 1 ELSE version[p][k]) + (IF p \in at /\ k \in parts THEN 1 ELSE 0)]]
  BY DEF GetChunks
<1>10. version' \in [Pos -> [Part -> Nat]]
  BY <1>2, <1>9
<1>11. \A p \in world \ at : version'[p] = version[p]
  <2>1. SUFFICES ASSUME NEW p \in world \ at PROVE version'[p] = version[p]
    OBVIOUS
  <2>2. version'[p] = [k \in Part |-> version[p][k] + 0]
    BY <1>2, <1>9
  <2>3. version[p] \in [Part -> Nat]
    BY <1>2
  <2>4. \A k \in Part : version[p][k] + 0 = version[p][k]
    BY <2>3
  <2>5. QED BY <2>2, <2>3, <2>4
<1>12. edge' = [p \in Pos |->
         IF p \in ToSet(s) THEN 1
         ELSE IF p \in world /\ (p \in seen \/ Around[p] \cap ToSet(s) # {}) THEN edge[p] + 1
         ELSE edge[p]]
  BY DEF GetChunks
<1>13. edge' \in [Pos -> Nat]
  BY <1>2, <1>12
<1>14. \A p \in world : edge'[p] = edge[p] => \A q \in Around[p] : gen'[q] = gen[q]
  <2>1. SUFFICES ASSUME NEW p \in world, edge'[p] = edge[p], NEW q \in Around[p]
                 PROVE  gen'[q] = gen[q]
    OBVIOUS
  <2>2. p \in Pos /\ p \notin ToSet(s) /\ edge[p] \in Nat /\ edge[p] + 1 # edge[p]
    BY <1>2
  <2>3. Around[p] \cap ToSet(s) = {}
    BY <1>12, <2>1, <2>2
  <2>4. q \in Pos /\ q \notin ToSet(s)
    BY <2>2, <2>3, ConstantsAssumption
  <2>5. QED BY <1>3, <2>4
<1>15. QED BY <1>1, <1>2, <1>3, <1>4, <1>7, <1>8, <1>10, <1>11, <1>13, <1>14

\* What the chunks that are not marked see.
LEMMA MarkFacts ==
  ASSUME TypeOK, NEW C, Mark(C)
  PROVE  /\ unmarked' \in [Pos -> BOOLEAN]
         /\ \A p \in Pos \ C : ~unmarked'[p] => ~unmarked[p] /\ (edge'[p] = edge[p] \/ dirty[p])
<1>1. unmarked' = [p \in Pos |->
        p \notin C /\ (unmarked[p] \/ (edge'[p] # edge[p] /\ ~dirty[p]))]
  BY DEF Mark
<1>2. \A p \in Pos : unmarked'[p] = (p \notin C /\ (unmarked[p] \/ (edge'[p] # edge[p] /\ ~dirty[p])))
  BY <1>1
<1>3. unmarked' \in [Pos -> BOOLEAN]
  BY <1>1
<1>4. QED BY <1>2, <1>3

\* The neighbourhood is the same as long as the chunks around are.
LEMMA SameNear ==
  ASSUME NEW p \in Pos, \A q \in Around[p] : gen'[q] = gen[q]
  PROVE  Near(p)' = Near(p)
BY DEF Near

\* The order in which setBlock makes the missing chunks lists only missing ones.
LEMMA OrderOfMissing ==
  ASSUME NEW S, NEW s \in SetToSeqs(S)
  PROVE  ToSet(s) \subseteq S
BY DEF SetToSeqs, ToSet

-----------------------------------------------------------------------------
(* Renderers.                                                              *)

\* The length of a list without its last element.
LEMMA FrontLength ==
  \A n \in Nat : n # 0 => (IF 1 <= n - 1 THEN n - 1 - 1 + 1 ELSE 0) = n - 1
  OBVIOUS

\* Taking the renderer that died last.
LEMMA LastDead ==
  ASSUME NEW d \in Seq(Renderer), d # <<>>,
         \A i, j \in 1..Len(d) : d[i] = d[j] => i = j
  PROVE  /\ Last(d) \in Renderer /\ Last(d) \in ToSet(d)
         /\ Front(d) \in Seq(Renderer)
         /\ ToSet(Front(d)) = ToSet(d) \ {Last(d)}
         /\ \A i, j \in 1..Len(Front(d)) : Front(d)[i] = Front(d)[j] => i = j
<1> DEFINE f == SubSeq(d, 1, Len(d) - 1)
<1>1. Len(d) \in Nat /\ Len(d) # 0 /\ \A j \in 1..Len(d) : d[j] \in Renderer
  OBVIOUS
<1>2. /\ f \in Seq(Renderer)
      /\ Len(f) = IF 1 <= Len(d) - 1 THEN Len(d) - 1 - 1 + 1 ELSE 0
      /\ \A j \in 1..(Len(d) - 1 - 1 + 1) : f[j] = d[1 + j - 1]
  BY <1>1, SubSeqProperties
<1>3. \A j \in 1..(Len(d) - 1) : f[j] = d[j]
  BY <1>1, <1>2
<1>4. Len(f) = Len(d) - 1
  BY <1>1, <1>2, FrontLength, Zenon
<1>5. Front(d) = f /\ Last(d) = d[Len(d)]
  BY DEF Front, Last
<1> HIDE DEF f
<1>6. DOMAIN d = 1..Len(d) /\ DOMAIN f = 1..(Len(d) - 1)
  BY <1>2, <1>4, LenProperties
<1>7. ToSet(f) = {d[i] : i \in 1..(Len(d) - 1)}
  BY <1>3, <1>6 DEF ToSet
<1>8. Len(d) \in 1..Len(d)
  BY <1>1
<1>9. ToSet(f) = ToSet(d) \ {d[Len(d)]}
  <2>1. \A i \in 1..(Len(d) - 1) : i \in 1..Len(d) /\ i # Len(d)
    BY <1>1
  <2>2. \A i \in 1..Len(d) : i # Len(d) => i \in 1..(Len(d) - 1)
    BY <1>1
  <2>3. ToSet(d) = {d[i] : i \in 1..Len(d)}
    BY <1>6 DEF ToSet
  <2>4. QED BY <1>7, <1>8, <2>1, <2>2, <2>3, Zenon
<1>10. d[Len(d)] \in ToSet(d) /\ d[Len(d)] \in Renderer
  BY <1>1, <1>6, <1>8 DEF ToSet
<1>11. \A i, j \in 1..Len(f) : f[i] = f[j] => i = j
  <2>1. \A i \in 1..Len(f) : i \in 1..Len(d) /\ f[i] = d[i]
    BY <1>1, <1>3, <1>4
  <2>2. QED BY <2>1
<1>12. QED BY <1>2, <1>5, <1>9, <1>10, <1>11

\* deleteChunkRenderer puts a renderer behind the dead ones, among which it is not yet.
LEMMA OneMoreDead ==
  ASSUME NEW d \in Seq(Renderer), NEW r \in Renderer, r \notin ToSet(d),
         \A i, j \in 1..Len(d) : d[i] = d[j] => i = j
  PROVE  /\ Append(d, r) \in Seq(Renderer)
         /\ ToSet(Append(d, r)) = ToSet(d) \cup {r}
         /\ \A i, j \in 1..Len(Append(d, r)) : Append(d, r)[i] = Append(d, r)[j] => i = j
<1> DEFINE a == Append(d, r)
<1>1. /\ a \in Seq(Renderer) /\ Len(a) = Len(d) + 1
      /\ \A i \in 1..Len(d) : a[i] = d[i]
      /\ a[Len(d) + 1] = r
  BY AppendProperties
<1>2. DOMAIN d = 1..Len(d) /\ DOMAIN a = 1..Len(a) /\ Len(d) \in Nat
  BY <1>1, LenProperties
<1> HIDE DEF a
<1>3. ToSet(d) = {d[i] : i \in 1..Len(d)} /\ ToSet(a) = {a[i] : i \in 1..(Len(d) + 1)}
  BY <1>1, <1>2 DEF ToSet
<1>4. \A i : i \in 1..(Len(d) + 1) <=> i \in 1..Len(d) \/ i = Len(d) + 1
  BY <1>2
<1>5. ToSet(a) = ToSet(d) \cup {r}
  <2>1. \A x \in ToSet(a) : x \in ToSet(d) \cup {r}
    BY <1>1, <1>3, <1>4
  <2>2. \A x \in ToSet(d) : x \in ToSet(a)
    BY <1>1, <1>3, <1>4
  <2>3. r \in ToSet(a)
    BY <1>1, <1>3, <1>4
  <2>4. QED BY <2>1, <2>2, <2>3
<1>6. \A i \in 1..Len(d) : d[i] # r
  BY <1>3
<1>7. \A i, j \in 1..(Len(d) + 1) : a[i] = a[j] => i = j
  BY <1>1, <1>4, <1>6
<1>8. QED BY <1>1, <1>5, <1>7 DEF a

\* getChunkRenderer shows the chunk at p with a renderer that is on screen nowhere else,
\* and touches no other.
LEMMA ShowFacts ==
  ASSUME TypeOK, RenderInv, NEW p \in Pos, p \in world', world \subseteq world', Show(p)
  PROVE  /\ screen' \in [Pos -> Renderer \cup {None}]
         /\ screen'[p] # None
         /\ \A q \in Pos \ {p} : screen'[q] = screen[q]
         /\ \A q \in Pos : screen'[q] # None => q \in world' /\ screen'[q] \notin ToSet(dead')
         /\ \A q, t \in Pos : screen'[q] # None /\ screen'[q] = screen'[t] => q = t
         /\ dead' \in Seq(Renderer)
         /\ \A i, j \in 1..Len(dead') : dead'[i] = dead'[j] => i = j
         /\ buffer' \in [Renderer -> Seq(FaceSet)] /\ mesh' \in [Renderer -> Seq(FaceSet)]
         /\ \A r \in Renderer \ {screen'[p]} : buffer'[r] = buffer[r] /\ mesh'[r] = mesh[r]
         /\ screen[p] # None => screen' = screen
<1> USE ConstantsAssumption
<1>1. /\ screen \in [Pos -> Renderer \cup {None}]
      /\ dead \in Seq(Renderer)
      /\ buffer \in [Renderer -> Seq(FaceSet)] /\ mesh \in [Renderer -> Seq(FaceSet)]
      /\ \A q \in Pos : screen[q] # None => q \in world /\ screen[q] \notin ToSet(dead)
  BY DEF TypeOK
<1>2. /\ \A q, t \in Pos : screen[q] # None /\ screen[q] = screen[t] => q = t
      /\ \A i, j \in 1..Len(dead) : dead[i] = dead[j] => i = j
  BY DEF RenderInv
<1>3. CASE screen[p] # None
  <2>1. UNCHANGED <<screen, dead, buffer, mesh>>
    BY <1>3 DEF Show, screenVars
  <2>2. QED BY <1>1, <1>2, <1>3, <2>1
<1>4. CASE screen[p] = None /\ dead = <<>>
  <2>1. PICK r \in Renderer \ ToSet([q \in Pos |-> screen[q]]) : screen' = [screen EXCEPT ![p] = r]
    BY <1>4 DEF Show
  <2>2. UNCHANGED <<dead, buffer, mesh>>
    BY <1>4 DEF Show
  <2>3. \A q \in Pos : screen[q] # r
    BY <2>1 DEF ToSet
  <2>4. ToSet(dead) = {}
    BY <1>4 DEF ToSet
  <2>5. screen'[p] = r /\ \A q \in Pos \ {p} : screen'[q] = screen[q]
    BY <1>1, <2>1
  <2>6. screen' \in [Pos -> Renderer \cup {None}] /\ r # None
    BY <1>1, <2>1
  <2>7. \A q, t \in Pos : screen'[q] # None /\ screen'[q] = screen'[t] => q = t
    BY <1>2, <2>3, <2>5
  <2>8. \A q \in Pos : screen'[q] # None => q \in world' /\ screen'[q] \notin ToSet(dead')
    BY <1>1, <2>2, <2>4, <2>5
  <2>9. QED BY <1>1, <1>2, <1>4, <2>2, <2>5, <2>6, <2>7, <2>8
<1>5. CASE screen[p] = None /\ dead # <<>>
  <2> DEFINE r == Last(dead)
  <2>1. /\ screen' = [screen EXCEPT ![p] = r]
        /\ dead' = Front(dead)
        /\ buffer' = [buffer EXCEPT ![r] = <<>>]
        /\ mesh' = [mesh EXCEPT ![r] = <<>>]
    BY <1>5 DEF Show
  <2>2. /\ r \in Renderer /\ r \in ToSet(dead)
        /\ dead' \in Seq(Renderer)
        /\ ToSet(dead') = ToSet(dead) \ {r}
        /\ \A i, j \in 1..Len(dead') : dead'[i] = dead'[j] => i = j
    <3>1. /\ Last(dead) \in Renderer /\ Last(dead) \in ToSet(dead)
          /\ Front(dead) \in Seq(Renderer)
          /\ ToSet(Front(dead)) = ToSet(dead) \ {Last(dead)}
          /\ \A i, j \in 1..Len(Front(dead)) : Front(dead)[i] = Front(dead)[j] => i = j
      BY <1>1, <1>2, <1>5, LastDead
    <3>2. dead' = Front(dead)
      BY <2>1
    <3>3. QED BY <3>1, <3>2, Zenon
  <2> HIDE DEF r
  <2>3. \A q \in Pos : screen[q] # r
    BY <1>1, <2>2
  <2>4. screen'[p] = r /\ \A q \in Pos \ {p} : screen'[q] = screen[q]
    BY <1>1, <2>1
  <2>5. screen' \in [Pos -> Renderer \cup {None}] /\ r # None
    BY <1>1, <2>1, <2>2
  <2>6. \A q, t \in Pos : screen'[q] # None /\ screen'[q] = screen'[t] => q = t
    BY <1>2, <2>3, <2>4
  <2>7. \A q \in Pos : screen'[q] # None => q \in world' /\ screen'[q] \notin ToSet(dead')
    BY <1>1, <2>2, <2>4
  <2>8. <<>> \in Seq(FaceSet)
    BY EmptySeq
  <2>9. buffer' \in [Renderer -> Seq(FaceSet)] /\ mesh' \in [Renderer -> Seq(FaceSet)]
    BY <1>1, <2>1, <2>8
  <2>10. \A x \in Renderer \ {r} : buffer'[x] = buffer[x] /\ mesh'[x] = mesh[x]
    BY <1>1, <2>1
  <2>11. QED BY <1>5, <2>2, <2>4, <2>5, <2>6, <2>7, <2>9, <2>10
<1>6. QED BY <1>3, <1>4, <1>5

-----------------------------------------------------------------------------
(* The remesh threads' jobs.                                               *)

\* What a job pushes and what it has read by that.
LEMMA PushFacts ==
  ASSUME TypeOK, NEW j \in JobSet, NEW k \in Part, Push(j, k)
  PROVE  /\ buffer' \in [Renderer -> Seq(FaceSet)]
         /\ buffer'[j.renderer] = Append(buffer[j.renderer], Faces(j, k))
         /\ \A r \in Renderer \ {j.renderer} : buffer'[r] = buffer[r]
         /\ read' \in [Pos -> [Part -> Nat]]
         /\ j.pos \in world /\ j.gen = gen[j.pos] => read'[j.pos][k] = version[j.pos][k]
         /\ \A p \in Pos, i \in Part : \/ read'[p][i] = read[p][i]
                                       \/ read'[p][i] = version[p][i]
<1>1. /\ version \in [Pos -> [Part -> Nat]] /\ read \in [Pos -> [Part -> Nat]]
      /\ buffer \in [Renderer -> Seq(FaceSet)]
      /\ world \subseteq Pos
      /\ edge \in [Pos -> Nat]
  BY DEF TypeOK
<1>2. j.renderer \in Renderer /\ j.pos \in Pos /\ j.gen \in Nat \ {0}
  BY DEF JobSet
<1>3. Faces(j, k) \in FaceSet
  <2>1. version[j.pos][k] \in Nat /\ edge[j.pos] \in Nat
    BY <1>1, <1>2
  <2> DEFINE v == IF InWorld(j) THEN version[j.pos][k] ELSE 0
             a == IF InWorld(j) /\ j.near = Near(j.pos) THEN edge[j.pos] ELSE 0
  <2>2. v \in Nat /\ a \in Nat
    BY <2>1
  <2> HIDE DEF v, a
  <2>3. [pos |-> j.pos, gen |-> j.gen, part |-> k, version |-> v, around |-> a] \in FaceSet
    BY <1>2, <2>2 DEF FaceSet
  <2>4. QED BY <2>3 DEF v, a, Faces
<1>4. buffer' = [buffer EXCEPT ![j.renderer] = Append(buffer[j.renderer], Faces(j, k))]
  BY DEF Push
<1>5. Append(buffer[j.renderer], Faces(j, k)) \in Seq(FaceSet)
  BY <1>1, <1>2, <1>3, AppendProperties
<1>6. buffer' \in [Renderer -> Seq(FaceSet)]
  BY <1>1, <1>4, <1>5
<1>7. /\ buffer'[j.renderer] = Append(buffer[j.renderer], Faces(j, k))
      /\ \A r \in Renderer \ {j.renderer} : buffer'[r] = buffer[r]
  BY <1>1, <1>2, <1>4
<1>8. CASE j.pos \in world /\ j.gen = gen[j.pos]
  <2>1. read' = [read EXCEPT ![j.pos][k] = version[j.pos][k]]
    BY <1>8 DEF Push, InWorld
  <2>2. version[j.pos][k] \in Nat /\ read[j.pos] \in [Part -> Nat]
    BY <1>1, <1>2
  <2>3. /\ read' \in [Pos -> [Part -> Nat]]
        /\ read'[j.pos][k] = version[j.pos][k]
        /\ \A i \in Part \ {k} : read'[j.pos][i] = read[j.pos][i]
        /\ \A p \in Pos \ {j.pos} : read'[p] = read[p]
    BY <1>1, <1>2, <2>1, <2>2
  <2>4. QED BY <1>6, <1>7, <2>3
<1>9. CASE ~(j.pos \in world /\ j.gen = gen[j.pos])
  <2>1. read' = read
    BY <1>9 DEF Push, InWorld
  <2>2. QED BY <1>1, <1>6, <1>7, <1>9, <2>1
<1>10. QED BY <1>8, <1>9

\* The head of a lane's queue and what is left of it.
LEMMA NextJob ==
  ASSUME NEW q \in Seq(JobSet), q # <<>>
  PROVE  /\ Head(q) \in JobSet /\ Head(q) \in ToSet(q)
         /\ Tail(q) \in Seq(JobSet)
         /\ ToSet(Tail(q)) \subseteq ToSet(q)
         /\ ToSet(q) \subseteq ToSet(Tail(q)) \cup {Head(q)}
<1> DEFINE t == Tail(q)
<1>1. Head(q) \in JobSet /\ t \in Seq(JobSet)
  BY HeadTailProperties
<1>2. Len(t) = Len(q) - 1 /\ \A i \in 1..Len(t) : t[i] = q[i + 1]
  BY HeadTailProperties
<1>3. Len(q) \in Nat /\ Len(q) # 0 /\ Head(q) = q[1]
  OBVIOUS
<1>4. DOMAIN q = 1..Len(q) /\ DOMAIN t = 1..Len(t)
  BY <1>1, LenProperties
<1> HIDE DEF t
<1>5. Head(q) \in ToSet(q)
  BY <1>3, <1>4 DEF ToSet
<1>6. ToSet(t) \subseteq ToSet(q)
  <2>1. \A i \in 1..Len(t) : i + 1 \in 1..Len(q)
    BY <1>2, <1>3
  <2>2. QED BY <1>2, <1>4, <2>1 DEF ToSet
<1>7. ToSet(q) \subseteq ToSet(t) \cup {Head(q)}
  <2>1. \A i \in 1..Len(q) : i = 1 \/ (i - 1 \in 1..Len(t) /\ (i - 1) + 1 = i)
    BY <1>2, <1>3
  <2>2. SUFFICES ASSUME NEW i \in 1..Len(q) PROVE q[i] \in ToSet(t) \cup {Head(q)}
    BY <1>4 DEF ToSet
  <2>3. CASE i = 1
    BY <1>3, <2>3
  <2>4. CASE i # 1
    <3>1. i - 1 \in 1..Len(t) /\ t[i - 1] = q[i]
      BY <1>2, <2>1, <2>4
    <3>2. QED BY <1>4, <3>1 DEF ToSet
  <2>5. QED BY <2>3, <2>4
<1>8. QED BY <1>1, <1>5, <1>6, <1>7 DEF t

\* A job put at the end of a lane's queue.
LEMMA LastJob ==
  ASSUME NEW q \in Seq(JobSet), NEW j \in JobSet
  PROVE  Append(q, j) \in Seq(JobSet) /\ ToSet(Append(q, j)) = ToSet(q) \cup {j}
<1> DEFINE a == Append(q, j)
<1>1. /\ a \in Seq(JobSet) /\ Len(a) = Len(q) + 1
      /\ \A i \in 1..Len(q) : a[i] = q[i]
      /\ a[Len(q) + 1] = j
  BY AppendProperties
<1>2. DOMAIN q = 1..Len(q) /\ DOMAIN a = 1..Len(a) /\ Len(q) \in Nat
  BY <1>1, LenProperties
<1> HIDE DEF a
<1>3. ToSet(q) = {q[i] : i \in 1..Len(q)} /\ ToSet(a) = {a[i] : i \in 1..(Len(q) + 1)}
  BY <1>1, <1>2 DEF ToSet
<1>4. \A i : i \in 1..(Len(q) + 1) <=> i \in 1..Len(q) \/ i = Len(q) + 1
  BY <1>2
<1>5. \A x \in ToSet(a) : x \in ToSet(q) \cup {j}
  BY <1>1, <1>3, <1>4
<1>6. \A x \in ToSet(q) : x \in ToSet(a)
  BY <1>1, <1>3, <1>4
<1>7. j \in ToSet(a)
  BY <1>1, <1>3, <1>4
<1>8. QED BY <1>1, <1>5, <1>6, <1>7 DEF a

-----------------------------------------------------------------------------
(* Types, renderers and neighbours, action by action.                      *)

ShapeInv == TypeOK /\ RenderInv /\ NeighborsExist

\* A step of the world that leaves a chunk clean and not unmarked has left alone what is
\* around it.
Unseen(p) ==
  ~dirty[p] /\ ~unmarked'[p] =>
    ~unmarked[p] /\ edge'[p] = edge[p] /\ \A q \in Around[p] : gen'[q] = gen[q]

\* The chunks that setBlock makes and those it changes.
LEMMA SetBlockFacts ==
  ASSUME ShapeInv, NEW p \in Pos, NEW lit \in SUBSET Around[p], NEW k \in EditedParts,
         NEW seen, SetBlock(p, lit, k, seen)
  PROVE  /\ world' \subseteq Pos /\ world \subseteq world'
         /\ gen' \in [Pos -> Nat] /\ \A q \in world' : gen'[q] # 0
         /\ hasNeighbors' \in [Pos -> BOOLEAN] /\ NeighborsExist'
         /\ version' \in [Pos -> [Part -> Nat]]
         /\ dirty' \in [Pos -> BOOLEAN]
         /\ \A q \in world : gen'[q] = gen[q]
         /\ \A q \in lit \cup {p} : dirty'[q]
         /\ \A q \in world \ (lit \cup {p}) : version'[q] = version[q] /\ dirty'[q] = dirty[q]
         /\ edge' \in [Pos -> Nat] /\ unmarked' \in [Pos -> BOOLEAN]
         /\ \A q \in world \ (lit \cup {p}) : Unseen(q)
<1> USE ConstantsAssumption
<1>1. PICK s \in SetToSeqs((Around[p] \cup {p}) \ world) :
        /\ GetChunks(s, lit \cup {p}, {k}, seen)
        /\ dirty' = [q \in Pos |-> IF q \in lit \cup {p} THEN TRUE
                                   ELSE IF q \in ToSet(s) THEN FALSE ELSE dirty[q]]
  BY Zenon DEF SetBlock
<1>2. ToSet(s) \subseteq (Around[p] \cup {p}) \ world
  BY OrderOfMissing
<1>3. Around[p] \subseteq Pos
  OBVIOUS
<1>4. ToSet(s) \subseteq Pos \ world /\ lit \cup {p} \in SUBSET Pos /\ {k} \in SUBSET Part
  BY <1>2, <1>3 DEF Part
<1>5. TypeOK /\ NeighborsExist
  BY DEF ShapeInv
<1>6. /\ world' \subseteq Pos /\ world \subseteq world'
      /\ gen' \in [Pos -> Nat] /\ \A q \in world' : gen'[q] # 0
      /\ hasNeighbors' \in [Pos -> BOOLEAN] /\ NeighborsExist'
      /\ version' \in [Pos -> [Part -> Nat]]
      /\ \A q \in world : gen'[q] = gen[q]
      /\ \A q \in world \ (lit \cup {p}) : version'[q] = version[q]
      /\ edge' \in [Pos -> Nat]
      /\ \A q \in world : edge'[q] = edge[q] => \A t \in Around[q] : gen'[t] = gen[t]
  BY <1>1, <1>4, <1>5, GetChunksFacts
<1>7. dirty \in [Pos -> BOOLEAN] /\ world \subseteq Pos
  BY <1>5 DEF TypeOK
<1>8. dirty' \in [Pos -> BOOLEAN]
  <2>1. \A q \in Pos : dirty'[q] \in BOOLEAN
    <3>1. SUFFICES ASSUME NEW q \in Pos PROVE dirty'[q] \in BOOLEAN
      OBVIOUS
    <3>2. dirty'[q] = IF q \in lit \cup {p} THEN TRUE
                      ELSE IF q \in ToSet(s) THEN FALSE ELSE dirty[q]
      BY <1>1
    <3>3. dirty[q] \in BOOLEAN
      BY <1>7
    <3>4. QED BY <3>2, <3>3, Zenon
  <2>2. dirty' = [q \in Pos |-> dirty'[q]]
    BY <1>1, Zenon
  <2>3. QED BY <2>1, <2>2, Zenon
<1>9. \A q \in lit \cup {p} : dirty'[q]
  BY <1>1, <1>4
<1>10. \A q \in world \ (lit \cup {p}) : dirty'[q] = dirty[q]
  BY <1>1, <1>2, <1>7
<1>11. Mark(lit \cup {p})
  BY DEF SetBlock
<1>12. /\ unmarked' \in [Pos -> BOOLEAN]
       /\ \A q \in Pos \ (lit \cup {p}) :
            ~unmarked'[q] => ~unmarked[q] /\ (edge'[q] = edge[q] \/ dirty[q])
  BY <1>5, <1>11, MarkFacts
<1>13. \A q \in world \ (lit \cup {p}) : Unseen(q)
  BY <1>6, <1>7, <1>12 DEF Unseen
<1>14. QED BY <1>6, <1>8, <1>9, <1>10, <1>12, <1>13

\* The chunk a packet brings.
LEMMA ReceiveFacts ==
  ASSUME ShapeInv, NEW p \in Pos, Receive(p)
  PROVE  /\ world' \subseteq Pos /\ world \subseteq world' /\ p \in world'
         /\ gen' \in [Pos -> Nat] /\ \A q \in world' : gen'[q] # 0
         /\ hasNeighbors' \in [Pos -> BOOLEAN] /\ NeighborsExist'
         /\ version' \in [Pos -> [Part -> Nat]]
         /\ dirty' \in [Pos -> BOOLEAN] /\ dirty'[p]
         /\ \A q \in world : gen'[q] = gen[q]
         /\ \A q \in world \ {p} : version'[q] = version[q] /\ dirty'[q] = dirty[q]
         /\ edge' \in [Pos -> Nat] /\ unmarked' \in [Pos -> BOOLEAN]
         /\ \A q \in world \ {p} : Unseen(q)
<1> DEFINE s == IF p \in world THEN <<>> ELSE <<p>>
<1>1. GetChunks(s, {p}, Part, Around[p]) /\ dirty' = [dirty EXCEPT ![p] = TRUE] /\ Mark({p})
  BY DEF Receive
<1>2. TypeOK /\ NeighborsExist
  BY DEF ShapeInv
<1>3. ToSet(s) \subseteq Pos \ world /\ (p \notin world => p \in ToSet(s))
  BY DEF ToSet
<1> HIDE DEF s
<1>4. /\ world' \subseteq Pos /\ world \subseteq world'
      /\ gen' \in [Pos -> Nat] /\ \A q \in world' : gen'[q] # 0
      /\ hasNeighbors' \in [Pos -> BOOLEAN] /\ NeighborsExist'
      /\ version' \in [Pos -> [Part -> Nat]]
      /\ \A q \in world : gen'[q] = gen[q]
      /\ \A q \in world \ {p} : version'[q] = version[q]
      /\ edge' \in [Pos -> Nat]
      /\ \A q \in world : edge'[q] = edge[q] => \A t \in Around[q] : gen'[t] = gen[t]
  <2>1. {p} \in SUBSET Pos /\ Part \in SUBSET Part
    OBVIOUS
  <2>2. QED BY <1>1, <1>2, <1>3, <2>1, GetChunksFacts
<1>5. p \in world'
  BY <1>1, <1>3 DEF GetChunks
<1>6. dirty \in [Pos -> BOOLEAN] /\ world \subseteq Pos
  BY <1>2 DEF TypeOK
<1>7. dirty' \in [Pos -> BOOLEAN] /\ dirty'[p] /\ \A q \in world \ {p} : dirty'[q] = dirty[q]
  BY <1>1, <1>6
<1>8. /\ unmarked' \in [Pos -> BOOLEAN]
      /\ \A q \in Pos \ {p} : ~unmarked'[q] => ~unmarked[q] /\ (edge'[q] = edge[q] \/ dirty[q])
  BY <1>1, <1>2, MarkFacts
<1>9. \A q \in world \ {p} : Unseen(q)
  BY <1>4, <1>6, <1>8 DEF Unseen
<1>10. QED BY <1>4, <1>5, <1>7, <1>8, <1>9

\* The chunk and the renderer that manageChunks deletes.
LEMMA DropFacts ==
  ASSUME ShapeInv, NEW p \in Pos, Drop(p)
  PROVE  /\ world' = world \ {p}
         /\ hasNeighbors' \in [Pos -> BOOLEAN] /\ NeighborsExist'
         /\ dirty' \in [Pos -> BOOLEAN]
         /\ version' \in [Pos -> [Part -> Nat]] /\ read' \in [Pos -> [Part -> Nat]]
         /\ edge' \in [Pos -> Nat] /\ unmarked' \in [Pos -> BOOLEAN]
         /\ \A q \in Pos \ {p} : /\ version'[q] = version[q] /\ read'[q] = read[q]
                                 /\ dirty'[q] = dirty[q]
                                 /\ edge'[q] = edge[q] /\ unmarked'[q] = unmarked[q]
         /\ screen' \in [Pos -> Renderer \cup {None}]
         /\ screen'[p] = None /\ \A q \in Pos \ {p} : screen'[q] = screen[q]
         /\ dead' \in Seq(Renderer)
         /\ \A i, j \in 1..Len(dead') : dead'[i] = dead'[j] => i = j
         /\ \A q \in Pos : screen'[q] # None => screen'[q] \notin ToSet(dead')
<1> USE ConstantsAssumption
<1>1. /\ screen \in [Pos -> Renderer \cup {None}]
      /\ dead \in Seq(Renderer)
      /\ \A q \in Pos : screen[q] # None => q \in world /\ screen[q] \notin ToSet(dead)
      /\ hasNeighbors \in [Pos -> BOOLEAN] /\ dirty \in [Pos -> BOOLEAN]
      /\ version \in [Pos -> [Part -> Nat]] /\ read \in [Pos -> [Part -> Nat]]
      /\ edge \in [Pos -> Nat] /\ unmarked \in [Pos -> BOOLEAN]
  BY DEF ShapeInv, TypeOK
<1>2. /\ \A q, t \in Pos : screen[q] # None /\ screen[q] = screen[t] => q = t
      /\ \A i, j \in 1..Len(dead) : dead[i] = dead[j] => i = j
  BY DEF ShapeInv, RenderInv
<1>3. NeighborsExist
  BY DEF ShapeInv
<1>4. /\ world' = world \ {p}
      /\ dirty' = [dirty EXCEPT ![p] = FALSE]
      /\ hasNeighbors' = [q \in Pos |-> hasNeighbors[q] /\ q # p /\ q \notin Around[p]]
      /\ screen' = [screen EXCEPT ![p] = None]
      /\ dead' = IF screen[p] = None THEN dead ELSE Append(dead, screen[p])
      /\ version' = [version EXCEPT ![p] = [k \in Part |-> 0]]
      /\ read' = [read EXCEPT ![p] = [k \in Part |-> 0]]
      /\ edge' = [edge EXCEPT ![p] = 0]
      /\ unmarked' = [unmarked EXCEPT ![p] = FALSE]
  BY DEF Drop, Forget
<1>5. hasNeighbors' \in [Pos -> BOOLEAN]
  BY <1>4
<1>6. NeighborsExist'
  <2>1. SUFFICES ASSUME NEW q \in Pos, hasNeighbors'[q]
                 PROVE  q \in world' /\ Around[q] \subseteq world'
    BY DEF NeighborsExist
  <2>2. hasNeighbors[q] /\ q # p /\ q \notin Around[p]
    BY <1>4, <2>1
  <2>3. q \in world /\ Around[q] \subseteq world
    BY <1>3, <2>2 DEF NeighborsExist
  <2>4. p \notin Around[q]
    BY <2>2
  <2>5. QED BY <1>4, <2>2, <2>3, <2>4
<1>7. dirty' \in [Pos -> BOOLEAN] /\ \A q \in Pos \ {p} : dirty'[q] = dirty[q]
  BY <1>1, <1>4
<1>8. /\ version' \in [Pos -> [Part -> Nat]] /\ read' \in [Pos -> [Part -> Nat]]
      /\ \A q \in Pos \ {p} : version'[q] = version[q] /\ read'[q] = read[q]
  <2>1. [k \in Part |-> 0] \in [Part -> Nat]
    OBVIOUS
  <2>2. QED BY <1>1, <1>4, <2>1
<1>9. /\ screen' \in [Pos -> Renderer \cup {None}]
      /\ screen'[p] = None /\ \A q \in Pos \ {p} : screen'[q] = screen[q]
  BY <1>1, <1>4
<1>10. /\ dead' \in Seq(Renderer)
       /\ \A i, j \in 1..Len(dead') : dead'[i] = dead'[j] => i = j
       /\ \A q \in Pos : screen'[q] # None => screen'[q] \notin ToSet(dead')
  <2>1. CASE screen[p] = None
    <3>1. dead' = dead
      BY <1>4, <2>1
    <3>2. QED BY <1>1, <1>2, <1>9, <3>1
  <2>2. CASE screen[p] # None
    <3>1. screen[p] \in Renderer /\ screen[p] \notin ToSet(dead)
      BY <1>1, <2>2
    <3>2. dead' = Append(dead, screen[p])
      BY <1>4, <2>2
    <3>3. /\ dead' \in Seq(Renderer)
          /\ ToSet(dead') = ToSet(dead) \cup {screen[p]}
          /\ \A i, j \in 1..Len(dead') : dead'[i] = dead'[j] => i = j
      BY <1>1, <1>2, <3>1, <3>2, OneMoreDead
    <3>4. QED BY <1>1, <1>2, <1>9, <2>2, <3>3
  <2>3. QED BY <2>1, <2>2
<1>11. /\ edge' \in [Pos -> Nat] /\ unmarked' \in [Pos -> BOOLEAN]
       /\ \A q \in Pos \ {p} : edge'[q] = edge[q] /\ unmarked'[q] = unmarked[q]
  BY <1>1, <1>4
<1>12. QED BY <1>4, <1>5, <1>6, <1>7, <1>8, <1>9, <1>10, <1>11

\* The job that render makes of a dirty chunk.
LEMMA EnqueueFacts ==
  ASSUME TypeOK, NEW p \in Pos, Enqueue(p)
  PROVE  /\ p \in world /\ screen[p] \in Renderer
         /\ Job(screen[p], p) \in JobSet
         /\ dirty' \in [Pos -> BOOLEAN] /\ ~dirty'[p]
         /\ \A q \in Pos \ {p} : dirty'[q] = dirty[q]
         /\ queue' \in [Lane -> Seq(JobSet)]
         /\ LaneOf[p] \in Lane
         /\ ToSet(queue'[LaneOf[p]]) = ToSet(queue[LaneOf[p]]) \cup {Job(screen[p], p)}
         /\ \A l \in Lane \ {LaneOf[p]} : queue'[l] = queue[l]
<1> USE ConstantsAssumption
<1>1. /\ screen \in [Pos -> Renderer \cup {None}]
      /\ \A q \in Pos : screen[q] # None => q \in world
      /\ gen \in [Pos -> Nat] /\ \A q \in world : gen[q] # 0
      /\ dirty \in [Pos -> BOOLEAN]
      /\ queue \in [Lane -> Seq(JobSet)]
  BY DEF TypeOK
<1>2. /\ screen[p] # None
      /\ dirty' = [dirty EXCEPT ![p] = FALSE]
      /\ queue' = [queue EXCEPT ![LaneOf[p]] = Append(@, Job(screen[p], p))]
  BY DEF Enqueue, CanDraw
<1>3. p \in world /\ screen[p] \in Renderer
  BY <1>1, <1>2
<1>4. Job(screen[p], p) \in JobSet
  <2>1. gen[p] \in Nat \ {0} /\ 1 \in 1..(Parts + 1)
    BY <1>1, <1>3
  <2>2. Near(p) \in [Pos -> Nat]
    BY <1>1 DEF Near
  <2>3. QED BY <1>3, <2>1, <2>2 DEF Job, JobSet
<1>5. dirty' \in [Pos -> BOOLEAN] /\ ~dirty'[p] /\ \A q \in Pos \ {p} : dirty'[q] = dirty[q]
  BY <1>1, <1>2
<1>6. LaneOf[p] \in Lane
  OBVIOUS
<1> DEFINE l == LaneOf[p]
           j == Job(screen[p], p)
<1> HIDE DEF l, j
<1>7. queue[l] \in Seq(JobSet)
  BY <1>1, <1>6 DEF l
<1>8. Append(queue[l], j) \in Seq(JobSet) /\ ToSet(Append(queue[l], j)) = ToSet(queue[l]) \cup {j}
  <2>1. j \in JobSet
    BY <1>4 DEF j
  <2>2. QED BY <1>7, <2>1, LastJob
<1>9. queue' = [queue EXCEPT ![l] = Append(queue[l], j)]
  BY <1>2 DEF l, j
<1>10. /\ queue' \in [Lane -> Seq(JobSet)]
       /\ queue'[l] = Append(queue[l], j)
       /\ \A m \in Lane \ {l} : queue'[m] = queue[m]
  <2>1. l \in Lane
    BY <1>6 DEF l
  <2>2. QED BY <1>1, <1>8, <1>9, <2>1
<1>11. ToSet(queue'[l]) = ToSet(queue[l]) \cup {j}
  BY <1>8, <1>10
<1>12. QED BY <1>3, <1>4, <1>5, <1>6, <1>10, <1>11 DEF l, j

\* The job a thread takes from its queue.
LEMMA BeginFacts ==
  ASSUME TypeOK, NEW l \in Lane, BeginMesh(l), NEW j, j = Head(queue[l])
  PROVE  /\ j \in JobSet /\ j \in ToSet(queue[l])
         /\ busy[l] = None
         /\ busy' \in [Lane -> JobSet \cup {None}]
         /\ busy'[l] \in JobSet /\ busy'[l].renderer = j.renderer /\ busy'[l].pos = j.pos
         /\ busy'[l].gen = j.gen /\ busy'[l].near = j.near /\ busy'[l].next = 2
         /\ \A m \in Lane \ {l} : busy'[m] = busy[m]
         /\ 1 \in Part /\ Push(j, 1)
         /\ queue' \in [Lane -> Seq(JobSet)]
         /\ ToSet(queue'[l]) \subseteq ToSet(queue[l])
         /\ ToSet(queue[l]) \subseteq ToSet(queue'[l]) \cup {j}
         /\ \A m \in Lane \ {l} : queue'[m] = queue[m]
         /\ mixed' \in [Renderer -> BOOLEAN]
         /\ mixed'[j.renderer] = ~Undisturbed(j)
         /\ \A r \in Renderer \ {j.renderer} : mixed'[r] = mixed[r]
<1> USE ConstantsAssumption
<1>1. /\ queue \in [Lane -> Seq(JobSet)] /\ busy \in [Lane -> JobSet \cup {None}]
      /\ mixed \in [Renderer -> BOOLEAN]
  BY DEF TypeOK
<1>2. /\ busy[l] = None /\ queue[l] # <<>>
      /\ busy' = [busy EXCEPT ![l] = [j EXCEPT !.next = 2]]
      /\ Push(j, 1)
      /\ mixed' = [mixed EXCEPT ![j.renderer] = ~Undisturbed(j)]
      /\ queue' = [queue EXCEPT ![l] = Tail(queue[l])]
  BY DEF BeginMesh
<1>3. queue[l] \in Seq(JobSet)
  BY <1>1
<1>4. /\ j \in JobSet /\ j \in ToSet(queue[l])
      /\ Tail(queue[l]) \in Seq(JobSet)
      /\ ToSet(Tail(queue[l])) \subseteq ToSet(queue[l])
      /\ ToSet(queue[l]) \subseteq ToSet(Tail(queue[l])) \cup {j}
  BY <1>2, <1>3, NextJob
<1>5. /\ queue' \in [Lane -> Seq(JobSet)]
      /\ queue'[l] = Tail(queue[l])
      /\ \A m \in Lane \ {l} : queue'[m] = queue[m]
  BY <1>1, <1>2, <1>4
<1>6. 1 \in Part /\ 2 \in 1..(Parts + 1)
  BY DEF Part
<1> DEFINE b == [j EXCEPT !.next = 2]
<1>7. /\ b \in JobSet /\ b.renderer = j.renderer /\ b.pos = j.pos
      /\ b.gen = j.gen /\ b.near = j.near /\ b.next = 2
  BY <1>4, <1>6 DEF JobSet
<1>8. busy' = [busy EXCEPT ![l] = b]
  BY <1>2
<1> HIDE DEF b
<1>9. /\ busy' \in [Lane -> JobSet \cup {None}] /\ busy'[l] = b
      /\ \A m \in Lane \ {l} : busy'[m] = busy[m]
  BY <1>1, <1>7, <1>8
<1>10. j.renderer \in Renderer
  BY <1>4 DEF JobSet
<1>11. /\ mixed' \in [Renderer -> BOOLEAN]
       /\ mixed'[j.renderer] = ~Undisturbed(j)
       /\ \A r \in Renderer \ {j.renderer} : mixed'[r] = mixed[r]
  <2> DEFINE u == ~Undisturbed(j)
  <2>1. u \in BOOLEAN
    OBVIOUS
  <2>2. mixed' = [mixed EXCEPT ![j.renderer] = u]
    BY <1>2
  <2> HIDE DEF u
  <2>3. /\ mixed' \in [Renderer -> BOOLEAN]
        /\ mixed'[j.renderer] = u
        /\ \A r \in Renderer \ {j.renderer} : mixed'[r] = mixed[r]
    BY <1>1, <1>10, <2>1, <2>2
  <2>4. QED BY <2>3 DEF u
<1>12. QED BY <1>2, <1>4, <1>5, <1>6, <1>7, <1>9, <1>11, Zenon

\* The job a thread goes on with.
LEMMA PushFacesFacts ==
  ASSUME TypeOK, NEW l \in Lane, PushFaces(l)
  PROVE  /\ busy[l] \in JobSet /\ busy[l].next \in Part
         /\ Push(busy[l], busy[l].next)
         /\ busy' \in [Lane -> JobSet \cup {None}]
         /\ busy'[l] \in JobSet /\ busy'[l].renderer = busy[l].renderer
         /\ busy'[l].pos = busy[l].pos /\ busy'[l].gen = busy[l].gen
         /\ busy'[l].near = busy[l].near
         /\ busy'[l].next = busy[l].next + 1
         /\ \A m \in Lane \ {l} : busy'[m] = busy[m]
<1> USE ConstantsAssumption
<1>1. busy \in [Lane -> JobSet \cup {None}]
  BY DEF TypeOK
<1>2. /\ busy[l] # None /\ busy[l].next <= Parts
      /\ Push(busy[l], busy[l].next)
      /\ busy' = [busy EXCEPT ![l].next = @ + 1]
  BY DEF PushFaces
<1>3. busy[l] \in JobSet
  BY <1>1, <1>2
<1>4. busy[l].next \in 1..(Parts + 1)
  BY <1>3 DEF JobSet
<1>5. busy[l].next \in Part /\ busy[l].next + 1 \in 1..(Parts + 1)
  BY <1>2, <1>4 DEF Part
<1> DEFINE b == [busy[l] EXCEPT !.next = busy[l].next + 1]
<1>6. /\ b \in JobSet /\ b.renderer = busy[l].renderer /\ b.pos = busy[l].pos
      /\ b.gen = busy[l].gen /\ b.near = busy[l].near /\ b.next = busy[l].next + 1
  BY <1>3, <1>5 DEF JobSet
<1>7. busy' = [busy EXCEPT ![l] = b]
  BY <1>2
<1> HIDE DEF b
<1>8. /\ busy' \in [Lane -> JobSet \cup {None}] /\ busy'[l] = b
      /\ \A m \in Lane \ {l} : busy'[m] = busy[m]
  BY <1>1, <1>6, <1>7
<1>9. QED BY <1>2, <1>3, <1>5, <1>6, <1>8, Zenon

\* The job a thread ends.
LEMMA FinishFacts ==
  ASSUME TypeOK, NEW l \in Lane, FinishMesh(l)
  PROVE  /\ busy[l] \in JobSet /\ busy[l].next = Parts + 1
         /\ busy' \in [Lane -> JobSet \cup {None}] /\ busy'[l] = None
         /\ \A m \in Lane \ {l} : busy'[m] = busy[m]
         /\ update' \in [Renderer -> BOOLEAN] /\ update'[busy[l].renderer]
         /\ \A r \in Renderer \ {busy[l].renderer} : update'[r] = update[r]
<1> USE ConstantsAssumption
<1>1. busy \in [Lane -> JobSet \cup {None}] /\ update \in [Renderer -> BOOLEAN]
  BY DEF TypeOK
<1>2. /\ busy[l] # None /\ busy[l].next > Parts
      /\ update' = [update EXCEPT ![busy[l].renderer] = TRUE]
      /\ busy' = [busy EXCEPT ![l] = None]
  BY DEF FinishMesh
<1>3. busy[l] \in JobSet
  BY <1>1, <1>2
<1>4. busy[l].next \in 1..(Parts + 1) /\ busy[l].renderer \in Renderer
  BY <1>3 DEF JobSet
<1>5. busy[l].next = Parts + 1
  BY <1>2, <1>4
<1>6. /\ busy' \in [Lane -> JobSet \cup {None}] /\ busy'[l] = None
      /\ \A m \in Lane \ {l} : busy'[m] = busy[m]
  BY <1>1, <1>2
<1>7. /\ update' \in [Renderer -> BOOLEAN] /\ update'[busy[l].renderer]
      /\ \A r \in Renderer \ {busy[l].renderer} : update'[r] = update[r]
  BY <1>1, <1>2, <1>4
<1>8. QED BY <1>3, <1>5, <1>6, <1>7

\* The buffer becomes what the renderer draws.
LEMMA TakeFacts ==
  ASSUME ShapeInv, NEW p \in Pos, TakeMesh(p)
  PROVE  /\ p \in world /\ screen[p] \in Renderer /\ update[screen[p]]
         /\ main \in {<<>>, <<"draw", p>>} /\ main' = <<"taken", p>>
         /\ buffer' \in [Renderer -> Seq(FaceSet)] /\ mesh' \in [Renderer -> Seq(FaceSet)]
         /\ mesh'[screen[p]] = buffer[screen[p]] /\ buffer'[screen[p]] = <<>>
         /\ \A r \in Renderer \ {screen[p]} : mesh'[r] = mesh[r] /\ buffer'[r] = buffer[r]
<1>1. /\ screen \in [Pos -> Renderer \cup {None}]
      /\ \A q \in Pos : screen[q] # None => q \in world
      /\ buffer \in [Renderer -> Seq(FaceSet)] /\ mesh \in [Renderer -> Seq(FaceSet)]
  BY DEF ShapeInv, TypeOK
<1>2. /\ main = <<"draw", p>> \/ (main = <<>> /\ screen[p] # None)
      /\ update[screen[p]]
      /\ mesh' = [mesh EXCEPT ![screen[p]] = buffer[screen[p]]]
      /\ buffer' = [buffer EXCEPT ![screen[p]] = <<>>]
      /\ main' = <<"taken", p>>
  BY DEF TakeMesh, Idle, CanDraw
<1>3. screen[p] # None
  <2>1. main = <<"draw", p>> => main # <<>> /\ main[2] = p
    OBVIOUS
  <2>2. QED BY <1>2, <2>1 DEF ShapeInv, RenderInv
<1>4. screen[p] \in Renderer /\ p \in world
  BY <1>1, <1>3
<1>5. <<>> \in Seq(FaceSet)
  BY EmptySeq
<1>6. /\ buffer' \in [Renderer -> Seq(FaceSet)] /\ mesh' \in [Renderer -> Seq(FaceSet)]
      /\ mesh'[screen[p]] = buffer[screen[p]] /\ buffer'[screen[p]] = <<>>
      /\ \A r \in Renderer \ {screen[p]} : mesh'[r] = mesh[r] /\ buffer'[r] = buffer[r]
  BY <1>1, <1>2, <1>4, <1>5
<1>7. QED BY <1>2, <1>4, <1>6

\* The renderer has drawn.
LEMMA DrawFacts ==
  ASSUME ShapeInv, NEW p \in Pos, DrawMesh(p)
  PROVE  /\ p \in world /\ screen[p] \in Renderer
         /\ update' \in [Renderer -> BOOLEAN]
         /\ \A r \in Renderer \ {screen[p]} : update'[r] = update[r]
         /\ \/ main = <<"draw", p>> /\ ~update[screen[p]] /\ ~update'[screen[p]]
            \/ main = <<"taken", p>> /\ ~update'[screen[p]]
<1>1. /\ screen \in [Pos -> Renderer \cup {None}]
      /\ \A q \in Pos : screen[q] # None => q \in world
      /\ update \in [Renderer -> BOOLEAN]
  BY DEF ShapeInv, TypeOK
<1>2. main \in {<<"draw", p>>, <<"taken", p>>}
  BY DEF DrawMesh
<1>3. main # <<>> /\ main[2] = p
  BY <1>2
<1>4. screen[p] \in Renderer /\ p \in world
  BY <1>1, <1>3 DEF ShapeInv, RenderInv
<1>5. CASE main = <<"draw", p>> /\ ~update[screen[p]] /\ UNCHANGED update
  BY <1>1, <1>4, <1>5
<1>6. CASE main = <<"taken", p>> /\ update' = [update EXCEPT ![screen[p]] = FALSE]
  BY <1>1, <1>4, <1>6
<1>7. QED BY <1>5, <1>6 DEF DrawMesh

LEMMA ShapeStep ==
  ASSUME ShapeInv, [Next]_vars
  PROVE  ShapeInv'
<1> USE ConstantsAssumption
<1>1. /\ world \subseteq Pos
      /\ gen \in [Pos -> Nat] /\ \A p \in world : gen[p] # 0
      /\ hasNeighbors \in [Pos -> BOOLEAN] /\ dirty \in [Pos -> BOOLEAN]
      /\ version \in [Pos -> [Part -> Nat]] /\ read \in [Pos -> [Part -> Nat]]
      /\ edge \in [Pos -> Nat] /\ unmarked \in [Pos -> BOOLEAN]
      /\ screen \in [Pos -> Renderer \cup {None}]
      /\ dead \in Seq(Renderer)
      /\ queue \in [Lane -> Seq(JobSet)] /\ busy \in [Lane -> JobSet \cup {None}]
      /\ buffer \in [Renderer -> Seq(FaceSet)] /\ mesh \in [Renderer -> Seq(FaceSet)]
      /\ update \in [Renderer -> BOOLEAN] /\ mixed \in [Renderer -> BOOLEAN]
      /\ main \in {<<>>} \cup ({"draw", "taken"} \X world)
      /\ \A p \in Pos : screen[p] # None => p \in world /\ screen[p] \notin ToSet(dead)
  BY DEF ShapeInv, TypeOK
<1>2. /\ \A p, q \in Pos : screen[p] # None /\ screen[p] = screen[q] => p = q
      /\ \A i, j \in 1..Len(dead) : dead[i] = dead[j] => i = j
      /\ main # <<>> => screen[main[2]] # None
      /\ \A p \in Pos : main = <<"taken", p>> => update[screen[p]]
  BY DEF ShapeInv, RenderInv
<1>3. TypeOK /\ RenderInv /\ NeighborsExist
  BY DEF ShapeInv
<1>4. ASSUME UNCHANGED <<world, hasNeighbors>>
      PROVE  NeighborsExist'
  BY <1>3, <1>4 DEF NeighborsExist
<1>5. ASSUME NEW p \in Pos, NEW lit \in SUBSET Around[p], NEW k \in EditedParts,
             NEW seen, SetBlock(p, lit, k, seen)
      PROVE  ShapeInv'
  <2>1. /\ world' \subseteq Pos /\ world \subseteq world'
        /\ gen' \in [Pos -> Nat] /\ \A q \in world' : gen'[q] # 0
        /\ hasNeighbors' \in [Pos -> BOOLEAN] /\ NeighborsExist'
        /\ version' \in [Pos -> [Part -> Nat]]
        /\ dirty' \in [Pos -> BOOLEAN]
        /\ edge' \in [Pos -> Nat] /\ unmarked' \in [Pos -> BOOLEAN]
    BY <1>5, SetBlockFacts
  <2>2. /\ UNCHANGED <<screen, dead, queue, busy, buffer, update, mesh, main, read, mixed>>
        /\ main = <<>>
    BY <1>5 DEF SetBlock, screenVars, meshVars, Idle
  <2>3. TypeOK'
    BY <1>1, <2>1, <2>2 DEF TypeOK
  <2>4. RenderInv'
    BY <1>2, <2>2 DEF RenderInv
  <2>5. QED BY <2>1, <2>3, <2>4 DEF ShapeInv
<1>6. ASSUME NEW p \in Pos, Receive(p)
      PROVE  ShapeInv'
  <2>1. /\ world' \subseteq Pos /\ world \subseteq world' /\ p \in world'
        /\ gen' \in [Pos -> Nat] /\ \A q \in world' : gen'[q] # 0
        /\ hasNeighbors' \in [Pos -> BOOLEAN] /\ NeighborsExist'
        /\ version' \in [Pos -> [Part -> Nat]]
        /\ dirty' \in [Pos -> BOOLEAN]
        /\ edge' \in [Pos -> Nat] /\ unmarked' \in [Pos -> BOOLEAN]
    BY <1>6, ReceiveFacts
  <2>2. /\ UNCHANGED <<queue, busy, update, main, read, mixed>>
        /\ main = <<>> /\ Show(p)
    BY <1>6 DEF Receive, Idle
  <2>3. /\ screen' \in [Pos -> Renderer \cup {None}]
        /\ \A q \in Pos : screen'[q] # None => q \in world' /\ screen'[q] \notin ToSet(dead')
        /\ \A q, t \in Pos : screen'[q] # None /\ screen'[q] = screen'[t] => q = t
        /\ dead' \in Seq(Renderer)
        /\ \A i, j \in 1..Len(dead') : dead'[i] = dead'[j] => i = j
        /\ buffer' \in [Renderer -> Seq(FaceSet)] /\ mesh' \in [Renderer -> Seq(FaceSet)]
    BY <1>3, <2>1, <2>2, ShowFacts
  <2>4. TypeOK'
    BY <1>1, <2>1, <2>2, <2>3 DEF TypeOK
  <2>5. RenderInv'
    BY <2>2, <2>3 DEF RenderInv
  <2>6. QED BY <2>1, <2>4, <2>5 DEF ShapeInv
<1>7. ASSUME NEW p \in Pos, Drop(p)
      PROVE  ShapeInv'
  <2>1. /\ world' = world \ {p}
        /\ hasNeighbors' \in [Pos -> BOOLEAN] /\ NeighborsExist'
        /\ dirty' \in [Pos -> BOOLEAN]
        /\ version' \in [Pos -> [Part -> Nat]] /\ read' \in [Pos -> [Part -> Nat]]
        /\ edge' \in [Pos -> Nat] /\ unmarked' \in [Pos -> BOOLEAN]
        /\ screen' \in [Pos -> Renderer \cup {None}]
        /\ screen'[p] = None /\ \A q \in Pos \ {p} : screen'[q] = screen[q]
        /\ dead' \in Seq(Renderer)
        /\ \A i, j \in 1..Len(dead') : dead'[i] = dead'[j] => i = j
        /\ \A q \in Pos : screen'[q] # None => screen'[q] \notin ToSet(dead')
    BY <1>7, DropFacts
  <2>2. /\ UNCHANGED <<gen, queue, busy, buffer, update, mesh, main, mixed>>
        /\ main = <<>>
    BY <1>7 DEF Drop, meshVars, Idle
  <2>3. \A q \in Pos : screen'[q] # None => q \in world'
    BY <1>1, <2>1
  <2>4. TypeOK'
    BY <1>1, <2>1, <2>2, <2>3 DEF TypeOK
  <2>5. \A q, t \in Pos : screen'[q] # None /\ screen'[q] = screen'[t] => q = t
    BY <1>2, <2>1
  <2>6. RenderInv'
    BY <2>1, <2>2, <2>5 DEF RenderInv
  <2>7. QED BY <2>1, <2>4, <2>6 DEF ShapeInv
<1>8. ASSUME NEW p \in Pos, Enqueue(p)
      PROVE  ShapeInv'
  <2>1. /\ p \in world /\ screen[p] \in Renderer
        /\ dirty' \in [Pos -> BOOLEAN]
        /\ queue' \in [Lane -> Seq(JobSet)]
    BY <1>3, <1>8, EnqueueFacts
  <2>2. /\ UNCHANGED <<world, gen, hasNeighbors, version, edge, unmarked, screen, dead, busy,
                       buffer, update, mesh, read, mixed>>
        /\ main' = <<"draw", p>>
    BY <1>8 DEF Enqueue, worldVars, screenVars, meshVars
  <2>3. TypeOK'
    BY <1>1, <2>1, <2>2 DEF TypeOK
  <2>4. RenderInv'
    BY <1>2, <2>1, <2>2 DEF RenderInv
  <2>5. QED BY <1>4, <2>2, <2>3, <2>4 DEF ShapeInv
<1>9. ASSUME NEW p \in Pos, TakeMesh(p)
      PROVE  ShapeInv'
  <2>1. /\ p \in world /\ screen[p] \in Renderer /\ update[screen[p]]
        /\ main' = <<"taken", p>>
        /\ buffer' \in [Renderer -> Seq(FaceSet)] /\ mesh' \in [Renderer -> Seq(FaceSet)]
    BY <1>9, TakeFacts
  <2>2. UNCHANGED <<world, gen, hasNeighbors, version, edge, unmarked, dirty, screen, dead, queue,
                    busy, update, read, mixed>>
    BY <1>9 DEF TakeMesh, worldVars, screenVars
  <2>3. TypeOK'
    BY <1>1, <2>1, <2>2 DEF TypeOK
  <2>4. RenderInv'
    BY <1>2, <2>1, <2>2 DEF RenderInv
  <2>5. QED BY <1>4, <2>2, <2>3, <2>4 DEF ShapeInv
<1>10. ASSUME NEW p \in Pos, DrawMesh(p)
       PROVE  ShapeInv'
  <2>1. update' \in [Renderer -> BOOLEAN]
    BY <1>10, DrawFacts
  <2>2. /\ UNCHANGED <<world, gen, hasNeighbors, version, edge, unmarked, dirty, screen, dead,
                       queue, busy, buffer, mesh, read, mixed>>
        /\ main' = <<>>
    BY <1>10 DEF DrawMesh, worldVars, screenVars
  <2>3. TypeOK'
    BY <1>1, <2>1, <2>2 DEF TypeOK
  <2>4. RenderInv'
    BY <1>2, <2>2 DEF RenderInv
  <2>5. QED BY <1>4, <2>2, <2>3, <2>4 DEF ShapeInv
<1>11. ASSUME NEW l \in Lane, BeginMesh(l)
       PROVE  ShapeInv'
  <2> DEFINE j == Head(queue[l])
  <2>1. /\ j \in JobSet
        /\ busy' \in [Lane -> JobSet \cup {None}]
        /\ 1 \in Part /\ Push(j, 1)
        /\ queue' \in [Lane -> Seq(JobSet)]
        /\ mixed' \in [Renderer -> BOOLEAN]
    BY <1>3, <1>11, BeginFacts
  <2>2. buffer' \in [Renderer -> Seq(FaceSet)] /\ read' \in [Pos -> [Part -> Nat]]
    BY <1>3, <2>1, PushFacts
  <2>3. UNCHANGED <<world, gen, hasNeighbors, version, edge, unmarked, dirty, screen, dead,
                    update, mesh, main>>
    BY <1>11 DEF BeginMesh, worldVars, screenVars
  <2>4. TypeOK'
    BY <1>1, <2>1, <2>2, <2>3 DEF TypeOK
  <2>5. RenderInv'
    BY <1>2, <2>3 DEF RenderInv
  <2>6. QED BY <1>4, <2>3, <2>4, <2>5 DEF ShapeInv
<1>12. ASSUME NEW l \in Lane, PushFaces(l)
       PROVE  ShapeInv'
  <2>1. /\ busy[l] \in JobSet /\ busy[l].next \in Part /\ Push(busy[l], busy[l].next)
        /\ busy' \in [Lane -> JobSet \cup {None}]
    BY <1>3, <1>12, PushFacesFacts
  <2>2. buffer' \in [Renderer -> Seq(FaceSet)] /\ read' \in [Pos -> [Part -> Nat]]
    BY <1>3, <2>1, PushFacts
  <2>3. UNCHANGED <<world, gen, hasNeighbors, version, edge, unmarked, dirty, screen, dead, queue,
                    update, mesh, main, mixed>>
    BY <1>12 DEF PushFaces, worldVars, screenVars
  <2>4. TypeOK'
    BY <1>1, <2>1, <2>2, <2>3 DEF TypeOK
  <2>5. RenderInv'
    BY <1>2, <2>3 DEF RenderInv
  <2>6. QED BY <1>4, <2>3, <2>4, <2>5 DEF ShapeInv
<1>13. ASSUME NEW l \in Lane, FinishMesh(l)
       PROVE  ShapeInv'
  <2>1. /\ busy[l] \in JobSet
        /\ busy' \in [Lane -> JobSet \cup {None}]
        /\ update' \in [Renderer -> BOOLEAN] /\ update'[busy[l].renderer]
        /\ \A r \in Renderer \ {busy[l].renderer} : update'[r] = update[r]
    BY <1>3, <1>13, FinishFacts
  <2>2. UNCHANGED <<world, gen, hasNeighbors, version, edge, unmarked, dirty, screen, dead, queue,
                    buffer, mesh, main, read, mixed>>
    BY <1>13 DEF FinishMesh, worldVars, screenVars
  <2>3. TypeOK'
    BY <1>1, <2>1, <2>2 DEF TypeOK
  <2>4. \A p \in Pos : main' = <<"taken", p>> => update'[screen'[p]]
    <3>1. SUFFICES ASSUME NEW p \in Pos, main = <<"taken", p>> PROVE update'[screen[p]]
      BY <2>2
    <3>2. update[screen[p]] /\ screen[p] \in Renderer
      BY <1>1, <1>2, <3>1
    <3>3. QED BY <2>1, <3>2
  <2>5. RenderInv'
    BY <1>2, <2>2, <2>4 DEF RenderInv
  <2>6. QED BY <1>4, <2>2, <2>3, <2>5 DEF ShapeInv
<1>14. CASE UNCHANGED vars
  <2>1. UNCHANGED <<world, gen, hasNeighbors, version, edge, unmarked, dirty, screen, dead, queue,
                    busy, buffer, update, mesh, main, read, mixed>>
    BY <1>14 DEF vars, worldVars, screenVars, meshVars
  <2>2. TypeOK'
    BY <1>1, <2>1 DEF TypeOK
  <2>3. RenderInv'
    BY <1>2, <2>1 DEF RenderInv
  <2>4. QED BY <1>4, <2>1, <2>2, <2>3 DEF ShapeInv
<1>15. QED BY <1>5, <1>6, <1>7, <1>8, <1>9, <1>10, <1>11, <1>12, <1>13, <1>14
           DEF Next, Draw, Thread

-----------------------------------------------------------------------------
(* No change is lost.                                                      *)

Meshed(p, k) ==
  screen[p] # None => dirty[p] \/ WillRead(p, k) \/ read[p][k] = version[p][k]

\* It stays so for a chunk that a step leaves alone, if no job is lost by it.
LEMMA MeshedKept ==
  ASSUME NEW p \in Pos, NEW k \in Part, Meshed(p, k),
         screen'[p] # None => screen[p] # None,
         dirty[p] => dirty'[p],
         gen'[p] = gen[p], version'[p] = version[p], read'[p] = read[p],
         \A l \in Lane : /\ ToSet(queue[l]) \subseteq ToSet(queue'[l])
                         /\ busy[l] # None => busy'[l] = busy[l]
  PROVE  Meshed(p, k)'
<1>1. WillRead(p, k) => WillRead(p, k)'
  BY DEF WillRead, Jobs
<1>2. QED BY <1>1 DEF Meshed

LEMMA ChangesStep ==
  ASSUME ShapeInv, ChangesMeshed, [Next]_vars
  PROVE  ChangesMeshed'
<1> USE ConstantsAssumption
<1>1. /\ screen \in [Pos -> Renderer \cup {None}]
      /\ \A p \in Pos : screen[p] # None => p \in world
      /\ world \subseteq Pos
      /\ queue \in [Lane -> Seq(JobSet)] /\ busy \in [Lane -> JobSet \cup {None}]
  BY DEF ShapeInv, TypeOK
<1>2. TypeOK /\ RenderInv
  BY DEF ShapeInv
<1>3. \A p \in Pos, k \in Part : Meshed(p, k)
  BY DEF ChangesMeshed, Meshed
<1>4. SUFFICES ASSUME NEW q \in Pos, NEW i \in Part, screen'[q] # None PROVE Meshed(q, i)'
  BY DEF ChangesMeshed, Meshed
<1>5. ASSUME NEW p \in Pos, NEW lit \in SUBSET Around[p], NEW k \in EditedParts,
             NEW seen, SetBlock(p, lit, k, seen)
      PROVE  Meshed(q, i)'
  <2>1. UNCHANGED <<screen, queue, busy, read>>
    BY <1>5 DEF SetBlock, screenVars
  <2>2. q \in world
    BY <1>1, <1>4, <2>1
  <2>3. CASE q \in lit \cup {p}
    <3>1. dirty'[q]
      BY <1>5, <2>3, SetBlockFacts
    <3>2. QED BY <3>1 DEF Meshed
  <2>4. CASE q \notin lit \cup {p}
    <3>1. /\ \A t \in world : gen'[t] = gen[t]
          /\ \A t \in world \ (lit \cup {p}) : version'[t] = version[t] /\ dirty'[t] = dirty[t]
      BY <1>5, SetBlockFacts
    <3>2. gen'[q] = gen[q] /\ version'[q] = version[q] /\ dirty'[q] = dirty[q]
      BY <2>2, <2>4, <3>1
    <3>3. QED BY <1>3, <2>1, <3>2, MeshedKept
  <2>5. QED BY <2>3, <2>4
<1>6. ASSUME NEW p \in Pos, Receive(p)
      PROVE  Meshed(q, i)'
  <2>1. UNCHANGED <<queue, busy, read>> /\ Show(p)
    BY <1>6 DEF Receive
  <2>2. CASE q = p
    <3>1. dirty'[p]
      BY <1>6, ReceiveFacts
    <3>2. QED BY <2>2, <3>1 DEF Meshed
  <2>3. CASE q # p
    <3>1. p \in world' /\ world \subseteq world'
      BY <1>6, ReceiveFacts
    <3>2. screen'[q] = screen[q]
      BY <1>2, <2>1, <2>3, <3>1, ShowFacts
    <3>3. q \in world
      BY <1>1, <1>4, <3>2
    <3>4. /\ \A t \in world : gen'[t] = gen[t]
          /\ \A t \in world \ {p} : version'[t] = version[t] /\ dirty'[t] = dirty[t]
      BY <1>6, ReceiveFacts
    <3>5. gen'[q] = gen[q] /\ version'[q] = version[q] /\ dirty'[q] = dirty[q]
      BY <2>3, <3>3, <3>4
    <3>6. QED BY <1>3, <2>1, <3>2, <3>5, MeshedKept
  <2>4. QED BY <2>2, <2>3
<1>7. ASSUME NEW p \in Pos, Drop(p)
      PROVE  Meshed(q, i)'
  <2>1. UNCHANGED <<gen, queue, busy>>
    BY <1>7 DEF Drop
  <2>2. /\ q # p /\ screen'[q] = screen[q]
        /\ version'[q] = version[q] /\ read'[q] = read[q] /\ dirty'[q] = dirty[q]
    BY <1>4, <1>7, DropFacts
  <2>3. QED BY <1>3, <2>1, <2>2, MeshedKept
<1>8. ASSUME NEW p \in Pos, Enqueue(p)
      PROVE  Meshed(q, i)'
  <2>1. UNCHANGED <<gen, version, screen, busy, read>>
    BY <1>8 DEF Enqueue, worldVars, screenVars
  <2>2. /\ \A t \in Pos \ {p} : dirty'[t] = dirty[t]
        /\ LaneOf[p] \in Lane
        /\ ToSet(queue'[LaneOf[p]]) = ToSet(queue[LaneOf[p]]) \cup {Job(screen[p], p)}
        /\ \A l \in Lane \ {LaneOf[p]} : queue'[l] = queue[l]
    BY <1>2, <1>8, EnqueueFacts
  <2>3. CASE q = p
    <3> DEFINE j == Job(screen[p], p)
    <3>1. j \in Jobs(LaneOf[p])'
      BY <2>2 DEF Jobs
    <3>2. j.pos = p /\ j.gen = gen'[p] /\ j.next = 1
      BY <2>1 DEF Job
    <3>3. 1 <= i
      BY DEF Part
    <3> HIDE DEF j
    <3>4. WillRead(p, i)'
      BY <2>2, <3>1, <3>2, <3>3 DEF WillRead
    <3>5. QED BY <2>3, <3>4 DEF Meshed
  <2>4. CASE q # p
    <3>1. \A l \in Lane : ToSet(queue[l]) \subseteq ToSet(queue'[l])
      BY <2>2
    <3>2. dirty'[q] = dirty[q]
      BY <2>2, <2>4
    <3>3. QED BY <1>3, <2>1, <3>1, <3>2, MeshedKept
  <2>5. QED BY <2>3, <2>4
<1>9. ASSUME UNCHANGED <<gen, version, dirty, screen, queue, busy, read>>
      PROVE  Meshed(q, i)'
  BY <1>3, <1>9, MeshedKept
<1>10. ASSUME NEW p \in Pos, TakeMesh(p) \/ DrawMesh(p)
       PROVE  Meshed(q, i)'
  <2>1. UNCHANGED <<gen, version, dirty, screen, queue, busy, read>>
    BY <1>10 DEF TakeMesh, DrawMesh, worldVars, screenVars
  <2>2. QED BY <1>9, <2>1
<1>11. ASSUME NEW l \in Lane, NEW j \in JobSet, NEW k \in Part, Push(j, k),
              UNCHANGED <<gen, version, dirty, screen>>,
              \A m \in Lane \ {l} : queue'[m] = queue[m] /\ busy'[m] = busy[m],
              \A x \in Jobs(l) : x \in Jobs(l)' \/ (x = j /\ x.next >= k),
              busy'[l] \in JobSet, busy'[l].pos = j.pos, busy'[l].gen = j.gen,
              busy'[l].next = k + 1
       PROVE  Meshed(q, i)'
  <2>1. Meshed(q, i)
    BY <1>3
  <2>2. /\ j.pos \in world /\ j.gen = gen[j.pos] => read'[j.pos][k] = version[j.pos][k]
        /\ \/ read'[q][i] = read[q][i]
           \/ read'[q][i] = version[q][i]
    BY <1>2, <1>11, PushFacts
  <2>3. q \in world
    BY <1>1, <1>4, <1>11
  <2>4. CASE dirty[q]
    BY <1>11, <2>4 DEF Meshed
  <2>5. CASE read[q][i] = version[q][i]
    BY <1>11, <2>2, <2>5 DEF Meshed
  <2>6. CASE WillRead(q, i)
    <3>1. PICK m \in Lane : \E y \in Jobs(m) : y.pos = q /\ y.gen = gen[q] /\ y.next <= i
      BY <2>6 DEF WillRead
    <3>2. PICK x \in Jobs(m) : x.pos = q /\ x.gen = gen[q] /\ x.next <= i
      BY <3>1
    <3>3. CASE x \in Jobs(m)'
      <4>1. WillRead(q, i)'
        BY <1>11, <3>2, <3>3 DEF WillRead
      <4>2. QED BY <4>1 DEF Meshed
    <3>4. CASE x \notin Jobs(m)'
      <4>1. m = l
        BY <1>11, <3>4 DEF Jobs
      <4>2. x = j /\ x.next >= k
        BY <1>11, <3>2, <3>4, <4>1
      <4>3. j.pos = q /\ j.gen = gen[q] /\ k <= i
        <5>1. j.next \in Nat /\ k \in Nat /\ i \in Nat
          BY DEF JobSet, Part
        <5>2. QED BY <3>2, <4>2, <5>1
      <4>4. CASE k = i
        <5>1. read'[q][i] = version'[q][i]
          BY <1>11, <2>2, <2>3, <4>3, <4>4
        <5>2. QED BY <5>1 DEF Meshed
      <4>5. CASE k # i
        <5>1. busy'[l] \in Jobs(l)'
          BY <1>11 DEF Jobs
        <5>2. busy'[l].pos = q /\ busy'[l].gen = gen'[q]
          BY <1>11, <4>3
        <5>3. busy'[l].next <= i
          BY <1>11, <4>3, <4>5 DEF Part
        <5>4. WillRead(q, i)'
          BY <5>1, <5>2, <5>3 DEF WillRead
        <5>5. QED BY <5>4 DEF Meshed
      <4>6. QED BY <4>4, <4>5
    <3>5. QED BY <3>3, <3>4
  <2>7. QED BY <1>4, <1>11, <2>1, <2>4, <2>5, <2>6 DEF Meshed
<1>12. ASSUME NEW l \in Lane, BeginMesh(l)
       PROVE  Meshed(q, i)'
  <2> DEFINE j == Head(queue[l])
  <2>1. /\ j \in JobSet /\ 1 \in Part /\ Push(j, 1)
        /\ busy'[l] \in JobSet /\ busy'[l].pos = j.pos
        /\ busy'[l].gen = j.gen /\ busy'[l].next = 2
    BY <1>2, <1>12, BeginFacts
  <2>2. \A m \in Lane \ {l} : queue'[m] = queue[m] /\ busy'[m] = busy[m]
    BY <1>2, <1>12, BeginFacts
  <2>3. ToSet(queue[l]) \subseteq ToSet(queue'[l]) \cup {j}
    BY <1>2, <1>12, BeginFacts
  <2>4. busy[l] = None
    BY <1>12 DEF BeginMesh
  <2> HIDE DEF j
  <2>5. UNCHANGED <<gen, version, dirty, screen>>
    BY <1>12 DEF BeginMesh, worldVars, screenVars
  <2>6. j.next >= 1 /\ busy'[l].next = 1 + 1
    BY <2>1 DEF JobSet
  <2>7. \A x \in Jobs(l) : x \in Jobs(l)' \/ (x = j /\ x.next >= 1)
    BY <2>3, <2>4, <2>6 DEF Jobs
  <2>8. QED BY <1>11, <2>1, <2>2, <2>5, <2>6, <2>7
<1>13. ASSUME NEW l \in Lane, PushFaces(l)
       PROVE  Meshed(q, i)'
  <2> DEFINE j == busy[l]
  <2>1. /\ j \in JobSet /\ j.next \in Part /\ Push(j, j.next)
        /\ busy'[l] \in JobSet /\ busy'[l].pos = j.pos /\ busy'[l].gen = j.gen
        /\ busy'[l].next = j.next + 1
        /\ \A m \in Lane \ {l} : busy'[m] = busy[m]
    BY <1>2, <1>13, PushFacesFacts
  <2>2. UNCHANGED <<gen, version, dirty, screen, queue>>
    BY <1>13 DEF PushFaces, worldVars, screenVars
  <2>3. j.next >= j.next
    BY <2>1 DEF Part
  <2>4. \A x \in Jobs(l) : x \in Jobs(l)' \/ (x = j /\ x.next >= j.next)
    BY <2>2, <2>3 DEF Jobs
  <2> HIDE DEF j
  <2>5. QED BY <1>11, <2>1, <2>2, <2>4
<1>14. ASSUME NEW l \in Lane, FinishMesh(l)
       PROVE  Meshed(q, i)'
  <2>1. /\ busy[l].next = Parts + 1
        /\ \A m \in Lane \ {l} : busy'[m] = busy[m]
    BY <1>2, <1>14, FinishFacts
  <2>2. UNCHANGED <<gen, version, dirty, screen, queue, read>>
    BY <1>14 DEF FinishMesh, worldVars, screenVars
  <2>3. Meshed(q, i)
    BY <1>3
  <2>4. WillRead(q, i) => WillRead(q, i)'
    <3>1. SUFFICES ASSUME NEW m \in Lane, NEW x \in Jobs(m),
                          x.pos = q, x.gen = gen[q], x.next <= i
                   PROVE  WillRead(q, i)'
      BY DEF WillRead
    <3>2. ~(Parts + 1 <= i)
      BY DEF Part
    <3>3. x \in Jobs(m)'
      BY <2>1, <2>2, <3>1, <3>2 DEF Jobs
    <3>4. QED BY <2>2, <3>1, <3>3 DEF WillRead
  <2>5. QED BY <2>2, <2>3, <2>4 DEF Meshed
<1>15. CASE UNCHANGED vars
  <2>1. UNCHANGED <<gen, version, dirty, screen, queue, busy, read>>
    BY <1>15 DEF vars, worldVars, screenVars
  <2>2. QED BY <1>9, <2>1
<1>16. QED BY <1>5, <1>6, <1>7, <1>8, <1>10, <1>12, <1>13, <1>14, <1>15
           DEF Next, Draw, Thread

-----------------------------------------------------------------------------
(* The neighbours that the last job of a chunk holds.                      *)

\* Jobs wait in the lane of their position.  The last of the jobs that wait for a chunk on
\* screen holds the neighbours that are around it now, unless the chunk is dirty or has been
\* left unmarked: earlier ones may hold neighbours that have been replaced.
Own(j, p) == j.pos = p /\ j.gen = gen[p] /\ j.renderer = screen[p]

Latest(p) ==
  \A l \in Lane : \A i \in 1..Len(queue[l]) : Own(queue[l][i], p) =>
    \/ queue[l][i].near = Near(p)
    \/ \E k \in 1..Len(queue[l]) : k > i /\ Own(queue[l][k], p)

NearInv ==
  /\ \A l \in Lane : \A i \in 1..Len(queue[l]) : LaneOf[queue[l][i].pos] = l
  /\ \A p \in Pos : screen[p] # None /\ ~dirty[p] /\ ~unmarked[p] => Latest(p)

\* A step that leaves a chunk, what is around it and the queues alone.
LEMMA LatestKept ==
  ASSUME NEW p \in Pos, Latest(p),
         gen'[p] = gen[p], screen'[p] = screen[p], Near(p)' = Near(p), queue' = queue
  PROVE  Latest(p)'
<1>1. \A j : Own(j, p)' <=> Own(j, p)
  BY DEF Own
<1>2. SUFFICES ASSUME NEW l \in Lane, NEW i \in 1..Len(queue[l]), Own(queue[l][i], p)
               PROVE  \/ queue[l][i].near = Near(p)
                      \/ \E k \in 1..Len(queue[l]) : k > i /\ Own(queue[l][k], p)'
  BY <1>1 DEF Latest, Own
<1>3. QED BY <1>1, <1>2 DEF Latest

LEMMA NearStep ==
  ASSUME ShapeInv, NearInv, [Next]_vars
  PROVE  NearInv'
<1> USE ConstantsAssumption
<1>1. /\ screen \in [Pos -> Renderer \cup {None}]
      /\ \A p \in Pos : screen[p] # None => p \in world
      /\ world \subseteq Pos
      /\ queue \in [Lane -> Seq(JobSet)]
  BY DEF ShapeInv, TypeOK
<1>2. TypeOK /\ RenderInv
  BY DEF ShapeInv
<1>3. /\ \A l \in Lane : \A i \in 1..Len(queue[l]) : LaneOf[queue[l][i].pos] = l
      /\ \A p \in Pos : screen[p] # None /\ ~dirty[p] /\ ~unmarked[p] => Latest(p)
  BY DEF NearInv
<1>4. ASSUME UNCHANGED queue,
             \A p \in Pos : screen'[p] # None /\ ~dirty'[p] /\ ~unmarked'[p] =>
               /\ screen'[p] = screen[p] /\ ~dirty[p] /\ ~unmarked[p]
               /\ gen'[p] = gen[p] /\ \A q \in Around[p] : gen'[q] = gen[q]
      PROVE  NearInv'
  <2>1. ASSUME NEW p \in Pos, screen'[p] # None, ~dirty'[p], ~unmarked'[p]
        PROVE  Latest(p)'
    <3>1. /\ screen'[p] = screen[p] /\ ~dirty[p] /\ ~unmarked[p]
          /\ gen'[p] = gen[p] /\ \A q \in Around[p] : gen'[q] = gen[q]
      BY <1>4, <2>1
    <3>2. Near(p)' = Near(p)
      BY <3>1, SameNear
    <3>3. Latest(p)
      BY <1>3, <2>1, <3>1
    <3>4. queue' = queue
      BY <1>4
    <3>5. QED BY <3>1, <3>2, <3>3, <3>4, LatestKept
  <2>2. \A l \in Lane : \A i \in 1..Len(queue'[l]) : LaneOf[queue'[l][i].pos] = l
    BY <1>3, <1>4
  <2>3. QED BY <2>1, <2>2 DEF NearInv
<1>5. ASSUME NEW p \in Pos, NEW lit \in SUBSET Around[p], NEW k \in EditedParts,
             NEW seen, SetBlock(p, lit, k, seen)
      PROVE  NearInv'
  <2>1. UNCHANGED <<screen, queue>>
    BY <1>5 DEF SetBlock, screenVars
  <2>2. /\ \A q \in world : gen'[q] = gen[q]
        /\ \A q \in lit \cup {p} : dirty'[q]
        /\ \A q \in world \ (lit \cup {p}) : version'[q] = version[q] /\ dirty'[q] = dirty[q]
        /\ \A q \in world \ (lit \cup {p}) : Unseen(q)
    BY <1>5, SetBlockFacts
  <2>3. ASSUME NEW q \in Pos, screen'[q] # None, ~dirty'[q], ~unmarked'[q]
        PROVE  /\ screen'[q] = screen[q] /\ ~dirty[q] /\ ~unmarked[q]
               /\ gen'[q] = gen[q] /\ \A t \in Around[q] : gen'[t] = gen[t]
    <3>1. q \in world \ (lit \cup {p})
      BY <1>1, <2>1, <2>2, <2>3
    <3>2. QED BY <2>1, <2>2, <2>3, <3>1 DEF Unseen
  <2>4. QED BY <1>4, <2>1, <2>3
<1>6. ASSUME NEW p \in Pos, Receive(p)
      PROVE  NearInv'
  <2>1. UNCHANGED queue /\ Show(p)
    BY <1>6 DEF Receive
  <2>2. /\ dirty'[p] /\ p \in world' /\ world \subseteq world'
        /\ \A q \in world : gen'[q] = gen[q]
        /\ \A q \in world \ {p} : dirty'[q] = dirty[q]
        /\ \A q \in world \ {p} : Unseen(q)
    BY <1>6, ReceiveFacts
  <2>3. \A q \in Pos \ {p} : screen'[q] = screen[q]
    BY <1>2, <2>1, <2>2, ShowFacts
  <2>4. ASSUME NEW q \in Pos, screen'[q] # None, ~dirty'[q], ~unmarked'[q]
        PROVE  /\ screen'[q] = screen[q] /\ ~dirty[q] /\ ~unmarked[q]
               /\ gen'[q] = gen[q] /\ \A t \in Around[q] : gen'[t] = gen[t]
    <3>1. q # p
      BY <2>2, <2>4
    <3>2. screen'[q] = screen[q] /\ q \in world \ {p}
      BY <1>1, <2>3, <2>4, <3>1
    <3>3. QED BY <2>2, <2>4, <3>2 DEF Unseen
  <2>5. QED BY <1>4, <2>1, <2>4
<1>7. ASSUME NEW p \in Pos, Drop(p)
      PROVE  NearInv'
  <2>1. UNCHANGED <<gen, queue>>
    BY <1>7 DEF Drop
  <2>2. /\ screen'[p] = None
        /\ \A q \in Pos \ {p} : /\ screen'[q] = screen[q]
                                /\ dirty'[q] = dirty[q] /\ unmarked'[q] = unmarked[q]
    BY <1>7, DropFacts
  <2>3. QED BY <1>4, <2>1, <2>2
<1>8. ASSUME UNCHANGED <<gen, dirty, unmarked, screen, queue>>
      PROVE  NearInv'
  BY <1>4, <1>8
<1>9. ASSUME NEW p \in Pos, Enqueue(p)
      PROVE  NearInv'
  <2> DEFINE m == LaneOf[p]
             j == Job(screen[p], p)
  <2>1. UNCHANGED <<gen, unmarked, screen>>
    BY <1>9 DEF Enqueue, worldVars, screenVars
  <2>2. /\ \A q \in Pos \ {p} : dirty'[q] = dirty[q]
        /\ j \in JobSet /\ m \in Lane
        /\ \A l \in Lane \ {m} : queue'[l] = queue[l]
    BY <1>2, <1>9, EnqueueFacts
  <2>3. queue'[m] = Append(queue[m], j)
    BY <1>1, <1>9, <2>2 DEF Enqueue
  <2>4. j.pos = p /\ j.gen = gen[p] /\ j.near = Near(p) /\ j.renderer = screen[p]
    BY DEF Job
  <2>5. queue[m] \in Seq(JobSet) /\ LaneOf[p] = m
    BY <1>1, <2>2
  <2> HIDE DEF j, m
  <2>6. /\ Len(queue'[m]) = Len(queue[m]) + 1 /\ Len(queue[m]) \in Nat
        /\ \A i \in 1..Len(queue[m]) : queue'[m][i] = queue[m][i]
        /\ queue'[m][Len(queue[m]) + 1] = j
    BY <2>2, <2>3, <2>5, AppendProperties
  <2>7. \A i \in 1..Len(queue'[m]) : i \in 1..Len(queue[m]) \/ i = Len(queue[m]) + 1
    BY <2>6
  <2>8. \A l \in Lane : \A i \in 1..Len(queue'[l]) : LaneOf[queue'[l][i].pos] = l
    <3>1. SUFFICES ASSUME NEW l \in Lane, NEW i \in 1..Len(queue'[l])
                   PROVE  LaneOf[queue'[l][i].pos] = l
      OBVIOUS
    <3>2. CASE l # m
      BY <1>3, <2>2, <3>2
    <3>3. CASE l = m /\ i \in 1..Len(queue[m])
      BY <1>3, <2>2, <2>6, <3>3
    <3>4. CASE l = m /\ i = Len(queue[m]) + 1
      BY <2>4, <2>5, <2>6, <3>4
    <3>5. QED BY <2>7, <3>2, <3>3, <3>4
  <2>9. \A x, q : Own(x, q)' <=> Own(x, q)
    BY <2>1 DEF Own
  <2>10. \A q : Near(q)' = Near(q)
    BY <2>1 DEF Near
  <2>11. ASSUME NEW q \in Pos, screen'[q] # None, ~dirty'[q], ~unmarked'[q]
         PROVE  Latest(q)'
    <3>1. SUFFICES ASSUME NEW l \in Lane, NEW i \in 1..Len(queue'[l]), Own(queue'[l][i], q)
                   PROVE  \/ queue'[l][i].near = Near(q)
                          \/ \E k \in 1..Len(queue'[l]) : k > i /\ Own(queue'[l][k], q)
      BY <2>9, <2>10 DEF Latest
    <3>2. CASE q = p
      <4>1. Own(j, p)
        BY <2>4 DEF Own
      <4>2. l = m
        BY <2>5, <2>8, <3>1, <3>2 DEF Own
      <4>3. CASE i \in 1..Len(queue[m])
        <5>1. Len(queue[m]) + 1 \in 1..Len(queue'[m]) /\ Len(queue[m]) + 1 > i
          BY <2>6, <4>3
        <5>2. QED BY <2>6, <3>2, <4>1, <4>2, <5>1
      <4>4. CASE i = Len(queue[m]) + 1
        BY <2>4, <2>6, <3>2, <4>2, <4>4
      <4>5. QED BY <2>7, <4>2, <4>3, <4>4
    <3>3. CASE q # p
      <4>1. Latest(q)
        BY <1>3, <2>1, <2>2, <2>11, <3>3
      <4>2. CASE l # m
        <5>1. queue'[l] = queue[l]
          BY <2>2, <4>2
        <5>2. QED BY <3>1, <4>1, <5>1 DEF Latest
      <4>3. CASE l = m
        <5>1. i # Len(queue[m]) + 1
          BY <2>4, <2>6, <3>1, <3>3, <4>3 DEF Own
        <5>2. i \in 1..Len(queue[m]) /\ queue'[m][i] = queue[m][i]
          BY <2>6, <2>7, <4>3, <5>1
        <5>3. \/ queue[m][i].near = Near(q)
              \/ \E k \in 1..Len(queue[m]) : k > i /\ Own(queue[m][k], q)
          BY <2>2, <3>1, <4>1, <4>3, <5>2 DEF Latest
        <5>4. \A k \in 1..Len(queue[m]) : k \in 1..Len(queue'[m]) /\ queue'[m][k] = queue[m][k]
          BY <2>6
        <5>5. QED BY <4>3, <5>2, <5>3, <5>4
      <4>4. QED BY <4>2, <4>3
    <3>4. QED BY <3>2, <3>3
  <2>12. QED BY <2>8, <2>11 DEF NearInv
<1>10. ASSUME NEW p \in Pos, TakeMesh(p) \/ DrawMesh(p)
       PROVE  NearInv'
  <2>1. UNCHANGED <<gen, dirty, unmarked, screen, queue>>
    BY <1>10 DEF TakeMesh, DrawMesh, worldVars, screenVars
  <2>2. QED BY <1>8, <2>1
<1>11. ASSUME NEW m \in Lane, BeginMesh(m)
       PROVE  NearInv'
  <2>1. UNCHANGED <<gen, dirty, unmarked, screen>>
    BY <1>11 DEF BeginMesh, worldVars, screenVars
  <2>2. \A l \in Lane \ {m} : queue'[l] = queue[l]
    BY <1>2, <1>11, BeginFacts
  <2>3. queue'[m] = Tail(queue[m]) /\ queue[m] # <<>> /\ queue[m] \in Seq(JobSet)
    BY <1>1, <1>11 DEF BeginMesh
  <2>4. /\ Len(queue[m]) \in Nat /\ Len(queue[m]) # 0
        /\ Len(queue'[m]) = Len(queue[m]) - 1
        /\ \A i \in 1..Len(queue'[m]) : queue'[m][i] = queue[m][i + 1]
    BY <2>3, HeadTailProperties
  <2>5. \A i \in 1..Len(queue'[m]) : i + 1 \in 1..Len(queue[m])
    BY <2>4
  <2>6. \A l \in Lane : \A i \in 1..Len(queue'[l]) : LaneOf[queue'[l][i].pos] = l
    <3>1. SUFFICES ASSUME NEW l \in Lane, NEW i \in 1..Len(queue'[l])
                   PROVE  LaneOf[queue'[l][i].pos] = l
      OBVIOUS
    <3>2. CASE l # m
      <4>1. queue'[l] = queue[l]
        BY <2>2, <3>2
      <4>2. QED BY <1>3, <3>1, <4>1
    <3>3. CASE l = m
      <4>1. i + 1 \in 1..Len(queue[m]) /\ queue'[m][i] = queue[m][i + 1]
        BY <2>4, <2>5, <3>3
      <4>2. QED BY <1>3, <3>3, <4>1
    <3>4. QED BY <3>2, <3>3
  <2>7. \A x, q : Own(x, q)' <=> Own(x, q)
    BY <2>1 DEF Own
  <2>8. \A q : Near(q)' = Near(q)
    BY <2>1 DEF Near
  <2>9. ASSUME NEW q \in Pos, screen'[q] # None, ~dirty'[q], ~unmarked'[q]
        PROVE  Latest(q)'
    <3>1. SUFFICES ASSUME NEW l \in Lane, NEW i \in 1..Len(queue'[l]), Own(queue'[l][i], q)
                   PROVE  \/ queue'[l][i].near = Near(q)
                          \/ \E k \in 1..Len(queue'[l]) : k > i /\ Own(queue'[l][k], q)
      BY <2>7, <2>8 DEF Latest
    <3>2. Latest(q)
      BY <1>3, <2>1, <2>9
    <3>3. CASE l # m
      <4>1. queue'[l] = queue[l]
        BY <2>2, <3>3
      <4>2. QED BY <3>1, <3>2, <4>1 DEF Latest
    <3>4. CASE l = m
      <4>1. i + 1 \in 1..Len(queue[m]) /\ queue'[m][i] = queue[m][i + 1]
        BY <2>4, <2>5, <3>4
      <4>2. \/ queue[m][i + 1].near = Near(q)
            \/ \E k \in 1..Len(queue[m]) : k > i + 1 /\ Own(queue[m][k], q)
        BY <3>1, <3>2, <3>4, <4>1 DEF Latest
      <4>3. CASE queue[m][i + 1].near = Near(q)
        BY <3>4, <4>1, <4>3
      <4>4. CASE \E k \in 1..Len(queue[m]) : k > i + 1 /\ Own(queue[m][k], q)
        <5>1. PICK k \in 1..Len(queue[m]) : k > i + 1 /\ Own(queue[m][k], q)
          BY <4>4
        <5>2. PICK n \in Nat : n = k - 1 /\ n + 1 = k
          BY <5>1
        <5>3. n \in 1..Len(queue'[m]) /\ n > i
          BY <2>4, <3>4, <5>1, <5>2
        <5>4. queue'[m][n] = queue[m][k]
          BY <2>4, <5>2, <5>3
        <5>5. QED BY <3>4, <5>1, <5>3, <5>4
      <4>5. QED BY <4>2, <4>3, <4>4
    <3>5. QED BY <3>3, <3>4
  <2>10. QED BY <2>6, <2>9 DEF NearInv
<1>12. ASSUME NEW l \in Lane, PushFaces(l) \/ FinishMesh(l)
       PROVE  NearInv'
  <2>1. UNCHANGED <<gen, dirty, unmarked, screen, queue>>
    BY <1>12 DEF PushFaces, FinishMesh, worldVars, screenVars
  <2>2. QED BY <1>8, <2>1
<1>13. CASE UNCHANGED vars
  <2>1. UNCHANGED <<gen, dirty, unmarked, screen, queue>>
    BY <1>13 DEF vars, worldVars, screenVars
  <2>2. QED BY <1>8, <2>1
<1>14. QED BY <1>5, <1>6, <1>7, <1>9, <1>10, <1>11, <1>12, <1>13 DEF Next, Draw, Thread

-----------------------------------------------------------------------------
(* The mesh of the last job.                                               *)

\* What a mesh of the chunk at p as it is now begins with.
Face(p, k) ==
  [pos |-> p, gen |-> gen[p], part |-> k, version |-> version[p][k], around |-> edge[p]]
FirstFaces(p, n) == [k \in 1..n |-> Face(p, k)]

InQueue(r)  == \E l \in Lane : \E j \in ToSet(queue[l]) : j.renderer = r
Works(l, r) == busy[l] # None /\ busy[l].renderer = r
Working(r)  == \E l \in Lane : Works(l, r)

\* One job is pushing, for the chunk on screen, and has pushed its parts up to now;
Pushing(p, r) == \E l \in Lane :
  /\ Works(l, r) /\ \A m \in Lane : Works(m, r) => m = l
  /\ busy[l].pos = p /\ busy[l].gen = gen[p] /\ busy[l].near = Near(p)
  /\ ~update[r]
  /\ buffer[r] = FirstFaces(p, busy[l].next - 1)

\* the main thread has to take the mesh; it has taken it; it has drawn it.
Waiting(p, r) == ~Working(r) /\ update[r] /\ main # <<"taken", p>> /\ buffer[r] = FirstFaces(p, Parts)
Taken(p, r)   == ~Working(r) /\ update[r] /\ main = <<"taken", p>> /\ mesh[r] = FirstFaces(p, Parts)
Drawn(p, r)   == ~Working(r) /\ ~update[r] /\ main # <<"taken", p>> /\ mesh[r] = FirstFaces(p, Parts)

Phase(p, r) == Pushing(p, r) \/ Waiting(p, r) \/ Taken(p, r) \/ Drawn(p, r)

\* No change waits for a job or has been left unmarked, no job waits for a thread, and the
\* last to begin was undisturbed.
Settled(p, r) == screen[p] = r /\ ~dirty[p] /\ ~unmarked[p] /\ ~mixed[r] /\ ~InQueue(r)

MeshPhase == \A p \in Pos, r \in Renderer : Settled(p, r) => Phase(p, r)

\* A renderer that a step leaves alone stays in its phase.
LEMMA PhaseKept ==
  ASSUME NEW p \in Pos, NEW r \in Renderer, Phase(p, r),
         gen'[p] = gen[p], version'[p] = version[p], edge'[p] = edge[p], Near(p)' = Near(p),
         update'[r] = update[r], buffer'[r] = buffer[r], mesh'[r] = mesh[r],
         \A l \in Lane : Works(l, r)' <=> Works(l, r),
         \A l \in Lane : Works(l, r) => busy'[l] = busy[l],
         main' = <<"taken", p>> <=> main = <<"taken", p>>
  PROVE  Phase(p, r)'
<1>1. \A n : FirstFaces(p, n)' = FirstFaces(p, n)
  BY DEF FirstFaces, Face
<1>2. Working(r)' <=> Working(r)
  BY DEF Working
<1>3. CASE Pushing(p, r)
  <2>1. PICK l \in Lane :
          /\ Works(l, r) /\ \A m \in Lane : Works(m, r) => m = l
          /\ busy[l].pos = p /\ busy[l].gen = gen[p] /\ busy[l].near = Near(p)
          /\ ~update[r]
          /\ buffer[r] = FirstFaces(p, busy[l].next - 1)
    BY <1>3 DEF Pushing
  <2>2. busy'[l] = busy[l]
    BY <2>1
  <2>3. FirstFaces(p, busy[l].next - 1)' = FirstFaces(p, busy[l].next - 1)
    BY <2>2 DEF FirstFaces, Face
  <2>4. Pushing(p, r)'
    BY <2>1, <2>2, <2>3 DEF Pushing
  <2>5. QED BY <2>4 DEF Phase
<1>4. CASE Waiting(p, r)
  BY <1>1, <1>2, <1>4 DEF Phase, Waiting
<1>5. CASE Taken(p, r)
  BY <1>1, <1>2, <1>5 DEF Phase, Taken
<1>6. CASE Drawn(p, r)
  BY <1>1, <1>2, <1>6 DEF Phase, Drawn
<1>7. QED BY <1>3, <1>4, <1>5, <1>6 DEF Phase

\* The next part pushed after the first n.
LEMMA NextFace ==
  ASSUME TypeOK, NEW p \in world, NEW n \in Nat, n + 1 \in Part,
         FirstFaces(p, n) \in Seq(FaceSet)
  PROVE  Append(FirstFaces(p, n), Face(p, n + 1)) = FirstFaces(p, n + 1)
<1> DEFINE q == FirstFaces(p, n)
           r == FirstFaces(p, n + 1)
           a == Append(q, Face(p, n + 1))
<1>1. Face(p, n + 1) \in FaceSet
  <2>1. /\ p \in Pos /\ gen[p] \in Nat \ {0}
        /\ version[p][n + 1] \in Nat /\ edge[p] \in Nat
    BY DEF TypeOK
  <2>2. QED BY <2>1 DEF Face, FaceSet
<1>2. Len(q) = n
  <2>1. Len(q) \in Nat /\ DOMAIN q = 1..Len(q)
    BY LenProperties
  <2>2. DOMAIN q = 1..n
    BY DEF FirstFaces
  <2>3. \A m \in Nat : 1..m = 1..n => m = n
    BY SMT
  <2>4. QED BY <2>1, <2>2, <2>3
<1>3. /\ a \in Seq(FaceSet) /\ Len(a) = n + 1
      /\ \A k \in 1..n : a[k] = q[k]
      /\ a[n + 1] = Face(p, n + 1)
  BY <1>1, <1>2, AppendProperties
<1>4. a \in [1..(n + 1) -> FaceSet]
  BY <1>3, LenProperties
<1>5. \A k \in 1..n : q[k] = Face(p, k)
  BY DEF FirstFaces
<1>6. r = [k \in 1..(n + 1) |-> Face(p, k)]
  BY DEF FirstFaces
<1> HIDE DEF a, q, r
<1>7. \A k \in 1..(n + 1) : a[k] = r[k]
  <2>1. \A k \in 1..(n + 1) : k \in 1..n \/ k = n + 1
    OBVIOUS
  <2>2. QED BY <1>3, <1>5, <1>6, <2>1
<1>8. a = r
  BY <1>4, <1>6, <1>7
<1>9. QED BY <1>8 DEF a, q, r

\* What a job of the chunk in the world pushes.
LEMMA JobFaces ==
  ASSUME NEW p \in world, NEW j \in JobSet, j.pos = p, j.gen = gen[p], j.near = Near(p),
         NEW k \in Part
  PROVE  Faces(j, k) = Face(p, k)
BY DEF Faces, Face, InWorld

LEMMA PhaseStep ==
  ASSUME ShapeInv, NearInv, MeshPhase, [Next]_vars
  PROVE  MeshPhase'
<1> USE ConstantsAssumption
<1>1. /\ world \subseteq Pos
      /\ screen \in [Pos -> Renderer \cup {None}]
      /\ \A t \in Pos : screen[t] # None => t \in world
      /\ queue \in [Lane -> Seq(JobSet)] /\ busy \in [Lane -> JobSet \cup {None}]
      /\ buffer \in [Renderer -> Seq(FaceSet)]
  BY DEF ShapeInv, TypeOK
<1>2. /\ \A t, u \in Pos : screen[t] # None /\ screen[t] = screen[u] => t = u
      /\ \A t \in Pos : main = <<"taken", t>> => update[screen[t]]
  BY DEF ShapeInv, RenderInv
<1>3. TypeOK /\ RenderInv
  BY DEF ShapeInv
<1>4. SUFFICES ASSUME NEW p \in Pos, NEW r \in Renderer, Settled(p, r)'
               PROVE  Phase(p, r)'
  BY DEF MeshPhase
<1>5. screen'[p] = r /\ ~dirty'[p] /\ ~unmarked'[p] /\ ~mixed'[r] /\ ~InQueue(r)' /\ r # None
  BY <1>4 DEF Settled
<1>6. Settled(p, r) => Phase(p, r)
  BY DEF MeshPhase
<1>7. ASSUME UNCHANGED <<queue, busy, update, mixed, main>>,
             screen[p] = r, ~dirty[p], ~unmarked[p], gen'[p] = gen[p], version'[p] = version[p],
             edge'[p] = edge[p], Near(p)' = Near(p), buffer'[r] = buffer[r], mesh'[r] = mesh[r]
      PROVE  Phase(p, r)'
  <2>1. InQueue(r)' <=> InQueue(r)
    BY <1>7 DEF InQueue
  <2>2. Phase(p, r)
    BY <1>5, <1>6, <1>7, <2>1 DEF Settled
  <2>3. \A l \in Lane : Works(l, r)' <=> Works(l, r)
    BY <1>7 DEF Works
  <2>4. QED BY <1>7, <2>2, <2>3, PhaseKept
<1>a. gen' = gen => Near(p)' = Near(p)
  BY SameNear
<1>8. ASSUME NEW q \in Pos, NEW lit \in SUBSET Around[q], NEW k \in EditedParts,
             NEW seen, SetBlock(q, lit, k, seen)
      PROVE  Phase(p, r)'
  <2>1. UNCHANGED <<screen, queue, busy, buffer, update, mesh, mixed, main>>
    BY <1>8 DEF SetBlock, screenVars, meshVars
  <2>2. p \in world
    BY <1>1, <1>5, <2>1
  <2>3. /\ \A t \in world : gen'[t] = gen[t]
        /\ \A t \in lit \cup {q} : dirty'[t]
        /\ \A t \in world \ (lit \cup {q}) : version'[t] = version[t] /\ dirty'[t] = dirty[t]
        /\ \A t \in world \ (lit \cup {q}) : Unseen(t)
    BY <1>8, SetBlockFacts
  <2>4. p \notin lit \cup {q}
    BY <1>5, <2>3
  <2>5. gen'[p] = gen[p] /\ version'[p] = version[p] /\ dirty'[p] = dirty[p]
    BY <2>2, <2>3, <2>4
  <2>6. ~unmarked[p] /\ edge'[p] = edge[p] /\ \A t \in Around[p] : gen'[t] = gen[t]
    BY <1>5, <2>2, <2>3, <2>4, <2>5 DEF Unseen
  <2>7. Near(p)' = Near(p)
    BY <2>6, SameNear
  <2>8. QED BY <1>5, <1>7, <2>1, <2>5, <2>6, <2>7
<1>9. ASSUME NEW q \in Pos, Receive(q)
      PROVE  Phase(p, r)'
  <2>1. UNCHANGED <<queue, busy, update, mixed, main>> /\ Show(q)
    BY <1>9 DEF Receive
  <2>2. /\ dirty'[q] /\ q \in world' /\ world \subseteq world'
        /\ \A t \in world : gen'[t] = gen[t]
        /\ \A t \in world \ {q} : version'[t] = version[t] /\ dirty'[t] = dirty[t]
        /\ \A t \in world \ {q} : Unseen(t)
    BY <1>9, ReceiveFacts
  <2>3. p # q
    BY <1>5, <2>2
  <2>4. /\ \A t \in Pos \ {q} : screen'[t] = screen[t]
        /\ \A t, u \in Pos : screen'[t] # None /\ screen'[t] = screen'[u] => t = u
        /\ \A x \in Renderer \ {screen'[q]} : buffer'[x] = buffer[x] /\ mesh'[x] = mesh[x]
    BY <1>3, <2>1, <2>2, ShowFacts
  <2>5. screen[p] = r
    BY <1>5, <2>3, <2>4
  <2>6. p \in world
    BY <1>1, <1>5, <2>5
  <2>7. gen'[p] = gen[p] /\ version'[p] = version[p] /\ dirty'[p] = dirty[p]
    BY <2>2, <2>3, <2>6
  <2>8. screen'[q] # r
    BY <1>5, <2>3, <2>4
  <2>9. buffer'[r] = buffer[r] /\ mesh'[r] = mesh[r]
    BY <2>4, <2>8
  <2>10. ~unmarked[p] /\ edge'[p] = edge[p] /\ \A t \in Around[p] : gen'[t] = gen[t]
    BY <1>5, <2>2, <2>3, <2>6, <2>7 DEF Unseen
  <2>11. Near(p)' = Near(p)
    BY <2>10, SameNear
  <2>12. QED BY <1>5, <1>7, <2>1, <2>5, <2>7, <2>9, <2>10, <2>11
<1>10. ASSUME NEW q \in Pos, Drop(q)
       PROVE  Phase(p, r)'
  <2>1. UNCHANGED <<gen, queue, busy, buffer, update, mesh, mixed, main>>
    BY <1>10 DEF Drop, meshVars
  <2>2. /\ screen'[q] = None
        /\ \A t \in Pos \ {q} : screen'[t] = screen[t]
        /\ \A t \in Pos \ {q} : version'[t] = version[t] /\ dirty'[t] = dirty[t]
        /\ \A t \in Pos \ {q} : edge'[t] = edge[t] /\ unmarked'[t] = unmarked[t]
    BY <1>10, DropFacts
  <2>3. p # q
    BY <1>5, <2>2
  <2>4. screen[p] = r /\ version'[p] = version[p] /\ dirty'[p] = dirty[p]
    BY <1>5, <2>2, <2>3
  <2>5. ~unmarked[p] /\ edge'[p] = edge[p]
    BY <1>5, <2>2, <2>3
  <2>6. Near(p)' = Near(p)
    BY <1>a, <2>1
  <2>7. QED BY <1>5, <1>7, <2>1, <2>4, <2>5, <2>6
<1>11. ASSUME NEW q \in Pos, Enqueue(q)
       PROVE  Phase(p, r)'
  <2>1. /\ UNCHANGED <<gen, version, edge, unmarked, screen, busy, buffer, update, mesh, mixed>>
        /\ main = <<>> /\ main' = <<"draw", q>>
    BY <1>11 DEF Enqueue, Idle, worldVars, screenVars, meshVars
  <2>2. /\ \A t \in Pos \ {q} : dirty'[t] = dirty[t]
        /\ LaneOf[q] \in Lane
        /\ ToSet(queue'[LaneOf[q]]) = ToSet(queue[LaneOf[q]]) \cup {Job(screen[q], q)}
        /\ \A l \in Lane \ {LaneOf[q]} : queue'[l] = queue[l]
    BY <1>3, <1>11, EnqueueFacts
  <2>3. p # q
    <3>1. SUFFICES ASSUME p = q PROVE InQueue(r)'
      BY <1>5
    <3>2. Job(screen[q], q).renderer = r
      BY <1>5, <2>1, <3>1 DEF Job
    <3>3. QED BY <2>2, <3>2 DEF InQueue
  <2>4. InQueue(r) => InQueue(r)'
    BY <2>2 DEF InQueue
  <2>5. Phase(p, r)
    BY <1>5, <1>6, <2>1, <2>2, <2>3, <2>4 DEF Settled
  <2>6. \A l \in Lane : Works(l, r)' <=> Works(l, r)
    BY <2>1 DEF Works
  <2>7. main' = <<"taken", p>> <=> main = <<"taken", p>>
    BY <2>1
  <2>8. QED BY <2>1, <2>5, <2>6, <2>7, <1>a, PhaseKept
<1>12. ASSUME NEW q \in Pos, TakeMesh(q)
       PROVE  Phase(p, r)'
  <2>1. UNCHANGED <<gen, version, edge, unmarked, dirty, screen, queue, busy, update, mixed>>
    BY <1>12 DEF TakeMesh, worldVars, screenVars
  <2>2. /\ screen[q] \in Renderer /\ update[screen[q]]
        /\ main \in {<<>>, <<"draw", q>>} /\ main' = <<"taken", q>>
        /\ mesh'[screen[q]] = buffer[screen[q]]
        /\ \A x \in Renderer \ {screen[q]} : mesh'[x] = mesh[x] /\ buffer'[x] = buffer[x]
    BY <1>12, TakeFacts
  <2>3. Phase(p, r)
    <3>1. InQueue(r) => InQueue(r)'
      BY <2>1 DEF InQueue
    <3>2. QED BY <1>5, <1>6, <2>1, <3>1 DEF Settled
  <2>4. \A l \in Lane : Works(l, r)' <=> Works(l, r)
    BY <2>1 DEF Works
  <2>5. main # <<"taken", p>>
    BY <2>2
  <2>6. CASE q = p
    <3>1. screen[q] = r
      BY <1>5, <2>1, <2>6
    <3>2. Waiting(p, r)
      BY <2>2, <2>3, <2>5, <3>1 DEF Phase, Pushing, Taken, Drawn
    <3>3. FirstFaces(p, Parts)' = FirstFaces(p, Parts)
      BY <2>1 DEF FirstFaces, Face
    <3>4. ~Working(r)'
      BY <2>4, <3>2 DEF Waiting, Working
    <3>5. mesh'[r] = FirstFaces(p, Parts)'
      BY <2>2, <3>1, <3>2, <3>3 DEF Waiting
    <3>6. Taken(p, r)'
      BY <2>1, <2>2, <2>6, <3>1, <3>4, <3>5 DEF Taken
    <3>7. QED BY <3>6 DEF Phase
  <2>7. CASE q # p
    <3>1. screen[q] # r
      BY <1>2, <1>5, <2>1, <2>7
    <3>2. mesh'[r] = mesh[r] /\ buffer'[r] = buffer[r]
      BY <2>2, <3>1
    <3>3. main' # <<"taken", p>>
      BY <2>2, <2>7
    <3>4. QED BY <2>1, <2>3, <2>4, <2>5, <3>2, <3>3, <1>a, PhaseKept
  <2>8. QED BY <2>6, <2>7
<1>13. ASSUME NEW q \in Pos, DrawMesh(q)
       PROVE  Phase(p, r)'
  <2>1. /\ UNCHANGED <<gen, version, edge, unmarked, dirty, screen, queue, busy, buffer, mesh, mixed>>
        /\ main' = <<>>
    BY <1>13 DEF DrawMesh, worldVars, screenVars
  <2>2. /\ screen[q] \in Renderer
        /\ \A x \in Renderer \ {screen[q]} : update'[x] = update[x]
        /\ \/ main = <<"draw", q>> /\ ~update[screen[q]] /\ ~update'[screen[q]]
           \/ main = <<"taken", q>> /\ ~update'[screen[q]]
    BY <1>13, DrawFacts
  <2>3. Phase(p, r)
    <3>1. InQueue(r) => InQueue(r)'
      BY <2>1 DEF InQueue
    <3>2. QED BY <1>5, <1>6, <2>1, <3>1 DEF Settled
  <2>4. \A l \in Lane : Works(l, r)' <=> Works(l, r)
    BY <2>1 DEF Works
  <2>5. screen[p] = r
    BY <1>5, <2>1
  <2>6. CASE main = <<"taken", p>>
    <3>1. q = p
      BY <2>2, <2>6
    <3>2. update[r] /\ ~update'[r]
      BY <1>2, <2>2, <2>5, <2>6, <3>1
    <3>3. Taken(p, r)
      BY <2>3, <2>6, <3>2 DEF Phase, Pushing, Waiting, Drawn
    <3>4. FirstFaces(p, Parts)' = FirstFaces(p, Parts)
      BY <2>1 DEF FirstFaces, Face
    <3>5. ~Working(r)'
      BY <2>4, <3>3 DEF Taken, Working
    <3>6. mesh'[r] = FirstFaces(p, Parts)'
      BY <2>1, <3>3, <3>4 DEF Taken
    <3>7. Drawn(p, r)'
      BY <2>1, <3>2, <3>5, <3>6 DEF Drawn
    <3>8. QED BY <3>7 DEF Phase
  <2>7. CASE main # <<"taken", p>>
    <3>1. update'[r] = update[r]
      <4>1. CASE q = p
        <5>1. ~update[r] /\ ~update'[r]
          BY <2>2, <2>5, <2>7, <4>1
        <5>2. update[r] \in BOOLEAN /\ update'[r] \in BOOLEAN
          <6>1. update \in [Renderer -> BOOLEAN]
            BY <1>3 DEF TypeOK
          <6>2. update' \in [Renderer -> BOOLEAN]
            BY <1>13, DrawFacts
          <6>3. QED BY <6>1, <6>2
        <5>3. QED BY <5>1, <5>2
      <4>2. CASE q # p
        <5>1. screen[q] # r
          BY <1>2, <1>5, <2>5, <4>2
        <5>2. QED BY <2>2, <5>1
      <4>3. QED BY <4>1, <4>2
    <3>2. main' # <<"taken", p>>
      BY <2>1
    <3>3. QED BY <2>1, <2>3, <2>4, <2>7, <3>1, <3>2, <1>a, PhaseKept
  <2>8. QED BY <2>6, <2>7
<1>14. ASSUME NEW l \in Lane, BeginMesh(l)
       PROVE  Phase(p, r)'
  <2> DEFINE j == Head(queue[l])
  <2>1. /\ j \in JobSet /\ 1 \in Part /\ Push(j, 1)
        /\ busy'[l] \in JobSet /\ busy'[l].renderer = j.renderer /\ busy'[l].pos = j.pos
        /\ busy'[l].gen = j.gen /\ busy'[l].near = j.near /\ busy'[l].next = 2
    BY <1>3, <1>14, BeginFacts
  <2>2. \A m \in Lane \ {l} : queue'[m] = queue[m] /\ busy'[m] = busy[m]
    BY <1>3, <1>14, BeginFacts
  <2>3. ToSet(queue[l]) \subseteq ToSet(queue'[l]) \cup {j}
    BY <1>3, <1>14, BeginFacts
  <2>4. /\ mixed'[j.renderer] = ~Undisturbed(j)
        /\ \A x \in Renderer \ {j.renderer} : mixed'[x] = mixed[x]
    BY <1>3, <1>14, BeginFacts
  <2>5. busy[l] = None
    BY <1>14 DEF BeginMesh
  <2>6. UNCHANGED <<gen, version, edge, unmarked, dirty, screen, update, mesh, main>>
    BY <1>14 DEF BeginMesh, worldVars, screenVars
  <2> HIDE DEF j
  <2>7. /\ buffer'[j.renderer] = Append(buffer[j.renderer], Faces(j, 1))
        /\ \A x \in Renderer \ {j.renderer} : buffer'[x] = buffer[x]
    BY <1>3, <2>1, PushFacts
  <2>8. CASE j.renderer # r
    <3>1. buffer'[r] = buffer[r] /\ mixed'[r] = mixed[r]
      BY <2>4, <2>7, <2>8
    <3>2. InQueue(r) => InQueue(r)'
      BY <2>2, <2>3, <2>8 DEF InQueue
    <3>3. Phase(p, r)
      BY <1>5, <1>6, <2>6, <3>1, <3>2 DEF Settled
    <3>4. \A m \in Lane : Works(m, r)' <=> Works(m, r)
      BY <2>1, <2>2, <2>5, <2>8 DEF Works
    <3>5. \A m \in Lane : Works(m, r) => busy'[m] = busy[m]
      BY <2>2, <2>5 DEF Works
    <3>6. QED BY <2>6, <3>1, <3>3, <3>4, <3>5, <1>a, PhaseKept
  <2>9. CASE j.renderer = r
    <3>1. Undisturbed(j)
      BY <1>5, <2>4, <2>9
    <3>2. /\ screen[j.pos] = r /\ gen[j.pos] = j.gen /\ ~update[r] /\ buffer[r] = <<>>
          /\ \A m \in Lane : busy[m] # None => busy[m].renderer # r
      BY <2>9, <3>1 DEF Undisturbed
    <3>3. j.pos = p
      <4>1. j.pos \in Pos
        BY <2>1 DEF JobSet
      <4>2. QED BY <1>2, <1>5, <2>6, <3>2, <4>1
    <3>4. p \in world
      BY <1>1, <1>5, <2>6
    <3>15. j.near = Near(p)
      <4>1. /\ queue'[l] = Tail(queue[l]) /\ queue[l] # <<>> /\ queue[l] \in Seq(JobSet)
            /\ queue' \in [Lane -> Seq(JobSet)]
        BY <1>1, <1>3, <1>14, BeginFacts DEF BeginMesh
      <4>2. /\ Len(queue[l]) \in Nat /\ Len(queue[l]) # 0
            /\ Len(queue'[l]) = Len(queue[l]) - 1
            /\ \A i \in 1..Len(queue'[l]) : queue'[l][i] = queue[l][i + 1]
            /\ j = queue[l][1]
        BY <4>1, HeadTailProperties DEF j
      <4>3. 1 \in 1..Len(queue[l]) /\ Own(queue[l][1], p)
        BY <1>5, <2>6, <2>9, <3>2, <3>3, <4>2 DEF Own
      <4>4. Latest(p)
        BY <1>5, <2>6 DEF NearInv
      <4>5. \/ queue[l][1].near = Near(p)
            \/ \E k \in 1..Len(queue[l]) : k > 1 /\ Own(queue[l][k], p)
        BY <4>3, <4>4 DEF Latest
      <4>6. ASSUME NEW k \in 1..Len(queue[l]), k > 1, Own(queue[l][k], p)
            PROVE  InQueue(r)'
        <5>1. k - 1 \in 1..Len(queue'[l]) /\ (k - 1) + 1 = k
          BY <4>2, <4>6
        <5>2. queue'[l][k - 1] = queue[l][k]
          BY <4>2, <5>1
        <5>3. DOMAIN queue'[l] = 1..Len(queue'[l])
          BY <4>1, LenProperties
        <5>4. queue'[l][k - 1] \in ToSet(queue'[l])
          BY <5>1, <5>3 DEF ToSet
        <5>5. queue[l][k].renderer = r
          BY <1>5, <2>6, <4>6 DEF Own
        <5>6. QED BY <5>2, <5>4, <5>5 DEF InQueue
      <4>7. QED BY <1>5, <4>2, <4>5, <4>6
    <3>5. Faces(j, 1) = Face(p, 1)
      BY <2>1, <3>2, <3>3, <3>4, <3>15, JobFaces
    <3>6. FirstFaces(p, 0) = <<>>
      BY DEF FirstFaces
    <3>7. <<>> \in Seq(FaceSet)
      BY EmptySeq
    <3>8. Append(FirstFaces(p, 0), Face(p, 0 + 1)) = FirstFaces(p, 0 + 1)
      <4>1. 0 \in Nat /\ 0 + 1 \in Part
        BY <2>1
      <4>2. QED BY <1>3, <3>4, <3>6, <3>7, <4>1, NextFace
    <3>9. Append(<<>>, Face(p, 1)) = FirstFaces(p, 1)
      <4>1. 0 + 1 = 1
        OBVIOUS
      <4>2. QED BY <3>6, <3>8, <4>1, Zenon
    <3>10. buffer'[r] = FirstFaces(p, 1)
      BY <2>7, <2>9, <3>2, <3>5, <3>9
    <3>11. FirstFaces(p, busy[l].next - 1)' = FirstFaces(p, 1)
      <4>1. busy'[l].next - 1 = 1
        BY <2>1
      <4>2. QED BY <2>6, <4>1 DEF FirstFaces, Face
    <3>12. Works(l, r)' /\ \A m \in Lane : Works(m, r)' => m = l
      BY <1>1, <2>1, <2>2, <2>9, <3>2 DEF Works
    <3>13. Pushing(p, r)'
      BY <1>a, <2>1, <2>6, <3>2, <3>3, <3>10, <3>11, <3>12, <3>15 DEF Pushing
    <3>14. QED BY <3>13 DEF Phase
  <2>10. QED BY <2>8, <2>9
<1>15. ASSUME NEW l \in Lane, PushFaces(l)
       PROVE  Phase(p, r)'
  <2> DEFINE j == busy[l]
  <2>1. /\ j \in JobSet /\ j.next \in Part /\ Push(j, j.next)
        /\ busy'[l] \in JobSet /\ busy'[l].renderer = j.renderer
        /\ busy'[l].pos = j.pos /\ busy'[l].gen = j.gen /\ busy'[l].near = j.near
        /\ busy'[l].next = j.next + 1
        /\ \A m \in Lane \ {l} : busy'[m] = busy[m]
    BY <1>3, <1>15, PushFacesFacts
  <2>2. UNCHANGED <<gen, version, edge, unmarked, dirty, screen, queue, update, mesh, main, mixed>>
    BY <1>15 DEF PushFaces, worldVars, screenVars
  <2>3. Phase(p, r)
    <3>1. InQueue(r) => InQueue(r)'
      BY <2>2 DEF InQueue
    <3>2. QED BY <1>5, <1>6, <2>2, <3>1 DEF Settled
  <2>4. /\ buffer'[j.renderer] = Append(buffer[j.renderer], Faces(j, j.next))
        /\ \A x \in Renderer \ {j.renderer} : buffer'[x] = buffer[x]
    BY <1>3, <2>1, PushFacts
  <2>5. j # None
    BY <2>1
  <2>6. \A m \in Lane : Works(m, r)' <=> Works(m, r)
    BY <2>1, <2>5 DEF Works
  <2>7. CASE j.renderer # r
    <3>1. buffer'[r] = buffer[r]
      BY <2>4, <2>7
    <3>2. \A m \in Lane : Works(m, r) => busy'[m] = busy[m]
      BY <2>1, <2>7 DEF Works
    <3>3. QED BY <2>2, <2>3, <2>6, <3>1, <3>2, <1>a, PhaseKept
  <2>8. CASE j.renderer = r
    <3>1. Works(l, r)
      BY <2>5, <2>8 DEF Works
    <3>2. Pushing(p, r)
      BY <2>3, <3>1 DEF Phase, Waiting, Taken, Drawn, Working
    <3>3. /\ \A m \in Lane : Works(m, r) => m = l
          /\ busy[l].pos = p /\ busy[l].gen = gen[p] /\ busy[l].near = Near(p)
          /\ ~update[r]
          /\ buffer[r] = FirstFaces(p, busy[l].next - 1)
      BY <3>1, <3>2 DEF Pushing
    <3>4. p \in world
      BY <1>1, <1>5, <2>2
    <3>5. Faces(j, j.next) = Face(p, j.next)
      BY <2>1, <3>3, <3>4, JobFaces
    <3>6. PICK n \in Nat : n = j.next - 1 /\ n + 1 = j.next
      BY <2>1 DEF Part
    <3>7. buffer[r] = FirstFaces(p, n) /\ buffer[r] \in Seq(FaceSet)
      BY <1>1, <3>3, <3>6
    <3>8. Append(FirstFaces(p, n), Face(p, n + 1)) = FirstFaces(p, n + 1)
      <4>1. n + 1 \in Part
        BY <2>1, <3>6
      <4>2. FirstFaces(p, n) \in Seq(FaceSet)
        BY <3>7
      <4>3. QED BY <1>3, <3>4, <4>1, <4>2, NextFace
    <3>9. buffer'[r] = FirstFaces(p, n + 1)
      BY <2>4, <2>8, <3>5, <3>6, <3>7, <3>8
    <3>10. FirstFaces(p, busy[l].next - 1)' = FirstFaces(p, n + 1)
      <4>1. busy'[l].next - 1 = n + 1
        BY <2>1, <3>6 DEF Part
      <4>2. QED BY <2>2, <4>1 DEF FirstFaces, Face
    <3>11. Pushing(p, r)'
      BY <1>a, <2>1, <2>2, <2>6, <3>1, <3>3, <3>9, <3>10 DEF Pushing
    <3>12. QED BY <3>11 DEF Phase
  <2>9. QED BY <2>7, <2>8
<1>16. ASSUME NEW l \in Lane, FinishMesh(l)
       PROVE  Phase(p, r)'
  <2>1. /\ busy[l] \in JobSet /\ busy[l].next = Parts + 1
        /\ busy'[l] = None
        /\ \A m \in Lane \ {l} : busy'[m] = busy[m]
        /\ update'[busy[l].renderer]
        /\ \A x \in Renderer \ {busy[l].renderer} : update'[x] = update[x]
    BY <1>3, <1>16, FinishFacts
  <2>2. UNCHANGED <<gen, version, edge, unmarked, dirty, screen, queue, buffer, mesh, main, mixed>>
    BY <1>16 DEF FinishMesh, worldVars, screenVars
  <2>3. Phase(p, r)
    <3>1. InQueue(r) => InQueue(r)'
      BY <2>2 DEF InQueue
    <3>2. QED BY <1>5, <1>6, <2>2, <3>1 DEF Settled
  <2>4. busy[l] # None
    BY <2>1
  <2>5. CASE busy[l].renderer # r
    <3>1. \A m \in Lane : Works(m, r)' <=> Works(m, r)
      BY <2>1, <2>5 DEF Works
    <3>2. \A m \in Lane : Works(m, r) => busy'[m] = busy[m]
      BY <2>1, <2>5 DEF Works
    <3>3. update'[r] = update[r]
      BY <2>1, <2>5
    <3>4. QED BY <2>2, <2>3, <3>1, <3>2, <3>3, <1>a, PhaseKept
  <2>6. CASE busy[l].renderer = r
    <3>1. Works(l, r)
      BY <2>4, <2>6 DEF Works
    <3>2. Pushing(p, r)
      BY <2>3, <3>1 DEF Phase, Waiting, Taken, Drawn, Working
    <3>3. /\ \A m \in Lane : Works(m, r) => m = l
          /\ ~update[r]
          /\ buffer[r] = FirstFaces(p, busy[l].next - 1)
      BY <3>1, <3>2 DEF Pushing
    <3>4. busy[l].next - 1 = Parts
      BY <2>1
    <3>5. FirstFaces(p, Parts)' = FirstFaces(p, Parts)
      BY <2>2 DEF FirstFaces, Face
    <3>6. main' # <<"taken", p>>
      BY <1>2, <1>5, <2>2, <3>3
    <3>7. ~Working(r)'
      BY <2>1, <3>3 DEF Working, Works
    <3>8. buffer'[r] = FirstFaces(p, Parts)'
      BY <2>2, <3>3, <3>4, <3>5
    <3>9. Waiting(p, r)'
      BY <2>1, <2>6, <3>6, <3>7, <3>8 DEF Waiting
    <3>10. QED BY <3>9 DEF Phase
  <2>7. QED BY <2>5, <2>6
<1>17. CASE UNCHANGED vars
  <2>1. UNCHANGED <<gen, version, edge, unmarked, dirty, screen, queue, busy, buffer, update, mesh,
                    main, mixed>>
    BY <1>17 DEF vars, worldVars, screenVars, meshVars
  <2>2. Near(p)' = Near(p)
    BY <1>a, <2>1
  <2>3. QED BY <1>5, <1>7, <2>1, <2>2
<1>18. QED BY <1>8, <1>9, <1>10, <1>11, <1>12, <1>13, <1>14, <1>15, <1>16, <1>17
           DEF Next, Draw, Thread

-----------------------------------------------------------------------------
(* The theorems.                                                           *)

RemeshInv == ShapeInv /\ ChangesMeshed /\ NearInv /\ MeshPhase

LEMMA RemeshInit ==
  Init => RemeshInv
<1> USE ConstantsAssumption
<1> SUFFICES ASSUME Init PROVE RemeshInv
  OBVIOUS
<1>1. TypeOK
  <2>1. <<>> \in Seq(Renderer) /\ <<>> \in Seq(JobSet) /\ <<>> \in Seq(FaceSet)
    BY EmptySeq
  <2>2. QED BY <2>1 DEF Init, TypeOK
<1>2. RenderInv
  <2>1. Len(<<>>) = 0
    OBVIOUS
  <2>2. dead = <<>> /\ main = <<>> /\ \A p \in Pos : screen[p] = None
    BY DEF Init
  <2>3. QED BY <2>1, <2>2 DEF RenderInv
<1>3. NeighborsExist
  BY DEF Init, NeighborsExist
<1>4. ChangesMeshed
  BY DEF Init, ChangesMeshed
<1>5. MeshPhase
  BY DEF Init, MeshPhase, Settled
<1>6. NearInv
  <2>1. \A l \in Lane : queue[l] = <<>>
    BY DEF Init
  <2>2. Len(<<>>) = 0
    OBVIOUS
  <2>3. QED BY <2>1, <2>2 DEF Init, NearInv
<1>7. QED BY <1>1, <1>2, <1>3, <1>4, <1>5, <1>6 DEF RemeshInv, ShapeInv

LEMMA RemeshAlways ==
  Spec => []RemeshInv
<1>1. RemeshInv /\ [Next]_vars => RemeshInv'
  BY ShapeStep, ChangesStep, NearStep, PhaseStep DEF RemeshInv
<1>2. QED BY <1>1, RemeshInit, PTL DEF Spec

\* The state of remeshing keeps its shape, with any number of chunks made and changes made
\* to them: WorldRenderer draws renderers of chunks in the world, and none of them is dead.
THEOREM RemeshTypeCorrect ==
  Spec => []TypeOK
<1>1. RemeshInv => TypeOK
  BY DEF RemeshInv, ShapeInv
<1>2. QED BY <1>1, RemeshAlways, PTL

\* A chunk with the hasNeighbors flag of World::informChunkChange has all its neighbours,
\* in whatever order chunks are made, deleted and made again: render makes no chunk while
\* it walks over its list.
THEOREM NeighborsAlwaysExist ==
  Spec => []NeighborsExist
<1>1. RemeshInv => NeighborsExist
  BY DEF RemeshInv, ShapeInv
<1>2. QED BY <1>1, RemeshAlways, PTL

\* No change of a chunk on screen is lost between isDirty, the queues of remeshThread and
\* the parts generateMesh has read.
THEOREM ChangesAlwaysMeshed ==
  Spec => []ChangesMeshed
<1>1. RemeshInv => ChangesMeshed
  BY DEF RemeshInv
<1>2. QED BY <1>1, RemeshAlways, PTL

\* A renderer for which nothing is left to do draws its chunk and what is around it as they
\* are, each part once, if the last generateMesh to begin for it began undisturbed and no
\* neighbour has changed without marking the chunk since it was last marked.
THEOREM MeshAlwaysExact ==
  Spec => []MeshExact
<1>1. RemeshInv => MeshExact
  <2>1. SUFFICES ASSUME RemeshInv, NEW p \in Pos, NEW r, r = screen[p],
                        r # None /\ ~dirty[p] /\ ~Pending(r) /\ Idle,
                        ~update[r] /\ ~mixed[r] /\ ~unmarked[p]
                 PROVE  mesh[r] = [k \in Part |-> [pos |-> p, gen |-> gen[p], part |-> k,
                                                   version |-> version[p][k], around |-> edge[p]]]
    BY DEF MeshExact
  <2>2. r \in Renderer
    BY <2>1 DEF RemeshInv, ShapeInv, TypeOK
  <2>3. ~InQueue(r)
    BY <2>1 DEF Pending, InQueue, Jobs
  <2>4. ~Working(r)
    BY <2>1 DEF Pending, Working, Works, Jobs
  <2>5. Phase(p, r)
    BY <2>1, <2>2, <2>3 DEF RemeshInv, MeshPhase, Settled
  <2>6. mesh[r] = FirstFaces(p, Parts)
    BY <2>1, <2>4, <2>5 DEF Phase, Pushing, Waiting, Taken, Drawn, Working
  <2>7. QED BY <2>6 DEF FirstFaces, Face, Part
<1>2. QED BY <1>1, RemeshAlways, PTL

=============================================================================
