------------------------- MODULE RendererPoolProofs -------------------------
(***************************************************************************)
(* Proofs about RendererPool, for any number of positions and renderers.   *)
(*                                                                         *)
(* The four invariants hold together: that a renderer's index is its place *)
(* in the list needs that no two positions share a renderer, which needs   *)
(* that the recycled ones are off screen and that every renderer on screen *)
(* knows its position.                                                     *)
(***************************************************************************)
EXTENDS RendererPool, SequenceTheorems, TLAPS

PoolInv == TypeOK /\ ListMatchesMap /\ DeadAreFree /\ ShowsWorldChunk

-----------------------------------------------------------------------------
(* What appending and removing by swapping do to a list of renderers.      *)
LEMMA AppendFacts ==
  ASSUME NEW l \in Seq(Renderer), NEW r \in Renderer
  PROVE  /\ Append(l, r) \in Seq(Renderer)
         /\ Len(Append(l, r)) = Len(l) + 1
         /\ \A j \in 1..Len(l) : Append(l, r)[j] = l[j]
         /\ Append(l, r)[Len(l) + 1] = r
  OBVIOUS

\* The length of a list without its last element.
LEMMA FrontLength ==
  \A n \in Nat : n # 0 => (IF 1 <= n - 1 THEN n - 1 - 1 + 1 ELSE 0) = n - 1
  OBVIOUS

\* The last renderer of the list takes the place of the one that goes.
LEMMA SwapRemoveFacts ==
  ASSUME NEW l \in Seq(Renderer), NEW i \in 1..Len(l),
         NEW m, m = SubSeq([l EXCEPT ![i] = l[Len(l)]], 1, Len(l) - 1)
  PROVE  /\ m \in Seq(Renderer)
         /\ Len(m) = Len(l) - 1
         /\ \A j \in 1..(Len(l) - 1) : m[j] = IF j = i THEN l[Len(l)] ELSE l[j]
<1> DEFINE e == [l EXCEPT ![i] = l[Len(l)]]
<1>1. Len(l) \in Nat /\ l[Len(l)] \in Renderer
  OBVIOUS
<1>2. /\ e \in Seq(Renderer)
      /\ Len(e) = Len(l)
      /\ \A j \in 1..Len(l) : e[j] = IF j = i THEN l[Len(l)] ELSE l[j]
  BY <1>1, ExceptSeq
<1> HIDE DEF e
<1>3. \A j \in 1..(Len(l) - 1) : e[j] \in Renderer
  BY <1>1, <1>2
<1>4. /\ SubSeq(e, 1, Len(l) - 1) \in Seq(Renderer)
      /\ Len(SubSeq(e, 1, Len(l) - 1)) = IF 1 <= Len(l) - 1 THEN Len(l) - 1 - 1 + 1 ELSE 0
      /\ \A j \in 1..(Len(l) - 1 - 1 + 1) : SubSeq(e, 1, Len(l) - 1)[j] = e[1 + j - 1]
  BY <1>1, <1>3, SubSeqProperties
<1>5. m = SubSeq(e, 1, Len(l) - 1)
  BY DEF e
<1>6. Len(m) = Len(l) - 1
  <2>1. Len(l) # 0
    OBVIOUS
  <2>2. QED BY <1>1, <1>4, <1>5, <2>1, FrontLength, Zenon
<1>7. \A j \in 1..(Len(l) - 1) : m[j] = e[j]
  BY <1>1, <1>4, <1>5
<1>8. QED BY <1>1, <1>2, <1>4, <1>5, <1>6, <1>7

\* What is left of the dead renderers when the last one is taken.
LEMMA FrontFacts ==
  ASSUME NEW l \in Seq(Renderer), l # <<>>
  PROVE  /\ SubSeq(l, 1, Len(l) - 1) \in Seq(Renderer)
         /\ Len(SubSeq(l, 1, Len(l) - 1)) = Len(l) - 1
         /\ \A j \in 1..(Len(l) - 1) : SubSeq(l, 1, Len(l) - 1)[j] = l[j]
         /\ Len(l) \in 1..Len(l)
         /\ l[Len(l)] \in Renderer
<1>1. Len(l) \in Nat /\ Len(l) # 0 /\ \A j \in 1..Len(l) : l[j] \in Renderer
  OBVIOUS
<1>2. /\ SubSeq(l, 1, Len(l) - 1) \in Seq(Renderer)
      /\ Len(SubSeq(l, 1, Len(l) - 1)) = IF 1 <= Len(l) - 1 THEN Len(l) - 1 - 1 + 1 ELSE 0
      /\ \A j \in 1..(Len(l) - 1 - 1 + 1) : SubSeq(l, 1, Len(l) - 1)[j] = l[1 + j - 1]
  BY <1>1, SubSeqProperties
<1>3. \A j \in 1..(Len(l) - 1) : SubSeq(l, 1, Len(l) - 1)[j] = l[j]
  BY <1>1, <1>2
<1>4. Len(SubSeq(l, 1, Len(l) - 1)) = Len(l) - 1
  BY <1>1, <1>2, FrontLength, Zenon
<1>5. Len(l) \in 1..Len(l)
  BY <1>1
<1>6. QED BY <1>1, <1>2, <1>3, <1>4, <1>5

-----------------------------------------------------------------------------
(* Getting a chunk.                                                        *)
LEMMA CreateChunkFacts ==
  ASSUME PoolInv, NEW p \in Pos, CreateChunk(p)
  PROVE  /\ chunks' \in [Pos -> 0..made'] /\ made' \in Nat
         /\ GetChunk(p) \in Nat /\ GetChunk(p) # 0
         /\ chunks'[p] = GetChunk(p)
         /\ \A q \in Pos : q # p => chunks'[q] = chunks[q]
         /\ \A q \in Pos : chunks[q] # 0 => chunks'[q] = chunks[q]
BY DEF PoolInv, TypeOK, CreateChunk, GetChunk

(* A renderer that is off screen is installed at a position that has none. *)
LEMMA InstallFacts ==
  ASSUME PoolInv, NEW p \in Pos, NEW r \in Renderer, r \notin Live,
         renderers[p] = None, CreateChunk(p), Install(r, p)
  PROVE  /\ renderers' \in [Pos -> Renderer \cup {None}]
         /\ list' \in Seq(Renderer)
         /\ pos' \in [Renderer -> Pos]
         /\ index' \in [Renderer -> Nat]
         /\ chunk' \in [Renderer -> Nat]
         /\ ListMatchesMap'
         /\ ShowsWorldChunk'
         /\ Live' = Live \cup {r}
<1> USE ConstantsAssumption
<1>1. /\ Len(list) \in Nat
      /\ list' \in Seq(Renderer)
      /\ Len(list') = Len(list) + 1
      /\ \A j \in 1..Len(list) : list'[j] = list[j]
      /\ list'[Len(list) + 1] = r
  BY AppendFacts DEF PoolInv, TypeOK, Install
<1>2. /\ chunks' \in [Pos -> 0..made'] /\ made' \in Nat
      /\ GetChunk(p) \in Nat /\ GetChunk(p) # 0
      /\ chunks'[p] = GetChunk(p)
      /\ \A q \in Pos : q # p => chunks'[q] = chunks[q]
  BY CreateChunkFacts
<1>3. /\ renderers' \in [Pos -> Renderer \cup {None}]
      /\ renderers'[p] = r
      /\ \A q \in Pos : q # p => renderers'[q] = renderers[q]
  BY DEF PoolInv, TypeOK, Install
<1>4. /\ pos' \in [Renderer -> Pos]
      /\ pos'[r] = p
      /\ \A x \in Renderer : x # r => pos'[x] = pos[x]
  BY DEF PoolInv, TypeOK, Install
<1>5. /\ index' \in [Renderer -> Nat]
      /\ index'[r] = Len(list) + 1
      /\ \A x \in Renderer : x # r => index'[x] = index[x]
  BY <1>1 DEF PoolInv, TypeOK, Install
<1>6. /\ chunk' \in [Renderer -> Nat]
      /\ chunk'[r] = GetChunk(p)
      /\ \A x \in Renderer : x # r => chunk'[x] = chunk[x]
  BY <1>2 DEF PoolInv, TypeOK, Install
<1>7. \A q \in Pos : renderers[q] # None =>
        renderers[q] \in Renderer /\ renderers[q] # r /\ q # p
  BY DEF PoolInv, TypeOK, Live
<1>8. \A j \in 1..Len(list) :
        /\ list[j] \in Renderer
        /\ index[list[j]] = j
        /\ renderers[pos[list[j]]] = list[j]
        /\ pos[list[j]] \in Pos
        /\ list[j] # r
        /\ pos[list[j]] # p
  <2>1. SUFFICES ASSUME NEW j \in 1..Len(list)
                 PROVE  /\ list[j] \in Renderer
                        /\ index[list[j]] = j
                        /\ renderers[pos[list[j]]] = list[j]
                        /\ pos[list[j]] \in Pos
                        /\ list[j] # r
                        /\ pos[list[j]] # p
    OBVIOUS
  <2>2. list[j] \in Renderer /\ j \in DOMAIN list
    BY DEF PoolInv, TypeOK
  <2>3. index[list[j]] = j /\ renderers[pos[list[j]]] = list[j]
    BY <2>2 DEF PoolInv, ListMatchesMap
  <2>4. pos[list[j]] \in Pos
    BY <2>2 DEF PoolInv, TypeOK
  <2>5. QED BY <2>2, <2>3, <2>4, <1>7
<1>9. ListMatchesMap'
  <2>1. ASSUME NEW j \in DOMAIN list'
        PROVE  index'[list'[j]] = j /\ renderers'[pos'[list'[j]]] = list'[j]
    <3>1. j \in 1..(Len(list) + 1)
      BY <1>1, <2>1
    <3>2. CASE j = Len(list) + 1
      BY <1>1, <1>3, <1>4, <1>5, <3>2
    <3>3. CASE j # Len(list) + 1
      <4>1. j \in 1..Len(list)
        BY <1>1, <3>1, <3>3
      <4>2. list'[j] = list[j]
        BY <1>1, <4>1
      <4>3. QED BY <4>1, <4>2, <1>3, <1>4, <1>5, <1>8
    <3>4. QED BY <3>2, <3>3
  <2>2. ASSUME NEW q \in Pos, renderers'[q] # None
        PROVE  index'[renderers'[q]] \in DOMAIN list' /\ list'[index'[renderers'[q]]] = renderers'[q]
    <3>1. DOMAIN list' = 1..(Len(list) + 1)
      BY <1>1
    <3>2. CASE q = p
      BY <1>1, <1>3, <1>5, <3>1, <3>2
    <3>3. CASE q # p
      <4>1. renderers'[q] = renderers[q] /\ renderers[q] \in Renderer /\ renderers[q] # r
        BY <1>3, <1>7, <2>2, <3>3
      <4>2. index[renderers[q]] \in 1..Len(list) /\ list[index[renderers[q]]] = renderers[q]
        BY <4>1, <2>2 DEF PoolInv, TypeOK, ListMatchesMap
      <4>3. index'[renderers'[q]] = index[renderers[q]]
        BY <4>1, <1>5
      <4>4. QED BY <1>1, <3>1, <4>1, <4>2, <4>3
    <3>4. QED BY <3>2, <3>3
  <2>3. QED BY <2>1, <2>2 DEF ListMatchesMap
<1>10. ShowsWorldChunk'
  <2>1. ASSUME NEW q \in Pos, renderers'[q] # None
        PROVE  chunks'[q] # 0 /\ pos'[renderers'[q]] = q /\ chunk'[renderers'[q]] = chunks'[q]
    <3>1. CASE q = p
      BY <1>2, <1>3, <1>4, <1>6, <3>1
    <3>2. CASE q # p
      <4>1. renderers'[q] = renderers[q] /\ renderers[q] # None
        BY <1>3, <2>1, <3>2
      <4>2. chunks[q] # 0 /\ pos[renderers[q]] = q /\ chunk[renderers[q]] = chunks[q]
        BY <4>1 DEF PoolInv, ShowsWorldChunk
      <4>3. QED BY <4>1, <4>2, <3>2, <1>2, <1>4, <1>6, <1>7
    <3>3. QED BY <3>1, <3>2
  <2>2. QED BY <2>1 DEF ShowsWorldChunk
<1>11. Live' = Live \cup {r}
  <2>1. \A x : x \in Live' <=> x # None /\ \E q \in Pos : x = renderers'[q]
    BY DEF Live
  <2>2. \A x : x \in Live <=> x # None /\ \E q \in Pos : x = renderers[q]
    BY DEF Live
  <2>3. \A x : x \in Live' <=> x \in Live \/ x = r
    BY <2>1, <2>2, <1>3
  <2>4. QED BY <2>3
<1>12. QED BY <1>1, <1>3, <1>4, <1>5, <1>6, <1>9, <1>10, <1>11

(* getChunkRenderer keeps the invariant, after the getChunk before it.     *)
LEMMA GetChunkRendererKeepsInv ==
  ASSUME PoolInv, NEW p \in Pos, CreateChunk(p), GetChunkRenderer(p)
  PROVE  PoolInv'
<1> USE ConstantsAssumption
<1>1. chunks' \in [Pos -> 0..made'] /\ made' \in Nat
  BY CreateChunkFacts
<1>2. CASE renderers[p] # None
  <2>1. UNCHANGED <<renderers, list, dead, pos, index, chunk>>
    BY <1>2 DEF GetChunkRenderer
  <2>2. \A q \in Pos : renderers[q] # None => chunks'[q] = chunks[q]
    BY CreateChunkFacts DEF PoolInv, ShowsWorldChunk
  <2>3. TypeOK'
    BY <1>1, <2>1 DEF PoolInv, TypeOK
  <2>4. ListMatchesMap'
    BY <2>1 DEF PoolInv, ListMatchesMap
  <2>5. DeadAreFree'
    BY <2>1 DEF PoolInv, DeadAreFree, Dead, Live
  <2>6. ShowsWorldChunk'
    BY <2>1, <2>2 DEF PoolInv, ShowsWorldChunk
  <2>7. QED BY <2>3, <2>4, <2>5, <2>6 DEF PoolInv
<1>3. CASE renderers[p] = None /\ dead = <<>>
  <2>1. dead' = dead
    BY <1>3 DEF GetChunkRenderer
  <2>2. PICK r \in Renderer \ Live : Install(r, p)
    BY <1>3 DEF GetChunkRenderer
  <2>3. /\ renderers' \in [Pos -> Renderer \cup {None}]
        /\ list' \in Seq(Renderer)
        /\ pos' \in [Renderer -> Pos]
        /\ index' \in [Renderer -> Nat]
        /\ chunk' \in [Renderer -> Nat]
        /\ ListMatchesMap'
        /\ ShowsWorldChunk'
    BY <1>3, <2>2, InstallFacts
  <2>4. TypeOK'
    BY <1>1, <2>1, <2>3 DEF PoolInv, TypeOK
  <2>5. DeadAreFree'
    BY <1>3, <2>1 DEF DeadAreFree, Dead
  <2>6. QED BY <2>3, <2>4, <2>5 DEF PoolInv
<1>4. CASE renderers[p] = None /\ dead # <<>>
  <2> DEFINE r == dead[Len(dead)]
  <2>1. /\ dead' = SubSeq(dead, 1, Len(dead) - 1)
        /\ Install(r, p)
    BY <1>4 DEF GetChunkRenderer
  <2>2. /\ dead \in Seq(Renderer)
        /\ Len(dead) \in Nat
        /\ DOMAIN dead = 1..Len(dead)
    BY DEF PoolInv, TypeOK
  <2>3. /\ dead' \in Seq(Renderer)
        /\ Len(dead') = Len(dead) - 1
        /\ \A j \in 1..(Len(dead) - 1) : dead'[j] = dead[j]
        /\ Len(dead) \in 1..Len(dead)
        /\ r \in Renderer
    BY <1>4, <2>1, <2>2, FrontFacts
  <2>4. r \in Dead /\ r \notin Live
    BY <2>2, <2>3 DEF PoolInv, DeadAreFree, Dead
  <2>5. \A i, j \in 1..Len(dead) : dead[i] = dead[j] => i = j
    BY <2>2 DEF PoolInv, DeadAreFree
  <2> HIDE DEF r
  <2>6. /\ renderers' \in [Pos -> Renderer \cup {None}]
        /\ list' \in Seq(Renderer)
        /\ pos' \in [Renderer -> Pos]
        /\ index' \in [Renderer -> Nat]
        /\ chunk' \in [Renderer -> Nat]
        /\ ListMatchesMap'
        /\ ShowsWorldChunk'
        /\ Live' = Live \cup {r}
    BY <1>4, <2>1, <2>3, <2>4, InstallFacts
  <2>7. TypeOK'
    BY <1>1, <2>3, <2>6 DEF TypeOK
  <2>8. DOMAIN dead' = 1..(Len(dead) - 1)
    BY <2>2, <2>3
  <2>9. \A j \in DOMAIN dead' :
          j \in 1..Len(dead) /\ j # Len(dead) /\ dead'[j] = dead[j]
    BY <2>2, <2>3, <2>8
  <2>10. \A j \in DOMAIN dead' : dead'[j] # r /\ dead'[j] \notin Live
    <3>1. SUFFICES ASSUME NEW j \in DOMAIN dead'
                   PROVE  dead'[j] # r /\ dead'[j] \notin Live
      OBVIOUS
    <3>2. dead[j] \in Dead
      BY <2>2, <2>9 DEF Dead
    <3>3. dead[j] \notin Live
      BY <3>2 DEF PoolInv, DeadAreFree
    <3>4. dead[j] # r
      BY <2>3, <2>5, <2>9 DEF r
    <3>5. QED BY <2>9, <3>3, <3>4
  <2>11. Dead' \cap Live' = {}
    BY <2>6, <2>10 DEF Dead
  <2>12. \A i, j \in DOMAIN dead' : dead'[i] = dead'[j] => i = j
    BY <2>5, <2>9
  <2>13. DeadAreFree'
    BY <2>11, <2>12 DEF DeadAreFree
  <2>14. QED BY <2>6, <2>7, <2>13 DEF PoolInv
<1>5. QED BY <1>2, <1>3, <1>4

(* A chunk made by a look at its blocks has no renderer yet.               *)
LEMMA TouchKeepsInv ==
  ASSUME PoolInv, NEW p \in Pos, Touch(p)
  PROVE  PoolInv'
<1>1. CreateChunk(p) /\ UNCHANGED <<renderers, list, dead, pos, index, chunk>>
  BY DEF Touch
<1>2. chunks' \in [Pos -> 0..made'] /\ made' \in Nat
  BY <1>1, CreateChunkFacts
<1>3. \A q \in Pos : renderers[q] # None => chunks'[q] = chunks[q]
  BY <1>1, CreateChunkFacts DEF PoolInv, ShowsWorldChunk
<1>4. TypeOK'
  BY <1>1, <1>2 DEF PoolInv, TypeOK
<1>5. ListMatchesMap'
  BY <1>1 DEF PoolInv, ListMatchesMap
<1>6. DeadAreFree'
  BY <1>1 DEF PoolInv, DeadAreFree, Dead, Live
<1>7. ShowsWorldChunk'
  BY <1>1, <1>3 DEF PoolInv, ShowsWorldChunk
<1>8. QED BY <1>4, <1>5, <1>6, <1>7 DEF PoolInv

(* manageChunks drops a chunk: its renderer, if it has one, leaves the     *)
(* list by swapping and waits to be recycled.                              *)
LEMMA DropKeepsInv ==
  ASSUME PoolInv, NEW p \in Pos, Drop(p)
  PROVE  PoolInv'
<1> USE ConstantsAssumption
<1>1. /\ chunks' = [chunks EXCEPT ![p] = 0]
      /\ made' = made /\ pos' = pos /\ chunk' = chunk
  BY DEF Drop
<1>2. chunks' \in [Pos -> 0..made'] /\ made' \in Nat
  BY <1>1 DEF PoolInv, TypeOK
<1>3. \A q \in Pos : q # p => chunks'[q] = chunks[q]
  BY <1>1 DEF PoolInv, TypeOK
<1>4. CASE renderers[p] = None
  <2>1. UNCHANGED <<renderers, list, dead, index>>
    BY <1>4 DEF Drop, DeleteChunkRenderer
  <2>2. TypeOK'
    BY <1>1, <1>2, <2>1 DEF PoolInv, TypeOK
  <2>3. ListMatchesMap'
    BY <1>1, <2>1 DEF PoolInv, ListMatchesMap
  <2>4. DeadAreFree'
    BY <2>1 DEF PoolInv, DeadAreFree, Dead, Live
  <2>5. ShowsWorldChunk'
    BY <1>1, <1>3, <1>4, <2>1 DEF PoolInv, ShowsWorldChunk
  <2>6. QED BY <2>2, <2>3, <2>4, <2>5 DEF PoolInv
<1>5. CASE renderers[p] # None
  <2> DEFINE r == renderers[p]
             n == Len(list)
             k == index[r]
             last == list[n]
  <2>1. /\ list' = SubSeq([list EXCEPT ![k] = last], 1, n - 1)
        /\ index' = [index EXCEPT ![last] = k]
        /\ dead' = Append(dead, r)
        /\ renderers' = [renderers EXCEPT ![p] = None]
    BY <1>5 DEF Drop, DeleteChunkRenderer
  <2>2. /\ r \in Renderer /\ r # None
        /\ n \in Nat /\ DOMAIN list = 1..n
        /\ list \in Seq(Renderer) /\ dead \in Seq(Renderer)
    BY <1>5 DEF PoolInv, TypeOK
  <2>3. k \in 1..n /\ list[k] = r
    BY <1>5, <2>2 DEF PoolInv, ListMatchesMap
  <2>4. n \in 1..n /\ last \in Renderer
    BY <2>2, <2>3
  <2>5. /\ list' \in Seq(Renderer)
        /\ Len(list') = n - 1
        /\ \A j \in 1..(n - 1) : list'[j] = IF j = k THEN last ELSE list[j]
    BY <2>1, <2>2, <2>3, SwapRemoveFacts
  <2>6. DOMAIN list' = 1..(n - 1)
    BY <2>2, <2>4, <2>5
  <2>7. /\ index' \in [Renderer -> Nat]
        /\ index'[last] = k
        /\ \A x \in Renderer : x # last => index'[x] = index[x]
    BY <2>1, <2>2, <2>3, <2>4 DEF PoolInv, TypeOK
  <2>8. /\ renderers' \in [Pos -> Renderer \cup {None}]
        /\ renderers'[p] = None
        /\ \A q \in Pos : q # p => renderers'[q] = renderers[q]
    BY <2>1 DEF PoolInv, TypeOK
  <2>9. \A j \in 1..n : /\ list[j] \in Renderer
                        /\ index[list[j]] = j
                        /\ renderers[pos[list[j]]] = list[j]
                        /\ pos[list[j]] \in Pos
    <3>1. SUFFICES ASSUME NEW j \in 1..n
                   PROVE  /\ list[j] \in Renderer
                          /\ index[list[j]] = j
                          /\ renderers[pos[list[j]]] = list[j]
                          /\ pos[list[j]] \in Pos
      OBVIOUS
    <3>2. list[j] \in Renderer
      BY <2>2
    <3>3. QED BY <2>2, <3>2 DEF PoolInv, TypeOK, ListMatchesMap
  <2>10. pos[r] = p
    BY <1>5 DEF PoolInv, ShowsWorldChunk
  \* Every renderer that stays on screen keeps a place of the list.
  <2>11. \A q \in Pos : q # p /\ renderers[q] # None =>
           /\ renderers[q] \in Renderer
           /\ pos[renderers[q]] = q
           /\ renderers[q] # r
           /\ index[renderers[q]] \in 1..n
           /\ list[index[renderers[q]]] = renderers[q]
           /\ index[renderers[q]] # k
    <3>1. SUFFICES ASSUME NEW q \in Pos, q # p, renderers[q] # None
                   PROVE  /\ renderers[q] \in Renderer
                          /\ pos[renderers[q]] = q
                          /\ renderers[q] # r
                          /\ index[renderers[q]] \in 1..n
                          /\ list[index[renderers[q]]] = renderers[q]
                          /\ index[renderers[q]] # k
      OBVIOUS
    <3>2. renderers[q] \in Renderer
      BY <3>1 DEF PoolInv, TypeOK
    <3>3. pos[renderers[q]] = q
      BY <3>1 DEF PoolInv, ShowsWorldChunk
    <3>4. renderers[q] # r
      BY <2>10, <3>1, <3>3
    <3>5. index[renderers[q]] \in 1..n /\ list[index[renderers[q]]] = renderers[q]
      BY <2>2, <3>1 DEF PoolInv, ListMatchesMap
    <3>6. QED BY <2>3, <3>2, <3>3, <3>4, <3>5
  <2> HIDE DEF r, n, k, last
  <2>12. TypeOK'
    <3>1. dead' \in Seq(Renderer)
      BY <2>1, <2>2, AppendFacts
    <3>2. QED BY <1>1, <1>2, <2>5, <2>7, <2>8, <3>1 DEF PoolInv, TypeOK
  <2>13. ASSUME NEW j \in 1..(n - 1)
         PROVE  index'[list'[j]] = j /\ renderers'[pos'[list'[j]]] = list'[j]
    <3>1. j \in 1..n /\ j # n
      BY <2>2, <2>13
    <3>2. CASE j = k
      <4>1. list'[j] = last
        BY <2>5, <2>13, <3>2
      <4>2. last # r
        BY <2>3, <2>4, <2>9, <3>1, <3>2 DEF last
      <4>3. renderers[pos[last]] = last /\ pos[last] \in Pos
        BY <2>4, <2>9 DEF last
      <4>4. pos[last] # p
        BY <4>2, <4>3 DEF r
      <4>5. QED BY <1>1, <2>7, <2>8, <3>2, <4>1, <4>3, <4>4
    <3>3. CASE j # k
      <4>1. list'[j] = list[j]
        BY <2>5, <2>13, <3>3
      <4>2. list[j] # last
        BY <2>4, <2>9, <3>1 DEF last
      <4>3. index'[list[j]] = j
        BY <2>7, <2>9, <3>1, <4>2
      <4>4. list[j] # r
        BY <2>3, <2>9, <3>1, <3>3
      <4>5. pos[list[j]] # p
        BY <2>9, <3>1, <4>4 DEF r
      <4>6. QED BY <1>1, <2>8, <2>9, <3>1, <4>1, <4>3, <4>5
    <3>4. QED BY <3>2, <3>3
  <2>14. ASSUME NEW q \in Pos, renderers'[q] # None
         PROVE  index'[renderers'[q]] \in DOMAIN list' /\ list'[index'[renderers'[q]]] = renderers'[q]
    <3>1. q # p /\ renderers'[q] = renderers[q] /\ renderers[q] # None
      BY <2>8, <2>14
    <3>2. /\ renderers[q] \in Renderer
          /\ index[renderers[q]] \in 1..n
          /\ list[index[renderers[q]]] = renderers[q]
          /\ index[renderers[q]] # k
      BY <2>11, <3>1
    <3>3. CASE renderers[q] = last
      <4>1. index[renderers[q]] = n
        BY <2>4, <2>9, <3>3 DEF last
      <4>2. k \in 1..(n - 1)
        BY <2>2, <2>3, <3>2, <4>1
      <4>3. index'[renderers'[q]] = k
        BY <2>7, <3>1, <3>3
      <4>4. list'[k] = last
        BY <2>5, <4>2
      <4>5. QED BY <2>6, <3>1, <3>3, <4>2, <4>3, <4>4
    <3>4. CASE renderers[q] # last
      <4>1. index[renderers[q]] # n
        BY <3>2, <3>4 DEF last
      <4>2. index[renderers[q]] \in 1..(n - 1)
        BY <2>2, <3>2, <4>1
      <4>3. index'[renderers'[q]] = index[renderers[q]]
        BY <2>7, <3>1, <3>2, <3>4
      <4>4. list'[index[renderers[q]]] = list[index[renderers[q]]]
        BY <2>5, <3>2, <4>2
      <4>5. QED BY <2>6, <3>1, <3>2, <4>2, <4>3, <4>4
    <3>5. QED BY <3>3, <3>4
  <2>15. ListMatchesMap'
    BY <2>6, <2>13, <2>14 DEF ListMatchesMap
  <2>16. DeadAreFree'
    <3>1. /\ Len(dead) \in Nat
          /\ DOMAIN dead = 1..Len(dead)
          /\ DOMAIN dead' = 1..(Len(dead) + 1)
          /\ \A j \in 1..Len(dead) : dead'[j] = dead[j]
          /\ dead'[Len(dead) + 1] = r
      BY <2>1, <2>2, AppendFacts
    <3>2. \A j \in 1..Len(dead) : dead[j] \notin Live
      BY <3>1 DEF PoolInv, DeadAreFree, Dead
    <3>3. \A i, j \in 1..Len(dead) : dead[i] = dead[j] => i = j
      BY <3>1 DEF PoolInv, DeadAreFree
    <3>4. r \in Live
      BY <2>2 DEF Live, r
    <3>5. \A x \in Live' : x \in Live /\ x # r
      <4>1. SUFFICES ASSUME NEW x \in Live'
                     PROVE  x \in Live /\ x # r
        OBVIOUS
      <4>2. PICK q \in Pos : x = renderers'[q] /\ x # None
        BY <4>1 DEF Live
      <4>3. q # p /\ x = renderers[q]
        BY <2>8, <4>2
      <4>4. x # r
        BY <2>11, <4>2, <4>3
      <4>5. QED BY <4>2, <4>3, <4>4 DEF Live
    <3>6. \A j \in DOMAIN dead' : dead'[j] \notin Live'
      <4>1. SUFFICES ASSUME NEW j \in DOMAIN dead'
                     PROVE  dead'[j] \notin Live'
        OBVIOUS
      <4>2. j \in 1..Len(dead) \/ j = Len(dead) + 1
        BY <3>1, <4>1
      <4>3. QED BY <3>1, <3>2, <3>5, <4>2
    <3>7. ASSUME NEW i \in DOMAIN dead', NEW j \in DOMAIN dead', dead'[i] = dead'[j]
          PROVE  i = j
      <4>1. /\ i \in 1..Len(dead) \/ i = Len(dead) + 1
            /\ j \in 1..Len(dead) \/ j = Len(dead) + 1
        BY <3>1, <3>7
      <4>2. \A x \in 1..Len(dead) : dead'[x] # r
        BY <3>1, <3>2, <3>4
      <4>3. QED BY <3>1, <3>3, <3>7, <4>1, <4>2
    <3>8. Dead' \cap Live' = {}
      BY <3>6 DEF Dead
    <3>9. QED BY <3>7, <3>8 DEF DeadAreFree
  <2>17. ShowsWorldChunk'
    <3>1. ASSUME NEW q \in Pos, renderers'[q] # None
          PROVE  chunks'[q] # 0 /\ pos'[renderers'[q]] = q /\ chunk'[renderers'[q]] = chunks'[q]
      <4>1. q # p /\ renderers'[q] = renderers[q] /\ renderers[q] # None
        BY <2>8, <3>1
      <4>2. chunks[q] # 0 /\ pos[renderers[q]] = q /\ chunk[renderers[q]] = chunks[q]
        BY <4>1 DEF PoolInv, ShowsWorldChunk
      <4>3. QED BY <1>1, <1>3, <4>1, <4>2
    <3>2. QED BY <3>1 DEF ShowsWorldChunk
  <2>18. QED BY <2>12, <2>15, <2>16, <2>17 DEF PoolInv
<1>6. QED BY <1>4, <1>5

-----------------------------------------------------------------------------
(* The invariant holds in every state.                                     *)
LEMMA InitPoolInv == Init => PoolInv
<1>1. SUFFICES ASSUME Init PROVE PoolInv
  OBVIOUS
<1>2. /\ list = <<>> /\ dead = <<>> /\ made = 0
      /\ \A p \in Pos : renderers[p] = None
  BY <1>1 DEF Init
<1>3. TypeOK
  BY <1>1 DEF Init, TypeOK
<1>4. ListMatchesMap
  BY <1>2 DEF ListMatchesMap
<1>5. DeadAreFree
  BY <1>2 DEF DeadAreFree, Dead
<1>6. ShowsWorldChunk
  BY <1>2 DEF ShowsWorldChunk
<1>7. QED BY <1>3, <1>4, <1>5, <1>6 DEF PoolInv

\* One step per action: a look at a block, chunk data, a chunk dropped.
LEMMA NextPoolInv == PoolInv /\ [Next]_vars => PoolInv'
<1>1. SUFFICES ASSUME PoolInv, [Next]_vars PROVE PoolInv'
  OBVIOUS
<1>2. ASSUME NEW p \in Pos, Touch(p) PROVE PoolInv'
  BY <1>1, <1>2, TouchKeepsInv
<1>3. ASSUME NEW p \in Pos, Receive(p) PROVE PoolInv'
  <2>1. CreateChunk(p) /\ GetChunkRenderer(p)
    BY <1>3 DEF Receive
  <2>2. QED BY <1>1, <2>1, GetChunkRendererKeepsInv
<1>4. ASSUME NEW p \in Pos, Drop(p) PROVE PoolInv'
  BY <1>1, <1>4, DropKeepsInv
<1>5. CASE UNCHANGED vars
  <2>1. TypeOK'
    BY <1>1, <1>5 DEF vars, PoolInv, TypeOK
  <2>2. ListMatchesMap'
    BY <1>1, <1>5 DEF vars, PoolInv, ListMatchesMap
  <2>3. DeadAreFree'
    BY <1>1, <1>5 DEF vars, PoolInv, DeadAreFree, Dead, Live
  <2>4. ShowsWorldChunk'
    BY <1>1, <1>5 DEF vars, PoolInv, ShowsWorldChunk
  <2>5. QED BY <2>1, <2>2, <2>3, <2>4 DEF PoolInv
<1>6. QED BY <1>1, <1>2, <1>3, <1>4, <1>5 DEF Next

(* The four invariants together, whatever the chunks received and dropped. *)
THEOREM PoolConsistent == Spec => []PoolInv
<1>1. QED BY InitPoolInv, NextPoolInv, PTL DEF Spec

(* The state of the renderer pool keeps its shape.                         *)
THEOREM PoolTypeCorrect == Spec => []TypeOK
<1>1. PoolInv => TypeOK
  BY DEF PoolInv
<1>2. QED BY <1>1, PoolConsistent, PTL

(* rendererList and chunkRenderers hold the same renderers, each once and  *)
(* at its own index, for any number of chunks and in any order of removal. *)
THEOREM ListAlwaysMatchesMap == Spec => []ListMatchesMap
<1>1. PoolInv => ListMatchesMap
  BY DEF PoolInv
<1>2. QED BY <1>1, PoolConsistent, PTL

(* deadRenderers never holds a renderer that is on screen, or one twice.   *)
THEOREM DeadAlwaysFree == Spec => []DeadAreFree
<1>1. PoolInv => DeadAreFree
  BY DEF PoolInv
<1>2. QED BY <1>1, PoolConsistent, PTL

(* What is drawn at a position is the chunk the world has there, and no    *)
(* renderer outlives its chunk's place in the world.                       *)
THEOREM AlwaysShowsWorldChunk == Spec => []ShowsWorldChunk
<1>1. PoolInv => ShowsWorldChunk
  BY DEF PoolInv
<1>2. QED BY <1>1, PoolConsistent, PTL
=============================================================================
