--------------------------- MODULE LightingProofs ---------------------------
(***************************************************************************)
(* Proofs about Lighting, for a world of any width and height, any kinds   *)
(* of block and any number of edits.                                       *)
(*                                                                         *)
(* That no light is missing is a statement about searches that have ended. *)
(* While one runs, a cell may be darker than its neighbour makes it, but   *)
(* then something is still to be done about it: SpreadInv says that the    *)
(* neighbour is in the queue of the spreading, or the cell in the queue of *)
(* the removal, which will enqueue the neighbour.  It holds for torch      *)
(* light in every world.  For the sun it holds from the end of the         *)
(* generation on; that the generation, which never looks sideways,         *)
(* ends in such a world, is proved for terrain of columns (Columns).       *)
(*                                                                         *)
(* That the searches stay inside the world needs a floor (Floor):          *)
(* above and below the world everything reads as lit.                      *)
(*                                                                         *)
(* That no light is left without a source is harder: a removal puts out    *)
(* what lies below whatever gives it light, so between two steps a lit     *)
(* cell may be without a source.  Supported says of a half of the light    *)
(* what each cell has or is to get back (W), that this has a source, and   *)
(* that light without one is awaited by a node of the removal.  It is kept *)
(* as long as no removal puts out a light before the removal of its source *)
(* has come (overtaken).  Torch light is taken away in the order of its    *)
(* levels (Falling) and cannot be overtaken; what has to be kept from its  *)
(* removals are the emitters (Guarded).                                    *)
(***************************************************************************)
EXTENDS Lighting, SequenceTheorems, WellFoundedInduction, TLAPS

-----------------------------------------------------------------------------
(* Nodes and their queues.                                                 *)

Node  == Int \X Int
Mark  == Node \X {l \in Int : l <= MaxLight}     \* nodes of a removal

Queued(q) == {q[i] : i \in DOMAIN q}

(* The neighbours of a node are nodes, and none is the node itself.        *)
LEMMA NeighborNodes ==
  ASSUME NEW c \in Node
  PROVE  /\ Left(c) \in Node /\ Right(c) \in Node /\ Below(c) \in Node /\ Above(c) \in Node
         /\ Neighbors(c) \subseteq Node
         /\ c \notin Neighbors(c)
<1>1. c = <<c[1], c[2]>> /\ c[1] \in Int /\ c[2] \in Int
  BY DEF Node
<1>2. /\ Left(c) \in Node /\ Right(c) \in Node /\ Below(c) \in Node /\ Above(c) \in Node
  BY <1>1 DEF Node, Left, Right, Below, Above
<1>3. c # Left(c) /\ c # Right(c) /\ c # Below(c) /\ c # Above(c)
  BY <1>1 DEF Left, Right, Below, Above
<1> QED
  BY <1>2, <1>3 DEF Neighbors

(* Being next to each other goes both ways.                                *)
LEMMA NeighborsBothWays ==
  ASSUME NEW c \in Node, NEW n \in Node
  PROVE  /\ n \in Neighbors(c) <=> c \in Neighbors(n)
         /\ n = Above(c) <=> c = Below(n)
         /\ n = Below(c) <=> c = Above(n)
<1>1. c = <<c[1], c[2]>> /\ c[1] \in Int /\ c[2] \in Int
  BY DEF Node
<1>2. n = <<n[1], n[2]>> /\ n[1] \in Int /\ n[2] \in Int
  BY DEF Node
<1>3. n = Left(c) <=> c = Right(n)
  BY <1>1, <1>2 DEF Left, Right
<1>4. n = Right(c) <=> c = Left(n)
  BY <1>1, <1>2 DEF Left, Right
<1>5. n = Above(c) <=> c = Below(n)
  BY <1>1, <1>2 DEF Above, Below
<1>6. n = Below(c) <=> c = Above(n)
  BY <1>1, <1>2 DEF Above, Below
<1> QED
  BY <1>3, <1>4, <1>5, <1>6 DEF Neighbors

(* Cells are nodes.                                                        *)
LEMMA CellNodes ==
  Cell \subseteq Node
BY LightAssumption DEF Cell, Node

(* What is in two queues in a row, and what is left of one.                *)
LEMMA QueuedConcat ==
  ASSUME NEW S, NEW s \in Seq(S), NEW t \in Seq(S)
  PROVE  /\ s \o t \in Seq(S)
         /\ Queued(s \o t) = Queued(s) \cup Queued(t)
<1>1. s \o t \in Seq(S) /\ Len(s \o t) = Len(s) + Len(t)
  OBVIOUS
<1>2. ASSUME NEW x \in Queued(s \o t) PROVE x \in Queued(s) \cup Queued(t)
  <2>1. PICK i \in 1..(Len(s) + Len(t)) : x = (s \o t)[i]
    BY <1>1, <1>2 DEF Queued
  <2>2. CASE i <= Len(s)
    BY <2>1, <2>2 DEF Queued
  <2>3. CASE i > Len(s)
    <3>1. i - Len(s) \in 1..Len(t) /\ x = t[i - Len(s)]
      BY <2>1, <2>3
    <3> QED
      BY <3>1 DEF Queued
  <2> QED
    BY <2>2, <2>3
<1>3. ASSUME NEW x \in Queued(s) PROVE x \in Queued(s \o t)
  <2>1. PICK i \in 1..Len(s) : x = s[i]
    BY <1>3 DEF Queued
  <2>2. i \in 1..Len(s \o t) /\ (s \o t)[i] = x
    BY <1>1, <2>1
  <2> QED
    BY <1>1, <2>2 DEF Queued
<1>4. ASSUME NEW x \in Queued(t) PROVE x \in Queued(s \o t)
  <2>1. PICK i \in 1..Len(t) : x = t[i]
    BY <1>4 DEF Queued
  <2>2. i + Len(s) \in 1..Len(s \o t) /\ (s \o t)[i + Len(s)] = x
    BY <1>1, <2>1
  <2> QED
    BY <1>1, <2>2 DEF Queued
<1> QED
  BY <1>1, <1>2, <1>3, <1>4

LEMMA QueuedHeadTail ==
  ASSUME NEW S, NEW q \in Seq(S), q # <<>>
  PROVE  /\ Head(q) \in S
         /\ Tail(q) \in Seq(S)
         /\ Queued(q) = {Head(q)} \cup Queued(Tail(q))
<1>1. /\ Head(q) \in S /\ Tail(q) \in Seq(S)
      /\ Len(q) \in Nat /\ Len(q) >= 1 /\ Head(q) = q[1] /\ Len(Tail(q)) = Len(q) - 1
      /\ \A i \in 1..(Len(q) - 1) : Tail(q)[i] = q[i + 1]
  BY HeadTailProperties, EmptySeq
<1>2. ASSUME NEW x \in Queued(q) PROVE x \in {Head(q)} \cup Queued(Tail(q))
  <2>1. PICK i \in 1..Len(q) : x = q[i]
    BY <1>2 DEF Queued
  <2>2. CASE i = 1
    BY <1>1, <2>1, <2>2
  <2>3. CASE i # 1
    <3>1. i - 1 \in DOMAIN Tail(q) /\ x = Tail(q)[i - 1]
      BY <1>1, <2>1, <2>3
    <3> QED
      BY <3>1 DEF Queued
  <2> QED
    BY <2>2, <2>3
<1>3. Head(q) \in Queued(q)
  BY <1>1 DEF Queued
<1>4. ASSUME NEW x \in Queued(Tail(q)) PROVE x \in Queued(q)
  <2>1. PICK i \in 1..(Len(q) - 1) : x = Tail(q)[i]
    BY <1>1, <1>4 DEF Queued
  <2>2. i + 1 \in 1..Len(q) /\ x = q[i + 1]
    BY <1>1, <2>1
  <2> QED
    BY <2>2 DEF Queued
<1> QED
  BY <1>1, <1>2, <1>3, <1>4

(* What a step enqueues is what it enqueues for each neighbour.            *)
LEMMA QueuedInOrder ==
  ASSUME NEW S, NEW c \in Node, NEW f \in [Neighbors(c) -> Seq(S)]
  PROVE  /\ InOrder(c, f) \in Seq(S)
         /\ Queued(InOrder(c, f)) = UNION {Queued(f[n]) : n \in Neighbors(c)}
<1> DEFINE l == f[Left(c)]
           r == f[Right(c)]
           b == f[Below(c)]
           a == f[Above(c)]
<1>1. l \in Seq(S) /\ r \in Seq(S) /\ b \in Seq(S) /\ a \in Seq(S)
  BY DEF Neighbors
<1>2. UNION {Queued(f[n]) : n \in Neighbors(c)}
        = Queued(l) \cup Queued(r) \cup Queued(b) \cup Queued(a)
  BY DEF Neighbors
<1> DEFINE lr  == l \o r
           lrb == lr \o b
<1>3. InOrder(c, f) = lrb \o a
  BY DEF InOrder
<1> HIDE DEF l, r, b, a
<1>4. lr \in Seq(S) /\ Queued(lr) = Queued(l) \cup Queued(r)
  BY <1>1, QueuedConcat
<1> HIDE DEF lr
<1>5. lrb \in Seq(S) /\ Queued(lrb) = Queued(lr) \cup Queued(b)
  BY <1>1, <1>4, QueuedConcat
<1> HIDE DEF lrb
<1>6. lrb \o a \in Seq(S) /\ Queued(lrb \o a) = Queued(lrb) \cup Queued(a)
  BY <1>1, <1>5, QueuedConcat
<1> QED
  BY <1>2, <1>3, <1>4, <1>5, <1>6

(* What is enqueued for the neighbours in R, by a spreading search and by  *)
(* a removal.                                                              *)
Picked(c, R) == InOrder(c, [n \in Neighbors(c) |-> IF n \in R THEN <<n>> ELSE <<>>])

Marked(ch, c, level, R) ==
  InOrder(c, [n \in Neighbors(c) |-> IF n \in R THEN Followers(ch, c, level, n) ELSE <<>>])

(* A node enqueued for each neighbour in R, and no other.                  *)
LEMMA QueuedPicked ==
  ASSUME NEW c \in Node, NEW R, R \subseteq Neighbors(c)
  PROVE  Picked(c, R) \in Seq(Node) /\ Queued(Picked(c, R)) = R
<1> DEFINE f == [n \in Neighbors(c) |-> IF n \in R THEN <<n>> ELSE <<>>]
<1>1. \A n \in Neighbors(c) : n \in Node
  BY NeighborNodes
<1>2. ASSUME NEW n \in Neighbors(c) PROVE (IF n \in R THEN <<n>> ELSE <<>>) \in Seq(Node)
  <2>1. n \in Node
    BY <1>1
  <2> QED
    BY <2>1
<1>3. f \in [Neighbors(c) -> Seq(Node)]
  BY <1>2
<1>4. \A n \in Neighbors(c) : Queued(f[n]) = IF n \in R THEN {n} ELSE {}
  BY DEF Queued
<1> HIDE DEF f
<1>5. InOrder(c, f) \in Seq(Node) /\ Queued(InOrder(c, f)) = UNION {Queued(f[n]) : n \in Neighbors(c)}
  BY <1>3, QueuedInOrder
<1>6. UNION {Queued(f[n]) : n \in Neighbors(c)} = R
  BY <1>4
<1>7. InOrder(c, f) \in Seq(Node) /\ Queued(InOrder(c, f)) = R
  BY <1>5, <1>6
<1> QED
  BY <1>7 DEF f, Picked

(* q holds marks of all nodes in R and of no other.                        *)
Marks(q, R) ==
  /\ q \in Seq(Mark)
  /\ \A e \in Queued(q) : e[1] \in R
  /\ \A n \in R : \E e \in Queued(q) : e[1] = n

(* What a removal enqueues: marks of all neighbours in R, and no other.    *)
LEMMA QueuedFollowers ==
  ASSUME NEW ch \in Channel, NEW c \in Node, NEW R, R \subseteq Neighbors(c),
         NEW level \in Int, level <= MaxLight
  PROVE  Marks(Marked(ch, c, level, R), R)
<1> DEFINE f == [n \in Neighbors(c) |-> IF n \in R THEN Followers(ch, c, level, n) ELSE <<>>]
<1>1. MaxLight \in Nat
  BY LightAssumption
<1>2. ASSUME NEW n \in Neighbors(c)
      PROVE  /\ Followers(ch, c, level, n) \in Seq(Mark)
             /\ \A e \in Queued(Followers(ch, c, level, n)) : e[1] = n
             /\ Queued(Followers(ch, c, level, n)) # {}
  <2> DEFINE e1 == <<n, level>>
             e2 == <<n, IF IsLiquid(n) THEN level - 1 ELSE level>>
             e3 == <<n, level - 1>>
  <2>1. n \in Node
    BY NeighborNodes
  <2>2. e1 \in Mark /\ e2 \in Mark /\ e3 \in Mark /\ e1[1] = n /\ e2[1] = n /\ e3[1] = n
    BY <1>1, <2>1 DEF Mark
  <2>3. \/ Followers(ch, c, level, n) = <<e1, e2>>
        \/ Followers(ch, c, level, n) = <<e3>>
    BY DEF Followers
  <2> HIDE DEF e1, e2, e3
  <2>4. /\ <<e1, e2>> \in Seq(Mark) /\ <<e3>> \in Seq(Mark)
        /\ Queued(<<e1, e2>>) = {e1, e2} /\ Queued(<<e3>>) = {e3}
    <3>1. <<e1, e2>> \in Seq(Mark) /\ Len(<<e1, e2>>) = 2 /\ <<e3>> \in Seq(Mark) /\ Len(<<e3>>) = 1
      BY <2>2
    <3>2. DOMAIN <<e1, e2>> = {1, 2} /\ DOMAIN <<e3>> = {1}
      BY <3>1
    <3> QED
      BY <3>1, <3>2 DEF Queued
  <2> QED
    BY <2>2, <2>3, <2>4
<1>3. f \in [Neighbors(c) -> Seq(Mark)]
  <2>1. \A n \in Neighbors(c) : (IF n \in R THEN Followers(ch, c, level, n) ELSE <<>>) \in Seq(Mark)
    BY <1>2
  <2> QED
    BY <2>1
<1>4. \A n \in Neighbors(c) : f[n] = IF n \in R THEN Followers(ch, c, level, n) ELSE <<>>
  OBVIOUS
<1>5. Queued(<<>>) = {}
  BY DEF Queued
<1> HIDE DEF f
<1>6. InOrder(c, f) \in Seq(Mark) /\ Queued(InOrder(c, f)) = UNION {Queued(f[n]) : n \in Neighbors(c)}
  BY <1>3, QueuedInOrder
<1>7. \A e \in Queued(InOrder(c, f)) : e[1] \in R
  <2> SUFFICES ASSUME NEW e \in Queued(InOrder(c, f)) PROVE e[1] \in R
    OBVIOUS
  <2>1. PICK n \in Neighbors(c) : e \in Queued(f[n])
    BY <1>6
  <2>2. n \in R
    BY <1>4, <1>5, <2>1
  <2> QED
    BY <1>2, <1>4, <2>1, <2>2
<1>8. \A n \in R : \E e \in Queued(InOrder(c, f)) : e[1] = n
  <2> SUFFICES ASSUME NEW n \in R PROVE \E e \in Queued(InOrder(c, f)) : e[1] = n
    OBVIOUS
  <2>1. n \in Neighbors(c) /\ f[n] = Followers(ch, c, level, n)
    BY <1>4
  <2>2. PICK e \in Queued(f[n]) : e[1] = n
    BY <1>2, <2>1
  <2> QED
    BY <1>6, <2>1, <2>2
<1>9. /\ InOrder(c, f) \in Seq(Mark)
      /\ \A e \in Queued(InOrder(c, f)) : e[1] \in R
      /\ \A n \in R : \E e \in Queued(InOrder(c, f)) : e[1] = n
  BY <1>6, <1>7, <1>8
<1> QED
  BY <1>9 DEF f, Marked, Marks

-----------------------------------------------------------------------------
(* The shape of the state.                                                 *)

(* Without the bounds of the queues that TypeOK gives.                     *)
Shape ==
  /\ blocks \in [Cell -> Block]
  /\ light \in [Channel -> [Cell -> Level]]
  /\ removal \in [Channel -> Seq(Mark)]
  /\ spread \in [Channel -> Seq(Node)]
  /\ generating \in BOOLEAN /\ shadowed \in BOOLEAN /\ overtaken \in BOOLEAN
  /\ edits \in 0..MaxEdits

(* Light is read as a level wherever it is read.                           *)
LEMMA LightAtLevel ==
  ASSUME Shape, NEW ch \in Channel, NEW n
  PROVE  LightAt(ch, n) \in Level /\ LightAt(ch, n) \in Nat /\ LightAt(ch, n) <= MaxLight
<1>1. MaxLight \in Nat
  BY LightAssumption
<1>2. LightAt(ch, n) \in Level
  BY <1>1 DEF LightAt, Shape, Level
<1> QED
  BY <1>1, <1>2 DEF Level

(* Only cells are raised, from what is next to them, and get a level.      *)
LEMMA RaisedCell ==
  ASSUME Shape, NEW ch \in Channel, NEW c \in Node, NEW n \in Neighbors(c), Raised(ch, c, n)
  PROVE  /\ n \in Cell /\ blocks[n] \notin Solid
         /\ Passed(ch, c, n) \in Level
         /\ Passed(ch, c, n) >= LightAt(ch, n)
<1>1. MaxLight \in Nat /\ Width \in Nat /\ Height \in Nat
  BY LightAssumption
<1>2. /\ LightAt(ch, c) \in Nat /\ LightAt(ch, c) <= MaxLight
      /\ LightAt(ch, n) \in Nat /\ LightAt(ch, n) <= MaxLight
  BY LightAtLevel
<1>3. ~IsSolid(n) /\ LightAt(ch, n) + 1 <= LightAt(ch, c)
  BY <1>2 DEF Raised
<1>4. n \in Cell
  <2> SUFFICES ASSUME n \notin Cell PROVE FALSE
    OBVIOUS
  <2>1. n \in Node
    BY NeighborNodes
  <2>2. ~InHeight(n)
    BY <1>1, <1>3, <2>1 DEF IsSolid, InHeight, Node
  <2>3. LightAt(ch, n) = MaxLight
    BY <2>2 DEF LightAt
  <2> QED
    BY <1>1, <1>2, <1>3, <2>3
<1>5. blocks[n] \notin Solid
  BY <1>3, <1>4 DEF IsSolid
<1>6. Passed(ch, c, n) \in {LightAt(ch, c), LightAt(ch, c) - 1}
  BY DEF Passed
<1>7. Passed(ch, c, n) \in Level /\ Passed(ch, c, n) >= LightAt(ch, n)
  BY <1>1, <1>2, <1>3, <1>6 DEF Level
<1> QED
  BY <1>4, <1>5, <1>7

(* No step breaks the shapes: levels stay levels, queues hold nodes.       *)
LEMMA SpreadToShape ==
  ASSUME Shape, NEW ch \in Channel, spread[ch] # <<>>,
         NEW ns, ns \subseteq Neighbors(Head(spread[ch])),
         SpreadTo(ch, ns), generating' \in BOOLEAN
  PROVE  Shape'
<1> DEFINE c      == Head(spread[ch])
           raised == {n \in ns : Raised(ch, c, n)}
           q      == Picked(c, raised)
<1>1. spread[ch] \in Seq(Node)
  BY DEF Shape
<1>2. c \in Node /\ Tail(spread[ch]) \in Seq(Node)
  BY <1>1, QueuedHeadTail
<1>3. q \in Seq(Node)
  BY <1>2, QueuedPicked
<1>4. /\ light' = [light EXCEPT ![ch] = [d \in Cell |-> IF d \in raised THEN Passed(ch, c, d)
                                                        ELSE light[ch][d]]]
      /\ spread' = [spread EXCEPT ![ch] = Tail(spread[ch]) \o q]
      /\ UNCHANGED <<blocks, removal, edits, shadowed, overtaken>>
  BY DEF SpreadTo, Shape, Picked
<1> HIDE DEF q
<1>5. Tail(spread[ch]) \o q \in Seq(Node)
  BY <1>2, <1>3, QueuedConcat
<1>6. spread' \in [Channel -> Seq(Node)]
  BY <1>4, <1>5 DEF Shape
<1>7. \A d \in raised : Passed(ch, c, d) \in Level
  BY <1>2, RaisedCell
<1> HIDE DEF raised, c
<1>8. [d \in Cell |-> IF d \in raised THEN Passed(ch, c, d) ELSE light[ch][d]] \in [Cell -> Level]
  BY <1>7 DEF Shape
<1>9. light' \in [Channel -> [Cell -> Level]]
  BY <1>4, <1>8 DEF Shape
<1> QED
  BY <1>4, <1>6, <1>9 DEF Shape

(* The node a removal takes.                                               *)
LEMMA HeadMark ==
  ASSUME Shape, NEW ch \in Channel, removal[ch] # <<>>
  PROVE  /\ Head(removal[ch])[1] \in Node
         /\ Head(removal[ch])[2] \in Int /\ Head(removal[ch])[2] <= MaxLight
         /\ Tail(removal[ch]) \in Seq(Mark)
<1>1. removal[ch] \in Seq(Mark)
  BY DEF Shape
<1>2. Head(removal[ch]) \in Mark /\ Tail(removal[ch]) \in Seq(Mark)
  BY <1>1, QueuedHeadTail
<1> QED
  BY <1>2 DEF Mark

LEMMA UnPropagateShape ==
  ASSUME Shape, NEW ch \in Channel, UnPropagate(ch)
  PROVE  Shape'
<1> DEFINE c     == Head(removal[ch])[1]
           level == Head(removal[ch])[2]
           dark  == {n \in Neighbors(c) : Darkened(ch, c, level, n)}
           kept  == {n \in Neighbors(c) : ~Darkened(ch, c, level, n) /\ LightAt(ch, n) >= level}
           follow == Marked(ch, c, level, dark)
           again == Picked(c, kept)
<1>1. removal[ch] # <<>>
  BY DEF UnPropagate
<1>2. /\ c \in Node /\ level \in Int /\ level <= MaxLight
      /\ Tail(removal[ch]) \in Seq(Mark)
  BY <1>1, HeadMark
<1>3. follow \in Seq(Mark)
  <2>1. dark \subseteq Neighbors(c)
    OBVIOUS
  <2> HIDE DEF dark, c, level
  <2>2. Marks(follow, dark)
    BY <1>2, <2>1, QueuedFollowers
  <2> QED
    BY <2>2 DEF Marks
<1>4. again \in Seq(Node)
  BY <1>2, QueuedPicked
<1>5. /\ light' = [light EXCEPT ![ch] = [d \in Cell |-> IF d \in dark THEN 0 ELSE light[ch][d]]]
      /\ removal' = [removal EXCEPT ![ch] = Tail(removal[ch]) \o follow]
      /\ spread' = [spread EXCEPT ![ch] = spread[ch] \o again]
      /\ UNCHANGED <<blocks, generating, edits, shadowed>>
      /\ overtaken' \in BOOLEAN
  BY DEF UnPropagate, Shape, Picked, Marked
<1> HIDE DEF follow, again
<1>6. Tail(removal[ch]) \o follow \in Seq(Mark)
  BY <1>2, <1>3, QueuedConcat
<1>7. removal' \in [Channel -> Seq(Mark)]
  BY <1>5, <1>6 DEF Shape
<1>8. spread[ch] \in Seq(Node)
  BY DEF Shape
<1>9. spread[ch] \o again \in Seq(Node)
  BY <1>4, <1>8, QueuedConcat
<1>10. spread' \in [Channel -> Seq(Node)]
  BY <1>5, <1>9 DEF Shape
<1> HIDE DEF dark, kept, c, level
<1>11. 0 \in Level
  BY LightAssumption DEF Level
<1>12. [d \in Cell |-> IF d \in dark THEN 0 ELSE light[ch][d]] \in [Cell -> Level]
  BY <1>11 DEF Shape
<1>13. light' \in [Channel -> [Cell -> Level]]
  BY <1>5, <1>12 DEF Shape
<1> QED
  BY <1>5, <1>7, <1>10, <1>13 DEF Shape

(* setBlock enqueues nodes around the cell, its neighbours among them.     *)
LEMMA AroundNodes ==
  ASSUME NEW c \in Node
  PROVE  /\ Around(c) \in Seq(Node)
         /\ Neighbors(c) \subseteq Queued(Around(c))
         /\ \A n \in Queued(Around(c)) : n[1] \in (c[1] - 1)..(c[1] + 1) /\ n[2] \in (c[2] - 1)..(c[2] + 1)
<1>1. c[1] \in Int /\ c[2] \in Int
  BY DEF Node
<1>2. \A i \in 1..9 : (i - 1) \div 3 \in 0..2 /\ (i - 1) % 3 \in 0..2
  OBVIOUS
<1>3. \A i \in 1..9 : <<c[1] - 1 + ((i - 1) \div 3), c[2] - 1 + ((i - 1) % 3)>> \in Node
  BY <1>1, <1>2 DEF Node
<1>4. Around(c) \in [1..9 -> Node]
  BY <1>3 DEF Around
<1>5. Around(c) \in Seq(Node)
  BY <1>4, SeqDef
<1>6. DOMAIN Around(c) = 1..9
  BY <1>4
<1>7. /\ Around(c)[2] = Left(c) /\ Around(c)[8] = Right(c)
      /\ Around(c)[4] = Below(c) /\ Around(c)[6] = Above(c)
  <2>1. Around(c)[2] = <<c[1] - 1 + 0, c[2] - 1 + 1>>
    BY DEF Around
  <2>2. Around(c)[8] = <<c[1] - 1 + 2, c[2] - 1 + 1>>
    BY DEF Around
  <2>3. Around(c)[4] = <<c[1] - 1 + 1, c[2] - 1 + 0>>
    BY DEF Around
  <2>4. Around(c)[6] = <<c[1] - 1 + 1, c[2] - 1 + 2>>
    BY DEF Around
  <2> QED
    BY <1>1, <2>1, <2>2, <2>3, <2>4 DEF Left, Right, Below, Above
<1>8. Neighbors(c) \subseteq Queued(Around(c))
  BY <1>6, <1>7 DEF Neighbors, Queued
<1>9. \A i \in 1..9 : /\ Around(c)[i][1] \in (c[1] - 1)..(c[1] + 1)
                      /\ Around(c)[i][2] \in (c[2] - 1)..(c[2] + 1)
  BY <1>1, <1>2 DEF Around
<1> QED
  BY <1>5, <1>6, <1>8, <1>9 DEF Queued

(* A queue of one node.                                                    *)
LEMMA OneQueued ==
  ASSUME NEW S, NEW x \in S
  PROVE  <<x>> \in Seq(S) /\ Queued(<<x>>) = {x}
BY DEF Queued

LEMMA EditShape ==
  ASSUME Shape, NEW c \in Editable, NEW b \in Block, Open(c, b) \/ Fill(c, b)
  PROVE  Shape'
<1>1. c \in Cell /\ c \in Node /\ MaxLight \in Nat /\ MaxEdits \in Nat
  BY LightAssumption, CellNodes
<1>2. Editing(c, b)
  BY DEF Open, Fill
<1>3. /\ edits' \in 0..MaxEdits /\ generating' \in BOOLEAN
      /\ blocks' \in [Cell -> Block]
  BY <1>1, <1>2 DEF Editing, Shape
<1>4. \A g \in Cell : (blocks[g] \in Emitter /\ g[2] < c[2]) \in BOOLEAN
  OBVIOUS
<1>5. shadowed' \in BOOLEAN /\ overtaken' \in BOOLEAN
  BY <1>2 DEF Open, Fill, Shadows, Editing, Shape
<1>6. \A l \in Level : <<<<c, l>>>> \in Seq(Mark)
  <2>1. \A l \in Level : <<c, l>> \in Mark
    BY <1>1 DEF Level, Mark
  <2> QED
    BY <2>1, OneQueued
<1>7. MaxLight \in Level /\ 0 \in Level
  BY <1>1 DEF Level
<1>8. light["torch"][c] \in Level
  BY <1>1 DEF Shape, Channel
<1>9. removal' \in [Channel -> Seq(Mark)]
  BY <1>6, <1>7, <1>8 DEF Open, Fill, Shape
<1>10. Around(c) \in Seq(Node) /\ <<c>> \in Seq(Node)
  BY <1>1, AroundNodes, OneQueued
<1>11. spread' \in [Channel -> Seq(Node)]
  BY <1>10 DEF Open, Fill, Shape
<1>12. light' \in [Channel -> [Cell -> Level]]
  <2>1. light \in [Channel -> [Cell -> Level]]
    BY DEF Shape
  <2>2. CASE light' = light
    BY <2>1, <2>2
  <2>3. CASE light' = [light EXCEPT !["torch"][c] = 0]
    BY <1>7, <2>1, <2>3
  <2>4. CASE light' = [light EXCEPT !["sun"][c] = 0, !["torch"][c] = MaxLight]
    BY <1>7, <2>1, <2>4 DEF Channel
  <2>5. CASE light' = [light EXCEPT !["sun"][c] = 0, !["torch"][c] = 0]
    BY <1>7, <2>1, <2>5 DEF Channel
  <2> QED
    BY <2>2, <2>3, <2>4, <2>5 DEF Open, Fill
<1> QED
  BY <1>3, <1>5, <1>9, <1>11, <1>12 DEF Shape

LEMMA ShapeInit ==
  Init => Shape
<1> SUFFICES ASSUME Init PROVE Shape
  OBVIOUS
<1>1. Width \in Nat /\ Height \in Nat /\ MaxLight \in Nat /\ MaxEdits \in Nat /\ 0 \in Level
  BY LightAssumption DEF Level
<1>2. blocks \in [Cell -> Block]
  BY LightAssumption DEF Init
<1>3. light \in [Channel -> [Cell -> Level]]
  BY <1>1 DEF Init
<1>4. removal \in [Channel -> Seq(Mark)]
  BY DEF Init
<1>5. [i \in 1..Width |-> <<i - 1, Height>>] \in [1..Width -> Node]
  BY <1>1 DEF Node
<1>6. [i \in 1..Width |-> <<i - 1, Height>>] \in Seq(Node)
  BY <1>1, <1>5, SeqDef
<1>7. spread \in [Channel -> Seq(Node)]
  <2> DEFINE row == [i \in 1..Width |-> <<i - 1, Height>>]
  <2>1. row \in Seq(Node) /\ <<>> \in Seq(Node)
    BY <1>6
  <2>2. spread = [ch \in Channel |-> IF ch = "sun" THEN row ELSE <<>>]
    BY DEF Init
  <2> HIDE DEF row
  <2> QED
    BY <2>1, <2>2
<1>8. /\ generating \in BOOLEAN /\ shadowed \in BOOLEAN /\ overtaken \in BOOLEAN
      /\ edits \in 0..MaxEdits
  <2>1. generating = TRUE /\ shadowed = FALSE /\ overtaken = FALSE /\ edits = 0
    BY DEF Init
  <2>2. generating \in BOOLEAN /\ shadowed \in BOOLEAN /\ overtaken \in BOOLEAN
    BY <2>1, Zenon
  <2> QED
    BY <1>1, <2>1, <2>2
<1> QED
  BY <1>2, <1>3, <1>4, <1>7, <1>8 DEF Shape

LEMMA ShapeStep ==
  Shape /\ [Next]_vars => Shape'
<1> SUFFICES ASSUME Shape, [Next]_vars PROVE Shape'
  OBVIOUS
<1>1. CASE Generate
  <2>1. spread["sun"] # <<>> /\ "sun" \in Channel /\ generating' \in BOOLEAN
    BY <1>1 DEF Generate, Shape, Channel
  <2>2. {Below(Head(spread["sun"])), Above(Head(spread["sun"]))} \subseteq Neighbors(Head(spread["sun"]))
    BY DEF Neighbors
  <2> QED
    BY <1>1, <2>1, <2>2, SpreadToShape DEF Generate
<1>2. CASE Generated
  BY <1>2 DEF Generated, Shape
<1>3. ASSUME NEW ch \in Channel, Propagate(ch) PROVE Shape'
  BY <1>3, SpreadToShape DEF Propagate, Shape
<1>4. ASSUME NEW ch \in Channel, UnPropagate(ch) PROVE Shape'
  BY <1>4, UnPropagateShape
<1>5. ASSUME NEW c \in Editable, NEW b \in Block, Open(c, b) \/ Fill(c, b) PROVE Shape'
  BY <1>5, EditShape
<1>6. CASE UNCHANGED vars
  BY <1>6 DEF Shape, vars
<1> QED
  BY <1>1, <1>2, <1>3, <1>4, <1>5, <1>6 DEF Next, Search

-----------------------------------------------------------------------------
(* No open cell is darker than its neighbours make it, unless a search is  *)
(* still to come by.                                                       *)

(* Where light comes to c from: the sun also from the sky.                 *)
Givers(ch, c) == (Neighbors(c) \cap Cell) \cup (IF ch = "sun" THEN {Above(c)} ELSE {})

(* c has what n gives it, or n is still to spread, or c was darkened and   *)
(* is still to look for light around it.                                   *)
Served(ch, n, c) ==
  \/ LightAt(ch, c) >= Passed(ch, n, c)
  \/ n \in Queued(spread[ch])
  \/ \E e \in Queued(removal[ch]) : e[1] = c

SpreadInv(ch) ==
  \A c \in Cell : blocks[c] \notin Solid => \A n \in Givers(ch, c) : Served(ch, n, c)

(* Light comes from the neighbours, from outside only the sun from above.  *)
LEMMA GiversAreNeighbors ==
  ASSUME NEW ch \in Channel, NEW c \in Cell, NEW n \in Givers(ch, c)
  PROVE  /\ n \in Neighbors(c) /\ n \in Node /\ c \in Node
         /\ n \notin Cell => ch = "sun" /\ n = Above(c) /\ ~InHeight(n)
<1>1. c \in Node
  BY CellNodes
<1>2. n \in Neighbors(c)
  BY DEF Givers, Neighbors
<1>3. n \in Node
  BY <1>1, <1>2, NeighborNodes
<1>4. ASSUME n \notin Cell PROVE ch = "sun" /\ n = Above(c) /\ ~InHeight(n)
  <2>1. ch = "sun" /\ n = Above(c)
    BY <1>4 DEF Givers
  <2>2. c[1] \in 0..(Width - 1) /\ c[2] \in 0..(Height - 1) /\ Width \in Nat /\ Height \in Nat
    BY LightAssumption DEF Cell
  <2>3. n[1] = c[1] /\ n[2] = c[2] + 1
    BY <2>1 DEF Above
  <2> QED
    BY <1>3, <1>4, <2>1, <2>2, <2>3 DEF Cell, Node, InHeight
<1> QED
  BY <1>1, <1>2, <1>3, <1>4

(* What is passed on follows the light it comes from.                      *)
LEMMA PassedBounds ==
  ASSUME Shape, NEW ch \in Channel, NEW n \in Node, NEW c \in Node
  PROVE  /\ Passed(ch, n, c) \in Int
         /\ Passed(ch, n, c) <= LightAt(ch, n)
         /\ Passed(ch, n, c) >= LightAt(ch, n) - 1
         /\ c # Below(n) => Passed(ch, n, c) = LightAt(ch, n) - 1
<1>1. LightAt(ch, n) \in Nat
  BY LightAtLevel
<1> QED
  BY <1>1 DEF Passed

(* A node that is taken serves the neighbours it looks at, and what it     *)
(* raises will spread in turn.                                             *)
LEMMA SpreadServes ==
  ASSUME Shape, NEW ch \in Channel, spread[ch] # <<>>,
         NEW ns, ns \subseteq Neighbors(Head(spread[ch])), SpreadTo(ch, ns),
         NEW c \in Cell, blocks[c] \notin Solid, NEW n \in Node,
         Served(ch, n, c), n = Head(spread[ch]) => c \in ns
  PROVE  Served(ch, n, c)'
<1> DEFINE h      == Head(spread[ch])
           raised == {m \in ns : Raised(ch, h, m)}
           q      == Picked(h, raised)
<1>1. spread[ch] \in Seq(Node)
  BY DEF Shape
<1>2. /\ h \in Node /\ Tail(spread[ch]) \in Seq(Node)
      /\ Queued(spread[ch]) = {h} \cup Queued(Tail(spread[ch]))
  BY <1>1, QueuedHeadTail
<1>3. q \in Seq(Node) /\ Queued(q) = raised
  BY <1>2, QueuedPicked
<1>4. /\ light' = [light EXCEPT ![ch] = [d \in Cell |-> IF d \in raised THEN Passed(ch, h, d)
                                                        ELSE light[ch][d]]]
      /\ spread' = [spread EXCEPT ![ch] = Tail(spread[ch]) \o q]
      /\ blocks' = blocks /\ removal' = removal
  BY DEF SpreadTo, Shape, Picked
<1>5. \A m \in raised : /\ m \in Cell
                        /\ Passed(ch, h, m) \in Level
                        /\ Passed(ch, h, m) >= LightAt(ch, m)
  BY <1>2, RaisedCell
<1> HIDE DEF q, raised, h
<1>7. Queued(spread'[ch]) = Queued(Tail(spread[ch])) \cup raised
  <2>1. spread'[ch] = Tail(spread[ch]) \o q
    BY <1>4 DEF Shape
  <2>2. Tail(spread[ch]) \in Seq(Node) /\ q \in Seq(Node)
    BY <1>2, <1>3
  <2>3. Queued(Tail(spread[ch]) \o q) = Queued(Tail(spread[ch])) \cup Queued(q)
    BY <2>2, QueuedConcat
  <2> QED
    BY <1>3, <2>1, <2>3
<1>8. \A d \in Cell : light'[ch][d] = IF d \in raised THEN Passed(ch, h, d) ELSE light[ch][d]
  BY <1>4 DEF Shape
<1>9. CASE n \in raised
  BY <1>7, <1>9 DEF Served
<1>10. CASE n \notin raised
  <2> USE <1>10
  <2>1. LightAt(ch, n)' = LightAt(ch, n)
    BY <1>8 DEF LightAt, InHeight
  <2>2. Passed(ch, n, c)' = Passed(ch, n, c)
    BY <1>4, <2>1 DEF Passed, IsLiquid
  <2>3. LightAt(ch, c) = light[ch][c] /\ LightAt(ch, c)' = light'[ch][c]
    BY DEF LightAt
  <2>4. c \in Node /\ LightAt(ch, c) \in Nat /\ LightAt(ch, n) \in Nat /\ Passed(ch, n, c) \in Int
    BY CellNodes, LightAtLevel, PassedBounds
  <2>5. LightAt(ch, c)' >= LightAt(ch, c) /\ LightAt(ch, c)' \in Int
    BY <1>5, <1>8, <2>3, <2>4 DEF Level
  <2>6. CASE LightAt(ch, c) >= Passed(ch, n, c)
    <3>1. LightAt(ch, c)' >= Passed(ch, n, c)'
      BY <2>2, <2>4, <2>5, <2>6
    <3> QED
      BY <3>1 DEF Served
  <2>7. CASE \E e \in Queued(removal[ch]) : e[1] = c
    BY <1>4, <2>7 DEF Served
  <2>8. CASE n \in Queued(Tail(spread[ch]))
    BY <1>7, <2>8 DEF Served
  <2>9. CASE n = h
    <3>1. c \in ns
      BY <2>9 DEF h
    <3>2. CASE Raised(ch, h, c)
      <4>1. c \in raised
        BY <3>1, <3>2 DEF raised
      <4>2. LightAt(ch, c)' = Passed(ch, n, c)
        BY <1>8, <2>3, <2>9, <4>1
      <4>3. LightAt(ch, c)' >= Passed(ch, n, c)'
        BY <2>2, <2>4, <4>2
      <4> QED
        BY <4>3 DEF Served
    <3>3. CASE ~Raised(ch, h, c)
      <4>1. ~IsSolid(c)
        BY DEF IsSolid
      <4>2. LightAt(ch, c) + (IF c = Below(n) THEN 1 ELSE 2) > LightAt(ch, n)
        BY <2>4, <2>9, <3>3, <4>1 DEF Raised
      <4>3. LightAt(ch, c) >= Passed(ch, n, c)
        <5>1. CASE c = Below(n)
          BY <2>4, <4>2, <5>1, PassedBounds
        <5>2. CASE c # Below(n)
          BY <2>4, <4>2, <5>2, PassedBounds
        <5> QED
          BY <5>1, <5>2
      <4> QED
        BY <2>6, <4>3
    <3> QED
      BY <3>2, <3>3
  <2> QED
    BY <1>2, <2>6, <2>7, <2>8, <2>9 DEF Served
<1> QED
  BY <1>9, <1>10

(* A removal serves the node it takes: what it leaves alight next to it is *)
(* enqueued to spread.                                                     *)
LEMMA UnPropagateServes ==
  ASSUME Shape, NEW ch \in Channel, UnPropagate(ch),
         NEW c \in Cell, NEW n \in Givers(ch, c), Served(ch, n, c)
  PROVE  Served(ch, n, c)'
<1> DEFINE h      == Head(removal[ch])[1]
           level  == Head(removal[ch])[2]
           dark   == {m \in Neighbors(h) : Darkened(ch, h, level, m)}
           kept   == {m \in Neighbors(h) : ~Darkened(ch, h, level, m) /\ LightAt(ch, m) >= level}
           follow == Marked(ch, h, level, dark)
           again  == Picked(h, kept)
<1>1. removal[ch] # <<>> /\ removal[ch] \in Seq(Mark) /\ spread[ch] \in Seq(Node)
  BY DEF UnPropagate, Shape
<1>2. /\ h \in Node /\ level \in Int /\ level <= MaxLight
      /\ Tail(removal[ch]) \in Seq(Mark)
  BY <1>1, HeadMark
<1>3. Queued(removal[ch]) = {Head(removal[ch])} \cup Queued(Tail(removal[ch]))
  BY <1>1, QueuedHeadTail
<1>4. /\ light' = [light EXCEPT ![ch] = [d \in Cell |-> IF d \in dark THEN 0 ELSE light[ch][d]]]
      /\ removal' = [removal EXCEPT ![ch] = Tail(removal[ch]) \o follow]
      /\ spread' = [spread EXCEPT ![ch] = spread[ch] \o again]
      /\ blocks' = blocks
  BY DEF UnPropagate, Shape, Picked, Marked
<1>5. dark \subseteq Neighbors(h) /\ kept \subseteq Neighbors(h)
  OBVIOUS
<1>6. \A m \in Neighbors(h) : m \in dark <=> Darkened(ch, h, level, m)
  OBVIOUS
<1>7. \A m \in Neighbors(h) : m \notin dark /\ LightAt(ch, m) >= level => m \in kept
  OBVIOUS
<1> HIDE DEF follow, again, dark, kept, level
<1>8. follow \in Seq(Mark) /\ \A m \in dark : \E e \in Queued(follow) : e[1] = m
  <2> HIDE DEF h
  <2>1. h \in Node /\ level \in Int /\ level <= MaxLight /\ dark \subseteq Neighbors(h)
    BY <1>2, <1>5
  <2>2. Marks(follow, dark)
    BY <2>1, QueuedFollowers DEF follow
  <2> QED
    BY <2>2 DEF Marks
<1>9. again \in Seq(Node) /\ Queued(again) = kept
  BY <1>2, <1>5, QueuedPicked DEF again
<1>10. Queued(removal'[ch]) = Queued(Tail(removal[ch])) \cup Queued(follow)
  <2>1. removal'[ch] = Tail(removal[ch]) \o follow
    BY <1>4 DEF Shape
  <2>2. Queued(Tail(removal[ch]) \o follow) = Queued(Tail(removal[ch])) \cup Queued(follow)
    BY <1>2, <1>8, QueuedConcat
  <2> QED
    BY <2>1, <2>2
<1>11. Queued(spread'[ch]) = Queued(spread[ch]) \cup kept
  <2>1. spread'[ch] = spread[ch] \o again
    BY <1>4 DEF Shape
  <2>2. Queued(spread[ch] \o again) = Queued(spread[ch]) \cup Queued(again)
    BY <1>1, <1>9, QueuedConcat
  <2> QED
    BY <1>9, <2>1, <2>2
<1>12. \A d \in Cell : light'[ch][d] = IF d \in dark THEN 0 ELSE light[ch][d]
  BY <1>4 DEF Shape
<1>13. /\ n \in Neighbors(c) /\ n \in Node /\ c \in Node
       /\ n \notin Cell => ch = "sun" /\ n = Above(c) /\ ~InHeight(n)
  BY GiversAreNeighbors
<1>14. /\ LightAt(ch, n) \in Nat /\ LightAt(ch, c) \in Nat /\ LightAt(ch, c) = light[ch][c]
       /\ LightAt(ch, c)' = light'[ch][c]
  BY LightAtLevel DEF LightAt
<1>15. /\ LightAt(ch, n)' \in Nat /\ LightAt(ch, n)' <= LightAt(ch, n)
       /\ n \in dark \cap Cell => LightAt(ch, n)' = 0
       /\ n \notin dark => LightAt(ch, n)' = LightAt(ch, n)
  <2>1. CASE n \in Cell
    <3>1. LightAt(ch, n) = light[ch][n] /\ LightAt(ch, n)' = light'[ch][n]
      BY <2>1 DEF LightAt
    <3> QED
      BY <1>12, <1>14, <2>1, <3>1
  <2>2. CASE n \notin Cell
    <3>1. LightAt(ch, n)' = LightAt(ch, n)
      BY <2>2 DEF LightAt, InHeight
    <3> QED
      BY <1>14, <2>2, <3>1
  <2> QED
    BY <2>1, <2>2
<1>16. Passed(ch, n, c)' <= Passed(ch, n, c) /\ Passed(ch, n, c)' <= LightAt(ch, n)'
       /\ Passed(ch, n, c) \in Int /\ Passed(ch, n, c)' \in Int
  BY <1>4, <1>14, <1>15 DEF Passed, IsLiquid
<1>17. CASE c \in dark
  <2>1. PICK e \in Queued(follow) : e[1] = c
    BY <1>8, <1>17
  <2> QED
    BY <1>10, <2>1 DEF Served
<1>18. CASE c \notin dark
  <2>1. LightAt(ch, c)' = LightAt(ch, c)
    BY <1>12, <1>14, <1>18
  <2>2. CASE LightAt(ch, c) >= Passed(ch, n, c)
    <3>1. LightAt(ch, c)' >= Passed(ch, n, c)'
      BY <1>14, <1>16, <2>1, <2>2
    <3> QED
      BY <3>1 DEF Served
  <2>3. CASE n \in Queued(spread[ch])
    BY <1>11, <2>3 DEF Served
  <2>4. CASE \E e \in Queued(Tail(removal[ch])) : e[1] = c
    BY <1>10, <2>4 DEF Served
  <2>5. CASE c = h
    <3> HIDE DEF h
    <3>1. n \in Neighbors(h) /\ h \in Node
      BY <1>13, <2>5
    <3>2. CASE LightAt(ch, n)' = 0
      <4>1. LightAt(ch, c)' >= Passed(ch, n, c)'
        BY <1>14, <1>16, <2>1, <3>2
      <4> QED
        BY <4>1 DEF Served
    <3>3. CASE n \in dark /\ n \notin Cell
      <4>1. n = Above(h) /\ ~InHeight(n)
        BY <1>13, <2>5, <3>3
      <4>2. n # Below(h)
        BY <3>1, <4>1 DEF Above, Below, Node
      <4>3. LightAt(ch, n) < level
        BY <1>6, <3>1, <3>3, <4>2 DEF Darkened
      <4>4. LightAt(ch, n) = MaxLight /\ MaxLight \in Nat
        BY <3>3, <4>1, LightAssumption DEF LightAt
      <4> QED
        BY <1>2, <4>3, <4>4
    <3>4. CASE n \notin dark /\ LightAt(ch, n) # 0
      <4>1. LightAt(ch, n) >= level
        BY <1>2, <1>6, <1>14, <3>1, <3>4 DEF Darkened
      <4>2. n \in kept
        BY <1>7, <3>1, <3>4, <4>1
      <4> QED
        BY <1>11, <4>2 DEF Served
    <3> QED
      BY <1>15, <3>2, <3>3, <3>4
  <2> QED
    BY <1>3, <2>2, <2>3, <2>4, <2>5 DEF Served
<1> QED
  BY <1>17, <1>18

(* What setBlock does, for one half of the light: the cell keeps its light *)
(* or goes dark, or it gets light that is to spread; and whatever is not   *)
(* solid afterwards is to look for light around it.                        *)
LEMMA EditEffect ==
  ASSUME Shape, NEW ch \in Channel, NEW c \in Editable, NEW b \in Block, Open(c, b) \/ Fill(c, b)
  PROVE  /\ c \in Cell /\ c \in Node
         /\ Queued(spread[ch]) = {} /\ Queued(removal[ch]) = {}
         /\ blocks'[c] = b /\ \A d \in Cell : d # c => blocks'[d] = blocks[d]
         /\ \A d \in Cell : d # c => light'[ch][d] = light[ch][d]
         /\ light'[ch][c] # light[ch][c] => light'[ch][c] = 0 \/ c \in Queued(spread'[ch])
         /\ b \notin Solid => \/ Neighbors(c) \subseteq Queued(spread'[ch])
                              \/ \E e \in Queued(removal'[ch]) : e[1] = c
<1>1. c \in Cell /\ c \in Node
  BY LightAssumption, CellNodes
<1>2. Editing(c, b) /\ AtRest
  BY DEF Open, Fill, Editing
<1>3. Queued(spread[ch]) = {} /\ Queued(removal[ch]) = {}
  <2>1. spread[ch] = <<>> /\ removal[ch] = <<>>
    BY <1>2 DEF AtRest, Idle, Channel
  <2> QED
    BY <2>1 DEF Queued
<1>4. blocks'[c] = b /\ \A d \in Cell : d # c => blocks'[d] = blocks[d]
  BY <1>1, <1>2 DEF Editing, Shape
<1>5. /\ light \in [Channel -> [Cell -> Level]] /\ spread \in [Channel -> Seq(Node)]
      /\ removal \in [Channel -> Seq(Mark)]
  BY DEF Shape
<1>6. light' = light \/ light' = [light EXCEPT !["torch"][c] = 0]
        \/ light' = [light EXCEPT !["sun"][c] = 0, !["torch"][c] = MaxLight]
        \/ light' = [light EXCEPT !["sun"][c] = 0, !["torch"][c] = 0]
  BY DEF Open, Fill
<1>7. \A d \in Cell : d # c => light'[ch][d] = light[ch][d]
  <2>1. CASE light' = light
    BY <2>1
  <2>2. CASE light' = [light EXCEPT !["torch"][c] = 0]
    BY <1>5, <2>2 DEF Channel
  <2>3. CASE light' = [light EXCEPT !["sun"][c] = 0, !["torch"][c] = MaxLight]
    BY <1>5, <2>3 DEF Channel
  <2>4. CASE light' = [light EXCEPT !["sun"][c] = 0, !["torch"][c] = 0]
    BY <1>5, <2>4 DEF Channel
  <2> QED
    BY <1>6, <2>1, <2>2, <2>3, <2>4
<1>8. Queued(<<c>>) = {c} /\ Neighbors(c) \subseteq Queued(Around(c))
  BY <1>1, AroundNodes, OneQueued
<1>9. light'[ch][c] # light[ch][c] => light'[ch][c] = 0 \/ c \in Queued(spread'[ch])
  <2>1. CASE light' = light
    BY <2>1
  <2>2. CASE light' = [light EXCEPT !["torch"][c] = 0]
    BY <1>1, <1>5, <2>2 DEF Channel
  <2>3. CASE light' = [light EXCEPT !["sun"][c] = 0, !["torch"][c] = 0]
    BY <1>1, <1>5, <2>3 DEF Channel
  <2>4. CASE Fill(c, b) /\ b \in Emitter
    <3>1. /\ light' = [light EXCEPT !["sun"][c] = 0, !["torch"][c] = MaxLight]
          /\ spread' = [spread EXCEPT !["torch"] = <<c>>]
      BY <2>4 DEF Fill
    <3>2. CASE ch = "sun"
      BY <1>1, <1>5, <3>1, <3>2 DEF Channel
    <3>3. CASE ch = "torch"
      <4>1. spread'[ch] = <<c>>
        BY <1>5, <3>1, <3>3 DEF Channel
      <4> QED
        BY <1>8, <4>1
    <3> QED
      BY <3>2, <3>3 DEF Channel
  <2> QED
    BY <2>1, <2>2, <2>3, <2>4 DEF Open, Fill
<1>10. ASSUME b \notin Solid
       PROVE  \/ Neighbors(c) \subseteq Queued(spread'[ch])
              \/ \E e \in Queued(removal'[ch]) : e[1] = c
  <2>1. \A l \in Level : Queued(<<<<c, l>>>>) = {<<c, l>>}
    BY DEF Queued
  <2>2. MaxLight \in Level /\ light["torch"][c] \in Level
    BY <1>1, <1>5, LightAssumption DEF Level, Channel
  <2>3. CASE spread'[ch] = Around(c)
    BY <1>8, <2>3
  <2>4. CASE \E l \in Level : removal'[ch] = <<<<c, l>>>>
    <3>1. PICK l \in Level : removal'[ch] = <<<<c, l>>>>
      BY <2>4
    <3>2. <<c, l>> \in Queued(removal'[ch])
      BY <2>1, <3>1
    <3> QED
      BY <3>2
  <2>5. CASE Open(c, b)
    <3>1. CASE blocks[c] \in Emitter
      <4>1. /\ removal' = [removal EXCEPT !["torch"] = <<<<c, MaxLight>>>>]
            /\ spread' = [spread EXCEPT !["sun"] = Around(c)]
        BY <2>5, <3>1 DEF Open
      <4> QED
        BY <1>5, <2>2, <2>3, <2>4, <4>1 DEF Channel
    <3>2. CASE blocks[c] \notin Emitter
      BY <2>3, <2>5, <3>2 DEF Open
    <3> QED
      BY <3>1, <3>2
  <2>6. CASE Fill(c, b)
    <3>1. b \notin Emitter
      BY <1>10, LightAssumption
    <3>2. removal' = [removal EXCEPT !["sun"] = <<<<c, MaxLight>>>>,
                                     !["torch"] = <<<<c, light["torch"][c]>>>>]
      BY <2>6, <3>1 DEF Fill
    <3>3. \E l \in Level : removal'[ch] = <<<<c, l>>>>
      BY <1>5, <2>2, <3>2 DEF Channel
    <3> QED
      BY <2>4, <3>3
  <2> QED
    BY <2>5, <2>6
<1> QED
  BY <1>1, <1>3, <1>4, <1>7, <1>9, <1>10

LEMMA EditServes ==
  ASSUME Shape, NEW ch \in Channel, SpreadInv(ch),
         NEW c \in Editable, NEW b \in Block, Open(c, b) \/ Fill(c, b)
  PROVE  SpreadInv(ch)'
<1> SUFFICES ASSUME NEW d \in Cell, blocks'[d] \notin Solid, NEW n \in Givers(ch, d)
             PROVE  Served(ch, n, d)'
  BY DEF SpreadInv, Givers
<1>1. /\ c \in Cell /\ c \in Node
      /\ Queued(spread[ch]) = {} /\ Queued(removal[ch]) = {}
      /\ blocks'[c] = b /\ \A x \in Cell : x # c => blocks'[x] = blocks[x]
      /\ \A x \in Cell : x # c => light'[ch][x] = light[ch][x]
      /\ light'[ch][c] # light[ch][c] => light'[ch][c] = 0 \/ c \in Queued(spread'[ch])
      /\ b \notin Solid => \/ Neighbors(c) \subseteq Queued(spread'[ch])
                           \/ \E e \in Queued(removal'[ch]) : e[1] = c
  BY EditEffect
<1>2. n \in Neighbors(d) /\ n \in Node /\ d \in Node
  BY GiversAreNeighbors
<1>3. CASE d = c
  BY <1>1, <1>2, <1>3 DEF Served
<1>4. CASE d # c
  <2>1. blocks[d] \notin Solid
    BY <1>1, <1>4
  <2>2. LightAt(ch, d) >= Passed(ch, n, d)
    BY <1>1, <2>1 DEF SpreadInv, Served
  <2>3. LightAt(ch, d)' = LightAt(ch, d) /\ LightAt(ch, d) \in Nat
    BY <1>1, <1>4, LightAtLevel DEF LightAt
  <2>4. IsLiquid(d)' <=> IsLiquid(d)
    BY <1>1, <1>4 DEF IsLiquid
  <2>5. CASE LightAt(ch, n)' = LightAt(ch, n)
    <3>1. Passed(ch, n, d)' = Passed(ch, n, d)
      BY <2>4, <2>5 DEF Passed
    <3>2. LightAt(ch, d)' >= Passed(ch, n, d)'
      BY <2>2, <2>3, <3>1
    <3> QED
      BY <3>2 DEF Served
  <2>6. CASE LightAt(ch, n)' # LightAt(ch, n)
    <3>1. n = c /\ light'[ch][c] # light[ch][c]
      BY <1>1, <2>6 DEF LightAt, InHeight
    <3>2. CASE c \in Queued(spread'[ch])
      BY <3>1, <3>2 DEF Served
    <3>3. CASE light'[ch][c] = 0
      <4>1. LightAt(ch, n)' = 0
        BY <1>1, <3>1, <3>3 DEF LightAt
      <4>2. LightAt(ch, d)' >= Passed(ch, n, d)'
        BY <2>3, <4>1 DEF Passed
      <4> QED
        BY <4>2 DEF Served
    <3> QED
      BY <1>1, <3>1, <3>2, <3>3
  <2> QED
    BY <2>5, <2>6
<1> QED
  BY <1>3, <1>4

(* The other half of the light stays as it is.                             *)
LEMMA OtherHalfServed ==
  ASSUME NEW ch \in Channel, SpreadInv(ch), UNCHANGED blocks,
         light'[ch] = light[ch], spread'[ch] = spread[ch], removal'[ch] = removal[ch]
  PROVE  SpreadInv(ch)'
<1> SUFFICES ASSUME NEW d \in Cell, blocks[d] \notin Solid, NEW n \in Givers(ch, d)
             PROVE  Served(ch, n, d)'
  BY DEF SpreadInv, Givers
<1>1. Served(ch, n, d)
  BY DEF SpreadInv
<1>2. LightAt(ch, d)' = LightAt(ch, d) /\ LightAt(ch, n)' = LightAt(ch, n)
  BY DEF LightAt, InHeight
<1>3. Passed(ch, n, d)' = Passed(ch, n, d)
  BY <1>2 DEF Passed, IsLiquid
<1> QED
  BY <1>1, <1>2, <1>3 DEF Served

(* Every step but those of the generation keeps light spread.              *)
LEMMA SearchServes ==
  ASSUME Shape, NEW ch \in Channel, SpreadInv(ch),
         NEW other \in Channel, Propagate(other) \/ UnPropagate(other)
  PROVE  SpreadInv(ch)'
<1>1. CASE other # ch
  <2>1. light'[ch] = light[ch] /\ spread'[ch] = spread[ch] /\ removal'[ch] = removal[ch] /\ UNCHANGED blocks
    BY <1>1 DEF Propagate, UnPropagate, SpreadTo, Shape
  <2> QED
    BY <2>1, OtherHalfServed
<1>2. CASE other = ch /\ Propagate(other)
  <2> SUFFICES ASSUME NEW d \in Cell, blocks[d] \notin Solid, NEW n \in Givers(ch, d)
               PROVE  Served(ch, n, d)'
    BY <1>2 DEF SpreadInv, Givers, Propagate, SpreadTo
  <2>1. Served(ch, n, d)
    BY DEF SpreadInv
  <2>2. n \in Neighbors(d) /\ n \in Node /\ d \in Node
    BY GiversAreNeighbors
  <2>3. d \in Neighbors(n)
    BY <2>2, NeighborsBothWays
  <2>4. spread[ch] # <<>> /\ SpreadTo(ch, Neighbors(Head(spread[ch])))
    BY <1>2 DEF Propagate
  <2> QED
    BY <2>1, <2>2, <2>3, <2>4, SpreadServes
<1>3. CASE other = ch /\ UnPropagate(other)
  <2> SUFFICES ASSUME NEW d \in Cell, blocks[d] \notin Solid, NEW n \in Givers(ch, d)
               PROVE  Served(ch, n, d)'
    BY <1>3 DEF SpreadInv, Givers, UnPropagate
  <2>1. Served(ch, n, d)
    BY DEF SpreadInv
  <2> QED
    BY <1>3, <2>1, UnPropagateServes
<1> QED
  BY <1>1, <1>2, <1>3

(* At the start there is no torch light, not even an emitter's.            *)
LEMMA TorchSpreadInit ==
  Init => SpreadInv("torch")
<1> SUFFICES ASSUME Init, NEW d \in Cell, NEW n \in Givers("torch", d)
             PROVE  Served("torch", n, d)
  BY DEF SpreadInv
<1>1. n \in Cell
  BY DEF Givers
<1>2. light["torch"][d] = 0 /\ light["torch"][n] = 0
  BY <1>1 DEF Init, Channel
<1>3. LightAt("torch", d) = 0 /\ LightAt("torch", n) = 0
  BY <1>1, <1>2 DEF LightAt
<1>4. LightAt("torch", d) >= Passed("torch", n, d)
  BY <1>3 DEF Passed
<1> QED
  BY <1>4 DEF Served

LEMMA TorchSpreadStep ==
  Shape /\ SpreadInv("torch") /\ [Next]_vars => SpreadInv("torch")'
<1> SUFFICES ASSUME Shape, SpreadInv("torch"), [Next]_vars PROVE SpreadInv("torch")'
  OBVIOUS
<1> "torch" \in Channel
  BY DEF Channel
<1>1. CASE Generate
  <2>1. /\ light'["torch"] = light["torch"] /\ spread'["torch"] = spread["torch"]
        /\ removal'["torch"] = removal["torch"] /\ UNCHANGED blocks
    BY <1>1 DEF Generate, SpreadTo, Shape, Channel
  <2> QED
    BY <2>1, OtherHalfServed
<1>2. CASE Generated
  BY <1>2, OtherHalfServed DEF Generated
<1>3. ASSUME NEW ch \in Channel, Propagate(ch) \/ UnPropagate(ch) PROVE SpreadInv("torch")'
  BY <1>3, SearchServes
<1>4. ASSUME NEW c \in Editable, NEW b \in Block, Open(c, b) \/ Fill(c, b) PROVE SpreadInv("torch")'
  BY <1>4, EditServes
<1>5. CASE UNCHANGED vars
  BY <1>5, OtherHalfServed DEF vars
<1> QED
  BY <1>1, <1>2, <1>3, <1>4, <1>5 DEF Next, Search

LEMMA TorchInvSpreads ==
  Shape /\ SpreadInv("torch") => TorchSpread
<1> SUFFICES ASSUME Shape, SpreadInv("torch"), AtRest,
                    NEW c \in Cell, blocks[c] \notin Solid, NEW n \in Beside(c)
             PROVE  light["torch"][c] >= light["torch"][n] - 1
  BY DEF TorchSpread
<1>1. n \in Cell /\ n \in Givers("torch", c)
  BY DEF Beside, Givers
<1>2. spread["torch"] = <<>> /\ removal["torch"] = <<>>
  BY DEF AtRest, Idle
<1>3. Queued(spread["torch"]) = {} /\ Queued(removal["torch"]) = {}
  BY <1>2 DEF Queued
<1>4. LightAt("torch", c) >= Passed("torch", n, c)
  BY <1>1, <1>3 DEF SpreadInv, Served
<1> QED
  BY <1>1, <1>4 DEF Passed, LightAt

(* Torch light is never missing: once the searches after an edit are over, *)
(* no open cell is darker than its brightest neighbour makes it, whatever  *)
(* was generated and whatever was set or removed, anywhere, in whatever    *)
(* order (Chunk::setBlock, propagateTorchlight, unPropagateTorchlight).    *)
THEOREM TorchAlwaysSpreads == Spec => []TorchSpread
<1>1. Init => Shape /\ SpreadInv("torch")
  BY ShapeInit, TorchSpreadInit
<1>2. (Shape /\ SpreadInv("torch")) /\ [Next]_vars => (Shape /\ SpreadInv("torch"))'
  BY ShapeStep, TorchSpreadStep
<1>3. Shape /\ SpreadInv("torch") => TorchSpread
  BY TorchInvSpreads
<1> QED
  BY <1>1, <1>2, <1>3, PTL DEF Spec

-----------------------------------------------------------------------------
(* Solid blocks are dark, and searches stay inside.                        *)

(* No light gets into solid blocks; only emitters have torch light.        *)
SolidDark ==
  \A ch \in Channel, c \in Cell :
    blocks[c] \in Solid /\ (ch = "torch" => blocks[c] \notin Emitter) => light[ch][c] = 0

(* What the generator makes below the land, and nobody digs away: the      *)
(* lowest row.  Without it removals leave the world (the header of         *)
(* Lighting), and TypeOK fails.                                            *)
Floor ==
  /\ \A t \in Terrain, c \in Cell : c[2] = 0 => t[c] \in Solid \ Emitter
  /\ \A c \in Editable : c[2] # 0

Near == ((-1)..Width) \X ((-1)..Height)

FloorInv ==
  /\ \A c \in Cell : c[2] = 0 => blocks[c] \in Solid \ Emitter
  /\ \A ch \in Channel : \A e \in Queued(removal[ch]) : e[1] \in Cell /\ e[1][2] # 0
  /\ \A ch \in Channel : Queued(spread[ch]) \subseteq Near

(* Cells and what is next to them are near.                                *)
LEMMA CellIsNear ==
  /\ Cell \subseteq Near
  /\ \A c \in Cell : Neighbors(c) \subseteq Near
<1>1. Width \in Nat /\ Height \in Nat
  BY LightAssumption
<1>2. Cell \subseteq Near
  BY <1>1 DEF Cell, Near
<1>3. ASSUME NEW c \in Cell PROVE Left(c) \in Near /\ Right(c) \in Near /\ Below(c) \in Near /\ Above(c) \in Near
  <2>1. c[1] \in 0..(Width - 1) /\ c[2] \in 0..(Height - 1)
    BY DEF Cell
  <2> QED
    BY <1>1, <2>1 DEF Near, Left, Right, Below, Above
<1> QED
  BY <1>2, <1>3 DEF Neighbors

(* No step looks further than next to the world, or lights a solid cell.   *)
LEMMA SpreadToInside ==
  ASSUME Shape, SolidDark, NEW ch \in Channel, spread[ch] # <<>>,
         NEW ns, ns \subseteq Neighbors(Head(spread[ch])), SpreadTo(ch, ns)
  PROVE  SolidDark' /\ (FloorInv => FloorInv')
<1> DEFINE h      == Head(spread[ch])
           raised == {m \in ns : Raised(ch, h, m)}
           q      == Picked(h, raised)
<1>1. spread[ch] \in Seq(Node)
  BY DEF Shape
<1>2. /\ h \in Node /\ Tail(spread[ch]) \in Seq(Node)
      /\ Queued(spread[ch]) = {h} \cup Queued(Tail(spread[ch]))
  BY <1>1, QueuedHeadTail
<1>3. q \in Seq(Node) /\ Queued(q) = raised
  BY <1>2, QueuedPicked
<1>4. /\ light' = [light EXCEPT ![ch] = [d \in Cell |-> IF d \in raised THEN Passed(ch, h, d)
                                                        ELSE light[ch][d]]]
      /\ spread' = [spread EXCEPT ![ch] = Tail(spread[ch]) \o q]
      /\ blocks' = blocks /\ removal' = removal
  BY DEF SpreadTo, Shape, Picked
<1>5. \A m \in raised : m \in Cell /\ blocks[m] \notin Solid
  BY <1>2, RaisedCell
<1> HIDE DEF q, raised, h
<1>6. \A other \in Channel, d \in Cell :
        light'[other][d] = IF other = ch /\ d \in raised THEN Passed(ch, h, d) ELSE light[other][d]
  BY <1>4 DEF Shape
<1>7. SolidDark'
  BY <1>4, <1>5, <1>6 DEF SolidDark
<1>8. ASSUME FloorInv PROVE FloorInv'
  <2>1. Queued(Tail(spread[ch]) \o q) = Queued(Tail(spread[ch])) \cup Queued(q)
    <3>1. Tail(spread[ch]) \in Seq(Node) /\ q \in Seq(Node)
      BY <1>2, <1>3
    <3> QED
      BY <3>1, QueuedConcat
  <2>2. raised \subseteq Near /\ Queued(spread[ch]) \subseteq Near
    BY <1>5, <1>8, CellIsNear DEF FloorInv
  <2>3. Queued(Tail(spread[ch]) \o q) \subseteq Near
    BY <1>2, <1>3, <2>1, <2>2
  <2>4. \A other \in Channel : Queued(spread'[other]) \subseteq Near
    BY <1>4, <1>8, <2>3 DEF FloorInv, Shape
  <2> QED
    BY <1>4, <1>8, <2>4 DEF FloorInv
<1> QED
  BY <1>7, <1>8

LEMMA UnPropagateInside ==
  ASSUME Shape, SolidDark, NEW ch \in Channel, UnPropagate(ch)
  PROVE  SolidDark' /\ (FloorInv => FloorInv')
<1> DEFINE h      == Head(removal[ch])[1]
           level  == Head(removal[ch])[2]
           dark   == {m \in Neighbors(h) : Darkened(ch, h, level, m)}
           kept   == {m \in Neighbors(h) : ~Darkened(ch, h, level, m) /\ LightAt(ch, m) >= level}
           follow == Marked(ch, h, level, dark)
           again  == Picked(h, kept)
<1>1. removal[ch] # <<>> /\ removal[ch] \in Seq(Mark) /\ spread[ch] \in Seq(Node)
  BY DEF UnPropagate, Shape
<1>2. /\ h \in Node /\ level \in Int /\ level <= MaxLight
      /\ Tail(removal[ch]) \in Seq(Mark)
  BY <1>1, HeadMark
<1>3. Queued(removal[ch]) = {Head(removal[ch])} \cup Queued(Tail(removal[ch]))
  BY <1>1, QueuedHeadTail
<1>4. /\ light' = [light EXCEPT ![ch] = [d \in Cell |-> IF d \in dark THEN 0 ELSE light[ch][d]]]
      /\ removal' = [removal EXCEPT ![ch] = Tail(removal[ch]) \o follow]
      /\ spread' = [spread EXCEPT ![ch] = spread[ch] \o again]
      /\ blocks' = blocks
  BY DEF UnPropagate, Shape, Picked, Marked
<1>5. dark \subseteq Neighbors(h) /\ kept \subseteq Neighbors(h)
  OBVIOUS
<1>6. \A m \in dark : Darkened(ch, h, level, m)
  OBVIOUS
<1>7. h = Head(removal[ch])[1]
  OBVIOUS
<1> HIDE DEF follow, again, dark, kept, level, h
<1>8. Marks(follow, dark)
  BY <1>2, <1>5, QueuedFollowers DEF follow
<1>9. again \in Seq(Node) /\ Queued(again) = kept
  BY <1>2, <1>5, QueuedPicked DEF again
<1>10. \A other \in Channel, d \in Cell :
         light'[other][d] = IF other = ch /\ d \in dark THEN 0 ELSE light[other][d]
  BY <1>4 DEF Shape
<1>11. SolidDark'
  BY <1>4, <1>10 DEF SolidDark
<1>12. ASSUME FloorInv PROVE FloorInv'
  <2>1. h \in Cell /\ h[2] # 0
    BY <1>3, <1>7, <1>12 DEF FloorInv
  <2>2. ASSUME NEW m \in dark PROVE m \in Cell /\ m[2] # 0
    <3>1. /\ m \in Neighbors(h) /\ m \in Node /\ Darkened(ch, h, level, m)
          /\ LightAt(ch, m) # 0 /\ (m = Below(h) \/ LightAt(ch, m) < level)
      BY <1>2, <1>5, <1>6, NeighborNodes DEF Darkened
    <3>2. /\ Width \in Nat /\ Height \in Nat /\ MaxLight \in Nat
          /\ h[1] \in 0..(Width - 1) /\ h[2] \in 1..(Height - 1)
      BY <2>1, LightAssumption DEF Cell
    <3>3. m[2] \in Nat /\ (m = Below(h) => m[2] < h[2])
      BY <3>1, <3>2 DEF Neighbors, Left, Right, Below, Above
    <3>4. m \in Cell
      <4> SUFFICES ASSUME m \notin Cell PROVE FALSE
        OBVIOUS
      <4>1. ~InHeight(m) /\ LightAt(ch, m) = MaxLight
        BY <3>1 DEF LightAt
      <4>2. m[2] >= Height
        BY <3>1, <3>2, <3>3, <4>1 DEF InHeight, Node
      <4>3. m # Below(h)
        BY <3>2, <3>3, <4>2
      <4> QED
        BY <1>2, <3>1, <3>2, <4>1, <4>3
    <3>5. m[2] # 0
      <4> SUFFICES ASSUME m[2] = 0 PROVE FALSE
        OBVIOUS
      <4>1. blocks[m] \in Solid \ Emitter
        BY <1>12, <3>4 DEF FloorInv
      <4>2. light[ch][m] = 0
        BY <3>4, <4>1 DEF SolidDark
      <4> QED
        BY <3>1, <3>4, <4>2 DEF LightAt
    <3> QED
      BY <3>4, <3>5
  <2>3. Queued(Tail(removal[ch]) \o follow) = Queued(Tail(removal[ch])) \cup Queued(follow)
    <3>1. Tail(removal[ch]) \in Seq(Mark) /\ follow \in Seq(Mark)
      BY <1>2, <1>8 DEF Marks
    <3> QED
      BY <3>1, QueuedConcat
  <2>4. \A e \in Queued(Tail(removal[ch]) \o follow) : e[1] \in Cell /\ e[1][2] # 0
    BY <1>3, <1>8, <1>12, <2>2, <2>3 DEF FloorInv, Marks
  <2>5. \A other \in Channel : \A e \in Queued(removal'[other]) : e[1] \in Cell /\ e[1][2] # 0
    BY <1>4, <1>12, <2>4 DEF FloorInv, Shape
  <2>6. Queued(spread[ch] \o again) = Queued(spread[ch]) \cup Queued(again)
    BY <1>1, <1>9, QueuedConcat
  <2>7. Queued(spread[ch] \o again) \subseteq Near
    BY <1>5, <1>9, <1>12, <2>1, <2>6, CellIsNear DEF FloorInv
  <2>8. \A other \in Channel : Queued(spread'[other]) \subseteq Near
    BY <1>4, <1>12, <2>7 DEF FloorInv, Shape
  <2> QED
    BY <1>4, <1>12, <2>5, <2>8 DEF FloorInv
<1> QED
  BY <1>11, <1>12

LEMMA EditInside ==
  ASSUME Shape, SolidDark, NEW c \in Editable, NEW b \in Block, Open(c, b) \/ Fill(c, b)
  PROVE  SolidDark' /\ (Floor /\ FloorInv => FloorInv')
<1>1. /\ c \in Cell /\ c \in Node
      /\ blocks'[c] = b /\ \A d \in Cell : d # c => blocks'[d] = blocks[d]
      /\ \A ch \in Channel : /\ Queued(spread[ch]) = {} /\ Queued(removal[ch]) = {}
                             /\ \A d \in Cell : d # c => light'[ch][d] = light[ch][d]
  <2>1. "sun" \in Channel
    BY DEF Channel
  <2>2. /\ c \in Cell /\ c \in Node
        /\ blocks'[c] = b /\ \A d \in Cell : d # c => blocks'[d] = blocks[d]
    BY <2>1, EditEffect
  <2>3. ASSUME NEW ch \in Channel
        PROVE  /\ Queued(spread[ch]) = {} /\ Queued(removal[ch]) = {}
               /\ \A d \in Cell : d # c => light'[ch][d] = light[ch][d]
    BY EditEffect
  <2> QED
    BY <2>2, <2>3
<1>2. /\ light \in [Channel -> [Cell -> Level]] /\ spread \in [Channel -> Seq(Node)]
      /\ removal \in [Channel -> Seq(Mark)]
  BY DEF Shape
<1>3. ASSUME b \in Solid, NEW ch \in Channel, ch = "torch" => b \notin Emitter
      PROVE  light'[ch][c] = 0
  <2>1. Fill(c, b)
    BY <1>3 DEF Open
  <2>2. CASE b \in Emitter
    <3>1. light' = [light EXCEPT !["sun"][c] = 0, !["torch"][c] = MaxLight] /\ ch = "sun"
      BY <1>3, <2>1, <2>2 DEF Fill, Channel
    <3> QED
      BY <1>1, <1>2, <3>1 DEF Channel
  <2>3. CASE b \notin Emitter
    <3>1. light' = [light EXCEPT !["sun"][c] = 0, !["torch"][c] = 0]
      BY <2>1, <2>3 DEF Fill
    <3> QED
      BY <1>1, <1>2, <3>1 DEF Channel
  <2> QED
    BY <2>2, <2>3
<1>4. SolidDark'
  BY <1>1, <1>3 DEF SolidDark
<1>5. ASSUME Floor, FloorInv PROVE FloorInv'
  <2>1. c[2] # 0
    BY <1>5 DEF Floor
  <2>2. \A l : Queued(<<<<c, l>>>>) = {<<c, l>>}
    BY DEF Queued
  <2>3. \A ch \in Channel : removal'[ch] = removal[ch] \/ \E l : removal'[ch] = <<<<c, l>>>>
    <3>1. \/ removal' = removal
          \/ removal' = [removal EXCEPT !["torch"] = <<<<c, MaxLight>>>>]
          \/ removal' = [removal EXCEPT !["sun"] = <<<<c, MaxLight>>>>]
          \/ removal' = [removal EXCEPT !["sun"] = <<<<c, MaxLight>>>>,
                                        !["torch"] = <<<<c, light["torch"][c]>>>>]
      BY DEF Open, Fill
    <3>2. DOMAIN removal = Channel
      BY <1>2
    <3>3. CASE removal' = removal
      BY <3>3
    <3>4. CASE removal' = [removal EXCEPT !["torch"] = <<<<c, MaxLight>>>>]
      BY <3>2, <3>4 DEF Channel
    <3>5. CASE removal' = [removal EXCEPT !["sun"] = <<<<c, MaxLight>>>>]
      BY <3>2, <3>5 DEF Channel
    <3>6. CASE removal' = [removal EXCEPT !["sun"] = <<<<c, MaxLight>>>>,
                                          !["torch"] = <<<<c, light["torch"][c]>>>>]
      BY <1>2, <3>6 DEF Channel
    <3> QED
      BY <3>1, <3>3, <3>4, <3>5, <3>6
  <2>4. \A ch \in Channel : \A e \in Queued(removal'[ch]) : e[1] \in Cell /\ e[1][2] # 0
    <3> SUFFICES ASSUME NEW ch \in Channel, NEW e \in Queued(removal'[ch])
                 PROVE  e[1] \in Cell /\ e[1][2] # 0
      OBVIOUS
    <3>1. removal'[ch] # removal[ch]
      BY <1>1
    <3>2. PICK l : removal'[ch] = <<<<c, l>>>>
      BY <2>3, <3>1
    <3>3. e = <<c, l>>
      BY <2>2, <3>2
    <3> QED
      BY <1>1, <2>1, <3>3
  <2>5. \A ch \in Channel : spread'[ch] \in {spread[ch], <<c>>, Around(c)}
    BY <1>2 DEF Open, Fill, Channel
  <2>6. Queued(<<c>>) \subseteq Near
    BY <1>1, OneQueued, CellIsNear
  <2>7. Queued(Around(c)) \subseteq Near
    <3>1. /\ Width \in Nat /\ Height \in Nat
          /\ c[1] \in 0..(Width - 1) /\ c[2] \in 0..(Height - 1)
      BY <1>1, LightAssumption DEF Cell
    <3>2. Around(c) \in Seq(Node)
      BY <1>1, AroundNodes
    <3>3. Queued(Around(c)) \subseteq Node
      BY <3>2 DEF Queued
    <3>4. ASSUME NEW n \in Queued(Around(c)) PROVE n \in Near
      <4>1. n \in Node /\ n[1] \in (c[1] - 1)..(c[1] + 1) /\ n[2] \in (c[2] - 1)..(c[2] + 1)
        BY <1>1, <3>3, AroundNodes
      <4> QED
        BY <3>1, <4>1 DEF Node, Near
    <3> QED
      BY <3>4
  <2>8. \A ch \in Channel : Queued(spread'[ch]) \subseteq Near
    BY <1>1, <2>5, <2>6, <2>7
  <2>9. \A d \in Cell : d[2] = 0 => blocks'[d] \in Solid \ Emitter
    BY <1>1, <1>5, <2>1 DEF FloorInv
  <2> QED
    BY <2>4, <2>8, <2>9 DEF FloorInv
<1> QED
  BY <1>4, <1>5

LEMMA InsideInit ==
  Init => SolidDark /\ (Floor => FloorInv)
<1> SUFFICES ASSUME Init PROVE SolidDark /\ (Floor => FloorInv)
  OBVIOUS
<1>1. SolidDark
  BY DEF Init, SolidDark
<1>2. ASSUME Floor PROVE FloorInv
  <2>1. \A ch \in Channel : Queued(removal[ch]) = {}
    BY DEF Init, Queued
  <2>2. Width \in Nat /\ Height \in Nat
    BY LightAssumption
  <2>3. ASSUME NEW ch \in Channel, NEW n \in Queued(spread[ch]) PROVE n \in Near
    <3>1. CASE ch = "sun"
      <4>1. spread[ch] = [i \in 1..Width |-> <<i - 1, Height>>]
        BY <3>1 DEF Init
      <4>2. PICK i \in 1..Width : n = <<i - 1, Height>>
        BY <2>3, <4>1 DEF Queued
      <4> QED
        BY <2>2, <4>2 DEF Near
    <3>2. CASE ch # "sun"
      <4>1. spread[ch] = <<>>
        BY <3>2 DEF Init
      <4> QED
        BY <2>3, <4>1 DEF Queued
    <3> QED
      BY <3>1, <3>2
  <2>4. \A c \in Cell : c[2] = 0 => blocks[c] \in Solid \ Emitter
    BY <1>2 DEF Init, Floor
  <2> QED
    BY <2>1, <2>3, <2>4 DEF FloorInv
<1> QED
  BY <1>1, <1>2

LEMMA InsideStep ==
  Shape /\ SolidDark /\ [Next]_vars => SolidDark' /\ (Floor /\ FloorInv => FloorInv')
<1> SUFFICES ASSUME Shape, SolidDark, [Next]_vars
             PROVE  SolidDark' /\ (Floor /\ FloorInv => FloorInv')
  OBVIOUS
<1>1. CASE Generate
  <2>1. spread["sun"] # <<>> /\ "sun" \in Channel
    BY <1>1 DEF Generate, Channel
  <2>2. {Below(Head(spread["sun"])), Above(Head(spread["sun"]))} \subseteq Neighbors(Head(spread["sun"]))
    BY DEF Neighbors
  <2> QED
    BY <1>1, <2>1, <2>2, SpreadToInside DEF Generate
<1>2. CASE Generated
  BY <1>2 DEF Generated, SolidDark, FloorInv
<1>3. ASSUME NEW ch \in Channel, Propagate(ch)
      PROVE  SolidDark' /\ (Floor /\ FloorInv => FloorInv')
  BY <1>3, SpreadToInside DEF Propagate
<1>4. ASSUME NEW ch \in Channel, UnPropagate(ch)
      PROVE  SolidDark' /\ (Floor /\ FloorInv => FloorInv')
  BY <1>4, UnPropagateInside
<1>5. ASSUME NEW c \in Editable, NEW b \in Block, Open(c, b) \/ Fill(c, b)
      PROVE  SolidDark' /\ (Floor /\ FloorInv => FloorInv')
  BY <1>5, EditInside
<1>6. CASE UNCHANGED vars
  BY <1>6 DEF SolidDark, FloorInv, vars
<1> QED
  BY <1>1, <1>2, <1>3, <1>4, <1>5, <1>6 DEF Next, Search

LEMMA InsideTyped ==
  Shape /\ FloorInv => TypeOK
<1> SUFFICES ASSUME Shape, FloorInv PROVE TypeOK
  OBVIOUS
<1>1. ASSUME NEW ch \in Channel, NEW i \in DOMAIN removal[ch]
      PROVE  removal[ch][i] \in Cell \X Int /\ removal[ch][i][2] <= MaxLight
  <2>1. removal[ch] \in Seq(Mark)
    BY DEF Shape
  <2>2. removal[ch][i] \in Mark
    BY <1>1, <2>1
  <2>3. removal[ch][i] \in Queued(removal[ch])
    BY <1>1 DEF Queued
  <2>4. removal[ch][i][1] \in Cell
    BY <2>3 DEF FloorInv
  <2> QED
    BY <2>2, <2>4 DEF Mark
<1>2. ASSUME NEW ch \in Channel, NEW i \in DOMAIN spread[ch]
      PROVE  spread[ch][i] \in ((-1)..Width) \X ((-1)..Height)
  BY <1>2 DEF FloorInv, Queued, Near
<1> QED
  BY <1>1, <1>2 DEF TypeOK, Shape

(* The light fits into its four bits, and no search leaves the world but   *)
(* to look at the rows next to it, for every terrain with a floor that is  *)
(* not dug away: edits may go up to the sky.                               *)
THEOREM LightTypeCorrect ==
  ASSUME Floor
  PROVE  Spec => []TypeOK
<1>1. Init => Shape /\ SolidDark /\ FloorInv
  BY ShapeInit, InsideInit
<1>2. (Shape /\ SolidDark /\ FloorInv) /\ [Next]_vars => (Shape /\ SolidDark /\ FloorInv)'
  BY ShapeStep, InsideStep
<1>3. Shape /\ SolidDark /\ FloorInv => TypeOK
  BY InsideTyped
<1> QED
  BY <1>1, <1>2, <1>3, PTL DEF Spec

(* Solid blocks are never lit, not even between two steps of a search, but *)
(* for the torch light of an emitter: light does not pass through walls.   *)
THEOREM SolidAlwaysDark == Spec => []SolidDark
<1>1. Init => Shape /\ SolidDark
  BY ShapeInit, InsideInit
<1>2. (Shape /\ SolidDark) /\ [Next]_vars => (Shape /\ SolidDark)'
  BY ShapeStep, InsideStep
<1> QED
  BY <1>1, <1>2, PTL DEF Spec

-----------------------------------------------------------------------------
(* The generation, which never looks sideways, and the sun after it.       *)

(* The land of heights h and a sea of one level, with no overhangs: what   *)
(* worldgen.lua makes (the wood of its trees stands on the ground, their   *)
(* leaves are not solid).                                                  *)
Land(world, h, sea) ==
  \A c \in Cell : /\ world[c] \in Solid <=> c[2] <= h[c[1]]
                  /\ world[c] \in Liquid <=> h[c[1]] < c[2] /\ c[2] <= sea

Heights == [0..(Width - 1) -> Int]
Seas    == {s \in Int : s < Height}

Columns == \A t \in Terrain : \E h \in Heights, sea \in Seas : Land(t, h, sea)

(* What the sun leaves in row y, and above the world.                      *)
Depth(sea, y) == IF y > sea THEN 0 ELSE sea - y + 1

Full(sea, y) == IF Depth(sea, y) > MaxLight THEN 0 ELSE MaxLight - Depth(sea, y)

(* Full falls by one with every row of water.                              *)
LEMMA FullFacts ==
  ASSUME NEW sea \in Int, NEW y \in Int
  PROVE  /\ Full(sea, y) \in Nat /\ Full(sea, y) <= MaxLight
         /\ y > sea => Full(sea, y) = MaxLight
         /\ \A z \in Int : z >= y => Full(sea, y) <= Full(sea, z)
         /\ Full(sea, y) <= Full(sea, y - 1) + 1
         /\ y - 1 <= sea /\ Full(sea, y) >= 1 => Full(sea, y - 1) = Full(sea, y) - 1
<1>1. MaxLight \in Nat
  BY LightAssumption
<1> QED
  BY <1>1 DEF Full, Depth

(* In column x the sun has come down to row k, from where it goes on, or   *)
(* it is where it gets to.                                                 *)
Reached(sea, x, k) ==
  /\ \A c \in Cell : c[1] = x /\ blocks[c] \notin Solid =>
       light["sun"][c] = IF c[2] >= k THEN Full(sea, c[2]) ELSE 0
  /\ \A n \in Queued(spread["sun"]) : n[1] = x => n[2] >= k
  /\ \/ <<x, k>> \in Queued(spread["sun"])
     \/ \A c \in Cell : c[1] = x /\ blocks[c] \notin Solid => light["sun"][c] = Full(sea, c[2])

Sinking(h, sea) ==
  /\ Land(blocks, h, sea)
  /\ \A n \in Queued(spread["sun"]) :
       n[1] \in 0..(Width - 1) /\ (n[2] = Height \/ (n \in Cell /\ blocks[n] \notin Solid))
  /\ \A x \in 0..(Width - 1) : \E k \in 0..Height : Reached(sea, x, k)

SunSinks == \E h \in Heights, sea \in Seas : Sinking(h, sea)

(* Until the first edit.                                                   *)
GenerationInv ==
  /\ generating => edits = 0
  /\ edits = 0 => /\ \A ch \in Channel : removal[ch] = <<>>
                  /\ spread["torch"] = <<>>
                  /\ ~generating => spread["sun"] = <<>>
                  /\ SunSinks

(* The generation begins in the dark, with the sky above each column.      *)
LEMMA GenerationInit ==
  ASSUME Columns
  PROVE  Init => GenerationInv
<1> SUFFICES ASSUME Init PROVE GenerationInv
  OBVIOUS
<1>1. Width \in Nat /\ Height \in Nat
  BY LightAssumption
<1>2. PICK h \in Heights, sea \in Seas : Land(blocks, h, sea)
  BY DEF Init, Columns
<1>3. spread["sun"] = [i \in 1..Width |-> <<i - 1, Height>>] /\ spread["torch"] = <<>>
  BY DEF Init, Channel
<1>4. \A c \in Cell : light["sun"][c] = 0 /\ c[2] \in 0..(Height - 1)
  BY DEF Init, Channel, Cell
<1>5. ASSUME NEW n \in Queued(spread["sun"]) PROVE n[1] \in 0..(Width - 1) /\ n[2] = Height
  <2>1. PICK i \in 1..Width : n = <<i - 1, Height>>
    BY <1>3, <1>5 DEF Queued
  <2> QED
    BY <1>1, <2>1
<1>6. ASSUME NEW x \in 0..(Width - 1) PROVE Reached(sea, x, Height)
  <2>1. <<x, Height>> \in Queued(spread["sun"])
    <3>1. x + 1 \in 1..Width /\ (x + 1) - 1 = x
      BY <1>1
    <3>2. x + 1 \in DOMAIN spread["sun"] /\ spread["sun"][x + 1] = <<x, Height>>
      BY <1>3, <3>1
    <3> QED
      BY <3>2 DEF Queued
  <2>2. \A c \in Cell : ~(c[2] >= Height)
    BY <1>1, <1>4
  <2>3. \A n \in Queued(spread["sun"]) : n[2] >= Height
    BY <1>1, <1>5
  <2> QED
    BY <1>4, <2>1, <2>2, <2>3 DEF Reached
<1>7. Height \in 0..Height
  BY <1>1
<1>8. Sinking(h, sea)
  <2>1. \A x \in 0..(Width - 1) : \E k \in 0..Height : Reached(sea, x, k)
    BY <1>6, <1>7
  <2> QED
    BY <1>2, <1>5, <2>1 DEF Sinking
<1>9. SunSinks
  BY <1>8 DEF SunSinks
<1>10. \A ch \in Channel : removal[ch] = <<>>
  BY DEF Init
<1>11. generating = TRUE /\ edits = 0
  BY DEF Init
<1> QED
  BY <1>3, <1>9, <1>10, <1>11 DEF GenerationInv

(* A node of the generation makes at most the node below it as bright as   *)
(* the sun will leave it.                                                  *)
LEMMA GenerateEffect ==
  ASSUME Shape, Generate, NEW h \in Heights, NEW sea \in Seas, Sinking(h, sea),
         NEW n, n = Head(spread["sun"]), NEW b, b = Below(n)
  PROVE  /\ n \in Node /\ n \in Queued(spread["sun"]) /\ b[1] = n[1] /\ b[2] = n[2] - 1
         /\ \A d \in Cell : light'["sun"][d] = IF Raised("sun", n, b) /\ d = b THEN Full(sea, b[2])
                                               ELSE light["sun"][d]
         /\ \A m \in Queued(spread'["sun"]) :
              m \in Queued(spread["sun"]) \/ (Raised("sun", n, b) /\ m = b)
         /\ \A m \in Queued(spread["sun"]) : m # n => m \in Queued(spread'["sun"])
         /\ Raised("sun", n, b) =>
              b \in Cell /\ blocks[b] \notin Solid /\ b \in Queued(spread'["sun"])
         /\ ~Raised("sun", n, b) /\ b \in Cell /\ blocks[b] \notin Solid =>
              light["sun"][b] >= Full(sea, n[2])
<1> DEFINE a      == Above(n)
           raised == {m \in {b, a} : Raised("sun", n, m)}
           q      == Picked(n, raised)
<1>1. "sun" \in Channel /\ spread["sun"] \in Seq(Node) /\ spread["sun"] # <<>>
  BY DEF Generate, Shape, Channel
<1>2. /\ n \in Node /\ Tail(spread["sun"]) \in Seq(Node)
      /\ Queued(spread["sun"]) = {n} \cup Queued(Tail(spread["sun"]))
  BY <1>1, QueuedHeadTail
<1>3. b \in Neighbors(n) /\ a \in Neighbors(n)
  BY DEF Neighbors
<1>4. raised \subseteq Neighbors(n)
  BY <1>3
<1>5. q \in Seq(Node) /\ Queued(q) = raised
  BY <1>2, <1>4, QueuedPicked
<1>6. /\ light' = [light EXCEPT !["sun"] = [d \in Cell |-> IF d \in raised THEN Passed("sun", n, d)
                                                           ELSE light["sun"][d]]]
      /\ spread' = [spread EXCEPT !["sun"] = Tail(spread["sun"]) \o q]
  BY DEF Generate, SpreadTo, Shape, Picked
<1>7. /\ Width \in Nat /\ Height \in Nat /\ MaxLight \in Nat /\ sea \in Int /\ sea < Height
      /\ n[1] \in 0..(Width - 1) /\ n[2] \in Int
      /\ n[2] = Height \/ (n \in Cell /\ blocks[n] \notin Solid)
  BY <1>2, LightAssumption DEF Sinking, Seas, Node
<1>8. n = <<n[1], n[2]>> /\ b = <<n[1], n[2] - 1>> /\ a = <<n[1], n[2] + 1>>
  BY <1>2 DEF Node, Below, Above
<1>9. b[1] = n[1] /\ b[2] = n[2] - 1 /\ a[1] = n[1] /\ a[2] = n[2] + 1 /\ a # b
  BY <1>7, <1>8
<1> HIDE DEF q
<1> DEFINE y == n[2]
           full == Full(sea, y)
           over == Full(sea, y + 1)
           under == Full(sea, y - 1)
<1>23. /\ full \in Nat /\ over \in Nat /\ full <= over
       /\ y > sea => full = MaxLight
       /\ y - 1 > sea => under = MaxLight
       /\ y - 1 <= sea /\ full >= 1 => under = full - 1
  <2>1. y \in Int /\ y + 1 \in Int /\ y - 1 \in Int /\ y + 1 >= y
    BY <1>7
  <2> HIDE DEF y
  <2>2. full \in Nat /\ (y > sea => full = MaxLight) /\ (y - 1 <= sea /\ full >= 1 => under = full - 1)
    BY <1>7, <2>1, FullFacts
  <2>3. over \in Nat
    BY <1>7, <2>1, FullFacts
  <2>4. full <= over
    BY <1>7, <2>1, FullFacts
  <2>5. y - 1 > sea => under = MaxLight
    BY <1>7, <2>1, FullFacts
  <2> QED
    BY <2>2, <2>3, <2>4, <2>5
<1>10. PICK k \in 0..Height : Reached(sea, n[1], k)
  BY <1>7 DEF Sinking
<1>11. n[2] >= k
  BY <1>2, <1>10 DEF Reached
<1>12. LightAt("sun", n) = Full(sea, n[2])
  <2>1. CASE n \in Cell
    <3>1. blocks[n] \notin Solid
      BY <1>7, <2>1 DEF Cell
    <3>2. light["sun"][n] = Full(sea, n[2])
      BY <1>10, <1>11, <2>1, <3>1 DEF Reached
    <3> QED
      BY <2>1, <3>2 DEF LightAt
  <2>2. CASE n \notin Cell
    <3>1. LightAt("sun", n) = MaxLight
      BY <1>7, <2>2 DEF LightAt, InHeight
    <3>2. Full(sea, n[2]) = MaxLight
      BY <1>7, <2>2, FullFacts
    <3> QED
      BY <3>1, <3>2
  <2> QED
    BY <2>1, <2>2
<1>13. ~Raised("sun", n, a)
  <2> SUFFICES ASSUME Raised("sun", n, a) PROVE FALSE
    OBVIOUS
  <2>1. a \in Cell /\ blocks[a] \notin Solid
    BY <1>1, <1>2, <1>3, RaisedCell
  <2>2. LightAt("sun", a) = Full(sea, n[2] + 1)
    <3>1. a[2] >= k
      BY <1>7, <1>9, <1>11
    <3>2. light["sun"][a] = Full(sea, a[2])
      BY <1>9, <1>10, <2>1, <3>1 DEF Reached
    <3> QED
      BY <1>9, <2>1, <3>2 DEF LightAt
  <2>3. Full(sea, n[2]) <= Full(sea, n[2] + 1) /\ Full(sea, n[2]) \in Nat /\ Full(sea, n[2] + 1) \in Nat
    BY <1>23
  <2>4. LightAt("sun", a) + 2 <= LightAt("sun", n)
    BY <1>9 DEF Raised
  <2> QED
    BY <1>12, <2>2, <2>3, <2>4
<1>14. \A m : m \in raised <=> m = b /\ Raised("sun", n, b)
  BY <1>13
<1> HIDE DEF raised, a
<1>15. ASSUME Raised("sun", n, b)
       PROVE  b \in Cell /\ blocks[b] \notin Solid /\ Passed("sun", n, b) = Full(sea, b[2])
  <2>1. b \in Cell /\ blocks[b] \notin Solid
    BY <1>1, <1>2, <1>3, <1>15, RaisedCell
  <2>2. h[n[1]] \in Int /\ ~(b[2] <= h[n[1]])
    BY <1>7, <1>9, <2>1 DEF Heights, Sinking, Land
  <2>3. IsLiquid(b) <=> n[2] - 1 <= sea
    BY <1>7, <1>9, <2>1, <2>2 DEF Sinking, Land, IsLiquid
  <2>4. LightAt("sun", b) + 1 <= Full(sea, n[2]) /\ LightAt("sun", b) \in Nat
    BY <1>1, <1>12, <1>15, LightAtLevel DEF Raised
  <2>5. CASE n[2] - 1 <= sea
    <3>1. Passed("sun", n, b) = Full(sea, n[2]) - 1
      BY <1>12, <2>3, <2>5 DEF Passed
    <3>2. Full(sea, n[2]) \in Nat /\ Full(sea, n[2]) >= 1
      BY <1>23, <2>4
    <3>3. Full(sea, n[2] - 1) = Full(sea, n[2]) - 1
      BY <1>23, <2>5, <3>2
    <3> QED
      BY <1>9, <2>1, <3>1, <3>3
  <2>6. CASE n[2] - 1 > sea
    <3>1. ~IsLiquid(b)
      BY <1>7, <2>3, <2>6
    <3>2. Passed("sun", n, b) = Full(sea, n[2])
      BY <1>12, <3>1 DEF Passed
    <3>3. Full(sea, n[2]) = MaxLight /\ Full(sea, n[2] - 1) = MaxLight
      BY <1>7, <1>23, <2>6
    <3> QED
      BY <1>9, <2>1, <3>2, <3>3
  <2> QED
    BY <1>7, <2>5, <2>6
<1>16. \A d \in Cell : light'["sun"][d] = IF Raised("sun", n, b) /\ d = b THEN Full(sea, b[2])
                                          ELSE light["sun"][d]
  <2>1. \A d \in Cell : light'["sun"][d] = IF d \in raised THEN Passed("sun", n, d) ELSE light["sun"][d]
    BY <1>1, <1>6 DEF Shape
  <2> QED
    BY <1>14, <1>15, <2>1
<1>17. Queued(spread'["sun"]) = Queued(Tail(spread["sun"])) \cup raised
  <2>1. spread'["sun"] = Tail(spread["sun"]) \o q
    BY <1>1, <1>6 DEF Shape
  <2>2. Tail(spread["sun"]) \in Seq(Node) /\ q \in Seq(Node)
    BY <1>2, <1>5
  <2>3. Queued(Tail(spread["sun"]) \o q) = Queued(Tail(spread["sun"])) \cup Queued(q)
    BY <2>2, QueuedConcat
  <2> QED
    BY <1>5, <2>1, <2>3
<1>18. ASSUME ~Raised("sun", n, b), b \in Cell, blocks[b] \notin Solid
       PROVE  light["sun"][b] >= Full(sea, n[2])
  <2>1. LightAt("sun", b) = light["sun"][b] /\ LightAt("sun", b) \in Nat /\ LightAt("sun", n) \in Nat
    BY <1>1, <1>18, LightAtLevel DEF LightAt
  <2>2. ~(LightAt("sun", b) + 1 <= LightAt("sun", n))
    BY <1>18, <2>1 DEF Raised, IsSolid
  <2> QED
    BY <1>12, <2>1, <2>2
<1>19. \A m \in Queued(spread'["sun"]) :
         m \in Queued(spread["sun"]) \/ (Raised("sun", n, b) /\ m = b)
  <2> SUFFICES ASSUME NEW m \in Queued(spread'["sun"])
               PROVE  m \in Queued(spread["sun"]) \/ (Raised("sun", n, b) /\ m = b)
    OBVIOUS
  <2>1. m \in Queued(Tail(spread["sun"])) \/ m \in raised
    BY <1>17
  <2> QED
    BY <1>2, <1>14, <2>1
<1>20. \A m \in Queued(spread["sun"]) : m # n => m \in Queued(spread'["sun"])
  BY <1>2, <1>17
<1>21. Raised("sun", n, b) => b \in Cell /\ blocks[b] \notin Solid /\ b \in Queued(spread'["sun"])
  BY <1>14, <1>15, <1>17
<1>22. n \in Queued(spread["sun"])
  BY <1>2
<1> QED
  BY <1>2, <1>9, <1>16, <1>18, <1>19, <1>20, <1>21, <1>22

LEMMA GenerateSinks ==
  ASSUME Shape, Generate, NEW h \in Heights, NEW sea \in Seas, Sinking(h, sea)
  PROVE  Sinking(h, sea)'
<1> DEFINE n == Head(spread["sun"])
           b == Below(n)
           raised == Raised("sun", n, b)
<1>1. /\ n \in Node /\ n \in Queued(spread["sun"]) /\ b[1] = n[1] /\ b[2] = n[2] - 1
      /\ \A d \in Cell : light'["sun"][d] = IF raised /\ d = b THEN Full(sea, b[2])
                                            ELSE light["sun"][d]
      /\ \A m \in Queued(spread'["sun"]) : m \in Queued(spread["sun"]) \/ (raised /\ m = b)
      /\ \A m \in Queued(spread["sun"]) : m # n => m \in Queued(spread'["sun"])
      /\ raised => b \in Cell /\ blocks[b] \notin Solid /\ b \in Queued(spread'["sun"])
      /\ ~raised /\ b \in Cell /\ blocks[b] \notin Solid => light["sun"][b] >= Full(sea, n[2])
  BY GenerateEffect
<1>2. blocks' = blocks
  BY DEF Generate, SpreadTo
<1>3. /\ Width \in Nat /\ Height \in Nat /\ MaxLight \in Nat /\ sea \in Int /\ sea < Height
      /\ n[1] \in 0..(Width - 1) /\ n[2] \in Int
      /\ n[2] = Height \/ (n \in Cell /\ blocks[n] \notin Solid)
  BY <1>1, LightAssumption DEF Sinking, Seas, Node
<1>4. \A d \in Cell : d = <<d[1], d[2]>> /\ d[1] \in 0..(Width - 1) /\ d[2] \in 0..(Height - 1)
  BY DEF Cell
<1>5. n = <<n[1], n[2]>> /\ b = <<n[1], n[2] - 1>>
  BY <1>1 DEF Node, Below
<1> HIDE DEF n, b, raised
<1>6. Land(blocks, h, sea)'
  BY <1>2 DEF Sinking, Land
<1>7. \A m \in Queued(spread'["sun"]) :
        m[1] \in 0..(Width - 1) /\ (m[2] = Height \/ (m \in Cell /\ blocks'[m] \notin Solid))
  <2> SUFFICES ASSUME NEW m \in Queued(spread'["sun"])
               PROVE  m[1] \in 0..(Width - 1) /\ (m[2] = Height \/ (m \in Cell /\ blocks[m] \notin Solid))
    BY <1>2
  <2>1. CASE m \in Queued(spread["sun"])
    BY <2>1 DEF Sinking
  <2>2. CASE raised /\ m = b
    BY <1>1, <1>3, <2>2
  <2> QED
    BY <1>1, <2>1, <2>2
<1>8. ASSUME NEW x \in 0..(Width - 1), x # n[1] PROVE \E k \in 0..Height : Reached(sea, x, k)'
  <2>1. PICK k \in 0..Height : Reached(sea, x, k)
    BY DEF Sinking
  <2>2. \A c \in Cell : c[1] = x => light'["sun"][c] = light["sun"][c]
    BY <1>1, <1>8
  <2>3. \A m \in Queued(spread'["sun"]) : m[1] = x => m \in Queued(spread["sun"])
    BY <1>1, <1>8
  <2>4. <<x, k>> \in Queued(spread["sun"]) => <<x, k>> \in Queued(spread'["sun"])
    <3>1. <<x, k>> # n
      BY <1>5, <1>8
    <3> QED
      BY <1>1, <3>1
  <2>5. Reached(sea, x, k)'
    BY <1>2, <2>1, <2>2, <2>3, <2>4 DEF Reached
  <2> QED
    BY <2>5
<1>9. ASSUME NEW x \in 0..(Width - 1), x = n[1] PROVE \E k \in 0..Height : Reached(sea, x, k)'
  <2>1. PICK k \in 0..Height : Reached(sea, x, k)
    BY DEF Sinking
  <2>2. n[2] >= k /\ k \in Int
    BY <1>1, <1>9, <2>1 DEF Reached
  <2> DEFINE Lit(l, top) == \A c \in Cell : c[1] = x /\ blocks[c] \notin Solid =>
                               l["sun"][c] = IF c[2] >= top THEN Full(sea, c[2]) ELSE 0
             Whole(l) == \A c \in Cell : c[1] = x /\ blocks[c] \notin Solid =>
                           l["sun"][c] = Full(sea, c[2])
  <2>3. Lit(light, k) /\ \A m \in Queued(spread["sun"]) : m[1] = x => m[2] >= k
    BY <2>1 DEF Reached
  <2>4. <<x, k>> \in Queued(spread["sun"]) \/ Whole(light)
    BY <2>1 DEF Reached
  <2>5. Whole(light) => Whole(light')
    BY <1>1
  <2>6. ASSUME NEW top \in 0..Height, Lit(light', top),
               \A m \in Queued(spread'["sun"]) : m[1] = x => m[2] >= top,
               <<x, top>> \in Queued(spread'["sun"]) \/ Whole(light')
        PROVE  \E j \in 0..Height : Reached(sea, x, j)'
    <3>1. Reached(sea, x, top)'
      BY <1>2, <2>6 DEF Reached
    <3> QED
      BY <3>1
  <2>7. CASE raised /\ n[2] = k
    <3>1. k - 1 \in 0..Height /\ b = <<x, k - 1>> /\ b[2] = k - 1
      BY <1>1, <1>3, <1>4, <1>5, <1>9, <2>7
    <3>2. Lit(light', k - 1)
      <4> SUFFICES ASSUME NEW c \in Cell, c[1] = x, blocks[c] \notin Solid
                   PROVE  light'["sun"][c] = IF c[2] >= k - 1 THEN Full(sea, c[2]) ELSE 0
        OBVIOUS
      <4>1. CASE c = b
        BY <1>1, <2>7, <3>1, <4>1
      <4>2. CASE c # b
        <5>1. c[2] # k - 1 /\ c[2] \in Int
          BY <1>4, <3>1, <4>2
        <5>2. light'["sun"][c] = light["sun"][c]
          BY <1>1, <4>2
        <5>3. c[2] >= k <=> c[2] >= k - 1
          BY <2>2, <5>1
        <5> QED
          BY <2>3, <5>2, <5>3
      <4> QED
        BY <4>1, <4>2
    <3>3. \A m \in Queued(spread'["sun"]) : m[1] = x => m[2] >= k - 1
      <4> SUFFICES ASSUME NEW m \in Queued(spread'["sun"]), m[1] = x PROVE m[2] >= k - 1
        OBVIOUS
      <4>1. m[2] \in Int
        BY <1>3, <1>4, <1>7
      <4>2. CASE m \in Queued(spread["sun"])
        BY <2>2, <2>3, <4>1, <4>2
      <4>3. CASE m = b
        BY <2>2, <3>1, <4>3
      <4> QED
        BY <1>1, <4>2, <4>3
    <3>4. <<x, k - 1>> \in Queued(spread'["sun"])
      BY <1>1, <2>7, <3>1
    <3> QED
      BY <2>6, <3>1, <3>2, <3>3, <3>4
  <2>8. CASE ~(raised /\ n[2] = k)
    <3>1. raised => b[2] >= k /\ n # <<x, k>>
      BY <1>1, <1>3, <1>5, <2>2, <2>8
    <3>2. Lit(light', k)
      BY <1>1, <2>3, <3>1
    <3>3. \A m \in Queued(spread'["sun"]) : m[1] = x => m[2] >= k
      BY <1>1, <2>3, <3>1
    <3>4. <<x, k>> \in Queued(spread'["sun"]) \/ Whole(light')
      <4>1. CASE Whole(light)
        BY <2>5, <4>1
      <4>2. CASE <<x, k>> \in Queued(spread["sun"]) /\ n # <<x, k>>
        BY <1>1, <4>2
      <4>3. CASE n = <<x, k>>
        <5>1. ~raised /\ n[2] = k
          BY <3>1, <4>3
        <5> SUFFICES ASSUME NEW c \in Cell, c[1] = x, blocks[c] \notin Solid
                     PROVE  light["sun"][c] = Full(sea, c[2])
          BY <2>5
        <5>2. CASE c[2] >= k
          BY <2>3, <5>2
        <5>3. CASE c[2] < k
          <6>1. light["sun"][c] = 0 /\ c[2] \in Int /\ ~(c[2] >= k)
            BY <1>4, <2>2, <2>3, <5>3
          <6>2. ~(c[2] <= h[x]) /\ h[x] \in Int
            BY DEF Sinking, Land, Heights
          <6>3. b[2] = k - 1 /\ b[1] = x /\ b = <<x, k - 1>> /\ k - 1 >= c[2]
            BY <1>1, <1>5, <1>9, <2>2, <5>1, <5>3, <6>1
          <6>4. b \in Cell
            BY <1>3, <1>4, <2>2, <6>1, <6>3 DEF Cell
          <6>5. blocks[b] \notin Solid
            <7>1. blocks[b] \in Solid <=> b[2] <= h[b[1]]
              BY <6>4 DEF Sinking, Land
            <7> QED
              BY <2>2, <6>1, <6>2, <6>3, <7>1
          <6>6. light["sun"][b] >= Full(sea, k)
            BY <1>1, <5>1, <6>4, <6>5
          <6>7. light["sun"][b] = 0
            <7>1. ~(b[2] >= k)
              BY <2>2, <6>3
            <7> QED
              BY <2>3, <6>3, <6>4, <6>5, <7>1
          <6>8. Full(sea, k) = 0
            <7>1. Full(sea, k) \in Nat
              BY <1>3, <2>2, FullFacts
            <7> QED
              BY <6>6, <6>7, <7>1
          <6>9. Full(sea, c[2]) \in Nat /\ Full(sea, c[2]) <= Full(sea, k)
            <7>1. k >= c[2]
              BY <2>2, <5>3, <6>1
            <7> QED
              BY <1>3, <2>2, <6>1, <7>1, FullFacts
          <6> QED
            BY <6>1, <6>8, <6>9
        <5> QED
          BY <1>4, <2>2, <5>2, <5>3
      <4> QED
        BY <2>4, <4>1, <4>2, <4>3
    <3> QED
      BY <2>6, <3>2, <3>3, <3>4
  <2> QED
    BY <2>7, <2>8
<1>10. \A x \in 0..(Width - 1) : \E k \in 0..Height : Reached(sea, x, k)'
  BY <1>8, <1>9
<1> QED
  BY <1>6, <1>7, <1>10 DEF Sinking

LEMMA GenerationStep ==
  Shape /\ GenerationInv /\ [Next]_vars => GenerationInv'
<1> SUFFICES ASSUME Shape, GenerationInv, [Next]_vars PROVE GenerationInv'
  OBVIOUS
<1>1. edits \in Nat /\ "sun" \in Channel /\ "torch" \in Channel
  BY LightAssumption DEF Shape, Channel
<1>2. CASE Generate
  <2>1. generating /\ edits = 0 /\ UNCHANGED <<generating, edits, removal>>
    BY <1>2 DEF Generate, SpreadTo, GenerationInv
  <2>2. PICK h \in Heights, sea \in Seas : Sinking(h, sea)
    BY <2>1 DEF GenerationInv, SunSinks
  <2>3. Sinking(h, sea)'
    BY <1>2, <2>2, GenerateSinks
  <2>4. SunSinks'
    BY <2>3 DEF SunSinks
  <2>5. spread'["torch"] = spread["torch"]
    BY <1>1, <1>2 DEF Generate, SpreadTo, Shape
  <2> QED
    BY <2>1, <2>4, <2>5 DEF GenerationInv
<1>3. CASE Generated
  <2>1. spread["sun"] = <<>> /\ UNCHANGED <<blocks, light, removal, spread, edits>> /\ ~generating'
    BY <1>3 DEF Generated
  <2>2. ASSUME NEW h \in Heights, NEW sea \in Seas, Sinking(h, sea) PROVE Sinking(h, sea)'
    BY <2>1, <2>2 DEF Sinking, Reached, Land, Queued
  <2>3. SunSinks => SunSinks'
    BY <2>2 DEF SunSinks
  <2> QED
    BY <2>1, <2>3 DEF GenerationInv
<1>4. ASSUME NEW ch \in Channel, Propagate(ch) \/ UnPropagate(ch) PROVE GenerationInv'
  <2>1. ~generating /\ (removal[ch] # <<>> \/ spread[ch] # <<>>)
    BY <1>4 DEF Propagate, UnPropagate, Turn
  <2>2. edits # 0
    BY <2>1 DEF GenerationInv, Channel
  <2>3. UNCHANGED <<generating, edits>>
    BY <1>4 DEF Propagate, UnPropagate, SpreadTo
  <2> QED
    BY <2>1, <2>2, <2>3 DEF GenerationInv
<1>5. ASSUME NEW c \in Editable, NEW b \in Block, Open(c, b) \/ Fill(c, b) PROVE GenerationInv'
  <2>1. ~generating /\ generating' = generating /\ edits' = edits + 1
    BY <1>5 DEF Open, Fill, Editing, AtRest
  <2> QED
    BY <1>1, <2>1 DEF GenerationInv
<1>6. CASE UNCHANGED vars
  <2>1. UNCHANGED <<blocks, light, removal, spread, edits, generating>>
    BY <1>6 DEF vars
  <2>2. ASSUME NEW h \in Heights, NEW sea \in Seas, Sinking(h, sea) PROVE Sinking(h, sea)'
    BY <2>1, <2>2 DEF Sinking, Reached, Land, Queued
  <2>3. SunSinks => SunSinks'
    BY <2>2 DEF SunSinks
  <2> QED
    BY <2>1, <2>3 DEF GenerationInv
<1> QED
  BY <1>2, <1>3, <1>4, <1>5, <1>6 DEF Next, Search

(* The sun has come down everywhere.                                       *)
Settled(h, sea) ==
  /\ Land(blocks, h, sea)
  /\ \A c \in Cell : blocks[c] \notin Solid => light["sun"][c] = Full(sea, c[2])

(* Where the generation has ended, every column is settled.                *)
LEMMA SunSettles ==
  ASSUME GenerationInv, edits = 0, spread["sun"] = <<>>
  PROVE  \E h \in Heights, sea \in Seas : Settled(h, sea)
<1>1. PICK h \in Heights, sea \in Seas : Sinking(h, sea)
  BY DEF GenerationInv, SunSinks
<1>2. Queued(spread["sun"]) = {}
  BY DEF Queued
<1>3. ASSUME NEW c \in Cell, blocks[c] \notin Solid PROVE light["sun"][c] = Full(sea, c[2])
  <2>1. c[1] \in 0..(Width - 1)
    BY DEF Cell
  <2>2. PICK k \in 0..Height : Reached(sea, c[1], k)
    BY <1>1, <2>1 DEF Sinking
  <2> QED
    BY <1>2, <1>3, <2>2 DEF Reached
<1>4. Settled(h, sea)
  BY <1>1, <1>3 DEF Settled, Sinking
<1> QED
  BY <1>4

(* Then no neighbour has more to give to an open cell, and the one above   *)
(* has given it what it has.                                               *)
LEMMA SettledExact ==
  ASSUME Shape, SolidDark, NEW h \in Heights, NEW sea \in Seas, Settled(h, sea),
         NEW c \in Cell, blocks[c] \notin Solid
  PROVE  /\ \A n \in Givers("sun", c) : light["sun"][c] >= Passed("sun", n, c)
         /\ light["sun"][c] = 0 \/ light["sun"][c] = Passed("sun", Above(c), c)
<1> DEFINE y == c[2]
           full == Full(sea, y)
           over == Full(sea, y + 1)
           under == Full(sea, y - 1)
<1>1. /\ Width \in Nat /\ Height \in Nat /\ MaxLight \in Nat /\ sea \in Int /\ sea < Height
      /\ "sun" \in Channel /\ c \in Node
      /\ c = <<c[1], y>> /\ c[1] \in 0..(Width - 1) /\ y \in 0..(Height - 1)
  BY LightAssumption, CellNodes DEF Seas, Cell, Channel
<1>2. /\ full \in Nat /\ over \in Nat /\ under \in Nat
      /\ under <= full /\ full <= over /\ over <= full + 1
      /\ y > sea => full = MaxLight /\ over = MaxLight
      /\ y <= sea /\ over >= 1 => full = over - 1
  <2>1. y \in Int /\ y + 1 \in Int /\ y - 1 \in Int /\ y + 1 >= y /\ y >= y - 1 /\ (y + 1) - 1 = y
    BY <1>1
  <2> HIDE DEF y
  <2>2. full \in Nat /\ (y > sea => full = MaxLight)
    BY <1>1, <2>1, FullFacts
  <2>3. over \in Nat /\ (y + 1 > sea => over = MaxLight)
    BY <1>1, <2>1, FullFacts
  <2>4. under \in Nat
    BY <1>1, <2>1, FullFacts
  <2>5. full <= over
    BY <1>1, <2>1, FullFacts
  <2>6. under <= full
    BY <1>1, <2>1, FullFacts
  <2>7. Full(sea, y + 1) <= Full(sea, (y + 1) - 1) + 1
    BY <1>1, <2>1, FullFacts
  <2>8. (y + 1) - 1 <= sea /\ Full(sea, y + 1) >= 1 => Full(sea, (y + 1) - 1) = Full(sea, y + 1) - 1
    BY <1>1, <2>1, FullFacts
  <2>9. y > sea => y + 1 > sea
    BY <1>1, <2>1
  <2> QED
    BY <2>1, <2>2, <2>3, <2>4, <2>5, <2>6, <2>7, <2>8, <2>9
<1>3. light["sun"][c] = full
  BY DEF Settled
<1>4. \A d \in Cell : light["sun"][d] = (IF blocks[d] \in Solid THEN 0 ELSE Full(sea, d[2]))
  BY <1>1 DEF Settled, SolidDark
<1>5. h[c[1]] \in Int /\ ~(y <= h[c[1]]) /\ (IsLiquid(c) <=> y <= sea)
  BY <1>1 DEF Settled, Land, Heights, IsLiquid
<1>6. LightAt("sun", Above(c)) = over
  <2>1. Above(c) = <<c[1], y + 1>>
    BY DEF Above
  <2>2. CASE y + 1 = Height
    <3>1. Above(c) \notin Cell /\ ~InHeight(Above(c))
      BY <1>1, <2>1, <2>2 DEF Cell, InHeight
    <3>2. over = MaxLight
      BY <1>1, <2>2, FullFacts
    <3> QED
      BY <3>1, <3>2 DEF LightAt
  <2>3. CASE y + 1 # Height
    <3>1. Above(c) \in Cell
      BY <1>1, <2>1, <2>3 DEF Cell
    <3>2. blocks[Above(c)] \notin Solid
      BY <1>1, <1>5, <2>1, <3>1 DEF Settled, Land
    <3> QED
      BY <1>4, <2>1, <3>1, <3>2 DEF LightAt
  <2> QED
    BY <2>2, <2>3
<1>7. c = Below(Above(c))
  BY <1>1 DEF Above, Below
<1>8. Passed("sun", Above(c), c) = IF y <= sea THEN over - 1 ELSE over
  BY <1>5, <1>6, <1>7 DEF Passed
<1>9. full = 0 \/ full = Passed("sun", Above(c), c)
  BY <1>1, <1>2, <1>8
<1>10. ASSUME NEW n \in Givers("sun", c) PROVE full >= Passed("sun", n, c)
  <2>1. CASE n = Above(c)
    BY <1>1, <1>2, <1>8, <2>1
  <2>2. CASE n # Above(c)
    <3>1. n \in Cell /\ n \in Neighbors(c) /\ n \in Node
      BY <1>1, <1>10, <2>2, GiversAreNeighbors
    <3>2. c # Below(n)
      BY <1>1, <2>2, <3>1, NeighborsBothWays
    <3>3. Passed("sun", n, c) = light["sun"][n] - 1
      BY <3>1, <3>2 DEF Passed, LightAt
    <3>4. n[2] = y \/ n[2] = y - 1
      BY <2>2, <3>1 DEF Neighbors, Left, Right, Below
    <3>5. light["sun"][n] \in {0, full, under}
      BY <1>4, <3>1, <3>4
    <3> QED
      BY <1>2, <3>3, <3>5
  <2> QED
    BY <2>1, <2>2
<1> QED
  BY <1>3, <1>9, <1>10

(* An upper bound in a set is its maximum.                                 *)
LEMMA MaxIs ==
  ASSUME NEW S, S \subseteq Int, NEW m \in S, \A x \in S : m >= x
  PROVE  Max(S) = m
<1>1. ASSUME NEW p \in S, \A x \in S : p >= x PROVE p = m
  BY <1>1
<1> QED
  BY <1>1 DEF Max

(* What a neighbour gives is what propagateSunlight passes on to a cell.   *)
LEMMA SunGivenIsPassed ==
  ASSUME NEW c \in Cell, NEW n \in Node
  PROVE  SunGiven(n, c) = Passed("sun", n, c)
<1>1. n = Above(c) <=> c = Below(n)
  BY CellNodes, NeighborsBothWays
<1> QED
  BY <1>1 DEF SunGiven, Passed, IsLiquid

SunInv == Shape /\ SolidDark /\ GenerationInv /\ (~generating => SpreadInv("sun"))

(* The invariant of the sun and its consequences.                          *)
LEMMA SunInvStep ==
  SunInv /\ [Next]_vars => SunInv'
<1> SUFFICES ASSUME SunInv, [Next]_vars PROVE SunInv'
  OBVIOUS
<1>1. Shape' /\ SolidDark' /\ GenerationInv'
  BY ShapeStep, InsideStep, GenerationStep DEF SunInv
<1>2. "sun" \in Channel /\ Shape
  BY DEF SunInv, Channel
<1>3. CASE Generate
  <2>1. generating'
    BY <1>3 DEF Generate
  <2> QED
    BY <1>1, <2>1 DEF SunInv
<1>4. CASE Generated
  <2>1. generating /\ edits = 0 /\ spread["sun"] = <<>>
    BY <1>4 DEF Generated, SunInv, GenerationInv
  <2>2. PICK h \in Heights, sea \in Seas : Settled(h, sea)
    BY <2>1, SunSettles DEF SunInv
  <2>3. ASSUME NEW c \in Cell, blocks[c] \notin Solid, NEW n \in Givers("sun", c)
        PROVE  Served("sun", n, c)
    <3>1. light["sun"][c] >= Passed("sun", n, c)
      BY <2>2, <2>3, SettledExact DEF SunInv
    <3> QED
      BY <3>1 DEF Served, LightAt
  <2>4. SpreadInv("sun")
    BY <2>3 DEF SpreadInv
  <2>5. UNCHANGED <<blocks, light, spread, removal>>
    BY <1>4 DEF Generated
  <2>6. SpreadInv("sun")'
    BY <1>2, <2>4, <2>5, OtherHalfServed
  <2> QED
    BY <1>1, <2>6 DEF SunInv
<1>5. ASSUME NEW ch \in Channel, Propagate(ch) \/ UnPropagate(ch) PROVE SunInv'
  <2>1. SpreadInv("sun")
    BY <1>5 DEF SunInv, Propagate, UnPropagate, Turn
  <2>2. SpreadInv("sun")'
    BY <1>2, <1>5, <2>1, SearchServes
  <2> QED
    BY <1>1, <2>2 DEF SunInv
<1>6. ASSUME NEW c \in Editable, NEW b \in Block, Open(c, b) \/ Fill(c, b) PROVE SunInv'
  <2>1. SpreadInv("sun")
    BY <1>6 DEF SunInv, Open, Fill, Editing, AtRest
  <2>2. SpreadInv("sun")'
    BY <1>2, <1>6, <2>1, EditServes
  <2> QED
    BY <1>1, <2>2 DEF SunInv
<1>7. CASE UNCHANGED vars
  <2>1. UNCHANGED <<blocks, light, spread, removal, generating>>
    BY <1>7 DEF vars
  <2>2. SpreadInv("sun") => SpreadInv("sun")'
    BY <1>2, <2>1, OtherHalfServed
  <2> QED
    BY <1>1, <2>1, <2>2 DEF SunInv
<1> QED
  BY <1>3, <1>4, <1>5, <1>6, <1>7 DEF Next, Search

LEMMA SunInvInit ==
  ASSUME Columns
  PROVE  Init => SunInv
BY ShapeInit, InsideInit, GenerationInit DEF Init, SunInv

(* After the generation and after every edit no open cell is darker than   *)
(* the sun in its neighbours and above it makes it: one half of SunExact.  *)
SunSpread ==
  AtRest => \A c \in Cell : blocks[c] \notin Solid =>
    \A n \in Beside(c) \cup {Above(c)} : light["sun"][c] >= SunGiven(n, c)

LEMMA SunInvSpreads ==
  SunInv => SunSpread
<1> SUFFICES ASSUME SunInv, AtRest, NEW c \in Cell, blocks[c] \notin Solid,
                    NEW n \in Beside(c) \cup {Above(c)}
             PROVE  light["sun"][c] >= SunGiven(n, c)
  BY DEF SunSpread
<1>1. n \in Givers("sun", c) /\ "sun" \in Channel
  BY DEF Beside, Givers, Channel
<1>2. n \in Node
  BY <1>1, GiversAreNeighbors
<1>3. spread["sun"] = <<>> /\ removal["sun"] = <<>> /\ ~generating
  BY DEF AtRest, Idle
<1>4. Queued(spread["sun"]) = {} /\ Queued(removal["sun"]) = {}
  BY <1>3 DEF Queued
<1>5. Served("sun", n, c)
  BY <1>1, <1>3 DEF SunInv, SpreadInv
<1>6. LightAt("sun", c) >= Passed("sun", n, c)
  BY <1>4, <1>5 DEF Served
<1> QED
  BY <1>2, <1>6, SunGivenIsPassed DEF LightAt

LEMMA SunInvGenerated ==
  SunInv => (edits = 0 /\ AtRest => \A c \in Cell : SunLit(c))
<1> SUFFICES ASSUME SunInv, edits = 0, AtRest, NEW c \in Cell
             PROVE  SunLit(c)
  OBVIOUS
<1>1. CASE blocks[c] \in Solid
  BY <1>1 DEF SunInv, SolidDark, Channel, SunLit
<1>2. CASE blocks[c] \notin Solid
  <2> DEFINE S == {0} \cup {SunGiven(n, c) : n \in Beside(c) \cup {Above(c)}}
  <2>1. spread["sun"] = <<>>
    BY DEF AtRest, Idle
  <2>2. PICK h \in Heights, sea \in Seas : Settled(h, sea)
    BY <2>1, SunSettles DEF SunInv
  <2>3. /\ \A n \in Givers("sun", c) : light["sun"][c] >= Passed("sun", n, c)
        /\ light["sun"][c] = 0 \/ light["sun"][c] = Passed("sun", Above(c), c)
    BY <1>2, <2>2, SettledExact DEF SunInv
  <2>4. "sun" \in Channel /\ Shape /\ Givers("sun", c) = Beside(c) \cup {Above(c)}
    BY DEF SunInv, Channel, Givers, Beside
  <2>5. \A n \in Givers("sun", c) : n \in Node /\ SunGiven(n, c) = Passed("sun", n, c)
    BY <2>4, GiversAreNeighbors, SunGivenIsPassed
  <2>6. \A n \in Givers("sun", c) : Passed("sun", n, c) \in Int
    BY <2>4, <2>5, CellNodes, PassedBounds
  <2>7. light["sun"][c] \in Nat
    BY <2>4, LightAssumption DEF Shape, Level
  <2>8. S \subseteq Int
    BY <2>4, <2>5, <2>6
  <2>9. light["sun"][c] \in S
    BY <2>3, <2>4, <2>5
  <2>10. \A x \in S : light["sun"][c] >= x
    BY <2>3, <2>4, <2>5, <2>7
  <2> HIDE DEF S
  <2>11. Max(S) = light["sun"][c]
    BY <2>8, <2>9, <2>10, MaxIs
  <2> QED
    BY <1>2, <2>11 DEF S, SunLit
<1> QED
  BY <1>1, <1>2

(* No sun is missing after any number of edits anywhere, removals of water *)
(* and of roofs included, in a world of columns of land under one sea      *)
(* (Chunk::setBlock, propagateSunlight, unPropagateSunlight).              *)
THEOREM SunAlwaysSpreads ==
  ASSUME Columns
  PROVE  Spec => []SunSpread
<1>1. Init => SunInv
  BY SunInvInit
<1>2. SunInv /\ [Next]_vars => SunInv'
  BY SunInvStep
<1>3. SunInv => SunSpread
  BY SunInvSpreads
<1> QED
  BY <1>1, <1>2, <1>3, PTL DEF Spec

(* calculateSunLighting, which only goes up and down, lights such a world  *)
(* exactly as a full propagation would.                                    *)
THEOREM GeneratedSunExact ==
  ASSUME Columns
  PROVE  Spec => [](edits = 0 /\ AtRest => \A c \in Cell : SunLit(c))
<1>1. Init => SunInv
  BY SunInvInit
<1>2. SunInv /\ [Next]_vars => SunInv'
  BY SunInvStep
<1>3. SunInv => (edits = 0 /\ AtRest => \A c \in Cell : SunLit(c))
  BY SunInvGenerated
<1> QED
  BY <1>1, <1>2, <1>3, PTL DEF Spec

-----------------------------------------------------------------------------
(* No light without a source.                                              *)

(* A removal also puts out cells that have light from elsewhere, and the   *)
(* spreading that follows brings it back.  W says what each cell has, or   *)
(* is to get back.  Each lit cell is sourced: a giver has, or will have,   *)
(* enough for what the cell has or will have.  Or the light is awaited by  *)
(* a node of the removal that is bound to put it out.                      *)

(* What n gives to c next to it when its light is lv.                      *)
Given(ch, lv, n, c) == IF ch = "sun" /\ c = Below(n) /\ ~IsLiquid(c) THEN lv ELSE lv - 1

Hope(ch, W, n) == IF n \in Cell /\ light[ch][n] < W[n] THEN W[n] ELSE LightAt(ch, n)

Sourced(ch, W, c) == \E n \in Givers(ch, c) : Given(ch, Hope(ch, W, n), n, c) >= Hope(ch, W, c)

Awaited(ch, c) ==
  \E e \in Queued(removal[ch]) :
    e[1] \in Givers(ch, c) /\ Given(ch, e[2], e[1], c) >= light[ch][c]

(* A node that is queued more than once comes with its highest level first.*)
Steady(q) == \A i, j \in DOMAIN q : i < j /\ q[i][1] = q[j][1] => q[j][2] <= q[i][2]

(* While a removal runs, a cell is put out or as it was.  A cell that is   *)
(* to get its light back was put out from above, and no node still queued  *)
(* has more light to take than that.                                       *)
Removing(ch, W) ==
  /\ \A c \in Cell : light[ch][c] \in {0, W[c]}
  /\ \A c \in Cell : light[ch][c] < W[c] =>
       /\ Above(c) \in Cell /\ light[ch][Above(c)] = 0
       /\ \A e \in Queued(removal[ch]) : e[2] <= W[c]
  /\ \A e \in Queued(removal[ch]) : light[ch][e[1]] = 0
  /\ Steady(removal[ch])

Supported(ch, W) ==
  /\ \A c \in Cell : blocks[c] \in Solid => W[c] <= light[ch][c]
  /\ \A c \in Cell : blocks[c] \notin Solid /\ Hope(ch, W, c) > 0 =>
       Sourced(ch, W, c) \/ (light[ch][c] >= W[c] /\ Awaited(ch, c))
  /\ removal[ch] # <<>> => Removing(ch, W)

(* The bounds of what is given, and that more light gives no less.         *)
LEMMA GivenBounds ==
  ASSUME NEW ch, NEW n, NEW c, NEW lv \in Int
  PROVE  /\ Given(ch, lv, n, c) \in Int
         /\ lv - 1 <= Given(ch, lv, n, c) /\ Given(ch, lv, n, c) <= lv
         /\ Given(ch, lv, n, c) = lv => ch = "sun" /\ c = Below(n)
         /\ \A more \in Int : more >= lv => Given(ch, more, n, c) >= Given(ch, lv, n, c)
BY DEF Given

LEMMA PassedIsGiven ==
  ASSUME NEW ch, NEW n, NEW c
  PROVE  Passed(ch, n, c) = Given(ch, LightAt(ch, n), n, c)
BY DEF Passed, Given

(* What a cell may hope for is a level, no lower than the light it has.    *)
LEMMA HopeLevel ==
  ASSUME Shape, NEW ch \in Channel, NEW W \in [Cell -> Level], NEW n
  PROVE  /\ Hope(ch, W, n) \in Int /\ Hope(ch, W, n) >= LightAt(ch, n)
         /\ n \in Cell => /\ Hope(ch, W, n) >= light[ch][n] /\ Hope(ch, W, n) >= W[n]
                          /\ Hope(ch, W, n) \in {light[ch][n], W[n]}
                          /\ light[ch][n] \in Nat /\ W[n] \in Nat
<1>1. MaxLight \in Nat
  BY LightAssumption
<1>2. LightAt(ch, n) \in Nat
  BY LightAtLevel
<1>3. n \in Cell => light[ch][n] \in Nat /\ W[n] \in Nat /\ LightAt(ch, n) = light[ch][n]
  BY <1>1 DEF Shape, Level, LightAt
<1> QED
  BY <1>2, <1>3 DEF Hope

LEMMA LeastNumber ==
  ASSUME NEW S, S \subseteq Nat, S # {}
  PROVE  \E m \in S : \A n \in S : m <= n
<1> DEFINE R == {ss \in Nat \X Nat : ss[1] < ss[2]}
<1>1. IsWellFoundedOn(R, Nat)
  BY NatLessThanWellFounded DEF OpToRel
<1>2. PICK m \in S : \A n \in S : ~ (<<n, m>> \in R)
  <2> HIDE DEF R
  <2> QED
    BY <1>1, WFMin
<1>3. ASSUME NEW n \in S PROVE m <= n
  <2>1. ~ (n < m)
    BY <1>2
  <2> QED
    BY <2>1
<1> QED
  BY <1>3

(* At rest all light is back: of the cells that still lack some, take the  *)
(* uppermost of those that are to be brightest.  Its giver is to be as     *)
(* bright, so it lies above, or has its light and has passed it on.        *)
LEMMA RestLit ==
  ASSUME Shape, NEW ch \in Channel, NEW W \in [Cell -> Level], Supported(ch, W),
         SpreadInv(ch), Idle(ch)
  PROVE  \A c \in Cell : light[ch][c] >= W[c]
<1> DEFINE dim == {c \in Cell : light[ch][c] < W[c]}
<1>1. SUFFICES ASSUME dim # {} PROVE FALSE
  BY HopeLevel
<1>2. /\ MaxLight \in Nat /\ Height \in Nat
      /\ \A c \in Cell : /\ W[c] \in Nat /\ W[c] <= MaxLight /\ light[ch][c] \in Nat
                         /\ c[2] \in Nat /\ c[2] < Height
  BY LightAssumption DEF Shape, Level, Cell
<1>3. PICK m \in dim : \A d \in dim : W[d] <= W[m]
  <2> DEFINE lacks == {MaxLight - W[c] : c \in dim}
  <2>1. lacks \subseteq Nat /\ lacks # {}
    BY <1>1, <1>2
  <2> HIDE DEF lacks
  <2>2. PICK l \in lacks : \A k \in lacks : l <= k
    BY <2>1, LeastNumber
  <2>3. PICK m \in dim : l = MaxLight - W[m]
    BY DEF lacks
  <2>4. ASSUME NEW d \in dim PROVE W[d] <= W[m]
    <3>1. MaxLight - W[d] \in lacks
      BY DEF lacks
    <3>2. MaxLight - W[m] <= MaxLight - W[d]
      BY <2>2, <2>3, <3>1
    <3> QED
      BY <1>2, <3>2
  <2> QED
    BY <2>4
<1>4. PICK c \in dim : W[c] = W[m] /\ \A d \in dim : W[d] = W[m] => d[2] <= c[2]
  <2> DEFINE depths == {Height - d[2] : d \in {x \in dim : W[x] = W[m]}}
  <2>1. depths \subseteq Nat /\ depths # {}
    BY <1>2
  <2> HIDE DEF depths
  <2>2. PICK l \in depths : \A k \in depths : l <= k
    BY <2>1, LeastNumber
  <2>3. PICK c \in dim : W[c] = W[m] /\ l = Height - c[2]
    BY DEF depths
  <2>4. ASSUME NEW d \in dim, W[d] = W[m] PROVE d[2] <= c[2]
    <3>1. Height - d[2] \in depths
      BY <2>4 DEF depths
    <3>2. Height - c[2] <= Height - d[2]
      BY <2>2, <2>3, <3>1
    <3> QED
      BY <1>2, <3>2
  <2> QED
    BY <2>3, <2>4
<1>5. removal[ch] = <<>> /\ spread[ch] = <<>>
  BY DEF Idle
<1>6. Queued(removal[ch]) = {} /\ Queued(spread[ch]) = {}
  BY <1>5 DEF Queued
<1>7. c \in Cell /\ light[ch][c] < W[c] /\ blocks[c] \notin Solid
  <2>1. c \in Cell /\ light[ch][c] < W[c]
    OBVIOUS
  <2>2. blocks[c] \in Solid => W[c] <= light[ch][c]
    BY <2>1 DEF Supported
  <2> QED
    BY <1>2, <2>1, <2>2
<1>8. Hope(ch, W, c) = W[c] /\ W[c] > 0
  BY <1>2, <1>7 DEF Hope
<1>9. PICK n \in Givers(ch, c) : Given(ch, Hope(ch, W, n), n, c) >= W[c]
  BY <1>6, <1>7, <1>8 DEF Supported, Sourced, Awaited
<1>10. Hope(ch, W, n) \in Int /\ n \in Node /\ c \in Node
  BY <1>7, HopeLevel, GiversAreNeighbors
<1>11. CASE n \in Cell /\ light[ch][n] < W[n]
  <2>1. Hope(ch, W, n) = W[n] /\ n \in dim
    BY <1>11 DEF Hope
  <2>2. W[n] <= W[c]
    BY <1>3, <1>4, <2>1
  <2>3. Given(ch, W[n], n, c) <= W[n] /\ Given(ch, W[n], n, c) \in Int
    BY <1>10, <2>1, GivenBounds
  <2>4. W[n] = W[c] /\ Given(ch, W[n], n, c) = W[n]
    BY <1>2, <1>7, <1>9, <1>11, <2>1, <2>2, <2>3
  <2>5. c = Below(n)
    BY <1>10, <2>1, <2>4, GivenBounds
  <2>6. n[2] <= c[2]
    BY <1>4, <2>1, <2>4
  <2>7. c[2] = n[2] - 1
    BY <2>5 DEF Below
  <2> QED
    BY <1>2, <1>11, <2>6, <2>7
<1>12. CASE ~ (n \in Cell /\ light[ch][n] < W[n])
  <2>1. Hope(ch, W, n) = LightAt(ch, n)
    BY <1>12 DEF Hope
  <2>2. Passed(ch, n, c) >= W[c] /\ Passed(ch, n, c) \in Int
    BY <1>9, <1>10, <2>1, PassedIsGiven, PassedBounds
  <2>3. LightAt(ch, c) >= Passed(ch, n, c)
    BY <1>6, <1>7 DEF SpreadInv, Served
  <2> QED
    BY <1>2, <1>7, <2>2, <2>3 DEF LightAt
<1> QED
  BY <1>11, <1>12

(* So every light there is comes from a neighbour, or from the sky.        *)
LEMMA RestSourced ==
  ASSUME Shape, NEW ch \in Channel, NEW W \in [Cell -> Level], Supported(ch, W),
         SpreadInv(ch), Idle(ch), NEW c \in Cell, blocks[c] \notin Solid
  PROVE  light[ch][c] = 0 \/ \E n \in Givers(ch, c) : Passed(ch, n, c) >= light[ch][c]
<1>1. removal[ch] = <<>>
  BY DEF Idle
<1>2. Queued(removal[ch]) = {}
  BY <1>1 DEF Queued
<1>3. \A d \in Cell : light[ch][d] >= W[d] /\ light[ch][d] \in Nat /\ W[d] \in Nat
  BY RestLit, HopeLevel
<1>4. \A n : Hope(ch, W, n) = LightAt(ch, n)
  BY <1>3 DEF Hope
<1>5. Hope(ch, W, c) = light[ch][c]
  BY <1>4 DEF LightAt
<1>6. light[ch][c] > 0 => Sourced(ch, W, c)
  BY <1>2, <1>5 DEF Supported, Awaited
<1>7. light[ch][c] > 0 => \E n \in Givers(ch, c) : Passed(ch, n, c) >= light[ch][c]
  BY <1>4, <1>5, <1>6, PassedIsGiven DEF Sourced
<1> QED
  BY <1>3, <1>7

(* Spreading raises a cell to what its giver has for it.                   *)
LEMMA SpreadSupported ==
  ASSUME Shape, NEW ch \in Channel, NEW W \in [Cell -> Level], Supported(ch, W),
         removal[ch] = <<>>, spread[ch] # <<>>,
         NEW ns, ns \subseteq Neighbors(Head(spread[ch])), SpreadTo(ch, ns),
         \A m \in ns : Raised(ch, Head(spread[ch]), m) => Head(spread[ch]) \in Givers(ch, m)
  PROVE  Supported(ch, W)'
<1> DEFINE h      == Head(spread[ch])
           raised == {m \in ns : Raised(ch, h, m)}
<1>1. spread[ch] \in Seq(Node)
  BY DEF Shape
<1>2. h \in Node
  BY <1>1, QueuedHeadTail
<1>3. /\ light' = [light EXCEPT ![ch] = [d \in Cell |-> IF d \in raised THEN Passed(ch, h, d)
                                                        ELSE light[ch][d]]]
      /\ blocks' = blocks /\ removal' = removal
  BY DEF SpreadTo, Shape
<1>4. \A m \in raised : /\ m \in Cell /\ h \in Givers(ch, m)
                        /\ Passed(ch, h, m) \in Level
                        /\ Passed(ch, h, m) >= LightAt(ch, m)
  BY <1>2, RaisedCell
<1> HIDE DEF raised, h
<1>5. \A d \in Cell : light'[ch][d] = IF d \in raised THEN Passed(ch, h, d) ELSE light[ch][d]
  BY <1>3 DEF Shape
<1>6. \A d \in Cell : /\ light[ch][d] \in Nat /\ W[d] \in Nat
                      /\ light'[ch][d] \in Nat /\ light'[ch][d] >= light[ch][d]
  <2> SUFFICES ASSUME NEW d \in Cell
               PROVE  /\ light[ch][d] \in Nat /\ W[d] \in Nat
                      /\ light'[ch][d] \in Nat /\ light'[ch][d] >= light[ch][d]
    OBVIOUS
  <2>1. light[ch][d] \in Nat /\ W[d] \in Nat /\ LightAt(ch, d) = light[ch][d]
    BY HopeLevel DEF LightAt
  <2>2. MaxLight \in Nat
    BY LightAssumption
  <2> QED
    BY <1>4, <1>5, <2>1, <2>2 DEF Level
<1>7. \A n : /\ Hope(ch, W, n) \in Int /\ Hope(ch, W, n)' \in Int
             /\ Hope(ch, W, n)' >= Hope(ch, W, n)
  <2> SUFFICES ASSUME NEW n
               PROVE  /\ Hope(ch, W, n) \in Int /\ Hope(ch, W, n)' \in Int
                      /\ Hope(ch, W, n)' >= Hope(ch, W, n)
    OBVIOUS
  <2>1. CASE n \in Cell
    <3>1. LightAt(ch, n) = light[ch][n] /\ LightAt(ch, n)' = light'[ch][n]
      BY <2>1 DEF LightAt
    <3> QED
      BY <1>6, <2>1, <3>1 DEF Hope
  <2>2. CASE n \notin Cell
    <3>1. Hope(ch, W, n)' = Hope(ch, W, n)
      BY <2>2 DEF Hope, LightAt, InHeight
    <3> QED
      BY <3>1, HopeLevel
  <2> QED
    BY <2>1, <2>2
<1>8. \A n, d : Given(ch, Hope(ch, W, n), n, d)' = Given(ch, Hope(ch, W, n)', n, d)
  BY <1>3 DEF Given, IsLiquid
<1>9. \A n, d : Given(ch, Hope(ch, W, n), n, d)' >= Given(ch, Hope(ch, W, n), n, d)
  <2> SUFFICES ASSUME NEW n, NEW d
               PROVE  Given(ch, Hope(ch, W, n), n, d)' >= Given(ch, Hope(ch, W, n), n, d)
    OBVIOUS
  <2> QED
    BY <1>7, <1>8, GivenBounds
<1>10. ASSUME NEW d \in Cell, blocks[d] \in Solid PROVE W[d] <= light'[ch][d]
  BY <1>6, <1>10 DEF Supported
<1>11. ASSUME NEW d \in Cell, blocks[d] \notin Solid, Hope(ch, W, d)' > 0
       PROVE  Sourced(ch, W, d)'
  <2>1. Queued(removal[ch]) = {}
    BY DEF Queued
  <2>2. CASE Hope(ch, W, d)' = Hope(ch, W, d)
    <3>1. Sourced(ch, W, d)
      BY <1>11, <2>1, <2>2 DEF Supported, Awaited
    <3>2. PICK n \in Givers(ch, d) : Given(ch, Hope(ch, W, n), n, d) >= Hope(ch, W, d)
      BY <3>1 DEF Sourced
    <3>3. Given(ch, Hope(ch, W, n), n, d)' >= Hope(ch, W, d)'
      <4>1. Given(ch, Hope(ch, W, n), n, d) \in Int /\ Given(ch, Hope(ch, W, n), n, d)' \in Int
        BY <1>7, <1>8, GivenBounds
      <4> QED
        BY <1>7, <1>9, <2>2, <3>2, <4>1
    <3> QED
      BY <3>3 DEF Sourced, Givers
  <2>3. CASE Hope(ch, W, d)' # Hope(ch, W, d)
    <3>1. /\ Hope(ch, W, d) = IF light[ch][d] < W[d] THEN W[d] ELSE light[ch][d]
          /\ Hope(ch, W, d)' = IF light'[ch][d] < W[d] THEN W[d] ELSE light'[ch][d]
      BY DEF Hope, LightAt
    <3>2. light'[ch][d] # light[ch][d] /\ Hope(ch, W, d)' = light'[ch][d]
      BY <1>6, <2>3, <3>1
    <3>3. d \in raised /\ light'[ch][d] = Passed(ch, h, d)
      BY <1>5, <3>2
    <3>4. PICK g \in Node : g = h
      BY <1>2
    <3>5. Given(ch, Hope(ch, W, g), g, d) >= Given(ch, LightAt(ch, g), g, d)
      <4>1. Hope(ch, W, g) >= LightAt(ch, g) /\ LightAt(ch, g) \in Int
        BY HopeLevel, LightAtLevel
      <4> QED
        BY <1>7, <4>1, GivenBounds
    <3>6. Given(ch, Hope(ch, W, g), g, d)' >= Hope(ch, W, d)'
      <4>1. LightAt(ch, g) \in Int
        BY LightAtLevel
      <4>2. /\ Given(ch, Hope(ch, W, g), g, d) \in Int /\ Given(ch, Hope(ch, W, g), g, d)' \in Int
            /\ Given(ch, LightAt(ch, g), g, d) \in Int
        BY <1>7, <1>8, <4>1, GivenBounds
      <4>3. Given(ch, Hope(ch, W, g), g, d)' >= Given(ch, Hope(ch, W, g), g, d)
        BY <1>9
      <4>4. Given(ch, LightAt(ch, g), g, d) = Hope(ch, W, d)'
        BY <3>4, <3>2, <3>3, PassedIsGiven
      <4> QED
        BY <3>5, <4>2, <4>3, <4>4
    <3>7. g \in Givers(ch, d)
      BY <1>4, <3>4, <3>3
    <3> QED
      BY <3>6, <3>7 DEF Sourced, Givers
  <2> QED
    BY <2>2, <2>3
<1>12. removal'[ch] = <<>>
  BY <1>3
<1> QED
  BY <1>3, <1>10, <1>11, <1>12 DEF Supported

LEMMA OtherHalfSupported ==
  ASSUME NEW ch \in Channel, NEW W \in [Cell -> Level], Supported(ch, W),
         UNCHANGED blocks, light'[ch] = light[ch], removal'[ch] = removal[ch]
  PROVE  Supported(ch, W)'
<1>1. \A n : Hope(ch, W, n)' = Hope(ch, W, n)
  BY DEF Hope, LightAt, InHeight
<1>2. \A n, d : Given(ch, Hope(ch, W, n), n, d)' = Given(ch, Hope(ch, W, n), n, d)
  BY <1>1 DEF Given, IsLiquid
<1>3. \A d \in Cell : Sourced(ch, W, d)' <=> Sourced(ch, W, d)
  BY <1>1, <1>2 DEF Sourced, Givers
<1>4. \A d \in Cell : Awaited(ch, d)' <=> Awaited(ch, d)
  BY DEF Awaited, Givers, Given, IsLiquid
<1>5. Removing(ch, W)' <=> Removing(ch, W)
  BY DEF Removing
<1> QED
  BY <1>1, <1>3, <1>4, <1>5 DEF Supported

-----------------------------------------------------------------------------
(* The queue of a removal.                                                 *)

(* Torch light is taken away in the order of its levels.                   *)
Falling(q) == \A i, j \in DOMAIN q : i < j => q[j][2] <= q[i][2] /\ q[i][2] <= q[j][2] + 1

LEMMA ConcatParts ==
  ASSUME NEW S, NEW s \in Seq(S), NEW t \in Seq(S), NEW i \in DOMAIN (s \o t)
  PROVE  /\ i \in Nat /\ s \o t \in Seq(S)
         /\ i <= Len(s) => i \in DOMAIN s /\ (s \o t)[i] = s[i] /\ s[i] \in S /\ s[i] \in Queued(s)
         /\ i > Len(s) => /\ i - Len(s) \in DOMAIN t /\ (s \o t)[i] = t[i - Len(s)]
                          /\ t[i - Len(s)] \in S /\ t[i - Len(s)] \in Queued(t)
<1>1. s \o t \in Seq(S) /\ Len(s \o t) = Len(s) + Len(t) /\ i \in 1..(Len(s) + Len(t))
  OBVIOUS
<1>2. ASSUME i <= Len(s) PROVE i \in DOMAIN s /\ (s \o t)[i] = s[i] /\ s[i] \in S
  BY <1>1, <1>2
<1>3. ASSUME i > Len(s)
      PROVE  i - Len(s) \in DOMAIN t /\ (s \o t)[i] = t[i - Len(s)] /\ t[i - Len(s)] \in S
  BY <1>1, <1>3
<1> QED
  BY <1>1, <1>2, <1>3 DEF Queued

LEMMA SteadyConcat ==
  ASSUME NEW s \in Seq(Mark), NEW t \in Seq(Mark), Steady(s), Steady(t),
         \A d \in Queued(s), e \in Queued(t) : d[1] # e[1]
  PROVE  Steady(s \o t)
<1> DEFINE q == s \o t
<1> SUFFICES ASSUME NEW i \in DOMAIN q, NEW j \in DOMAIN q, i < j, q[i][1] = q[j][1]
             PROVE  q[j][2] <= q[i][2]
  BY DEF Steady
<1>1. i \in Nat /\ j \in Nat /\ Len(s) \in Nat
  BY ConcatParts
<1>2. CASE j <= Len(s)
  <2>1. i \in DOMAIN s /\ q[i] = s[i] /\ j \in DOMAIN s /\ q[j] = s[j]
    BY <1>1, <1>2, ConcatParts
  <2> QED
    BY <2>1 DEF Steady
<1>3. CASE i > Len(s)
  <2>1. /\ i - Len(s) \in DOMAIN t /\ q[i] = t[i - Len(s)]
        /\ j - Len(s) \in DOMAIN t /\ q[j] = t[j - Len(s)]
        /\ i - Len(s) < j - Len(s)
    BY <1>1, <1>3, ConcatParts
  <2> QED
    BY <2>1 DEF Steady
<1>4. CASE i <= Len(s) /\ j > Len(s)
  <2>1. q[i] \in Queued(s) /\ q[j] \in Queued(t)
    BY <1>4, ConcatParts
  <2> QED
    BY <2>1
<1> QED
  BY <1>1, <1>2, <1>3, <1>4

(* What is left of a queue.                                                *)
LEMMA TailParts ==
  ASSUME NEW q \in Seq(Mark), q # <<>>
  PROVE  /\ Head(q) = q[1] /\ 1 \in DOMAIN q /\ Tail(q) \in Seq(Mark)
         /\ \A i \in DOMAIN Tail(q) : i \in Nat /\ i + 1 \in DOMAIN q /\ Tail(q)[i] = q[i + 1] /\ 1 < i + 1
         /\ \A e \in Queued(q) : e = q[1] \/ \E i \in DOMAIN q : 1 < i /\ e = q[i]
<1>1. /\ Tail(q) \in Seq(Mark) /\ Len(q) \in Nat /\ Len(q) >= 1 /\ Head(q) = q[1]
      /\ Len(Tail(q)) = Len(q) - 1 /\ \A i \in 1..(Len(q) - 1) : Tail(q)[i] = q[i + 1]
  BY HeadTailProperties, EmptySeq
<1>2. DOMAIN q = 1..Len(q) /\ DOMAIN Tail(q) = 1..(Len(q) - 1)
  BY <1>1
<1>3. \A e \in Queued(q) : e = q[1] \/ \E i \in DOMAIN q : 1 < i /\ e = q[i]
  BY <1>2 DEF Queued
<1> QED
  BY <1>1, <1>2, <1>3

LEMMA SteadyTail ==
  ASSUME NEW q \in Seq(Mark), q # <<>>, Steady(q)
  PROVE  /\ Steady(Tail(q))
         /\ \A e \in Queued(q) : e[1] = Head(q)[1] => e[2] <= Head(q)[2]
<1>1. Steady(Tail(q))
  BY TailParts DEF Steady
<1>2. ASSUME NEW e \in Queued(q), e[1] = Head(q)[1] PROVE e[2] <= Head(q)[2]
  <2>1. q[1][2] \in Int /\ q[1] = Head(q) /\ 1 \in DOMAIN q
    BY TailParts DEF Mark
  <2> QED
    BY <1>2, <2>1, TailParts DEF Steady
<1> QED
  BY <1>1, <1>2

LEMMA FallingStep ==
  ASSUME NEW q \in Seq(Mark), q # <<>>, Falling(q), NEW t \in Seq(Mark),
         \A e \in Queued(t) : e[2] = Head(q)[2] - 1
  PROVE  /\ \A e \in Queued(q) : e[2] <= Head(q)[2]
         /\ Falling(Tail(q) \o t)
<1>1. q[1][2] \in Int /\ q[1] = Head(q) /\ 1 \in DOMAIN q /\ Tail(q) \in Seq(Mark)
  BY TailParts DEF Mark
<1>2. ASSUME NEW e \in Queued(q) PROVE e[2] <= Head(q)[2]
  BY <1>1, TailParts DEF Falling
<1> DEFINE s == Tail(q)
           r == s \o t
<1>3. ASSUME NEW i \in DOMAIN s
      PROVE  s[i][2] \in Int /\ s[i][2] <= Head(q)[2] /\ Head(q)[2] <= s[i][2] + 1
  <2>1. i + 1 \in DOMAIN q /\ s[i] = q[i + 1] /\ 1 < i + 1 /\ s[i] \in Mark
    BY <1>1, <1>3, TailParts
  <2> QED
    BY <1>1, <2>1 DEF Falling, Mark
<1>4. Falling(s)
  BY TailParts DEF Falling
<1>5. s \in Seq(Mark)
  BY <1>1
<1> HIDE DEF s
<1>6. \A i \in DOMAIN r :
        /\ i \in Nat /\ Len(s) \in Nat
        /\ i <= Len(s) => i \in DOMAIN s /\ r[i] = s[i]
        /\ i > Len(s) => r[i] \in Queued(t)
  BY <1>5, ConcatParts
<1> HIDE DEF r
<1>7. \A e \in Queued(t) : e[2] = Head(q)[2] - 1
  OBVIOUS
<1>8. ASSUME NEW i \in DOMAIN r, NEW j \in DOMAIN r, i < j
      PROVE  r[j][2] <= r[i][2] /\ r[i][2] <= r[j][2] + 1
  <2>1. i \in Nat /\ j \in Nat /\ Len(s) \in Nat
    BY <1>6
  <2>2. CASE j <= Len(s)
    <3>1. i \in DOMAIN s /\ r[i] = s[i] /\ j \in DOMAIN s /\ r[j] = s[j]
      BY <1>6, <1>8, <2>1, <2>2
    <3> QED
      BY <1>4, <1>8, <3>1 DEF Falling
  <2>3. CASE i > Len(s)
    <3>1. r[i] \in Queued(t) /\ r[j] \in Queued(t)
      BY <1>6, <1>8, <2>1, <2>3
    <3>2. r[i][2] = Head(q)[2] - 1 /\ r[j][2] = Head(q)[2] - 1 /\ Head(q)[2] \in Int
      BY <1>1, <1>7, <3>1
    <3> QED
      BY <3>2
  <2>4. CASE i <= Len(s) /\ j > Len(s)
    <3>1. i \in DOMAIN s /\ r[i] = s[i] /\ r[j] \in Queued(t)
      BY <1>6, <2>4
    <3>2. /\ r[j][2] = Head(q)[2] - 1 /\ Head(q)[2] \in Int /\ r[i][2] \in Int
          /\ r[i][2] <= Head(q)[2] /\ Head(q)[2] <= r[i][2] + 1
      BY <1>1, <1>3, <1>7, <3>1
    <3> QED
      BY <3>2
  <2> QED
    BY <2>1, <2>2, <2>3, <2>4
<1>9. Falling(r)
  BY <1>8 DEF Falling
<1> QED
  BY <1>2, <1>9 DEF r, s

(* The level that the mark of n takes, when <<h, level>> has darkened it.  *)
Taking(ch, h, level, n) == IF ch = "sun" /\ n = Below(h) THEN level ELSE level - 1

LEMMA FollowersAre ==
  ASSUME NEW ch \in Channel, NEW h, NEW n \in Node, NEW level \in Int, level <= MaxLight
  PROVE  LET q == Followers(ch, h, level, n) IN
         /\ q \in Seq(Mark) /\ Steady(q)
         /\ \A e \in Queued(q) : /\ e[1] = n /\ e[2] <= Taking(ch, h, level, n)
                                 /\ ch = "torch" => e[2] = level - 1
         /\ <<n, Taking(ch, h, level, n)>> \in Queued(q)
<1> DEFINE e1 == <<n, level>>
           e2 == <<n, IF IsLiquid(n) THEN level - 1 ELSE level>>
           e3 == <<n, level - 1>>
           q  == Followers(ch, h, level, n)
<1>1. MaxLight \in Nat
  BY LightAssumption
<1>2. /\ e1 \in Mark /\ e2 \in Mark /\ e3 \in Mark
      /\ e1[1] = n /\ e2[1] = n /\ e3[1] = n
      /\ e1[2] = level /\ e2[2] <= level /\ e3[2] = level - 1
  BY <1>1 DEF Mark
<1>3. CASE ch = "sun" /\ n = Below(h)
  <2>1. q = <<e1, e2>> /\ Taking(ch, h, level, n) = level
    BY <1>3 DEF Followers, Taking
  <2>2. e1 = <<n, Taking(ch, h, level, n)>>
    BY <2>1
  <2> HIDE DEF e1, e2, e3, q
  <2>3. q \in Seq(Mark) /\ DOMAIN q = {1, 2} /\ q[1] = e1 /\ q[2] = e2
    <3>1. <<e1, e2>> \in Seq(Mark) /\ Len(<<e1, e2>>) = 2
      BY <1>2
    <3>2. DOMAIN <<e1, e2>> = {1, 2}
      BY <3>1
    <3> QED
      BY <2>1, <3>1, <3>2
  <2>4. Queued(q) = {e1, e2}
    BY <2>3 DEF Queued
  <2>5. Steady(q)
    BY <1>2, <2>3 DEF Steady
  <2> QED
    BY <1>2, <1>3, <2>1, <2>2, <2>3, <2>4, <2>5 DEF q
<1>4. CASE ~ (ch = "sun" /\ n = Below(h))
  <2>1. q = <<e3>> /\ Taking(ch, h, level, n) = level - 1
    BY <1>4 DEF Followers, Taking
  <2>2. e3 = <<n, Taking(ch, h, level, n)>>
    BY <2>1
  <2> HIDE DEF e1, e2, e3, q
  <2>3. q \in Seq(Mark) /\ DOMAIN q = {1} /\ Queued(q) = {e3}
    BY <1>2, <2>1, OneQueued
  <2>4. Steady(q)
    BY <2>3 DEF Steady
  <2> QED
    BY <1>2, <2>1, <2>2, <2>3, <2>4 DEF q
<1> QED
  BY <1>3, <1>4

LEMMA SteadyInOrder ==
  ASSUME NEW c \in Node, NEW f \in [Neighbors(c) -> Seq(Mark)],
         \A n \in Neighbors(c) : Steady(f[n]) /\ \A e \in Queued(f[n]) : e[1] = n
  PROVE  Steady(InOrder(c, f))
<1> DEFINE l == f[Left(c)]
           r == f[Right(c)]
           b == f[Below(c)]
           a == f[Above(c)]
           lr  == l \o r
           lrb == lr \o b
<1>1. c = <<c[1], c[2]>> /\ c[1] \in Int /\ c[2] \in Int
  BY DEF Node
<1>2. /\ Left(c) # Right(c) /\ Left(c) # Below(c) /\ Left(c) # Above(c)
      /\ Right(c) # Below(c) /\ Right(c) # Above(c) /\ Below(c) # Above(c)
  BY <1>1 DEF Left, Right, Below, Above
<1>3. /\ l \in Seq(Mark) /\ Steady(l) /\ \A e \in Queued(l) : e[1] = Left(c)
      /\ r \in Seq(Mark) /\ Steady(r) /\ \A e \in Queued(r) : e[1] = Right(c)
      /\ b \in Seq(Mark) /\ Steady(b) /\ \A e \in Queued(b) : e[1] = Below(c)
      /\ a \in Seq(Mark) /\ Steady(a) /\ \A e \in Queued(a) : e[1] = Above(c)
  BY DEF Neighbors
<1>4. InOrder(c, f) = lrb \o a
  BY DEF InOrder
<1> HIDE DEF l, r, b, a
<1>5. lr \in Seq(Mark) /\ Queued(lr) = Queued(l) \cup Queued(r)
  BY <1>3, QueuedConcat
<1>6. Steady(lr)
  BY <1>2, <1>3, SteadyConcat
<1> HIDE DEF lr
<1>7. lrb \in Seq(Mark) /\ Queued(lrb) = Queued(lr) \cup Queued(b)
  BY <1>3, <1>5, QueuedConcat
<1>8. Steady(lrb)
  BY <1>2, <1>3, <1>5, <1>6, SteadyConcat
<1> HIDE DEF lrb
<1>9. Steady(lrb \o a)
  BY <1>2, <1>3, <1>5, <1>7, <1>8, SteadyConcat
<1> QED
  BY <1>4, <1>9

(* What a removal enqueues, with its levels.                               *)
LEMMA MarkedAre ==
  ASSUME NEW ch \in Channel, NEW h \in Node, NEW R, R \subseteq Neighbors(h),
         NEW level \in Int, level <= MaxLight
  PROVE  LET q == Marked(ch, h, level, R) IN
         /\ q \in Seq(Mark) /\ Steady(q)
         /\ \A e \in Queued(q) : /\ e[1] \in R /\ e[2] <= Taking(ch, h, level, e[1])
                                 /\ ch = "torch" => e[2] = level - 1
         /\ \A n \in R : <<n, Taking(ch, h, level, n)>> \in Queued(q)
<1> DEFINE f == [n \in Neighbors(h) |-> IF n \in R THEN Followers(ch, h, level, n) ELSE <<>>]
<1>1. \A n \in Neighbors(h) : n \in Node
  BY NeighborNodes
<1>2. ASSUME NEW n \in Neighbors(h)
      PROVE  LET q == Followers(ch, h, level, n) IN
             /\ q \in Seq(Mark) /\ Steady(q)
             /\ \A e \in Queued(q) : /\ e[1] = n /\ e[2] <= Taking(ch, h, level, n)
                                     /\ ch = "torch" => e[2] = level - 1
             /\ <<n, Taking(ch, h, level, n)>> \in Queued(q)
  BY <1>1, FollowersAre
<1>3. Queued(<<>>) = {} /\ Steady(<<>>) /\ <<>> \in Seq(Mark)
  BY DEF Queued, Steady
<1>4. f \in [Neighbors(h) -> Seq(Mark)]
  BY <1>2, <1>3
<1>5. \A n \in Neighbors(h) : f[n] = IF n \in R THEN Followers(ch, h, level, n) ELSE <<>>
  OBVIOUS
<1> HIDE DEF f
<1>6. \A n \in Neighbors(h) : Steady(f[n]) /\ \A e \in Queued(f[n]) : e[1] = n
  BY <1>2, <1>3, <1>5
<1>7. Steady(InOrder(h, f))
  BY <1>4, <1>6, SteadyInOrder
<1>8. InOrder(h, f) \in Seq(Mark) /\ Queued(InOrder(h, f)) = UNION {Queued(f[n]) : n \in Neighbors(h)}
  BY <1>4, QueuedInOrder
<1>9. ASSUME NEW e \in Queued(InOrder(h, f))
      PROVE  /\ e[1] \in R /\ e[2] <= Taking(ch, h, level, e[1])
             /\ ch = "torch" => e[2] = level - 1
  <2>1. PICK n \in Neighbors(h) : e \in Queued(f[n])
    BY <1>8
  <2>2. n \in R /\ e \in Queued(Followers(ch, h, level, n))
    BY <1>3, <1>5, <2>1
  <2> QED
    BY <1>2, <2>2
<1>10. ASSUME NEW n \in R PROVE <<n, Taking(ch, h, level, n)>> \in Queued(InOrder(h, f))
  <2>1. n \in Neighbors(h) /\ f[n] = Followers(ch, h, level, n)
    BY <1>5
  <2>2. <<n, Taking(ch, h, level, n)>> \in Queued(f[n])
    BY <1>2, <2>1
  <2> QED
    BY <1>8, <2>1, <2>2
<1>11. Marked(ch, h, level, R) = InOrder(h, f)
  BY DEF Marked, f
<1> QED
  BY <1>7, <1>8, <1>9, <1>10, <1>11

-----------------------------------------------------------------------------
(* A step of a removal.                                                    *)

(* <<h, level>> is taken, rest is left of the queue, the cells dark go     *)
(* dark and are enqueued as follow.                                        *)
Removes(ch, h, level, dark, rest, follow) ==
  /\ h \in Cell /\ level \in Int /\ level <= MaxLight
  /\ removal[ch] # <<>> /\ removal[ch] \in Seq(Mark) /\ Head(removal[ch]) = <<h, level>>
  /\ rest \in Seq(Mark) /\ rest = Tail(removal[ch])
  /\ Queued(removal[ch]) = {<<h, level>>} \cup Queued(rest)
  /\ dark = {n \in Neighbors(h) \cap Cell :
               light[ch][n] # 0 /\ (n = Below(h) \/ light[ch][n] < level)}
  /\ follow \in Seq(Mark) /\ Steady(follow)
  /\ \A e \in Queued(follow) : /\ e[1] \in dark /\ e[2] <= Taking(ch, h, level, e[1])
                               /\ ch = "torch" => e[2] = level - 1
  /\ \A n \in dark : <<n, Taking(ch, h, level, n)>> \in Queued(follow)
  /\ removal'[ch] = rest \o follow
  /\ Queued(removal'[ch]) = Queued(rest) \cup Queued(follow)
  /\ \A d \in Cell : light'[ch][d] = IF d \in dark THEN 0 ELSE light[ch][d]
  /\ Queued(spread'[ch]) \subseteq Queued(spread[ch]) \cup Neighbors(h)
  /\ blocks' = blocks

(* A removal stays between the floor and the sky.                          *)
LEMMA DarkInside ==
  ASSUME Shape, NEW ch \in Channel, NEW h \in Cell, h[2] # 0, NEW level \in Int, level <= MaxLight,
         NEW n \in Neighbors(h), Darkened(ch, h, level, n)
  PROVE  n \in Cell
<1>1. /\ Width \in Nat /\ Height \in Nat /\ MaxLight \in Nat /\ h \in Node
      /\ h[1] \in 0..(Width - 1) /\ h[2] \in 0..(Height - 1)
  BY LightAssumption, CellNodes DEF Cell
<1>2. n \in Node /\ n = <<n[1], n[2]>> /\ n[1] \in Int /\ n[2] \in Int
  BY <1>1, NeighborNodes DEF Node
<1>3. SUFFICES ASSUME n \notin Cell PROVE FALSE
  OBVIOUS
<1>4. LightAt(ch, n) # 0
  BY DEF Darkened
<1>5. ~InHeight(n) /\ LightAt(ch, n) = MaxLight
  BY <1>3, <1>4 DEF LightAt
<1>6. n[2] = h[2] + 1 \/ n = Below(h)
  BY <1>1, <1>5 DEF InHeight, Neighbors, Left, Right, Below, Above
<1>7. n # Below(h)
  BY <1>1, <1>5 DEF InHeight, Below
<1>8. LightAt(ch, n) < level
  BY <1>7 DEF Darkened
<1> QED
  BY <1>1, <1>5, <1>8

LEMMA RemovalEffect ==
  ASSUME Shape, FloorInv, NEW ch \in Channel, UnPropagate(ch)
  PROVE  \E h, level, dark, rest, follow : Removes(ch, h, level, dark, rest, follow)
<1> DEFINE h      == Head(removal[ch])[1]
           level  == Head(removal[ch])[2]
           dark   == {m \in Neighbors(h) : Darkened(ch, h, level, m)}
           kept   == {m \in Neighbors(h) : ~Darkened(ch, h, level, m) /\ LightAt(ch, m) >= level}
           rest   == Tail(removal[ch])
           follow == Marked(ch, h, level, dark)
           again  == Picked(h, kept)
<1>1. removal[ch] # <<>> /\ removal[ch] \in Seq(Mark)
  BY DEF UnPropagate, Shape
<1>2. /\ h \in Node /\ level \in Int /\ level <= MaxLight /\ rest \in Seq(Mark)
      /\ Head(removal[ch]) = <<h, level>>
      /\ Queued(removal[ch]) = {<<h, level>>} \cup Queued(rest)
  <2>1. Head(removal[ch]) \in Mark /\ Queued(removal[ch]) = {Head(removal[ch])} \cup Queued(rest)
    BY <1>1, QueuedHeadTail
  <2>2. Head(removal[ch]) = <<h, level>>
    BY <2>1 DEF Mark
  <2> QED
    BY <1>1, <2>1, <2>2, HeadMark
<1>3. h \in Cell /\ h[2] # 0
  <2>1. Head(removal[ch]) \in Queued(removal[ch])
    BY <1>1, QueuedHeadTail
  <2> QED
    BY <2>1 DEF FloorInv
<1>4. /\ light' = [light EXCEPT ![ch] = [d \in Cell |-> IF d \in dark THEN 0 ELSE light[ch][d]]]
      /\ removal' = [removal EXCEPT ![ch] = rest \o follow]
      /\ spread' = [spread EXCEPT ![ch] = spread[ch] \o again]
      /\ blocks' = blocks
  BY DEF UnPropagate, Shape, Picked, Marked
<1>5. dark \subseteq Neighbors(h) /\ kept \subseteq Neighbors(h) /\ \A m \in dark : Darkened(ch, h, level, m)
  OBVIOUS
<1>6. \A m \in Neighbors(h) : m \in dark <=> Darkened(ch, h, level, m)
  OBVIOUS
<1> HIDE DEF follow, again, dark, kept, rest, h, level
<1>7. dark \subseteq Cell
  BY <1>2, <1>3, <1>5, DarkInside
<1>8. dark = {n \in Neighbors(h) \cap Cell :
               light[ch][n] # 0 /\ (n = Below(h) \/ light[ch][n] < level)}
  <2>1. \A n \in Neighbors(h) \cap Cell :
          n \in dark <=> light[ch][n] # 0 /\ (n = Below(h) \/ light[ch][n] < level)
    BY <1>6 DEF Darkened, LightAt
  <2> QED
    BY <1>5, <1>7, <2>1
<1>9. /\ follow \in Seq(Mark) /\ Steady(follow)
      /\ \A e \in Queued(follow) : /\ e[1] \in dark /\ e[2] <= Taking(ch, h, level, e[1])
                                   /\ ch = "torch" => e[2] = level - 1
      /\ \A n \in dark : <<n, Taking(ch, h, level, n)>> \in Queued(follow)
  BY <1>2, <1>5, MarkedAre DEF follow
<1>10. removal'[ch] = rest \o follow
  BY <1>4 DEF Shape
<1>11. Queued(rest \o follow) = Queued(rest) \cup Queued(follow)
  BY <1>2, <1>9, QueuedConcat
<1>12. \A d \in Cell : light'[ch][d] = IF d \in dark THEN 0 ELSE light[ch][d]
  BY <1>4 DEF Shape
<1>13. rest = Tail(removal[ch])
  BY DEF rest
<1>14. Queued(spread'[ch]) \subseteq Queued(spread[ch]) \cup Neighbors(h)
  <2>1. again \in Seq(Node) /\ Queued(again) = kept
    BY <1>2, <1>5, QueuedPicked DEF again
  <2>2. spread[ch] \in Seq(Node) /\ spread'[ch] = spread[ch] \o again
    BY <1>4 DEF Shape
  <2>3. Queued(spread[ch] \o again) = Queued(spread[ch]) \cup Queued(again)
    BY <2>1, <2>2, QueuedConcat
  <2> QED
    BY <1>5, <2>1, <2>2, <2>3
<1>15. Removes(ch, h, level, dark, rest, follow)
  BY <1>1, <1>2, <1>3, <1>4, <1>8, <1>9, <1>10, <1>11, <1>12, <1>13, <1>14 DEF Removes
<1> QED
  BY <1>15

(* No two neighbours of a node are next to each other.                     *)
LEMMA NoTriangle ==
  ASSUME NEW h \in Node, NEW c \in Neighbors(h), NEW n \in Neighbors(h)
  PROVE  n \notin Neighbors(c)
<1>1. h[1] \in Int /\ h[2] \in Int
  BY DEF Node
<1>2. c[1] \in Int /\ c[2] \in Int /\ (c[1] + c[2] = h[1] + h[2] + 1 \/ c[1] + c[2] = h[1] + h[2] - 1)
  BY <1>1 DEF Neighbors, Left, Right, Below, Above
<1>3. n[1] + n[2] = h[1] + h[2] + 1 \/ n[1] + n[2] = h[1] + h[2] - 1
  BY <1>1 DEF Neighbors, Left, Right, Below, Above
<1>4. n \in Neighbors(c) => n[1] + n[2] = c[1] + c[2] + 1 \/ n[1] + n[2] = c[1] + c[2] - 1
  BY <1>2 DEF Neighbors, Left, Right, Below, Above
<1> QED
  BY <1>1, <1>2, <1>3, <1>4

LEMMA TakingBounds ==
  ASSUME NEW ch, NEW h, NEW n, NEW level \in Int
  PROVE  /\ Taking(ch, h, level, n) \in Int
         /\ level - 1 <= Taking(ch, h, level, n) /\ Taking(ch, h, level, n) <= level
         /\ n # Below(h) => Taking(ch, h, level, n) = level - 1
         /\ ch = "sun" /\ n = Below(h) => Taking(ch, h, level, n) = level
BY DEF Taking

(* A cell that is put out at a level below its own light, on the way down, *)
(* is not bound to go dark, unless a removal has been overtaken.           *)
LEMMA NotAwaited ==
  ASSUME Shape, NEW ch \in Channel, Steady(removal[ch]),
         NEW h, NEW level, NEW dark, NEW rest, NEW follow,
         Removes(ch, h, level, dark, rest, follow),
         NEW d \in dark, light[ch][d] > Taking(ch, h, level, d),
         \A e \in Queued(removal[ch]) : e[2] <= light[ch][d]
  PROVE  d = Below(h) /\ ~Awaited(ch, d)
<1>1. /\ h \in Cell /\ h \in Node /\ d \in Cell /\ d \in Node /\ level \in Int
      /\ d = Below(h) \/ light[ch][d] < level
      /\ removal[ch] \in Seq(Mark) /\ removal[ch] # <<>> /\ Head(removal[ch]) = <<h, level>>
  BY CellNodes DEF Removes
<1>2. light[ch][d] \in Nat
  BY <1>1, LightAssumption DEF Shape, Level
<1>3. /\ Taking(ch, h, level, d) \in Int /\ Taking(ch, h, level, d) <= level
      /\ d # Below(h) => Taking(ch, h, level, d) = level - 1
      /\ ch = "sun" /\ d = Below(h) => Taking(ch, h, level, d) = level
  BY <1>1, TakingBounds
<1>4. d = Below(h)
  BY <1>1, <1>2, <1>3
<1>5. ASSUME NEW e \in Queued(removal[ch]), Given(ch, e[2], e[1], d) >= light[ch][d] PROVE FALSE
  <2>1. e \in Mark
    BY <1>1, <1>5 DEF Queued
  <2>2. e[2] \in Int /\ e[1] \in Node /\ e[2] <= light[ch][d]
    BY <2>1 DEF Mark
  <2>3. Given(ch, e[2], e[1], d) \in Int /\ Given(ch, e[2], e[1], d) <= e[2]
    BY <2>2, GivenBounds
  <2>4. e[2] = light[ch][d] /\ Given(ch, e[2], e[1], d) = e[2]
    BY <1>2, <1>5, <2>2, <2>3
  <2>5. ch = "sun" /\ d = Below(e[1])
    BY <2>2, <2>4, GivenBounds
  <2>6. \A p \in Node : d = Below(p) => p = Above(d)
    BY <1>1, NeighborsBothWays
  <2>7. e[1] = h
    BY <1>1, <1>4, <2>2, <2>5, <2>6
  <2>8. e[2] <= level
    BY <1>1, <2>7, SteadyTail
  <2> QED
    BY <1>1, <1>2, <1>3, <1>4, <2>4, <2>5, <2>8
<1> QED
  BY <1>4, <1>5 DEF Awaited

(* After the step, what was put out at a level below its own light is to   *)
(* come back, and what was put out at its own level or a higher one is     *)
(* gone: V.                                                                *)
LEMMA RemovalSupported ==
  ASSUME Shape, NEW ch \in Channel, NEW W \in [Cell -> Level], Supported(ch, W),
         NEW h, NEW level, NEW dark, NEW rest, NEW follow,
         Removes(ch, h, level, dark, rest, follow),
         \A e \in Queued(removal[ch]) : e[1] \in Cell,
         \A n \in dark : blocks[n] \notin Solid,
         \A n \in dark : light[ch][n] > Taking(ch, h, level, n) =>
           \A e \in Queued(removal[ch]) : e[2] <= light[ch][n],
         NEW V \in [Cell -> Level],
         \A d \in Cell : V[d] = IF d \in dark /\ light[ch][d] <= Taking(ch, h, level, d)
                                THEN 0 ELSE W[d]
  PROVE  Supported(ch, V)'
<1>1. /\ h \in Cell /\ h \in Node /\ level \in Int /\ dark \subseteq Cell /\ dark \subseteq Neighbors(h)
      /\ \A n \in dark : light[ch][n] # 0 /\ (n = Below(h) \/ light[ch][n] < level)
      /\ \A n \in Neighbors(h) \cap Cell :
           n \notin dark => light[ch][n] = 0 \/ (n # Below(h) /\ ~(light[ch][n] < level))
      /\ removal[ch] \in Seq(Mark) /\ removal[ch] # <<>> /\ Head(removal[ch]) = <<h, level>>
      /\ Queued(removal[ch]) = {<<h, level>>} \cup Queued(rest)
      /\ \A e \in Queued(follow) : e[1] \in dark /\ e[2] <= Taking(ch, h, level, e[1])
      /\ \A n \in dark : <<n, Taking(ch, h, level, n)>> \in Queued(follow)
      /\ Queued(removal'[ch]) = Queued(rest) \cup Queued(follow)
      /\ \A d \in Cell : light'[ch][d] = IF d \in dark THEN 0 ELSE light[ch][d]
      /\ blocks' = blocks
  BY CellNodes DEF Removes
<1>2. Removing(ch, W)
  BY <1>1 DEF Supported
<1>3. MaxLight \in Nat /\ \A d \in Cell : light[ch][d] \in Nat /\ W[d] \in Nat /\ V[d] \in Nat
  BY LightAssumption DEF Shape, Level
<1>4. \A n \in dark : /\ Taking(ch, h, level, n) \in Int
                      /\ level - 1 <= Taking(ch, h, level, n) /\ Taking(ch, h, level, n) <= level
                      /\ n # Below(h) => Taking(ch, h, level, n) = level - 1
                      /\ ch = "sun" /\ n = Below(h) => Taking(ch, h, level, n) = level
  BY <1>1, TakingBounds
<1>5. /\ \A d \in Cell : light[ch][d] \in {0, W[d]}
      /\ \A d \in Cell : light[ch][d] < W[d] =>
           /\ Above(d) \in Cell /\ light[ch][Above(d)] = 0
           /\ \A e \in Queued(removal[ch]) : e[2] <= W[d]
      /\ \A e \in Queued(removal[ch]) : light[ch][e[1]] = 0
      /\ Steady(removal[ch])
  BY <1>2 DEF Removing
<1>6. \A d \in Cell : light'[ch][d] \in {0, V[d]}
  BY <1>1, <1>5
<1>7. /\ \A d \in Cell : Hope(ch, W, d) = W[d] /\ Hope(ch, V, d)' = V[d]
      /\ \A n : n \notin Cell => Hope(ch, V, n)' = Hope(ch, W, n)
  <2>1. ASSUME NEW d \in Cell PROVE Hope(ch, W, d) = W[d]
    BY <1>3, <1>5 DEF Hope, LightAt
  <2>2. ASSUME NEW d \in Cell PROVE Hope(ch, V, d)' = V[d]
    <3>1. Hope(ch, V, d)' = IF light'[ch][d] < V[d] THEN V[d] ELSE light'[ch][d]
      BY DEF Hope, LightAt
    <3> QED
      BY <1>3, <1>6, <3>1
  <2>3. ASSUME NEW n, n \notin Cell PROVE Hope(ch, V, n)' = Hope(ch, W, n)
    BY <2>3 DEF Hope, LightAt, InHeight
  <2> QED
    BY <2>1, <2>2, <2>3
<1>8. \A d \in dark : light[ch][d] > Taking(ch, h, level, d) => d = Below(h) /\ ~Awaited(ch, d)
  BY <1>5, NotAwaited
<1>9. ASSUME NEW d \in Cell, blocks[d] \in Solid PROVE V[d] <= light'[ch][d]
  <2>1. d \notin dark
    BY <1>9
  <2>2. W[d] <= light[ch][d]
    BY <1>9 DEF Supported
  <2> QED
    BY <1>1, <2>1, <2>2
<1>10. ASSUME NEW d \in Cell, blocks[d] \notin Solid, V[d] > 0
       PROVE  Sourced(ch, V, d)' \/ (light'[ch][d] >= V[d] /\ Awaited(ch, d)')
  <2>1. V[d] = W[d] /\ W[d] > 0 /\ (d \in dark => light[ch][d] > Taking(ch, h, level, d))
    BY <1>3, <1>4, <1>10
  <2>2. Sourced(ch, W, d) \/ (light[ch][d] >= W[d] /\ Awaited(ch, d))
    BY <1>7, <1>10, <2>1 DEF Supported
  <2>3. d \notin dark => light'[ch][d] = light[ch][d]
    BY <1>1
  <2>4. CASE light[ch][d] >= W[d] /\ Awaited(ch, d)
    <3>1. d \notin dark /\ light[ch][d] = W[d]
      BY <1>3, <1>5, <1>8, <2>1, <2>4
    <3>2. PICK e \in Queued(removal[ch]) :
            e[1] \in Givers(ch, d) /\ Given(ch, e[2], e[1], d) >= light[ch][d]
      BY <2>4 DEF Awaited
    <3>3. e # <<h, level>>
      <4>1. SUFFICES ASSUME e[1] = h, e[2] = level PROVE FALSE
        OBVIOUS
      <4>2. h \in Neighbors(d) /\ d \in Node
        BY <3>2, <4>1, GiversAreNeighbors
      <4>3. d \in Neighbors(h)
        BY <1>1, <4>2, NeighborsBothWays
      <4>4. d # Below(h) /\ light[ch][d] >= level
        BY <1>1, <1>3, <2>1, <3>1, <4>3
      <4>5. Given(ch, level, h, d) = level - 1
        BY <4>4 DEF Given
      <4> QED
        BY <1>1, <1>3, <3>2, <4>1, <4>4, <4>5
    <3>4. e \in Queued(removal'[ch])
      BY <1>1, <3>2, <3>3
    <3>5. Given(ch, e[2], e[1], d)' >= light'[ch][d]
      BY <1>1, <2>3, <3>1, <3>2 DEF Given, IsLiquid
    <3>6. Awaited(ch, d)'
      BY <3>2, <3>4, <3>5 DEF Awaited, Givers
    <3>7. light'[ch][d] >= V[d]
      BY <1>3, <2>1, <2>3, <3>1
    <3> QED
      BY <3>6, <3>7
  <2>5. CASE Sourced(ch, W, d)
    <3>1. PICK n \in Givers(ch, d) : Given(ch, Hope(ch, W, n), n, d) >= W[d]
      BY <1>7, <2>5 DEF Sourced
    <3>2. n \in Neighbors(d) /\ n \in Node /\ d \in Node /\ Hope(ch, W, n) \in Int
      BY GiversAreNeighbors, HopeLevel
    <3>3. /\ Given(ch, Hope(ch, W, n), n, d) \in Int
          /\ Given(ch, Hope(ch, W, n), n, d) <= Hope(ch, W, n)
      BY <3>2, GivenBounds
    <3>4. CASE Hope(ch, V, n)' = Hope(ch, W, n)
      <4>1. Given(ch, Hope(ch, V, n), n, d)' = Given(ch, Hope(ch, W, n), n, d)
        BY <1>1, <3>4 DEF Given, IsLiquid
      <4>2. Given(ch, Hope(ch, V, n), n, d)' >= Hope(ch, V, d)'
        BY <1>7, <2>1, <3>1, <4>1
      <4> QED
        BY <4>2 DEF Sourced, Givers
    <3>5. CASE Hope(ch, V, n)' # Hope(ch, W, n)
      <4>1. /\ n \in Cell /\ n \in dark /\ Hope(ch, W, n) = W[n]
            /\ light[ch][n] <= Taking(ch, h, level, n) /\ light[ch][n] = W[n] /\ light[ch][n] # 0
        <5>1. n \in Cell
          BY <1>7, <3>5
        <5>2. V[n] # W[n] /\ Hope(ch, W, n) = W[n]
          BY <1>7, <3>5, <5>1
        <5>3. n \in dark /\ light[ch][n] <= Taking(ch, h, level, n)
          BY <5>1, <5>2
        <5> QED
          BY <1>1, <1>5, <5>1, <5>2, <5>3
      <4>2. W[d] <= W[n]
        BY <1>3, <3>1, <3>3, <4>1
      <4>3. CASE light[ch][d] < W[d]
        <5>1. light[ch][Above(d)] = 0 /\ level <= W[d]
          <6>1. <<h, level>> \in Queued(removal[ch])
            BY <1>1
          <6>2. <<h, level>>[2] <= W[d]
            BY <1>5, <4>3, <6>1
          <6> QED
            BY <1>5, <4>3, <6>2
        <5>2. W[n] = W[d] /\ Given(ch, Hope(ch, W, n), n, d) = Hope(ch, W, n)
          BY <1>1, <1>3, <1>4, <3>1, <3>3, <4>1, <4>2, <5>1
        <5>3. d = Below(n)
          BY <3>2, <5>2, GivenBounds
        <5>4. n = Above(d)
          BY <3>2, <5>3, NeighborsBothWays
        <5> QED
          BY <4>1, <5>1, <5>4
      <4>4. CASE light[ch][d] >= W[d]
        <5>1. light[ch][d] = W[d]
          BY <1>3, <1>5, <2>1, <4>4
        <5>2. d \notin dark
          BY <1>1, <3>2, <4>1, NoTriangle
        <5> DEFINE e == <<n, Taking(ch, h, level, n)>>
        <5>3. e \in Queued(removal'[ch]) /\ e[1] = n /\ e[2] = Taking(ch, h, level, n)
          BY <1>1, <4>1
        <5>4. Given(ch, e[2], e[1], d) >= light[ch][d]
          <6>1. e[2] \in Int /\ W[n] \in Int /\ e[2] >= W[n]
            BY <1>3, <1>4, <4>1
          <6> HIDE DEF e
          <6>2. Given(ch, e[2], n, d) >= Given(ch, W[n], n, d) /\ Given(ch, e[2], n, d) \in Int
            BY <6>1, GivenBounds
          <6> QED
            BY <1>3, <3>1, <3>3, <4>1, <5>1, <5>3, <6>2
        <5> HIDE DEF e
        <5>5. PICK m : m = e
          OBVIOUS
        <5>6. Given(ch, m[2], m[1], d)' >= light'[ch][d] /\ m \in Queued(removal'[ch]) /\ m[1] = n
          BY <1>1, <2>3, <5>2, <5>3, <5>4, <5>5 DEF Given, IsLiquid
        <5>7. Awaited(ch, d)'
          BY <5>6 DEF Awaited, Givers
        <5>8. light'[ch][d] >= V[d]
          BY <2>1, <2>3, <4>4, <5>2
        <5> QED
          BY <5>7, <5>8
      <4> QED
        BY <1>3, <4>3, <4>4
    <3> QED
      BY <3>4, <3>5
  <2> QED
    BY <2>2, <2>4, <2>5
<1>11. ASSUME NEW d \in Cell, light'[ch][d] < V[d]
       PROVE  /\ Above(d) \in Cell /\ light'[ch][Above(d)] = 0
              /\ \A e \in Queued(removal'[ch]) : e[2] <= V[d]
  <2>1. V[d] = W[d]
    BY <1>1, <1>3, <1>11
  <2>2. \A e \in Queued(follow) : e[2] \in Int /\ e[2] <= level
    <3>1. \A e \in Queued(follow) : e \in Mark
      BY DEF Removes, Queued
    <3> QED
      BY <1>1, <1>4, <3>1 DEF Mark
  <2>3. <<h, level>> \in Queued(removal[ch]) /\ <<h, level>>[1] = h /\ <<h, level>>[2] = level
    BY <1>1
  <2>4. CASE d \notin dark
    <3>1. light[ch][d] < W[d]
      BY <1>1, <1>11, <2>1, <2>4
    <3>2. Above(d) \in Cell /\ light[ch][Above(d)] = 0
      BY <1>5, <3>1
    <3>3. \A e \in Queued(removal[ch]) : e[2] <= W[d]
      BY <1>5, <3>1
    <3>4. level <= W[d]
      BY <2>3, <3>3
    <3>5. \A e \in Queued(removal'[ch]) : e[2] <= W[d]
      BY <1>1, <1>3, <2>2, <3>3, <3>4
    <3>6. light'[ch][Above(d)] = 0
      BY <1>1, <3>2
    <3> QED
      BY <2>1, <3>2, <3>5, <3>6
  <2>5. CASE d \in dark
    <3>1. light[ch][d] > Taking(ch, h, level, d) /\ light[ch][d] = W[d]
      <4>1. ~(light[ch][d] <= Taking(ch, h, level, d))
        BY <1>1, <1>11, <2>5
      <4> QED
        BY <1>1, <1>3, <1>4, <1>5, <2>5, <4>1
    <3>2. d = Below(h) /\ d \in Node
      BY <1>8, <2>5, <3>1, CellNodes
    <3>3. Above(d) = h
      BY <1>1, <3>2, NeighborsBothWays
    <3>4. light[ch][h] = 0
      BY <1>5, <2>3
    <3>5. light'[ch][h] = 0
      BY <1>1, <3>4
    <3>6. \A e \in Queued(removal[ch]) : e[2] <= W[d]
      BY <2>5, <3>1
    <3>7. level <= W[d]
      BY <2>3, <3>6
    <3>8. \A e \in Queued(removal'[ch]) : e[2] <= W[d]
      BY <1>1, <1>3, <2>2, <3>6, <3>7
    <3> QED
      BY <1>1, <2>1, <3>3, <3>5, <3>8
  <2> QED
    BY <2>4, <2>5
<1>12. \A e \in Queued(removal'[ch]) : light'[ch][e[1]] = 0
  <2>1. ASSUME NEW e \in Queued(rest) PROVE light'[ch][e[1]] = 0
    BY <1>1, <1>5
  <2>2. ASSUME NEW e \in Queued(follow) PROVE light'[ch][e[1]] = 0
    BY <1>1, <2>2
  <2> QED
    BY <1>1, <2>1, <2>2
<1>13. Steady(removal'[ch])
  <2>1. Steady(rest) /\ rest \in Seq(Mark) /\ follow \in Seq(Mark) /\ Steady(follow)
    BY <1>1, <1>5, SteadyTail DEF Removes
  <2>2. \A d \in Queued(rest), e \in Queued(follow) : d[1] # e[1]
    BY <1>1, <1>5
  <2>3. Steady(rest \o follow)
    BY <2>1, <2>2, SteadyConcat
  <2> QED
    BY <2>3 DEF Removes
<1>14. Removing(ch, V)'
  BY <1>6, <1>11, <1>12, <1>13 DEF Removing
<1>15. ASSUME NEW d \in Cell, blocks[d] \notin Solid, Hope(ch, V, d)' > 0
       PROVE  Sourced(ch, V, d)' \/ (light'[ch][d] >= V[d] /\ Awaited(ch, d)')
  BY <1>7, <1>10, <1>15
<1> QED
  BY <1>1, <1>9, <1>14, <1>15 DEF Supported

-----------------------------------------------------------------------------
(* setBlock starts a removal.                                              *)

(* What setBlock takes from the cell it enqueues to be taken around it.    *)
LEMMA EditMarks ==
  ASSUME Shape, NEW ch \in Channel, NEW c \in Editable, NEW b \in Block, Open(c, b) \/ Fill(c, b)
  PROVE  /\ \/ removal'[ch] = <<>> /\ light'[ch][c] >= light[ch][c]
            \/ \E l \in Level : /\ removal'[ch] = <<<<c, l>>>>
                                /\ light'[ch][c] = 0 /\ l >= light[ch][c]
         /\ b \notin Solid => \/ light'[ch][c] = 0
                              \/ /\ light'[ch][c] = light[ch][c] /\ b \notin Liquid
                                 /\ ch = "torch" => blocks[c] \notin Emitter
<1>1. /\ c \in Cell /\ MaxLight \in Nat /\ Emitter \subseteq Solid
      /\ light \in [Channel -> [Cell -> Level]] /\ removal \in [Channel -> Seq(Mark)]
      /\ light["sun"][c] \in Level /\ light["torch"][c] \in Level
      /\ ch = "sun" \/ ch = "torch"
  BY LightAssumption DEF Shape, Channel
<1>2. removal["sun"] = <<>> /\ removal["torch"] = <<>>
  BY DEF Open, Fill, Editing, AtRest, Idle
<1>3. /\ MaxLight \in Level /\ \A l \in Level : l \in Nat /\ l <= MaxLight
      /\ light[ch][c] \in Level
  BY <1>1 DEF Level
<1>4. CASE Open(c, b) /\ blocks[c] \in Emitter
  <2>1. /\ light' = [light EXCEPT !["torch"][c] = 0]
        /\ removal' = [removal EXCEPT !["torch"] = <<<<c, MaxLight>>>>]
        /\ b \notin Liquid
    BY <1>4 DEF Open
  <2>2. CASE ch = "sun"
    <3>1. light'[ch][c] = light[ch][c] /\ removal'[ch] = <<>>
      BY <1>1, <1>2, <2>1, <2>2 DEF Channel
    <3>2. light'[ch][c] >= light[ch][c] /\ ch # "torch"
      BY <1>3, <2>2, <3>1
    <3> QED
      BY <2>1, <3>1, <3>2
  <2>3. CASE ch = "torch"
    <3>1. light'[ch][c] = 0 /\ removal'[ch] = <<<<c, MaxLight>>>>
      BY <1>1, <2>1, <2>3 DEF Channel
    <3>2. MaxLight >= light[ch][c]
      BY <1>3
    <3> QED
      BY <1>3, <3>1, <3>2
  <2> QED
    BY <1>1, <2>2, <2>3
<1>5. CASE Open(c, b) /\ blocks[c] \notin Emitter
  <2>1. UNCHANGED <<light, removal>> /\ b \notin Liquid
    BY <1>5 DEF Open
  <2>2. removal'[ch] = <<>> /\ light'[ch][c] = light[ch][c]
    BY <1>1, <1>2, <2>1
  <2>3. light'[ch][c] >= light[ch][c]
    BY <1>3, <2>2
  <2> QED
    BY <1>5, <2>1, <2>2, <2>3
<1>6. CASE Fill(c, b) /\ b \in Emitter
  <2>1. /\ light' = [light EXCEPT !["sun"][c] = 0, !["torch"][c] = MaxLight]
        /\ removal' = [removal EXCEPT !["sun"] = <<<<c, MaxLight>>>>]
    BY <1>6 DEF Fill
  <2>2. CASE ch = "sun"
    <3>1. light'[ch][c] = 0 /\ removal'[ch] = <<<<c, MaxLight>>>>
      BY <1>1, <2>1, <2>2 DEF Channel
    <3> QED
      BY <1>1, <1>3, <2>2, <3>1
  <2>3. CASE ch = "torch"
    <3>1. light'[ch][c] = MaxLight /\ removal'[ch] = <<>>
      BY <1>1, <1>2, <2>1, <2>3 DEF Channel
    <3> QED
      BY <1>1, <1>3, <1>6, <2>3, <3>1
  <2> QED
    BY <1>1, <2>2, <2>3
<1>7. CASE Fill(c, b) /\ b \notin Emitter
  <2>1. /\ light' = [light EXCEPT !["sun"][c] = 0, !["torch"][c] = 0]
        /\ removal' = [removal EXCEPT !["sun"] = <<<<c, MaxLight>>>>,
                                      !["torch"] = <<<<c, light["torch"][c]>>>>]
    BY <1>7 DEF Fill
  <2>2. light'[ch][c] = 0
    BY <1>1, <2>1 DEF Channel
  <2>3. CASE ch = "sun"
    <3>1. removal'[ch] = <<<<c, MaxLight>>>>
      BY <1>1, <2>1, <2>3 DEF Channel
    <3> QED
      BY <1>1, <1>3, <2>2, <2>3, <3>1
  <2>4. CASE ch = "torch"
    <3>1. removal'[ch] = <<<<c, light[ch][c]>>>>
      BY <1>1, <2>1, <2>4 DEF Channel
    <3>2. light[ch][c] >= light[ch][c]
      BY <1>3
    <3> QED
      BY <1>3, <2>2, <3>1, <3>2
  <2> QED
    BY <1>1, <2>3, <2>4
<1> QED
  BY <1>4, <1>5, <1>6, <1>7

(* All light there is after setBlock, before the first step of a search,   *)
(* has its source, but for what the changed cell has given.                *)
LEMMA EditSupported ==
  ASSUME Shape, SolidDark, NEW ch \in Channel, NEW W \in [Cell -> Level], Supported(ch, W),
         SpreadInv(ch),
         NEW c \in Editable, NEW b \in Block, Open(c, b) \/ Fill(c, b),
         NEW V \in [Cell -> Level], V = light'[ch]
  PROVE  Supported(ch, V)'
<1>1. /\ c \in Cell /\ c \in Node
      /\ blocks'[c] = b /\ \A d \in Cell : d # c => blocks'[d] = blocks[d]
      /\ \A d \in Cell : d # c => light'[ch][d] = light[ch][d]
  BY EditEffect
<1>2. /\ \/ removal'[ch] = <<>> /\ light'[ch][c] >= light[ch][c]
         \/ \E l \in Level : /\ removal'[ch] = <<<<c, l>>>>
                             /\ light'[ch][c] = 0 /\ l >= light[ch][c]
      /\ b \notin Solid => \/ light'[ch][c] = 0
                           \/ /\ light'[ch][c] = light[ch][c] /\ b \notin Liquid
                              /\ ch = "torch" => blocks[c] \notin Emitter
  BY EditMarks
<1>3. Idle(ch)
  BY DEF Open, Fill, Editing, AtRest, Channel
<1>4. \A d \in Cell : light[ch][d] \in Nat /\ light'[ch][d] \in Nat /\ V[d] = light'[ch][d]
  BY LightAssumption DEF Shape, Level
<1>5. /\ \A n : Hope(ch, V, n)' = LightAt(ch, n)'
      /\ \A d \in Cell : LightAt(ch, d)' = light'[ch][d] /\ LightAt(ch, d) = light[ch][d]
      /\ \A n : n \notin Cell => LightAt(ch, n)' = LightAt(ch, n)
      /\ \A n : LightAt(ch, n) \in Int
  <2>1. ASSUME NEW n PROVE Hope(ch, V, n)' = LightAt(ch, n)'
    BY <1>4 DEF Hope
  <2>2. \A n : LightAt(ch, n) \in Int
    BY LightAtLevel
  <2> QED
    BY <2>1, <2>2 DEF LightAt, InHeight
<1>6. \A n : LightAt(ch, n)' \in Int
  <2>1. ASSUME NEW n PROVE LightAt(ch, n)' \in Int
    BY <1>4, <1>5
  <2> QED
    BY <2>1
<1>7. \A d \in Cell : light[ch][d] > 0 /\ blocks[d] \notin Solid =>
        \E n \in Givers(ch, d) : Given(ch, LightAt(ch, n), n, d) >= light[ch][d]
  <2>1. ASSUME NEW d \in Cell, light[ch][d] > 0, blocks[d] \notin Solid
        PROVE  \E n \in Givers(ch, d) : Passed(ch, n, d) >= light[ch][d]
    BY <1>3, <1>4, <2>1, RestSourced
  <2> QED
    BY <2>1, PassedIsGiven
<1>8. ASSUME NEW d \in Cell, blocks'[d] \notin Solid, light'[ch][d] > 0
      PROVE  Sourced(ch, V, d)' \/ (light'[ch][d] >= V[d] /\ Awaited(ch, d)')
  <2>1. /\ light'[ch][d] = light[ch][d] /\ blocks[d] \notin Solid
        /\ IsLiquid(d)' => IsLiquid(d)
    <3>1. CASE d # c
      BY <1>1, <1>8, <3>1 DEF IsLiquid
    <3>2. CASE d = c
      <4>1. /\ light'[ch][c] = light[ch][c] /\ b \notin Liquid
            /\ ch = "torch" => blocks[c] \notin Emitter
        BY <1>1, <1>2, <1>8, <3>2
      <4>2. blocks[c] \notin Solid
        BY <1>1, <1>8, <3>2, <4>1 DEF SolidDark
      <4> QED
        BY <1>1, <3>2, <4>1, <4>2 DEF IsLiquid
    <3> QED
      BY <3>1, <3>2
  <2>2. PICK n \in Givers(ch, d) : Given(ch, LightAt(ch, n), n, d) >= light[ch][d]
    BY <1>7, <1>8, <2>1
  <2>3. \A lv \in Int : lv >= LightAt(ch, n) => Given(ch, lv, n, d)' >= light'[ch][d]
    <3> SUFFICES ASSUME NEW lv \in Int, lv >= LightAt(ch, n)
                 PROVE  Given(ch, lv, n, d)' >= light'[ch][d]
      OBVIOUS
    <3>1. Given(ch, lv, n, d) >= Given(ch, LightAt(ch, n), n, d)
      BY <1>5, GivenBounds
    <3>2. Given(ch, lv, n, d)' >= Given(ch, lv, n, d) /\ Given(ch, lv, n, d)' \in Int
      BY <2>1 DEF Given
    <3>3. Given(ch, lv, n, d) \in Int /\ Given(ch, LightAt(ch, n), n, d) \in Int
      BY <1>5, GivenBounds
    <3> QED
      BY <1>4, <2>1, <2>2, <3>1, <3>2, <3>3
  <2>4. CASE LightAt(ch, n)' >= LightAt(ch, n)
    <3>1. PICK lv \in Int : lv = LightAt(ch, n)'
      BY <1>6
    <3>2. Given(ch, lv, n, d)' >= light'[ch][d]
      BY <2>3, <2>4, <3>1
    <3>3. Given(ch, Hope(ch, V, n), n, d)' >= Hope(ch, V, d)'
      <4>1. Given(ch, Hope(ch, V, n), n, d)' = Given(ch, lv, n, d)'
        BY <1>5, <3>1 DEF Given
      <4> QED
        BY <1>5, <3>2, <4>1
    <3> QED
      BY <3>3 DEF Sourced, Givers
  <2>5. CASE ~ (LightAt(ch, n)' >= LightAt(ch, n))
    <3>1. n = c /\ ~ (light'[ch][c] >= light[ch][c])
      <4>1. n \in Cell
        BY <1>5, <2>5
      <4>2. n = c
        BY <1>1, <1>4, <1>5, <2>5, <4>1
      <4> QED
        BY <1>1, <1>5, <2>5, <4>2
    <3>2. PICK l \in Level : removal'[ch] = <<<<c, l>>>> /\ l >= light[ch][c]
      BY <1>2, <3>1
    <3>3. l \in Int
      BY <3>2, LightAssumption DEF Level
    <3>4. Given(ch, l, c, d)' >= light'[ch][d]
      BY <1>1, <1>5, <2>3, <3>1, <3>2, <3>3
    <3>5. <<c, l>> \in Queued(removal'[ch])
      BY <3>2 DEF Queued
    <3>6. PICK e : e = <<c, l>>
      OBVIOUS
    <3>7. Given(ch, e[2], e[1], d)' >= light'[ch][d] /\ e \in Queued(removal'[ch]) /\ e[1] = n
      BY <3>1, <3>4, <3>5, <3>6
    <3>8. Awaited(ch, d)'
      BY <3>7 DEF Awaited, Givers
    <3> QED
      BY <1>4, <3>8
  <2> QED
    BY <2>4, <2>5
<1>9. ASSUME removal'[ch] # <<>> PROVE Removing(ch, V)'
  <2>1. PICK l \in Level : removal'[ch] = <<<<c, l>>>> /\ light'[ch][c] = 0
    BY <1>2, <1>9
  <2>2. \A e \in Queued(removal'[ch]) : light'[ch][e[1]] = 0
    BY <2>1 DEF Queued
  <2>3. Steady(removal'[ch])
    BY <2>1 DEF Steady
  <2> QED
    BY <1>4, <2>2, <2>3 DEF Removing
<1>10. \A d \in Cell : Hope(ch, V, d)' = light'[ch][d]
  BY <1>5
<1>11. \A d \in Cell : blocks'[d] \in Solid => V[d] <= light'[ch][d]
  BY <1>4
<1> QED
  BY <1>8, <1>9, <1>10, <1>11 DEF Supported

-----------------------------------------------------------------------------
(* The sun is where it can get.                                            *)

(* Light comes from cells, and from the sky only the sun: the floor keeps  *)
(* out what seems to lie below the world.                                  *)
LEMMA RaisedByGiver ==
  ASSUME Shape, FloorInv, NEW ch \in Channel, NEW h \in Near, ch = "torch" => h[2] # Height,
         NEW m \in Neighbors(h), Raised(ch, h, m)
  PROVE  h \in Givers(ch, m)
<1>1. /\ Width \in Nat /\ Height \in Nat /\ h \in Node
      /\ h = <<h[1], h[2]>> /\ h[1] \in (-1)..Width /\ h[2] \in (-1)..Height
  BY LightAssumption DEF Near, Node
<1>2. m \in Cell /\ blocks[m] \notin Solid /\ m \in Node
  BY <1>1, RaisedCell, CellNodes
<1>3. h \in Neighbors(m)
  BY <1>1, <1>2, NeighborsBothWays
<1>4. CASE h \in Cell
  BY <1>3, <1>4 DEF Givers
<1>5. CASE h \notin Cell
  <2>1. m[1] \in 0..(Width - 1) /\ m[2] \in 1..(Height - 1)
    <3>1. m[1] \in 0..(Width - 1) /\ m[2] \in 0..(Height - 1)
      BY <1>2 DEF Cell
    <3>2. m[2] # 0
      BY <1>2 DEF FloorInv
    <3> QED
      BY <1>1, <3>1, <3>2
  <2>2. LightAt(ch, m) \in Nat /\ LightAt(ch, h) \in Nat
    BY LightAtLevel
  <2>3. LightAt(ch, h) # 0
    BY <2>2 DEF Raised
  <2>4. ~InHeight(h)
    BY <1>5, <2>3 DEF LightAt
  <2>5. h[2] = -1 \/ h[2] = Height
    BY <1>1, <2>4 DEF InHeight
  <2>6. h = Above(m)
    BY <1>1, <1>3, <2>1, <2>5 DEF Neighbors, Left, Right, Below, Above
  <2>7. h[2] = Height
    BY <1>1, <2>1, <2>5, <2>6 DEF Above
  <2> QED
    BY <2>6, <2>7 DEF Givers, Channel
<1> QED
  BY <1>4, <1>5

LEMMA SpreadNodesNear ==
  ASSUME Shape, FloorInv, NEW ch \in Channel, spread[ch] # <<>>
  PROVE  Head(spread[ch]) \in Near /\ Head(spread[ch]) \in Queued(spread[ch])
<1>1. spread[ch] \in Seq(Node)
  BY DEF Shape
<1>2. Head(spread[ch]) \in Queued(spread[ch])
  BY <1>1, QueuedHeadTail
<1> QED
  BY <1>2 DEF FloorInv

SunSupport == ~generating /\ ~overtaken => \E W \in [Cell -> Level] : Supported("sun", W)

SunExactInv == SunInv /\ FloorInv /\ SunSupport

(* What the generation leaves.                                             *)
LEMMA GeneratedSupport ==
  ASSUME SunInv, edits = 0, spread["sun"] = <<>>
  PROVE  \E W \in [Cell -> Level] : Supported("sun", W)
<1>1. "sun" \in Channel /\ Shape /\ SolidDark /\ light["sun"] \in [Cell -> Level]
  BY DEF SunInv, Shape, Channel
<1>2. PICK W \in [Cell -> Level] : W = light["sun"]
  BY <1>1
<1>3. removal["sun"] = <<>>
  BY <1>1 DEF SunInv, GenerationInv
<1>4. \A d \in Cell : light["sun"][d] \in Nat
  BY <1>1, LightAssumption DEF Level
<1>5. \A n : Hope("sun", W, n) = LightAt("sun", n)
  BY <1>2, <1>4 DEF Hope
<1>6. PICK h \in Heights, sea \in Seas : Settled(h, sea)
  BY SunSettles DEF SunInv
<1>7. ASSUME NEW d \in Cell, blocks[d] \notin Solid, Hope("sun", W, d) > 0 PROVE Sourced("sun", W, d)
  <2>1. Hope("sun", W, d) = light["sun"][d]
    BY <1>5 DEF LightAt
  <2>2. light["sun"][d] = Passed("sun", Above(d), d)
    BY <1>1, <1>4, <1>6, <1>7, <2>1, SettledExact
  <2>3. Given("sun", Hope("sun", W, Above(d)), Above(d), d) >= Hope("sun", W, d)
    BY <1>4, <1>5, <2>1, <2>2, PassedIsGiven
  <2>4. Above(d) \in Givers("sun", d)
    BY DEF Givers
  <2> QED
    BY <2>3, <2>4 DEF Sourced
<1>8. \A d \in Cell : W[d] <= light["sun"][d]
  BY <1>2, <1>4
<1>9. Supported("sun", W)
  BY <1>3, <1>7, <1>8 DEF Supported
<1> QED
  BY <1>9

(* A removal of sun, as long as it is not overtaken.                       *)
LEMMA SunRemovalSupported ==
  ASSUME Shape, SolidDark, FloorInv, UnPropagate("sun"), ~overtaken',
         NEW W \in [Cell -> Level], Supported("sun", W)
  PROVE  \E V \in [Cell -> Level] : Supported("sun", V)'
<1>1. "sun" \in Channel
  BY DEF Channel
<1>2. PICK h, level, dark, rest, follow : Removes("sun", h, level, dark, rest, follow)
  BY <1>1, RemovalEffect
<1>3. /\ h \in Node /\ level \in Int /\ dark \subseteq Cell
      /\ Head(removal["sun"])[1] = h /\ Head(removal["sun"])[2] = level
      /\ removal["sun"] \in Seq(Mark)
      /\ \A n \in dark : n \in Neighbors(h) /\ light["sun"][n] # 0
                         /\ (n = Below(h) \/ light["sun"][n] < level)
  BY <1>2, CellNodes DEF Removes
<1>4. \A n \in dark : light["sun"][n] \in Nat /\ LightAt("sun", n) = light["sun"][n]
  BY <1>1, <1>3, LightAssumption DEF Shape, Level, LightAt
<1>5. \A n \in dark : blocks[n] \notin Solid
  BY <1>1, <1>3 DEF SolidDark
<1>6. \A e \in Queued(removal["sun"]) : e[1] \in Cell /\ e[2] \in Int
  <2>1. \A e \in Queued(removal["sun"]) : e \in Mark
    BY <1>3 DEF Queued
  <2> QED
    BY <1>1, <2>1 DEF FloorInv, Mark
<1>7. \A n \in dark : ~Overtakes("sun", n, level)
  <2>1. \A n \in Neighbors(h) : Darkened("sun", h, level, n) => ~Overtakes("sun", n, level)
    BY <1>3 DEF UnPropagate
  <2> QED
    BY <1>3, <1>4, <2>1 DEF Darkened
<1>8. ASSUME NEW n \in dark, light["sun"][n] > Taking("sun", h, level, n),
             NEW e \in Queued(removal["sun"])
      PROVE  e[2] <= light["sun"][n]
  <2>1. light["sun"][n] > level
    BY <1>3, <1>4, <1>8, TakingBounds
  <2>2. \A i \in DOMAIN removal["sun"] : ~ (removal["sun"][i][2] > LightAt("sun", n))
    BY <1>4, <1>7, <2>1 DEF Overtakes
  <2>3. ~ (e[2] > light["sun"][n])
    BY <1>4, <2>2 DEF Queued
  <2> QED
    BY <1>4, <1>6, <2>3
<1>9. PICK V \in [Cell -> Level] :
        \A d \in Cell : V[d] = IF d \in dark /\ light["sun"][d] <= Taking("sun", h, level, d)
                               THEN 0 ELSE W[d]
  <2> DEFINE V == [d \in Cell |-> IF d \in dark /\ light["sun"][d] <= Taking("sun", h, level, d)
                                  THEN 0 ELSE W[d]]
  <2>1. V \in [Cell -> Level]
    BY LightAssumption DEF Level
  <2> QED
    BY <2>1
<1>10. Supported("sun", V)'
  BY <1>1, <1>2, <1>5, <1>6, <1>8, <1>9, RemovalSupported
<1> QED
  BY <1>10

LEMMA SunExactStep ==
  ASSUME Floor
  PROVE  SunExactInv /\ [Next]_vars => SunExactInv'
<1> SUFFICES ASSUME SunExactInv, [Next]_vars PROVE SunExactInv'
  OBVIOUS
<1>1. SunInv' /\ FloorInv'
  BY SunInvStep, InsideStep DEF SunExactInv, SunInv
<1>2. SUFFICES ASSUME ~generating', ~overtaken'
               PROVE  \E V \in [Cell -> Level] : Supported("sun", V)'
  BY <1>1 DEF SunExactInv, SunSupport
<1>3. Shape /\ SolidDark /\ FloorInv /\ SunInv /\ "sun" \in Channel /\ "torch" \in Channel
  BY DEF SunExactInv, SunInv, Channel
<1>4. CASE Generate
  BY <1>2, <1>4 DEF Generate
<1>5. CASE Generated
  <2>1. generating /\ edits = 0 /\ spread["sun"] = <<>>
    BY <1>3, <1>5 DEF Generated, SunInv, GenerationInv
  <2>2. PICK W \in [Cell -> Level] : Supported("sun", W)
    BY <1>3, <2>1, GeneratedSupport
  <2>3. UNCHANGED <<blocks, light, removal>>
    BY <1>5 DEF Generated
  <2>4. Supported("sun", W)'
    BY <1>3, <2>2, <2>3, OtherHalfSupported
  <2> QED
    BY <2>4
<1>6. CASE Propagate("sun")
  <2>1. /\ ~generating /\ ~overtaken /\ removal["sun"] = <<>> /\ spread["sun"] # <<>>
        /\ SpreadTo("sun", Neighbors(Head(spread["sun"])))
    BY <1>2, <1>6 DEF Propagate, SpreadTo, Turn
  <2>2. PICK W \in [Cell -> Level] : Supported("sun", W)
    BY <2>1 DEF SunExactInv, SunSupport
  <2>3. Head(spread["sun"]) \in Near
    BY <1>3, <2>1, SpreadNodesNear
  <2>4. \A m \in Neighbors(Head(spread["sun"])) :
          Raised("sun", Head(spread["sun"]), m) => Head(spread["sun"]) \in Givers("sun", m)
    BY <1>3, <2>3, RaisedByGiver
  <2>5. Supported("sun", W)'
    BY <1>3, <2>1, <2>2, <2>4, SpreadSupported
  <2> QED
    BY <2>5
<1>7. CASE Propagate("torch") \/ UnPropagate("torch")
  <2>1. /\ ~generating /\ ~overtaken /\ UNCHANGED blocks
        /\ light'["sun"] = light["sun"] /\ removal'["sun"] = removal["sun"]
    <3>1. UNCHANGED blocks /\ light'["sun"] = light["sun"] /\ removal'["sun"] = removal["sun"]
      BY <1>3, <1>7 DEF Propagate, UnPropagate, SpreadTo, Shape
    <3>2. ~generating
      BY <1>7 DEF Propagate, UnPropagate, Turn
    <3>3. ~overtaken
      BY <1>2, <1>7 DEF Propagate, UnPropagate, SpreadTo
    <3> QED
      BY <3>1, <3>2, <3>3
  <2>2. PICK W \in [Cell -> Level] : Supported("sun", W)
    BY <2>1 DEF SunExactInv, SunSupport
  <2>3. Supported("sun", W)'
    BY <1>3, <2>1, <2>2, OtherHalfSupported
  <2> QED
    BY <2>3
<1>8. CASE UnPropagate("sun")
  <2>1. ~generating
    BY <1>8 DEF UnPropagate, Turn
  <2>2. ~overtaken
    BY <1>2, <1>8 DEF UnPropagate
  <2>3. PICK W \in [Cell -> Level] : Supported("sun", W)
    BY <2>1, <2>2 DEF SunExactInv, SunSupport
  <2> QED
    BY <1>2, <1>3, <1>8, <2>3, SunRemovalSupported
<1>9. ASSUME NEW c \in Editable, NEW b \in Block, Open(c, b) \/ Fill(c, b)
      PROVE  \E V \in [Cell -> Level] : Supported("sun", V)'
  <2>1. ~generating /\ ~overtaken
    BY <1>2, <1>9 DEF Open, Fill, Editing, AtRest
  <2>2. PICK W \in [Cell -> Level] : Supported("sun", W)
    BY <2>1 DEF SunExactInv, SunSupport
  <2>3. SpreadInv("sun")
    BY <1>3, <2>1 DEF SunInv
  <2>4. light'["sun"] \in [Cell -> Level]
    BY <1>1, <1>3 DEF SunInv, Shape
  <2>5. PICK V \in [Cell -> Level] : V = light'["sun"]
    BY <2>4
  <2>6. Supported("sun", V)'
    BY <1>3, <1>9, <2>2, <2>3, <2>5, EditSupported
  <2> QED
    BY <2>6
<1>10. CASE UNCHANGED vars
  <2>1. UNCHANGED <<blocks, light, removal>> /\ ~generating /\ ~overtaken
    BY <1>2, <1>10 DEF vars
  <2>2. PICK W \in [Cell -> Level] : Supported("sun", W)
    BY <2>1 DEF SunExactInv, SunSupport
  <2>3. Supported("sun", W)'
    BY <1>3, <2>1, <2>2, OtherHalfSupported
  <2> QED
    BY <2>3
<1> QED
  BY <1>4, <1>5, <1>6, <1>7, <1>8, <1>9, <1>10 DEF Next, Search, Channel

LEMMA SunExactInit ==
  ASSUME Floor, Columns
  PROVE  Init => SunExactInv
BY SunInvInit, InsideInit DEF Init, SunExactInv, SunSupport

LEMMA SunInvExact ==
  SunExactInv => SunExact
<1> SUFFICES ASSUME SunExactInv, AtRest, ~overtaken, NEW c \in Cell
             PROVE  SunLit(c)
  BY DEF SunExact
<1>1. Shape /\ SolidDark /\ SunInv /\ "sun" \in Channel
  BY DEF SunExactInv, SunInv, Channel
<1>2. CASE blocks[c] \in Solid
  BY <1>1, <1>2 DEF SolidDark, SunLit
<1>3. CASE blocks[c] \notin Solid
  <2> DEFINE S == {0} \cup {SunGiven(n, c) : n \in Beside(c) \cup {Above(c)}}
  <2>1. ~generating /\ Idle("sun") /\ SpreadInv("sun")
    BY <1>1 DEF AtRest, SunInv
  <2>2. PICK W \in [Cell -> Level] : Supported("sun", W)
    BY <2>1 DEF SunExactInv, SunSupport
  <2>3. light["sun"][c] = 0 \/ \E n \in Givers("sun", c) : Passed("sun", n, c) >= light["sun"][c]
    BY <1>1, <1>3, <2>1, <2>2, RestSourced
  <2>4. Givers("sun", c) = Beside(c) \cup {Above(c)}
    BY DEF Givers, Beside
  <2>5. \A n \in Givers("sun", c) : n \in Node /\ SunGiven(n, c) = Passed("sun", n, c)
    BY <1>1, GiversAreNeighbors, SunGivenIsPassed
  <2>6. \A n \in Givers("sun", c) : Passed("sun", n, c) \in Int
    BY <1>1, <2>5, CellNodes, PassedBounds
  <2>7. light["sun"][c] \in Nat
    BY <1>1, LightAssumption DEF Shape, Level
  <2>8. \A n \in Givers("sun", c) : light["sun"][c] >= SunGiven(n, c)
    BY <1>1, <1>3, <2>4, SunInvSpreads DEF SunSpread
  <2>9. S \subseteq Int
    BY <2>4, <2>5, <2>6
  <2>10. light["sun"][c] \in S
    <3>1. CASE light["sun"][c] = 0
      BY <3>1
    <3>2. CASE light["sun"][c] # 0
      <4>1. PICK n \in Givers("sun", c) : Passed("sun", n, c) >= light["sun"][c]
        BY <2>3, <3>2
      <4>2. light["sun"][c] = SunGiven(n, c)
        BY <2>5, <2>6, <2>7, <2>8, <4>1
      <4> QED
        BY <2>4, <4>2
    <3> QED
      BY <3>1, <3>2
  <2>11. \A x \in S : light["sun"][c] >= x
    BY <2>4, <2>7, <2>8
  <2> HIDE DEF S
  <2>12. Max(S) = light["sun"][c]
    BY <2>9, <2>10, <2>11, MaxIs
  <2> QED
    BY <1>3, <2>12 DEF S, SunLit
<1> QED
  BY <1>2, <1>3

(* After the generation and after any number of edits every cell has       *)
(* exactly the sun that comes to it from above and from its neighbours:    *)
(* a removal that is not overtaken takes away no light that has another    *)
(* source for good, and leaves none behind that has lost its source        *)
(* (Chunk::setBlock, propagateSunlight, unPropagateSunlight).              *)
THEOREM SunAlwaysExact ==
  ASSUME Floor, Columns
  PROVE  Spec => []SunExact
<1>1. Init => SunExactInv
  BY SunExactInit
<1>2. SunExactInv /\ [Next]_vars => SunExactInv'
  BY SunExactStep
<1>3. SunExactInv => SunExact
  BY SunInvExact
<1> QED
  BY <1>1, <1>2, <1>3, PTL DEF Spec

-----------------------------------------------------------------------------
(* Torch light stays away from the sky.                                    *)

(* The generator makes no emitters (worldgen.lua), and nobody sets blocks  *)
(* so high that their light would meet the sky, which reads as lit.        *)
NoLamps  == \A t \in Terrain, c \in Cell : t[c] \notin Emitter
BelowSky == \A c \in Editable : c[2] + 1 < Height /\ c[2] + MaxLight < Height

TorchLow ==
  /\ \A c \in Cell : light["torch"][c] > 0 => light["torch"][c] + c[2] < Height
  /\ \A e \in Queued(removal["torch"]) : e[1][2] + 1 < Height
  /\ \A n \in Queued(spread["torch"]) : n[2] < Height

LEMMA TorchLowSpread ==
  ASSUME Shape, FloorInv, TorchLow, Propagate("torch")
  PROVE  /\ TorchLow'
         /\ \A m \in Neighbors(Head(spread["torch"])) :
              Raised("torch", Head(spread["torch"]), m) => Head(spread["torch"]) \in Givers("torch", m)
<1> DEFINE h      == Head(spread["torch"])
           raised == {m \in Neighbors(h) : Raised("torch", h, m)}
           q      == Picked(h, raised)
<1>1. /\ "torch" \in Channel /\ spread["torch"] # <<>> /\ removal["torch"] = <<>>
      /\ SpreadTo("torch", Neighbors(h)) /\ spread["torch"] \in Seq(Node)
      /\ Width \in Nat /\ Height \in Nat /\ MaxLight \in Nat
  BY LightAssumption DEF Propagate, Shape, Channel
<1>2. /\ h \in Node /\ Tail(spread["torch"]) \in Seq(Node) /\ h \in Near /\ h[2] # Height
      /\ Queued(spread["torch"]) = {h} \cup Queued(Tail(spread["torch"]))
  <2>1. h \in Near /\ h \in Queued(spread["torch"])
    BY <1>1, SpreadNodesNear
  <2>2. h[2] < Height /\ h[2] \in Int
    BY <1>1, <2>1 DEF TorchLow, Near
  <2> QED
    BY <1>1, <2>1, <2>2, QueuedHeadTail
<1>3. q \in Seq(Node) /\ Queued(q) = raised
  BY <1>2, QueuedPicked
<1>4. /\ light' = [light EXCEPT !["torch"] = [d \in Cell |-> IF d \in raised THEN Passed("torch", h, d)
                                                             ELSE light["torch"][d]]]
      /\ spread' = [spread EXCEPT !["torch"] = Tail(spread["torch"]) \o q]
      /\ removal' = removal
  BY <1>1 DEF SpreadTo, Shape, Picked
<1>5. ASSUME NEW m \in Neighbors(h), Raised("torch", h, m)
      PROVE  /\ h \in Givers("torch", m) /\ m \in Cell /\ m[2] < Height
             /\ Passed("torch", h, m) + m[2] < Height
  <2>1. h \in Givers("torch", m) /\ m \in Cell
    BY <1>1, <1>2, <1>5, RaisedByGiver, RaisedCell
  <2>2. h \in Cell /\ h[1] \in Int /\ h[2] \in Int /\ m[2] \in Int /\ m[2] < Height
    BY <1>1, <1>2, <2>1 DEF Givers, Node, Cell
  <2>3. m[2] <= h[2] + 1
    BY <1>5, <2>2 DEF Neighbors, Left, Right, Below, Above
  <2>4. LightAt("torch", h) = light["torch"][h] /\ light["torch"][h] \in Nat /\ LightAt("torch", m) \in Nat
    BY <1>1, <2>2, LightAtLevel DEF LightAt, Shape, Level
  <2>5. light["torch"][h] > 0
    BY <1>5, <2>4 DEF Raised
  <2>6. light["torch"][h] + h[2] < Height
    BY <2>2, <2>5 DEF TorchLow
  <2>7. Passed("torch", h, m) = light["torch"][h] - 1
    BY <2>4 DEF Passed
  <2> HIDE DEF h
  <2>8. Passed("torch", h, m) + m[2] < Height
    BY <1>1, <2>2, <2>3, <2>4, <2>6, <2>7
  <2> QED
    BY <2>1, <2>2, <2>8
<1>6. \A m \in raised : m[2] < Height /\ Passed("torch", h, m) + m[2] < Height
  BY <1>5
<1>7. \A m \in Neighbors(h) : Raised("torch", h, m) => h \in Givers("torch", m)
  BY <1>5
<1> HIDE DEF q, raised, h
<1>8. \A d \in Cell : light'["torch"][d] = IF d \in raised THEN Passed("torch", h, d) ELSE light["torch"][d]
  BY <1>1, <1>4 DEF Shape
<1>9. Queued(spread'["torch"]) = Queued(Tail(spread["torch"])) \cup raised
  <2>1. spread'["torch"] = Tail(spread["torch"]) \o q
    BY <1>1, <1>4 DEF Shape
  <2>2. Tail(spread["torch"]) \in Seq(Node) /\ q \in Seq(Node)
    BY <1>2, <1>3
  <2>3. Queued(Tail(spread["torch"]) \o q) = Queued(Tail(spread["torch"])) \cup Queued(q)
    BY <2>2, QueuedConcat
  <2> QED
    BY <1>3, <2>1, <2>3
<1>10. TorchLow'
  BY <1>2, <1>4, <1>6, <1>8, <1>9 DEF TorchLow
<1> QED
  BY <1>7, <1>10 DEF h

LEMMA TorchLowRemoval ==
  ASSUME Shape, FloorInv, TorchLow, UnPropagate("torch")
  PROVE  TorchLow'
<1>1. "torch" \in Channel /\ Height \in Nat
  BY LightAssumption DEF Channel
<1>2. PICK h, level, dark, rest, follow : Removes("torch", h, level, dark, rest, follow)
  BY <1>1, RemovalEffect
<1>3. /\ h \in Cell /\ h[1] \in Int /\ h[2] \in Int /\ dark \subseteq Cell
      /\ <<h, level>> \in Queued(removal["torch"])
      /\ Queued(removal'["torch"]) = Queued(rest) \cup Queued(follow)
      /\ Queued(rest) \subseteq Queued(removal["torch"])
      /\ \A e \in Queued(follow) : e[1] \in dark
      /\ \A n \in dark : light["torch"][n] # 0
      /\ \A d \in Cell : light'["torch"][d] = IF d \in dark THEN 0 ELSE light["torch"][d]
      /\ Queued(spread'["torch"]) \subseteq Queued(spread["torch"]) \cup Neighbors(h)
  BY <1>2 DEF Removes, Cell
<1>4. \A d \in Cell : light["torch"][d] \in Nat /\ d[2] \in Nat
  BY <1>1, LightAssumption DEF Shape, Level, Cell
<1>5. <<h, level>>[1][2] + 1 < Height
  BY <1>3 DEF TorchLow
<1>6. h[2] + 1 < Height
  BY <1>5
<1>7. \A n \in Neighbors(h) : n[2] < Height
  BY <1>1, <1>3, <1>6 DEF Neighbors, Left, Right, Below, Above
<1>8. \A n \in dark : n[2] + 1 < Height
  <2>1. ASSUME NEW n \in dark PROVE n[2] + 1 < Height
    <3>1. light["torch"][n] > 0 /\ n \in Cell
      BY <1>3, <1>4
    <3>2. light["torch"][n] + n[2] < Height
      BY <3>1 DEF TorchLow
    <3> QED
      BY <1>1, <1>4, <3>1, <3>2
  <2> QED
    BY <2>1
<1> QED
  BY <1>3, <1>7, <1>8 DEF TorchLow

LEMMA TorchLowEdit ==
  ASSUME Shape, TorchLow, BelowSky,
         NEW c \in Editable, NEW b \in Block, Open(c, b) \/ Fill(c, b)
  PROVE  TorchLow'
<1>1. /\ "torch" \in Channel /\ Height \in Nat /\ MaxLight \in Nat /\ c \in Cell /\ c \in Node
      /\ c[2] \in Int /\ c[2] + 1 < Height /\ c[2] + MaxLight < Height
  BY LightAssumption, CellNodes DEF Channel, BelowSky, Cell
<1>2. \A d \in Cell : d # c => light'["torch"][d] = light["torch"][d]
  BY <1>1, EditEffect
<1>3. light'["torch"][c] \in {0, MaxLight, light["torch"][c]}
  BY <1>1 DEF Open, Fill, Shape, Channel
<1>4. \A e \in Queued(removal'["torch"]) : e[1][2] + 1 < Height
  <2>1. \/ removal'["torch"] = <<>>
        \/ \E l \in Level : removal'["torch"] = <<<<c, l>>>>
    BY <1>1, EditMarks
  <2> QED
    BY <1>1, <2>1 DEF Queued
<1>5. \A n \in Queued(spread'["torch"]) : n[2] < Height
  <2>1. spread["torch"] = <<>> /\ spread \in [Channel -> Seq(Node)]
    BY DEF Open, Fill, Editing, AtRest, Idle, Shape
  <2>2. spread'["torch"] \in {<<>>, Around(c), <<c>>}
    BY <1>1, <2>1 DEF Open, Fill, Channel
  <2>3. Queued(<<>>) = {} /\ Queued(<<c>>) = {c}
    BY <1>1, OneQueued DEF Queued
  <2>4. \A n \in Queued(Around(c)) : n[2] \in (c[2] - 1)..(c[2] + 1)
    BY <1>1, AroundNodes
  <2>5. \A n \in Queued(Around(c)) : n[2] < Height
    BY <1>1, <2>4
  <2>6. c[2] < Height
    BY <1>1
  <2> QED
    BY <2>2, <2>3, <2>5, <2>6
<1>6. ASSUME NEW d \in Cell, light'["torch"][d] > 0 PROVE light'["torch"][d] + d[2] < Height
  BY <1>1, <1>2, <1>3, <1>6 DEF TorchLow
<1> QED
  BY <1>4, <1>5, <1>6 DEF TorchLow

-----------------------------------------------------------------------------
(* Emitters that are no lower than the cell torch light is taken from.     *)

(* A removal puts out what lies below whatever its light, an emitter too.  *)
(* But it does not come to an emitter from above: the cells over it, up to *)
(* the first solid one, are lit by it, and more brightly than the removal  *)
(* is when it gets there from the cell c, which lies no higher.            *)

Abs(x) == IF x < 0 THEN -x ELSE x

Dist(n, c) == Abs(n[1] - c[1]) + Abs(n[2] - c[2])

\* Nothing solid lies between the emitter g and x above it.
ShinesUp(g, x) ==
  /\ g \in Cell /\ x \in Cell /\ blocks[g] \in Emitter
  /\ x[1] = g[1] /\ x[2] >= g[2]
  /\ \A y \in Cell : y[1] = g[1] /\ g[2] <= y[2] /\ y[2] <= x[2] => blocks[y] \notin Solid \ Emitter

\* c is the cell that was set.
Guarded(c) ==
  /\ c \in Cell /\ blocks[c] \notin Emitter
  /\ \A g \in Cell : blocks[g] \in Emitter => g[2] >= c[2]
  /\ \A e \in Queued(removal["torch"]) :
       /\ e[2] <= MaxLight - Dist(e[1], c)
       /\ e[1] = c \/ blocks[e[1]] \notin Solid \ Emitter
  /\ \A g, x \in Cell : ShinesUp(g, x) =>
       /\ light["torch"][x] >= MaxLight - (x[2] - g[2])
       /\ \A e \in Queued(removal["torch"]) : e[1] # x

LampsLit == \A g \in Cell : blocks[g] \in Emitter => light["torch"][g] = MaxLight

LEMMA DistStep ==
  ASSUME NEW c \in Node, NEW h \in Node, NEW n \in Neighbors(h)
  PROVE  /\ Dist(h, c) \in Nat /\ Dist(n, c) \in Nat
         /\ Dist(n, c) <= Dist(h, c) + 1
<1>1. c[1] \in Int /\ c[2] \in Int /\ h[1] \in Int /\ h[2] \in Int
  BY DEF Node
<1>2. \/ n[1] = h[1] - 1 /\ n[2] = h[2]
      \/ n[1] = h[1] + 1 /\ n[2] = h[2]
      \/ n[1] = h[1] /\ n[2] = h[2] - 1
      \/ n[1] = h[1] /\ n[2] = h[2] + 1
  BY DEF Neighbors, Left, Right, Below, Above
<1> QED
  BY <1>1, <1>2 DEF Dist, Abs

(* What stands below is in the way no less.                                *)
LEMMA ShinesUpCells ==
  ASSUME NEW g, NEW x, ShinesUp(g, x)
  PROVE  /\ g \in Cell /\ x \in Cell /\ g \in Node /\ x \in Node
         /\ g = <<g[1], g[2]>> /\ x = <<x[1], x[2]>>
         /\ g[1] \in Nat /\ g[2] \in Nat /\ x[1] = g[1] /\ x[2] \in Nat /\ x[2] >= g[2]
         /\ blocks[g] \in Emitter /\ blocks[x] \notin Solid \ Emitter
         /\ x = g \/ (Below(x) \in Cell /\ ShinesUp(g, Below(x)))
         /\ Above(x) \in Cell /\ blocks[Above(x)] \notin Solid \ Emitter => ShinesUp(g, Above(x))
<1>1. /\ g \in Cell /\ x \in Cell /\ g \in Node /\ x \in Node
      /\ x[1] = g[1] /\ x[2] >= g[2] /\ blocks[g] \in Emitter
      /\ Width \in Nat /\ Height \in Nat
  BY LightAssumption, CellNodes DEF ShinesUp
<1>2. /\ g = <<g[1], g[2]>> /\ x = <<x[1], x[2]>>
      /\ g[1] \in 0..(Width - 1) /\ g[2] \in 0..(Height - 1) /\ x[2] \in 0..(Height - 1)
  BY <1>1 DEF Cell
<1>3. blocks[x] \notin Solid \ Emitter
  BY <1>1, <1>2 DEF ShinesUp
<1>4. ASSUME x # g PROVE Below(x) \in Cell /\ ShinesUp(g, Below(x))
  <2>1. x[2] > g[2]
    BY <1>1, <1>2, <1>4
  <2>2. Below(x) = <<g[1], x[2] - 1>>
    BY <1>1 DEF Below
  <2>3. Below(x) \in Cell /\ Below(x)[1] = g[1] /\ Below(x)[2] = x[2] - 1
    BY <1>1, <1>2, <2>1, <2>2 DEF Cell
  <2>4. \A y \in Cell : y[2] <= Below(x)[2] => y[2] <= x[2]
    BY <1>2, <2>3 DEF Cell
  <2> QED
    BY <1>1, <1>2, <2>1, <2>3, <2>4 DEF ShinesUp
<1>5. ASSUME Above(x) \in Cell, blocks[Above(x)] \notin Solid \ Emitter PROVE ShinesUp(g, Above(x))
  <2>1. Above(x) = <<g[1], x[2] + 1>> /\ Above(x)[1] = g[1] /\ Above(x)[2] = x[2] + 1
    BY <1>1 DEF Above
  <2>2. ASSUME NEW y \in Cell, y[1] = g[1], g[2] <= y[2], y[2] <= x[2] + 1
        PROVE  blocks[y] \notin Solid \ Emitter
    <3>1. y = <<y[1], y[2]>> /\ y[2] \in Int
      BY DEF Cell
    <3>2. CASE y[2] = x[2] + 1
      BY <1>5, <2>1, <2>2, <3>1, <3>2
    <3>3. CASE y[2] <= x[2]
      BY <2>2, <3>3 DEF ShinesUp
    <3> QED
      BY <1>2, <2>2, <3>1, <3>2, <3>3
  <2> QED
    BY <1>1, <1>2, <1>5, <2>1, <2>2 DEF ShinesUp
<1> QED
  BY <1>1, <1>2, <1>3, <1>4, <1>5

(* A removal that c has started leaves what emitters shine on from below.  *)
LEMMA ShoneOnKept ==
  ASSUME Shape, SolidDark, NEW c, Guarded(c),
         NEW h, NEW level, NEW dark, NEW rest, NEW follow,
         Removes("torch", h, level, dark, rest, follow),
         NEW g, NEW x, ShinesUp(g, x)
  PROVE  x \notin dark
<1> SUFFICES ASSUME x \in dark PROVE FALSE
  OBVIOUS
<1>1. /\ h \in Cell /\ h \in Node /\ level \in Int /\ x \in Neighbors(h)
      /\ x = Below(h) \/ light["torch"][x] < level
      /\ <<h, level>> \in Queued(removal["torch"])
  BY CellNodes DEF Removes
<1>2. /\ g \in Cell /\ x \in Cell /\ g \in Node /\ x \in Node
      /\ g = <<g[1], g[2]>> /\ g[1] \in Nat /\ g[2] \in Nat
      /\ x[1] = g[1] /\ x[2] \in Nat /\ x[2] >= g[2] /\ blocks[g] \in Emitter
      /\ Above(x) \in Cell /\ blocks[Above(x)] \notin Solid \ Emitter => ShinesUp(g, Above(x))
  BY ShinesUpCells
<1>3. /\ c \in Cell /\ c \in Node /\ c = <<c[1], c[2]>> /\ c[1] \in Int /\ c[2] \in Int
      /\ blocks[c] \notin Emitter /\ g[2] >= c[2]
  BY <1>2, CellNodes DEF Guarded, Node
<1>4. /\ level <= MaxLight - Dist(h, c)
      /\ h = c \/ blocks[h] \notin Solid \ Emitter
  <2>1. /\ <<h, level>>[2] <= MaxLight - Dist(<<h, level>>[1], c)
        /\ <<h, level>>[1] = c \/ blocks[<<h, level>>[1]] \notin Solid \ Emitter
    BY <1>1 DEF Guarded
  <2> QED
    BY <2>1
<1>5. light["torch"][x] >= MaxLight - (x[2] - g[2])
  BY <1>2 DEF Guarded
<1>6. light["torch"][x] \in Nat /\ MaxLight \in Nat
  BY <1>2, LightAssumption DEF Shape, Level, Channel
<1>7. CASE x = Below(h)
  <2>1. h = Above(x) /\ h[2] = x[2] + 1
    <3>1. h = Above(x)
      BY <1>1, <1>2, <1>7, NeighborsBothWays
    <3> QED
      BY <3>1 DEF Above
  <2>2. h # c
    BY <1>2, <1>3, <2>1
  <2>3. ShinesUp(g, h)
    BY <1>1, <1>2, <1>4, <2>1, <2>2
  <2>4. <<h, level>>[1] # h
    BY <1>1, <1>2, <2>3 DEF Guarded
  <2> QED
    BY <2>4
<1>8. CASE light["torch"][x] < level
  <2>1. Dist(h, c) \in Nat /\ Dist(x, c) \in Nat /\ Dist(x, c) <= Dist(h, c) + 1
    BY <1>1, <1>3, DistStep
  <2>2. Dist(x, c) <= x[2] - g[2]
    BY <1>1, <1>2, <1>4, <1>5, <1>6, <1>8, <2>1
  <2>3. Dist(x, c) = Abs(g[1] - c[1]) + (x[2] - c[2])
    BY <1>2, <1>3 DEF Dist, Abs
  <2>4. g[1] = c[1] /\ g[2] = c[2]
    BY <1>2, <1>3, <2>2, <2>3 DEF Abs
  <2> QED
    BY <1>2, <1>3, <2>4
<1> QED
  BY <1>1, <1>7, <1>8

-----------------------------------------------------------------------------
(* Torch light is where emitters bring it.                                 *)

(* At rest what an emitter shines on from below has its light, or more.    *)
LEMMA ShoneOnLit ==
  ASSUME Shape, TorchSpread, AtRest, LampsLit, NEW g, NEW x, ShinesUp(g, x)
  PROVE  light["torch"][x] >= MaxLight - (x[2] - g[2])
<1> DEFINE lacks == {y \in Cell : ShinesUp(g, y) /\ ~ (light["torch"][y] >= MaxLight - (y[2] - g[2]))}
           rows  == {y[2] : y \in lacks}
<1>1. SUFFICES ASSUME lacks # {} PROVE FALSE
  BY ShinesUpCells
<1>2. MaxLight \in Nat /\ Height \in Nat
  BY LightAssumption
<1>3. rows \subseteq Nat /\ rows # {}
  <2>1. \A y \in Cell : y[2] \in Nat
    BY <1>2 DEF Cell
  <2> QED
    BY <1>1, <2>1
<1> HIDE DEF rows
<1>4. PICK l \in rows : \A k \in rows : l <= k
  BY <1>3, LeastNumber
<1>5. PICK y \in lacks : l = y[2]
  BY <1>4 DEF rows
<1>6. /\ g \in Cell /\ y \in Cell /\ g[2] \in Nat /\ y[2] \in Nat /\ y[2] >= g[2]
      /\ blocks[g] \in Emitter /\ blocks[y] \notin Solid \ Emitter
      /\ y = g \/ (Below(y) \in Cell /\ ShinesUp(g, Below(y)))
  <2>1. ShinesUp(g, y)
    BY <1>5
  <2> QED
    BY <2>1, ShinesUpCells
<1>7. /\ light["torch"][y] \in Nat /\ ~ (light["torch"][y] >= MaxLight - (y[2] - g[2]))
  BY <1>5, <1>6, LightAssumption DEF Shape, Level, Channel
<1>8. blocks[y] \notin Emitter
  <2>1. light["torch"][y] = MaxLight => FALSE
    BY <1>2, <1>6, <1>7
  <2> QED
    BY <1>6, <2>1 DEF LampsLit
<1>9. blocks[y] \notin Solid /\ Below(y) \in Cell /\ ShinesUp(g, Below(y))
  BY <1>6, <1>8
<1>10. Below(y)[2] = y[2] - 1 /\ Below(y) \in Beside(y)
  BY <1>9 DEF Below, Beside, Neighbors
<1>11. light["torch"][Below(y)] >= MaxLight - ((y[2] - 1) - g[2])
  <2>1. Below(y) \notin lacks
    <3> SUFFICES ASSUME Below(y) \in lacks PROVE FALSE
      OBVIOUS
    <3>1. Below(y)[2] \in rows
      BY DEF rows
    <3>2. y[2] <= y[2] - 1
      BY <1>4, <1>5, <1>10, <3>1
    <3> QED
      BY <1>6, <3>2
  <2> QED
    BY <1>9, <1>10, <2>1
<1>12. light["torch"][y] >= light["torch"][Below(y)] - 1
  BY <1>6, <1>9, <1>10 DEF TorchSpread
<1>13. light["torch"][Below(y)] \in Nat
  BY <1>9, LightAssumption DEF Shape, Level, Channel
<1> QED
  BY <1>2, <1>6, <1>7, <1>11, <1>12, <1>13

TorchSupport ==
  ~shadowed =>
    /\ LampsLit
    /\ \E W \in [Cell -> Level] : Supported("torch", W)
    /\ removal["torch"] # <<>> => Falling(removal["torch"]) /\ \E c \in Cell : Guarded(c)

TorchExactInv == Shape /\ SolidDark /\ FloorInv /\ SpreadInv("torch") /\ TorchLow /\ TorchSupport

(* What leaves the torch light alone.                                      *)
LEMMA TorchKept ==
  ASSUME TorchLow, TorchSupport,
         UNCHANGED <<blocks, shadowed>>, light'["torch"] = light["torch"],
         removal'["torch"] = removal["torch"], spread'["torch"] = spread["torch"]
  PROVE  TorchLow' /\ TorchSupport'
<1>1. TorchLow'
  BY DEF TorchLow
<1>2. ASSUME ~shadowed PROVE LampsLit' /\ \E W \in [Cell -> Level] : Supported("torch", W)'
  <2>1. PICK W \in [Cell -> Level] : Supported("torch", W)
    BY <1>2 DEF TorchSupport
  <2>2. Supported("torch", W)'
    BY <2>1, OtherHalfSupported DEF Channel
  <2>3. LampsLit'
    BY <1>2 DEF TorchSupport, LampsLit
  <2> QED
    BY <2>2, <2>3
<1>3. ASSUME ~shadowed, removal["torch"] # <<>>
      PROVE  Falling(removal["torch"])' /\ \E c \in Cell : Guarded(c)'
  <2>1. PICK c \in Cell : Guarded(c)
    BY <1>3 DEF TorchSupport
  <2>2. \A g, x : ShinesUp(g, x)' <=> ShinesUp(g, x)
    BY DEF ShinesUp
  <2>3. Guarded(c)'
    BY <2>1, <2>2 DEF Guarded
  <2>4. Falling(removal["torch"])'
    BY <1>3 DEF TorchSupport, Falling
  <2> QED
    BY <2>3, <2>4
<1> QED
  BY <1>1, <1>2, <1>3 DEF TorchSupport

(* A removal of torch light that c has started.                            *)
LEMMA GuardedRemoval ==
  ASSUME Shape, SolidDark, FloorInv, NEW c, Guarded(c),
         NEW h, NEW level, NEW dark, NEW rest, NEW follow,
         Removes("torch", h, level, dark, rest, follow)
  PROVE  Guarded(c)'
<1>1. /\ h \in Cell /\ h \in Node /\ level \in Int /\ dark \subseteq Cell
      /\ <<h, level>> \in Queued(removal["torch"]) /\ removal["torch"] \in Seq(Mark)
      /\ Queued(removal'["torch"]) = Queued(rest) \cup Queued(follow)
      /\ Queued(rest) \subseteq Queued(removal["torch"])
      /\ follow \in Seq(Mark)
      /\ \A e \in Queued(follow) : e[1] \in dark /\ e[2] = level - 1
      /\ \A n \in dark : n \in Neighbors(h) /\ light["torch"][n] # 0
      /\ \A d \in Cell : light'["torch"][d] = IF d \in dark THEN 0 ELSE light["torch"][d]
      /\ blocks' = blocks
  BY CellNodes DEF Removes
<1>2. /\ c \in Cell /\ c \in Node /\ blocks[c] \notin Emitter /\ MaxLight \in Nat
      /\ \A g \in Cell : blocks[g] \in Emitter => g[2] >= c[2]
  BY CellNodes, LightAssumption DEF Guarded
<1>3. level <= MaxLight - Dist(h, c)
  <2>1. <<h, level>>[2] <= MaxLight - Dist(<<h, level>>[1], c)
    BY <1>1 DEF Guarded
  <2> QED
    BY <2>1
<1>4. \A g, x : ShinesUp(g, x)' <=> ShinesUp(g, x)
  BY <1>1 DEF ShinesUp
<1>5. ASSUME NEW g, NEW x, ShinesUp(g, x) PROVE x \notin dark
  BY <1>5, ShoneOnKept
<1>6. ASSUME NEW e \in Queued(removal'["torch"])
      PROVE  /\ e[2] <= MaxLight - Dist(e[1], c)
             /\ e[1] = c \/ blocks[e[1]] \notin Solid \ Emitter
             /\ \A g, x \in Cell : ShinesUp(g, x) => e[1] # x
  <2>1. CASE e \in Queued(rest)
    <3>1. e \in Queued(removal["torch"])
      BY <1>1, <2>1
    <3> QED
      BY <3>1 DEF Guarded
  <2>2. CASE e \in Queued(follow)
    <3>1. e[1] \in dark /\ e[1] \in Neighbors(h) /\ e[1] \in Cell /\ e[2] = level - 1
      BY <1>1, <2>2
    <3>2. Dist(h, c) \in Nat /\ Dist(e[1], c) \in Nat /\ Dist(e[1], c) <= Dist(h, c) + 1
      BY <1>1, <1>2, <3>1, DistStep
    <3>3. e[2] <= MaxLight - Dist(e[1], c)
      BY <1>1, <1>2, <1>3, <3>1, <3>2
    <3>4. blocks[e[1]] \notin Solid \ Emitter
      BY <1>1, <3>1 DEF SolidDark, Channel
    <3>5. \A g, x \in Cell : ShinesUp(g, x) => e[1] # x
      BY <1>5, <3>1
    <3> QED
      BY <3>3, <3>4, <3>5
  <2> QED
    BY <1>1, <1>6, <2>1, <2>2
<1>7. ASSUME NEW g \in Cell, NEW x \in Cell, ShinesUp(g, x)
      PROVE  light'["torch"][x] >= MaxLight - (x[2] - g[2])
  <2>1. light'["torch"][x] = light["torch"][x]
    BY <1>1, <1>5, <1>7
  <2> QED
    BY <1>7, <2>1 DEF Guarded
<1> QED
  BY <1>1, <1>2, <1>4, <1>6, <1>7 DEF Guarded

LEMMA TorchRemovalStep ==
  ASSUME TorchExactInv, UnPropagate("torch")
  PROVE  TorchSupport'
<1>1. /\ Shape /\ SolidDark /\ FloorInv /\ "torch" \in Channel
      /\ removal["torch"] # <<>> /\ shadowed' = shadowed /\ MaxLight \in Nat
  BY LightAssumption DEF TorchExactInv, Channel, UnPropagate
<1>2. SUFFICES ASSUME ~shadowed PROVE TorchSupport'
  BY <1>1 DEF TorchSupport
<1>3. LampsLit /\ Falling(removal["torch"])
  BY <1>1, <1>2 DEF TorchExactInv, TorchSupport
<1>4. PICK W \in [Cell -> Level] : Supported("torch", W)
  BY <1>2 DEF TorchExactInv, TorchSupport
<1>5. PICK c \in Cell : Guarded(c)
  BY <1>1, <1>2 DEF TorchExactInv, TorchSupport
<1>6. PICK h, level, dark, rest, follow : Removes("torch", h, level, dark, rest, follow)
  BY <1>1, RemovalEffect
<1>7. /\ h \in Node /\ level \in Int /\ dark \subseteq Cell
      /\ Head(removal["torch"])[1] = h /\ Head(removal["torch"])[2] = level
      /\ removal["torch"] \in Seq(Mark) /\ rest = Tail(removal["torch"]) /\ follow \in Seq(Mark)
      /\ removal'["torch"] = rest \o follow
      /\ \A e \in Queued(follow) : e[2] = level - 1
      /\ \A n \in dark : n \in Neighbors(h) /\ light["torch"][n] # 0
                         /\ (n = Below(h) \/ light["torch"][n] < level)
      /\ \A d \in Cell : light'["torch"][d] = IF d \in dark THEN 0 ELSE light["torch"][d]
      /\ blocks' = blocks
  BY <1>6, CellNodes DEF Removes
<1>8. \A n \in dark : light["torch"][n] \in Nat
  BY <1>1, <1>7, LightAssumption DEF Shape, Level
<1>9. \A g \in Cell : blocks[g] \in Emitter => g \notin dark
  <2> SUFFICES ASSUME NEW g \in Cell, blocks[g] \in Emitter PROVE g \notin dark
    OBVIOUS
  <2>1. g = <<g[1], g[2]>> /\ g[1] \in Int /\ g[2] \in Int
    BY DEF Cell
  <2>2. \A y \in Cell : y[1] = g[1] /\ g[2] <= y[2] /\ y[2] <= g[2] => y = g
    BY <2>1 DEF Cell
  <2>3. ShinesUp(g, g)
    BY <2>1, <2>2 DEF ShinesUp
  <2> QED
    BY <1>1, <1>5, <1>6, <2>3, ShoneOnKept
<1>10. \A n \in dark : blocks[n] \notin Solid
  BY <1>1, <1>7, <1>9 DEF SolidDark
<1>11. /\ \A e \in Queued(removal["torch"]) : e[2] <= level
       /\ Falling(removal'["torch"])
  BY <1>1, <1>3, <1>7, FallingStep
<1>12. \A e \in Queued(removal["torch"]) : e[1] \in Cell /\ e[2] \in Int
  <2>1. \A e \in Queued(removal["torch"]) : e \in Mark
    BY <1>7 DEF Queued
  <2> QED
    BY <1>1, <2>1 DEF FloorInv, Mark
<1>13. ASSUME NEW n \in dark, light["torch"][n] > Taking("torch", h, level, n),
              NEW e \in Queued(removal["torch"])
       PROVE  e[2] <= light["torch"][n]
  <2>1. Taking("torch", h, level, n) = level - 1
    BY DEF Taking
  <2>2. e[2] <= level /\ e[2] \in Int
    BY <1>11, <1>12
  <2> QED
    BY <1>7, <1>8, <1>13, <2>1, <2>2
<1>14. PICK V \in [Cell -> Level] :
         \A d \in Cell : V[d] = IF d \in dark /\ light["torch"][d] <= Taking("torch", h, level, d)
                                THEN 0 ELSE W[d]
  <2> DEFINE V == [d \in Cell |-> IF d \in dark /\ light["torch"][d] <= Taking("torch", h, level, d)
                                  THEN 0 ELSE W[d]]
  <2>1. V \in [Cell -> Level]
    BY <1>1 DEF Level
  <2> QED
    BY <2>1
<1>15. Supported("torch", V)'
  BY <1>1, <1>4, <1>6, <1>10, <1>12, <1>13, <1>14, RemovalSupported
<1>16. Guarded(c)'
  BY <1>1, <1>5, <1>6, GuardedRemoval
<1>17. LampsLit'
  BY <1>3, <1>7, <1>9 DEF LampsLit
<1>18. /\ \E U \in [Cell -> Level] : Supported("torch", U)'
       /\ \E d \in Cell : Guarded(d)'
  BY <1>15, <1>16
<1> QED
  BY <1>11, <1>17, <1>18 DEF TorchSupport

LEMMA TorchSpreadingStep ==
  ASSUME TorchExactInv, Propagate("torch")
  PROVE  TorchLow' /\ TorchSupport'
<1> DEFINE h == Head(spread["torch"])
<1>1. /\ Shape /\ FloorInv /\ TorchLow /\ "torch" \in Channel
      /\ removal["torch"] = <<>> /\ spread["torch"] # <<>>
      /\ removal' = removal /\ shadowed' = shadowed /\ blocks' = blocks
      /\ SpreadTo("torch", Neighbors(h)) /\ spread["torch"] \in Seq(Node)
  BY DEF TorchExactInv, Channel, Propagate, SpreadTo, Shape
<1>2. /\ TorchLow'
      /\ \A m \in Neighbors(h) : Raised("torch", h, m) => h \in Givers("torch", m)
  BY <1>1, TorchLowSpread
<1>3. ASSUME ~shadowed PROVE \E W \in [Cell -> Level] : Supported("torch", W)'
  <2>1. PICK W \in [Cell -> Level] : Supported("torch", W)
    BY <1>3 DEF TorchExactInv, TorchSupport
  <2>2. Supported("torch", W)'
    BY <1>1, <1>2, <2>1, SpreadSupported
  <2> QED
    BY <2>2
<1>4. ASSUME ~shadowed, NEW g \in Cell, blocks[g] \in Emitter PROVE light'["torch"][g] = MaxLight
  <2>1. h \in Node
    BY <1>1, QueuedHeadTail
  <2>2. ASSUME g \in Neighbors(h), Raised("torch", h, g) PROVE FALSE
    <3>1. blocks[g] \notin Solid
      BY <1>1, <2>1, <2>2, RaisedCell
    <3> QED
      BY <1>4, <3>1, LightAssumption
  <2>3. light'["torch"][g] = IF g \in {m \in Neighbors(h) : Raised("torch", h, m)}
                             THEN Passed("torch", h, g) ELSE light["torch"][g]
    BY <1>1 DEF SpreadTo, Shape
  <2>4. light["torch"][g] = MaxLight
    BY <1>4 DEF TorchExactInv, TorchSupport, LampsLit
  <2> QED
    BY <2>2, <2>3, <2>4
<1> QED
  BY <1>1, <1>2, <1>3, <1>4 DEF TorchSupport, LampsLit

(* What starts a removal, and what is then below: no emitter.              *)
LEMMA TorchEdit ==
  ASSUME Shape, NEW c \in Editable, NEW b \in Block, Open(c, b) \/ Fill(c, b)
  PROVE  /\ removal'["torch"] = <<>> \/ (b \notin Emitter /\ Shadows(c))
         /\ b \in Emitter => light'["torch"][c] = MaxLight
         /\ shadowed => shadowed'
<1>1. /\ c \in Cell /\ Emitter \subseteq Solid /\ removal["torch"] = <<>>
      /\ light \in [Channel -> [Cell -> Level]] /\ removal \in [Channel -> Seq(Mark)]
      /\ "sun" \in Channel /\ "torch" \in Channel
  BY LightAssumption DEF Open, Fill, Editing, AtRest, Idle, Shape, Channel
<1>2. CASE Open(c, b)
  <2>1. b \notin Emitter
    BY <1>1, <1>2 DEF Open
  <2>2. CASE blocks[c] \in Emitter
    <3>1. Shadows(c)
      BY <1>2, <2>2 DEF Open
    <3> QED
      BY <2>1, <3>1 DEF Shadows
  <2>3. CASE blocks[c] \notin Emitter
    <3>1. removal' = removal /\ shadowed' = shadowed
      BY <1>2, <2>3 DEF Open
    <3> QED
      BY <1>1, <2>1, <3>1
  <2> QED
    BY <2>2, <2>3
<1>3. CASE Fill(c, b) /\ b \in Emitter
  <2>1. /\ light' = [light EXCEPT !["sun"][c] = 0, !["torch"][c] = MaxLight]
        /\ removal' = [removal EXCEPT !["sun"] = <<<<c, MaxLight>>>>]
        /\ shadowed' = shadowed
    BY <1>3 DEF Fill
  <2> QED
    BY <1>1, <1>3, <2>1
<1>4. CASE Fill(c, b) /\ b \notin Emitter
  <2>1. Shadows(c)
    BY <1>4 DEF Fill
  <2> QED
    BY <1>4, <2>1 DEF Shadows
<1> QED
  BY <1>2, <1>3, <1>4

LEMMA TorchEditStep ==
  ASSUME BelowSky, TorchExactInv,
         NEW c \in Editable, NEW b \in Block, Open(c, b) \/ Fill(c, b)
  PROVE  TorchLow' /\ TorchSupport'
<1>1. /\ Shape /\ SolidDark /\ FloorInv /\ TorchLow /\ SpreadInv("torch") /\ "torch" \in Channel
      /\ MaxLight \in Nat /\ AtRest /\ Shape'
  <2>1. [Next]_vars
    BY DEF Next
  <2> QED
    BY <2>1, ShapeStep, LightAssumption DEF TorchExactInv, Channel, Open, Fill, Editing
<1>2. TorchLow'
  BY <1>1, TorchLowEdit
<1>3. SUFFICES ASSUME ~shadowed' PROVE TorchSupport'
  BY <1>2 DEF TorchSupport
<1>4. /\ removal'["torch"] = <<>> \/ (b \notin Emitter /\ Shadows(c))
      /\ b \in Emitter => light'["torch"][c] = MaxLight
      /\ ~shadowed
  BY <1>1, <1>3, TorchEdit
<1>5. /\ c \in Cell /\ c \in Node
      /\ blocks'[c] = b /\ \A d \in Cell : d # c => blocks'[d] = blocks[d]
      /\ \A d \in Cell : d # c => light'["torch"][d] = light["torch"][d]
  BY <1>1, EditEffect
<1>6. LampsLit /\ \E W \in [Cell -> Level] : Supported("torch", W)
  BY <1>4 DEF TorchExactInv, TorchSupport
<1>7. LampsLit'
  BY <1>4, <1>5, <1>6 DEF LampsLit
<1>8. \E V \in [Cell -> Level] : Supported("torch", V)'
  <2>1. PICK W \in [Cell -> Level] : Supported("torch", W)
    BY <1>6
  <2>2. PICK V \in [Cell -> Level] : V = light'["torch"]
    BY <1>1 DEF Shape
  <2>3. Supported("torch", V)'
    BY <1>1, <2>1, <2>2, EditSupported
  <2> QED
    BY <2>3
<1>9. ASSUME removal'["torch"] # <<>> PROVE Falling(removal["torch"])' /\ Guarded(c)'
  <2>1. b \notin Emitter /\ \A g \in Cell : blocks[g] \in Emitter => ~ (g[2] < c[2])
    BY <1>3, <1>4, <1>9 DEF Shadows
  <2>2. PICK l \in Level : removal'["torch"] = <<<<c, l>>>>
    BY <1>1, <1>9, EditMarks
  <2>3. l \in Nat /\ l <= MaxLight /\ c[1] \in Int /\ c[2] \in Int /\ c = <<c[1], c[2]>>
    BY <1>1, <1>5 DEF Level, Node
  <2>4. Falling(removal["torch"])'
    BY <2>2 DEF Falling
  <2>5. \A e \in Queued(removal'["torch"]) : e[1] = c /\ e[2] = l
    BY <2>2 DEF Queued
  <2>6. Dist(c, c) = 0
    BY <2>3 DEF Dist, Abs
  <2>7. \A e \in Queued(removal'["torch"]) : e[2] <= MaxLight - Dist(e[1], c) /\ e[1] = c
    BY <1>1, <2>3, <2>5, <2>6
  <2>8. \A g \in Cell : blocks'[g] \in Emitter => g # c /\ blocks[g] \in Emitter /\ g[2] >= c[2]
    <3> SUFFICES ASSUME NEW g \in Cell, blocks'[g] \in Emitter
                 PROVE  g # c /\ blocks[g] \in Emitter /\ g[2] >= c[2]
      OBVIOUS
    <3>1. g # c /\ blocks[g] \in Emitter
      BY <1>5, <2>1
    <3>2. g[2] \in Int /\ ~ (g[2] < c[2])
      BY <2>1, <3>1 DEF Cell
    <3> QED
      BY <2>3, <3>1, <3>2
  <2>9. ASSUME NEW g \in Cell, NEW x \in Cell, ShinesUp(g, x)'
        PROVE  light'["torch"][x] >= MaxLight - (x[2] - g[2]) /\ x # c
    <3>1. g # c /\ blocks[g] \in Emitter /\ g[2] >= c[2] /\ x[1] = g[1] /\ x[2] >= g[2]
      BY <2>8, <2>9 DEF ShinesUp
    <3>2. g = <<g[1], g[2]>> /\ g[2] \in Int /\ x[2] \in Int
      BY DEF Cell
    <3>3. \A y \in Cell : y[1] = g[1] /\ g[2] <= y[2] => y # c
      BY <2>3, <3>1, <3>2
    <3>4. \A y \in Cell : y[1] = g[1] /\ g[2] <= y[2] => blocks'[y] = blocks[y]
      BY <1>5, <3>3
    <3>5. ShinesUp(g, x)
      BY <2>9, <3>1, <3>4 DEF ShinesUp
    <3>6. light["torch"][x] >= MaxLight - (x[2] - g[2])
      BY <1>1, <1>6, <3>5, TorchInvSpreads, ShoneOnLit
    <3>7. x # c
      BY <3>1, <3>2, <3>3
    <3> QED
      BY <1>5, <3>6, <3>7
  <2>10. Guarded(c)'
    BY <1>5, <2>1, <2>7, <2>8, <2>9 DEF Guarded
  <2> QED
    BY <2>4, <2>10
<1> QED
  BY <1>2, <1>5, <1>7, <1>8, <1>9 DEF TorchSupport

LEMMA TorchExactStep ==
  ASSUME Floor, BelowSky
  PROVE  TorchExactInv /\ [Next]_vars => TorchExactInv'
<1> SUFFICES ASSUME TorchExactInv, [Next]_vars PROVE TorchExactInv'
  OBVIOUS
<1>1. Shape' /\ SolidDark' /\ FloorInv' /\ SpreadInv("torch")'
  BY ShapeStep, InsideStep, TorchSpreadStep DEF TorchExactInv
<1>2. Shape /\ FloorInv /\ TorchLow /\ TorchSupport
  BY DEF TorchExactInv
<1>3. CASE Generate
  <2>1. /\ UNCHANGED <<blocks, shadowed>> /\ light'["torch"] = light["torch"]
        /\ removal'["torch"] = removal["torch"] /\ spread'["torch"] = spread["torch"]
    BY <1>2, <1>3 DEF Generate, SpreadTo, Shape, Channel
  <2>2. TorchLow' /\ TorchSupport'
    BY <1>2, <2>1, TorchKept
  <2> QED
    BY <1>1, <2>2 DEF TorchExactInv
<1>4. CASE Generated \/ UNCHANGED vars
  <2>1. UNCHANGED <<blocks, shadowed, light, removal, spread>>
    BY <1>4 DEF Generated, vars
  <2>2. TorchLow' /\ TorchSupport'
    BY <1>2, <2>1, TorchKept
  <2> QED
    BY <1>1, <2>2 DEF TorchExactInv
<1>5. CASE Propagate("sun") \/ UnPropagate("sun")
  <2>1. /\ UNCHANGED <<blocks, shadowed>> /\ light'["torch"] = light["torch"]
        /\ removal'["torch"] = removal["torch"] /\ spread'["torch"] = spread["torch"]
    BY <1>2, <1>5 DEF Propagate, UnPropagate, SpreadTo, Shape, Channel
  <2>2. TorchLow' /\ TorchSupport'
    BY <1>2, <2>1, TorchKept
  <2> QED
    BY <1>1, <2>2 DEF TorchExactInv
<1>6. CASE Propagate("torch")
  BY <1>1, <1>6, TorchSpreadingStep DEF TorchExactInv
<1>7. CASE UnPropagate("torch")
  <2>1. TorchLow'
    BY <1>2, <1>7, TorchLowRemoval
  <2>2. TorchSupport'
    BY <1>7, TorchRemovalStep
  <2> QED
    BY <1>1, <2>1, <2>2 DEF TorchExactInv
<1>8. ASSUME NEW c \in Editable, NEW b \in Block, Open(c, b) \/ Fill(c, b) PROVE TorchExactInv'
  <2>1. TorchLow' /\ TorchSupport'
    BY <1>8, TorchEditStep
  <2> QED
    BY <1>1, <2>1 DEF TorchExactInv
<1> QED
  BY <1>3, <1>4, <1>5, <1>6, <1>7, <1>8 DEF Next, Search, Channel

LEMMA TorchExactInit ==
  ASSUME Floor, NoLamps
  PROVE  Init => TorchExactInv
<1> SUFFICES ASSUME Init PROVE TorchExactInv
  OBVIOUS
<1>1. /\ Shape /\ SolidDark /\ FloorInv /\ SpreadInv("torch") /\ "torch" \in Channel
      /\ light["torch"] \in [Cell -> Level]
  BY ShapeInit, InsideInit, TorchSpreadInit DEF Shape, Channel
<1>2. /\ \A c \in Cell : light["torch"][c] = 0
      /\ removal["torch"] = <<>> /\ spread["torch"] = <<>>
  BY <1>1 DEF Init
<1>3. \A c \in Cell : blocks[c] \notin Emitter
  BY DEF Init, NoLamps
<1>4. Queued(removal["torch"]) = {} /\ Queued(spread["torch"]) = {}
  BY <1>2 DEF Queued
<1>5. TorchLow
  BY <1>2, <1>4 DEF TorchLow
<1>6. PICK W \in [Cell -> Level] : W = light["torch"]
  BY <1>1
<1>7. \A c \in Cell : Hope("torch", W, c) = 0 /\ W[c] = light["torch"][c]
  BY <1>2, <1>6 DEF Hope, LightAt
<1>8. Supported("torch", W)
  BY <1>2, <1>7 DEF Supported
<1>9. LampsLit
  BY <1>3 DEF LampsLit
<1> QED
  BY <1>1, <1>2, <1>5, <1>8, <1>9 DEF TorchExactInv, TorchSupport

LEMMA TorchInvExact ==
  TorchExactInv => TorchExact
<1> SUFFICES ASSUME TorchExactInv, AtRest, ~shadowed, NEW c \in Cell
             PROVE  light["torch"][c] =
                      IF blocks[c] \in Emitter THEN MaxLight ELSE IF blocks[c] \in Solid THEN 0
                      ELSE Max({0} \cup {light["torch"][n] - 1 : n \in Beside(c)})
  BY DEF TorchExact
<1>1. Shape /\ SolidDark /\ SpreadInv("torch") /\ Idle("torch") /\ "torch" \in Channel
  BY DEF TorchExactInv, AtRest, Channel
<1>2. CASE blocks[c] \in Emitter
  BY <1>2 DEF TorchExactInv, TorchSupport, LampsLit
<1>3. CASE blocks[c] \in Solid /\ blocks[c] \notin Emitter
  BY <1>1, <1>3 DEF SolidDark
<1>4. CASE blocks[c] \notin Solid
  <2> DEFINE S == {0} \cup {light["torch"][n] - 1 : n \in Beside(c)}
  <2>1. PICK W \in [Cell -> Level] : Supported("torch", W)
    BY DEF TorchExactInv, TorchSupport
  <2>2. light["torch"][c] = 0 \/ \E n \in Givers("torch", c) : Passed("torch", n, c) >= light["torch"][c]
    BY <1>1, <1>4, <2>1, RestSourced
  <2>3. Givers("torch", c) = Beside(c)
    BY DEF Givers, Beside
  <2>4. \A n \in Beside(c) : n \in Cell /\ Passed("torch", n, c) = light["torch"][n] - 1
    BY DEF Beside, Passed, LightAt
  <2>5. \A d \in Cell : light["torch"][d] \in Nat
    BY <1>1, LightAssumption DEF Shape, Level
  <2>6. \A n \in Beside(c) : light["torch"][c] >= light["torch"][n] - 1
    BY <1>1, <1>4, TorchInvSpreads DEF TorchSpread
  <2>7. S \subseteq Int
    BY <2>4, <2>5
  <2>8. light["torch"][c] \in S
    <3>1. CASE light["torch"][c] = 0
      BY <3>1
    <3>2. CASE light["torch"][c] # 0
      <4>1. PICK n \in Beside(c) : light["torch"][n] - 1 >= light["torch"][c]
        BY <2>2, <2>3, <2>4, <3>2
      <4>2. light["torch"][c] = light["torch"][n] - 1
        BY <2>4, <2>5, <2>6, <4>1
      <4> QED
        BY <4>2
    <3> QED
      BY <3>1, <3>2
  <2>9. \A x \in S : light["torch"][c] >= x
    BY <2>5, <2>6
  <2> HIDE DEF S
  <2>10. Max(S) = light["torch"][c]
    BY <2>7, <2>8, <2>9, MaxIs
  <2>11. blocks[c] \notin Emitter
    BY <1>4, LightAssumption
  <2> QED
    BY <1>4, <2>10, <2>11 DEF S
<1> QED
  BY <1>2, <1>3, <1>4

(* Until torch light is removed above an emitter, every emitter keeps its  *)
(* own light and every other cell has exactly what its brightest neighbour *)
(* gives it: a removal leaves no light without a source, and takes none    *)
(* from another emitter for good (Chunk::setBlock, propagateTorchlight,    *)
(* unPropagateTorchlight).                                                 *)
THEOREM TorchAlwaysExact ==
  ASSUME Floor, NoLamps, BelowSky
  PROVE  Spec => []TorchExact
<1>1. Init => TorchExactInv
  BY TorchExactInit
<1>2. TorchExactInv /\ [Next]_vars => TorchExactInv'
  BY TorchExactStep
<1>3. TorchExactInv => TorchExact
  BY TorchInvExact
<1> QED
  BY <1>1, <1>2, <1>3, PTL DEF Spec
=============================================================================
