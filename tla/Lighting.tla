------------------------------ MODULE Lighting ------------------------------
(***************************************************************************)
(* The light of the blocks: setBlock, the propagations of sun and torch    *)
(* light and their removals in common/Chunk.cpp, and calculateSunLighting  *)
(* with which the world generator lights a chunk for the first time.       *)
(*                                                                         *)
(* Each is a breadth-first search that keeps its nodes in a queue; here an *)
(* action takes one node.  The world is a slice one block thick between    *)
(* two walls, so of the six neighbours four are left; the two others are   *)
(* treated like those at the sides.  ChunkNeighborhood makes the borders   *)
(* of chunks invisible.                                                    *)
(* (Two of the searches read a node through a reference to it after having *)
(* popped it; libraries leave what it refers to alone until then, and so   *)
(* does this module.)                                                      *)
(*                                                                         *)
(* Below the world blocks are solid and above it air, and both read as     *)
(* fully lit, in sun and in torch light; writes go nowhere.  A removal     *)
(* that comes to a lit cell at the bottom goes on downwards for ever, one  *)
(* at the top lets torch light in from the sky.  Edits here stay away from *)
(* both (Editable); what they light has to, too.                           *)
(***************************************************************************)
EXTENDS Integers, Sequences, FiniteSetsExt

CONSTANTS
  Width, Height,     \* columns and rows of the slice (Height: 256)
  MaxLight,          \* 15
  Block,
  Air,
  Solid, Liquid,     \* blocks that let no light in, or dim the sun from above
  Emitter,           \* blocks of light level MaxLight (base:glowstone)
  Terrain,           \* what the generator may have made: functions on Cell
  Editable,          \* cells that are set
  MaxEdits           \* bound: blocks set

Cell == (0..(Width - 1)) \X (0..(Height - 1))

ASSUME LightAssumption ==
  /\ Width \in Nat /\ Height \in Nat /\ MaxLight \in Nat /\ MaxEdits \in Nat
  /\ Air \in Block /\ Air \notin Solid \cup Liquid \cup Emitter
  /\ Solid \subseteq Block /\ Liquid \subseteq Block /\ Solid \cap Liquid = {}
  /\ Emitter \subseteq Solid
  /\ Terrain \subseteq [Cell -> Block]
  /\ Editable \subseteq Cell

VARIABLES
  blocks,       \* blocks[c]
  light,        \* light["sun"][c] and light["torch"][c], the halves of lightMap
  removal,      \* removal[ch]: lightRemovalQueue, pairs of a cell and a level
  spread,       \* spread[ch]: lightBfsQueue, cells
  generating,   \* calculateSunLighting is running
  edits,        \* blocks set so far
  shadowed,     \* history: torch light was removed somewhere above an emitter
  overtaken     \* history: a removal of sun has put out a light before its source

vars == <<blocks, light, removal, spread, generating, edits, shadowed, overtaken>>

Channel == {"sun", "torch"}

-----------------------------------------------------------------------------
(* Reading the world.                                                      *)

Left(c)  == <<c[1] - 1, c[2]>>
Right(c) == <<c[1] + 1, c[2]>>
Below(c) == <<c[1], c[2] - 1>>
Above(c) == <<c[1], c[2] + 1>>

Neighbors(c) == {Left(c), Right(c), Below(c), Above(c)}

\* What a step enqueues, f[n] for each neighbour n, in the order in which the code visits them.
InOrder(c, f) == f[Left(c)] \o f[Right(c)] \o f[Below(c)] \o f[Above(c)]

InHeight(c) == c[2] \in 0..(Height - 1)

\* getBlock(...).isSolid(): the walls and what is below the world are, the sky is not.
IsSolid(c) == IF c \in Cell THEN blocks[c] \in Solid ELSE c[2] < Height

IsLiquid(c) == c \in Cell /\ blocks[c] \in Liquid

\* getSunlight and getTorchlight.
LightAt(ch, c) == IF c \in Cell THEN light[ch][c] ELSE IF InHeight(c) THEN 0 ELSE MaxLight

-----------------------------------------------------------------------------
(* Propagation.                                                            *)

Idle(ch) == removal[ch] = <<>> /\ spread[ch] = <<>>

\* setBlock is through with the sun before it turns to torch light.
Turn(ch) == ~generating /\ (ch = "torch" => Idle("sun"))

\* The level that the lit cell c gives to n.
Passed(ch, c, n) ==
  IF ch = "sun" /\ n = Below(c) /\ ~IsLiquid(n) THEN LightAt(ch, c) ELSE LightAt(ch, c) - 1

RaisedToo(ch, c, n) ==           \* mutant: <= where the code has < downwards
  ~IsSolid(n) /\ LightAt(ch, n) + (IF n = Below(c) THEN 0 ELSE 2) <= LightAt(ch, c)

\* Downwards whatever is darker is set, elsewhere what is darker by two.
Raised(ch, c, n) ==
  ~IsSolid(n) /\ LightAt(ch, n) + (IF n = Below(c) THEN 1 ELSE 2) <= LightAt(ch, c)

SpreadToKeepsNode(ch, ns) ==     \* mutant: the node is not popped
  LET c      == Head(spread[ch])
      raised == {n \in ns : Raised(ch, c, n)}
  IN  /\ light' = [light EXCEPT ![ch] = [d \in Cell |-> IF d \in raised THEN Passed(ch, c, d)
                                                        ELSE @[d]]]
      /\ spread' = [spread EXCEPT ![ch] =
           @ \o InOrder(c, [n \in Neighbors(c) |-> IF n \in raised THEN <<n>> ELSE <<>>])]
  /\ UNCHANGED <<blocks, removal, edits, shadowed, overtaken>>

\* The next node of the search, which looks at the neighbours ns.
SpreadTo(ch, ns) ==
  LET c      == Head(spread[ch])
      raised == {n \in ns : Raised(ch, c, n)}
  IN  /\ light' = [light EXCEPT ![ch] = [d \in Cell |-> IF d \in raised THEN Passed(ch, c, d)
                                                        ELSE @[d]]]
      /\ spread' = [spread EXCEPT ![ch] = Tail(@) \o
           InOrder(c, [n \in Neighbors(c) |-> IF n \in raised THEN <<n>> ELSE <<>>])]
  /\ UNCHANGED <<blocks, removal, edits, shadowed, overtaken>>

\* propagateSunlight and propagateTorchlight.
Propagate(ch) ==
  /\ Turn(ch)
  /\ removal[ch] = <<>> /\ spread[ch] # <<>>
  /\ SpreadTo(ch, Neighbors(Head(spread[ch])))
  /\ UNCHANGED generating

\* calculateSunLighting enters a column from the side only below the height that
\* heightMap has for it.  Nobody fills heightMap: that is 0, and the sun comes from above.
Generate ==
  /\ generating /\ spread["sun"] # <<>>
  /\ SpreadTo("sun", {Below(Head(spread["sun"])), Above(Head(spread["sun"]))})
  /\ UNCHANGED generating

Generated ==
  /\ generating /\ spread["sun"] = <<>>
  /\ generating' = FALSE
  /\ UNCHANGED <<blocks, light, removal, spread, edits, shadowed, overtaken>>

-----------------------------------------------------------------------------
(* Removal.                                                                *)

DarkenedComparesAll(ch, c, level, n) ==  \* mutant: levels are compared downwards too
  LightAt(ch, n) # 0 /\ LightAt(ch, n) < level

\* A node <<c, level>> of the removal: what lies below goes dark whatever its light.
Darkened(ch, c, level, n) ==
  LightAt(ch, n) # 0 /\ (n = Below(c) \/ LightAt(ch, n) < level)

\* What it enqueues for the neighbour n it has darkened.
Followers(ch, c, level, n) ==
  IF ch = "sun" /\ n = Below(c)
    THEN <<<<n, level>>, <<n, IF IsLiquid(n) THEN level - 1 ELSE level>>>>
    ELSE <<<<n, level - 1>>>>

UnPropagateForgets(ch) ==     \* mutant: brighter neighbours are not enqueued to spread again
  /\ Turn(ch)
  /\ removal[ch] # <<>>
  /\ LET c     == Head(removal[ch])[1]
         level == Head(removal[ch])[2]
         dark  == {n \in Neighbors(c) : Darkened(ch, c, level, n)}
     IN  /\ light' = [light EXCEPT ![ch] = [d \in Cell |-> IF d \in dark THEN 0 ELSE @[d]]]
         /\ removal' = [removal EXCEPT ![ch] = Tail(@) \o InOrder(c,
              [n \in Neighbors(c) |-> IF n \in dark THEN Followers(ch, c, level, n) ELSE <<>>])]
  /\ UNCHANGED <<blocks, spread, generating, edits, shadowed, overtaken>>

\* History: light is taken from n at a level below its own, and a node with a higher one is
\* still queued: what has lit n may be waiting there for its turn.
Overtakes(ch, n, level) ==
  LightAt(ch, n) > level /\ \E i \in DOMAIN removal[ch] : removal[ch][i][2] > LightAt(ch, n)

\* unPropagateSunlight and unPropagateTorchlight, which go on as a propagation.
UnPropagate(ch) ==
  /\ Turn(ch)
  /\ removal[ch] # <<>>
  /\ LET c     == Head(removal[ch])[1]
         level == Head(removal[ch])[2]
         dark  == {n \in Neighbors(c) : Darkened(ch, c, level, n)}
         kept  == {n \in Neighbors(c) : ~Darkened(ch, c, level, n) /\ LightAt(ch, n) >= level}
     IN  /\ light' = [light EXCEPT ![ch] = [d \in Cell |-> IF d \in dark THEN 0 ELSE @[d]]]
         /\ removal' = [removal EXCEPT ![ch] = Tail(@) \o InOrder(c,
              [n \in Neighbors(c) |-> IF n \in dark THEN Followers(ch, c, level, n) ELSE <<>>])]
         /\ spread' = [spread EXCEPT ![ch] = @ \o
              InOrder(c, [n \in Neighbors(c) |-> IF n \in kept THEN <<n>> ELSE <<>>])]
         /\ overtaken' = (overtaken \/ \E n \in dark : Overtakes(ch, n, level))
  /\ UNCHANGED <<blocks, generating, edits, shadowed>>

-----------------------------------------------------------------------------
(* setBlock.                                                               *)

\* The cells around c and c itself, in the order of the code's loops.
Around(c) == [i \in 1..9 |-> <<c[1] - 1 + ((i - 1) \div 3), c[2] - 1 + ((i - 1) % 3)>>]

AtRest == ~generating /\ Idle("sun") /\ Idle("torch")

\* History: an edit of c that takes torch light away.
Shadows(c) == shadowed' = (shadowed \/ \E g \in Cell : blocks[g] \in Emitter /\ g[2] < c[2])

Editing(c, b) ==
  /\ AtRest
  /\ edits < MaxEdits
  /\ edits' = edits + 1
  /\ blocks' = [blocks EXCEPT ![c] = b]
  /\ UNCHANGED <<generating, overtaken>>

OpenSunOnly(c, b) ==             \* mutant: torch light is not let into the opened cell
  /\ b \notin Solid \cup Liquid
  /\ Editing(c, b)
  /\ spread' = [spread EXCEPT !["sun"] = Around(c)]
  /\ IF blocks[c] \in Emitter
       THEN /\ light' = [light EXCEPT !["torch"][c] = 0]
            /\ removal' = [removal EXCEPT !["torch"] = <<<<c, MaxLight>>>>]
            /\ Shadows(c)
       ELSE UNCHANGED <<light, removal, shadowed>>

\* setBlock with a block that is neither solid nor liquid.
Open(c, b) ==
  /\ b \notin Solid \cup Liquid
  /\ Editing(c, b)
  /\ IF blocks[c] \in Emitter
       THEN /\ light' = [light EXCEPT !["torch"][c] = 0]
            /\ removal' = [removal EXCEPT !["torch"] = <<<<c, MaxLight>>>>]
            /\ spread' = [spread EXCEPT !["sun"] = Around(c)]
            /\ Shadows(c)
       ELSE /\ spread' = [ch \in Channel |-> Around(c)]
            /\ UNCHANGED <<light, removal, shadowed>>

\* setBlock with a solid block or a liquid.
Fill(c, b) ==
  /\ b \in Solid \cup Liquid
  /\ Editing(c, b)
  /\ IF b \in Emitter
       THEN /\ light' = [light EXCEPT !["sun"][c] = 0, !["torch"][c] = MaxLight]
            /\ removal' = [removal EXCEPT !["sun"] = <<<<c, MaxLight>>>>]
            /\ spread' = [spread EXCEPT !["torch"] = <<c>>]
            /\ UNCHANGED shadowed
       ELSE /\ light' = [light EXCEPT !["sun"][c] = 0, !["torch"][c] = 0]
            /\ removal' = [removal EXCEPT !["sun"] = <<<<c, MaxLight>>>>,
                                          !["torch"] = <<<<c, light["torch"][c]>>>>]
            /\ Shadows(c)
            /\ UNCHANGED spread

-----------------------------------------------------------------------------
Init ==
  /\ blocks \in Terrain
  /\ light = [ch \in Channel |-> [c \in Cell |-> 0]]
  /\ removal = [ch \in Channel |-> <<>>]
  /\ spread = [ch \in Channel |-> IF ch = "sun" THEN [i \in 1..Width |-> <<i - 1, Height>>]
                                  ELSE <<>>]
  /\ generating = TRUE
  /\ edits = 0
  /\ shadowed = FALSE /\ overtaken = FALSE

Search == Generate \/ Generated \/ \E ch \in Channel : Propagate(ch) \/ UnPropagate(ch)

Next ==
  \/ Search
  \/ \E c \in Editable, b \in Block : Open(c, b) \/ Fill(c, b)

Spec == Init /\ [][Next]_vars

(* The searches are loops of one thread.                                   *)
FairSpec == Spec /\ WF_vars(Search)

-----------------------------------------------------------------------------
(* Properties.                                                             *)

Level == 0..MaxLight

(* The shapes of the state; levels fit into four bits, and no search       *)
(* leaves the slice except to the row above it and to its walls.           *)
TypeOK ==
  /\ blocks \in [Cell -> Block]
  /\ light \in [Channel -> [Cell -> Level]]
  /\ \A ch \in Channel :
       /\ \A i \in DOMAIN removal[ch] : removal[ch][i] \in Cell \X Int /\ removal[ch][i][2] <= MaxLight
       /\ \A i \in DOMAIN spread[ch] : spread[ch][i] \in (-1..Width) \X (-1..Height)
  /\ generating \in BOOLEAN /\ shadowed \in BOOLEAN /\ overtaken \in BOOLEAN
  /\ edits \in 0..MaxEdits

\* The cells of the slice next to c.
Beside(c) == Neighbors(c) \cap Cell

\* What cell n gives to c next to it.
SunGiven(n, c) ==
  IF n = Above(c) /\ blocks[c] \notin Liquid THEN LightAt("sun", n) ELSE LightAt("sun", n) - 1

\* c has exactly the light that the cell above it, or its brightest neighbour, gives it.
SunLit(c) ==
  light["sun"][c] = IF blocks[c] \in Solid THEN 0
                    ELSE Max({0} \cup {SunGiven(n, c) : n \in Beside(c) \cup {Above(c)}})

(* After the generation and after every edit the sun is where it can get:  *)
(* nothing is left of the light of a column that has been covered, and     *)
(* none is missing, in whatever order blocks and water came and went, as   *)
(* long as no removal overtook another.                                    *)
(* A removal goes down with its level undiminished and puts out whatever   *)
(* lies there.  Where that is brighter, and the removal of its source is   *)
(* still to come, what the lower level leaves alone is left lit for good.  *)
SunExact == AtRest /\ ~overtaken => \A c \in Cell : SunLit(c)

(* The same for torch light, as long as none was taken away higher than an *)
(* emitter: until then every emitter keeps its own light and every other   *)
(* cell has what its brightest neighbour gives it.  So removing one of     *)
(* several lights never takes light that comes from another.               *)
TorchExact ==
  AtRest /\ ~shadowed => \A c \in Cell :
    light["torch"][c] =
      IF blocks[c] \in Emitter THEN MaxLight ELSE IF blocks[c] \in Solid THEN 0
      ELSE Max({0} \cup {light["torch"][n] - 1 : n \in Beside(c)})

(* Even after that no open cell is darker than its neighbours make it.     *)
TorchSpread ==
  AtRest => \A c \in Cell : blocks[c] \notin Solid =>
    \A n \in Beside(c) : light["torch"][c] >= light["torch"][n] - 1

(* Every search comes to an end: a removal and the spreading after it do   *)
(* not feed each other, whatever sources there are.                        *)
SearchesEnd == []<>AtRest
=============================================================================
