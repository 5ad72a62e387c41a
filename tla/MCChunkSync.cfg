CONSTANTS
  air = air
  stone = stone
  dirt = dirt
  Length = 4
  Client = {c1, c2}
  Pos <- MCPos
  WorldSize = 4
  RenderDistance = 1
  Spawn <- MCSpawn
  Height = 2
  Block <- MCBlock
  Air = air
  Stone = stone
  Dirt = dirt
  Terrain <- MCTerrain
  Absent = absent
  Placements <- MCBottom
  MaxEdits = 1
  MaxMoves = 2
SPECIFICATION Spec
INVARIANTS
  TypeOK
  RequestsAccountedFor
  WindowCovered
  ChunksConverge
SYMMETRY Symmetry
CHECK_DEADLOCK FALSE
