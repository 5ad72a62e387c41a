CONSTANTS
  air = air
  stone = stone
  dirt = dirt
  Length = 4
  Client = {c1}
  Pos <- MCPos
  WorldSize = 4
  RenderDistance = 1
  Spawn <- MCSpawn
  Height = 2
  Block <- MCBlock
  Air = air
  Stone = stone
  Dirt = dirt
  Terrain <- MCTerrain
  Absent = absent
  Placements <- MCBoth
  MaxEdits = 1
  MaxMoves = 3
SPECIFICATION Spec
PROPERTY FreezesOutsideChunks
CHECK_DEADLOCK FALSE
