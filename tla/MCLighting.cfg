CONSTANTS
  air = air
  stone = stone
  water = water
  glowstone = glowstone
  Width = 3
  Height = 6
  MaxLight = 3
  Block = {air, stone, water, glowstone}
  Air = air
  Solid = {stone, glowstone}
  Liquid = {water}
  Emitter = {glowstone}
  Terrain <- MCTerrain
  Editable <- MCEditable
  MaxEdits = 3
SPECIFICATION FairSpec
INVARIANTS
  TypeOK
  SunExact
  TorchExact
  TorchSpread
PROPERTY SearchesEnd
CHECK_DEADLOCK FALSE
