CONSTANTS
  Pos = {p1, p2, p3}
  Renderer = {r1, r2, r3}
  None = none
  MaxChunks = 7
SPECIFICATION MCSpec
INVARIANTS
  TypeOK
  ListMatchesMap
  DeadAreFree
  ShowsWorldChunk
SYMMETRY Symmetry
CHECK_DEADLOCK FALSE
