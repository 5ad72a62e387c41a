CONSTANTS
  p1 = p1
  p2 = p2
  l1 = l1
  l2 = l2
  Pos = {p1, p2}
  Around <- MCAround
  Lane = {l1, l2}
  LaneOf <- MCLaneOf
  Renderer = {r1, r2}
  None = none
  Parts = 2
  EditedParts = {1}
  MaxChunks = 3
  MaxVersion = 3
  MaxEdge = 2
SPECIFICATION Spec
INVARIANTS
  TypeOK
  NeighborsExist
  ChangesMeshed
  MeshExact
SYMMETRY Symmetry
CHECK_DEADLOCK FALSE
