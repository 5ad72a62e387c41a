CONSTANTS
  blank = blank
  wide = wide
  widest = widest
  Slot = {s1, s2, s3}
  Payload <- MCPayload
  Blank = blank
  Absent = absent
  Hole = hole
  Cut = cut
  Torn = torn
  Sectors <- MCSectors
  MaxSectors = 3
  SectorLimit = 4
  IndexLimit = 10
SPECIFICATION Spec
INVARIANTS
  TypeOK
  ExtentsDisjoint
  SectorsPartitioned
  NeverTorn
  CleanMatchesFile
PROPERTY
  ImplementsStore
SYMMETRY Symmetry
