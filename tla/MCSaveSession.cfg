CONSTANTS
  blank = blank
  wide = wide
  widest = widest
  Slot = {s1, s2, s3}
  Payload <- MCPayload
  Blank = blank
  Absent = absent
  Hole = hole
  Cut = cut
  Torn = torn
  None = none
  Sectors <- MCSectors
  MaxSectors = 3
  SectorLimit = 4
  IndexLimit = 7
  FirstSessionEdits = FALSE
  MaxKills = 1
SPECIFICATION SessionSpec
INVARIANTS
  SessionTypeOK
  OnlyLastSaveAtRisk
  UnchangedMatchesSaved
SYMMETRY Symmetry
CHECK_DEADLOCK FALSE
