CONSTANTS
  Place = {here, there}
  MaxPackets = 4
SPECIFICATION FairSpec
INVARIANTS
  TypeOK
  JobWithinFrame
  FrameManaged
  InOrder
  AbortBounds
PROPERTIES
  FramesGoOn
  EveryPacketHandled
  ShutdownEnds
CHECK_DEADLOCK FALSE
