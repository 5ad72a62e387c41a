CONSTANTS
  Size = 4
  ByteLimit = 3
SPECIFICATION Spec
INVARIANTS
  TypeOK
  RoundTrip
  FitsBuffer
  RunsMaximal
CHECK_DEADLOCK FALSE
