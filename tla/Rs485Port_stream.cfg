\* The port of the CM boards: as many entries as index values.
CONSTANTS
  Size = 4
  IndexRange = 4
  Byte = {1, 2}
  None = None
  Messages <- TwoPackets
  Builds <- TwoBuilds
  EachByte = FALSE
  MaxWrites = 2
  MaxHeard = 4
SPECIFICATION FairSpec
INVARIANTS TypeOK BytesInOrder NoByteForgotten DrivenWhileSending
PROPERTY BusReleased
CHECK_DEADLOCK FALSE
