SPECIFICATION FairSpec
CONSTANTS
  MaxSeq = 2
  Legacy = 1
  Grades = {"off_host", "protocol_only"}
  MaxTampers = 2
  MaxCrashes = 2
INVARIANTS
  AcknowledgedIsHeld
  HistoryIsComplete
  DispatchedIsDurable
PROPERTIES
  PushExtendsAcknowledged
  OwnPauseStops
  EventuallyDelivered
CHECK_DEADLOCK FALSE
