SPECIFICATION Spec
CONSTANTS
  MaxSeq = 2
  Legacy = 1
  Grades = {"off_host", "protocol_only"}
  MaxTampers = 2
  MaxCrashes = 2
PROPERTIES
  NothingDispatchedWhilePaused
CHECK_DEADLOCK FALSE
