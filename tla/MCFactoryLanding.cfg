SPECIFICATION Spec
CONSTANTS
  d1 = d1
  d2 = d2
  Dispatch = {d1, d2}
  Others = {other}
  Root = root
  NoCommit = NoCommit
  NoDispatch = NoDispatch
  MaxRevision = 2
INVARIANTS
  OneOpenPublication
  AnswersHold
  LandedAsApproved
PROPERTIES
  EveryLandEnds
CHECK_DEADLOCK FALSE
