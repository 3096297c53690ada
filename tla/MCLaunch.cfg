SPECIFICATION Spec
CONSTANTS
  Dispatch = {d1, d2}
  Unit = {u1, u2}
  Account = {a1}
  Concurrency = 1
  NoDispatch = NoDispatch
  NoUnit = NoUnit
  NoAccount = NoAccount
INVARIANTS
  OnlyDisownedRunsDouble
  SlotCoversOwnedRuns
  AccountBoundsOwnedRuns
  NoneForgotten
PROPERTIES
  EveryLaunchSettles
CHECK_DEADLOCK FALSE
