SPECIFICATION Spec
CONSTANTS
  l1 = l1
  l2 = l2
  Landers = {l1, l2}
  LandLock = LandLock
  Procs <- MCProcs
  NoProc = NoProc
  Workers = {l1, l2}
  WorkerOf <- MCWorkerOf
  Units <- MCUnits
  Skew <- MCSkew
  StaleAfter = 2
  Tolerance = 3
  MaxSkew = 0
  Interval = 1
  MaxMisses = 1
  MaxKills = 1
  MaxOutside = 1
INVARIANTS
  OneLanderUnlessStale
  BeatenLockStaysLive
PROPERTIES
  TrunkOnlyGrows
  EveryTipWasGated
  OnlyTheHolderRefreshes
CHECK_DEADLOCK FALSE
SYMMETRY MCSymmetry
