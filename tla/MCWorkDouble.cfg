SPECIFICATION Spec
CONSTANTS
  p1 = p1
  p2 = p2
  u1 = u1
  Procs = {p1, p2}
  NoProc = NoProc
  Workers = {"w1", "w2"}
  WorkerOf <- MCWorkerOf
  Units = {u1}
  Skew <- MCSkew
  StaleAfter = 2
  Tolerance = 4
  MaxSkew = 1
  MaxKills = 0
INVARIANT
  TwoWorkersNeverDispatchOneUnit
CHECK_DEADLOCK FALSE
