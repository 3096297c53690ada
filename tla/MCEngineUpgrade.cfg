SPECIFICATION UpgradeSpec
CONSTANTS
  m1 = m1
  m2 = m2
  Module = {m1, m2}
  Last = 3
  Bytes <- MCBytes
  Rebinds = {2, 3}
  HalfEngine = HalfEngine
  NoEngine = NoEngine
  MaxFaults = 3
INVARIANTS
  OnlyACutIsStuck
  FinishedIsWhole
PROPERTIES
  EveryUpgradeSettles
CHECK_DEADLOCK FALSE
