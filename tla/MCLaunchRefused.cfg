SPECIFICATION Spec
CONSTANTS
  Dispatch = {d1, d2}
  Unit = {u1, u2}
  Account = {a1}
  Concurrency = 1
  NoDispatch = NoDispatch
  NoUnit = NoUnit
  NoAccount = NoAccount
INVARIANT
  FreedUnitIsIdle
CHECK_DEADLOCK FALSE
