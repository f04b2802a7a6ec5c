CONSTANTS
  Tasks = {t1, t2, t3}
  Settings <- MCSettings
  MaxList = 2
SPECIFICATION FairSpec
INVARIANTS
  OneGuard
  WaiterHasWaker
PROPERTY
  LockReturns
