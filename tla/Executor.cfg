CONSTANTS
  MaxTasks = 3
  MaxQueue = 3
SPECIFICATION FairSpec
INVARIANTS
  TypeOK
  HaltIsWakeable
  TaskIdentity
  NoLostWakeup
PROPERTIES
  ImplementsLifecycle
  WokenIsPolled
  SpawnedStarts
