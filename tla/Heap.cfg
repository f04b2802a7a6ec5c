CONSTANTS
  HeapLen = 16
  BLOCK_SIZES <- MCBlockSizes
  MaxCached = 1
  Layouts <- MCLayouts
  MaxLive = 4
  ListLen = 13
  ListLayouts <- MCLayouts
  ListLive = 3
SPECIFICATION HeapSpec
INVARIANTS
  HeapLockFree
  MemorySound
PROPERTY
  LossExplained
