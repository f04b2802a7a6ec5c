CONSTANTS
  MemoryMaps <- MCMemoryMaps
  HeapFrames = 2
  Sizes = {1}
SPECIFICATION Spec
INVARIANT
  OnlyUsableFrames
