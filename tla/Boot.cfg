CONSTANTS
  MemoryMaps <- MCMemoryMaps
  HeapFrames = 4
  Sizes = {1}
  CodeAddr = 32768
  CodeLen = 5000
  HeapLen = 8192
  AcpiLen = 20480
  Regions <- MCRegions
  MaxRegions = 3
  Lines = {0, 1, 2, 3, 5, 8, 9}
  Madts <- MCMadts
  FirmwareMasks <- MCFirmwareMasks
  TableSpan = 4
  Levels = 2
SPECIFICATION BootSpec
INVARIANTS
  FramesHaveOneOwner
  WindowSound
  RegionShown
  RefusalsExplained
  DevicesReachHandlers
PROPERTY
  FramesConserved
