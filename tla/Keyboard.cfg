CONSTANTS
  Capacity = 2
  MaxScancodes = 5
  Infos <- MCInfos
  MaxLine = 1
SPECIFICATION EchoFairSpec
INVARIANTS
  NoStrandedScancode
  OrderKept
  TextKept
PROPERTY
  KeysAreEchoed
