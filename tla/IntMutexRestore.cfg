CONSTANTS
  BootGuards = {2}
  W = 32
  MaxCalls = 2
SPECIFICATION Spec
PROPERTY
  LastGuardRestores
