CONSTANTS
  BootGuards = {0, 2}
  W = 16
  MaxCalls = 4
  MaxDate = 2
  Chips <- MCChips
SPECIFICATION RtcFairSpec
INVARIANTS
  HandlerNeverSpins
  DateIsWhole
PROPERTIES
  InterruptsReturn
  ClockGoesOn
