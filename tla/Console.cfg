CONSTANTS
  t1 = t1
  t2 = t2
  Tasks = {t1, t2}
  Clock = t1
  Durations = {1, 2, 3}
  MaxTime = 5
  Infos <- MCInfos
  Colors <- MCColors
  Coordinates <- MCCoordinates
  UsizeRange = 64
  BootScreens <- MCBootScreens
  Settings = {"pixels", "sleepers", "kernel"}
SPECIFICATION ConsoleSpec
INVARIANTS
  LockFreeInInterrupt
  NoForgottenSleeper
  SpansClosed
  DisplayFree
  ScreenUpToDate
  BuffersKept
PROPERTIES
  SleepLasts
  SleepersFinish
  PanicEnds
  ImplementsPicture
