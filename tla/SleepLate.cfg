CONSTANTS
  Tasks = {t1, t2}
  Durations = {2, 4}
  MaxTime = 6
SPECIFICATION Spec
PROPERTY
  DueSleepersWoken
