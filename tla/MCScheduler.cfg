CONSTANTS
  Threads = {t1, t2}
  Idle = idle
  NULL = NULL
  Priorities = {1, 2}
  MaxSleep = 2
SPECIFICATION SchedSpec
INVARIANTS
  SchedTypeOK
  NextIsAnother
PROPERTIES
  SleepersWake
  ForemostRuns
