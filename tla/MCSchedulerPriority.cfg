CONSTANTS
  Threads = {t1, t2}
  Idle = idle
  NULL = NULL
  Priorities = {1, 2}
  MaxSleep = 1
SPECIFICATION SchedSpec
PROPERTY TickRunsBest
