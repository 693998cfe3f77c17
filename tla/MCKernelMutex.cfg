CONSTANTS
  Threads = {t1, t2}
  Idle = idle
  NULL = NULL
  Priorities = {1, 2}
  MaxSleep = 1
  SemInit = 0
  MaxSem = 1
  MaxNest = 2
SPECIFICATION Spec
INVARIANT MutualExclusion
