CONSTANTS
  Threads = {t1, t2}
  Idle = idle
  NULL = NULL
  Priorities = {1, 2}
  MaxSleep = 0
  SemInit = 0
  MaxSem = 1
  MaxNest = 2
SPECIFICATION Spec
SYMMETRY Symmetry
CONSTRAINT Explored
INVARIANTS
  TypeOK
  TakersOwn
  CountIsTheOwners
