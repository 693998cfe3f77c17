CONSTANTS
  Msgs = {a, b, c}
  Junk = Junk
  max_msgs = 3
  Timers = {t1, t2, t3}
  NULL = NULL
  Delays = {0, 2}
  Periods = {0, 1}
  MaxTimerCalls = 3
  Watched = {w1, w2}
  TableSize = 3
  Timeout = 1
  Writers = {thread, handler}
  RingSize = 5
  EntryBytes = 2
  SockThreads = {x, y}
  SockSlots = {0, 1}
  Descriptors = {1, 2, 3}
  MaxChunks = 2
  MaxRequests = 2
  MaxRadioEvents = 5
  EventDepth = 2
  DataDepth = 2
  MaxCallbacks = 2
  BusThreads = {1, 2}
  Handles = {0, 1}
  BusNumbers = {0, 1}
  Speeds = {100, 400}
SPECIFICATION ServicesSpec
CONSTRAINT Explored
INVARIANTS
  TypeOK
  RingConsistent
  ListIsStarted
  WatchdogExact
  LogInOrder
  SocketsExact
  HttpReleases
  WifiStateTrue
  BleInStep
  BusesExact
PROPERTIES
  ImplementsFifo
  OnlyStartedFire
  NoneMissed
CHECK_DEADLOCK FALSE
