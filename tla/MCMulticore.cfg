CONSTANTS
  Cores = {m33, rv32}
  NoCore = NoCore
  MaxNest = 2
  Parties = {M33, RV32}
  MaxCalls = 3
  Slots = {0, 1}
  Parts = {"locks", "barrier", "rendezvous", "mail", "tables"}
SPECIFICATION MulticoreSpec
INVARIANTS
  TypeOK
  SpinExact
  MutexExact
  BarrierMeets
  RendezvousOverlaps
  MailInOrder
  TablesExact
PROPERTIES
  LetGo
  RendezvousEnds
CHECK_DEADLOCK FALSE
