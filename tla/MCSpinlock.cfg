CONSTANTS
  Cores = {m33, rv32}
  NoCore = NoCore
  MaxNest = 2
SPECIFICATION Spec
INVARIANT SpinExclusive
