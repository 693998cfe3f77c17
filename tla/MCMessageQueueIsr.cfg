CONSTANTS
  Msgs = {a, b}
  Junk = Junk
  max_msgs = 2
  SizeMod = 8
SPECIFICATION IsrSpec
INVARIANT IsrSafe
