CONSTANTS
  Objects = {o1, o2, o3}
  NoObject = NoObject
  MaxRefs = 1
SPECIFICATION GcSpec
INVARIANT RootsSurvive
