CONSTANTS
  Parts = {"pool", "views", "gc", "heap", "tlsf", "json", "tree", "protobuf", "edf", "odata"}
  num_blocks = 4
  Data = Data
  Size = 8
  Base = 5
  alignment = 2
  Sizes = {0, 1, 2, 3, 5}
  Alignments = {0, 3, 4}
  Elements = {0, 2}
  Objects = {o1, o2, o3, o4}
  NoObject = NoObject
  MaxRefs = 2
  HeapSize = 40
  Header = 4
  Least = 1
  Width = 128
  Requests = {1, 10}
  TlsfSize = 14
  BlockHeader = 2
  TlsfRequests = {0, 1, 3}
  MaxTokens = 5
  FirstItems = 1
  BufferSizes = {0, 6}
  FirstBuffer = 4
  Names = {"a", "b"}
  Numbers = {1, 2}
  FirstPairs = 1
  MaxPairs = 3
  MaxLost = 5
  Group = 4
  Groups32 = 6
  Groups64 = 12
  Samples <- SampleSet
  PbCapacities = {0, 30}
  PbNumbers = {1, 513}
  PbFields = 2
  EdfCapacities = {0, 14}
  EdfIds = {9}
  EdfFields = 2
  Schemas <- SchemaSet
  MaxSchemas = 2
  Entities <- EntitySet
  Texts = {"name"}
  Filters <- FilterSet
  Orderings <- OrderingSet
  Tops = {0, 2}
  Skips = {1, 3}
  MaxEntities = 3
  MaxProperties = 4
SPECIFICATION Spec
CONSTRAINT Explored
CHECK_DEADLOCK FALSE
INVARIANTS FreeListExact ArenaSound ViewsWithin GenerationExact HeapApart TlsfApart JsonExact TreesAgree PbReads EdfReads ODataAnswers
