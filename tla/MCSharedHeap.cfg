CONSTANTS
  HeapSize = 24
  Header = 4
  Least = 1
  Width = 64
  Requests = {1, 3}
SPECIFICATION HeapSpec
INVARIANT FreeListSorted
