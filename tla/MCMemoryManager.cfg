CONSTANTS
  a1 = a1
  a2 = a2
  a3 = a3
  Allocs = {a1, a2, a3}
  NoMap = NoMap
  PageSize = 4
  Align = 2
  AllocBase = 1
  MachineBase = 2
  Limit = 5
  Reserved = 3
  ReservedEnd = 4
  MaxPage = 5
  MaxStacks = 1
  MaxModules = 1
  Sizes = {1, 3, 4, 5}
  Bases = {2}
  TrapBase = 2
  TrapPages = 1
  PebPages = 1
  StackBase = 1
  StackPages = 1
  KeepMemory = FALSE
SYMMETRY Symmetry
SPECIFICATION Spec
INVARIANTS
  TypeOK
  AllocationsDisjoint
  AllocationsMapped
  NothingLeaked
  ReservedRangeIsFree
  ReservesUnmapped
  ScanFindsFirstFree
PROPERTIES
  LiveIsKept
  MappedWhereReserved
