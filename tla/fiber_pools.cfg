CONSTANTS
  NProc = 2
  Capacity = 4
  ParentCapacity = 1
  Fiber = {1,2,3,4,5,6,7,8,9,10,11,12,13,14}
  NULL = NULL
  MaxInUse = 1
  SmallCapacity = 2
  SmallMaxInUse = 2
SPECIFICATION MCSpec
INVARIANTS OnePlace WithinCapacity NothingLeaked
PROPERTIES HalfAPoolApart ImplementsAllocator SystemLastResort
