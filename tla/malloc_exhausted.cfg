CONSTANTS
  NProc = 1
  Bucket <- OneBucket
  Size <- OneSize
  Capacity <- OneCapacity
  Chunk = 3
  Supply = 1
  MEM_LIST_SIZE = 2
  NULL = NULL
  UNINIT = UNINIT
  MaxInUse = 3
SPECIFICATION Spec
INVARIANT OutOfMemoryNoticed
