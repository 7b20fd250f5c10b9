CONSTANTS
  NProc = 2
  Bucket <- OneBucket
  Size <- OneSize
  Capacity <- OneCapacity
  Chunk = 3
  Supply = 4
  MEM_LIST_SIZE = 2
  NULL = NULL
  UNINIT = UNINIT
  MaxInUse = 1
SPECIFICATION Spec
INVARIANTS EachUnitOnce CountsAgree NoReentry
