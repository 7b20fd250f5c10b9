CONSTANTS
  N = 5
  Key = {1, 2, 3, 4, 5}
  THRESHOLD = 2
  UNINIT = 0
  MAX_THREADS = 3
  TIMING_COUNT = 1
SPECIFICATION MainSpec
INVARIANTS ResultSorted CilkNoRace ThreadsBounded
PROPERTY Terminates
