CONSTANTS
  N = 4
  Key = {1, 2, 3, 4}
  THRESHOLD = 2
  UNINIT = 0
  MAX_THREADS = 2
  TIMING_COUNT = 1
SPECIFICATION MainSpec
INVARIANT PthreadNoRace
