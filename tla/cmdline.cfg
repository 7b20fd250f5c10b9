CONSTANTS
  Word <- Words
  Number <- Numbers
  MaxWords = 4
  DEFAULT_DEQ_DEPTH = 1024
  DEFAULT_STACK_SIZE = 1048576
  DEFAULT_FIBER_POOL_CAP = 128
SPECIFICATION Spec
INVARIANTS ProgramArguments
