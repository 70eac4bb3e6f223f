SPECIFICATION Spec
CONSTANTS
  POOL_SIZE = 16
  MIN_BLOCK = 2
  NULL = NULL
PROPERTIES
  ImplementsHeap
