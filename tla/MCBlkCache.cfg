SPECIFICATION Spec
CONSTANTS
  Devs = {d1, d2}
  Blocks <- MCBlocks
  Data = {u, v}
  BLK_CACHE = 2
  BLK_MAX_DEVS = 2
  Faulty = {d2}
  Err = Err
  Empty = Empty
  d1 = d1
  d2 = d2
  l1 = l1
  l2 = l2
  l3 = l3
SYMMETRY Symmetry
INVARIANTS
  CacheUnique
  CleanIsOnDevice
  DirtyKeyCovers
PROPERTIES
  ImplementsStore
