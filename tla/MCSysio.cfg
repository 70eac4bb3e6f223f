SPECIFICATION Spec
CONSTANTS
  NEXS_MAX_FDS = 5
  Paths = {"file", "lib"}
  TextLen <- MCTextLen
  Streams = {s1, s2}
  Offsets <- MCOffsets
  Counts = {1}
  MaxDups = 2
  None = None
SYMMETRY MCSymmetry
CHECK_DEADLOCK FALSE
INVARIANTS
  ListedAsOpened
  OneHolder
  TextOfItsPath
