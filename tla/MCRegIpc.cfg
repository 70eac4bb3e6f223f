SPECIFICATION Spec
CONSTANTS
  Procs = {p, c, d}
  Paths = {q}
  Msgs = {m, n}
  FirstProc = p
  MaxCount = 2
  PARTS = 2
  PipeCap = 4
  NoQueue = NoQueue
  NoPipe = NoPipe
  Garbage = Garbage
  MaxSends = 3
SYMMETRY Symmetry
VIEW View
CHECK_DEADLOCK FALSE
INVARIANTS
  PrivateFifo
  OneWriterOneReader
  PrivateRecvCompletes
