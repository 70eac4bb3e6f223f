SPECIFICATION Spec
CONSTANTS
  a = a
  Paths <- MCPaths
  NoPath = NoPath
  VFS_MAX_FD = 5
  VFS_MAX_MOUNTS = 1
  MaxIno = 3
  MaxSize = 2
  FidNumbers = {7, 8}
  P9_MAX_FIDS = 2
  P9_MSIZE = 12
  DotDot = DotDot
  Clients = {1, 2}
  Admins = {1}
  MaxPid = 3
  INBOX = 1
  QUEUE = 1
  Empty = Empty
  Filled = Filled
  MaxCalls = 3
  Max9P = 3
CHECK_DEADLOCK FALSE
INVARIANTS
  HeldFdsKeepTheirFile
  PathsUnique
  AnswersAccountedFor
