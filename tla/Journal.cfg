SPECIFICATION FairSpec
CONSTANTS
  Users = {a, b}
  Data = {0, 1}
  Zero = 0
  s_n_blocks = 2
  CheckpointEvery = 2
  NoHdr = NoHdr
  MaxRecords = 3
  MaxCrashes = 2
CHECK_DEADLOCK FALSE
INVARIANTS
  ReplayConverges
  OpenTxnRecorded
  OpenTxnUndone
PROPERTIES
  ReplayTerminates
