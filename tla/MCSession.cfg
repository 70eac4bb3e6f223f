SPECIFICATION Spec
CONSTANTS
  Letters = {}
  Digits <- MCDigits
  NAME_LEN = 8
  MAX_PARAMS = 3
  MAX_CALL_DEPTH = 3
  MAX_FN_DEFS = 21
  MSG_QUEUE_SIZE = 2
  Paths <- MCPaths
  PlainLines <- MCPlainLines
  OtherLines <- MCOtherLines
  MaxLines = 5
  Globals <- MCGlobals
  Functions <- MCFunctions
CHECK_DEADLOCK FALSE
INVARIANTS
  CallsLeaveNoTrace
  NoDanglingArrays
PROPERTY
  ImplementsFrames
