SPECIFICATION Spec
CONSTANTS
  NEXS_LINE_BUFSIZE = 6
  NEXS_LINE_HISTORY = 2
  LINE_SIZE = 5
  Bursts <- MCBursts
  Bytes <- MCBytes
  Encoding <- MCEncoding
  ExitLines <- MCExitLines
  Pasts <- MCPasts
  MaxBursts = 5
CHECK_DEADLOCK FALSE
INVARIANTS
  CursorOnScreen
  TerminalGivenBack
PROPERTY
  ImplementsLine
