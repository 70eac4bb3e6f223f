SPECIFICATION TurnsSpec
CONSTANTS
  Procs = {p1, p2, p3}
  Paths = {w1, w2}
  Priority <- MCPriority
  PublishEvery = 2
  None = None
  Boot = Boot
INVARIANTS
  QueueHoldsLive
  ContextsExclusive
  AckOwedOnce
PROPERTIES
  DestroyedStaysOff
  NoOvertaking
