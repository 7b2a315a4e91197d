\* Two loggers, two streams listed in opposite order.
SPECIFICATION Spec
CONSTANTS
  Loggers = {l1, l2}
  NStreams = 2
  Reversed = {l2}
  Shared = TRUE
  LineLen = 2
  Capacity = 5
  MaxCalls = 3
  None = None
INVARIANTS
  TypeOK
  LinesIntact
  FlushedOut
PROPERTY CallReturns
CHECK_DEADLOCK FALSE
