\* Two loggers, two streams listed in opposite order.
SPECIFICATION Spec
CONSTANTS
  Loggers = {l1, l2}
  NStreams = 2
  Reversed = {l2}
  Shared = FALSE
  LineLen = 2
  Capacity = 5
  MaxCalls = 3
  None = None
INVARIANT LinesIntact
