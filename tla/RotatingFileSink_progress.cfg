\* What a step may lose, and that every call returns after the five attempts
\* of the code: truncate-only windows and foreign entries included.
SPECIFICATION Spec
CONSTANTS
  MaxSize = 3
  WindowSizes = {0, 2}
  MaxAttempts = 5
  SizeMax = 9
  MsgSizes = {2, 4}
  MaxMsgs = 3
  InitTop = 2
  InitKinds = {"absent", "regular", "symlink", "fulldir"}
  InitSizes = {0}
  Faults = {"crash", "close", "short", "rename", "remove", "open", "scan", "stat"}
PROPERTIES
  NothingElseLoses
  CallReturns
