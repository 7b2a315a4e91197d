\* Every failure, a window that a restart may change, stale archives.
SPECIFICATION Spec
CONSTANTS
  MaxSize = 3
  WindowSizes = {1, 2}
  MaxAttempts = 2
  SizeMax = 9
  MsgSizes = {2, 4}
  MaxMsgs = 4
  InitTop = 2
  InitKinds = {"absent", "regular"}
  InitSizes = {0}
  Faults = {"crash", "close", "short", "rename", "remove", "open", "scan", "stat"}
INVARIANTS
  TypeOK
  Chronological
  NoClobber
  CapHolds
  WindowHolds
  CounterResumes
