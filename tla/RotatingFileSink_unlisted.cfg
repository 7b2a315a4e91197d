\* The directory cannot be listed by one constructor.
SPECIFICATION Spec
CONSTANTS
  MaxSize = 3
  WindowSizes = {1, 2}
  MaxAttempts = 2
  SizeMax = 9
  MsgSizes = {2, 4}
  MaxMsgs = 4
  InitTop = 2
  InitKinds = {"absent", "regular", "fulldir"}
  InitSizes = {0, 2}
  Faults = {"scan"}
INVARIANT
  ResumesAlways
