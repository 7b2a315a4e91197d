\* Every layout, the clock standing, running and going back.
SPECIFICATION Spec
CONSTANTS
  StackSize = 30
  Junk = Junk
  Utc = {TRUE, FALSE}
  ShowDate = {TRUE, FALSE}
  ShowThreadId = {TRUE, FALSE}
  Widths = {0, 3, 9}
  NameLens = {0, 2}
  Secs = {1, 2}
  Fracs = {7, 8}
  Zone = 1
  Tids = {1, 2}
  MsgLevels = {2, 4}
  PayloadLens = {0, 2}
  Outputs = {"stream", "console", "handle", "none"}
INVARIANTS
  TypeOK
  LineFresh
  ColorsWrapTag
