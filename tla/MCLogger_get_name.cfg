\* get_name() beside set_name().
SPECIFICATION Spec
CONSTANTS
  Threads = {t1, t2}
  NSinks = 2
  Names = {n1, n2}
  Opts = {o1}
  Secs = {1}
  MsgLevels = {2}
  Levels = {2}
  Operations = {"set_name", "get_name"}
  Throws = {}
  MaxCalls = 2
  Blank = Blank
  Torn = Torn
  None = None

INVARIANT NameWhole
