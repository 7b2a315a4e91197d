\* Every call returns, whatever throws.
SPECIFICATION Spec
CONSTANTS
  Threads = {t1, t2}
  NSinks = 2
  Names = {n1}
  Opts = {o1}
  Secs = {1}
  MsgLevels = {2, 4}
  Levels = {2, 4}
  Operations = {"log", "flush", "set_name", "set_format_options", "set_log_level", "set_flush_level", "get_name"}
  Throws = {"format", "sink", "flush"}
  MaxCalls = 3
  Blank = Blank
  Torn = Torn
  None = None

PROPERTY CallReturns
