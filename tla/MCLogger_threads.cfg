\* Two threads log, flush and reconfigure; the clock jumps; rendering and sinks throw.
SPECIFICATION Spec
CONSTANTS
  Threads = {t1, t2}
  NSinks = 2
  Names = {n1, n2}
  Opts = {o1, o2}
  Secs = {1, 2}
  MsgLevels = {2, 4}
  Levels = {4}
  Operations = {"log", "set_name", "set_format_options", "flush", "set_flush_level"}
  Throws = {"format", "sink", "flush"}
  MaxCalls = 3
  Blank = Blank
  Torn = Torn
  None = None
SYMMETRY Symmetry
INVARIANTS
  TypeOK
  LinesWhole
  TimeShown
  FanOut
  FlushCovers
PROPERTY ImplementsService
