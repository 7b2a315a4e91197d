----------------------------- MODULE Rendering -----------------------------
(***************************************************************************)
(* How a line comes about: the cached header of spdlite::formatter that a  *)
(* log call patches in place, the buffer of the logger it is appended to   *)
(* with the payload, and the colored copy that a console_sink makes of the *)
(* line. One call at a time: the mutex of the logger sees to that.         *)
(*                                                                         *)
(* A byte is <<what, i, v>>: the i-th byte of the field `what` when it     *)
(* shows the value v. Offsets are those of the code and count from 0.      *)
(***************************************************************************)
EXTENDS StackBuf

CONSTANTS
  Utc, ShowDate, ShowThreadId,  \* values of the format_options
  Widths,       \* fraction digits of their precision: 0, 3, 6, 9
  NameLens,     \* lengths of the logger's names
  Secs, Fracs,  \* what the clock shows: the second, and the rest of it
  Zone,         \* offset of the local time
  Tids,         \* thread ids
  MsgLevels,
  PayloadLens,
  Outputs       \* what a console sink may write to, see `output`

info == 2
level_width == 3

ASSUME RenderingAssumption ==
  /\ Utc \subseteq BOOLEAN /\ ShowDate \subseteq BOOLEAN /\ ShowThreadId \subseteq BOOLEAN
  /\ Widths \subseteq {0, 3, 6, 9}
  /\ NameLens \subseteq Nat /\ PayloadLens \subseteq Nat
  /\ Secs \subseteq Nat /\ Fracs \subseteq Nat /\ Tids \subseteq Nat /\ Zone \in Nat
  /\ MsgLevels \subseteq 0 .. 6
  /\ Outputs \subseteq {"stream", "console", "handle", "none"}

VARIABLES
  formatter,     \* formatter_
  name,          \* name_
  buf,           \* buf_ of the logger
  output,        \* of the console sink: a "stream" takes escape codes; on Windows
                 \* a "console" has attributes, any other "handle" has none, and
                 \* there may be "none"
  should_color,  \* should_color_ of the console sink
  cbuf,          \* cbuf_ of the console sink
  pc,            \* what the call does next
  msg,           \* time, level, thread and payload of the call
  rendered,      \* how many bytes of the payload are in the buffer
  printed        \* what the console sink wrote for it

vars == <<formatter, name, buf, output, should_color, cbuf, pc, msg, rendered, printed>>

Options == [utc : Utc, show_date : ShowDate, show_thread_id : ShowThreadId, precision : Widths]

Field(what, width, v) == [i \in 1 .. width |-> <<what, i, v>>]
Text(what) == Field(what, 1, 0)
Zeros(width) == [i \in 1 .. width |-> <<"0", 0, 0>>]

Name(len) == Field("name", len, len)
Payload(len) == Field("payload", len, len)
Tag(lvl) == Field("level", level_width, lvl)
Color(lvl) == Field("color", 1, lvl)
Reset == Text("reset")
Newline == <<"newline", 1, 0>>

(* memcpy to header_.data() + off; a patch that does not fit makes h longer. *)
Patched(h, off, s) ==
  [i \in DOMAIN h \cup 1 .. off + Len(s) |->
     IF i \in off + 1 .. off + Len(s) THEN s[i - off] ELSE h[i]]

-----------------------------------------------------------------------------
(* The layout with placeholders; a field that is off keeps its old offset.  *)
rebuild_header(f, n) ==
  LET date  == Zeros(4) \o Text("-") \o Zeros(2) \o Text("-") \o Zeros(2) \o Text("space")
      clock == Text("[") \o (IF f.opts.show_date THEN date ELSE <<>>)
               \o Zeros(2) \o Text(":") \o Zeros(2) \o Text(":") \o Zeros(2)
      point == IF f.opts.precision # 0 THEN Text(".") \o Zeros(f.opts.precision) ELSE <<>>
      time  == clock \o point \o Text("]") \o Text("space")
      tid   == IF f.opts.show_thread_id
               THEN Text("[") \o Zeros(6) \o Text("]") \o Text("space") ELSE <<>>
      who   == IF n # <<>> THEN Text("[") \o n \o Text("]") \o Text("space") ELSE <<>>
      open  == time \o tid \o who \o Text("[")
  IN  [f EXCEPT !.header = open \o Tag(info) \o Text("]") \o Text("space"),
                !.frac_offset = IF f.opts.precision # 0 THEN Len(clock) + 1 ELSE @,
                !.tid_offset = IF f.opts.show_thread_id THEN Len(time) + 1 ELSE @,
                !.level_offset = Len(open),
                !.last_secs = 0]

(* formatter{name, opts}: the offsets start at 0. *)
NewFormatter(n, o) ==
  rebuild_header([opts |-> o, header |-> <<>>, frac_offset |-> 0, tid_offset |-> 0,
                  level_offset |-> 0, last_secs |-> 0], n)

(* The time of day, and the day, of a second. *)
Civil(o, secs) == IF o.utc THEN secs ELSE secs + Zone

rebuild_timestamp(f, secs) ==
  LET v     == Civil(f.opts, secs)
      off   == IF f.opts.show_date THEN 12 ELSE 1
      dated == Patched(Patched(Patched(f.header, 1, Field("year", 4, v)),
                               6, Field("month", 2, v)), 9, Field("day", 2, v))
      base  == IF f.opts.show_date THEN dated ELSE f.header
  IN  Patched(Patched(Patched(base, off, Field("hour", 2, v)),
                      off + 3, Field("minute", 2, v)), off + 6, Field("second", 2, v))

(* format_header without its last line: the header patched for message m.   *)
(* The digits of the fraction are the first ones of its nine. Mutation: the *)
(* fraction is only patched when the second changes.                        *)
StampedWithSecond(f, m) ==
  LET new  == m.secs # f.last_secs
      h    == IF new THEN rebuild_timestamp(f, m.secs) ELSE f.header
      frac == IF new /\ f.opts.precision # 0
              THEN Patched(h, f.frac_offset, Field("frac", f.opts.precision, m.frac)) ELSE h
      tid  == IF f.opts.show_thread_id
              THEN Patched(frac, f.tid_offset, Field("tid", 6, m.tid)) ELSE frac
  IN  [f EXCEPT !.header = Patched(tid, f.level_offset, Tag(m.lvl)), !.last_secs = m.secs]
Stamped(f, m) ==
  LET h    == IF m.secs # f.last_secs THEN rebuild_timestamp(f, m.secs) ELSE f.header
      frac == IF f.opts.precision # 0
              THEN Patched(h, f.frac_offset, Field("frac", f.opts.precision, m.frac)) ELSE h
      tid  == IF f.opts.show_thread_id
              THEN Patched(frac, f.tid_offset, Field("tid", 6, m.tid)) ELSE frac
  IN  [f EXCEPT !.header = Patched(tid, f.level_offset, Tag(m.lvl)), !.last_secs = m.secs]

-----------------------------------------------------------------------------
NoMsg == [secs |-> 0, frac |-> 0, tid |-> 0, lvl |-> 6, len |-> 0]

Init ==
  /\ \E len \in NameLens : name = Name(len)
  /\ \E o \in Options : formatter = NewFormatter(name, o)
  /\ buf = EmptyBuf
  /\ output \in Outputs
  /\ should_color \in BOOLEAN
  /\ cbuf = EmptyBuf
  /\ pc = "idle"
  /\ msg = NoMsg
  /\ rendered = 0
  /\ printed = <<>>

(* The reconfigurations, between calls. *)
set_name ==
  /\ pc = "idle"
  /\ \E len \in NameLens : name' = Name(len)
  /\ formatter' = rebuild_header(formatter, name')
  /\ msg' = NoMsg /\ printed' = <<>>
  /\ UNCHANGED <<buf, output, should_color, cbuf, pc, rendered>>

set_format_options ==
  /\ pc = "idle"
  /\ \E o \in Options : formatter' = NewFormatter(name, o)
  /\ msg' = NoMsg /\ printed' = <<>>
  /\ UNCHANGED <<name, buf, output, should_color, cbuf, pc, rendered>>

set_color_mode ==
  /\ pc = "idle"
  /\ should_color' \in BOOLEAN
  /\ msg' = NoMsg /\ printed' = <<>>
  /\ UNCHANGED <<formatter, name, buf, output, cbuf, pc, rendered>>

(* A logger, and with it its formatter, buffer and sinks, is moved. *)
Move ==
  /\ pc = "idle"
  /\ buf' = moved(buf) /\ cbuf' = moved(cbuf)
  /\ msg' = NoMsg /\ printed' = <<>>
  /\ UNCHANGED <<formatter, name, output, should_color, pc, rendered>>

(* A log call clears the buffer and appends the header. *)
FormatHeader ==
  /\ pc = "idle"
  /\ \E secs \in Secs, frac \in Fracs, tid \in Tids, lvl \in MsgLevels, len \in PayloadLens :
       msg' = [secs |-> secs, frac |-> frac, tid |-> tid, lvl |-> lvl, len |-> len]
  /\ formatter' = Stamped(formatter, msg')
  /\ buf' = append(clear(buf), formatter'.header)
  /\ printed' = <<>>
  /\ pc' = "payload"
  /\ UNCHANGED <<name, output, should_color, cbuf, rendered>>

(* log_sv_ appends the whole payload; vformat_to hands it over in pieces,   *)
(* or byte by byte through a back_inserter.                                 *)
PayloadLeft == pc = "payload" /\ rendered < msg.len

RenderPiece ==
  /\ PayloadLeft
  /\ rendered' \in rendered + 1 .. msg.len
  /\ buf' = append(buf, SubSeq(Payload(msg.len), rendered + 1, rendered'))
  /\ UNCHANGED <<formatter, name, output, should_color, cbuf, pc, msg, printed>>

RenderByte ==
  /\ PayloadLeft
  /\ rendered' = rendered + 1
  /\ buf' = push_back(buf, Payload(msg.len)[rendered'])
  /\ UNCHANGED <<formatter, name, output, should_color, cbuf, pc, msg, printed>>

RenderEnd ==
  /\ pc = "payload" /\ rendered = msg.len
  /\ buf' = push_back(buf, Newline)
  /\ pc' = "write"
  /\ rendered' = 0
  /\ UNCHANGED <<formatter, name, output, should_color, cbuf, msg, printed>>

(* vformat_to throws midway; the next call finds what is there. *)
RenderThrows ==
  /\ pc = "payload"
  /\ buf' = spent(buf)
  /\ pc' = "idle"
  /\ msg' = NoMsg
  /\ rendered' = 0
  /\ UNCHANGED <<formatter, name, output, should_color, cbuf, printed>>

(* console_sink_base::write. The mode may ask for colors where the output   *)
(* cannot show them.                                                        *)
Colored == should_color /\ output \in {"stream", "console"}

WritePlain ==
  /\ pc = "write" /\ ~Colored
  /\ printed' = IF output = "none" THEN <<>> ELSE Contents(buf)
  /\ buf' = spent(buf)
  /\ pc' = "idle"
  /\ UNCHANGED <<formatter, name, output, should_color, cbuf, msg, rendered>>

LevelStart == formatter.level_offset
LevelEnd == LevelStart + level_width

(* Escape codes are appended to a copy of the line. Mutation: the tag is    *)
(* thought to end where it starts.                                          *)
WriteColoredEarly ==
  LET data == Contents(buf)
      open == append(append(clear(cbuf), SubSeq(data, 1, LevelStart)), Color(msg.lvl))
      tag  == append(append(open, Reset), SubSeq(data, LevelStart + 1, LevelEnd))
      full == append(tag, SubSeq(data, LevelEnd + 1, Len(data)))
  IN  /\ pc = "write" /\ Colored /\ output = "stream"
      /\ printed' = Contents(full)
      /\ buf' = spent(buf) /\ cbuf' = spent(full)
      /\ pc' = "idle"
      /\ UNCHANGED <<formatter, name, output, should_color, msg, rendered>>
WriteColored ==
  LET data == Contents(buf)
      open == append(append(clear(cbuf), SubSeq(data, 1, LevelStart)), Color(msg.lvl))
      tag  == append(append(open, SubSeq(data, LevelStart + 1, LevelEnd)), Reset)
      full == append(tag, SubSeq(data, LevelEnd + 1, Len(data)))
  IN  /\ pc = "write" /\ Colored /\ output = "stream"
      /\ printed' = Contents(full)
      /\ buf' = spent(buf) /\ cbuf' = spent(full)
      /\ pc' = "idle"
      /\ UNCHANGED <<formatter, name, output, should_color, msg, rendered>>

(* A Windows console is written to in pieces, and its attributes are set    *)
(* between them to the color of the level and back.                         *)
WriteAttributed ==
  LET data == Contents(buf)
  IN  /\ pc = "write" /\ Colored /\ output = "console"
      /\ printed' = SubSeq(data, 1, LevelStart) \o Color(msg.lvl)
                    \o SubSeq(data, LevelStart + 1, LevelEnd) \o Reset
                    \o SubSeq(data, LevelEnd + 1, Len(data))
      /\ buf' = spent(buf)
      /\ pc' = "idle"
      /\ UNCHANGED <<formatter, name, output, should_color, cbuf, msg, rendered>>

Next ==
  \/ set_name \/ set_format_options \/ set_color_mode \/ Move
  \/ FormatHeader \/ RenderPiece \/ RenderByte \/ RenderEnd \/ RenderThrows
  \/ WritePlain \/ WriteColored \/ WriteAttributed

Spec == Init /\ [][Next]_vars

-----------------------------------------------------------------------------
WellFormed(b) ==
  /\ Len(b.stack) = StackSize
  /\ b.size \in 0 .. StackSize
  /\ b.heap \in BOOLEAN

(* The buffers are within their arrays; the level lies within the header.   *)
TypeOK ==
  /\ WellFormed(buf) /\ WellFormed(cbuf)
  /\ \E len \in NameLens : name = Name(len)
  /\ formatter.opts \in Options /\ formatter.last_secs \in Secs \cup {0}
  /\ formatter.level_offset + level_width <= Len(formatter.header)
  /\ pc \in {"idle", "payload", "write"} /\ rendered \in 0 .. msg.len
  /\ output \in Outputs /\ should_color \in BOOLEAN

(* The line that the documented layout gives for a message, written from    *)
(* scratch: "[YYYY-MM-DD HH:MM:SS.mmm] [name] [LVL] payload\n".             *)
Bracketed(s) == Text("[") \o s \o Text("]") \o Text("space")

Header(o, n, m) ==
  LET v    == Civil(o, m.secs)
      date == Field("year", 4, v) \o Text("-") \o Field("month", 2, v) \o Text("-")
              \o Field("day", 2, v) \o Text("space")
      time == Field("hour", 2, v) \o Text(":") \o Field("minute", 2, v) \o Text(":")
              \o Field("second", 2, v)
      frac == Text(".") \o Field("frac", o.precision, m.frac)
  IN  Bracketed((IF o.show_date THEN date ELSE <<>>) \o time
                \o (IF o.precision = 0 THEN <<>> ELSE frac))
      \o (IF o.show_thread_id THEN Bracketed(Field("tid", 6, m.tid)) ELSE <<>>)
      \o (IF n = <<>> THEN <<>> ELSE Bracketed(n))
      \o Bracketed(Tag(m.lvl))

Line(o, n, m) == Header(o, n, m) \o Payload(m.len) \o <<Newline>>

(* The line handed to the sinks is the one of the documented layout for the *)
(* current options, name and message, whatever was rendered, reconfigured,  *)
(* spilled, thrown or moved before; except in the second 0 of the epoch,    *)
(* see Logger.                                                              *)
LineFresh ==
  pc = "write" /\ msg.secs # 0 => Contents(buf) = Line(formatter.opts, name, msg)

(* What the console sink prints is that line, with the color of the level   *)
(* right before the three bytes of the level tag and the reset behind them, *)
(* if colors are wanted and the output can show them; nothing only where    *)
(* there is no output.                                                      *)
ColorsWrapTag ==
  LET line == Line(formatter.opts, name, msg)
  IN  pc = "idle" /\ msg.secs # 0 =>
        CASE output = "none" -> printed = <<>>
          [] should_color /\ output \in {"stream", "console"} ->
               \E i \in 0 .. Len(line) - level_width :
                 /\ SubSeq(line, i + 1, i + level_width) = Tag(msg.lvl)
                 /\ printed = SubSeq(line, 1, i) \o Color(msg.lvl) \o Tag(msg.lvl) \o Reset
                              \o SubSeq(line, i + level_width + 1, Len(line))
          [] OTHER -> printed = line

=============================================================================
