------------------------------- MODULE Logger -------------------------------
(***************************************************************************)
(* spdlite::logger_impl<std::mutex, Sinks...> shared by threads.           *)
(*                                                                         *)
(* A log call loads the level, stamps the time, takes the mutex, renders   *)
(* the cached header of its formatter and then its payload into the one    *)
(* buffer of the logger, hands the result to the sinks one after the other *)
(* and flushes them when the level asks for it. Each of these is a step,   *)
(* and so is each part of a reconfiguration. A line is the sequence of     *)
(* pieces in the buffer; a header piece says what the text of the header   *)
(* shows. Sinks are external: they take a line, or throw.                  *)
(***************************************************************************)
EXTENDS Naturals, Sequences

CONSTANTS
  Threads,
  NSinks,        \* sinks of the tuple
  Names,         \* names given to the logger
  Opts,          \* format_options values
  Secs,          \* seconds the clock may show; it may go back
  MsgLevels,     \* levels messages are logged at
  Levels,        \* values of set_log_level and set_flush_level
  Operations,    \* calls the threads make
  Throws,        \* "format": rendering a payload throws; "sink": a sink's write does;
                 \* "flush": its flush does
  MaxCalls,      \* bound: how many locked calls a behaviour makes
  Blank, Torn, None  \* model values: no timestamp, a name mid-assignment, no thread

AllOperations ==
  {"log", "set_name", "set_format_options", "flush", "set_log_level", "set_flush_level", "get_name"}

info == 2
off  == 6

ASSUME LoggerAssumption ==
  /\ NSinks \in Nat \ {0} /\ MaxCalls \in Nat
  /\ Threads # {} /\ None \notin Threads
  /\ Names # {} /\ Torn \notin Names
  /\ Opts # {}
  /\ Secs # {} /\ Secs \subseteq Nat /\ Blank \notin Secs
  /\ MsgLevels \subseteq 0 .. off /\ Levels \subseteq 0 .. off
  /\ Operations \subseteq AllOperations
  /\ Throws \subseteq {"format", "sink", "flush"}

VARIABLES
  level, flush_level,  \* level_, flush_level_
  name,                \* name_
  header,              \* formatter_
  buf,                 \* buf_
  holder,              \* owner of mutex_
  out, flushed,        \* what each sink received, how much of it was flushed
  pc, call, at,        \* per thread: next step, the call, the sink it is at
  ncalls,              \* calls so far; the id of the latest
  owed,                \* lines of each sink that a returned flush has covered
  seen                 \* what the last get_name() read

confVars   == <<name, header>>
sinkVars   == <<out, flushed, owed>>
threadVars == <<pc, call, at>>
vars == <<level, flush_level, confVars, buf, holder, sinkVars, threadVars, ncalls, seen>>

Sinks == 1 .. NSinks

NoCall == [op |-> "none", id |-> 0, lvl |-> off, now |-> Blank, arg |-> Blank]

-----------------------------------------------------------------------------
(* rebuild_header: the text of name and layout, zeroes for the timestamp,   *)
(* and last_secs_ = {} to have it filled in. Mutation: last_secs_ is kept.  *)
RebuiltKeepingSecs(n, o) == [name |-> n, opts |-> o, shown |-> Blank, last_secs |-> header.last_secs]
Rebuilt(n, o) == [name |-> n, opts |-> o, shown |-> Blank, last_secs |-> 0]

(* The cached timestamp is rendered only when the second changes. Mutation: *)
(* only when it advances.                                                   *)
StampedForward(h, now) ==
  IF now > h.last_secs THEN [h EXCEPT !.shown = now, !.last_secs = now] ELSE h
Stamped(h, now) ==
  IF now # h.last_secs THEN [h EXCEPT !.shown = now, !.last_secs = now] ELSE h

HeaderPiece(h, lvl) == [name |-> h.name, opts |-> h.opts, shown |-> h.shown, lvl |-> lvl]
PayloadPiece(id) == [payload |-> id]

(* The log_msg of thread t: level_offset points behind the name of the      *)
(* formatter's layout, the views are of buf_ and name_ as they are.         *)
LogMsg(t) ==
  [formatted |-> buf, logger_name |-> name, log_level |-> call[t].lvl, time |-> call[t].now,
   level_offset |-> <<header.name, header.opts>>, by |-> t, id |-> call[t].id]

Goto(t, p) == pc' = [pc EXCEPT ![t] = p]

-----------------------------------------------------------------------------
Init ==
  /\ level = info /\ flush_level = off
  /\ name \in Names
  /\ \E o \in Opts : header = [name |-> name, opts |-> o, shown |-> Blank, last_secs |-> 0]
  /\ buf = <<>>
  /\ holder = None
  /\ out = [k \in Sinks |-> <<>>]
  /\ flushed = [k \in Sinks |-> 0]
  /\ pc = [t \in Threads |-> "idle"]
  /\ call = [t \in Threads |-> NoCall]
  /\ at = [t \in Threads |-> 0]
  /\ ncalls = 0
  /\ owed = [k \in Sinks |-> 0]
  /\ seen = name

(* A call that will take the mutex starts at step p. *)
Begin(t, op, lvl, arg, p) ==
  /\ op \in Operations
  /\ pc[t] = "idle"
  /\ ncalls < MaxCalls
  /\ ncalls' = ncalls + 1
  /\ call' = [call EXCEPT ![t] = [op |-> op, id |-> ncalls + 1, lvl |-> lvl, now |-> Blank, arg |-> arg]]
  /\ Goto(t, p)
  /\ UNCHANGED <<level, flush_level, confVars, buf, holder, sinkVars, at, seen>>

(* should_log: a relaxed load, outside the mutex. *)
Log(t) == \E lvl \in MsgLevels : lvl >= level /\ Begin(t, "log", lvl, Blank, "stamp")

SetName(t) == \E n \in Names : Begin(t, "set_name", off, n, "lock")

SetFormatOptions(t) == \E o \in Opts : Begin(t, "set_format_options", off, o, "lock")

Flush(t) == Begin(t, "flush", off, Blank, "lock")

(* The time is taken before the mutex. *)
Stamp(t) ==
  /\ pc[t] = "stamp"
  /\ \E now \in Secs : call' = [call EXCEPT ![t].now = now]
  /\ Goto(t, "lock")
  /\ UNCHANGED <<level, flush_level, confVars, buf, holder, sinkVars, at, ncalls, seen>>

FirstStep(op) ==
  CASE op = "log" -> "header"
    [] op = "set_name" -> "assign"
    [] op = "set_format_options" -> "reformat"
    [] op = "flush" -> "flush"

(* Mutation: null_mutex. *)
LockNull(t) ==
  /\ pc[t] = "lock"
  /\ holder' = t
  /\ at' = [at EXCEPT ![t] = 1]
  /\ Goto(t, FirstStep(call[t].op))
  /\ UNCHANGED <<level, flush_level, confVars, buf, sinkVars, call, ncalls, seen>>

Lock(t) ==
  /\ pc[t] = "lock"
  /\ holder = None
  /\ holder' = t
  /\ at' = [at EXCEPT ![t] = 1]
  /\ Goto(t, FirstStep(call[t].op))
  /\ UNCHANGED <<level, flush_level, confVars, buf, sinkVars, call, ncalls, seen>>

(* buf_.clear() and format_header. *)
Header(t) ==
  /\ pc[t] = "header"
  /\ header' = Stamped(header, call[t].now)
  /\ buf' = <<HeaderPiece(header', call[t].lvl)>>
  /\ Goto(t, "payload")
  /\ UNCHANGED <<level, flush_level, name, holder, sinkVars, call, at, ncalls, seen>>

Payload(t) ==
  /\ pc[t] = "payload"
  /\ buf' = Append(buf, PayloadPiece(call[t].id))
  /\ Goto(t, "write")
  /\ UNCHANGED <<level, flush_level, confVars, holder, sinkVars, call, at, ncalls, seen>>

(* An exception out of the rendering leaves a part of the payload behind.   *)
(* It is caught, after the lock_guard has released the mutex. Mutation: a   *)
(* mutex unlocked by hand at the end of the call, which is not reached.     *)
PayloadThrowsLocked(t) ==
  /\ "format" \in Throws
  /\ pc[t] = "payload"
  /\ Goto(t, "idle")
  /\ UNCHANGED <<level, flush_level, confVars, buf, holder, sinkVars, call, at, ncalls, seen>>

PayloadThrows(t) ==
  /\ "format" \in Throws
  /\ pc[t] = "payload"
  /\ buf' \in {buf, Append(buf, PayloadPiece(call[t].id))}
  /\ Goto(t, "unlock")
  /\ UNCHANGED <<level, flush_level, confVars, holder, sinkVars, call, at, ncalls, seen>>

(* The fold over the sinks: one write after the other. Mutation: one too    *)
(* many.                                                                    *)
WriteSinkPast(t) ==
  /\ pc[t] = "write"
  /\ out' = [out EXCEPT ![at[t]] = Append(@, LogMsg(t))]
  /\ IF at[t] <= NSinks
     THEN at' = [at EXCEPT ![t] = @ + 1] /\ UNCHANGED pc
     ELSE at' = [at EXCEPT ![t] = 1] /\ Goto(t, "gate")
  /\ UNCHANGED <<level, flush_level, confVars, buf, holder, flushed, owed, call, ncalls, seen>>

WriteSink(t) ==
  /\ pc[t] = "write"
  /\ out' = [out EXCEPT ![at[t]] = Append(@, LogMsg(t))]
  /\ IF at[t] < NSinks
     THEN at' = [at EXCEPT ![t] = @ + 1] /\ UNCHANGED pc
     ELSE at' = [at EXCEPT ![t] = 1] /\ Goto(t, "gate")
  /\ UNCHANGED <<level, flush_level, confVars, buf, holder, flushed, owed, call, ncalls, seen>>

(* A sink that throws ends the fold: the sinks after it get no line, and    *)
(* nothing is flushed. Mutation: the next sink is written all the same.     *)
SkipSink(t) ==
  /\ "sink" \in Throws
  /\ pc[t] = "write"
  /\ IF at[t] < NSinks
     THEN at' = [at EXCEPT ![t] = @ + 1] /\ UNCHANGED pc
     ELSE at' = [at EXCEPT ![t] = 1] /\ Goto(t, "gate")
  /\ UNCHANGED <<level, flush_level, confVars, buf, holder, sinkVars, call, ncalls, seen>>

SinkThrows(t) ==
  /\ "sink" \in Throws
  /\ pc[t] = "write"
  /\ Goto(t, "unlock")
  /\ UNCHANGED <<level, flush_level, confVars, buf, holder, sinkVars, call, at, ncalls, seen>>

(* should_flush, loaded after the writes. *)
FlushGate(t) ==
  /\ pc[t] = "gate"
  /\ Goto(t, IF call[t].lvl >= flush_level THEN "flush" ELSE "unlock")
  /\ UNCHANGED <<level, flush_level, confVars, buf, holder, sinkVars, call, at, ncalls, seen>>

FlushSink(t) ==
  /\ pc[t] = "flush"
  /\ flushed' = [flushed EXCEPT ![at[t]] = Len(out[at[t]])]
  /\ IF at[t] < NSinks
     THEN at' = [at EXCEPT ![t] = @ + 1] /\ UNCHANGED <<pc, owed>>
     ELSE owed' = [k \in Sinks |-> Len(out[k])] /\ Goto(t, "unlock") /\ UNCHANGED at
  /\ UNCHANGED <<level, flush_level, confVars, buf, holder, out, call, ncalls, seen>>

(* A sink whose flush throws ends the fold of a log call. Out of flush(),   *)
(* which catches nothing, it ends the program.                              *)
FlushThrows(t) ==
  /\ "flush" \in Throws
  /\ pc[t] = "flush" /\ call[t].op = "log"
  /\ Goto(t, "unlock")
  /\ UNCHANGED <<level, flush_level, confVars, buf, holder, sinkVars, call, at, ncalls, seen>>

(* set_name: the string is assigned, and then the formatter rebuilt from    *)
(* it. Mutation: only the string.                                           *)
AssignName(t) ==
  /\ pc[t] = "assign"
  /\ name' = Torn
  /\ Goto(t, "rebuild")
  /\ UNCHANGED <<level, flush_level, header, buf, holder, sinkVars, call, at, ncalls, seen>>

RenameOnly(t) ==
  /\ pc[t] = "rebuild"
  /\ name' = call[t].arg
  /\ Goto(t, "unlock")
  /\ UNCHANGED <<level, flush_level, header, buf, holder, sinkVars, call, at, ncalls, seen>>

RebuildHeader(t) ==
  /\ pc[t] = "rebuild"
  /\ name' = call[t].arg
  /\ header' = Rebuilt(name', header.opts)
  /\ Goto(t, "unlock")
  /\ UNCHANGED <<level, flush_level, buf, holder, sinkVars, call, at, ncalls, seen>>

(* set_format_options: a new formatter for name_. *)
Reformat(t) ==
  /\ pc[t] = "reformat"
  /\ header' = Rebuilt(name, call[t].arg)
  /\ Goto(t, "unlock")
  /\ UNCHANGED <<level, flush_level, name, buf, holder, sinkVars, call, at, ncalls, seen>>

(* The lock_guard goes out of scope. *)
Unlock(t) ==
  /\ pc[t] = "unlock"
  /\ holder' = None
  /\ call' = [call EXCEPT ![t] = NoCall]
  /\ at' = [at EXCEPT ![t] = 0]
  /\ Goto(t, "idle")
  /\ UNCHANGED <<level, flush_level, confVars, buf, sinkVars, ncalls, seen>>

(* The calls that take no mutex. *)
SetLogLevel ==
  /\ "set_log_level" \in Operations
  /\ level' \in Levels
  /\ UNCHANGED <<flush_level, confVars, buf, holder, sinkVars, threadVars, ncalls, seen>>

SetFlushLevel ==
  /\ "set_flush_level" \in Operations
  /\ flush_level' \in Levels
  /\ UNCHANGED <<level, confVars, buf, holder, sinkVars, threadVars, ncalls, seen>>

GetName ==
  /\ "get_name" \in Operations
  /\ seen' = name
  /\ UNCHANGED <<level, flush_level, confVars, buf, holder, sinkVars, threadVars, ncalls>>

(* What a thread inside a call does next. *)
Step(t) ==
  \/ Stamp(t) \/ Lock(t) \/ Header(t) \/ Payload(t) \/ PayloadThrows(t)
  \/ WriteSink(t) \/ SinkThrows(t) \/ FlushGate(t) \/ FlushSink(t) \/ FlushThrows(t)
  \/ AssignName(t) \/ RebuildHeader(t) \/ Reformat(t) \/ Unlock(t)

Next ==
  \/ \E t \in Threads :
       Log(t) \/ SetName(t) \/ SetFormatOptions(t) \/ Flush(t) \/ Step(t)
  \/ SetLogLevel \/ SetFlushLevel \/ GetName

Spec == Init /\ [][Next]_vars /\ \A t \in Threads : WF_vars(Step(t))

-----------------------------------------------------------------------------
Shown == Secs \cup {Blank}
Piece == [name : Names, opts : Opts, shown : Shown, lvl : MsgLevels] \cup [payload : Nat]
Message ==
  [formatted : Seq(Piece), logger_name : Names \cup {Torn}, log_level : MsgLevels,
   time : Shown, level_offset : Names \X Opts, by : Threads, id : Nat]

TypeOK ==
  /\ level \in 0 .. off /\ flush_level \in 0 .. off
  /\ name \in Names \cup {Torn} /\ seen \in Names \cup {Torn}
  /\ header \in [name : Names, opts : Opts, shown : Shown, last_secs : Nat]
  /\ buf \in Seq(Piece)
  /\ holder \in Threads \cup {None}
  /\ out \in [Sinks -> Seq(Message)]
  /\ flushed \in [Sinks -> Nat] /\ owed \in [Sinks -> Nat]
  /\ pc \in [Threads -> {"idle", "stamp", "lock", "header", "payload", "write", "gate", "flush",
                         "assign", "rebuild", "reformat", "unlock"}]
  /\ at \in [Threads -> 0 .. NSinks]
  /\ call \in [Threads -> [op : AllOperations \cup {"none"}, id : 0 .. MaxCalls,
                           lvl : 0 .. off, now : Shown, arg : Names \cup Opts \cup {Blank}]]
  /\ ncalls \in 0 .. MaxCalls

Written == UNION {{out[k][i] : i \in DOMAIN out[k]} : k \in Sinks}

(* Every line a sink gets is one header and one payload, both of the same   *)
(* call: never the bytes of two threads, never the rest of a failed call.   *)
(* What the header shows is what log_msg says, and level_offset fits it.    *)
Whole(m) ==
  /\ Len(m.formatted) = 2
  /\ m.formatted[2] = PayloadPiece(m.id)
  /\ m.formatted[1].lvl = m.log_level
  /\ m.formatted[1].name = m.logger_name
  /\ m.level_offset = <<m.formatted[1].name, m.formatted[1].opts>>

LinesWhole == \A m \in Written : Whole(m)

(* The timestamp shown is the one of the message, although it is cached     *)
(* and the clock goes back and forth; except the second 0 of the epoch.     *)
TimeShown == \A m \in Written : m.time # 0 => m.formatted[1].shown = m.time

(* A sink has a subset of the lines of the sinks before it, in the same     *)
(* order; each thread's lines are in the order it issued them.              *)
Subsequence(s, r) ==
  \E f \in [DOMAIN s -> DOMAIN r] :
    /\ \A i, j \in DOMAIN s : i < j => f[i] < f[j]
    /\ \A i \in DOMAIN s : s[i] = r[f[i]]

FanOut == \A k \in 2 .. NSinks : Subsequence(out[k], out[k - 1])

(* A flush that returned covers the same cut of the log in every sink.      *)
FlushCovers == \A k \in Sinks : owed[k] <= flushed[k]

(* Every call returns, on every path the mutex is released.                 *)
CallReturns == \A t \in Threads : pc[t] # "idle" ~> pc[t] = "idle"

-----------------------------------------------------------------------------
(* The logger implements LogService. The line a thread is still handing     *)
(* out is not delivered yet: it is taken from the sinks it has reached.     *)
Strip(m) ==
  [id |-> m.id, by |-> m.by, lvl |-> m.log_level,
   name |-> m.formatted[1].name, opts |-> m.formatted[1].opts]

InHand(k) ==
  out[k] # <<>> /\ \E t \in Threads : pc[t] = "write" /\ out[k][Len(out[k])].id = call[t].id

Delivered ==
  [k \in Sinks |->
     [i \in 1 .. Len(out[k]) - (IF InHand(k) THEN 1 ELSE 0) |-> Strip(out[k][i])]]

Service == INSTANCE LogService
             WITH Ids <- 1 .. MaxCalls, Levels <- MsgLevels,
                  name <- header.name, opts <- header.opts, out <- Delivered

ImplementsService == Service!Spec

-----------------------------------------------------------------------------
(* "logger is thread-safe by default": also get_name() beside set_name().   *)
NameWhole == seen \in Names

=============================================================================
