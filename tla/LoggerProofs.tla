---------------------------- MODULE LoggerProofs ----------------------------
(***************************************************************************)
(* A logger keeps its lines whole and in step, and implements LogService,  *)
(* for any number of threads, sinks, names, layouts and calls. First the   *)
(* inductive invariant IInv, in named parts; then one lemma for each part, *)
(* that a step keeps it; then the refinement.                              *)
(***************************************************************************)
EXTENDS Logger, SequenceTheorems, TLAPS

(* The steps under the mutex, and mutual exclusion.                         *)
Locked == {"header", "payload", "write", "gate", "flush", "assign", "rebuild", "reformat", "unlock"}

Mutex == \A t \in Threads : pc[t] \in Locked <=> holder = t

(* What a call at step p is, and at which sink.                             *)
CallOf(p, c, a) ==
  /\ p # "idle" => c.op \in {"log", "set_name", "set_format_options", "flush"}
  /\ c.op = "log" => c.lvl \in MsgLevels /\ (p # "stamp" => c.now \in Secs)
  /\ c.op = "set_name" => c.arg \in Names
  /\ c.op = "set_format_options" => c.arg \in Opts
  /\ p \in {"stamp", "header", "payload", "write", "gate"} => c.op = "log"
  /\ p \in {"assign", "rebuild"} => c.op = "set_name"
  /\ p = "reformat" => c.op = "set_format_options"
  /\ p \in Locked => a \in Sinks
  /\ p \in {"header", "payload", "gate"} => a = 1

Calls == \A t \in Threads : CallOf(pc[t], call[t], at[t])

(* The cached header agrees with itself, and outside set_name with name_.   *)
Config ==
  /\ header.last_secs # 0 => header.shown = header.last_secs
  /\ (\A t \in Threads : pc[t] # "rebuild") => name = header.name

(* What a thread has rendered is in the buffer, whole.                      *)
Rendered ==
  \A t \in Threads :
    /\ pc[t] \in {"payload", "write"} => (call[t].now # 0 => header.shown = call[t].now)
    /\ pc[t] = "payload" => buf = <<HeaderPiece(header, call[t].lvl)>>
    /\ pc[t] = "write" => buf = <<HeaderPiece(header, call[t].lvl), PayloadPiece(call[t].id)>>

(* How far a flush under way has come.                                      *)
Flushes ==
  /\ \A k \in Sinks : owed[k] <= flushed[k] /\ owed[k] <= Len(out[k])
  /\ \A t \in Threads : pc[t] = "flush" =>
       \A k \in Sinks : k < at[t] => flushed[k] = Len(out[k])

(* Sink k has the line that t is handing out.                               *)
InHandOf(t, k) == pc[t] = "write" /\ k < at[t]

Sending == {"stamp", "lock", "header", "payload", "write"}

(* The lines of sink k without the one thread t is handing out.             *)
Cut(t, k) == IF InHandOf(t, k) THEN Len(out[k]) - 1 ELSE Len(out[k])

Older(m, t) == IF m.by = t THEN m.id < call[t].id ELSE m.id # call[t].id

(* Ids grow along a thread, and no two lines of different calls share one.  *)
Ids ==
  /\ \A t \in Threads : pc[t] # "idle" => call[t].id \in 1 .. ncalls
  /\ \A t, u \in Threads : pc[t] # "idle" /\ pc[u] # "idle" /\ t # u => call[t].id # call[u].id
  /\ \A k \in Sinks : \A i \in 1 .. Len(out[k]) : out[k][i].id <= ncalls
  /\ \A t \in Threads : pc[t] \in Sending =>
       \A k \in Sinks : \A i \in 1 .. Cut(t, k) : Older(out[k][i], t)

(* The line being handed out is the last one of every sink reached.         *)
Handing ==
  \A t \in Threads : \A k \in Sinks : InHandOf(t, k) =>
    out[k] # <<>> /\ out[k][Len(out[k])] = LogMsg(t)

Butlast(s) == SubSeq(s, 1, Len(s) - 1)

(* A thread is about to write sink k.                                       *)
Due(k) == \E t \in Threads : pc[t] = "write" /\ at[t] = k

Reached(k) == IF Due(k) THEN Butlast(out[k - 1]) ELSE out[k - 1]

(* A sink follows the one before it, short of the line it is due.           *)
Follow == \A k \in 2 .. NSinks : Subsequence(out[k], Reached(k))

IInv ==
  /\ TypeOK /\ Mutex /\ Calls /\ Config /\ Rendered /\ LinesWhole /\ TimeShown
  /\ Flushes /\ Ids /\ Handing /\ Follow

(* What a thread does.                                                      *)
Act(t) == Log(t) \/ SetName(t) \/ SetFormatOptions(t) \/ Flush(t) \/ Step(t)

-----------------------------------------------------------------------------
(* What the assumptions say of the constants.                               *)
LEMMA Constants ==
  /\ NSinks \in Nat \ {0} /\ MaxCalls \in Nat /\ None \notin Threads /\ Torn \notin Names
  /\ Secs \subseteq Nat /\ MsgLevels \subseteq 0 .. 6 /\ Levels \subseteq 0 .. 6
  /\ Sinks = 1 .. NSinks /\ off = 6 /\ info = 2
BY LoggerAssumption DEF Sinks, off, info

(* The fields of a call.                                                    *)
LEMMA CallFields ==
  ASSUME TypeOK, NEW t \in Threads
  PROVE  /\ call[t].op \in AllOperations \cup {"none"} /\ call[t].id \in 0 .. MaxCalls
         /\ call[t].lvl \in 0 .. off /\ call[t].now \in Shown
         /\ call[t].arg \in Names \cup Opts \cup {Blank}
         /\ pc[t] \in {"idle", "stamp", "lock", "header", "payload", "write", "gate", "flush",
                        "assign", "rebuild", "reformat", "unlock"}
         /\ at[t] \in 0 .. NSinks
BY DEF TypeOK

(* The other threads stand still while t takes a step.                      *)
LEMMA OthersStand ==
  ASSUME TypeOK, NEW t \in Threads, Act(t)
  PROVE  \A u \in Threads \ {t} : pc'[u] = pc[u] /\ call'[u] = call[u] /\ at'[u] = at[u]
<1>1. CASE Log(t)
  BY <1>1 DEF Log, Begin, Goto, TypeOK
<1>2. CASE SetName(t)
  BY <1>2 DEF SetName, Begin, Goto, TypeOK
<1>3. CASE SetFormatOptions(t)
  BY <1>3 DEF SetFormatOptions, Begin, Goto, TypeOK
<1>4. CASE Flush(t)
  BY <1>4 DEF Flush, Begin, Goto, TypeOK
<1>5. CASE Stamp(t)
  BY <1>5 DEF Stamp, Goto, TypeOK
<1>6. CASE Lock(t)
  BY <1>6 DEF Lock, Goto, FirstStep, TypeOK
<1>7. CASE Header(t)
  BY <1>7 DEF Header, Goto, TypeOK
<1>8. CASE Payload(t)
  BY <1>8 DEF Payload, Goto, TypeOK
<1>9. CASE PayloadThrows(t)
  BY <1>9 DEF PayloadThrows, Goto, TypeOK
<1>10. CASE WriteSink(t)
  BY <1>10 DEF WriteSink, Goto, TypeOK
<1>11. CASE SinkThrows(t)
  BY <1>11 DEF SinkThrows, Goto, TypeOK
<1>12. CASE FlushGate(t)
  BY <1>12 DEF FlushGate, Goto, TypeOK
<1>13. CASE FlushSink(t)
  BY <1>13 DEF FlushSink, Goto, TypeOK
<1>14. CASE FlushThrows(t)
  BY <1>14 DEF FlushThrows, Goto, TypeOK
<1>15. CASE AssignName(t)
  BY <1>15 DEF AssignName, Goto, TypeOK
<1>16. CASE RebuildHeader(t)
  BY <1>16 DEF RebuildHeader, Goto, TypeOK
<1>17. CASE Reformat(t)
  BY <1>17 DEF Reformat, Goto, TypeOK
<1>18. CASE Unlock(t)
  BY <1>18 DEF Unlock, Goto, TypeOK
<1>19. QED
  BY <1>1, <1>2, <1>3, <1>4, <1>5, <1>6, <1>7, <1>8, <1>9, <1>10,
     <1>11, <1>12, <1>13, <1>14, <1>15, <1>16, <1>17, <1>18 DEF Act, Step

(* Where a step leads that renders or writes no line.                       *)
LEMMA StepsOn ==
  ASSUME TypeOK, Calls, NEW t \in Threads, Act(t)
  PROVE  Header(t) \/ Payload(t) \/ WriteSink(t) \/ pc'[t] \notin {"payload", "write"}
<1>1. CASE Log(t)
  BY <1>1 DEF Log, Begin, Goto, TypeOK, Calls, CallOf
<1>2. CASE SetName(t)
  BY <1>2 DEF SetName, Begin, Goto, TypeOK, Calls, CallOf
<1>3. CASE SetFormatOptions(t)
  BY <1>3 DEF SetFormatOptions, Begin, Goto, TypeOK, Calls, CallOf
<1>4. CASE Flush(t)
  BY <1>4 DEF Flush, Begin, Goto, TypeOK, Calls, CallOf
<1>5. CASE Stamp(t)
  BY <1>5 DEF Stamp, Goto, TypeOK, Calls, CallOf
<1>6. CASE Lock(t)
  BY <1>6 DEF Lock, Goto, FirstStep, TypeOK, Calls, CallOf
<1>7. CASE Header(t)
  BY <1>7 DEF Header, Goto, TypeOK, Calls, CallOf
<1>8. CASE Payload(t)
  BY <1>8 DEF Payload, Goto, TypeOK, Calls, CallOf
<1>9. CASE PayloadThrows(t)
  BY <1>9 DEF PayloadThrows, Goto, TypeOK, Calls, CallOf
<1>10. CASE WriteSink(t)
  BY <1>10 DEF WriteSink, Goto, TypeOK, Calls, CallOf
<1>11. CASE SinkThrows(t)
  BY <1>11 DEF SinkThrows, Goto, TypeOK, Calls, CallOf
<1>12. CASE FlushGate(t)
  BY <1>12 DEF FlushGate, Goto, TypeOK, Calls, CallOf
<1>13. CASE FlushSink(t)
  BY <1>13 DEF FlushSink, Goto, TypeOK, Calls, CallOf
<1>14. CASE FlushThrows(t)
  BY <1>14 DEF FlushThrows, Goto, TypeOK, Calls, CallOf
<1>15. CASE AssignName(t)
  BY <1>15 DEF AssignName, Goto, TypeOK, Calls, CallOf
<1>16. CASE RebuildHeader(t)
  BY <1>16 DEF RebuildHeader, Goto, TypeOK, Calls, CallOf
<1>17. CASE Reformat(t)
  BY <1>17 DEF Reformat, Goto, TypeOK, Calls, CallOf
<1>18. CASE Unlock(t)
  BY <1>18 DEF Unlock, Goto, TypeOK, Calls, CallOf
<1>19. QED
  BY <1>1, <1>2, <1>3, <1>4, <1>5, <1>6, <1>7, <1>8, <1>9, <1>10,
     <1>11, <1>12, <1>13, <1>14, <1>15, <1>16, <1>17, <1>18 DEF Act, Step

(* The flushes begin with the first sink.                                   *)
LEMMA ToFlush ==
  ASSUME TypeOK, Calls, NEW t \in Threads, Act(t)
  PROVE  FlushSink(t) \/ (pc'[t] = "flush" => at'[t] = 1)
<1>1. CASE Log(t)
  BY <1>1 DEF Log, Begin, Goto, TypeOK, Calls, CallOf
<1>2. CASE SetName(t)
  BY <1>2 DEF SetName, Begin, Goto, TypeOK, Calls, CallOf
<1>3. CASE SetFormatOptions(t)
  BY <1>3 DEF SetFormatOptions, Begin, Goto, TypeOK, Calls, CallOf
<1>4. CASE Flush(t)
  BY <1>4 DEF Flush, Begin, Goto, TypeOK, Calls, CallOf
<1>5. CASE Stamp(t)
  BY <1>5 DEF Stamp, Goto, TypeOK, Calls, CallOf
<1>6. CASE Lock(t)
  BY <1>6 DEF Lock, Goto, FirstStep, TypeOK, Calls, CallOf
<1>7. CASE Header(t)
  BY <1>7 DEF Header, Goto, TypeOK, Calls, CallOf
<1>8. CASE Payload(t)
  BY <1>8 DEF Payload, Goto, TypeOK, Calls, CallOf
<1>9. CASE PayloadThrows(t)
  BY <1>9 DEF PayloadThrows, Goto, TypeOK, Calls, CallOf
<1>10. CASE WriteSink(t)
  BY <1>10 DEF WriteSink, Goto, TypeOK, Calls, CallOf
<1>11. CASE SinkThrows(t)
  BY <1>11 DEF SinkThrows, Goto, TypeOK, Calls, CallOf
<1>12. CASE FlushGate(t)
  BY <1>12 DEF FlushGate, Goto, TypeOK, Calls, CallOf
<1>13. CASE FlushSink(t)
  BY <1>13 DEF FlushSink, Goto, TypeOK, Calls, CallOf
<1>14. CASE FlushThrows(t)
  BY <1>14 DEF FlushThrows, Goto, TypeOK, Calls, CallOf
<1>15. CASE AssignName(t)
  BY <1>15 DEF AssignName, Goto, TypeOK, Calls, CallOf
<1>16. CASE RebuildHeader(t)
  BY <1>16 DEF RebuildHeader, Goto, TypeOK, Calls, CallOf
<1>17. CASE Reformat(t)
  BY <1>17 DEF Reformat, Goto, TypeOK, Calls, CallOf
<1>18. CASE Unlock(t)
  BY <1>18 DEF Unlock, Goto, TypeOK, Calls, CallOf
<1>19. QED
  BY <1>1, <1>2, <1>3, <1>4, <1>5, <1>6, <1>7, <1>8, <1>9, <1>10,
     <1>11, <1>12, <1>13, <1>14, <1>15, <1>16, <1>17, <1>18 DEF Act, Step

(* A log_msg that is sent is one a sink can take.                           *)
LEMMA LogMsgType ==
  ASSUME TypeOK, Calls, Mutex, Config, NEW t \in Threads, pc[t] = "write"
  PROVE  LogMsg(t) \in Message
<1>1. call[t].lvl \in MsgLevels
  BY DEF Calls, CallOf
<1>2. call[t].now \in Shown /\ call[t].id \in Nat
  BY CallFields
<1>3. header.name \in Names /\ header.opts \in Opts
  BY DEF TypeOK
<1>4. QED
  BY <1>1, <1>2, <1>3 DEF LogMsg, Message, TypeOK

Steps == {"idle", "stamp", "lock", "header", "payload", "write", "gate", "flush",
          "assign", "rebuild", "reformat", "unlock"}
CallSet == [op : AllOperations \cup {"none"}, id : 0 .. MaxCalls, lvl : 0 .. off, now : Shown,
            arg : Names \cup Opts \cup {Blank}]

TypeThreads ==
  pc \in [Threads -> Steps] /\ at \in [Threads -> 0 .. NSinks] /\ call \in [Threads -> CallSet]
TypeConf ==
  /\ level \in 0 .. off /\ flush_level \in 0 .. off
  /\ name \in Names \cup {Torn} /\ seen \in Names \cup {Torn}
  /\ header \in [name : Names, opts : Opts, shown : Shown, last_secs : Nat]
  /\ holder \in Threads \cup {None} /\ ncalls \in 0 .. MaxCalls
TypeLines ==
  /\ buf \in Seq(Piece) /\ out \in [Sinks -> Seq(Message)]
  /\ flushed \in [Sinks -> Nat] /\ owed \in [Sinks -> Nat]

(* TypeOK by parts: the threads, the configuration, the lines.              *)
LEMMA TypeParts == TypeOK <=> TypeThreads /\ TypeConf /\ TypeLines
BY DEF TypeOK, TypeThreads, TypeConf, TypeLines, Steps, CallSet

(* A call that begins is a call.                                            *)
LEMMA BeginTypes ==
  ASSUME TypeThreads, TypeConf, NEW t \in Threads,
         NEW op \in AllOperations, NEW lvl \in 0 .. off, NEW p \in Steps,
         NEW arg \in Names \cup Opts \cup {Blank}, Begin(t, op, lvl, arg, p)
  PROVE  TypeThreads' /\ ncalls' \in 0 .. MaxCalls
<1>1. ncalls' \in 0 .. MaxCalls /\ ncalls' = ncalls + 1
  BY Constants DEF Begin, TypeConf
<1> DEFINE c == [op |-> op, id |-> ncalls + 1, lvl |-> lvl, now |-> Blank, arg |-> arg]
<1>2. c \in CallSet
  BY <1>1 DEF CallSet, Shown
<1>3. call' = [call EXCEPT ![t] = c]
  BY DEF Begin
<1> HIDE DEF c
<1>4. QED
  BY <1>1, <1>2, <1>3 DEF TypeThreads, Begin, Goto

(* Steps keep the types of what belongs to the threads.                     *)
LEMMA ThreadTypesKept ==
  ASSUME TypeThreads, TypeConf, Calls, NEW t \in Threads, Act(t)
  PROVE  TypeThreads'
<1>1. CASE Log(t)
  <2>1. PICK lvl \in MsgLevels : Begin(t, "log", lvl, Blank, "stamp")
    BY <1>1 DEF Log
  <2>2. QED
    BY <2>1, BeginTypes, Constants DEF AllOperations, Steps
<1>2. CASE SetName(t)
  <2>1. PICK n \in Names : Begin(t, "set_name", off, n, "lock")
    BY <1>2 DEF SetName
  <2>2. QED
    BY <2>1, BeginTypes, Constants DEF AllOperations, Steps
<1>3. CASE SetFormatOptions(t)
  <2>1. PICK o \in Opts : Begin(t, "set_format_options", off, o, "lock")
    BY <1>3 DEF SetFormatOptions
  <2>2. QED
    BY <2>1, BeginTypes, Constants DEF AllOperations, Steps
<1>4. CASE Flush(t)
  BY <1>4, BeginTypes, Constants DEF Flush, AllOperations, Steps
<1>5. CASE Stamp(t)
  <2>1. PICK now \in Secs : call' = [call EXCEPT ![t].now = now]
    BY <1>5 DEF Stamp
  <2>2. [call[t] EXCEPT !.now = now] \in CallSet
    BY DEF TypeThreads, CallSet, Shown
  <2>3. call' \in [Threads -> CallSet]
    BY <2>1, <2>2 DEF TypeThreads
  <2>4. QED
    BY <1>5, <2>3 DEF Stamp, Goto, TypeThreads, Steps
<1>6. CASE Lock(t)
  <2>1. FirstStep(call[t].op) \in Steps /\ pc[t] = "lock"
    BY <1>6 DEF Lock, Calls, CallOf, FirstStep, Steps
  <2>2. QED
    BY <1>6, <2>1, Constants DEF Lock, Goto, TypeThreads
<1>7. CASE Header(t)
  BY <1>7, Constants DEF Header, Goto, TypeThreads, Steps
<1>8. CASE Payload(t)
  BY <1>8, Constants DEF Payload, Goto, TypeThreads, Steps
<1>9. CASE PayloadThrows(t)
  BY <1>9, Constants DEF PayloadThrows, Goto, TypeThreads, Steps
<1>10. CASE WriteSink(t)
  BY <1>10, Constants DEF WriteSink, Goto, TypeThreads, Steps
<1>11. CASE SinkThrows(t)
  BY <1>11, Constants DEF SinkThrows, Goto, TypeThreads, Steps
<1>12. CASE FlushGate(t)
  BY <1>12, Constants DEF threadVars, FlushGate, Goto, TypeThreads, Steps
<1>13. CASE FlushSink(t)
  BY <1>13, Constants DEF FlushSink, Goto, TypeThreads, Steps
<1>14. CASE FlushThrows(t)
  BY <1>14, Constants DEF FlushThrows, Goto, TypeThreads, Steps
<1>15. CASE AssignName(t)
  BY <1>15, Constants DEF AssignName, Goto, TypeThreads, Steps
<1>16. CASE RebuildHeader(t)
  BY <1>16, Constants DEF RebuildHeader, Goto, TypeThreads, Steps
<1>17. CASE Reformat(t)
  BY <1>17, Constants DEF Reformat, Goto, TypeThreads, Steps
<1>18. CASE Unlock(t)
  <2>1. NoCall \in CallSet
    BY Constants DEF NoCall, CallSet, Shown
  <2>2. QED
    BY <1>18, <2>1, Constants DEF Unlock, Goto, TypeThreads, Steps
<1>19. QED
  BY <1>1, <1>2, <1>3, <1>4, <1>5, <1>6, <1>7, <1>8, <1>9, <1>10,
     <1>11, <1>12, <1>13, <1>14, <1>15, <1>16, <1>17, <1>18 DEF Act, Step

(* Steps keep the types of the configuration.                               *)
LEMMA ConfTypesKept ==
  ASSUME TypeThreads, TypeConf, Calls, Mutex, Config, NEW t \in Threads, Act(t)
  PROVE  TypeConf'
<1>1. CASE Log(t)
  <2>1. PICK lvl \in MsgLevels : Begin(t, "log", lvl, Blank, "stamp")
    BY <1>1 DEF Log
  <2>2. ncalls' \in 0 .. MaxCalls
    BY <2>1, BeginTypes, Constants DEF AllOperations, Steps
  <2>3. QED
    BY <2>1, <2>2 DEF Begin, TypeConf, confVars
<1>2. CASE SetName(t)
  <2>1. PICK n \in Names : Begin(t, "set_name", off, n, "lock")
    BY <1>2 DEF SetName
  <2>2. ncalls' \in 0 .. MaxCalls
    BY <2>1, BeginTypes, Constants DEF AllOperations, Steps
  <2>3. QED
    BY <2>1, <2>2 DEF Begin, TypeConf, confVars
<1>3. CASE SetFormatOptions(t)
  <2>1. PICK o \in Opts : Begin(t, "set_format_options", off, o, "lock")
    BY <1>3 DEF SetFormatOptions
  <2>2. ncalls' \in 0 .. MaxCalls
    BY <2>1, BeginTypes, Constants DEF AllOperations, Steps
  <2>3. QED
    BY <2>1, <2>2 DEF Begin, TypeConf, confVars
<1>4. CASE Flush(t)
  <2>1. Begin(t, "flush", off, Blank, "lock")
    BY <1>4 DEF Flush
  <2>2. ncalls' \in 0 .. MaxCalls
    BY <2>1, BeginTypes, Constants DEF AllOperations, Steps
  <2>3. QED
    BY <2>1, <2>2 DEF Begin, TypeConf, confVars
<1>5. CASE Stamp(t)
  BY <1>5, Constants DEF Stamp, Goto, TypeConf, confVars
<1>6. CASE Lock(t)
  BY <1>6, Constants DEF Lock, Goto, FirstStep, TypeConf, confVars
<1>7. CASE Header(t)
  <2>1. call[t].now \in Secs
    BY <1>7 DEF Header, Calls, CallOf
  <2>2. header' \in [name : Names, opts : Opts, shown : Shown, last_secs : Nat]
    BY <1>7, <2>1, Constants DEF Header, Stamped, TypeConf, Shown
  <2>3. QED
    BY <1>7, <2>2 DEF Header, TypeConf
<1>8. CASE Payload(t)
  BY <1>8, Constants DEF Payload, Goto, TypeConf, confVars
<1>9. CASE PayloadThrows(t)
  BY <1>9, Constants DEF PayloadThrows, Goto, TypeConf, confVars
<1>10. CASE WriteSink(t)
  BY <1>10, Constants DEF WriteSink, Goto, TypeConf, confVars
<1>11. CASE SinkThrows(t)
  BY <1>11, Constants DEF SinkThrows, Goto, TypeConf, confVars
<1>12. CASE FlushGate(t)
  BY <1>12, Constants DEF FlushGate, Goto, TypeConf, confVars
<1>13. CASE FlushSink(t)
  BY <1>13, Constants DEF FlushSink, Goto, TypeConf, confVars
<1>14. CASE FlushThrows(t)
  BY <1>14, Constants DEF FlushThrows, Goto, TypeConf, confVars
<1>15. CASE AssignName(t)
  BY <1>15, Constants DEF AssignName, Goto, TypeConf, confVars
<1>16. CASE RebuildHeader(t)
  <2>1. call[t].arg \in Names
    BY <1>16 DEF RebuildHeader, Calls, CallOf
  <2>2. header' \in [name : Names, opts : Opts, shown : Shown, last_secs : Nat]
    BY <1>16, <2>1 DEF RebuildHeader, Rebuilt, TypeConf, Shown
  <2>3. QED
    BY <1>16, <2>1, <2>2 DEF RebuildHeader, TypeConf
<1>17. CASE Reformat(t)
  <2>1. call[t].arg \in Opts /\ name \in Names
    <3>1. holder = t /\ call[t].arg \in Opts
      BY <1>17 DEF Reformat, Calls, CallOf, Mutex, Locked
    <3>2. \A u \in Threads : pc[u] # "rebuild"
      BY <1>17, <3>1 DEF Reformat, Mutex, Locked
    <3>3. QED
      BY <3>1, <3>2 DEF Config, TypeConf
  <2>2. header' \in [name : Names, opts : Opts, shown : Shown, last_secs : Nat]
    BY <1>17, <2>1 DEF Reformat, Rebuilt, TypeConf, Shown
  <2>3. QED
    BY <1>17, <2>2 DEF Reformat, TypeConf
<1>18. CASE Unlock(t)
  BY <1>18, Constants DEF Unlock, Goto, TypeConf, confVars
<1>19. QED
  BY <1>1, <1>2, <1>3, <1>4, <1>5, <1>6, <1>7, <1>8, <1>9, <1>10,
     <1>11, <1>12, <1>13, <1>14, <1>15, <1>16, <1>17, <1>18 DEF Act, Step

(* Steps keep the types of buffer, lines and counts.                        *)
LEMMA LineTypesKept ==
  ASSUME TypeThreads, TypeConf, TypeLines, Calls, Mutex, Config, NEW t \in Threads, Act(t)
  PROVE  TypeLines'
<1>1. CASE Log(t)
  BY <1>1 DEF Log, Begin, Goto, TypeLines, sinkVars
<1>2. CASE SetName(t)
  BY <1>2 DEF SetName, Begin, Goto, TypeLines, sinkVars
<1>3. CASE SetFormatOptions(t)
  BY <1>3 DEF SetFormatOptions, Begin, Goto, TypeLines, sinkVars
<1>4. CASE Flush(t)
  BY <1>4 DEF Flush, Begin, Goto, TypeLines, sinkVars
<1>5. CASE Stamp(t)
  BY <1>5 DEF Stamp, Goto, TypeLines, sinkVars
<1>6. CASE Lock(t)
  BY <1>6 DEF Lock, Goto, FirstStep, TypeLines, sinkVars
<1>7. CASE Header(t)
  <2>1. call[t].lvl \in MsgLevels /\ header' \in [name : Names, opts : Opts, shown : Shown, last_secs : Nat]
    BY <1>7, ConfTypesKept DEF Header, Calls, CallOf, TypeConf
  <2>2. HeaderPiece(header', call[t].lvl) \in Piece
    BY <2>1 DEF HeaderPiece, Piece
  <2>3. QED
    BY <1>7, <2>2 DEF Header, TypeLines, sinkVars
<1>8. CASE Payload(t)
  <2>1. PayloadPiece(call[t].id) \in Piece
    BY DEF PayloadPiece, Piece, TypeThreads, CallSet
  <2>2. QED
    BY <1>8, <2>1 DEF Payload, TypeLines, sinkVars
<1>9. CASE PayloadThrows(t)
  <2>1. PayloadPiece(call[t].id) \in Piece
    BY DEF PayloadPiece, Piece, TypeThreads, CallSet
  <2>2. Append(buf, PayloadPiece(call[t].id)) \in Seq(Piece)
    BY <2>1 DEF TypeLines
  <2>3. buf' \in Seq(Piece) /\ UNCHANGED sinkVars
    BY <1>9, <2>2 DEF PayloadThrows, TypeLines
  <2>4. QED
    BY <2>3 DEF TypeLines, sinkVars
<1>10. CASE WriteSink(t)
  <2>1. LogMsg(t) \in Message /\ at[t] \in Sinks
    BY <1>10, LogMsgType, TypeParts DEF WriteSink, Calls, CallOf, Locked
  <2>2. Append(out[at[t]], LogMsg(t)) \in Seq(Message)
    BY <2>1 DEF TypeLines
  <2>3. QED
    BY <1>10, <2>1, <2>2 DEF WriteSink, TypeLines
<1>11. CASE SinkThrows(t)
  BY <1>11 DEF SinkThrows, Goto, TypeLines, sinkVars
<1>12. CASE FlushGate(t)
  BY <1>12 DEF FlushGate, Goto, TypeLines, sinkVars
<1>13. CASE FlushSink(t)
  <2>1. \A k \in Sinks : Len(out[k]) \in Nat
    BY LenProperties DEF TypeLines
  <2>2. flushed' \in [Sinks -> Nat] /\ owed' \in [Sinks -> Nat]
    BY <1>13, <2>1 DEF FlushSink, TypeLines
  <2>3. QED
    BY <1>13, <2>2 DEF FlushSink, TypeLines
<1>14. CASE FlushThrows(t)
  BY <1>14 DEF FlushThrows, Goto, TypeLines, sinkVars
<1>15. CASE AssignName(t)
  BY <1>15 DEF AssignName, Goto, TypeLines, sinkVars
<1>16. CASE RebuildHeader(t)
  BY <1>16 DEF RebuildHeader, Goto, TypeLines, sinkVars
<1>17. CASE Reformat(t)
  BY <1>17 DEF Reformat, Goto, TypeLines, sinkVars
<1>18. CASE Unlock(t)
  BY <1>18 DEF Unlock, Goto, TypeLines, sinkVars
<1>19. QED
  BY <1>1, <1>2, <1>3, <1>4, <1>5, <1>6, <1>7, <1>8, <1>9, <1>10,
     <1>11, <1>12, <1>13, <1>14, <1>15, <1>16, <1>17, <1>18 DEF Act, Step

(* Steps keep all types.                                                    *)
LEMMA TypeKept ==
  ASSUME TypeOK, Calls, Mutex, Config, NEW t \in Threads, Act(t)
  PROVE  TypeOK'
<1>1. TypeThreads' /\ TypeConf' /\ TypeLines'
  BY TypeParts, ThreadTypesKept, ConfTypesKept, LineTypesKept
<1>2. QED
  BY <1>1 DEF TypeOK, TypeThreads, TypeConf, TypeLines, Steps, CallSet

(* One thread at most is at a step under the mutex: the holder.             *)
LEMMA MutexKept ==
  ASSUME TypeOK, Calls, Mutex, NEW t \in Threads, Act(t)
  PROVE  Mutex'
<1>1. CASE Log(t)
  BY <1>1, Constants DEF Log, Begin, Goto, TypeOK, Mutex, Locked
<1>2. CASE SetName(t)
  BY <1>2, Constants DEF SetName, Begin, Goto, TypeOK, Mutex, Locked
<1>3. CASE SetFormatOptions(t)
  BY <1>3, Constants DEF SetFormatOptions, Begin, Goto, TypeOK, Mutex, Locked
<1>4. CASE Flush(t)
  BY <1>4, Constants DEF Flush, Begin, Goto, TypeOK, Mutex, Locked
<1>5. CASE Stamp(t)
  BY <1>5, Constants DEF Stamp, Goto, TypeOK, Mutex, Locked
<1>6. CASE Lock(t)
  <2>1. FirstStep(call[t].op) \in Locked /\ pc[t] = "lock" /\ holder = None /\ holder' = t
    BY <1>6 DEF Lock, Calls, CallOf, FirstStep, Locked
  <2>2. pc' = [pc EXCEPT ![t] = FirstStep(call[t].op)]
    BY <1>6 DEF Lock, Goto
  <2>3. QED
    BY <2>1, <2>2, Constants DEF TypeOK, Mutex
<1>7. CASE Header(t)
  BY <1>7, Constants DEF Header, Goto, TypeOK, Mutex, Locked
<1>8. CASE Payload(t)
  BY <1>8, Constants DEF Payload, Goto, TypeOK, Mutex, Locked
<1>9. CASE PayloadThrows(t)
  BY <1>9, Constants DEF PayloadThrows, Goto, TypeOK, Mutex, Locked
<1>10. CASE WriteSink(t)
  BY <1>10, Constants DEF WriteSink, Goto, TypeOK, Mutex, Locked
<1>11. CASE SinkThrows(t)
  BY <1>11, Constants DEF SinkThrows, Goto, TypeOK, Mutex, Locked
<1>12. CASE FlushGate(t)
  BY <1>12, Constants DEF FlushGate, Goto, TypeOK, Mutex, Locked
<1>13. CASE FlushSink(t)
  BY <1>13, Constants DEF FlushSink, Goto, TypeOK, Mutex, Locked
<1>14. CASE FlushThrows(t)
  BY <1>14, Constants DEF FlushThrows, Goto, TypeOK, Mutex, Locked
<1>15. CASE AssignName(t)
  BY <1>15, Constants DEF AssignName, Goto, TypeOK, Mutex, Locked
<1>16. CASE RebuildHeader(t)
  BY <1>16, Constants DEF RebuildHeader, Goto, TypeOK, Mutex, Locked
<1>17. CASE Reformat(t)
  BY <1>17, Constants DEF Reformat, Goto, TypeOK, Mutex, Locked
<1>18. CASE Unlock(t)
  BY <1>18, Constants DEF Unlock, Goto, TypeOK, Mutex, Locked
<1>19. QED
  BY <1>1, <1>2, <1>3, <1>4, <1>5, <1>6, <1>7, <1>8, <1>9, <1>10,
     <1>11, <1>12, <1>13, <1>14, <1>15, <1>16, <1>17, <1>18 DEF Act, Step

(* Every step of a call is one of its operation.                            *)
LEMMA CallsKept ==
  ASSUME TypeOK, Calls, Mutex, NEW t \in Threads, Act(t)
  PROVE  Calls'
<1>1. CASE Log(t)
  BY <1>1, Constants DEF Log, Begin, Goto, TypeOK, Calls, CallOf, Locked
<1>2. CASE SetName(t)
  BY <1>2, Constants DEF SetName, Begin, Goto, TypeOK, Calls, CallOf, Locked
<1>3. CASE SetFormatOptions(t)
  BY <1>3, Constants DEF SetFormatOptions, Begin, Goto, TypeOK, Calls, CallOf, Locked
<1>4. CASE Flush(t)
  BY <1>4, Constants DEF Flush, Begin, Goto, TypeOK, Calls, CallOf, Locked
<1>5. CASE Stamp(t)
  BY <1>5, Constants DEF Stamp, Goto, TypeOK, Calls, CallOf, Locked
<1>6. CASE Lock(t)
  BY <1>6, Constants DEF Lock, Goto, FirstStep, TypeOK, Calls, CallOf, Locked
<1>7. CASE Header(t)
  BY <1>7, Constants DEF Header, Goto, TypeOK, Calls, CallOf, Locked
<1>8. CASE Payload(t)
  BY <1>8, Constants DEF Payload, Goto, TypeOK, Calls, CallOf, Locked
<1>9. CASE PayloadThrows(t)
  BY <1>9, Constants DEF PayloadThrows, Goto, TypeOK, Calls, CallOf, Locked
<1>10. CASE WriteSink(t)
  <2>1. at[t] \in Sinks /\ call' = call /\ pc[t] = "write" /\ call[t].op = "log"
    BY <1>10 DEF WriteSink, Calls, CallOf, Locked
  <2>2. CASE at[t] < NSinks
    <3>1. at'[t] \in Sinks /\ pc' = pc
      <4>1. pc' = pc /\ at' = [at EXCEPT ![t] = @ + 1]
        BY <1>10, <2>2 DEF WriteSink
      <4>2. at'[t] = at[t] + 1
        BY <4>1 DEF TypeOK
      <4>3. QED
        BY <2>1, <2>2, <4>1, <4>2, Constants
    <3>2. CallOf(pc'[t], call'[t], at'[t])
      BY <2>1, <3>1 DEF Calls, CallOf
    <3>3. QED
      BY <3>2, OthersStand DEF Calls
  <2>3. CASE ~(at[t] < NSinks)
    <3>1. at'[t] = 1 /\ 1 \in Sinks /\ pc'[t] = "gate"
      BY <1>10, <2>1, <2>3, Constants DEF WriteSink, Goto, TypeOK
    <3>2. QED
      BY <2>1, <3>1, OthersStand DEF Calls, CallOf, Locked
  <2>4. QED
    BY <2>2, <2>3
<1>11. CASE SinkThrows(t)
  BY <1>11, Constants DEF SinkThrows, Goto, TypeOK, Calls, CallOf, Locked
<1>12. CASE FlushGate(t)
  BY <1>12, Constants DEF FlushGate, Goto, TypeOK, Calls, CallOf, Locked
<1>13. CASE FlushSink(t)
  <2>1. at[t] \in Sinks /\ call' = call /\ pc[t] = "flush"
    BY <1>13 DEF FlushSink, Calls, CallOf, Locked
  <2>2. CASE at[t] < NSinks
    <3>1. at'[t] \in Sinks /\ pc' = pc
      <4>1. pc' = pc /\ at' = [at EXCEPT ![t] = @ + 1]
        BY <1>13, <2>2 DEF FlushSink
      <4>2. at'[t] = at[t] + 1
        BY <4>1 DEF TypeOK
      <4>3. QED
        BY <2>1, <2>2, <4>1, <4>2, Constants
    <3>2. CallOf(pc'[t], call'[t], at'[t])
      BY <2>1, <3>1 DEF Calls, CallOf
    <3>3. QED
      BY <3>2, OthersStand DEF Calls
  <2>3. CASE ~(at[t] < NSinks)
    <3>1. at' = at /\ pc'[t] = "unlock"
      BY <1>13, <2>1, <2>3 DEF FlushSink, Goto, TypeOK
    <3>2. QED
      BY <2>1, <3>1, OthersStand DEF Calls, CallOf, Locked
  <2>4. QED
    BY <2>2, <2>3
<1>14. CASE FlushThrows(t)
  BY <1>14, Constants DEF FlushThrows, Goto, TypeOK, Calls, CallOf, Locked
<1>15. CASE AssignName(t)
  BY <1>15, Constants DEF AssignName, Goto, TypeOK, Calls, CallOf, Locked
<1>16. CASE RebuildHeader(t)
  BY <1>16, Constants DEF RebuildHeader, Goto, TypeOK, Calls, CallOf, Locked
<1>17. CASE Reformat(t)
  BY <1>17, Constants DEF Reformat, Goto, TypeOK, Calls, CallOf, Locked
<1>18. CASE Unlock(t)
  <2>1. pc'[t] = "idle" /\ call'[t] = NoCall /\ NoCall.op = "none"
    BY <1>18 DEF Unlock, Goto, TypeOK, NoCall
  <2>2. QED
    BY <2>1, OthersStand DEF Calls, CallOf, Locked
<1>19. QED
  BY <1>1, <1>2, <1>3, <1>4, <1>5, <1>6, <1>7, <1>8, <1>9, <1>10,
     <1>11, <1>12, <1>13, <1>14, <1>15, <1>16, <1>17, <1>18 DEF Act, Step

-----------------------------------------------------------------------------
(* While t has the mutex, no other thread is at a step that needs it.       *)
LEMMA Sole ==
  ASSUME Mutex, NEW t \in Threads, pc[t] \in Locked
  PROVE  \A u \in Threads \ {t} : pc[u] \notin Locked
BY DEF Mutex

(* Which steps change what the threads share: only those with the mutex.    *)
LEMMA SharedSteps ==
  ASSUME NEW t \in Threads, Act(t)
  PROVE  /\ \/ UNCHANGED <<name, header, buf>>
            \/ Header(t) \/ Payload(t) \/ PayloadThrows(t)
            \/ AssignName(t) \/ RebuildHeader(t) \/ Reformat(t)
         /\ UNCHANGED out \/ WriteSink(t)
         /\ UNCHANGED <<flushed, owed>> \/ FlushSink(t)
<1>1. CASE Log(t)
  BY <1>1 DEF Log, Begin, Goto, confVars, sinkVars
<1>2. CASE SetName(t)
  BY <1>2 DEF SetName, Begin, Goto, confVars, sinkVars
<1>3. CASE SetFormatOptions(t)
  BY <1>3 DEF SetFormatOptions, Begin, Goto, confVars, sinkVars
<1>4. CASE Flush(t)
  BY <1>4 DEF Flush, Begin, Goto, confVars, sinkVars
<1>5. CASE Stamp(t)
  BY <1>5 DEF Stamp, Goto, confVars, sinkVars
<1>6. CASE Lock(t)
  BY <1>6 DEF Lock, Goto, FirstStep, confVars, sinkVars
<1>7. CASE Header(t)
  BY <1>7 DEF Header, Goto, confVars, sinkVars
<1>8. CASE Payload(t)
  BY <1>8 DEF Payload, Goto, confVars, sinkVars
<1>9. CASE PayloadThrows(t)
  BY <1>9 DEF PayloadThrows, Goto, confVars, sinkVars
<1>10. CASE WriteSink(t)
  BY <1>10 DEF WriteSink, Goto, confVars, sinkVars
<1>11. CASE SinkThrows(t)
  BY <1>11 DEF SinkThrows, Goto, confVars, sinkVars
<1>12. CASE FlushGate(t)
  BY <1>12 DEF FlushGate, confVars, sinkVars
<1>13. CASE FlushSink(t)
  BY <1>13 DEF FlushSink, Goto, confVars, sinkVars
<1>14. CASE FlushThrows(t)
  BY <1>14 DEF FlushThrows, Goto, confVars, sinkVars
<1>15. CASE AssignName(t)
  BY <1>15 DEF AssignName, Goto, confVars, sinkVars
<1>16. CASE RebuildHeader(t)
  BY <1>16 DEF RebuildHeader, Goto, confVars, sinkVars
<1>17. CASE Reformat(t)
  BY <1>17 DEF Reformat, Goto, confVars, sinkVars
<1>18. CASE Unlock(t)
  BY <1>18 DEF Unlock, Goto, confVars, sinkVars
<1>19. QED
  BY <1>1, <1>2, <1>3, <1>4, <1>5, <1>6, <1>7, <1>8, <1>9, <1>10,
     <1>11, <1>12, <1>13, <1>14, <1>15, <1>16, <1>17, <1>18 DEF Act, Step

(* A rebuilt header takes the name over, and a stamp its second.            *)
LEMMA ConfigKept ==
  ASSUME TypeOK, Calls, Mutex, Config, NEW t \in Threads, Act(t)
  PROVE  Config'
<1> DEFINE Standing == \A u \in Threads : pc[u] # "rebuild"
<1>1. CASE Header(t)
  <2>1. pc[t] = "header" /\ name' = name /\ header' = Stamped(header, call[t].now)
    BY <1>1 DEF Header
  <2>2. header'.name = header.name /\ (header'.last_secs # 0 => header'.shown = header'.last_secs)
    BY <2>1 DEF Stamped, TypeOK, Config
  <2>3. Standing' => Standing
    BY <2>1, OthersStand
  <2>4. QED
    BY <2>1, <2>2, <2>3 DEF Config
<1>2. CASE AssignName(t)
  <2>1. pc'[t] = "rebuild" /\ header' = header
    BY <1>2 DEF AssignName, Goto, TypeOK
  <2>2. QED
    BY <2>1 DEF Config
<1>3. CASE RebuildHeader(t)
  BY <1>3 DEF RebuildHeader, Rebuilt, Config
<1>4. CASE Reformat(t)
  BY <1>4 DEF Reformat, Rebuilt, Config
<1>5. CASE UNCHANGED <<name, header>> /\ ~RebuildHeader(t)
  <2>1. Standing' => Standing
    <3>1. pc[t] # "rebuild"
      BY <1>5 DEF Act, Step, Log, SetName, SetFormatOptions, Flush, Begin, Stamp, Lock,
         Header, Payload, PayloadThrows, WriteSink, SinkThrows, FlushGate, FlushSink, FlushThrows,
         AssignName, Reformat, Unlock
    <3>2. QED
      BY <3>1, OthersStand
  <2>2. QED
    BY <1>5, <2>1 DEF Config
<1>6. QED
  BY <1>1, <1>2, <1>3, <1>4, <1>5, SharedSteps DEF Payload, PayloadThrows, confVars

(* Header and payload make a line of two pieces.                            *)
LEMMA TwoPieces == ASSUME NEW a, NEW b PROVE Append(<<a>>, b) = <<a, b>>
<1>1. <<a>> \in Seq({a, b}) /\ <<a, b>> \in Seq({a, b})
  OBVIOUS
<1>2. Len(<<a>>) = 1 /\ <<a>>[1] = a
  OBVIOUS
<1>3. Len(<<a, b>>) = 2 /\ <<a, b>>[1] = a /\ <<a, b>>[2] = b
  OBVIOUS
<1> DEFINE s == <<a>>
           r == <<a, b>>
<1>4. s \in Seq({a, b}) /\ r \in Seq({a, b}) /\ Len(s) = 1 /\ s[1] = a /\ Len(r) = 2 /\ r[1] = a /\ r[2] = b
  BY <1>1, <1>2, <1>3
<1> HIDE DEF s, r
<1>0. b \in {a, b} /\ 1 \in 1 .. Len(s) /\ Len(s) + 1 = 2
  BY <1>4
<1>5. Append(s, b) \in Seq({a, b}) /\ Len(Append(s, b)) = 2 /\ Append(s, b)[1] = a /\ Append(s, b)[2] = b
  <2> DEFINE r2 == Append(s, b)
             S == {a, b}
  <2>1. s \in Seq(S) /\ b \in S
    BY <1>0, <1>4
  <2> HIDE DEF S
  <2>2. /\ r2 \in Seq(S) /\ Len(r2) = Len(s) + 1
        /\ \A i \in 1 .. Len(s) : r2[i] = s[i]
        /\ r2[Len(s) + 1] = b
    BY <2>1, AppendProperties
  <2> HIDE DEF r2
  <2>3. Len(r2) = 2 /\ r2[2] = b
    BY <1>0, <2>2
  <2>4. r2[1] = s[1]
    BY <1>0, <2>2
  <2>5. QED
    BY <1>4, <2>2, <2>3, <2>4 DEF r2, S
<1>6. Append(s, b) = r
  BY <1>4, <1>5, SeqEqual
<1>7. QED
  BY <1>6 DEF s, r

(* What t sends is the line of its call.                                    *)
LEMMA RenderedKept ==
  ASSUME TypeOK, Calls, Mutex, Config, Rendered, NEW t \in Threads, Act(t)
  PROVE  Rendered'
<1> DEFINE R(u) ==
      /\ pc[u] \in {"payload", "write"} => (call[u].now # 0 => header.shown = call[u].now)
      /\ pc[u] = "payload" => buf = <<HeaderPiece(header, call[u].lvl)>>
      /\ pc[u] = "write" => buf = <<HeaderPiece(header, call[u].lvl), PayloadPiece(call[u].id)>>
<1>1. ASSUME NEW u \in Threads \ {t} PROVE R(u)'
  <2>1. pc'[u] = pc[u] /\ call'[u] = call[u] /\ R(u)
    BY OthersStand DEF Rendered
  <2>2. CASE UNCHANGED <<name, header, buf>>
    BY <2>1, <2>2 DEF HeaderPiece, PayloadPiece
  <2>3. CASE pc[t] \in Locked
    BY <2>1, <2>3, Sole DEF Locked
  <2>4. QED
    BY <2>2, <2>3, SharedSteps
       DEF Header, Payload, PayloadThrows, AssignName, RebuildHeader, Reformat, Locked
<1>2. R(t)'
  <2>1. CASE Header(t)
    <3>1. header' = Stamped(header, call[t].now) /\ call' = call
          /\ buf' = <<HeaderPiece(header', call[t].lvl)>>
      BY <2>1 DEF Header
    <3>4. pc'[t] = "payload"
      BY <2>1 DEF Header, Goto, TypeOK
    <3>2. call[t].now # 0 => header'.shown = call[t].now
      BY <3>1 DEF Stamped, TypeOK, Config
    <3>3. QED
      BY <3>1, <3>2, <3>4
  <2>2. CASE Payload(t)
    <3>1. header' = header /\ call' = call /\ pc[t] = "payload"
          /\ buf' = Append(buf, PayloadPiece(call[t].id))
      BY <2>2 DEF Payload, confVars
    <3>5. pc'[t] = "write"
      BY <2>2 DEF Payload, Goto, TypeOK
    <3>2. R(t)
      BY DEF Rendered
    <3>3. buf' = <<HeaderPiece(header, call[t].lvl), PayloadPiece(call[t].id)>>
      <4>1. buf = <<HeaderPiece(header, call[t].lvl)>>
        BY <3>1, <3>2
      <4>2. QED
        BY <3>1, <4>1, TwoPieces
    <3>4. QED
      BY <3>1, <3>2, <3>3, <3>5
  <2>3. CASE WriteSink(t)
    <3>1. UNCHANGED <<header, buf, call>> /\ pc[t] = "write" /\ pc'[t] \in {"write", "gate"}
      BY <2>3 DEF WriteSink, Goto, TypeOK, confVars
    <3>2. R(t)
      BY DEF Rendered
    <3>3. QED
      BY <3>1, <3>2
  <2>4. CASE pc'[t] \notin {"payload", "write"}
    BY <2>4
  <2>5. QED
    BY <2>1, <2>2, <2>3, <2>4, StepsOn
<1>3. QED
  BY <1>1, <1>2 DEF Rendered

(* A line is whole when it is sent.                                         *)
LEMMA SentWhole ==
  ASSUME TypeOK, Calls, Mutex, Config, Rendered, NEW t \in Threads, pc[t] = "write"
  PROVE  /\ Whole(LogMsg(t))
         /\ LogMsg(t).time # 0 => LogMsg(t).formatted[1].shown = LogMsg(t).time
         /\ Strip(LogMsg(t)) = [id |-> call[t].id, by |-> t, lvl |-> call[t].lvl,
                                name |-> header.name, opts |-> header.opts]
<1>1. buf = <<HeaderPiece(header, call[t].lvl), PayloadPiece(call[t].id)>>
      /\ (call[t].now # 0 => header.shown = call[t].now)
  BY DEF Rendered
<1>2. name = header.name
  BY Sole DEF Locked, Config
<1>3. /\ LogMsg(t).formatted = buf /\ LogMsg(t).logger_name = name
      /\ LogMsg(t).log_level = call[t].lvl /\ LogMsg(t).time = call[t].now
      /\ LogMsg(t).level_offset = <<header.name, header.opts>>
      /\ LogMsg(t).by = t /\ LogMsg(t).id = call[t].id
  BY DEF LogMsg
<1>4. /\ Len(buf) = 2 /\ buf[2] = PayloadPiece(call[t].id)
      /\ buf[1].lvl = call[t].lvl /\ buf[1].name = header.name /\ buf[1].opts = header.opts
      /\ buf[1].shown = header.shown
  BY <1>1 DEF HeaderPiece
<1>5. QED
  BY <1>1, <1>2, <1>3, <1>4 DEF Whole, Strip

(* What a sink has after a write: what it had, and the line of the call.    *)
LEMMA SinkAfterWrite ==
  ASSUME TypeOK, Calls, NEW t \in Threads, WriteSink(t), LogMsg(t) \in Message
  PROVE  /\ at[t] \in Sinks /\ pc[t] = "write" /\ call' = call
         /\ UNCHANGED <<name, header, buf, flushed, owed, ncalls>>
         /\ \A k \in Sinks : out'[k] = IF k = at[t] THEN Append(out[k], LogMsg(t)) ELSE out[k]
         /\ Len(out'[at[t]]) = Len(out[at[t]]) + 1
         /\ \A i \in 1 .. Len(out[at[t]]) : out'[at[t]][i] = out[at[t]][i]
         /\ out'[at[t]][Len(out[at[t]]) + 1] = LogMsg(t)
<1>1. at[t] \in Sinks /\ pc[t] = "write"
  BY DEF WriteSink, Calls, CallOf, Locked
<1>2. UNCHANGED <<name, header, buf, flushed, owed, ncalls, call>>
  BY DEF WriteSink, confVars
<1>3. \A k \in Sinks : out'[k] = IF k = at[t] THEN Append(out[k], LogMsg(t)) ELSE out[k]
  BY <1>1 DEF WriteSink, TypeOK
<1>4. out[at[t]] \in Seq(Message)
  BY <1>1 DEF TypeOK
<1>5. out'[at[t]] = Append(out[at[t]], LogMsg(t))
  BY <1>1, <1>3
<1>6. /\ Len(out'[at[t]]) = Len(out[at[t]]) + 1
      /\ \A i \in 1 .. Len(out[at[t]]) : out'[at[t]][i] = out[at[t]][i]
      /\ out'[at[t]][Len(out[at[t]]) + 1] = LogMsg(t)
  BY <1>4, <1>5, AppendProperties
<1>7. QED
  BY <1>1, <1>2, <1>3, <1>6

(* The lines written are the lines of the sinks.                            *)
LEMMA WrittenAre ==
  \A m : m \in Written <=> \E k \in Sinks : \E i \in DOMAIN out[k] : m = out[k][i]
BY DEF Written

(* Every line sent is whole and shows its time.                             *)
LEMMA LinesKept ==
  ASSUME TypeOK, Calls, Mutex, Config, Rendered, LinesWhole, TimeShown, NEW t \in Threads, Act(t)
  PROVE  LinesWhole' /\ TimeShown'
<1> DEFINE Good(m) == Whole(m) /\ (m.time # 0 => m.formatted[1].shown = m.time)
<1>1. \A k \in Sinks : \A i \in DOMAIN out[k] : Good(out[k][i])
  BY WrittenAre DEF LinesWhole, TimeShown
<1>2. CASE UNCHANGED out
  BY <1>2 DEF LinesWhole, TimeShown, Written
<1>3. CASE WriteSink(t)
  <2>1. pc[t] = "write" /\ LogMsg(t) \in Message
    BY <1>3, LogMsgType DEF WriteSink
  <2>2. Good(LogMsg(t))
    BY <2>1, SentWhole
  <2>3. \A k \in Sinks : out[k] \in Seq(Message)
    BY DEF TypeOK
  <2>4. ASSUME NEW k \in Sinks, NEW i \in DOMAIN out'[k] PROVE Good(out'[k][i])
    <3>1. CASE k = at[t]
      <4>1. DOMAIN out'[k] = 1 .. Len(out[k]) + 1 /\ DOMAIN out[k] = 1 .. Len(out[k])
            /\ Len(out[k]) \in Nat
        BY <1>3, <2>1, <2>3, <3>1, SinkAfterWrite
      <4>2. i \in 1 .. Len(out[k]) \/ i = Len(out[k]) + 1
        BY <4>1
      <4>3. CASE i \in 1 .. Len(out[k])
        <5>1. out'[k][i] = out[k][i]
          BY <1>3, <2>1, <3>1, <4>3, SinkAfterWrite
        <5>2. QED
          BY <1>1, <4>1, <4>3, <5>1
      <4>4. CASE i = Len(out[k]) + 1
        BY <1>3, <2>1, <2>2, <3>1, <4>4, SinkAfterWrite
      <4>5. QED
        BY <4>2, <4>3, <4>4
    <3>2. CASE k # at[t]
      BY <1>1, <1>3, <2>1, <3>2, SinkAfterWrite
    <3>3. QED
      BY <3>1, <3>2
  <2>5. \A m \in Written' : Good(m)
    <3>1. \A m : m \in Written' <=> \E k \in Sinks : \E i \in DOMAIN out'[k] : m = out'[k][i]
      BY DEF Written
    <3>2. QED
      BY <2>4, <3>1
  <2>6. QED
    BY <2>5 DEF LinesWhole, TimeShown, Whole
<1>4. QED
  BY <1>2, <1>3, SharedSteps

(* What was flushed is at least what is owed.                               *)
LEMMA FlushesKept ==
  ASSUME TypeOK, Calls, Mutex, Config, Flushes, NEW t \in Threads, Act(t)
  PROVE  Flushes'
<1> DEFINE Owed(k) == owed[k] <= flushed[k] /\ owed[k] <= Len(out[k])
           Done(u) == pc[u] = "flush" => \A k \in Sinks : k < at[u] => flushed[k] = Len(out[k])
<1>1. /\ \A k \in Sinks : owed[k] \in Nat /\ flushed[k] \in Nat /\ Len(out[k]) \in Nat
      /\ \A k \in Sinks : Owed(k)
  BY LenProperties DEF TypeOK, Flushes
<1>2. \A u \in Threads \ {t} : pc'[u] = pc[u] /\ at'[u] = at[u] /\ Done(u)
  BY OthersStand DEF Flushes
<1>3. CASE WriteSink(t)
  <2>1. pc[t] = "write" /\ LogMsg(t) \in Message
    BY <1>3, LogMsgType DEF WriteSink
  <2>2. \A k \in Sinks : Owed(k)'
    BY <1>1, <1>3, <2>1, SinkAfterWrite
  <2>3. \A u \in Threads : pc'[u] # "flush"
    <3>1. \A u \in Threads \ {t} : pc[u] # "flush"
      BY <2>1, Sole DEF Locked
    <3>2. pc'[t] # "flush"
      BY <1>3 DEF WriteSink, Goto, TypeOK
    <3>3. QED
      BY <1>2, <3>1, <3>2
  <2>4. QED
    BY <2>2, <2>3 DEF Flushes
<1>4. CASE FlushSink(t)
  <2>1. at[t] \in Sinks /\ pc[t] = "flush" /\ out' = out
    BY <1>4 DEF FlushSink, Calls, CallOf, Locked
  <2>2. \A k \in Sinks : flushed'[k] = IF k = at[t] THEN Len(out[k]) ELSE flushed[k]
    BY <1>4, <2>1 DEF FlushSink, TypeOK
  <2>3. \A k \in Sinks : k < at[t] => flushed[k] = Len(out[k])
    BY <2>1 DEF Flushes
  <2>4. \A u \in Threads \ {t} : pc'[u] # "flush"
    BY <1>2, <2>1, Sole DEF Locked
  <2>5. CASE at[t] < NSinks
    <3>1. at' = [at EXCEPT ![t] = @ + 1] /\ owed' = owed
      BY <1>4, <2>5 DEF FlushSink
    <3>2. at'[t] = at[t] + 1
      BY <3>1 DEF TypeOK
    <3>3. \A k \in Sinks : k < at'[t] => flushed'[k] = Len(out'[k])
      BY <2>1, <2>2, <2>3, <3>2, Constants
    <3>4. \A k \in Sinks : Owed(k)'
      BY <1>1, <2>1, <2>2, <3>1
    <3>5. QED
      BY <2>4, <3>3, <3>4 DEF Flushes
  <2>6. CASE ~(at[t] < NSinks)
    <3>1. owed' = [k \in Sinks |-> Len(out[k])] /\ pc'[t] = "unlock"
      BY <1>4, <2>6 DEF FlushSink, Goto, TypeOK
    <3>2. \A k \in Sinks : k <= at[t]
      BY <2>1, <2>6, Constants
    <3>3. \A k \in Sinks : flushed'[k] = Len(out[k])
      BY <2>1, <2>2, <2>3, <3>2, Constants
    <3>4. \A k \in Sinks : Owed(k)'
      BY <1>1, <2>1, <3>1, <3>3
    <3>5. QED
      BY <2>4, <3>1, <3>4 DEF Flushes
  <2>7. QED
    BY <2>5, <2>6
<1>5. CASE UNCHANGED <<out, flushed, owed>> /\ ~FlushSink(t)
  <2>1. \A k \in Sinks : Owed(k)'
    BY <1>1, <1>5
  <2>2. \A u \in Threads \ {t} : Done(u)'
    BY <1>2, <1>5
  <2>3. Done(t)'
    <3>1. pc'[t] = "flush" => at'[t] = 1
      BY <1>5, ToFlush
    <3>2. QED
      BY <3>1, Constants
  <2>4. QED
    BY <2>1, <2>2, <2>3 DEF Flushes
<1>6. QED
  BY <1>3, <1>4, <1>5, SharedSteps

-----------------------------------------------------------------------------

(* A step that neither begins a call nor writes a line.                     *)
LEMMA Goes ==
  ASSUME TypeOK, Calls, NEW t \in Threads, Step(t), ~WriteSink(t)
  PROVE  /\ ncalls' = ncalls /\ out' = out /\ pc[t] # "idle"
         /\ pc'[t] # "idle" => call'[t].id = call[t].id
         /\ pc'[t] \in Sending => pc[t] \in Sending \ {"write"}
         /\ pc'[t] = "write" => at'[t] = 1
<1>1. CASE Stamp(t)
  BY <1>1 DEF Stamp, Goto, TypeOK, Calls, CallOf, Sending, sinkVars
<1>2. CASE Lock(t)
  BY <1>2 DEF Lock, Goto, FirstStep, TypeOK, Calls, CallOf, Sending, sinkVars
<1>3. CASE Header(t)
  BY <1>3 DEF Header, Goto, TypeOK, Calls, CallOf, Sending, sinkVars
<1>4. CASE Payload(t)
  BY <1>4 DEF Payload, Goto, TypeOK, Calls, CallOf, Sending, sinkVars
<1>5. CASE PayloadThrows(t)
  BY <1>5 DEF PayloadThrows, Goto, TypeOK, Calls, CallOf, Sending, sinkVars
<1>6. CASE SinkThrows(t)
  BY <1>6 DEF SinkThrows, Goto, TypeOK, Calls, CallOf, Sending, sinkVars
<1>7. CASE FlushGate(t)
  BY <1>7 DEF FlushGate, Goto, TypeOK, Calls, CallOf, Sending, sinkVars
<1>8. CASE FlushSink(t)
  BY <1>8 DEF FlushSink, Goto, TypeOK, Calls, CallOf, Sending, sinkVars
<1>9. CASE FlushThrows(t)
  BY <1>9 DEF FlushThrows, Goto, TypeOK, Calls, CallOf, Sending, sinkVars
<1>10. CASE AssignName(t)
  BY <1>10 DEF AssignName, Goto, TypeOK, Calls, CallOf, Sending, sinkVars
<1>11. CASE RebuildHeader(t)
  BY <1>11 DEF RebuildHeader, Goto, TypeOK, Calls, CallOf, Sending, sinkVars
<1>12. CASE Reformat(t)
  BY <1>12 DEF Reformat, Goto, TypeOK, Calls, CallOf, Sending, sinkVars
<1>13. CASE Unlock(t)
  BY <1>13 DEF Unlock, Goto, TypeOK, Calls, CallOf, Sending, sinkVars
<1>14. QED
  BY <1>1, <1>2, <1>3, <1>4, <1>5, <1>6, <1>7, <1>8, <1>9, <1>10, <1>11, <1>12, <1>13 DEF Step

(* The steps that begin a call.                                             *)
Begins(t) == Log(t) \/ SetName(t) \/ SetFormatOptions(t) \/ Flush(t)

(* What a call that begins changes.                                         *)
LEMMA Begun ==
  ASSUME TypeOK, NEW t \in Threads, Begins(t)
  PROVE  /\ ncalls' = ncalls + 1 /\ UNCHANGED <<name, header, buf, out, flushed, owed>>
         /\ pc[t] = "idle" /\ call'[t].id = ncalls + 1 /\ pc'[t] # "write"
<1>1. PICK op, lvl, arg, p : Begin(t, op, lvl, arg, p) /\ p # "write"
  BY DEF Begins, Log, SetName, SetFormatOptions, Flush
<1>2. QED
  BY <1>1 DEF Begin, Goto, TypeOK, confVars, sinkVars

(* Every line a thread may still send is newer than the lines there are of  *)
(* its own, and none of theirs has its id.                                  *)
LEMMA IdsKept ==
  ASSUME TypeOK, Calls, Mutex, Config, Ids, NEW t \in Threads, Act(t)
  PROVE  Ids'
<1> DEFINE Own(u)  == pc[u] # "idle" => call[u].id \in 1 .. ncalls
           Past(k) == \A i \in 1 .. Len(out[k]) : out[k][i].id <= ncalls
           New(u)  == pc[u] \in Sending =>
                        \A k \in Sinks : \A i \in 1 .. Cut(u, k) : Older(out[k][i], u)
           Apart(u, v) == pc[u] # "idle" /\ pc[v] # "idle" /\ u # v => call[u].id # call[v].id
<1>1. /\ \A u \in Threads : Own(u) /\ New(u)
      /\ \A u, v \in Threads : Apart(u, v)
      /\ \A k \in Sinks : Past(k)
  BY DEF Ids
<1>2. ASSUME \A u \in Threads : Own(u)' /\ New(u)', \A u, v \in Threads : Apart(u, v)',
             \A k \in Sinks : Past(k)'
      PROVE  Ids'
  BY <1>2 DEF Ids
<1>3. \A u \in Threads \ {t} : pc'[u] = pc[u] /\ call'[u] = call[u] /\ at'[u] = at[u]
  BY OthersStand
<1>4. /\ ncalls \in Nat
      /\ \A u \in Threads : call[u].id \in Nat
      /\ \A k \in Sinks : Len(out[k]) \in Nat
      /\ \A k \in Sinks : \A i \in 1 .. Len(out[k]) : out[k][i].id \in Nat
  <2>1. \A k \in Sinks : out[k] \in Seq(Message)
    BY DEF TypeOK
  <2>2. \A k \in Sinks : Len(out[k]) \in Nat /\ \A i \in 1 .. Len(out[k]) : out[k][i] \in Message
    BY <2>1, ElementOfSeq, LenProperties
  <2>3. \A m \in Message : m.id \in Nat
    BY DEF Message
  <2>4. ncalls \in Nat
    BY Constants DEF TypeOK
  <2>5. \A u \in Threads : call[u].id \in Nat
    <3>1. ASSUME NEW u \in Threads PROVE call[u].id \in Nat
      <4>1. call[u].id \in 0 .. MaxCalls
        BY CallFields
      <4>2. QED
        BY <4>1, Constants
    <3>2. QED
      BY <3>1
  <2>6. QED
    BY <2>2, <2>3, <2>4, <2>5
<1>5. CASE Begins(t)
  <2>1. /\ ncalls' = ncalls + 1 /\ out' = out /\ pc[t] = "idle"
        /\ call'[t].id = ncalls + 1 /\ pc'[t] # "write"
    BY <1>5, Begun
  <2>2. \A u \in Threads : Own(u)'
    <3>1. Own(t)'
      BY <1>4, <2>1
    <3>2. \A u \in Threads \ {t} : Own(u)'
      BY <1>1, <1>3, <1>4, <2>1
    <3>3. QED
      BY <3>1, <3>2
  <2>3. ASSUME NEW u \in Threads, NEW v \in Threads PROVE Apart(u, v)'
    <3>1. \A w \in Threads \ {t} : pc'[w] # "idle" => call'[w].id < call'[t].id
      BY <1>1, <1>3, <1>4, <2>1
    <3>2. CASE u # t /\ v # t
      BY <1>1, <1>3, <3>2
    <3>3. QED
      BY <1>4, <2>1, <3>1, <3>2, <1>3
  <2>4. \A k \in Sinks : Past(k)'
    BY <1>1, <1>4, <2>1
  <2>5. ASSUME NEW u \in Threads PROVE New(u)'
    <3>1. CASE u = t
      <4>1. \A k \in Sinks : Cut(t, k)' = Len(out[k])
        BY <1>4, <2>1 DEF InHandOf, Cut
      <4>2. \A k \in Sinks : \A i \in 1 .. Len(out[k]) : Older(out[k][i], t)'
        BY <1>1, <1>4, <2>1 DEF Older
      <4>3. QED
        BY <2>1, <3>1, <4>1, <4>2
    <3>2. CASE u # t
      <4>1. \A k \in Sinks : Cut(u, k)' = Cut(u, k)
        BY <1>3, <2>1, <3>2 DEF InHandOf, Cut
      <4>2. QED
        BY <1>1, <1>3, <2>1, <3>2, <4>1 DEF Older
    <3>3. QED
      BY <3>1, <3>2
  <2>6. QED
    BY <1>2, <2>2, <2>3, <2>4, <2>5
<1>6. CASE WriteSink(t)
  <2>1. pc[t] = "write" /\ LogMsg(t) \in Message
    BY <1>6, LogMsgType DEF WriteSink
  <2> DEFINE j == at[t]
  <2>2. /\ j \in Sinks /\ call' = call /\ ncalls' = ncalls
        /\ \A k \in Sinks \ {j} : out'[k] = out[k]
        /\ Len(out'[j]) = Len(out[j]) + 1
        /\ \A i \in 1 .. Len(out[j]) : out'[j][i] = out[j][i]
        /\ out'[j][Len(out[j]) + 1] = LogMsg(t)
    BY <1>6, <2>1, SinkAfterWrite
  <2>3. LogMsg(t).id = call[t].id /\ LogMsg(t).by = t
    BY DEF LogMsg
  <2>4. pc'[t] # "idle"
    BY <1>6, <2>1 DEF WriteSink, Goto, TypeOK
  <2>5. pc'[t] \in Sending => at'[t] = j + 1 /\ pc'[t] = "write"
    <3>1. CASE j < NSinks
      <4>1. at' = [at EXCEPT ![t] = @ + 1] /\ pc' = pc
        BY <1>6, <3>1 DEF WriteSink
      <4>2. QED
        BY <2>1, <4>1 DEF TypeOK
    <3>2. CASE ~(j < NSinks)
      BY <1>6, <3>2 DEF WriteSink, Goto, TypeOK, Sending
    <3>3. QED
      BY <3>1, <3>2
  <2> HIDE DEF j
  <2>6. \A u \in Threads : Own(u)'
    BY <1>1, <1>3, <2>1, <2>2
  <2>7. \A u, v \in Threads : Apart(u, v)'
    BY <1>1, <1>3, <2>1, <2>2
  <2>8. ASSUME NEW k \in Sinks PROVE Past(k)'
    <3>1. CASE k = j
      <4>1. call[t].id <= ncalls
        BY <1>1, <1>4, <2>1
      <4>2. ASSUME NEW i \in 1 .. Len(out'[k]) PROVE out'[k][i].id <= ncalls
        <5>1. i \in 1 .. Len(out[j]) \/ i = Len(out[j]) + 1
          BY <1>4, <2>2, <3>1
        <5>2. QED
          BY <1>1, <2>2, <2>3, <3>1, <4>1, <5>1
      <4>3. QED
        BY <2>2, <4>2
    <3>2. CASE k # j
      BY <1>1, <2>2, <3>2
    <3>3. QED
      BY <3>1, <3>2
  <2>9. ASSUME NEW u \in Threads, pc'[u] \in Sending, NEW k \in Sinks, NEW i \in 1 .. Cut(u, k)'
        PROVE  Older(out[k][i], u)'
    <3>1. CASE u # t
      <4>1. pc[u] \in Sending /\ pc[u] # "idle" /\ pc[u] # "write"
        BY <1>3, <2>1, <2>9, <3>1, Sole DEF Sending, Locked
      <4>2. Cut(u, k) = Len(out[k]) /\ Cut(u, k)' = Len(out'[k])
        <5>1. ~InHandOf(u, k) /\ ~InHandOf(u, k)'
          BY <1>3, <3>1, <4>1 DEF InHandOf
        <5>2. Len(out[k]) \in Nat /\ Len(out'[k]) \in Nat
          BY <1>4, <2>2
        <5>3. QED
          BY <5>1, <5>2 DEF Cut
      <4>3. \A n \in 1 .. Len(out[k]) : Older(out[k][n], u)
        BY <1>1, <4>1, <4>2
      <4>8. Len(out'[k]) \in Nat /\ i \in 1 .. Len(out'[k])
        BY <1>4, <2>2, <2>9, <4>2
      <4>4. Older(LogMsg(t), u)
        BY <1>1, <2>1, <2>3, <3>1, <4>1 DEF Older
      <4>5. CASE k = j
        <5>1. i \in 1 .. Len(out[j]) \/ i = Len(out[j]) + 1
          BY <1>4, <2>2, <4>8, <4>5
        <5>2. Older(out'[k][i], u)
          BY <2>2, <4>3, <4>4, <4>5, <5>1
        <5>3. QED
          BY <2>2, <5>2 DEF Older
      <4>6. CASE k # j
        BY <2>2, <4>8, <4>3, <4>6 DEF Older
      <4>7. QED
        BY <4>5, <4>6
    <3>2. CASE u = t
      <4>1. at'[t] = j + 1 /\ pc'[t] = "write"
        BY <2>5, <2>9, <3>2
      <4>2. \A n \in 1 .. Cut(t, k) : Older(out[k][n], t)
        BY <1>1, <2>1 DEF Sending
      <4>3. Cut(t, k)' = Cut(t, k) /\ Cut(t, k) \in Int
        <5>1. CASE k = j
          <6>1. InHandOf(t, k)' /\ ~InHandOf(t, k)
            BY <2>2, <4>1, <5>1, Constants DEF InHandOf, j
          <6>2. QED
            BY <1>4, <2>2, <5>1, <6>1 DEF Cut
        <5>2. CASE k # j
          <6>1. InHandOf(t, k)' <=> InHandOf(t, k)
            BY <2>1, <2>2, <4>1, <5>2, Constants DEF InHandOf, j
          <6>2. out'[k] = out[k] /\ Len(out[k]) \in Nat
            BY <1>4, <2>2, <5>2
          <6>3. CASE InHandOf(t, k)
            BY <6>1, <6>2, <6>3 DEF Cut
          <6>4. CASE ~InHandOf(t, k)
            BY <6>1, <6>2, <6>4 DEF Cut
          <6>5. QED
            BY <6>3, <6>4
        <5>3. QED
          BY <5>1, <5>2
      <4>4. out'[k][i] = out[k][i]
        <5>1. i \in 1 .. Len(out[k])
          <6>0. Len(out[k]) \in Nat
            BY <1>4
          <6>1. Cut(t, k) <= Len(out[k])
            BY <6>0 DEF Cut
          <6>2. i \in 1 .. Cut(t, k)
            BY <2>9, <3>2, <4>3
          <6>3. QED
            BY <4>3, <6>0, <6>1, <6>2
        <5>2. QED
          BY <2>2, <5>1
      <4>5. QED
        BY <2>2, <2>9, <3>2, <4>2, <4>3, <4>4 DEF Older
    <3>3. QED
      BY <3>1, <3>2
  <2>10. QED
    BY <1>2, <2>6, <2>7, <2>8, <2>9
<1>7. CASE Step(t) /\ ~WriteSink(t)
  <2>1. /\ ncalls' = ncalls /\ out' = out /\ pc[t] # "idle"
        /\ pc'[t] # "idle" => call'[t].id = call[t].id
        /\ pc'[t] \in Sending => pc[t] \in Sending \ {"write"}
        /\ pc'[t] = "write" => at'[t] = 1
    BY <1>7, Goes
  <2>2. \A u \in Threads : Own(u)'
    BY <1>1, <1>3, <2>1
  <2>3. \A u, v \in Threads : Apart(u, v)'
    BY <1>1, <1>3, <2>1
  <2>4. \A k \in Sinks : Past(k)'
    BY <1>1, <2>1
  <2>5. ASSUME NEW u \in Threads, pc'[u] \in Sending PROVE New(u)'
    <3>1. CASE u = t
      <4>1. pc[t] \in Sending /\ pc[t] # "write" /\ call'[t].id = call[t].id
        BY <2>1, <2>5, <3>1 DEF Sending
      <4>2. \A k \in Sinks : ~InHandOf(t, k) /\ ~InHandOf(t, k)'
        BY <2>1, <4>1, Constants DEF InHandOf
      <4>3. QED
        BY <1>1, <2>1, <3>1, <4>1, <4>2 DEF Older, Cut
    <3>2. CASE u # t
      <4>1. \A k \in Sinks : Cut(u, k)' = Cut(u, k)
        BY <1>3, <2>1, <3>2 DEF InHandOf, Cut
      <4>2. QED
        BY <1>1, <1>3, <2>1, <3>2, <4>1 DEF Older
    <3>3. QED
      BY <3>1, <3>2
  <2>6. QED
    BY <1>2, <2>2, <2>3, <2>4, <2>5
<1>8. QED
  BY <1>5, <1>6, <1>7 DEF Act, Begins, Step

(* What a thread has handed to a sink is the last line of the sink.         *)
LEMMA HandingKept ==
  ASSUME TypeOK, Calls, Mutex, Config, Handing, NEW t \in Threads, Act(t)
  PROVE  Handing'
<1>1. \A u \in Threads \ {t} : pc'[u] = pc[u] /\ call'[u] = call[u] /\ at'[u] = at[u]
  BY OthersStand
<1>2. CASE WriteSink(t)
  <2>1. pc[t] = "write" /\ LogMsg(t) \in Message
    BY <1>2, LogMsgType DEF WriteSink
  <2> DEFINE j == at[t]
  <2>2. /\ j \in Sinks /\ UNCHANGED <<name, header, buf, call>>
        /\ \A k \in Sinks \ {j} : out'[k] = out[k]
        /\ Len(out'[j]) = Len(out[j]) + 1
        /\ out'[j][Len(out[j]) + 1] = LogMsg(t)
    BY <1>2, <2>1, SinkAfterWrite
  <2>3. LogMsg(t)' = LogMsg(t)
    BY <2>2 DEF LogMsg
  <2>4. \A u \in Threads \ {t} : pc'[u] # "write"
    BY <1>1, <2>1, Sole DEF Locked
  <2>5. pc'[t] = "write" => at'[t] = j + 1
    <3>1. CASE j < NSinks
      <4>1. at' = [at EXCEPT ![t] = @ + 1]
        BY <1>2, <3>1 DEF WriteSink
      <4>2. QED
        BY <4>1 DEF TypeOK
    <3>2. CASE ~(j < NSinks)
      BY <1>2, <3>2 DEF WriteSink, Goto, TypeOK
    <3>3. QED
      BY <3>1, <3>2
  <2>6. Len(out[j]) \in Nat
    BY <2>2, LenProperties DEF TypeOK
  <2>7. ASSUME NEW k \in Sinks, InHandOf(t, k)'
        PROVE  out'[k] # <<>> /\ out'[k][Len(out'[k])] = LogMsg(t)'
    <3>1. k = j \/ k < j
      BY <2>2, <2>5, <2>7, Constants DEF InHandOf
    <3>2. CASE k = j
      <4>1. Len(out'[j]) # 0
        BY <2>2, <2>6
      <4>2. out'[j] # <<>>
        BY <4>1, EmptySeq
      <4>3. QED
        BY <2>2, <2>3, <3>2, <4>2
    <3>3. CASE k < j
      <4>1. InHandOf(t, k) /\ k # j
        BY <2>1, <2>2, <3>3, Constants DEF InHandOf
      <4>2. QED
        BY <2>2, <2>3, <4>1 DEF Handing
    <3>4. QED
      BY <3>1, <3>2, <3>3
  <2>8. QED
    BY <2>4, <2>7 DEF Handing, InHandOf
<1>3. CASE UNCHANGED out /\ ~WriteSink(t)
  <2>1. ASSUME NEW u \in Threads, NEW k \in Sinks, InHandOf(u, k)'
        PROVE  u # t /\ InHandOf(u, k) /\ LogMsg(u)' = LogMsg(u)
    <3>1. u # t
      <4>1. pc'[t] = "write" => at'[t] = 1
        <5>1. CASE Step(t)
          BY <1>3, <5>1, Goes
        <5>2. CASE Begins(t)
          BY <5>2, Begun
        <5>3. QED
          BY <5>1, <5>2 DEF Act, Begins
      <4>2. QED
        BY <2>1, <4>1, Constants DEF InHandOf
    <3>2. pc[u] = "write" /\ InHandOf(u, k)
      BY <1>1, <2>1, <3>1 DEF InHandOf
    <3>3. pc[t] \notin Locked
      BY <3>1, <3>2, Sole DEF Locked
    <3>4. UNCHANGED <<name, header, buf>>
      BY <3>3, SharedSteps
         DEF Header, Payload, PayloadThrows, AssignName, RebuildHeader, Reformat, Locked
    <3>5. QED
      BY <1>1, <3>1, <3>2, <3>4 DEF LogMsg
  <2>2. QED
    BY <1>3, <2>1 DEF Handing
<1>4. QED
  BY <1>2, <1>3, SharedSteps DEF WriteSink

-----------------------------------------------------------------------------
(* Subsequences and the last element.                                       *)

(* All but the last element.                                                *)
LEMMA ButlastIs ==
  ASSUME NEW S, NEW s \in Seq(S), s # <<>>
  PROVE  /\ Butlast(s) \in Seq(S) /\ Len(s) \in Nat \ {0}
         /\ DOMAIN Butlast(s) = 1 .. Len(s) - 1
         /\ \A i \in 1 .. Len(s) - 1 : Butlast(s)[i] = s[i]
<1>1. Len(s) \in Nat \ {0} /\ \A i \in 1 .. Len(s) - 1 : s[i] \in S
  BY EmptySeq, ElementOfSeq, LenProperties
<1> DEFINE n == Len(s) - 1
<1>4. n \in Nat /\ \A i \in 1 .. n : s[i] \in S
  BY <1>1
<1> HIDE DEF n
<1>5. /\ SubSeq(s, 1, n) \in Seq(S)
      /\ Len(SubSeq(s, 1, n)) = IF 1 <= n THEN n - 1 + 1 ELSE 0
      /\ \A i \in 1 .. n - 1 + 1 : SubSeq(s, 1, n)[i] = s[1 + i - 1]
  BY <1>4, SubSeqProperties
<1>6. n - 1 + 1 = n /\ \A i \in 1 .. n : 1 + i - 1 = i
  BY <1>4
<1>7. Len(SubSeq(s, 1, n)) = n
  BY <1>4, <1>5, <1>6
<1>8. \A i \in 1 .. n : SubSeq(s, 1, n)[i] = s[i]
  BY <1>5, <1>6
<1>2. /\ Butlast(s) \in Seq(S) /\ Len(Butlast(s)) = Len(s) - 1
      /\ \A i \in 1 .. Len(s) - 1 : Butlast(s)[i] = s[i]
  BY <1>5, <1>7, <1>8 DEF Butlast, n
<1>3. QED
  BY <1>1, <1>2, LenProperties

(* What is appended is what Butlast takes away.                             *)
LEMMA ButlastAppend ==
  ASSUME NEW S, NEW s \in Seq(S), NEW e \in S
  PROVE  Butlast(Append(s, e)) = s
<1>1. /\ Append(s, e) \in Seq(S) /\ Append(s, e) # <<>> /\ Len(Append(s, e)) = Len(s) + 1
      /\ \A i \in 1 .. Len(s) : Append(s, e)[i] = s[i]
  BY AppendProperties
<1>2. Len(s) \in Nat
  BY LenProperties
<1>3. /\ Butlast(Append(s, e)) \in Seq(S)
      /\ DOMAIN Butlast(Append(s, e)) = 1 .. Len(s)
      /\ \A i \in 1 .. Len(s) : Butlast(Append(s, e))[i] = s[i]
  <2> DEFINE q == Append(s, e)
  <2>1. q \in Seq(S) /\ q # <<>> /\ Len(q) = Len(s) + 1
    BY <1>1
  <2> HIDE DEF q
  <2>2. Butlast(q) \in Seq(S) /\ DOMAIN Butlast(q) = 1 .. Len(q) - 1
        /\ \A i \in 1 .. Len(q) - 1 : Butlast(q)[i] = q[i]
    BY <2>1, ButlastIs
  <2>3. Len(q) - 1 = Len(s)
    BY <1>2, <2>1
  <2>4. QED
    BY <1>1, <2>2, <2>3 DEF q
<1>4. Len(Butlast(Append(s, e))) = Len(s)
  BY <1>2, <1>3, LenProperties
<1>5. QED
  BY <1>3, <1>4, SeqEqual

(* The last element may stay out of a subsequence.                          *)
LEMMA SubseqOfWhole ==
  ASSUME NEW S, NEW r \in Seq(S), r # <<>>, NEW s \in Seq(S), Subsequence(s, Butlast(r))
  PROVE  Subsequence(s, r)
<1>1. /\ DOMAIN Butlast(r) \subseteq DOMAIN r
      /\ \A i \in DOMAIN Butlast(r) : Butlast(r)[i] = r[i]
  BY ButlastIs, LenProperties
<1>2. PICK f \in [DOMAIN s -> DOMAIN Butlast(r)] :
        /\ \A i, j \in DOMAIN s : i < j => f[i] < f[j]
        /\ \A i \in DOMAIN s : s[i] = Butlast(r)[f[i]]
  BY DEF Subsequence
<1>3. f \in [DOMAIN s -> DOMAIN r] /\ \A i \in DOMAIN s : s[i] = r[f[i]]
  BY <1>1, <1>2
<1>4. QED
  BY <1>2, <1>3 DEF Subsequence

(* The last element may be put behind a subsequence of the others.          *)
LEMMA SubseqAppend ==
  ASSUME NEW S, NEW r \in Seq(S), r # <<>>, NEW s \in Seq(S), Subsequence(s, Butlast(r)),
         NEW e \in S, r[Len(r)] = e
  PROVE  Subsequence(Append(s, e), r)
<1> DEFINE n == Len(s)
           q == Append(s, e)
<1>1. /\ n \in Nat /\ DOMAIN s = 1 .. n /\ DOMAIN q = 1 .. n + 1
      /\ (\A i \in 1 .. n : q[i] = s[i]) /\ q[n + 1] = e
  BY AppendProperties, LenProperties
<1>2. /\ Len(r) \in Nat \ {0} /\ DOMAIN r = 1 .. Len(r) /\ DOMAIN Butlast(r) = 1 .. Len(r) - 1
      /\ \A i \in DOMAIN Butlast(r) : Butlast(r)[i] = r[i]
  BY ButlastIs, LenProperties
<1>3. PICK f \in [DOMAIN s -> DOMAIN Butlast(r)] :
        /\ \A i, j \in DOMAIN s : i < j => f[i] < f[j]
        /\ \A i \in DOMAIN s : s[i] = Butlast(r)[f[i]]
  BY DEF Subsequence
<1> DEFINE g == [i \in 1 .. n + 1 |-> IF i = n + 1 THEN Len(r) ELSE f[i]]
<1> HIDE DEF n, q
<1>4. \A i \in 1 .. n : i \in 1 .. n + 1 /\ i # n + 1 /\ i < n + 1
  BY <1>1
<1>5. \A i \in 1 .. n + 1 : i \in 1 .. n \/ i = n + 1
  BY <1>1
<1>6. \A i \in 1 .. n : f[i] \in 1 .. Len(r) - 1 /\ f[i] < Len(r) /\ f[i] \in 1 .. Len(r)
  BY <1>1, <1>2, <1>3
<1>7. (\A i \in 1 .. n : g[i] = f[i]) /\ g[n + 1] = Len(r)
  BY <1>1, <1>4
<1>8. g \in [1 .. n + 1 -> 1 .. Len(r)]
  BY <1>2, <1>5, <1>6
<1> HIDE DEF g
<1>9. ASSUME NEW i \in 1 .. n + 1, NEW k \in 1 .. n + 1, i < k PROVE g[i] < g[k]
  <2>1. i \in 1 .. n
    BY <1>1, <1>9
  <2>2. CASE k \in 1 .. n
    BY <1>1, <1>3, <1>7, <2>1, <2>2, <1>9
  <2>3. CASE k = n + 1
    BY <1>6, <1>7, <2>1, <2>3
  <2>4. QED
    BY <1>5, <2>2, <2>3
<1>10. ASSUME NEW i \in 1 .. n + 1 PROVE q[i] = r[g[i]]
  <2>1. CASE i \in 1 .. n
    <3>1. q[i] = s[i] /\ g[i] = f[i] /\ s[i] = Butlast(r)[f[i]] /\ f[i] \in DOMAIN Butlast(r)
      BY <1>1, <1>3, <1>7, <2>1
    <3>2. Butlast(r)[f[i]] = r[f[i]]
      BY <1>2, <3>1
    <3>3. QED
      BY <3>1, <3>2
  <2>2. CASE i = n + 1
    BY <1>1, <1>7, <2>2
  <2>3. QED
    BY <1>5, <2>1, <2>2
<1>11. Subsequence(q, r)
  BY <1>1, <1>2, <1>8, <1>9, <1>10 DEF Subsequence
<1>12. QED
  BY <1>11 DEF q

(* Sink k follows the sink before it.                                       *)
LEMMA FollowKept ==
  ASSUME TypeOK, Calls, Mutex, Config, Handing, Follow, NEW t \in Threads, Act(t)
  PROVE  Follow'
<1>1. \A u \in Threads \ {t} : pc'[u] = pc[u] /\ at'[u] = at[u]
  BY OthersStand
<1>2. \A k \in Sinks : out[k] \in Seq(Message) /\ Len(out[k]) \in Nat
  BY LenProperties DEF TypeOK
<1>3. \A k \in 2 .. NSinks : k \in Sinks /\ k - 1 \in Sinks /\ k - 1 < k
  BY Constants
<1>4. \A k \in 2 .. NSinks : Due(k) => out[k - 1] # <<>>
  BY <1>3 DEF Due, Handing, InHandOf
<1>5. \A k \in 2 .. NSinks : Subsequence(out[k], Reached(k))
  BY DEF Follow
<1>6. CASE WriteSink(t)
  <2>1. pc[t] = "write" /\ LogMsg(t) \in Message
    BY <1>6, LogMsgType DEF WriteSink
  <2> DEFINE j == at[t]
  <2>2. /\ j \in Sinks
        /\ \A k \in Sinks \ {j} : out'[k] = out[k]
        /\ out'[j] = Append(out[j], LogMsg(t))
    BY <1>6, <2>1, SinkAfterWrite
  <2>3. \A u \in Threads \ {t} : pc[u] # "write" /\ pc'[u] # "write"
    BY <1>1, <2>1, Sole DEF Locked
  <2>4. \A k : Due(k) <=> k = j
    BY <2>1, <2>3 DEF Due
  <2>5. \A k \in 2 .. NSinks : Due(k)' <=> k = j + 1
    <3>1. CASE j < NSinks
      <4>1. at' = [at EXCEPT ![t] = @ + 1] /\ pc' = pc
        BY <1>6, <3>1 DEF WriteSink
      <4>2. at'[t] = j + 1 /\ pc'[t] = "write"
        BY <2>1, <4>1 DEF TypeOK
      <4>3. QED
        BY <2>3, <4>2 DEF Due
    <3>2. CASE ~(j < NSinks)
      <4>1. pc'[t] = "gate"
        BY <1>6, <3>2 DEF WriteSink, Goto, TypeOK
      <4>2. \A k \in 2 .. NSinks : k # j + 1
        BY <2>2, <3>2, Constants
      <4>3. QED
        BY <2>3, <4>1, <4>2 DEF Due
    <3>3. QED
      BY <3>1, <3>2
  <2> HIDE DEF j
  <2>6. ASSUME NEW k \in 2 .. NSinks PROVE Subsequence(out'[k], Reached(k)')
    <3>1. CASE k = j
      <4>1. Reached(k)' = out[k - 1] /\ Reached(k) = Butlast(out[k - 1])
        <5>1. ~Due(k)' /\ Due(k)
          BY <2>2, <2>4, <2>5, <3>1, Constants
        <5>2. out'[k - 1] = out[k - 1]
          BY <1>3, <2>2, <3>1
        <5>3. QED
          BY <5>1, <5>2 DEF Reached
      <4>2. out[k - 1] # <<>> /\ out[k - 1][Len(out[k - 1])] = LogMsg(t)
        BY <1>3, <2>1, <3>1 DEF Handing, InHandOf, j
      <4>3. Subsequence(out[k], Butlast(out[k - 1]))
        BY <1>5, <4>1
      <4>4. Subsequence(Append(out[k], LogMsg(t)), out[k - 1])
        BY <1>2, <1>3, <2>1, <4>2, <4>3, SubseqAppend
      <4>5. QED
        BY <2>2, <3>1, <4>1, <4>4
    <3>2. CASE k = j + 1
      <4>1. k # j /\ k - 1 = j
        BY <2>2, <3>2, Constants
      <4>2. Reached(k) = out[j]
        BY <2>4, <4>1 DEF Reached
      <4>3. Reached(k)' = Butlast(out'[j])
        BY <2>5, <3>2, <4>1 DEF Reached
      <4>4. Butlast(out'[j]) = out[j]
        BY <1>2, <2>1, <2>2, ButlastAppend
      <4>5. out'[k] = out[k]
        BY <1>3, <2>2, <4>1
      <4>6. QED
        BY <1>5, <4>2, <4>3, <4>4, <4>5
    <3>3. CASE k # j /\ k # j + 1
      <4>1. k - 1 # j
        BY <2>2, <3>3, Constants
      <4>2. out'[k] = out[k] /\ out'[k - 1] = out[k - 1]
        BY <1>3, <2>2, <3>3, <4>1
      <4>3. ~Due(k) /\ ~Due(k)'
        BY <2>4, <2>5, <3>3
      <4>4. QED
        BY <1>5, <4>2, <4>3 DEF Reached
    <3>4. QED
      BY <3>1, <3>2, <3>3
  <2>7. QED
    BY <2>6 DEF Follow
<1>7. CASE UNCHANGED out /\ ~WriteSink(t)
  <2>1. ASSUME NEW k \in 2 .. NSinks PROVE Due(k)' => Due(k)
    <3>1. pc'[t] = "write" => at'[t] = 1
      <4>1. CASE Step(t)
        BY <1>7, <4>1, Goes
      <4>2. CASE Begins(t)
        BY <4>2, Begun
      <4>3. QED
        BY <4>1, <4>2 DEF Act, Begins
    <3>2. QED
      BY <1>1, <3>1 DEF Due
  <2>2. ASSUME NEW k \in 2 .. NSinks PROVE Subsequence(out'[k], Reached(k)')
    <3>1. out'[k] = out[k] /\ out'[k - 1] = out[k - 1]
      BY <1>7
    <3>2. CASE Due(k)' <=> Due(k)
      BY <1>5, <3>1, <3>2 DEF Reached
    <3>3. CASE Due(k) /\ ~Due(k)'
      <4>1. Subsequence(out[k], Butlast(out[k - 1]))
        BY <1>5, <3>3 DEF Reached
      <4>2. Subsequence(out[k], out[k - 1])
        BY <1>2, <1>3, <1>4, <3>3, <4>1, SubseqOfWhole
      <4>3. QED
        BY <3>1, <3>3, <4>2 DEF Reached
    <3>4. QED
      BY <2>1, <3>2, <3>3
  <2>3. QED
    BY <2>2 DEF Follow
<1>8. QED
  BY <1>6, <1>7, SharedSteps DEF WriteSink

-----------------------------------------------------------------------------
(* The invariant holds when the logger is made.                             *)
LEMMA InitInv == Init => IInv
<1> SUFFICES ASSUME Init PROVE IInv
  OBVIOUS
<1>1. TypeOK
  <2>1. NoCall \in CallSet
    BY Constants DEF NoCall, CallSet, Shown
  <2>2. TypeThreads
    BY <2>1, Constants DEF Init, TypeThreads, Steps
  <2>3. PICK o \in Opts : header = [name |-> name, opts |-> o, shown |-> Blank, last_secs |-> 0]
    BY DEF Init
  <2>4. TypeConf
    BY <2>3, Constants DEF Init, TypeConf, Shown
  <2>5. TypeLines
    BY DEF Init, TypeLines
  <2>6. QED
    BY <2>2, <2>4, <2>5, TypeParts
<1>2. Mutex
  BY Constants DEF Init, Mutex, Locked
<1>3. Calls
  BY DEF Init, Calls, CallOf, NoCall, Locked
<1>4. Config
  BY DEF Init, Config
<1>5. \A k \in Sinks : out[k] = <<>> /\ Len(out[k]) = 0 /\ owed[k] = 0 /\ flushed[k] = 0
  BY DEF Init
<1>6. Rendered /\ Ids /\ Handing /\ Flushes
  BY <1>5 DEF Init, Rendered, Ids, Handing, Flushes, InHandOf, Sending, Cut
<1>7. LinesWhole /\ TimeShown
  <2>1. Written = {}
    BY <1>5 DEF Written
  <2>2. QED
    BY <2>1 DEF LinesWhole, TimeShown
<1>8. Follow
  <2>1. ASSUME NEW k \in 2 .. NSinks PROVE Subsequence(out[k], Reached(k))
    <3>1. DOMAIN out[k] = {}
      BY <1>5, Constants
    <3>2. [x \in {} |-> x] \in [DOMAIN out[k] -> DOMAIN Reached(k)]
      BY <3>1
    <3>3. QED
      BY <3>1, <3>2 DEF Subsequence
  <2>2. QED
    BY <2>1 DEF Follow
<1>9. QED
  BY <1>1, <1>2, <1>3, <1>4, <1>6, <1>7, <1>8 DEF IInv

(* The calls that take no mutex leave the rest alone.                       *)
LEMMA UnlockedKept ==
  ASSUME IInv, SetLogLevel \/ SetFlushLevel \/ GetName \/ UNCHANGED vars
  PROVE  IInv'
<1>1. UNCHANGED <<name, header, buf, holder, out, flushed, owed, pc, call, at, ncalls>>
  BY DEF SetLogLevel, SetFlushLevel, GetName, vars, confVars, sinkVars, threadVars
<1>2. TypeOK'
  <2>1. level' \in 0 .. off /\ flush_level' \in 0 .. off /\ seen' \in Names \cup {Torn}
    BY Constants DEF SetLogLevel, SetFlushLevel, GetName, vars, IInv, TypeOK
  <2>2. QED
    BY <1>1, <2>1 DEF IInv, TypeOK
<1>3. (Mutex /\ Calls /\ Config)'
  BY <1>1 DEF IInv, Mutex, Calls, Config
<1>4. (LinesWhole /\ TimeShown)'
  BY <1>1 DEF IInv, LinesWhole, TimeShown, Written
<1>5. Rendered'
  BY <1>1 DEF IInv, Rendered, HeaderPiece, PayloadPiece
<1>6. Flushes'
  BY <1>1 DEF IInv, Flushes
<1>7. Ids'
  BY <1>1 DEF IInv, Ids, InHandOf, Cut, Older
<1>8. Handing'
  BY <1>1 DEF IInv, Handing, InHandOf, LogMsg
<1>9. Follow'
  <2>1. \A k : Reached(k)' = Reached(k)
    BY <1>1 DEF Reached, Due
  <2>2. QED
    BY <1>1, <2>1 DEF IInv, Follow
<1>10. QED
  BY <1>2, <1>3, <1>4, <1>5, <1>6, <1>7, <1>8, <1>9 DEF IInv

(* Every step keeps the invariant.                                          *)
LEMMA NextInv == IInv /\ [Next]_vars => IInv'
<1> SUFFICES ASSUME IInv, [Next]_vars PROVE IInv'
  OBVIOUS
<1>1. CASE \E t \in Threads : Act(t)
  <2>1. PICK t \in Threads : Act(t)
    BY <1>1
  <2>2. TypeOK /\ Calls /\ Mutex /\ Config /\ Rendered /\ LinesWhole /\ TimeShown
        /\ Flushes /\ Ids /\ Handing /\ Follow
    BY DEF IInv
  <2>3. TypeOK' /\ Mutex' /\ Calls' /\ Config' /\ Rendered'
    BY <2>1, <2>2, TypeKept, MutexKept, CallsKept, ConfigKept, RenderedKept
  <2>4. LinesWhole' /\ TimeShown' /\ Flushes' /\ Ids' /\ Handing' /\ Follow'
    BY <2>1, <2>2, LinesKept, FlushesKept, IdsKept, HandingKept, FollowKept
  <2>5. QED
    BY <2>3, <2>4 DEF IInv
<1>2. CASE SetLogLevel \/ SetFlushLevel \/ GetName \/ UNCHANGED vars
  BY <1>2, UnlockedKept
<1>3. QED
  BY <1>1, <1>2 DEF Next, Act

(* The invariant of the logger holds in every state.                        *)
THEOREM Inductive == Spec => []IInv
<1>1. Init => IInv
  BY InitInv
<1>2. IInv /\ [Next]_vars => IInv'
  BY NextInv
<1>3. QED
  BY <1>1, <1>2, PTL DEF Spec

(* Every variable keeps its type: in particular no line, count or step of a *)
(* call is ever out of its range, whatever throws.                          *)
THEOREM TypeCorrect == Spec => []TypeOK
BY Inductive, PTL DEF IInv

(* A sink is only ever given whole lines, with the level, name and layout   *)
(* the log_msg says.                                                        *)
THEOREM LinesCorrect == Spec => []LinesWhole
BY Inductive, PTL DEF IInv

(* The cached timestamp a line shows is the time of its message.            *)
THEOREM TimeCorrect == Spec => []TimeShown
BY Inductive, PTL DEF IInv

(* After flush(), and after a log call at or above the flush level, what    *)
(* every sink had then is flushed.                                          *)
THEOREM FlushCorrect == Spec => []FlushCovers
<1>1. IInv => FlushCovers
  BY DEF IInv, Flushes, FlushCovers
<1>2. QED
  BY <1>1, Inductive, PTL

(* A sink has a subset of the lines of the sink before it, in its order.    *)
THEOREM FanOutCorrect == Spec => []FanOut
<1>1. IInv => FanOut
  <2> SUFFICES ASSUME IInv, NEW k \in 2 .. NSinks PROVE Subsequence(out[k], out[k - 1])
    BY DEF FanOut
  <2>1. k \in Sinks /\ k - 1 \in Sinks /\ k - 1 < k
    BY Constants
  <2>2. out[k] \in Seq(Message) /\ out[k - 1] \in Seq(Message)
    BY <2>1 DEF IInv, TypeOK
  <2>3. Subsequence(out[k], Reached(k))
    BY DEF IInv, Follow
  <2>4. CASE Due(k)
    <3>1. out[k - 1] # <<>>
      BY <2>1, <2>4 DEF IInv, Due, Handing, InHandOf
    <3>2. QED
      BY <2>2, <2>3, <2>4, <3>1, SubseqOfWhole DEF Reached
  <2>5. CASE ~Due(k)
    BY <2>3, <2>5 DEF Reached
  <2>6. QED
    BY <2>4, <2>5
<1>2. QED
  BY <1>1, Inductive, PTL

-----------------------------------------------------------------------------
(* The refinement: what is delivered is what the sinks have, without the    *)
(* line in hand.                                                            *)
Handed(k) == \E t \in Threads : InHandOf(t, k)

Got(k) == IF Handed(k) THEN Len(out[k]) - 1 ELSE Len(out[k])

Stripped == {Strip(m) : m \in Message}

DeliveredIsGot ==
  \A k \in Sinks :
    /\ Got(k) \in Nat /\ Len(Delivered[k]) = Got(k) /\ Delivered[k] \in Seq(Stripped)
    /\ Got(k) <= Len(out[k]) /\ Len(out[k]) \in Nat
    /\ \A i \in 1 .. Got(k) : Delivered[k][i] = Strip(out[k][i])

(* The line in hand is told from the lines delivered by its id.             *)
LEMMA InHandIs ==
  ASSUME IInv, NEW k \in Sinks
  PROVE  InHand(k) <=> Handed(k)
<1>1. out[k] \in Seq(Message)
  BY DEF IInv, TypeOK
<1>2. ASSUME NEW t \in Threads, InHandOf(t, k) PROVE InHand(k)
  <2>1. out[k] # <<>> /\ out[k][Len(out[k])] = LogMsg(t) /\ pc[t] = "write"
    BY <1>2 DEF IInv, Handing, InHandOf
  <2>2. LogMsg(t).id = call[t].id
    BY DEF LogMsg
  <2>3. QED
    BY <2>1, <2>2 DEF InHand
<1>3. ASSUME InHand(k) PROVE Handed(k)
  <2>1. PICK t \in Threads : pc[t] = "write" /\ out[k][Len(out[k])].id = call[t].id
    BY <1>3 DEF InHand
  <2>2. Len(out[k]) \in Nat \ {0}
    BY <1>1, <1>3, EmptySeq DEF InHand
  <2>3. SUFFICES ASSUME ~InHandOf(t, k) PROVE FALSE
    BY DEF Handed
  <2>4. Len(out[k]) \in 1 .. Cut(t, k)
    BY <2>2, <2>3 DEF Cut
  <2>5. Older(out[k][Len(out[k])], t)
    BY <2>1, <2>4 DEF IInv, Ids, Sending
  <2>6. call[t].id \in Nat
    BY CallFields, Constants DEF IInv
  <2>7. QED
    BY <2>1, <2>5, <2>6 DEF Older
<1>4. QED
  BY <1>2, <1>3 DEF Handed

(* What is delivered: the lines, up to the one in hand.                     *)
LEMMA Deliveries == IInv => DeliveredIsGot
<1> SUFFICES ASSUME IInv, NEW k \in Sinks
    PROVE  /\ Got(k) \in Nat /\ Len(Delivered[k]) = Got(k) /\ Delivered[k] \in Seq(Stripped)
           /\ Got(k) <= Len(out[k]) /\ Len(out[k]) \in Nat
           /\ \A i \in 1 .. Got(k) : Delivered[k][i] = Strip(out[k][i])
  BY DEF DeliveredIsGot
<1> DEFINE n == Len(out[k])
<1>1. out[k] \in Seq(Message)
  BY DEF IInv, TypeOK
<1>2. n \in Nat /\ \A i \in 1 .. n : out[k][i] \in Message
  BY <1>1, ElementOfSeq, LenProperties
<1>3. Handed(k) => n # 0
  <2>1. Handed(k) => out[k] # <<>>
    BY DEF IInv, Handing, Handed
  <2>2. QED
    BY <1>1, <2>1, EmptySeq
<1> HIDE DEF n
<1>4. Got(k) \in Nat /\ Got(k) <= n
  BY <1>2, <1>3 DEF Got, n
<1>5. n - (IF InHand(k) THEN 1 ELSE 0) = Got(k)
  <2>1. CASE Handed(k)
    BY <1>2, <2>1, InHandIs DEF Got, n
  <2>2. CASE ~Handed(k)
    <3>1. (IF InHand(k) THEN 1 ELSE 0) = 0
      BY <2>2, InHandIs
    <3>2. n - 0 = n
      BY <1>2
    <3>3. QED
      BY <2>2, <3>1, <3>2 DEF Got, n
  <2>3. QED
    BY <2>1, <2>2
<1>6. Delivered[k] = [i \in 1 .. Got(k) |-> Strip(out[k][i])]
  BY <1>5 DEF Delivered, n
<1>7. \A i \in 1 .. Got(k) : Strip(out[k][i]) \in Stripped
  BY <1>2, <1>4 DEF Stripped
<1> DEFINE d == [i \in 1 .. Got(k) |-> Strip(out[k][i])]
<1>8. d \in Seq(Stripped) /\ Len(d) = Got(k)
  BY <1>4, <1>7
<1>9. QED
  BY <1>2, <1>4, <1>6, <1>8 DEF n

(* Delivered by sinks.                                                      *)
LEMMA DeliveredFun == Delivered = [k \in Sinks |-> Delivered[k]]
BY DEF Delivered

(* Nothing is delivered when the lines up to the one in hand stay.          *)
LEMMA SameDelivered ==
  ASSUME DeliveredIsGot, DeliveredIsGot',
         \A k \in Sinks : Got(k)' = Got(k) /\ \A i \in 1 .. Got(k) : out'[k][i] = out[k][i]
  PROVE  Delivered' = Delivered
<1>1. ASSUME NEW k \in Sinks PROVE Delivered'[k] = Delivered[k]
  <2>1. \A i \in 1 .. Got(k) : Delivered'[k][i] = Strip(out'[k][i]) /\ Strip(out'[k][i]) = Delivered[k][i]
    BY DEF DeliveredIsGot
  <2>2. /\ Delivered[k] \in Seq(Stripped) /\ Delivered'[k] \in Seq(Stripped)
        /\ Len(Delivered[k]) = Got(k) /\ Len(Delivered'[k]) = Got(k)
    BY DEF DeliveredIsGot
  <2>3. QED
    BY <2>1, <2>2, SeqEqual
<1>2. Delivered' = [k \in Sinks |-> Delivered'[k]]
  BY DEF Delivered
<1>3. QED
  BY <1>1, <1>2, DeliveredFun

(* What it is to be one element longer.                                     *)
LEMMA AppendedIs ==
  ASSUME NEW S, NEW a \in Seq(S), NEW b \in Seq(S), NEW e \in S, Len(b) = Len(a) + 1,
         \A i \in 1 .. Len(a) : b[i] = a[i], b[Len(a) + 1] = e
  PROVE  b = Append(a, e)
<1> DEFINE c == Append(a, e)
<1>1. /\ c \in Seq(S) /\ Len(c) = Len(a) + 1 /\ c[Len(a) + 1] = e
      /\ \A i \in 1 .. Len(a) : c[i] = a[i]
  BY AppendProperties
<1> HIDE DEF c
<1>2. \A i \in 1 .. Len(b) : i \in 1 .. Len(a) \/ i = Len(a) + 1
  BY LenProperties
<1>3. \A i \in 1 .. Len(b) : b[i] = c[i]
  BY <1>1, <1>2
<1>4. b = c
  BY <1>1, <1>3, SeqEqual
<1>5. QED
  BY <1>4 DEF c

(* A line is delivered to the first n sinks.                                *)
LEMMA MoreDelivered ==
  ASSUME DeliveredIsGot, DeliveredIsGot', NEW l \in Stripped, NEW n \in Nat,
         \A k \in Sinks :
           /\ Got(k)' = (IF k <= n THEN Got(k) + 1 ELSE Got(k))
           /\ k <= n => Strip(out'[k][Got(k) + 1]) = l
           /\ \A i \in 1 .. Got(k) : out'[k][i] = out[k][i]
  PROVE  Delivered' = [k \in Sinks |-> IF k <= n THEN Append(Delivered[k], l) ELSE Delivered[k]]
<1>1. ASSUME NEW k \in Sinks
      PROVE  Delivered'[k] = IF k <= n THEN Append(Delivered[k], l) ELSE Delivered[k]
  <2>1. /\ Delivered[k] \in Seq(Stripped) /\ Delivered'[k] \in Seq(Stripped)
        /\ Len(Delivered[k]) = Got(k) /\ Len(Delivered'[k]) = Got(k)' /\ Got(k) \in Nat
    BY DEF DeliveredIsGot
  <2>2. \A i \in 1 .. Got(k)' : Delivered'[k][i] = Strip(out'[k][i])
    BY DEF DeliveredIsGot
  <2>3. \A i \in 1 .. Got(k) : Strip(out'[k][i]) = Delivered[k][i]
    BY DEF DeliveredIsGot
  <2>4. CASE k <= n
    <3>1. Got(k)' = Got(k) + 1 /\ Strip(out'[k][Got(k) + 1]) = l
      BY <2>4
    <3>2. Got(k) + 1 \in 1 .. Got(k)' /\ \A i \in 1 .. Got(k) : i \in 1 .. Got(k)'
      BY <2>1, <3>1
    <3>3. Delivered'[k][Got(k) + 1] = l /\ \A i \in 1 .. Got(k) : Delivered'[k][i] = Delivered[k][i]
      BY <2>2, <2>3, <3>1, <3>2
    <3>4. Delivered'[k] = Append(Delivered[k], l)
      BY <2>1, <3>1, <3>3, AppendedIs
    <3>5. QED
      BY <2>4, <3>4
  <2>5. CASE ~(k <= n)
    <3>1. Got(k)' = Got(k)
      BY <2>5
    <3>2. Delivered'[k] = Delivered[k]
      BY <2>1, <2>2, <2>3, <3>1, SeqEqual
    <3>3. QED
      BY <2>5, <3>2
  <2>6. QED
    BY <2>4, <2>5
<1>2. Delivered' = [k \in Sinks |-> Delivered'[k]]
  BY DEF Delivered
<1>3. QED
  BY <1>1, <1>2

(* Which steps change the configuration the header shows.                   *)
LEMMA HeaderSteps ==
  ASSUME IInv, NEW t \in Threads, Act(t)
  PROVE  \/ header'.name = header.name /\ header'.opts = header.opts
         \/ RebuildHeader(t) \/ Reformat(t)
<1>1. CASE Header(t)
  <2>1. header' = Stamped(header, call[t].now)
    BY <1>1 DEF Header
  <2>2. QED
    BY <2>1 DEF Stamped, IInv, TypeOK
<1>2. CASE UNCHANGED header
  BY <1>2
<1>3. QED
  BY <1>1, <1>2, SharedSteps DEF Payload, PayloadThrows, AssignName, confVars

(* A thread at "write" writes its line, or the sink throws.                 *)
LEMMA Writes ==
  ASSUME NEW t \in Threads, Act(t), pc[t] = "write"
  PROVE  WriteSink(t) \/ SinkThrows(t)
BY DEF Act, Step, Log, SetName, SetFormatOptions, Flush, Begin, Stamp, Lock, Header, Payload,
   PayloadThrows, FlushGate, FlushSink, FlushThrows, AssignName, RebuildHeader, Reformat, Unlock

(* Only the thread at "write" has a line in hand.                           *)
LEMMA WriterHands ==
  ASSUME IInv, NEW t \in Threads, pc[t] = "write"
  PROVE  /\ \A k : Handed(k) <=> k < at[t]
         /\ \A k : Got(k) = Cut(t, k)
         /\ at[t] \in Sinks
<1>1. \A u \in Threads \ {t} : pc[u] # "write"
  BY Sole DEF IInv, Locked
<1>2. \A k : Handed(k) <=> InHandOf(t, k)
  BY <1>1 DEF Handed, InHandOf
<1>3. at[t] \in Sinks
  BY DEF IInv, Calls, CallOf, Locked
<1>4. QED
  BY <1>2, <1>3 DEF InHandOf, Got, Cut

(* The line t sends, as the service knows it.                               *)
Line(t) == [id |-> call[t].id, by |-> t, lvl |-> call[t].lvl, name |-> header.name, opts |-> header.opts]

(* It may be delivered: it comes after the lines of its thread.             *)
LEMMA LineIsDue ==
  ASSUME IInv, NEW t \in Threads, pc[t] = "write"
  PROVE  /\ Strip(LogMsg(t)) = Line(t) /\ Line(t) \in Stripped
         /\ call[t].id \in 1 .. MaxCalls /\ call[t].lvl \in MsgLevels
         /\ Service!InOrder(Line(t))
<1>1. Strip(LogMsg(t)) = Line(t)
  BY SentWhole DEF IInv, Line
<1>2. LogMsg(t) \in Message
  BY LogMsgType DEF IInv
<1>3. call[t].id \in 1 .. MaxCalls
  <2>1. call[t].id \in 1 .. ncalls /\ ncalls \in 0 .. MaxCalls
    BY DEF IInv, Ids, TypeOK
  <2>2. QED
    BY <2>1, Constants
<1>4. call[t].lvl \in MsgLevels
  BY DEF IInv, Calls, CallOf
<1>5. ASSUME NEW k \in Sinks, NEW i \in DOMAIN Delivered[k], Delivered[k][i].by = t
      PROVE  Delivered[k][i].id < call[t].id
  <2>1. /\ Got(k) \in Nat /\ Len(Delivered[k]) = Got(k) /\ Delivered[k] \in Seq(Stripped)
        /\ \A n \in 1 .. Got(k) : Delivered[k][n] = Strip(out[k][n])
    BY Deliveries DEF DeliveredIsGot
  <2>2. i \in 1 .. Got(k)
    BY <2>1, LenProperties
  <2>3. Delivered[k][i] = Strip(out[k][i]) /\ i \in 1 .. Cut(t, k)
    BY <2>1, <2>2, WriterHands
  <2>4. Older(out[k][i], t)
    BY <2>3 DEF IInv, Ids, Sending
  <2>5. out[k][i].by = t /\ Delivered[k][i].id = out[k][i].id
    BY <1>5, <2>3 DEF Strip
  <2>6. QED
    BY <2>4, <2>5 DEF Older
<1>6. Service!InOrder(Line(t))
  BY <1>5 DEF Service!InOrder, Service!Sinks, Sinks, Line
<1>7. QED
  BY <1>1, <1>2, <1>3, <1>4, <1>6 DEF Stripped

(* The last write of a line, or the throw of a sink, delivers it.           *)
LEMMA Logs ==
  ASSUME IInv, NEW t \in Threads, pc[t] = "write", NEW n \in Sinks,
         Delivered' = [k \in Sinks |-> IF k <= n THEN Append(Delivered[k], Line(t)) ELSE Delivered[k]],
         UNCHANGED <<header, flushed>>
  PROVE  Service!Log
<1>1. Service!Deliver(Line(t), n)
  BY DEF Service!Deliver, Service!Sinks, Sinks
<1>2. QED
  BY <1>1, LineIsDue DEF Service!Log, Service!Sinks, Sinks, Line

(* A write is a stutter, and after the last sink a delivery to all.         *)
LEMMA WriteRefines ==
  ASSUME IInv, DeliveredIsGot, DeliveredIsGot', NEW t \in Threads, WriteSink(t)
  PROVE  Service!Log \/ UNCHANGED Service!vars
<1> DEFINE j == at[t]
<1>1. pc[t] = "write" /\ LogMsg(t) \in Message
  BY LogMsgType DEF WriteSink, IInv
<1>2. /\ j \in Sinks /\ UNCHANGED <<name, header, flushed>>
      /\ \A k \in Sinks \ {j} : out'[k] = out[k]
      /\ Len(out'[j]) = Len(out[j]) + 1
      /\ \A i \in 1 .. Len(out[j]) : out'[j][i] = out[j][i]
      /\ out'[j][Len(out[j]) + 1] = LogMsg(t)
  BY <1>1, SinkAfterWrite DEF IInv
<1>3. \A u \in Threads \ {t} : pc'[u] # "write"
  <2>1. Act(t)
    BY DEF Act, Step
  <2>2. QED
    BY <1>1, <2>1, OthersStand, Sole DEF IInv, Locked
<1>4. \A k : Handed(k)' <=> pc'[t] = "write" /\ k < at'[t]
  BY <1>3 DEF Handed, InHandOf
<1>5. \A k \in Sinks : Handed(k) <=> k < j
  BY <1>1, WriterHands
<1>6. \A k \in Sinks : /\ Got(k) \in Nat /\ Len(out[k]) \in Nat /\ Got(k) <= Len(out[k])
  BY DEF DeliveredIsGot
<1>7. \A k \in Sinks : \A i \in 1 .. Got(k) : out'[k][i] = out[k][i]
  BY <1>2, <1>6
<1>8. CASE j < NSinks
  <2>1. at' = [at EXCEPT ![t] = @ + 1] /\ pc' = pc
    BY <1>8 DEF WriteSink
  <2>2. at'[t] = j + 1 /\ pc'[t] = "write"
    BY <1>1, <2>1 DEF IInv, TypeOK
  <2> HIDE DEF j
  <2>3. \A k \in Sinks : Handed(k)' <=> k <= j
    BY <1>2, <1>4, <2>2, Constants
  <2>4. ASSUME NEW k \in Sinks PROVE Got(k)' = Got(k)
    <3>1. CASE k = j
      <4>1. ~Handed(k) /\ Handed(k)'
        BY <1>2, <1>5, <2>3, <3>1, Constants
      <4>2. Got(k) = Len(out[j]) /\ Got(k)' = Len(out'[j]) - 1
        BY <3>1, <4>1 DEF Got
      <4>3. QED
        BY <1>2, <1>6, <4>2
    <3>2. CASE k # j
      <4>1. Handed(k)' <=> Handed(k)
        BY <1>2, <1>5, <2>3, <3>2, Constants
      <4>2. QED
        BY <1>2, <3>2, <4>1 DEF Got
    <3>3. QED
      BY <3>1, <3>2
  <2>5. Delivered' = Delivered
    BY <1>7, <2>4, SameDelivered
  <2>6. QED
    BY <1>2, <2>5 DEF Service!vars
<1>9. CASE ~(j < NSinks)
  <2>1. pc'[t] = "gate" /\ j = NSinks
    BY <1>2, <1>9, Constants DEF WriteSink, Goto, IInv, TypeOK
  <2> HIDE DEF j
  <2>2. \A k \in Sinks : ~Handed(k)' /\ k <= NSinks
    BY <1>4, <2>1, Constants
  <2>3. Strip(LogMsg(t)) = Line(t) /\ Line(t) \in Stripped
    BY <1>1, LineIsDue
  <2>4. ASSUME NEW k \in Sinks
        PROVE  Got(k)' = Got(k) + 1 /\ Strip(out'[k][Got(k) + 1]) = Line(t)
    <3>1. CASE k = j
      <4>1. ~Handed(k)
        BY <1>2, <1>5, <3>1, Constants
      <4>2. Got(k) = Len(out[j]) /\ Got(k)' = Len(out'[j])
        BY <2>2, <3>1, <4>1 DEF Got
      <4>3. QED
        BY <1>2, <2>3, <3>1, <4>2
    <3>2. CASE k # j
      <4>1. InHandOf(t, k) /\ Handed(k)
        BY <1>1, <1>2, <1>5, <2>1, <3>2, Constants DEF InHandOf, j
      <4>2. Got(k) = Len(out[k]) - 1 /\ Got(k)' = Len(out[k])
        BY <1>2, <2>2, <3>2, <4>1 DEF Got
      <4>3. out[k][Len(out[k])] = LogMsg(t)
        BY <4>1 DEF IInv, Handing
      <4>4. Got(k) + 1 = Len(out[k])
        BY <1>6, <4>2
      <4>5. QED
        BY <1>2, <2>3, <3>2, <4>2, <4>3, <4>4
    <3>3. QED
      BY <3>1, <3>2
  <2>5. Delivered' = [k \in Sinks |-> IF k <= NSinks THEN Append(Delivered[k], Line(t)) ELSE Delivered[k]]
    <3>1. NSinks \in Nat
      BY Constants
    <3>2. \A k \in Sinks :
            /\ Got(k)' = (IF k <= NSinks THEN Got(k) + 1 ELSE Got(k))
            /\ k <= NSinks => Strip(out'[k][Got(k) + 1]) = Line(t)
            /\ \A i \in 1 .. Got(k) : out'[k][i] = out[k][i]
      BY <1>7, <2>2, <2>4
    <3>3. QED
      BY <2>3, <3>1, <3>2, MoreDelivered
  <2>6. QED
    BY <1>1, <1>2, <2>1, <2>5, Logs
<1>10. QED
  BY <1>8, <1>9

(* A sink that throws is a delivery to the sinks before it.                 *)
LEMMA ThrowRefines ==
  ASSUME IInv, DeliveredIsGot, DeliveredIsGot', NEW t \in Threads, SinkThrows(t)
  PROVE  Service!Log \/ UNCHANGED Service!vars
<1> DEFINE j == at[t]
<1>1. pc[t] = "write" /\ UNCHANGED <<out, header, flushed>>
  BY DEF SinkThrows, confVars, sinkVars
<1>2. \A u \in Threads : pc'[u] # "write"
  <2>1. Act(t)
    BY DEF Act, Step
  <2>2. pc'[t] = "unlock"
    BY DEF SinkThrows, Goto, IInv, TypeOK
  <2>3. QED
    BY <1>1, <2>1, <2>2, OthersStand, Sole DEF IInv, Locked
<1>3. \A k \in Sinks : ~Handed(k)' /\ (Handed(k) <=> k < j) /\ j \in Sinks
  BY <1>1, <1>2, WriterHands DEF Handed, InHandOf
<1>4. \A k \in Sinks : Got(k) \in Nat /\ Len(out[k]) \in Nat
  BY DEF DeliveredIsGot
<1>5. j \in Sinks
  BY <1>1, WriterHands
<1>6. CASE j = 1
  <2>1. \A k \in Sinks : ~Handed(k)
    BY <1>3, <1>6, Constants
  <2>2. \A k \in Sinks : Got(k)' = Got(k)
    BY <1>1, <1>3, <2>1 DEF Got
  <2>3. Delivered' = Delivered
    BY <1>1, <2>2, SameDelivered
  <2>4. QED
    BY <1>1, <2>3 DEF Service!vars
<1>7. CASE j # 1
  <2>1. j - 1 \in Sinks /\ j - 1 \in Nat /\ \A k \in Sinks : k <= j - 1 <=> k < j
    BY <1>5, <1>7, Constants
  <2> DEFINE n == j - 1
  <2>2. Strip(LogMsg(t)) = Line(t) /\ Line(t) \in Stripped
    BY <1>1, LineIsDue
  <2>3. n \in Sinks /\ n \in Nat /\ \A k \in Sinks : k <= n <=> Handed(k)
    BY <1>3, <2>1
  <2> HIDE DEF n, j
  <2>4. ASSUME NEW k \in Sinks
        PROVE  /\ Got(k)' = (IF k <= n THEN Got(k) + 1 ELSE Got(k))
               /\ k <= n => Strip(out'[k][Got(k) + 1]) = Line(t)
    <3>1. Got(k)' = Len(out[k])
      BY <1>1, <1>3 DEF Got
    <3>2. CASE k <= n
      <4>1. Got(k) = Len(out[k]) - 1
        BY <2>3, <3>2 DEF Got
      <4>2. Got(k) + 1 = Len(out[k])
        BY <1>4, <4>1
      <4>3. InHandOf(t, k)
        BY <1>1, <1>3, <2>3, <3>2 DEF InHandOf, j
      <4>4. out[k][Len(out[k])] = LogMsg(t)
        BY <4>3 DEF IInv, Handing
      <4>5. QED
        BY <1>1, <2>2, <3>1, <3>2, <4>2, <4>4
    <3>3. CASE ~(k <= n)
      BY <2>3, <3>1, <3>3 DEF Got
    <3>4. QED
      BY <3>2, <3>3
  <2>5. Delivered' = [k \in Sinks |-> IF k <= n THEN Append(Delivered[k], Line(t)) ELSE Delivered[k]]
    BY <1>1, <2>2, <2>3, <2>4, MoreDelivered
  <2>6. QED
    BY <1>1, <2>3, <2>5, Logs
<1>8. QED
  BY <1>6, <1>7

(* Every step of a thread is a step of the service, or a stutter.           *)
LEMMA StepRefines ==
  ASSUME IInv, DeliveredIsGot, DeliveredIsGot', NEW t \in Threads, Act(t)
  PROVE  Service!Next \/ UNCHANGED Service!vars
<1>1. CASE WriteSink(t)
  BY <1>1, WriteRefines DEF Service!Next
<1>2. CASE SinkThrows(t)
  BY <1>2, ThrowRefines DEF Service!Next
<1>3. CASE ~WriteSink(t) /\ ~SinkThrows(t)
  <2>1. out' = out /\ pc[t] # "write" /\ (pc'[t] = "write" => at'[t] = 1)
    <3>1. pc[t] # "write" /\ out' = out
      BY <1>3, Writes, SharedSteps
    <3>2. CASE Step(t)
      BY <1>3, <3>1, <3>2, Goes DEF IInv
    <3>3. CASE Begins(t)
      BY <3>1, <3>3, Begun DEF IInv
    <3>4. QED
      BY <3>2, <3>3 DEF Act, Begins
  <2>2. \A k \in Sinks : Handed(k)' <=> Handed(k)
    <3>1. \A k \in Sinks : ~InHandOf(t, k) /\ ~InHandOf(t, k)'
      BY <2>1, Constants DEF InHandOf
    <3>2. \A k \in Sinks : \A u \in Threads \ {t} : InHandOf(u, k)' <=> InHandOf(u, k)
      BY OthersStand DEF InHandOf, IInv
    <3>3. QED
      BY <3>1, <3>2 DEF Handed
  <2>3. Delivered' = Delivered
    <3>1. \A k \in Sinks : Got(k)' = Got(k)
      BY <2>1, <2>2 DEF Got
    <3>2. QED
      BY <2>1, <3>1, SameDelivered
  <2>4. CASE RebuildHeader(t)
    <3>1. header' = Rebuilt(call[t].arg, header.opts) /\ flushed' = flushed
      BY <2>4 DEF RebuildHeader, sinkVars
    <3>2. call[t].arg \in Names
      BY <2>4 DEF RebuildHeader, IInv, Calls, CallOf
    <3>3. Service!SetName
      BY <2>3, <3>1, <3>2 DEF Service!SetName, Rebuilt
    <3>4. QED
      BY <3>3 DEF Service!Next
  <2>5. CASE Reformat(t)
    <3>1. header' = Rebuilt(name, call[t].arg) /\ flushed' = flushed /\ pc[t] = "reformat"
      BY <2>5 DEF Reformat, sinkVars
    <3>2. call[t].arg \in Opts
      BY <3>1 DEF IInv, Calls, CallOf
    <3>3. name = header.name
      BY <3>1, Sole DEF IInv, Config, Locked
    <3>4. Service!SetFormatOptions
      BY <2>3, <3>1, <3>2, <3>3 DEF Service!SetFormatOptions, Rebuilt
    <3>5. QED
      BY <3>4 DEF Service!Next
  <2>6. CASE FlushSink(t)
    <3>1. header' = header /\ flushed' = [flushed EXCEPT ![at[t]] = Len(out[at[t]])] /\ pc[t] = "flush"
      BY <2>6 DEF FlushSink, confVars
    <3>2. at[t] \in Sinks
      BY <3>1 DEF IInv, Calls, CallOf, Locked
    <3>3. \A u \in Threads : pc[u] # "write"
      BY <3>1, Sole DEF IInv, Locked
    <3>4. Len(Delivered[at[t]]) = Len(out[at[t]])
      BY <3>2, <3>3 DEF DeliveredIsGot, Got, Handed, InHandOf
    <3>5. Service!FlushSink
      BY <2>3, <3>1, <3>2, <3>4 DEF Service!FlushSink, Service!Sinks, Sinks
    <3>6. QED
      BY <3>5 DEF Service!Next
  <2>7. CASE ~RebuildHeader(t) /\ ~Reformat(t) /\ ~FlushSink(t)
    <3>1. header'.name = header.name /\ header'.opts = header.opts
      BY <2>7, HeaderSteps
    <3>2. flushed' = flushed
      BY <2>7, SharedSteps
    <3>3. QED
      BY <2>3, <3>1, <3>2 DEF Service!vars
  <2>8. QED
    BY <2>4, <2>5, <2>6, <2>7
<1>4. QED
  BY <1>1, <1>2, <1>3

(* The logger, with its mutex, its cached header and its fold over sinks    *)
(* that may throw, is a logger whose calls each take effect at one instant. *)
THEOREM LoggerImplementsService == Spec => ImplementsService
<1>1. Init => Service!Init
  <2> SUFFICES ASSUME Init PROVE Service!Init
    OBVIOUS
  <2>1. header.name \in Names /\ header.opts \in Opts /\ flushed = [k \in Sinks |-> 0]
    BY DEF Init
  <2>2. ASSUME NEW k \in Sinks PROVE Delivered[k] = <<>>
    <3>1. out[k] = <<>>
      BY DEF Init
    <3>2. Len(out[k]) - (IF InHand(k) THEN 1 ELSE 0) = 0
      BY <3>1 DEF InHand
    <3>3. Delivered[k] = [i \in 1 .. 0 |-> Strip(out[k][i])]
      BY <3>2 DEF Delivered
    <3>4. QED
      BY <3>3
  <2>3. Delivered = [k \in Sinks |-> <<>>]
    BY <2>2, DeliveredFun
  <2>4. QED
    BY <2>1, <2>3 DEF Service!Init, Service!Sinks, Sinks
<1>2. IInv => DeliveredIsGot
  BY Deliveries
<1>3. IInv /\ DeliveredIsGot /\ DeliveredIsGot' /\ [Next]_vars => [Service!Next]_(Service!vars)
  <2> SUFFICES ASSUME IInv, DeliveredIsGot, DeliveredIsGot', [Next]_vars
               PROVE  Service!Next \/ UNCHANGED Service!vars
    OBVIOUS
  <2>1. CASE \E t \in Threads : Act(t)
    BY <2>1, StepRefines
  <2>2. CASE SetLogLevel \/ SetFlushLevel \/ GetName \/ UNCHANGED vars
    <3>1. UNCHANGED <<header, out, flushed, pc, call>>
      BY <2>2 DEF SetLogLevel, SetFlushLevel, GetName, vars, confVars, sinkVars, threadVars
    <3>2. Delivered' = Delivered
      BY <3>1 DEF Delivered, InHand
    <3>3. QED
      BY <3>1, <3>2 DEF Service!vars
  <2>3. QED
    BY <2>1, <2>2 DEF Next, Act
<1>4. QED
  BY <1>1, <1>2, <1>3, Inductive, PTL DEF Spec, ImplementsService, Service!Spec

=============================================================================
