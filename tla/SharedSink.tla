----------------------------- MODULE SharedSink -----------------------------
(***************************************************************************)
(* Loggers that write to the same stdio streams: through copies of one     *)
(* shared_sink per stream, or each through a stdout_sink of its own.       *)
(*                                                                         *)
(* A logger hands a line to the sinks of its tuple in order, one call at a *)
(* time (its own mutex, see Logger). fwrite_unlocked and fflush belong to  *)
(* the C library; what matters here is that neither is one step: both read *)
(* the position in the stream's buffer, move bytes, and then set the       *)
(* position.                                                               *)
(***************************************************************************)
EXTENDS Naturals, Sequences

CONSTANTS
  Loggers,
  NStreams,   \* streams, each in the tuple of every logger
  Reversed,   \* loggers whose tuple lists the streams backwards
  Shared,     \* TRUE: copies of a shared_sink; FALSE: a stdout_sink for each logger
  LineLen,    \* bytes of a line
  Capacity,   \* bytes of a stream's buffer
  MaxCalls,   \* bound: calls each logger makes
  None        \* model value: no logger

ASSUME SharedAssumption ==
  /\ None \notin Loggers /\ Reversed \subseteq Loggers
  /\ NStreams \in Nat \ {0} /\ Shared \in BOOLEAN
  /\ LineLen \in Nat \ {0} /\ Capacity \in Nat /\ LineLen <= Capacity
  /\ MaxCalls \in Nat

VARIABLES
  mutex,              \* per stream: holder of the mutex its shared_sink copies share
  buf, pos, file,     \* per stream: its buffer, the bytes used of it, what was written out
  pc, op, at, found,  \* per logger: next step, the call, place in its tuple, position read
  ncalls,             \* per logger: calls so far
  written,            \* per stream: the lines completed, in the order they were
  flushed             \* per stream: how many of them a returned flush covers

streamVars == <<buf, pos, file>>
vars == <<mutex, streamVars, pc, op, at, found, ncalls, written, flushed>>

Streams == 1 .. NStreams

(* The stream of the k-th sink of logger l. *)
StreamAt(l, k) == IF l \in Reversed THEN NStreams + 1 - k ELSE k

Here(l) == StreamAt(l, at[l])

LineOf(l) == <<l, ncalls[l]>>

Bytes(line) == [i \in 1 .. LineLen |-> <<line, i>>]

(* The buffer after bytes were copied behind the first n. *)
Overwritten(b, n, bytes) ==
  SubSeq(b, 1, n) \o bytes \o SubSeq(b, n + Len(bytes) + 1, Len(b))

Goto(l, p) == pc' = [pc EXCEPT ![l] = p]

-----------------------------------------------------------------------------
Init ==
  /\ mutex = [s \in Streams |-> None]
  /\ buf = [s \in Streams |-> <<>>]
  /\ pos = [s \in Streams |-> 0]
  /\ file = [s \in Streams |-> <<>>]
  /\ pc = [l \in Loggers |-> "idle"]
  /\ op = [l \in Loggers |-> "none"]
  /\ at = [l \in Loggers |-> 1]
  /\ found = [l \in Loggers |-> 0]
  /\ ncalls = [l \in Loggers |-> 0]
  /\ written = [s \in Streams |-> <<>>]
  /\ flushed = [s \in Streams |-> 0]

Begin(l, o) ==
  /\ pc[l] = "idle"
  /\ ncalls[l] < MaxCalls
  /\ ncalls' = [ncalls EXCEPT ![l] = @ + 1]
  /\ op' = [op EXCEPT ![l] = o]
  /\ at' = [at EXCEPT ![l] = 1]
  /\ Goto(l, "lock")
  /\ UNCHANGED <<mutex, streamVars, found, written, flushed>>

Write(l) == Begin(l, "write")
Flush(l) == Begin(l, "flush")

(* Entry of shared_sink::write and flush; a stdout_sink has no lock.        *)
(* Mutation: only write() locks.                                            *)
LockWritesOnly(l) ==
  /\ pc[l] = "lock"
  /\ IF Shared /\ op[l] = "write"
     THEN mutex[Here(l)] = None /\ mutex' = [mutex EXCEPT ![Here(l)] = l]
     ELSE UNCHANGED mutex
  /\ Goto(l, "find")
  /\ UNCHANGED <<streamVars, op, at, found, ncalls, written, flushed>>

Lock(l) ==
  /\ pc[l] = "lock"
  /\ IF Shared
     THEN mutex[Here(l)] = None /\ mutex' = [mutex EXCEPT ![Here(l)] = l]
     ELSE UNCHANGED mutex
  /\ Goto(l, "find")
  /\ UNCHANGED <<streamVars, op, at, found, ncalls, written, flushed>>

FindPosition(l) ==
  /\ pc[l] = "find"
  /\ found' = [found EXCEPT ![l] = pos[Here(l)]]
  /\ Goto(l, IF op[l] = "write" THEN "copy" ELSE "drain")
  /\ UNCHANGED <<mutex, streamVars, op, at, ncalls, written, flushed>>

(* A line that does not fit makes the stream write its buffer out first. *)
CopyLine(l) ==
  LET s == Here(l) IN
  /\ pc[l] = "copy"
  /\ IF found[l] + LineLen <= Capacity
     THEN /\ buf' = [buf EXCEPT ![s] = Overwritten(@, found[l], Bytes(LineOf(l)))]
          /\ UNCHANGED <<file, pos, found>>
     ELSE /\ file' = [file EXCEPT ![s] = @ \o SubSeq(buf[s], 1, found[l])]
          /\ buf' = [buf EXCEPT ![s] = Bytes(LineOf(l))]
          /\ pos' = [pos EXCEPT ![s] = 0]
          /\ found' = [found EXCEPT ![l] = 0]
  /\ Goto(l, "advance")
  /\ UNCHANGED <<mutex, op, at, ncalls, written, flushed>>

Advance(l) ==
  LET s == Here(l) IN
  /\ pc[l] = "advance"
  /\ pos' = [pos EXCEPT ![s] = found[l] + LineLen]
  /\ written' = [written EXCEPT ![s] = Append(@, LineOf(l))]
  /\ Goto(l, "unlock")
  /\ UNCHANGED <<mutex, buf, file, op, at, found, ncalls, flushed>>

Drain(l) ==
  LET s == Here(l) IN
  /\ pc[l] = "drain"
  /\ file' = [file EXCEPT ![s] = @ \o SubSeq(buf[s], 1, found[l])]
  /\ Goto(l, "reset")
  /\ UNCHANGED <<mutex, buf, pos, op, at, found, ncalls, written, flushed>>

Reset(l) ==
  LET s == Here(l) IN
  /\ pc[l] = "reset"
  /\ pos' = [pos EXCEPT ![s] = 0]
  /\ flushed' = [flushed EXCEPT ![s] = Len(written[s])]
  /\ Goto(l, "unlock")
  /\ UNCHANGED <<mutex, buf, file, op, at, found, ncalls, written>>

(* The lock_guard of write() or flush() goes out of scope, and the logger   *)
(* turns to its next sink. Mutations: the locks are kept to the end; one    *)
(* sink too many.                                                           *)
UnlockPast(l) ==
  /\ pc[l] = "unlock"
  /\ mutex' = IF Shared THEN [mutex EXCEPT ![Here(l)] = None] ELSE mutex
  /\ IF at[l] <= NStreams
     THEN at' = [at EXCEPT ![l] = @ + 1] /\ Goto(l, "lock")
     ELSE at' = [at EXCEPT ![l] = 1] /\ Goto(l, "idle")
  /\ UNCHANGED <<streamVars, op, found, ncalls, written, flushed>>

UnlockAtEnd(l) ==
  /\ pc[l] = "unlock"
  /\ IF at[l] < NStreams
     THEN /\ at' = [at EXCEPT ![l] = @ + 1] /\ Goto(l, "lock") /\ UNCHANGED mutex
     ELSE /\ at' = [at EXCEPT ![l] = 1] /\ Goto(l, "idle")
          /\ mutex' = [s \in Streams |-> IF mutex[s] = l THEN None ELSE mutex[s]]
  /\ UNCHANGED <<streamVars, op, found, ncalls, written, flushed>>

Unlock(l) ==
  /\ pc[l] = "unlock"
  /\ mutex' = IF Shared THEN [mutex EXCEPT ![Here(l)] = None] ELSE mutex
  /\ IF at[l] < NStreams
     THEN at' = [at EXCEPT ![l] = @ + 1] /\ Goto(l, "lock")
     ELSE at' = [at EXCEPT ![l] = 1] /\ Goto(l, "idle")
  /\ UNCHANGED <<streamVars, op, found, ncalls, written, flushed>>

Step(l) ==
  \/ Lock(l) \/ FindPosition(l) \/ CopyLine(l) \/ Advance(l) \/ Drain(l) \/ Reset(l) \/ Unlock(l)

Next == \E l \in Loggers : Write(l) \/ Flush(l) \/ Step(l)

Spec == Init /\ [][Next]_vars /\ \A l \in Loggers : WF_vars(Step(l))

-----------------------------------------------------------------------------
Line == Loggers \X (1 .. MaxCalls)
Byte == Line \X (1 .. LineLen)

TypeOK ==
  /\ mutex \in [Streams -> Loggers \cup {None}]
  /\ buf \in [Streams -> Seq(Byte)] /\ file \in [Streams -> Seq(Byte)]
  /\ pos \in [Streams -> 0 .. Capacity] /\ \A s \in Streams : pos[s] <= Len(buf[s])
  /\ pc \in [Loggers -> {"idle", "lock", "find", "copy", "advance", "drain", "reset", "unlock"}]
  /\ op \in [Loggers -> {"none", "write", "flush"}]
  /\ at \in [Loggers -> Streams] /\ found \in [Loggers -> 0 .. Capacity]
  /\ ncalls \in [Loggers -> 0 .. MaxCalls]
  /\ written \in [Streams -> Seq(Line)]
  /\ flushed \in [Streams -> Nat]

(* The bytes of the lines, one line after the other. *)
Flattened(s) ==
  [i \in 1 .. Len(written[s]) * LineLen |->
     <<written[s][((i - 1) \div LineLen) + 1], ((i - 1) % LineLen) + 1>>]

Busy(s) ==
  \E l \in Loggers : Here(l) = s /\ pc[l] \in {"copy", "advance", "drain", "reset"}

(* While no logger is at a stream, its file and its buffer hold exactly the *)
(* lines completed, whole and in the order they were: two loggers neither   *)
(* overwrite, tear, repeat nor lose a line of each other.                   *)
LinesIntact ==
  \A s \in Streams : ~Busy(s) => file[s] \o SubSeq(buf[s], 1, pos[s]) = Flattened(s)

(* What a flush covered is in the file, whoever wrote since.                *)
FlushedOut == \A s \in Streams : flushed[s] * LineLen <= Len(file[s])

(* Every call ends: loggers whose tuples list the same shared sinks in      *)
(* opposite order do not wait for each other in a circle.                   *)
CallReturns == \A l \in Loggers : pc[l] # "idle" ~> pc[l] = "idle"

=============================================================================
