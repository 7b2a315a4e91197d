----------------------------- MODULE LogService -----------------------------
(***************************************************************************)
(* What a logger promises to the threads that share it, as if every call   *)
(* took effect at one instant: a log call delivers one line, with the name  *)
(* and the layout configured at that instant, to its sinks in order; it    *)
(* may fail on the way, and then the sinks it had not reached get nothing. *)
(* The lines of one thread arrive in the order it issued them.             *)
(***************************************************************************)
EXTENDS Sequences, Naturals

CONSTANTS Threads, NSinks, Ids, Levels, Names, Opts

VARIABLES
  name, opts,  \* the configuration
  out,         \* the lines each sink received
  flushed      \* how many of them it was told to flush

vars == <<name, opts, out, flushed>>

Sinks == 1 .. NSinks

Init ==
  /\ name \in Names /\ opts \in Opts
  /\ out = [k \in Sinks |-> <<>>]
  /\ flushed = [k \in Sinks |-> 0]

(* Sinks 1 .. n get the line.                                              *)
Deliver(l, n) == out' = [k \in Sinks |-> IF k <= n THEN Append(out[k], l) ELSE out[k]]

(* The line comes after everything its thread delivered before.            *)
InOrder(l) == \A k \in Sinks : \A i \in DOMAIN out[k] : out[k][i].by = l.by => out[k][i].id < l.id

Log ==
  /\ \E id \in Ids, t \in Threads, lvl \in Levels, n \in Sinks :
       LET l == [id |-> id, by |-> t, lvl |-> lvl, name |-> name, opts |-> opts]
       IN  InOrder(l) /\ Deliver(l, n)
  /\ UNCHANGED <<name, opts, flushed>>

SetName == name' \in Names /\ UNCHANGED <<opts, out, flushed>>

SetFormatOptions == opts' \in Opts /\ UNCHANGED <<name, out, flushed>>

FlushSink ==
  /\ \E k \in Sinks : flushed' = [flushed EXCEPT ![k] = Len(out[k])]
  /\ UNCHANGED <<name, opts, out>>

Next == Log \/ SetName \/ SetFormatOptions \/ FlushSink

Spec == Init /\ [][Next]_vars

=============================================================================
