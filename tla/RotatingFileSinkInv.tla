------------------------ MODULE RotatingFileSinkInv ------------------------
(* The inductive strengthening of RotatingFileSink's safety invariants, in  *)
(* named parts. NoWrap is the condition on the constants under which it is  *)
(* inductive: no archive of the first start is within MaxMsgs of SIZE_MAX.  *)
EXTENDS RotatingFileSink

NoWrap == InitTop + MaxMsgs < SizeMax

Running == pc # "down"
Writing == pc \in {"rename", "trim", "reopen", "truncate", "append"}

PhaseInv ==
  /\ file_open => pc \in {"ready", "append"}
  /\ pc = "append" => file_open
  /\ pc \in {"trim", "reopen"} => lines = {}
  /\ pc = "truncate" => attempt = MaxAttempts
  /\ pc \in {"down", "relist", "sweep", "open"} => current_size = 0

(* Each archive, and each use of the counter, was paid for by a write().    *)
CounterInv ==
  /\ \A i \in Index : kind[i] = "regular" => i \in 1 .. InitTop + nmsg
  /\ \A i \in Index : archive[i] # {} => kind[i] = "regular"
  /\ next_index \in 1 .. InitTop + nmsg + 1
  /\ pc = "rename" => next_index <= InitTop + nmsg
  /\ used <= InitTop + nmsg

AheadInv == listed /\ Running => \A i \in Archives : i < next_index

(* With a window that keeps an archive, the last one made is still there.   *)
UsedInv ==
  listed /\ 0 \notin WindowSizes /\ used > 0 =>
    /\ used \in Archives
    /\ \A i \in Archives : i <= used
    /\ Running => next_index = used + 1

OrderInv ==
  /\ \A e \in lines : e.id <= nmsg /\ e.to <= size
  /\ \A i \in Index : \A e \in archive[i] : e.id <= nmsg
  /\ Writing => /\ \A e \in lines : e.id < nmsg
                /\ \A i \in Index : \A e \in archive[i] : e.id < nmsg
  /\ Chronological

CapInv ==
  /\ CapHolds
  /\ file_open => size = current_size + uncounted
  /\ pc = "append" => size = uncounted \/ current_size + pending <= MaxSize

WindowInv ==
  listed => \A i \in Archives \ undeleted :
    /\ pc \in {"open", "ready", "rename", "reopen", "truncate", "append"} => next_index <= i + max_files
    /\ pc = "trim" => next_index <= i + max_files + 1

(* Inductive under NoWrap; it implies TypeOK, Chronological, NoClobber,     *)
(* CapHolds, WindowHolds and CounterResumes.                                *)
IInv ==
  TypeOK /\ PhaseInv /\ CounterInv /\ AheadInv /\ UsedInv /\ OrderInv /\ CapInv /\ WindowInv

=============================================================================
