------------------------------ MODULE MCLogger ------------------------------
(* Logger for TLC: threads, names and options are interchangeable, in the   *)
(* runs that check no liveness.                                             *)
EXTENDS Logger, TLC

Symmetry == Permutations(Threads) \cup Permutations(Names) \cup Permutations(Opts)

=============================================================================
