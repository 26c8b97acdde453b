------------------------- MODULE MCCommandExecutor -------------------------
(* TLC instances of CommandExecutor: model values for commands and pids.   *)
EXTENDS CommandExecutor, TLC

(* Pids are interchangeable.  Sound for invariants and action properties;  *)
(* the runs with liveness do not use it.                                   *)
PidSymmetry == Permutations(Pids)

=============================================================================
