------------------------------ MODULE MCSession ------------------------------
(* TLC instances of Session.  Renaming pids maps behaviours to behaviours. *)
EXTENDS Session, TLC

PidSymmetry == Permutations(Pids)

=============================================================================
