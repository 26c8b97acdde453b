---------------------------- MODULE RunLifecycle ----------------------------
(***************************************************************************)
(* What the process table promises to whoever watches a run: the phases a  *)
(* run goes through, whatever processes, signals and timers lie behind it. *)
(* A run that ended, one way, never moves again; a run that was asked to   *)
(* stop is never reported as failed; a run is reported as finished only    *)
(* after it was up.                                                        *)
(***************************************************************************)
CONSTANT Runs
VARIABLE phase

Phase == {"none", "pending", "up", "stopping", "finished", "failed", "left"}
Over == {"finished", "failed", "left"}

Steps == {
  <<"none", "pending">>,      \* launched
  <<"none", "failed">>,       \* could not even be forked
  <<"none", "up">>,           \* adopted from an earlier session
  <<"pending", "up">>, <<"pending", "failed">>,
  <<"pending", "stopping">>, <<"up", "stopping">>,
  <<"up", "finished">>, <<"up", "failed">>,
  <<"stopping", "finished">>,
  <<"pending", "left">>, <<"up", "left">>, <<"stopping", "left">>}

Init == phase = [r \in Runs |-> "none"]

(* One handler may move several runs: stopCommand, killAll, detachAll.     *)
Next ==
  /\ phase' \in [Runs -> Phase]
  /\ \A r \in Runs : phase'[r] = phase[r] \/ <<phase[r], phase'[r]>> \in Steps

Spec == Init /\ [][Next]_phase

=============================================================================
