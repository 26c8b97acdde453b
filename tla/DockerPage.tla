----------------------------- MODULE DockerPage -----------------------------
(***************************************************************************)
(* The Docker page as a whole: the backend's operations and statistics and *)
(* the logs of the open card, which share no state.                        *)
(***************************************************************************)
EXTENDS DockerService, DockerLogs

DockerPageSpec ==
  /\ DockerInit /\ [][DockerNext]_dockerVars
  /\ DockerLogsInit /\ [][DockerLogsNext]_dockerLogsVars

(* The flags of the Docker page are those of what is under way.            *)
DockerSound ==
  /\ DockerTypeOK
  /\ DockerLogsTypeOK
  /\ OneLoader

(* Nothing the Docker page shows is replaced by something older: not its   *)
(* lists, not the statistics, not the logs of an open card.                *)
DockerMovesOn == PageMovesOn /\ StatsMoveOn /\ LogsFollow

=============================================================================
