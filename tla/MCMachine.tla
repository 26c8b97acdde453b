------------------------------ MODULE MCMachine ------------------------------
(***************************************************************************)
(* The self-update and the Docker page share no state, so that interleaving*)
(* steps of two of them shows nothing: a behaviour picks one and runs it.  *)
(***************************************************************************)
EXTENDS Updater, DockerPage

VARIABLE focus \* what runs
machineVars == <<focus, updaterVars, dockerVars, dockerLogsVars>>

MachineInit ==
  /\ focus \in {"updater", "docker", "logs"}
  /\ UpdaterInit /\ DockerInit /\ DockerLogsInit
  /\ focus # "docker" => daemon = "up"

UpdaterOnly == focus = "updater" /\ UNCHANGED <<focus, dockerVars, dockerLogsVars>>
DockerOnly  == focus = "docker" /\ UNCHANGED <<focus, updaterVars, dockerLogsVars>>
LogsOnly    == focus = "logs" /\ UNCHANGED <<focus, updaterVars, dockerVars>>

MachineNext ==
  \/ UpdaterOnly /\ UpdaterNext
  \/ DockerOnly /\ DockerNext
  \/ LogsOnly /\ DockerLogsNext

(* Replies and child processes end or are timed out, worker threads go on, *)
(* and timers fire.                                                        *)
MachineSpec ==
  /\ MachineInit /\ [][MachineNext]_machineVars
  /\ WF_machineVars(UpdaterOnly /\ UpdaterEnds)
  /\ WF_machineVars(DockerOnly /\ OperationThread)
  /\ WF_machineVars(LogsOnly /\ (LogsThread \/ FollowLogs))

(* DockerSettles where Docker runs: elsewhere its first scan rests.        *)
DockerComesBack == focus = "docker" => DockerSettles

(* Whatever replies, processes and threads the dialog and the page wait    *)
(* for, the waiting ends, and an open card is asked for.                   *)
MachineSettles == UpdateSettles /\ DockerComesBack /\ OpenLogsAreAsked
=============================================================================
