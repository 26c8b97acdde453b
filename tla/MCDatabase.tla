------------------------------ MODULE MCDatabase ------------------------------
(***************************************************************************)
(* The list of the database services and the saved connection of one share *)
(* no state: a behaviour picks one of the two and runs it.                 *)
(***************************************************************************)
EXTENDS DatabaseService, DatabaseConnections

VARIABLE about \* "services" or "connections"
databasesVars == <<about, databaseVars, connectionVars>>

MCInstalls ==
  {[id |-> "mysql", engine |-> 1, source |-> "homebrew", version |-> <<9>>, port |-> 1],
   [id |-> "mysql8", engine |-> 1, source |-> "homebrew", version |-> <<8, 4>>, port |-> 1],
   [id |-> "app16", engine |-> 2, source |-> "postgresapp", version |-> <<16>>, port |-> 2]}

DatabasesInit ==
  /\ about \in {"services", "connections"}
  /\ DatabaseInit /\ ConnectionsInit
  /\ about # "services" => serving = {}

ServicesOnly    == about = "services" /\ UNCHANGED <<about, connectionVars>>
ConnectionsOnly == about = "connections" /\ UNCHANGED <<about, databaseVars>>

DatabasesNext ==
  \/ ServicesOnly /\ DatabaseNext
  \/ ConnectionsOnly /\ ConnectionsNext

(* Worker threads go on: each of their calls ends or is timed out.         *)
DatabasesSpec ==
  /\ DatabasesInit /\ [][DatabasesNext]_databasesVars
  /\ WF_databasesVars(ServicesOnly /\ JobThread)

(* DatabaseSettles where the list is run: elsewhere its first scan rests.  *)
DatabaseComesBack == about = "services" => DatabaseSettles

(* The page goes forward: its list is never replaced by an older one, and  *)
(* every operation ends.                                                   *)
ServicesMoveOn == ListMovesOn /\ DatabaseComesBack
=============================================================================
