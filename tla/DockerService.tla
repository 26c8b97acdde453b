---------------------------- MODULE DockerService ----------------------------
(***************************************************************************)
(* The Docker page's backend (src/src/dockerservice.cpp): one operation at *)
(* a time under m_busy, each on a thread of its own that works through CLI *)
(* calls and queues its result for the GUI thread, and the poll of the     *)
(* statistics under a flag of its own (the logs: module DockerLogs).  What *)
(* docker would report is abstracted to a number that grows with every     *)
(* change made to it.                                                      *)
(***************************************************************************)
EXTENDS Naturals, Sequences

CONSTANTS
  Containers,  \* the names operations are about
  Nobody,      \* the empty string: no target
  Moods,       \* what the daemon may be: "up", "slow" (calls may time out), "down"
  MaxChanges   \* bound on the changes to containers, images and disk

ASSUME DockerAssumption ==
  /\ Nobody \notin Containers
  /\ "up" \in Moods /\ Moods \subseteq {"up", "slow", "down"}
  /\ MaxChanges \in Nat

VARIABLES
  daemon,        \* external: its mood
  truth,         \* external: the number of the last change
  available,     \* m_engine["available"]
  shown,         \* m_containers, m_images, m_disk: the truth they were read at
  stats,         \* m_stats: likewise
  dBusy,         \* m_busy
  dScanning,     \* m_scanning
  controllingId, \* m_controllingId
  operations,    \* the worker threads of operations, up to their queued result
  statsBusy,     \* m_statsBusy
  polls,         \* the worker threads of fetchStats()
  done           \* history: the last change an operation of the app has made

dockerVars == <<daemon, truth, available, shown, stats, dBusy, dScanning, controllingId,
                operations, statsBusy, polls, done>>

Lists == {"containers", "images", "disk"}
Blank == 0
Failed == MaxChanges + 2
Truths == 1..(MaxChanges + 1)
Targets == Containers \cup {"engine", "prune", Nobody}
Calls == Lists \cup {"command", "info"}

Operation == [kind : {"scan", "control", "startEngine", "stopEngine"}, target : Targets,
              todo : Seq(Calls), up : BOOLEAN, got : [Lists -> Truths \cup {Blank, Failed}]]

DockerTypeOK ==
  /\ daemon \in Moods
  /\ truth \in Truths /\ done \in Truths \cup {Blank}
  /\ available \in BOOLEAN
  /\ shown \in [Lists -> Truths \cup {Blank}] /\ stats \in Truths \cup {Blank}
  /\ dBusy \in BOOLEAN /\ dScanning \in BOOLEAN
  /\ statsBusy \in BOOLEAN
  /\ controllingId \in Targets
  /\ operations \subseteq Operation
  /\ polls \subseteq Truths \cup {Blank, Failed}

(* What its thread has to do: the command, docker info, then the lists.    *)
ReadAll == <<"info", "containers", "images", "disk">>
Plan(kind) ==
  CASE kind = "scan"       -> ReadAll
    [] kind = "stopEngine" -> <<"command", "info">>
    [] OTHER               -> <<"command">> \o ReadAll

NewOperation(kind, target) ==
  [kind |-> kind, target |-> target, todo |-> Plan(kind), up |-> FALSE,
   got |-> [l \in Lists |-> Failed]]

(* The service scans as soon as it is made.                                *)
DockerInit ==
  /\ daemon \in Moods /\ truth = 1 /\ done = Blank
  /\ available = FALSE /\ shown = [l \in Lists |-> Blank] /\ stats = Blank
  /\ dBusy = TRUE /\ dScanning = TRUE /\ controllingId = Nobody
  /\ operations = {NewOperation("scan", Nobody)}
  /\ statsBusy = FALSE /\ polls = {}

-----------------------------------------------------------------------------

Refresh ==
  /\ ~dBusy
  /\ dBusy' = TRUE /\ dScanning' = TRUE
  /\ operations' = operations \cup {NewOperation("scan", Nobody)}
  /\ UNCHANGED <<daemon, truth, available, shown, stats, controllingId, statsBusy, polls, done>>

beginOp(target) == ~dBusy /\ dBusy' = TRUE /\ controllingId' = target
endOp == dBusy' = FALSE /\ controllingId' = Nobody

(* control() of a container, a group, an image or prune; startEngine() and *)
(* stopEngine(), which need colima.                                        *)
Operate(kind, target) ==
  /\ beginOp(target)
  /\ operations' = operations \cup {NewOperation(kind, target)}
  /\ UNCHANGED <<daemon, truth, available, shown, stats, dScanning, statsBusy, polls, done>>

Control == \E t \in Containers \cup {"prune"} : Operate("control", t)
EngineSwitch == \E kind \in {"startEngine", "stopEngine"} : Operate(kind, "engine")

(* The command of an operation works, or it fails or times out.            *)
Command(o) ==
  \/ UNCHANGED <<daemon, truth, done>>
  \/ /\ o.kind = "control" /\ daemon # "down" /\ truth <= MaxChanges
     /\ truth' = truth + 1 /\ done' = truth' /\ UNCHANGED daemon
  \/ /\ o.kind = "startEngine" /\ daemon' = "up" /\ UNCHANGED <<truth, done>>
  \/ /\ o.kind = "stopEngine" /\ daemon' \in Moods \cap {"down"} /\ UNCHANGED <<truth, done>>

(* queryEngine(), queryContainers(), queryImages(), queryDisk(): what they *)
(* may bring.  A daemon known to be down has empty lists, unasked.         *)
Available == CASE daemon = "up" -> {TRUE} [] daemon = "slow" -> BOOLEAN [] OTHER -> {FALSE}
Answer(up) ==
  IF ~up THEN {Blank}
  ELSE CASE daemon = "up" -> {truth} [] daemon = "slow" -> {truth, Failed} [] OTHER -> {Failed}

OperationStep(o) ==
  /\ o.todo # <<>>
  /\ LET call == Head(o.todo)
         Goes(p) == operations' = (operations \ {o}) \cup {[p EXCEPT !.todo = Tail(@)]}
     IN CASE call = "command" -> Command(o) /\ Goes(o)
          [] call = "info" -> /\ \E up \in Available : Goes([o EXCEPT !.up = up])
                              /\ UNCHANGED <<daemon, truth, done>>
          [] OTHER -> /\ \E a \in Answer(o.up) : Goes([o EXCEPT !.got[call] = a])
                      /\ UNCHANGED <<daemon, truth, done>>
  /\ UNCHANGED <<available, shown, stats, dBusy, dScanning, controllingId, statsBusy, polls>>

(* applyScan(): a query that failed keeps its cached data.                 *)
applyScan(o) ==
  /\ available' = o.up
  /\ shown' = [l \in Lists |-> IF o.got[l] = Failed THEN shown[l] ELSE o.got[l]]
  /\ UNCHANGED stats

(* stopEngine() blanks the page, whether or not the engine has stopped.    *)
BlankPage(o) ==
  /\ available' = o.up
  /\ shown' = [l \in Lists |-> Blank]
  /\ stats' = Blank

(* Bug: the end of stopEngine() forgets endOp().                           *)
ResultUnended(o) ==
  /\ o \in operations /\ o.todo = <<>>
  /\ operations' = operations \ {o}
  /\ IF o.kind = "stopEngine" THEN BlankPage(o) ELSE applyScan(o)
  /\ IF o.kind = "scan" THEN dBusy' = FALSE /\ dScanning' = FALSE /\ UNCHANGED controllingId
     ELSE IF o.kind = "stopEngine" THEN UNCHANGED <<dBusy, dScanning, controllingId>>
     ELSE endOp /\ UNCHANGED dScanning
  /\ UNCHANGED <<daemon, truth, statsBusy, polls, done>>

(* The queued call at the end of an operation.                             *)
Result(o) ==
  /\ o \in operations /\ o.todo = <<>>
  /\ operations' = operations \ {o}
  /\ IF o.kind = "stopEngine" THEN BlankPage(o) ELSE applyScan(o)
  /\ IF o.kind = "scan" THEN dBusy' = FALSE /\ dScanning' = FALSE /\ UNCHANGED controllingId
                        ELSE endOp /\ UNCHANGED dScanning
  /\ UNCHANGED <<daemon, truth, statsBusy, polls, done>>

-----------------------------------------------------------------------------

(* fetchStats(), every 5 seconds while the page shows an engine: the flag, *)
(* and what docker stats says, now or by the time-out.                     *)
FetchStats ==
  /\ available /\ ~statsBusy
  /\ statsBusy' = TRUE
  /\ \E a \in Answer(daemon # "down") : polls' = polls \cup {IF a = Blank THEN Failed ELSE a}
  /\ UNCHANGED <<daemon, truth, available, shown, stats, dBusy, dScanning, controllingId,
                 operations, done>>

StatsResult(a) ==
  /\ a \in polls
  /\ polls' = polls \ {a}
  /\ statsBusy' = FALSE
  /\ stats' = IF a = Failed THEN stats ELSE a
  /\ UNCHANGED <<daemon, truth, available, shown, dBusy, dScanning, controllingId,
                 operations, done>>

(* Others use docker, and the daemon has its own life.                     *)
Elsewhere ==
  /\ \/ truth <= MaxChanges /\ truth' = truth + 1 /\ UNCHANGED daemon
     \/ daemon' \in Moods \ {daemon} /\ UNCHANGED truth
  /\ UNCHANGED <<available, shown, stats, dBusy, dScanning, controllingId, operations,
                 statsBusy, polls, done>>

OperationThread == \E o \in operations : OperationStep(o) \/ Result(o)
PollThread == \E a \in polls : StatsResult(a)

DockerNext ==
  \/ Refresh \/ Control \/ EngineSwitch \/ FetchStats \/ Elsewhere
  \/ OperationThread \/ PollThread

-----------------------------------------------------------------------------
(* The header on busy, scanning and controllingId: the flag is held by one *)
(* operation at a time, the spinner follows a rescan and nothing else, and *)
(* exactly the control that was pressed shows its loader.                  *)
OneLoader ==
  /\ \A o, p \in operations : o = p
  /\ dBusy <=> operations # {}
  /\ dScanning <=> \E o \in operations : o.kind = "scan"
  /\ controllingId = IF dBusy THEN (CHOOSE o \in operations : TRUE).target ELSE Nobody

(* The page never goes back to older data, and what it shows at the end of *)
(* an operation is not older than what the operation did, list by list,    *)
(* but where it is blank or its query failed.                              *)
PageMovesOn ==
  [][\A l \in Lists :
       shown'[l] \in {Blank, shown[l]} \/ (shown'[l] > shown[l] /\ shown'[l] >= done)]_dockerVars

(* "The 5s poll must not pile up": statistics never go back, either.       *)
StatsMoveOn == [][stats' \in {Blank} \cup stats..(MaxChanges + 1)]_dockerVars

(* Every call ends or times out, so the page gets its buttons back.        *)
DockerSettles == dBusy ~> ~dBusy

=============================================================================
