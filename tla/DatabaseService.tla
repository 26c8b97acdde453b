--------------------------- MODULE DatabaseService ---------------------------
(***************************************************************************)
(* The Databases page: the service that lists and controls the engines     *)
(* (src/src/databaseservice.cpp), what detection makes of the machine      *)
(* (src/src/databaseservice_macos.cpp), and the page that selects one of   *)
(* the listed services by its index (qml/DatabasesPage.qml).               *)
(***************************************************************************)
EXTENDS Naturals, Integers, SequencesExt

CONSTANTS
  Installs,      \* the installed servers: [id, engine, source, version, port]
  MaxTurns,      \* bound on the starts and stops of servers
  MaxThreads     \* bound on the detail threads that run at once

ASSUME DatabaseAssumption ==
  /\ IsFiniteSet(Installs) /\ \A s, t \in Installs : s.id = t.id => s = t
  /\ "nothing" \notin {s.id : s \in Installs}
  /\ \A s \in Installs :
       /\ s.engine \in Nat /\ s.port \in Nat /\ s.version \in Seq(Nat)
       /\ s.source \in {"homebrew", "postgresapp", "system"}
  /\ MaxTurns \in Nat /\ MaxThreads \in Nat

VARIABLES
  serving,   \* external: the servers that run
  turns,     \* external: how often that has changed
  services,  \* m_services
  asOf,      \* history: the turn at which that list was detected
  bBusy,     \* m_busy
  bScanning, \* m_scanning
  bControls, \* m_controllingId
  jobs,      \* the threads of refresh, control and runQuery
  details,   \* the threads of fetchDetail(): the ids asked for
  selected,  \* the page's selectedIndex, 0 for the list
  detailOf,  \* the service the page's detail is about
  resultOf,  \* the service the page's query result is about
  did        \* history: the turn of the last start or stop from this app

databaseVars == <<serving, turns, services, asOf, bBusy, bScanning, bControls, jobs, details,
                  selected, detailOf, resultOf, did>>

Ids == {s.id : s \in Installs}
Nothing == "nothing"
InstallOf(id) == CHOOSE s \in Installs : s.id = id

-----------------------------------------------------------------------------
(* versionLess(): part by part, a missing part counts as 0.                *)
Part(v, i) == IF i <= Len(v) THEN v[i] ELSE 0
versionLess(a, b) ==
  \E i \in 1..(Len(a) + Len(b)) :
    Part(a, i) < Part(b, i) /\ \A j \in 1..(i - 1) : Part(a, j) = Part(b, j)

(* Bug: any listener on its port makes a Homebrew service running.         *)
RunningByPort(s, up) == \E t \in up : t.port = s.port

(* Homebrew knows the state of each of its services; the others are taken  *)
(* to run when somebody listens on their port.                             *)
Running(s, up) == IF s.source = "homebrew" THEN s \in up ELSE \E t \in up : t.port = s.port

(* Other installs are listed only where Homebrew has none of that engine.  *)
Listed(s) ==
  s.source = "homebrew" \/ ~\E t \in Installs : t.source = "homebrew" /\ t.engine = s.engine

(* detectDatabaseServices(): running first, by engine, newest first.  Of   *)
(* two that are alike in all of these the sort puts either one first.      *)
Shown == {s \in Installs : Listed(s)}
Before(s, t, up) ==
  IF Running(s, up) # Running(t, up) THEN Running(s, up)
  ELSE IF s.engine # t.engine THEN s.engine < t.engine
  ELSE versionLess(t.version, s.version)
Orders(up) ==
  {p \in [1..Cardinality(Shown) -> Shown] :
     \A i, j \in DOMAIN p : i < j => p[i] # p[j] /\ ~Before(p[j], p[i], up)}
detectDatabaseServices(up) ==
  {[i \in DOMAIN p |-> [id |-> p[i].id, running |-> Running(p[i], up)]] : p \in Orders(up)}

ListedIds(list) == {list[i].id : i \in DOMAIN list}

-----------------------------------------------------------------------------
Job == [kind : {"scan", "control", "query"}, id : Ids \cup {Nothing}, start : BOOLEAN,
        step : {"command", "detect", "post"}, at : 0..MaxTurns, found : Seq([id : Ids, running : BOOLEAN])]

DatabaseTypeOK ==
  /\ serving \subseteq Installs /\ turns \in 0..MaxTurns /\ asOf \in 0..MaxTurns
  /\ did \in 0..MaxTurns
  /\ services \in Seq([id : Ids, running : BOOLEAN])
  /\ bBusy \in BOOLEAN /\ bScanning \in BOOLEAN /\ bControls \in Ids \cup {Nothing}
  /\ jobs \subseteq Job
  /\ details \subseteq Ids
  /\ selected \in 0..Len(services)
  /\ detailOf \in Ids \cup {Nothing} /\ resultOf \in Ids \cup {Nothing}

NewJob(kind, id, start) ==
  [kind |-> kind, id |-> id, start |-> start, at |-> 0, found |-> <<>>,
   step |-> IF kind = "scan" THEN "detect" ELSE "command"]

(* The service scans as soon as it is made.                                *)
DatabaseInit ==
  /\ serving \in {up \in SUBSET Installs : \A s, t \in up : s.port = t.port => s = t}
  /\ turns = 0 /\ asOf = 0 /\ did = 0
  /\ services = <<>> /\ bBusy = TRUE /\ bScanning = TRUE /\ bControls = Nothing
  /\ jobs = {NewJob("scan", Nothing, FALSE)}
  /\ details = {} /\ selected = 0 /\ detailOf = Nothing /\ resultOf = Nothing

-----------------------------------------------------------------------------
refresh ==
  /\ ~bBusy
  /\ bBusy' = TRUE /\ bScanning' = TRUE
  /\ jobs' = jobs \cup {NewJob("scan", Nothing, FALSE)}
  /\ UNCHANGED <<serving, turns, services, asOf, bControls, details, selected, detailOf,
                 resultOf, did>>

control(id, start) ==
  /\ id \in ListedIds(services) /\ ~bBusy
  /\ bBusy' = TRUE /\ bControls' = id
  /\ jobs' = jobs \cup {NewJob("control", id, start)}
  /\ UNCHANGED <<serving, turns, services, asOf, bScanning, details, selected, detailOf,
                 resultOf, did>>

runQuery ==
  /\ selected # 0 /\ ~bBusy
  /\ bBusy' = TRUE
  /\ jobs' = jobs \cup {NewJob("query", services[selected].id, FALSE)}
  /\ UNCHANGED <<serving, turns, services, asOf, bScanning, bControls, details, selected,
                 detailOf, resultOf, did>>

-----------------------------------------------------------------------------
Moves(j, k) == jobs' = (jobs \ {j}) \cup {k}

(* A server starts, if its port is free, or stops.                         *)
Turn(s, start) ==
  /\ turns < MaxTurns
  /\ IF start THEN (\A t \in serving : t.port # s.port) /\ serving' = serving \cup {s}
              ELSE s \in serving /\ serving' = serving \ {s}
  /\ turns' = turns + 1

(* Bug: the services are detected before the command.                      *)
DetectFirst(j) ==
  /\ j.step = "command"
  /\ \/ /\ j.kind = "control" /\ InstallOf(j.id).source = "homebrew"
        /\ Turn(InstallOf(j.id), j.start)
        /\ did' = turns'
     \/ UNCHANGED <<serving, turns, did>>
  /\ \E list \in detectDatabaseServices(serving) :
       Moves(j, [j EXCEPT !.step = "post", !.at = turns, !.found = list])

(* controlDatabaseService(): brew does it or fails; a query only reads.    *)
controlDatabaseService(j) ==
  /\ j.step = "command"
  /\ \/ /\ j.kind = "control" /\ InstallOf(j.id).source = "homebrew"
        /\ Turn(InstallOf(j.id), j.start)
        /\ did' = turns'
     \/ UNCHANGED <<serving, turns, did>>
  /\ Moves(j, [j EXCEPT !.step = IF j.kind = "control" THEN "detect" ELSE "post"])

Detect(j) ==
  /\ j.step = "detect"
  /\ \E list \in detectDatabaseServices(serving) :
       Moves(j, [j EXCEPT !.step = "post", !.at = turns, !.found = list])
  /\ UNCHANGED <<serving, turns, did>>

JobStep(j) ==
  /\ controlDatabaseService(j) \/ Detect(j)
  /\ UNCHANGED <<services, asOf, bBusy, bScanning, bControls, details, selected, detailOf,
                 resultOf>>

(* The queued call: a new list, or the result of the query, which the page *)
(* shows whatever is selected by then.                                     *)
Post(j) ==
  /\ j.step = "post"
  /\ jobs' = jobs \ {j}
  /\ bBusy' = FALSE
  /\ bScanning' = (bScanning /\ j.kind # "scan")
  /\ bControls' = IF j.kind = "control" THEN Nothing ELSE bControls
  /\ IF j.kind = "query"
     THEN resultOf' = j.id /\ UNCHANGED <<services, asOf>>
     ELSE services' = j.found /\ asOf' = j.at /\ UNCHANGED resultOf
  /\ UNCHANGED <<serving, turns, details, selected, detailOf, did>>

-----------------------------------------------------------------------------
(* onSelectedIndexChanged: everything is cleared and the detail fetched.   *)
Select(i) ==
  /\ selected # i
  /\ i # 0 => services[i].id \notin details /\ Cardinality(details) < MaxThreads
  /\ selected' = i
  /\ detailOf' = Nothing /\ resultOf' = Nothing
  /\ details' = IF i = 0 THEN details ELSE details \cup {services[i].id}
  /\ UNCHANGED <<serving, turns, services, asOf, bBusy, bScanning, bControls, jobs, did>>

(* detailReady: taken when it is about the selected service.               *)
DetailReady(id) ==
  /\ details' = details \ {id}
  /\ detailOf' = IF selected # 0 /\ services[selected].id = id THEN id ELSE detailOf
  /\ UNCHANGED <<serving, turns, services, asOf, bBusy, bScanning, bControls, jobs, selected,
                 resultOf, did>>

ServerTurns ==
  /\ \E s \in Installs, start \in BOOLEAN : Turn(s, start)
  /\ UNCHANGED <<services, asOf, bBusy, bScanning, bControls, jobs, details, selected,
                 detailOf, resultOf, did>>

JobThread == \E j \in jobs : JobStep(j) \/ Post(j)

DatabaseNext ==
  \/ refresh \/ runQuery \/ JobThread \/ ServerTurns
  \/ \E id \in Ids, start \in BOOLEAN : control(id, start)
  \/ \E i \in 0..Len(services) : Select(i)
  \/ \E id \in details : DetailReady(id)

-----------------------------------------------------------------------------
(* The header: busy covers one operation, scanning a full rescan only, and *)
(* controllingId the one service that is being started or stopped.         *)
OneJob ==
  /\ \A j, k \in jobs : j = k
  /\ bBusy <=> jobs # {}
  /\ bScanning <=> \E j \in jobs : j.kind = "scan"
  /\ bControls = IF \E j \in jobs : j.kind = "control" THEN (CHOOSE j \in jobs : TRUE).id
                 ELSE Nothing

(* The list never goes back to an older detection, and after a start or    *)
(* stop of ours it shows the machine as of then or later.                  *)
ListMovesOn == [][asOf' # asOf => asOf' > asOf /\ asOf' >= did]_databaseVars

(* The comment in detectDatabaseServices(): two installs of one engine     *)
(* behind the same port must not both be marked running when one of them   *)
(* binds it, as far as Homebrew lists them.                                *)
BrewRunsTruly ==
  \A j \in jobs, s \in Installs :
    s.source = "homebrew" /\ j.found # <<>> /\ j.at = turns =>
      ([id |-> s.id, running |-> TRUE] \in ToSet(j.found) <=> s \in serving)

(* The list and the flags of the services page are right.                  *)
ServicesSound ==
  /\ DatabaseTypeOK
  /\ OneJob
  /\ BrewRunsTruly

DatabaseSettles == bBusy ~> ~bBusy

DatabaseSpec == DatabaseInit /\ [][DatabaseNext]_databaseVars
=============================================================================
