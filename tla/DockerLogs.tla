------------------------------ MODULE DockerLogs ------------------------------
(***************************************************************************)
(* The logs of one container in the Docker page: the card that is open     *)
(* (qml/DockerPage.qml), the 3-second timer that follows it, and           *)
(* fetchLogs() with its flag (src/src/dockerservice.cpp).                  *)
(***************************************************************************)
EXTENDS Naturals

CONSTANTS
  Carded,   \* the containers with a card
  NoCard,   \* the empty openLogsFor
  MaxLines  \* bound on what the containers print

ASSUME LogsAssumption == NoCard \notin Carded /\ MaxLines \in Nat

VARIABLES
  printed,      \* external: the number of lines each container has printed
  openLogsFor,
  loading,      \* logsText is "Loading..."
  logsOf,       \* else: the container logsText is about, and its lines then
  logsBusy,     \* m_logsBusy
  logRequests   \* the threads of fetchLogs(): [name, lines, ok]

dockerLogsVars == <<printed, openLogsFor, loading, logsOf, logsBusy, logRequests>>

Text == [name : Carded \cup {NoCard}, lines : 0..MaxLines]
NoText == [name |-> NoCard, lines |-> 0]

DockerLogsTypeOK ==
  /\ printed \in [Carded -> 0..MaxLines] /\ openLogsFor \in Carded \cup {NoCard}
  /\ loading \in BOOLEAN /\ logsOf \in Text
  /\ logsBusy \in BOOLEAN
  /\ logRequests \subseteq [name : Carded, lines : 0..MaxLines, ok : BOOLEAN]

DockerLogsInit ==
  /\ printed = [n \in Carded |-> 0]
  /\ openLogsFor = NoCard /\ loading = FALSE /\ logsOf = NoText
  /\ logsBusy = FALSE /\ logRequests = {}

(* fetchLogs(): nothing while a request is out; docker logs answers with   *)
(* what was printed, fails or times out.                                   *)
fetchLogs(name) ==
  IF logsBusy THEN UNCHANGED <<logsBusy, logRequests>>
  ELSE /\ logsBusy' = TRUE
       /\ \E ok \in BOOLEAN :
            logRequests' = logRequests \cup {[name |-> name, lines |-> printed[name], ok |-> ok]}

toggleLogs(name) ==
  /\ IF openLogsFor = name
     THEN /\ openLogsFor' = NoCard /\ loading' = FALSE
          /\ UNCHANGED <<logsBusy, logRequests>>
     ELSE /\ openLogsFor' = name /\ loading' = TRUE
          /\ fetchLogs(name)
  /\ logsOf' = NoText
  /\ UNCHANGED printed

FollowLogs ==
  /\ openLogsFor # NoCard /\ ~logsBusy
  /\ fetchLogs(openLogsFor)
  /\ UNCHANGED <<printed, openLogsFor, loading, logsOf>>

(* Bug: an answer is shown whatever is open by then.                       *)
LogsReadyAny(r) ==
  /\ logRequests' = logRequests \ {r} /\ logsBusy' = FALSE
  /\ IF r.ok
     THEN loading' = FALSE /\ logsOf' = [name |-> r.name, lines |-> r.lines]
     ELSE UNCHANGED <<loading, logsOf>>
  /\ UNCHANGED <<printed, openLogsFor>>

(* The queued call: an answer about another card is dropped, a failure     *)
(* only goes to the log of the app.                                        *)
LogsReady(r) ==
  /\ logRequests' = logRequests \ {r} /\ logsBusy' = FALSE
  /\ IF r.ok /\ openLogsFor = r.name
     THEN loading' = FALSE /\ logsOf' = [name |-> r.name, lines |-> r.lines]
     ELSE UNCHANGED <<loading, logsOf>>
  /\ UNCHANGED <<printed, openLogsFor>>

Prints(name) ==
  /\ printed[name] < MaxLines
  /\ printed' = [printed EXCEPT ![name] = @ + 1]
  /\ UNCHANGED <<openLogsFor, loading, logsOf, logsBusy, logRequests>>

LogsThread == \E r \in logRequests : LogsReady(r)

DockerLogsNext ==
  \/ \E name \in Carded : toggleLogs(name) \/ Prints(name)
  \/ FollowLogs \/ LogsThread

-----------------------------------------------------------------------------
(* The text in an open card is its container's and never goes back to an   *)
(* older one while the card stays open, however the user changes cards     *)
(* while requests are out.                                                 *)
LogsFollow ==
  [][logsOf' # logsOf /\ logsOf' # NoText =>
       /\ logsOf'.name = openLogsFor'
       /\ logsOf.name = logsOf'.name => logsOf'.lines >= logsOf.lines]_dockerLogsVars

(* An open card is asked for again and again, although the request of its  *)
(* opening is dropped when another one is out.                             *)
OpenLogsAreAsked ==
  \A name \in Carded : openLogsFor = name ~>
    openLogsFor # name \/ \E r \in logRequests : r.name = name

=============================================================================
