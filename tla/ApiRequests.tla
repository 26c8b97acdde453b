----------------------------- MODULE ApiRequests -----------------------------
(***************************************************************************)
(* The saved requests and the history of the HTTP client                   *)
(* (src/src/apiservice.cpp) and the page that edits one request at a time  *)
(* and records what came back (src/qml/ApiPage.qml, ApiRequestPage.qml).   *)
(* A request is its text (method, url, fields), an id and its last status. *)
(***************************************************************************)
EXTENDS SendCycle, Naturals, SequencesExt

CONSTANTS
  Texts,        \* what a request may say
  Blank,        \* the text without a URL
  Statuses,     \* HTTP statuses; 0 is "never sent"
  HistoryCap,   \* kHistoryCap
  MaxRequests   \* bound on the requests created

ASSUME RequestsAssumption ==
  /\ Blank \in Texts /\ Statuses \subseteq Nat \ {0}
  /\ HistoryCap \in Nat \ {0} /\ MaxRequests \in Nat

VARIABLES
  loaded,    \* m_loaded
  requests,  \* m_requests
  history,   \* m_history, newest first
  stored,    \* what Settings holds of the two
  page,      \* the working map of the open request page, or NoPage
  sentFor,   \* history: whose result is out, the page's or, once it was left, its id's
  lastId     \* how many ids newId() gave away

requestVars == <<cycleVars, loaded, requests, history, stored, page, sentFor, lastId>>

Draft == 0
NoPage == [id |-> Draft, text |-> "none", status |-> 0]
Ids == 1..MaxRequests
NoRequest == [onPage |-> FALSE, id |-> Draft]
Request(id, text, status) == [id |-> id, text |-> text, status |-> status]
Open == page # NoPage
indexOf(id) == {i \in DOMAIN requests : requests[i].id = id}

RequestsTypeOK ==
  /\ requests \in Seq([id : Ids, text : Texts, status : Statuses \cup {0}])
  /\ history \in Seq([text : Texts, status : Statuses])
  /\ page \in {NoPage} \cup [id : Ids \cup {Draft}, text : Texts, status : Statuses \cup {0}]

RequestsInit ==
  /\ CycleInit
  /\ loaded = FALSE
  /\ requests = <<>> /\ history = <<>>
  /\ stored = [requests |-> <<>>, history |-> <<>>]
  /\ page = NoPage /\ sentFor = NoRequest
  /\ lastId = 0

ensureLoaded ==
  /\ ~loaded
  /\ loaded' = TRUE
  /\ requests' = stored.requests
  /\ history' = stored.history
  /\ UNCHANGED <<cycleVars, stored, page, sentFor, lastId>>

Persist(rs, hs) ==
  /\ requests' = rs /\ history' = hs
  /\ stored' = [requests |-> rs, history |-> hs]
  /\ UNCHANGED loaded

Kept == UNCHANGED <<loaded, requests, history, stored>>

-----------------------------------------------------------------------------
(* The pages.                                                              *)

Show(p) == page' = p /\ Kept /\ UNCHANGED <<cycleVars, sentFor, lastId>>

OpenDraft(text) == loaded /\ ~Open /\ Show(Request(Draft, text, 0))
OpenSaved(i)    == ~Open /\ Show(requests[i])
OpenHistory(i)  == ~Open /\ Show(Request(Draft, history[i].text, 0))
CloseRequest ==
  /\ Open
  /\ page' = NoPage /\ Kept
  /\ sentFor' = IF sentFor.onPage THEN [onPage |-> FALSE, id |-> page.id] ELSE sentFor
  /\ UNCHANGED <<cycleVars, lastId>>
\* Every field is disabled while a send is in flight.
EditText(text) == Open /\ ~flying /\ Show([page EXCEPT !.text = text])

makeRequest(text) ==
  /\ lastId < MaxRequests
  /\ lastId' = lastId + 1
  /\ Persist(Append(requests, Request(lastId + 1, text, 0)), history)

addRequest(text) ==
  /\ loaded /\ ~Open /\ text # Blank
  /\ makeRequest(text)
  /\ UNCHANGED <<cycleVars, page, sentFor>>

(* Bug: a saved row goes to the top of the list.                           *)
saveMovesUp ==
  /\ Open /\ page.id # Draft
  /\ Persist(<<page>> \o SelectSeq(requests, LAMBDA r : r.id # page.id), history)
  /\ UNCHANGED <<cycleVars, page, sentFor, lastId>>

saveRequest ==
  /\ Open
  /\ IF page.id = Draft
       THEN /\ lastId < MaxRequests
            /\ lastId' = lastId + 1
            /\ page' = [page EXCEPT !.id = lastId + 1]
            /\ Persist(Append(requests, page'), history)
       ELSE /\ \E i \in indexOf(page.id) : Persist([requests EXCEPT ![i] = page], history)
            /\ UNCHANGED <<page, lastId>>
  /\ UNCHANGED <<cycleVars, sentFor>>

clearHistory ==
  /\ ~Open /\ history # <<>>
  /\ Persist(requests, <<>>)
  /\ UNCHANGED <<cycleVars, page, sentFor, lastId>>

-----------------------------------------------------------------------------
(* Sending, and what the page makes of the result.                         *)

StartSend ==
  /\ Open /\ page.text # Blank
  /\ Begin
  /\ sentFor' = [onPage |-> TRUE, id |-> Draft]
  /\ Kept /\ UNCHANGED <<page, lastId>>

CancelSend == Open /\ Ask /\ Kept /\ UNCHANGED <<page, sentFor, lastId>>

updateRequestStatus(id, status) ==
  [i \in DOMAIN requests |->
     IF i \in indexOf(id) THEN [requests[i] EXCEPT !.status = status] ELSE requests[i]]

appendHistory(text, status) ==
  LET all == <<[text |-> text, status |-> status]>> \o history
  IN  SubSeq(all, 1, IF Len(all) > HistoryCap THEN HistoryCap ELSE Len(all))

(* A transport failure and a cancel change nothing; a response is put down *)
(* to the page that is open when it comes.                                 *)
onSendResult ==
  /\ \/ Deliver("canceled") /\ Kept
     \/ Deliver("answer") /\ Kept
     \/ /\ Deliver("answer") /\ Open
        /\ \E s \in Statuses :
             Persist(updateRequestStatus(page.id, s), appendHistory(page.text, s))
  /\ sentFor' = NoRequest
  /\ UNCHANGED <<page, lastId>>

Restart ==
  /\ loaded
  /\ loaded' = FALSE /\ requests' = <<>> /\ history' = <<>>
  /\ page' = NoPage /\ sentFor' = NoRequest
  /\ flying' = FALSE /\ canceling' = FALSE /\ result' = "none"
  /\ UNCHANGED <<stored, lastId>>

RequestsNext ==
  \/ ensureLoaded \/ CloseRequest \/ saveRequest \/ clearHistory
  \/ StartSend \/ CancelSend \/ onSendResult \/ Restart
  \/ \E t \in Texts : OpenDraft(t) \/ EditText(t) \/ addRequest(t)
  \/ \E i \in DOMAIN requests : OpenSaved(i)
  \/ \E i \in DOMAIN history : OpenHistory(i)

-----------------------------------------------------------------------------
RequestsSpec == RequestsInit /\ [][RequestsNext]_requestVars

(* Settings and memory never differ while the app runs, no two rows of the *)
(* list are the same request, the history keeps to its cap, and the open   *)
(* page, once saved, has its row: saving it again cannot fail.             *)
RequestsKept ==
  /\ loaded => stored = [requests |-> requests, history |-> history]
  /\ IsInjective([i \in DOMAIN stored.requests |-> stored.requests[i].id])
  /\ Len(stored.history) <= HistoryCap
  /\ page.id # Draft => indexOf(page.id) # {}

(* "replaced in place, position kept, no duplicate" (apiservice.h): a row  *)
(* once saved keeps its place, and nothing but its own page changes what   *)
(* it says.                                                                *)
RowsStay ==
  [][\A i \in DOMAIN stored.requests :
       /\ i \in DOMAIN stored'.requests
       /\ stored'.requests[i].id = stored.requests[i].id
       /\ stored'.requests[i].text # stored.requests[i].text => page.id = stored.requests[i].id
    ]_requestVars

(* Both: what is kept is sound at any moment, and rows stay what they are  *)
(* from one moment to the next.                                            *)
RequestsStay ==
  /\ []RequestsTypeOK
  /\ []RequestsKept
  /\ RowsStay
=============================================================================
