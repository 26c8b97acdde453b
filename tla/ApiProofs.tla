------------------------------ MODULE ApiProofs ------------------------------
(***************************************************************************)
(* The HTTP client, for any number of sends, texts and environments: the   *)
(* hand-shake between cancel() on the GUI thread and the worker thread is  *)
(* safe and implements the cycle of a send; saved requests stay what they  *)
(* are; environments, settings and Keychain belong together.               *)
(***************************************************************************)
EXTENDS ApiSend, ApiRequests, ApiEnvironments, CurlImport, OrderedProofs, TLAPS

(* What a step that moves the worker of send n does to the other workers.  *)
LEMMA GoesFacts ==
  ASSUME TypeOK, NEW n \in Sends, NEW from \in WorkerState, NEW to \in WorkerState,
         Goes(n, from, to)
  PROVE  /\ worker[n] = from /\ worker'[n] = to
         /\ worker' \in [Sends -> WorkerState]
         /\ \A m \in Sends \ {n} : worker'[m] = worker[m]
BY DEF Goes, TypeOK

LEMMA InitIInv == Init => IInv
<1> SUFFICES ASSUME Init PROVE IInv
  OBVIOUS
<1>1. TypeOK
  <2>1. 0 \in 0..MaxSends
    BY SendsAssumption
  <2>2. sending \in BOOLEAN /\ cancelRequested \in BOOLEAN
    BY DEF Init
  <2>3. QED
    BY <2>1, <2>2 DEF Init, TypeOK, WorkerState, Outcome
<1>2. NoDanglingReply /\ CanceledMeansCanceled
  BY DEF Init, NoDanglingReply, CanceledMeansCanceled
<1>3. ~sending /\ sent = 0 /\ \A n \in Sends : ~Busy(n) /\ worker[n] = "unsent" /\ n > sent
  BY SendsAssumption DEF Init, Busy, Sends
<1>4. OneSendAtATime /\ SendsInOrder
  BY <1>3, SendsAssumption DEF OneSendAtATime, SendsInOrder, Sends
<1>5. CancelIsCurrent
  BY DEF Init, CancelIsCurrent
<1>6. QED
  BY <1>1, <1>2, <1>4, <1>5 DEF IInv

LEMMA SendIInv ==
  ASSUME IInv, Send
  PROVE  IInv'
<1> USE DEF IInv, WorkerState
<1>1. sent + 1 \in Sends /\ sent' = sent + 1 /\ sent \in Nat
  BY SendsAssumption DEF Send, TypeOK, Sends
<1>2. /\ worker[sent + 1] = "unsent" /\ worker'[sent + 1] = "starting"
      /\ worker' \in [Sends -> WorkerState]
      /\ \A m \in Sends \ {sent + 1} : worker'[m] = worker[m]
  BY <1>1, GoesFacts DEF Send
<1>3. \A m \in Sends : ~Busy(m)
  BY <1>1 DEF Send, OneSendAtATime, Sends
<1>4. \A m \in Sends : m < sent + 1 => worker[m] = "over"
  <2>1. \A m \in Sends : m <= sent => worker[m] # "unsent"
    BY <1>1 DEF SendsInOrder, Sends
  <2>2. QED
    BY <1>1, <1>3, <2>1 DEF Busy, Sends
<1>5. TypeOK'
  <2>1. sent' \in 0..MaxSends
    BY <1>1, SendsAssumption DEF Sends
  <2>2. QED
    BY <1>2, <2>1 DEF Send, TypeOK
<1>6. NoDanglingReply'
  BY DEF Send, NoDanglingReply
<1>7. SendsInOrder'
  BY <1>1, <1>2, <1>4 DEF SendsInOrder, Sends
<1>8. OneSendAtATime'
  BY <1>1, <1>2, <1>3 DEF Send, OneSendAtATime, Busy, Sends
<1>9. CanceledMeansCanceled'
  BY <1>2 DEF Send, CanceledMeansCanceled
<1>10. CancelIsCurrent'
  BY <1>1, <1>2, <1>3 DEF Send, CancelIsCurrent
<1>11. QED
  BY <1>5, <1>6, <1>7, <1>8, <1>9, <1>10

LEMMA CancelIInv ==
  ASSUME IInv, Cancel
  PROVE  IInv'
<1> USE DEF IInv
<1>1. sent \in Sends
  BY DEF Cancel, OneSendAtATime, TypeOK, Sends
<1>2. aborts' \subseteq Sends /\ \A n \in aborts' : worker[n] \in {"waiting", "finished", "collected"}
  BY DEF Cancel, TypeOK, NoDanglingReply, CancelIsCurrent
<1>3. QED
  BY <1>1, <1>2
     DEF Cancel, TypeOK, NoDanglingReply, OneSendAtATime, CanceledMeansCanceled, SendsInOrder,
         CancelIsCurrent, Busy

LEMMA FinishSendIInv ==
  ASSUME IInv, NEW n \in Sends, FinishSend(n)
  PROVE  IInv'
<1> USE DEF IInv, WorkerState
<1>1. /\ worker[n] = "posted" /\ worker'[n] = "over"
      /\ worker' \in [Sends -> WorkerState]
      /\ \A m \in Sends \ {n} : worker'[m] = worker[m]
  BY GoesFacts DEF FinishSend
<1>2. n = sent
  BY <1>1 DEF OneSendAtATime, Busy
<1>3. aborts = {}
  BY <1>1, <1>2 DEF CancelIsCurrent, OneSendAtATime, Busy, TypeOK
<1>4. TypeOK' /\ NoDanglingReply' /\ SendsInOrder'
  BY <1>1, <1>2 DEF FinishSend, TypeOK, NoDanglingReply, SendsInOrder
<1>5. OneSendAtATime'
  BY <1>1, <1>2 DEF FinishSend, OneSendAtATime, Busy
<1>6. CanceledMeansCanceled'
  BY <1>1 DEF FinishSend, CanceledMeansCanceled
<1>7. CancelIsCurrent'
  <2>1. \A m \in Sends : worker[m] # "finished"
    BY <1>1, <1>2 DEF OneSendAtATime, Busy
  <2>2. QED
    BY <1>1, <1>3, <2>1 DEF FinishSend, CancelIsCurrent
<1>8. QED
  BY <1>4, <1>5, <1>6, <1>7

(* The worker's own steps leave sending, sent and asked alone.             *)
LEMMA WorkerIInv ==
  ASSUME IInv, NEW n \in Sends, Worker(n)
  PROVE  IInv'
<1> USE DEF IInv, WorkerState
<1>1. PICK to \in {"waiting", "finished", "collected", "posted"} :
        /\ worker'[n] = to
        /\ worker' \in [Sends -> WorkerState]
        /\ \A m \in Sends \ {n} : worker'[m] = worker[m]
  BY GoesFacts DEF Worker, Publish, Answer, Abort, Collect, Post
<1>2. Busy(n) /\ Busy(n)' /\ n = sent /\ sending
  <2>1. Busy(n)
    BY DEF Worker, Publish, Answer, Abort, Collect, Post, Goes, Busy
  <2>2. Busy(n)'
    BY <1>1 DEF Busy
  <2>3. n = sent
    BY <2>1 DEF OneSendAtATime
  <2>4. sending
    BY <2>1, <2>3 DEF OneSendAtATime, Sends
  <2>5. QED
    BY <2>1, <2>2, <2>3, <2>4
<1>3. UNCHANGED <<sending, cancelRequested, sent, asked>>
  BY DEF Worker, Publish, Answer, Abort, Collect, Post
<1>4. SendsInOrder'
  BY <1>1, <1>2, <1>3 DEF SendsInOrder, TypeOK, Sends
<1>5. OneSendAtATime'
  BY <1>1, <1>2, <1>3 DEF OneSendAtATime, Busy
<1>6. CASE Publish(n)
  <2>1. worker[n] = "starting" /\ worker'[n] = "waiting"
    BY <1>6, GoesFacts DEF Publish
  <2>2. TypeOK' /\ NoDanglingReply'
    BY <1>1, <1>2, <1>6, <2>1 DEF Publish, TypeOK, NoDanglingReply
  <2>3. CanceledMeansCanceled' /\ CancelIsCurrent'
    BY <1>1, <1>6, <2>1 DEF Publish, CanceledMeansCanceled, CancelIsCurrent, TypeOK
  <2>4. QED
    BY <1>4, <1>5, <2>2, <2>3
<1>7. CASE Answer(n) \/ Abort(n)
  <2>1. worker[n] = "waiting" /\ worker'[n] = "finished"
    BY <1>7, GoesFacts DEF Answer, Abort
  <2>2. PICK o \in Outcome \ {"none"} :
          /\ outcome' = [outcome EXCEPT ![n] = o]
          /\ o = "aborted" => cancelRequested
    BY <1>7 DEF Answer, Abort, Outcome, CancelIsCurrent
  <2>3. aborts' \subseteq aborts /\ UNCHANGED <<reply, canceled>>
    BY <1>7 DEF Answer, Abort
  <2>4. TypeOK' /\ NoDanglingReply'
    BY <1>1, <1>2, <1>3, <2>1, <2>2, <2>3 DEF TypeOK, NoDanglingReply
  <2>5. CanceledMeansCanceled' /\ CancelIsCurrent'
    BY <1>1, <1>3, <2>1, <2>2, <2>3 DEF CanceledMeansCanceled, CancelIsCurrent, TypeOK
  <2>6. QED
    BY <1>4, <1>5, <2>4, <2>5
<1>8. CASE Collect(n)
  <2>1. worker[n] = "finished" /\ worker'[n] = "collected"
    BY <1>8, GoesFacts DEF Collect
  <2>2. TypeOK' /\ NoDanglingReply'
    BY <1>1, <1>8 DEF Collect, TypeOK, NoDanglingReply
  <2>3. CanceledMeansCanceled' /\ CancelIsCurrent'
    BY <1>1, <1>2, <1>8, <2>1 DEF Collect, CanceledMeansCanceled, CancelIsCurrent, TypeOK
  <2>4. QED
    BY <1>4, <1>5, <2>2, <2>3
<1>9. CASE Post(n)
  <2>1. worker[n] = "collected" /\ worker'[n] = "posted"
    BY <1>9, GoesFacts DEF Post
  <2>2. TypeOK' /\ NoDanglingReply'
    BY <1>1, <1>2, <1>9, <2>1 DEF Post, TypeOK, NoDanglingReply
  <2>3. CanceledMeansCanceled' /\ CancelIsCurrent'
    BY <1>1, <1>9, <2>1 DEF Post, CanceledMeansCanceled, CancelIsCurrent, TypeOK
  <2>4. QED
    BY <1>4, <1>5, <2>2, <2>3
<1>10. QED
  BY <1>6, <1>7, <1>8, <1>9 DEF Worker

(* The inductive invariant holds of every behaviour.                       *)
THEOREM SendInvariant == Spec => []IInv
<1>1. IInv /\ [Next]_vars => IInv'
  <2> SUFFICES ASSUME IInv, [Next]_vars PROVE IInv'
    OBVIOUS
  <2>1. CASE UNCHANGED vars
    BY <2>1 DEF vars, IInv, TypeOK, NoDanglingReply, OneSendAtATime, CanceledMeansCanceled,
                SendsInOrder, CancelIsCurrent, Busy
  <2>2. QED
    BY <2>1, SendIInv, CancelIInv, WorkerIInv, FinishSendIInv DEF Next
<1>2. QED
  BY <1>1, InitIInv, PTL DEF Spec

(* A queued abort() never meets a reply that is gone or another send's,    *)
(* the workers of two sends never run side by side, and a result is        *)
(* canceled only by a cancel of its own send.                              *)
THEOREM SendsAreSafe == Spec => []SendIsSafe
<1>1. IInv => SendIsSafe
  BY DEF IInv, SendIsSafe
<1>2. QED
  BY <1>1, SendInvariant, PTL

-----------------------------------------------------------------------------
(* A send is collected as canceled only while a cancel of it is pending.   *)
CanceledIsRequested == \A n \in Sends : n \in canceled /\ Busy(n) => cancelRequested

LEMMA CanceledStep ==
  /\ Init => CanceledIsRequested
  /\ IInv /\ CanceledIsRequested /\ [Next]_vars => CanceledIsRequested'
<1>1. Init => CanceledIsRequested
  BY DEF Init, CanceledIsRequested
<1>2. ASSUME IInv, CanceledIsRequested, [Next]_vars PROVE CanceledIsRequested'
  <2> USE DEF IInv, WorkerState
  <2>1. CASE UNCHANGED vars
    BY <1>2, <2>1 DEF vars, CanceledIsRequested, Busy
  <2>2. CASE Send
    <3>1. sent + 1 \in Sends /\ \A m \in Sends : ~Busy(m)
      BY <1>2, <2>2, SendsAssumption DEF Send, TypeOK, Sends, OneSendAtATime
    <3>2. /\ worker[sent + 1] = "unsent" /\ UNCHANGED canceled
          /\ \A m \in Sends \ {sent + 1} : worker'[m] = worker[m]
      BY <1>2, <2>2, <3>1, GoesFacts DEF Send
    <3>3. sent + 1 \notin canceled
      BY <1>2, <3>1, <3>2 DEF CancelIsCurrent
    <3>4. QED
      BY <3>1, <3>2, <3>3 DEF CanceledIsRequested, Busy
  <2>3. CASE Cancel
    BY <1>2, <2>3 DEF Cancel, CanceledIsRequested
  <2>4. ASSUME NEW n \in Sends, Worker(n) PROVE CanceledIsRequested'
    <3>1. /\ Busy(n) /\ \A m \in Sends \ {n} : worker'[m] = worker[m]
          /\ UNCHANGED cancelRequested
          /\ canceled' = canceled \/ canceled' = IF cancelRequested THEN canceled \cup {n} ELSE canceled
      BY <1>2, <2>4, GoesFacts DEF Worker, Publish, Answer, Abort, Collect, Post, Busy, Goes
    <3>2. QED
      BY <1>2, <3>1 DEF CanceledIsRequested, Busy
  <2>5. ASSUME NEW n \in Sends, FinishSend(n) PROVE CanceledIsRequested'
    <3>1. /\ worker[n] = "posted" /\ worker'[n] = "over" /\ UNCHANGED canceled
          /\ \A m \in Sends \ {n} : worker'[m] = worker[m]
      BY <1>2, <2>5, GoesFacts DEF FinishSend
    <3>2. \A m \in Sends : ~Busy(m)'
      BY <1>2, <3>1 DEF OneSendAtATime, Busy
    <3>3. QED
      BY <3>2 DEF CanceledIsRequested
  <2>6. QED
    BY <1>2, <2>1, <2>2, <2>3, <2>4, <2>5 DEF Next
<1>3. QED
  BY <1>1, <1>2

LEMMA CycleStep ==
  ASSUME IInv, CanceledIsRequested, [Next]_vars
  PROVE  [SC!CycleNext]_(SC!cycleVars)
<1> USE DEF IInv, WorkerState
<1>1. CASE UNCHANGED vars
  BY <1>1 DEF vars, SC!cycleVars, LastResult
<1>2. CASE Send
  <2>1. ~sending /\ sending' = TRUE /\ cancelRequested' = FALSE /\ sent' = sent + 1
        /\ UNCHANGED canceled /\ sent \in Nat
    BY <1>2, SendsAssumption DEF Send, TypeOK
  <2>2. LastResult' = LastResult
    BY <2>1 DEF LastResult
  <2>3. QED
    BY <2>1, <2>2 DEF SC!CycleNext, SC!Begin
<1>3. CASE Cancel
  <2>1. sending /\ cancelRequested' = TRUE /\ UNCHANGED <<sending, sent, canceled>>
    BY <1>3 DEF Cancel
  <2>2. QED
    BY <2>1 DEF LastResult, SC!CycleNext, SC!Ask
<1>4. ASSUME NEW n \in Sends, Worker(n) PROVE [SC!CycleNext]_(SC!cycleVars)
  <2>1. Busy(n) /\ UNCHANGED <<sending, cancelRequested, sent>>
        /\ canceled' \in {canceled, canceled \cup {n}}
    BY <1>4 DEF Worker, Publish, Answer, Abort, Collect, Post, Busy, Goes
  <2>2. n = sent /\ sending /\ sent \in Nat /\ n # sent - 1
    BY <2>1, SendsAssumption DEF OneSendAtATime, TypeOK, Sends
  <2>3. LastResult' = LastResult
    BY <2>1, <2>2 DEF LastResult
  <2>4. QED
    BY <2>1, <2>3 DEF SC!cycleVars
<1>5. ASSUME NEW n \in Sends, FinishSend(n) PROVE [SC!CycleNext]_(SC!cycleVars)
  <2>1. Busy(n) /\ sending' = FALSE /\ cancelRequested' = FALSE /\ UNCHANGED <<sent, canceled>>
    BY <1>5 DEF FinishSend, Busy, Goes
  <2>2. n = sent /\ sending /\ sent # 0
    BY <2>1, SendsAssumption DEF OneSendAtATime, TypeOK, Sends
  <2>3. LastResult' = IF sent \in canceled THEN "canceled" ELSE "answer"
    BY <2>1, <2>2 DEF LastResult
  <2>4. sent \in canceled => cancelRequested
    BY <2>1, <2>2 DEF CanceledIsRequested
  <2>5. QED
    BY <2>1, <2>2, <2>3, <2>4 DEF SC!CycleNext, SC!Deliver
<1>6. QED
  BY <1>1, <1>2, <1>3, <1>4, <1>5 DEF Next

(* The worker threads keep what the request page relies on (sendFinished): *)
(* one result for each send, which says canceled only when that send was   *)
(* canceled.                                                               *)
THEOREM SendsImplementCycle == Spec => SC!CycleSafety
<1>1. Init => SC!CycleInit
  BY DEF Init, SC!CycleInit, LastResult
<1>2. Init => IInv /\ CanceledIsRequested
  BY InitIInv, CanceledStep
<1>3. IInv /\ CanceledIsRequested /\ [Next]_vars => CanceledIsRequested'
  BY CanceledStep
<1>4. IInv /\ CanceledIsRequested /\ [Next]_vars => [SC!CycleNext]_(SC!cycleVars)
  BY CycleStep
<1>5. QED
  BY <1>1, <1>2, <1>3, <1>4, SendInvariant, PTL DEF Spec, SC!CycleSafety

-----------------------------------------------------------------------------
(* The saved requests and the history.                                     *)

SavedRow == [id : Ids, text : Texts, status : Statuses \cup {0}]
PastRow == [text : Texts, status : Statuses]
PageRow == [id : Ids \cup {Draft}, text : Texts, status : Statuses \cup {0}]

(* What Settings hold is well formed, and no two rows have the same id nor *)
(* one that is still to be given away.                                     *)
StoredIsSound ==
  /\ stored \in [requests : Seq(SavedRow), history : Seq(PastRow)]
  /\ lastId \in 0..MaxRequests
  /\ \A i \in DOMAIN stored.requests : stored.requests[i].id <= lastId
  /\ \A i, j \in DOMAIN stored.requests : stored.requests[i].id = stored.requests[j].id => i = j
  /\ Len(stored.history) <= HistoryCap

(* Memory is Settings once they are loaded, and empty before.              *)
MemoryFollows ==
  /\ loaded \in BOOLEAN
  /\ loaded => requests = stored.requests /\ history = stored.history
  /\ ~loaded => requests = <<>> /\ history = <<>> /\ page = NoPage

PageHasRow ==
  /\ page \in {NoPage} \cup PageRow
  /\ page.id # Draft => \E i \in DOMAIN stored.requests : stored.requests[i].id = page.id

RequestsIInv == StoredIsSound /\ MemoryFollows /\ PageHasRow

LEMMA InMemory ==
  ASSUME RequestsIInv
  PROVE  /\ requests \in Seq(SavedRow) /\ history \in Seq(PastRow)
         /\ \A i \in DOMAIN requests : requests[i] \in SavedRow
         /\ \A i \in DOMAIN history : history[i] \in PastRow
         /\ requests # <<>> \/ history # <<>> \/ Open => loaded
<1>1. requests \in Seq(SavedRow) /\ history \in Seq(PastRow)
  <2>1. stored.requests \in Seq(SavedRow) /\ stored.history \in Seq(PastRow)
    BY DEF RequestsIInv, StoredIsSound
  <2>2. <<>> \in Seq(SavedRow) /\ <<>> \in Seq(PastRow)
    OBVIOUS
  <2>3. QED
    BY <2>1, <2>2 DEF RequestsIInv, MemoryFollows
<1>2. requests # <<>> \/ history # <<>> \/ Open => loaded
  <2>1. ~loaded => requests = <<>> /\ history = <<>> /\ page = NoPage
    BY DEF RequestsIInv, MemoryFollows
  <2>2. QED
    BY <2>1, Zenon DEF Open
<1>3. \A i \in DOMAIN requests : requests[i] \in SavedRow
  BY <1>1
<1>4. \A i \in DOMAIN history : history[i] \in PastRow
  BY <1>1
<1>5. QED
  BY <1>1, <1>2, <1>3, <1>4, Zenon

(* Another page is shown and nothing else changes.                         *)
LEMMA ShowKeeps ==
  ASSUME RequestsIInv, Kept, UNCHANGED lastId,
         page' \in {NoPage} \cup PageRow, loaded \/ page' = NoPage,
         page'.id # Draft => \E i \in DOMAIN requests : requests[i].id = page'.id
  PROVE  RequestsIInv'
<1>1. UNCHANGED <<loaded, requests, history, stored, lastId>>
  BY DEF Kept
<1>2. PageHasRow'
  BY <1>1 DEF PageHasRow, RequestsIInv, MemoryFollows, NoPage
<1>3. (StoredIsSound /\ MemoryFollows)'
  BY <1>1 DEF RequestsIInv, StoredIsSound, MemoryFollows
<1>4. QED
  BY <1>2, <1>3 DEF RequestsIInv

(* Both lists are written, and to Settings at once.                        *)
LEMMA PersistKeeps ==
  ASSUME RequestsIInv, loaded, NEW rs \in Seq(SavedRow), NEW hs \in Seq(PastRow), Persist(rs, hs),
         lastId' \in 0..MaxRequests, Len(hs) <= HistoryCap,
         \A i \in DOMAIN rs : rs[i].id <= lastId',
         \A i, j \in DOMAIN rs : rs[i].id = rs[j].id => i = j,
         page' \in {NoPage} \cup PageRow,
         page'.id # Draft => \E i \in DOMAIN rs : rs[i].id = page'.id
  PROVE  RequestsIInv'
<1>1. requests' = rs /\ history' = hs /\ loaded' = loaded
      /\ stored' = [requests |-> rs, history |-> hs]
  BY DEF Persist
<1>2. stored'.requests = rs /\ stored'.history = hs
  BY <1>1
<1>3. stored' \in [requests : Seq(SavedRow), history : Seq(PastRow)]
  BY <1>1
<1>4. QED
  BY <1>1, <1>2, <1>3 DEF RequestsIInv, StoredIsSound, MemoryFollows, PageHasRow

(* A row that keeps its place: its id stays, and what it says stays or is  *)
(* what its own page said.                                                 *)
Stays ==
  \A i \in DOMAIN stored.requests :
    /\ i \in DOMAIN stored'.requests
    /\ stored'.requests[i].id = stored.requests[i].id
    /\ stored'.requests[i].text # stored.requests[i].text => page.id = stored.requests[i].id

LEMMA KeptStays ==
  ASSUME stored' = stored
  PROVE  Stays
BY DEF Stays

(* A new request goes to the end, under an id that was never used.         *)
LEMMA AppendKeeps ==
  ASSUME RequestsIInv, loaded, lastId < MaxRequests, lastId' = lastId + 1,
         NEW row \in SavedRow, row.id = lastId + 1,
         Persist(Append(requests, row), history), page' \in {page, row}
  PROVE  RequestsIInv' /\ Stays
<1> DEFINE rs == Append(requests, row)
<1>1. requests \in Seq(SavedRow) /\ requests = stored.requests /\ history = stored.history
      /\ Len(history) <= HistoryCap /\ lastId \in Nat /\ MaxRequests \in Nat
      /\ history \in Seq(PastRow)
  BY InMemory, RequestsAssumption DEF RequestsIInv, StoredIsSound, MemoryFollows
<1>2. rs \in Seq(SavedRow) /\ Len(rs) = Len(requests) + 1 /\ rs[Len(requests) + 1] = row
      /\ Len(requests) \in Nat /\ DOMAIN rs = 1..(Len(requests) + 1)
      /\ DOMAIN requests = 1..Len(requests)
      /\ \A i \in 1..Len(requests) : rs[i] = requests[i]
  <2>1. requests \in Seq(SavedRow) /\ row \in SavedRow
    BY <1>1
  <2>2. QED
    BY <2>1
<1>3. \A i \in 1..Len(requests) : requests[i].id <= lastId /\ requests[i].id \in Nat
  BY <1>1, <1>2, InMemory DEF RequestsIInv, StoredIsSound, SavedRow, Ids
<1>4. \A i, j \in 1..Len(requests) : requests[i].id = requests[j].id => i = j
  BY <1>1, <1>2 DEF RequestsIInv, StoredIsSound
<1> HIDE DEF rs
<1>5. \A i \in 1..(Len(requests) + 1) : rs[i].id <= lastId + 1
                                       /\ (rs[i].id = lastId + 1 <=> i = Len(requests) + 1)
  <2> SUFFICES ASSUME NEW i \in 1..(Len(requests) + 1)
               PROVE  rs[i].id <= lastId + 1 /\ (rs[i].id = lastId + 1 <=> i = Len(requests) + 1)
    OBVIOUS
  <2>1. CASE i = Len(requests) + 1
    BY <1>1, <1>2, <2>1
  <2>2. CASE i \in 1..Len(requests)
    <3>1. rs[i].id <= lastId /\ rs[i].id \in Nat
      BY <1>2, <1>3, <2>2
    <3>2. QED
      BY <1>1, <1>2, <2>2, <3>1
  <2>3. QED
    BY <1>2, <2>1, <2>2
<1>6. \A i, j \in DOMAIN rs : rs[i].id = rs[j].id => i = j
  <2> SUFFICES ASSUME NEW i \in DOMAIN rs, NEW j \in DOMAIN rs, rs[i].id = rs[j].id PROVE i = j
    OBVIOUS
  <2>1. CASE i = Len(requests) + 1 \/ j = Len(requests) + 1
    BY <1>2, <1>5, <2>1
  <2>2. CASE i \in 1..Len(requests) /\ j \in 1..Len(requests)
    BY <1>2, <1>4, <2>2
  <2>3. QED
    BY <1>2, <2>1, <2>2
<1>7. page' \in {NoPage} \cup PageRow
  <2>1. row \in PageRow
    BY DEF PageRow, SavedRow
  <2>2. QED
    BY <2>1 DEF RequestsIInv, PageHasRow
<1>8. page'.id # Draft => \E i \in DOMAIN rs : rs[i].id = page'.id
  <2>1. CASE page' = row
    <3>1. Len(requests) + 1 \in DOMAIN rs
      BY <1>2
    <3>2. QED
      BY <1>2, <2>1, <3>1
  <2>2. CASE page' = page
    <3>1. page.id # Draft => \E i \in 1..Len(requests) : requests[i].id = page.id
      BY <1>1, <1>2 DEF RequestsIInv, PageHasRow
    <3>2. \A i \in 1..Len(requests) : i \in DOMAIN rs
      BY <1>2
    <3>3. QED
      BY <1>2, <2>2, <3>1, <3>2
  <2>3. QED
    BY <2>1, <2>2
<1>9. lastId' \in 0..MaxRequests
  BY <1>1
<1>10. \A i \in DOMAIN rs : rs[i].id <= lastId'
  BY <1>2, <1>5
<1>11. Persist(rs, history)
  BY DEF rs
<1>12. RequestsIInv'
  BY <1>1, <1>2, <1>6, <1>7, <1>8, <1>9, <1>10, <1>11, PersistKeeps
<1>13. Stays
  <2>1. stored'.requests = rs
    BY <1>11 DEF Persist
  <2>2. \A i \in 1..Len(requests) : i \in DOMAIN rs
    BY <1>2
  <2>3. QED
    BY <1>1, <1>2, <2>1, <2>2 DEF Stays
<1>14. QED
  BY <1>12, <1>13

(* A saved request takes the place of its row.                             *)
LEMMA ReplaceKeeps ==
  ASSUME RequestsIInv, Open, NEW at \in DOMAIN requests, requests[at].id = page.id,
         page.id # Draft, Persist([requests EXCEPT ![at] = page], history),
         UNCHANGED <<page, lastId>>
  PROVE  RequestsIInv' /\ Stays
<1> DEFINE rs == [requests EXCEPT ![at] = page]
<1>1. loaded /\ requests \in Seq(SavedRow) /\ history \in Seq(PastRow)
      /\ requests = stored.requests /\ history = stored.history
      /\ Len(history) <= HistoryCap /\ lastId \in 0..MaxRequests
  BY InMemory DEF RequestsIInv, StoredIsSound, MemoryFollows
<1>2. page \in SavedRow
  BY RequestsAssumption DEF RequestsIInv, PageHasRow, Open, PageRow, SavedRow, Ids, NoPage, Draft
<1>3. rs \in Seq(SavedRow) /\ DOMAIN rs = DOMAIN requests
      /\ \A i \in DOMAIN requests : rs[i] = IF i = at THEN page ELSE requests[i]
  BY <1>1, <1>2
<1> HIDE DEF rs
<1>4. \A i \in DOMAIN requests : rs[i].id = requests[i].id
  BY <1>3
<1>5. /\ \A i \in DOMAIN requests : requests[i].id <= lastId
      /\ \A i, j \in DOMAIN requests : requests[i].id = requests[j].id => i = j
  BY <1>1 DEF RequestsIInv, StoredIsSound
<1>6. Persist(rs, history)
  BY DEF rs
<1>7. page' \in {NoPage} \cup PageRow
      /\ (page'.id # Draft => \E i \in DOMAIN rs : rs[i].id = page'.id)
  BY <1>3, <1>4 DEF RequestsIInv, PageHasRow
<1>8. RequestsIInv'
  <2>1. lastId' \in 0..MaxRequests /\ \A i \in DOMAIN rs : rs[i].id <= lastId'
    BY <1>1, <1>3, <1>4, <1>5
  <2>2. \A i, j \in DOMAIN rs : rs[i].id = rs[j].id => i = j
    BY <1>3, <1>4, <1>5
  <2>3. QED
    BY <1>1, <1>3, <1>6, <1>7, <2>1, <2>2, PersistKeeps
<1>9. Stays
  <2>1. stored'.requests = rs
    BY <1>6 DEF Persist
  <2>2. QED
    BY <1>1, <1>3, <2>1 DEF Stays
<1>10. QED
  BY <1>8, <1>9

(* The status of a response goes into the row of its page.                 *)
LEMMA ResponseKeeps ==
  ASSUME RequestsIInv, Open, NEW s \in Statuses,
         Persist(updateRequestStatus(page.id, s), appendHistory(page.text, s)),
         UNCHANGED <<page, lastId>>
  PROVE  RequestsIInv' /\ Stays
<1> DEFINE rs == updateRequestStatus(page.id, s)
<1> DEFINE hs == appendHistory(page.text, s)
<1>1. loaded /\ requests \in Seq(SavedRow) /\ history \in Seq(PastRow)
      /\ requests = stored.requests /\ history = stored.history
      /\ lastId \in 0..MaxRequests
      /\ \A i \in DOMAIN requests : requests[i] \in SavedRow
  BY InMemory DEF RequestsIInv, StoredIsSound, MemoryFollows
<1>2. page.text \in Texts
  BY DEF RequestsIInv, PageHasRow, Open, PageRow
<1>3. DOMAIN rs = DOMAIN requests
      /\ \A i \in DOMAIN requests : rs[i] \in SavedRow /\ rs[i].id = requests[i].id
                                                       /\ rs[i].text = requests[i].text
  <2>1. DOMAIN rs = DOMAIN requests
        /\ \A i \in DOMAIN requests : rs[i] = IF i \in indexOf(page.id)
             THEN [requests[i] EXCEPT !.status = s] ELSE requests[i]
    BY DEF updateRequestStatus
  <2> HIDE DEF rs
  <2>2. ASSUME NEW i \in DOMAIN requests
        PROVE  rs[i] \in SavedRow /\ rs[i].id = requests[i].id /\ rs[i].text = requests[i].text
    <3>1. requests[i] \in SavedRow
      BY <1>1
    <3>2. rs[i] = IF i \in indexOf(page.id) THEN [requests[i] EXCEPT !.status = s] ELSE requests[i]
      BY <2>1
    <3>3. QED
      BY <3>1, <3>2 DEF SavedRow
  <2>3. QED
    BY <2>1, <2>2
<1>4. rs \in Seq(SavedRow)
  <2>1. DOMAIN rs = 1..Len(requests) /\ Len(requests) \in Nat
    BY <1>1, <1>3
  <2>2. rs \in [1..Len(requests) -> SavedRow]
    BY <1>1, <1>3, <2>1 DEF updateRequestStatus
  <2> HIDE DEF rs
  <2>3. QED
    BY <2>1, <2>2
<1>5. hs \in Seq(PastRow) /\ Len(hs) <= HistoryCap
  <2> DEFINE all == <<[text |-> page.text, status |-> s]>> \o history
  <2>1. all \in Seq(PastRow) /\ Len(all) \in Nat
    <3>1. <<[text |-> page.text, status |-> s]>> \in Seq(PastRow)
      BY <1>2 DEF PastRow
    <3>2. QED
      BY <1>1, <3>1
  <2>2. hs = SubSeq(all, 1, IF Len(all) > HistoryCap THEN HistoryCap ELSE Len(all))
    BY DEF appendHistory
  <2> DEFINE n == IF Len(all) > HistoryCap THEN HistoryCap ELSE Len(all)
  <2>3. n \in 0..Len(all) /\ n <= HistoryCap /\ n \in Nat
    BY <2>1, RequestsAssumption
  <2> HIDE DEF all, n
  <2>4. SubSeq(all, 1, n) \in Seq(PastRow) /\ Len(SubSeq(all, 1, n)) = n
    BY <2>1, <2>3
  <2>5. hs = SubSeq(all, 1, n)
    BY <2>2 DEF n
  <2> HIDE DEF hs
  <2>6. QED
    BY <2>3, <2>4, <2>5
<1> HIDE DEF rs, hs
<1>6. /\ \A i \in DOMAIN requests : requests[i].id <= lastId
      /\ \A i, j \in DOMAIN requests : requests[i].id = requests[j].id => i = j
  BY <1>1 DEF RequestsIInv, StoredIsSound
<1>7. Persist(rs, hs)
  BY DEF rs, hs
<1>8. page' \in {NoPage} \cup PageRow
      /\ (page'.id # Draft => \E i \in DOMAIN rs : rs[i].id = page'.id)
  BY <1>1, <1>3 DEF RequestsIInv, PageHasRow
<1>9. RequestsIInv'
  <2>1. lastId' \in 0..MaxRequests /\ \A i \in DOMAIN rs : rs[i].id <= lastId'
    BY <1>1, <1>3, <1>6
  <2>2. \A i, j \in DOMAIN rs : rs[i].id = rs[j].id => i = j
    BY <1>3, <1>6
  <2>3. QED
    BY <1>1, <1>4, <1>5, <1>7, <1>8, <2>1, <2>2, PersistKeeps
<1>10. Stays
  <2>1. stored'.requests = rs
    BY <1>7 DEF Persist
  <2>2. QED
    BY <1>1, <1>3, <2>1 DEF Stays
<1>11. QED
  BY <1>9, <1>10

(* A save keeps it: what it writes to the Keychain and what it removes     *)
(* from it is what the saved list shows.                                   *)
LEMMA SaveKeeps ==
  ASSUME RequestsIInv, saveRequest
  PROVE  RequestsIInv' /\ Stays
<1>1. Open /\ loaded /\ lastId \in Nat /\ page \in PageRow
  BY InMemory DEF saveRequest, Open, RequestsIInv, PageHasRow, StoredIsSound
<1>2. CASE page.id = Draft
  <2>1. lastId < MaxRequests /\ lastId' = lastId + 1 /\ page' = [page EXCEPT !.id = lastId + 1]
        /\ Persist(Append(requests, page'), history)
    BY <1>2 DEF saveRequest
  <2>2. page' \in SavedRow /\ page'.id = lastId + 1
    BY <1>1, <2>1, RequestsAssumption DEF PageRow, SavedRow, Ids
  <2>3. QED
    BY <1>1, <2>1, <2>2, AppendKeeps
<1>3. CASE page.id # Draft
  <2>1. PICK i \in indexOf(page.id) : Persist([requests EXCEPT ![i] = page], history)
    BY <1>3 DEF saveRequest
  <2>2. UNCHANGED <<page, lastId>> /\ i \in DOMAIN requests /\ requests[i].id = page.id
    BY <1>3 DEF saveRequest, indexOf
  <2>3. QED
    BY <1>1, <1>3, <2>1, <2>2, ReplaceKeeps
<1>4. QED
  BY <1>2, <1>3

LEMMA PagesKeep ==
  ASSUME RequestsIInv,
         \/ CloseRequest \/ StartSend \/ CancelSend
         \/ \E t \in Texts : OpenDraft(t) \/ EditText(t)
         \/ \E i \in DOMAIN requests : OpenSaved(i)
         \/ \E i \in DOMAIN history : OpenHistory(i)
  PROVE  RequestsIInv' /\ Stays
<1>1. Kept /\ UNCHANGED lastId
  BY DEF CloseRequest, StartSend, CancelSend, OpenDraft, EditText, OpenSaved, OpenHistory, Show
<1>2. NoPage.id = Draft
  BY DEF NoPage
<1>3. page \in {NoPage} \cup PageRow /\ (loaded => requests = stored.requests)
      /\ (page.id # Draft => \E i \in DOMAIN stored.requests : stored.requests[i].id = page.id)
      /\ (~loaded => page = NoPage)
  BY DEF RequestsIInv, PageHasRow, MemoryFollows
<1> DEFINE Fits(p) == /\ (p \in {NoPage} \cup PageRow /\ loaded) \/ p = NoPage
                      /\ p.id # Draft => \E i \in DOMAIN requests : requests[i].id = p.id
<1>4. Fits(page)
  BY <1>2, <1>3
<1>5. \A t \in Texts : Request(Draft, t, 0) \in PageRow /\ Request(Draft, t, 0).id = Draft
  BY DEF Request, PageRow, Draft
<1>6. ASSUME CloseRequest \/ StartSend \/ CancelSend PROVE Fits(page')
  BY <1>2, <1>4, <1>6 DEF CloseRequest, StartSend, CancelSend
<1>7. ASSUME NEW t \in Texts, OpenDraft(t) PROVE Fits(page')
  BY <1>5, <1>7 DEF OpenDraft, Show
<1>8. ASSUME NEW t \in Texts, EditText(t) PROVE Fits(page')
  <2>1. page \in PageRow /\ page' = [page EXCEPT !.text = t] /\ loaded
    BY <1>3, <1>8 DEF EditText, Show, Open
  <2>2. page' \in PageRow /\ page'.id = page.id
    BY <2>1, <1>8 DEF PageRow
  <2>3. QED
    BY <1>4, <2>1, <2>2
<1>9. ASSUME NEW i \in DOMAIN requests, OpenSaved(i) PROVE Fits(page')
  <2>1. page' = requests[i] /\ requests[i] \in SavedRow /\ loaded
    BY <1>9, InMemory DEF OpenSaved, Show
  <2>2. requests[i] \in PageRow
    BY <2>1 DEF SavedRow, PageRow
  <2>3. QED
    BY <2>1, <2>2
<1>10. ASSUME NEW i \in DOMAIN history, OpenHistory(i) PROVE Fits(page')
  <2>1. page' = Request(Draft, history[i].text, 0) /\ history[i] \in PastRow /\ loaded
    BY <1>10, InMemory DEF OpenHistory, Show
  <2>2. history[i].text \in Texts
    BY <2>1 DEF PastRow
  <2>3. QED
    BY <1>5, <2>1, <2>2
<1>11. Fits(page')
  <2> HIDE DEF Fits
  <2>1. CASE CloseRequest \/ StartSend \/ CancelSend
    BY <1>4, <1>6, <2>1
  <2>2. QED
    BY <1>7, <1>8, <1>9, <1>10, <2>1
<1>12. RequestsIInv'
  BY <1>1, <1>11, ShowKeeps
<1>13. QED
  BY <1>1, <1>12, KeptStays DEF Kept

LEMMA RequestsKeep ==
  ASSUME RequestsIInv, [RequestsNext]_requestVars
  PROVE  RequestsIInv' /\ Stays
<1>1. CASE UNCHANGED requestVars
  BY <1>1, KeptStays DEF requestVars, RequestsIInv, StoredIsSound, MemoryFollows, PageHasRow
<1>2. CASE ensureLoaded
  <2>1. requests = <<>> /\ page = NoPage /\ NoPage.id = Draft
    BY <1>2 DEF ensureLoaded, RequestsIInv, MemoryFollows, NoPage
  <2>2. QED
    BY <1>2, <2>1, KeptStays
       DEF ensureLoaded, RequestsIInv, StoredIsSound, MemoryFollows, PageHasRow
<1>3. ASSUME NEW t \in Texts, addRequest(t) PROVE RequestsIInv' /\ Stays
  <2>1. Request(lastId + 1, t, 0) \in SavedRow /\ Request(lastId + 1, t, 0).id = lastId + 1
    BY <1>3, RequestsAssumption
       DEF addRequest, makeRequest, Request, SavedRow, Ids, RequestsIInv, StoredIsSound
  <2>2. QED
    BY <1>3, <2>1, AppendKeeps DEF addRequest, makeRequest
<1>4. CASE saveRequest
  BY <1>4, SaveKeeps
<1>5. CASE clearHistory
  <2>1. loaded /\ requests \in Seq(SavedRow) /\ requests = stored.requests
    BY <1>5, InMemory DEF clearHistory, RequestsIInv, MemoryFollows
  <2>2. <<>> \in Seq(PastRow) /\ Len(<<>>) <= HistoryCap
    BY RequestsAssumption
  <2>3. RequestsIInv'
    BY <1>5, <2>1, <2>2, PersistKeeps
       DEF clearHistory, RequestsIInv, StoredIsSound, PageHasRow
  <2>4. Stays
    BY <1>5, <2>1 DEF clearHistory, Persist, Stays
  <2>5. QED
    BY <2>3, <2>4
<1>6. CASE onSendResult
  <2>1. CASE Kept
    <3>1. UNCHANGED <<page, lastId>>
      BY <1>6 DEF onSendResult
    <3>2. RequestsIInv'
      BY <2>1, <3>1 DEF Kept, RequestsIInv, StoredIsSound, MemoryFollows, PageHasRow
    <3>3. QED
      BY <2>1, <3>2, KeptStays DEF Kept
  <2>2. CASE Open /\ \E s \in Statuses :
               Persist(updateRequestStatus(page.id, s), appendHistory(page.text, s))
    <3>1. UNCHANGED <<page, lastId>>
      BY <1>6 DEF onSendResult
    <3>2. QED
      BY <2>2, <3>1, ResponseKeeps
  <2>3. QED
    BY <1>6, <2>1, <2>2 DEF onSendResult
<1>7. CASE Restart
  <2>1. NoPage.id = Draft
    BY DEF NoPage
  <2>2. QED
    BY <1>7, <2>1, KeptStays
       DEF Restart, RequestsIInv, StoredIsSound, MemoryFollows, PageHasRow
<1>8. CASE \/ CloseRequest \/ StartSend \/ CancelSend
           \/ \E t \in Texts : OpenDraft(t) \/ EditText(t)
           \/ \E i \in DOMAIN requests : OpenSaved(i)
           \/ \E i \in DOMAIN history : OpenHistory(i)
  BY <1>8, PagesKeep
<1>9. QED
  BY <1>1, <1>2, <1>3, <1>4, <1>5, <1>6, <1>7, <1>8 DEF RequestsNext

(* The saved requests and the history are in Settings as they are in       *)
(* memory, however requests are edited, saved, sent and closed, and        *)
(* wherever the app is ended: the inductive invariant.                     *)
THEOREM RequestsInvariant == RequestsSpec => []RequestsIInv
<1>1. RequestsInit => RequestsIInv
  <2> SUFFICES ASSUME RequestsInit PROVE RequestsIInv
    OBVIOUS
  <2>1. stored = [requests |-> <<>>, history |-> <<>>] /\ loaded = FALSE /\ requests = <<>>
        /\ history = <<>> /\ page = NoPage /\ lastId = 0
    BY DEF RequestsInit
  <2>2. stored \in [requests : Seq(SavedRow), history : Seq(PastRow)]
        /\ stored.requests = <<>> /\ stored.history = <<>> /\ NoPage.id = Draft
    BY <2>1 DEF NoPage
  <2>3. StoredIsSound
    <3>1. 0 \in 0..MaxRequests /\ Len(<<>>) <= HistoryCap /\ DOMAIN <<>> = {}
      BY RequestsAssumption
    <3>2. QED
      BY <2>1, <2>2, <3>1 DEF StoredIsSound
  <2>4. MemoryFollows /\ PageHasRow
    BY <2>1, <2>2 DEF MemoryFollows, PageHasRow
  <2>5. QED
    BY <2>3, <2>4 DEF RequestsIInv
<1>2. RequestsIInv /\ [RequestsNext]_requestVars => RequestsIInv'
  BY RequestsKeep
<1>3. QED
  BY <1>1, <1>2, PTL DEF RequestsSpec

(* "replaced in place, position kept, no duplicate" (apiservice.h): no two *)
(* saved requests are the same, a saved one keeps its place and only its   *)
(* own page changes what it says, the history keeps to its cap, and the    *)
(* open page has its row.                                                  *)
THEOREM RequestsAreKept == RequestsSpec => RequestsStay
<1>1. RequestsIInv => RequestsTypeOK
  <2> SUFFICES ASSUME RequestsIInv PROVE RequestsTypeOK
    OBVIOUS
  <2>1. requests \in Seq(SavedRow) /\ history \in Seq(PastRow)
    BY InMemory
  <2>2. page \in {NoPage} \cup PageRow
    BY DEF RequestsIInv, PageHasRow
  <2>3. QED
    BY <2>1, <2>2 DEF RequestsTypeOK, SavedRow, PastRow, PageRow
<1>2. RequestsIInv => RequestsKept
  <2> SUFFICES ASSUME RequestsIInv PROVE RequestsKept
    OBVIOUS
  <2>1. loaded => stored = [requests |-> requests, history |-> history]
    BY DEF RequestsIInv, StoredIsSound, MemoryFollows
  <2>2. IsInjective([i \in DOMAIN stored.requests |-> stored.requests[i].id])
    BY DEF RequestsIInv, StoredIsSound, IsInjective
  <2>3. page.id # Draft => indexOf(page.id) # {}
    <3> SUFFICES ASSUME page.id # Draft PROVE indexOf(page.id) # {}
      OBVIOUS
    <3>1. requests = stored.requests
      BY DEF RequestsIInv, MemoryFollows, NoPage
    <3>2. PICK i \in DOMAIN stored.requests : stored.requests[i].id = page.id
      BY DEF RequestsIInv, PageHasRow
    <3>3. QED
      BY <3>1, <3>2 DEF indexOf
  <2>4. QED
    BY <2>1, <2>2, <2>3 DEF RequestsKept, RequestsIInv, StoredIsSound
<1>3. RequestsIInv /\ [RequestsNext]_requestVars => [Stays]_requestVars
  BY RequestsKeep
<1>4. RequestsSpec => RowsStay
  BY <1>3, RequestsInvariant, PTL DEF RequestsSpec, RowsStay, Stays
<1>5. QED
  BY <1>1, <1>2, <1>4, RequestsInvariant, PTL DEF RequestsStay

(* The environments that were saved, and the copy in the dialog.           *)
StoredVar == [name : VarNames, value : PlainValues \cup {NoValue}, secret : BOOLEAN,
              saved : BOOLEAN]
DraftRow == [name : VarNames \cup {NoName}, value : PlainValues \cup {NoValue},
             secret : BOOLEAN, typed : SecretValues \cup {NoValue}]
StoredEnv(n) == [id : 1..n, vars : Seq(StoredVar)]
DraftEnv(n) == [id : 0..n, vars : Seq(DraftRow)]

EnvsOK(es, n) ==
  /\ es \in Seq(StoredEnv(n))
  /\ \A i, j \in DOMAIN es : es[i].id = es[j].id => i = j
DraftOK(d, n) ==
  /\ d \in Seq(DraftEnv(n))
  /\ \A i, j \in DOMAIN d : d[i].id = d[j].id /\ d[i].id # NewEnv => i = j

(* The Keychain has an item for every secret that is shown as saved, and,  *)
(* as long as it has taken all it was given, no other.                     *)
KeysOK(k, es, n, no) ==
  /\ DOMAIN k \subseteq (1..n) \X VarNames
  /\ \A key \in DOMAIN k : k[key] \in SecretValues
  /\ SavedKeys(es) \subseteq DOMAIN k
  /\ ~no => DOMAIN k \subseteq SavedKeys(es)

EnvironmentsIInv ==
  /\ lastEnv \in Nat /\ refused \in BOOLEAN
  /\ EnvsOK(envs, lastEnv)
  /\ envStored = [envs |-> envs, active |-> activeEnv]
  /\ envs # <<>> => activeEnv \in EnvIds(envs)
  /\ dialog # Closed => DraftOK(dialog, lastEnv)
  /\ KeysOK(keychain, envs, lastEnv, refused)

-----------------------------------------------------------------------------
(* An element of a list.                                                   *)
LEMMA SeqElement ==
  ASSUME NEW S, NEW s \in Seq(S), NEW i \in DOMAIN s
  PROVE  s[i] \in S
OBVIOUS

(* A list without the element at a place.                                  *)
LEMMA RemovedFacts ==
  ASSUME NEW S, NEW s \in Seq(S), NEW i \in DOMAIN s
  PROVE  /\ RemoveAt(s, i) \in Seq(S)
         /\ DOMAIN RemoveAt(s, i) = 1..(Len(s) - 1)
         /\ \A k \in DOMAIN RemoveAt(s, i) :
              RemoveAt(s, i)[k] = IF k < i THEN s[k] ELSE s[k + 1]
<1> DEFINE a == SubSeq(s, 1, i - 1) b == SubSeq(s, i + 1, Len(s))
<1>1. Len(s) \in Nat /\ DOMAIN s = 1..Len(s) /\ i \in 1..Len(s)
  OBVIOUS
<1>2. a \in Seq(S) /\ Len(a) = i - 1 /\ \A k \in 1..(i - 1) : a[k] = s[k]
  BY <1>1
<1>3. b \in Seq(S) /\ Len(b) = Len(s) - i /\ \A k \in 1..(Len(s) - i) : b[k] = s[i + k]
  BY <1>1
<1>4. RemoveAt(s, i) = a \o b
  BY DEF RemoveAt
<1> HIDE DEF a, b
<1>5. a \o b \in Seq(S) /\ Len(a \o b) = Len(s) - 1
  <2>1. a \in Seq(S) /\ b \in Seq(S)
    BY <1>2, <1>3
  <2>2. a \o b \in Seq(S) /\ Len(a \o b) = Len(a) + Len(b)
    BY <2>1
  <2>3. (i - 1) + (Len(s) - i) = Len(s) - 1
    BY <1>1
  <2>4. QED
    BY <2>2, <2>3, <1>2, <1>3
<1>6. \A k \in 1..(Len(s) - 1) : (a \o b)[k] = IF k < i THEN s[k] ELSE s[k + 1]
  <2> SUFFICES ASSUME NEW k \in 1..(Len(s) - 1)
               PROVE  (a \o b)[k] = IF k < i THEN s[k] ELSE s[k + 1]
    OBVIOUS
  <2>1. CASE k < i
    <3>1. k \in 1..Len(a) /\ k \in 1..(i - 1)
      BY <2>1, <1>1, <1>2
    <3>2. (a \o b)[k] = a[k]
      BY <3>1, <1>2, <1>3
    <3>3. a[k] = s[k]
      BY <3>1, <1>2
    <3>4. QED
      BY <2>1, <3>2, <3>3
  <2>2. CASE ~(k < i)
    <3>1. k - Len(a) \in 1..(Len(s) - i) /\ i + (k - Len(a)) = k + 1 /\ k > Len(a)
          /\ k \in 1..(Len(a) + Len(b))
      BY <2>2, <1>1, <1>2, <1>3, SMTT(30)
    <3>2. (a \o b)[k] = b[k - Len(a)]
      <4>1. a \in Seq(S) /\ b \in Seq(S) /\ Len(a) \in Nat /\ ~(k <= Len(a))
        BY <3>1, <1>1, <1>2, <1>3
      <4>2. QED
        BY <3>1, <4>1, ConcatProperties
    <3>3. b[k - Len(a)] = s[k + 1]
      BY <3>1, <1>3
    <3>4. QED
      BY <3>2, <3>3, <2>2
  <2>3. QED
    BY <2>1, <2>2
<1> DEFINE r == a \o b
<1>7. DOMAIN r = 1..(Len(s) - 1)
  <2>1. r \in Seq(S) /\ Len(r) = Len(s) - 1
    BY <1>5
  <2> HIDE DEF r
  <2>2. QED
    BY <2>1
<1>8. QED
  BY <1>4, <1>5, <1>6, <1>7

(* One environment of the dialog.                                          *)
LEMMA DraftElement ==
  ASSUME NEW n \in Nat, NEW d, DraftOK(d, n), NEW i \in DOMAIN d
  PROVE  /\ d[i] \in DraftEnv(n) /\ d[i].id \in 0..n /\ d[i].vars \in Seq(DraftRow)
         /\ d[i] = [id |-> d[i].id, vars |-> d[i].vars]
         /\ DOMAIN d = 1..Len(d) /\ Len(d) \in Nat
<1>1. d \in Seq(DraftEnv(n))
  BY DEF DraftOK
<1>2. d[i] \in DraftEnv(n)
  BY <1>1, SeqElement
<1>3. QED
  BY <1>1, <1>2 DEF DraftEnv

(* One row of it.                                                          *)
LEMMA RowElement ==
  ASSUME NEW rows \in Seq(DraftRow), NEW j \in DOMAIN rows
  PROVE  /\ rows[j] \in DraftRow
         /\ rows[j].name \in VarNames \cup {NoName}
         /\ rows[j].value \in PlainValues \cup {NoValue}
         /\ rows[j].secret \in BOOLEAN /\ rows[j].typed \in SecretValues \cup {NoValue}
<1>1. rows[j] \in DraftRow
  BY SeqElement
<1>2. QED
  BY <1>1 DEF DraftRow

-----------------------------------------------------------------------------
(* What the dialog shows when it is opened.                                *)
LEMMA OpenedIsDraft ==
  ASSUME NEW n \in Nat, NEW es, EnvsOK(es, n)
  PROVE  DraftOK([i \in DOMAIN es |->
           [id |-> es[i].id,
            vars |-> [j \in DOMAIN es[i].vars |->
              LET v == es[i].vars[j] IN Row(v.name, v.value, v.secret)]]], n)
<1> DEFINE d == [i \in DOMAIN es |->
           [id |-> es[i].id,
            vars |-> [j \in DOMAIN es[i].vars |->
              LET v == es[i].vars[j] IN Row(v.name, v.value, v.secret)]]]
<1>1. es \in Seq(StoredEnv(n)) /\ Len(es) \in Nat /\ DOMAIN es = 1..Len(es)
  BY DEF EnvsOK
<1>2. ASSUME NEW i \in DOMAIN es PROVE d[i] \in DraftEnv(n) /\ d[i].id = es[i].id
  <2>1. es[i] \in StoredEnv(n)
    BY <1>1, SeqElement
  <2> DEFINE vs == es[i].vars
  <2>2. es[i].id \in 1..n /\ vs \in Seq(StoredVar)
    BY <2>1 DEF StoredEnv
  <2> HIDE DEF vs
  <2>3. Len(vs) \in Nat /\ DOMAIN vs = 1..Len(vs)
    BY <2>2
  <2>4. ASSUME NEW j \in DOMAIN vs
        PROVE  Row(vs[j].name, vs[j].value, vs[j].secret) \in DraftRow
    <3>1. vs[j] \in StoredVar
      BY <2>2, SeqElement
    <3>2. QED
      BY <3>1 DEF StoredVar, DraftRow, Row
  <2> DEFINE ws == [j \in DOMAIN vs |-> Row(vs[j].name, vs[j].value, vs[j].secret)]
  <2>5. ws \in [1..Len(vs) -> DraftRow]
    BY <2>3, <2>4
  <2>6. ws \in Seq(DraftRow)
    BY <2>3, <2>5, IsSeq
  <2>7. d[i] = [id |-> es[i].id, vars |-> ws]
    BY DEF vs
  <2> HIDE DEF ws, d
  <2>8. es[i].id \in 0..n
    BY <2>2
  <2>9. QED
    BY <2>6, <2>7, <2>8 DEF DraftEnv
<1>3. d \in [1..Len(es) -> DraftEnv(n)] /\ DOMAIN d = DOMAIN es
  BY <1>1, <1>2
<1>4. \A i, j \in DOMAIN es : es[i].id = es[j].id => i = j
  BY DEF EnvsOK
<1>5. DraftOK(d, n)
  <2> HIDE DEF d
  <2>1. d \in Seq(DraftEnv(n))
    BY <1>1, <1>3, IsSeq
  <2>2. QED
    BY <2>1, <1>2, <1>3, <1>4 DEF DraftOK
<1>6. QED
  BY <1>5

(* An environment that is added has no id yet.                             *)
LEMMA AddedIsDraft ==
  ASSUME NEW n \in Nat, NEW d, DraftOK(d, n), NEW rows \in Seq(DraftRow)
  PROVE  DraftOK(Append(d, [id |-> NewEnv, vars |-> rows]), n)
<1> DEFINE e == [id |-> NewEnv, vars |-> rows] a == Append(d, e)
<1>1. e \in DraftEnv(n) /\ e.id = NewEnv
  BY DEF DraftEnv, NewEnv
<1>2. d \in Seq(DraftEnv(n)) /\ Len(d) \in Nat /\ DOMAIN d = 1..Len(d)
  BY DEF DraftOK
<1> HIDE DEF e
<1>3. a \in Seq(DraftEnv(n)) /\ DOMAIN a = 1..(Len(d) + 1) /\ a[Len(d) + 1] = e
      /\ \A i \in 1..Len(d) : a[i] = d[i]
  BY <1>1, <1>2
<1> HIDE DEF a
<1>4. ASSUME NEW i \in DOMAIN a, NEW j \in DOMAIN a, a[i].id = a[j].id, a[i].id # NewEnv
      PROVE  i = j
  <2>1. i # Len(d) + 1 /\ j # Len(d) + 1
    BY <1>1, <1>3, <1>4
  <2>2. i \in DOMAIN d /\ j \in DOMAIN d
    BY <2>1, <1>2, <1>3
  <2>3. QED
    BY <2>2, <1>2, <1>3, <1>4 DEF DraftOK
<1>5. DraftOK(a, n)
  BY <1>3, <1>4 DEF DraftOK
<1>6. QED
  BY <1>5 DEF a, e

(* Deleting an environment leaves the others theirs.                       *)
LEMMA RemovedIsDraft ==
  ASSUME NEW n \in Nat, NEW d, DraftOK(d, n), NEW i \in DOMAIN d
  PROVE  DraftOK(RemoveAt(d, i), n)
<1> DEFINE r == RemoveAt(d, i)
<1>1. d \in Seq(DraftEnv(n)) /\ Len(d) \in Nat /\ DOMAIN d = 1..Len(d)
  BY DEF DraftOK
<1>2. r \in Seq(DraftEnv(n)) /\ DOMAIN r = 1..(Len(d) - 1)
      /\ \A k \in DOMAIN r : r[k] = IF k < i THEN d[k] ELSE d[k + 1]
  BY <1>1, RemovedFacts
<1> HIDE DEF r
<1>3. ASSUME NEW k \in DOMAIN r, NEW l \in DOMAIN r, r[k].id = r[l].id, r[k].id # NewEnv
      PROVE  k = l
  <2> DEFINE At(m) == IF m < i THEN m ELSE m + 1
  <2>1. At(k) \in DOMAIN d /\ At(l) \in DOMAIN d /\ (At(k) = At(l) => k = l)
    BY <1>1, <1>2
  <2>2. r[k] = d[At(k)] /\ r[l] = d[At(l)]
    BY <1>2
  <2>3. QED
    BY <2>1, <2>2, <1>3 DEF DraftOK
<1>4. QED
  BY <1>2, <1>3 DEF DraftOK, r

(* An edit of the rows of one environment.                                 *)
LEMMA EditedIsDraft ==
  ASSUME NEW n \in Nat, NEW d, DraftOK(d, n), NEW i \in DOMAIN d, NEW rows \in Seq(DraftRow)
  PROVE  DraftOK([d EXCEPT ![i].vars = rows], n)
<1> DEFINE x == [d[i] EXCEPT !.vars = rows] e == [d EXCEPT ![i].vars = rows]
<1>1. d \in Seq(DraftEnv(n)) /\ Len(d) \in Nat /\ DOMAIN d = 1..Len(d)
      /\ d \in [1..Len(d) -> DraftEnv(n)]
  BY DEF DraftOK
<1>2. x \in DraftEnv(n) /\ x.id = d[i].id
  <2>1. d[i] \in DraftEnv(n)
    BY DraftElement
  <2>2. QED
    BY <2>1 DEF DraftEnv
<1>3. e = [d EXCEPT ![i] = x]
  BY Zenon
<1> HIDE DEF x, e
<1>4. e \in [1..Len(d) -> DraftEnv(n)] /\ DOMAIN e = DOMAIN d
      /\ \A k \in DOMAIN d : e[k].id = d[k].id
  BY <1>1, <1>2, <1>3
<1>5. e \in Seq(DraftEnv(n))
  BY <1>1, <1>4, IsSeq
<1>6. DraftOK(e, n)
  BY <1>4, <1>5 DEF DraftOK
<1>7. QED
  BY <1>6 DEF e

-----------------------------------------------------------------------------
(* What a save makes of the rows: those with a name, in their order.       *)
LEMMA NamedFacts ==
  ASSUME lastEnv \in Nat, DraftOK(dialog, lastEnv), NEW i \in DOMAIN dialog
  PROVE  /\ Named(i) \in Seq(DraftRow)
         /\ DOMAIN Named(i) = 1..Len(Named(i)) /\ Len(Named(i)) \in Nat
         /\ \A j \in DOMAIN Named(i) :
              /\ Named(i)[j].name \in VarNames
              /\ Named(i)[j].value \in PlainValues \cup {NoValue}
              /\ Named(i)[j].secret \in BOOLEAN
<1> DEFINE vs == dialog[i].vars I == {j \in DOMAIN vs : vs[j].name # NoName} p == Named(i)
<1>1. vs \in Seq(DraftRow)
  BY DraftElement
<1>2. I \in SUBSET (1..Len(vs))
  BY <1>1
<1>3. p = Picked(vs, I)
  BY DEF Named
<1> HIDE DEF vs
<1>4. p \in Seq(DraftRow) /\ {p[k] : k \in DOMAIN p} = {vs[j] : j \in I}
  <2> HIDE DEF I, p
  <2> DEFINE q == Picked(vs, I)
  <2>1. q \in Seq(DraftRow) /\ {q[k] : k \in DOMAIN q} = {vs[j] : j \in I}
    BY <1>1, <1>2, PickedFacts, ZenonT(60)
  <2>2. QED
    BY <2>1, <1>3
<1> HIDE DEF p
<1>5. ASSUME NEW j \in DOMAIN p
      PROVE  /\ p[j].name \in VarNames /\ p[j].value \in PlainValues \cup {NoValue}
             /\ p[j].secret \in BOOLEAN
  <2>1. PICK k \in I : p[j] = vs[k]
    BY <1>4
  <2>2. k \in DOMAIN vs /\ vs[k].name # NoName
    BY <2>1
  <2>3. /\ vs[k].name \in VarNames \cup {NoName} /\ vs[k].value \in PlainValues \cup {NoValue}
        /\ vs[k].secret \in BOOLEAN
    BY <1>1, <2>2, RowElement
  <2>4. QED
    BY <2>1, <2>2, <2>3
<1>6. DOMAIN p = 1..Len(p) /\ Len(p) \in Nat
  BY <1>4
<1>7. QED
  BY <1>4, <1>5, <1>6 DEF p

(* A set of places of a list that is not empty has a last one.             *)
LEMMA LastPlace ==
  ASSUME NEW n \in Nat, NEW I \in SUBSET (1..n), I # {}
  PROVE  \E j \in I : \A k \in I : k <= j
<1> DEFINE B == {m \in Nat : \A k \in I : k <= m}
<1>1. n \in B
  OBVIOUS
<1>2. PICK m \in B : \A b \in B : m <= b
  <2>1. B \in SUBSET Nat /\ B # {}
    BY <1>1
  <2> HIDE DEF B
  <2>2. QED
    BY <2>1, LeastNat
<1>3. m \in I
  <2> SUFFICES ASSUME m \notin I PROVE FALSE
    OBVIOUS
  <2>1. PICK k \in I : TRUE
    OBVIOUS
  <2>2. m \in Nat /\ k \in Nat \ {0} /\ k <= m
    BY <1>2
  <2>3. \A j \in I : j <= m - 1
    <3> SUFFICES ASSUME NEW j \in I PROVE j <= m - 1
      OBVIOUS
    <3>1. j \in Nat /\ j <= m /\ j # m
      BY <1>2
    <3>2. QED
      BY <3>1, <2>2
  <2>4. m - 1 \in B
    BY <2>2, <2>3
  <2>5. QED
    BY <1>2, <2>2, <2>4
<1>4. QED
  BY <1>2, <1>3

(* What is handed over for a name is a secret that was typed.              *)
LEMMA TypedIsSecret ==
  ASSUME lastEnv \in Nat, DraftOK(dialog, lastEnv), NEW i \in DOMAIN dialog,
         NEW n \in VarNames, TypedRows(i, n) # {}
  PROVE  Typed(i, n) \in SecretValues
<1> DEFINE vs == dialog[i].vars I == TypedRows(i, n)
<1>1. vs \in Seq(DraftRow) /\ Len(vs) \in Nat
  <2>1. vs \in Seq(DraftRow)
    BY DraftElement
  <2> HIDE DEF vs
  <2>2. QED
    BY <2>1
<1>2. I \in SUBSET (1..Len(vs)) /\ \A j \in I : j \in DOMAIN vs /\ vs[j].typed # NoValue
  BY <1>1 DEF TypedRows
<1> DEFINE last == CHOOSE j \in I : \A k \in I : k <= j
<1>3. Typed(i, n) = vs[last].typed
  BY DEF Typed
<1> HIDE DEF vs
<1>4. last \in I
  <2> HIDE DEF I
  <2>1. \E j \in I : \A k \in I : k <= j
    BY <1>1, <1>2, LastPlace DEF I
  <2>2. QED
    BY <2>1
<1> HIDE DEF last, I
<1>5. vs[last].typed \in SecretValues \cup {NoValue} /\ vs[last].typed # NoValue
  BY <1>1, <1>2, <1>4, RowElement
<1>6. QED
  BY <1>3, <1>5

(* What was typed is handed over under the ids of environments the service *)
(* knows, or under temporary ones, which are below all of them.            *)
LEMMA SecretsHanded ==
  ASSUME lastEnv \in Nat, DraftOK(dialog, lastEnv), NEW key \in DOMAIN doSaveSecrets
  PROVE  /\ doSaveSecrets[key] \in SecretValues
         /\ key[1] \in Int /\ key[1] <= lastEnv
<1> DEFINE keys == {k \in (DOMAIN dialog) \X VarNames : TypedRows(k[1], k[2]) # {}}
           K(k) == <<envKey(k[1]), k[2]>>
           k0 == CHOOSE k \in keys : K(k) = key
<1>1. DOMAIN doSaveSecrets = {K(k) : k \in keys}
  BY DEF doSaveSecrets
<1>2. doSaveSecrets[key] = Typed(k0[1], k0[2])
  BY DEF doSaveSecrets
<1>3. \E k \in keys : K(k) = key
  BY <1>1
<1>4. k0 \in keys /\ K(k0) = key
  <2> HIDE DEF keys, K
  <2>1. QED
    BY <1>3
<1>5. k0[1] \in DOMAIN dialog /\ k0[2] \in VarNames /\ TypedRows(k0[1], k0[2]) # {}
  BY <1>4
<1>6. key[1] = envKey(k0[1])
  BY <1>4
<1> HIDE DEF k0
<1>7. dialog[k0[1]].id \in 0..lastEnv /\ k0[1] \in Nat
  BY <1>5, DraftElement
<1>8. QED
  BY <1>2, <1>5, <1>6, <1>7, TypedIsSecret DEF envKey

-----------------------------------------------------------------------------
(* The ids of the environments after a save.                               *)
News(i) == {k \in 1..i : dialog[k].id = NewEnv}
NextEnv == lastEnv + Cardinality({i \in DOMAIN dialog : dialog[i].id = NewEnv})

(* New environments are counted up to a place.                             *)
LEMMA NewsCount ==
  ASSUME NEW i \in Nat, NEW j \in Nat, i <= j
  PROVE  /\ Cardinality(News(i)) \in Nat /\ Cardinality(News(j)) \in Nat
         /\ Cardinality(News(i)) <= Cardinality(News(j))
         /\ j \in News(j) => 1 <= Cardinality(News(j))
         /\ i < j /\ j \in News(j) => Cardinality(News(i)) < Cardinality(News(j))
<1>1. IsFiniteSet(1..j) /\ IsFiniteSet({})
  BY FS_Interval, FS_EmptySet
<1>2. News(j) \in SUBSET (1..j) /\ News(i) \in SUBSET News(j)
  BY DEF News
<1>3. IsFiniteSet(News(j))
  BY <1>1, <1>2, FS_Subset
<1>4. IsFiniteSet(News(i)) /\ Cardinality(News(i)) <= Cardinality(News(j))
      /\ (Cardinality(News(j)) = Cardinality(News(i)) => News(j) = News(i))
  BY <1>2, <1>3, FS_Subset
<1>5. Cardinality(News(i)) \in Nat /\ Cardinality(News(j)) \in Nat
  BY <1>3, <1>4, FS_CardinalityType
<1>6. i < j => j \notin News(i)
  BY DEF News
<1>7. j \in News(j) => Cardinality(News(j)) # 0
  BY <1>3, FS_EmptySet
<1>8. QED
  BY <1>4, <1>5, <1>6, <1>7

(* After a save every environment has an id of its own: the new ones get   *)
(* ids no other environment ever had.                                      *)
LEMMA EnvIdFacts ==
  ASSUME lastEnv \in Nat, DraftOK(dialog, lastEnv)
  PROVE  /\ NextEnv \in Nat /\ lastEnv <= NextEnv
         /\ \A i \in DOMAIN dialog : envId(i) \in 1..NextEnv
         /\ \A i, j \in DOMAIN dialog : envId(i) = envId(j) => i = j
<1> DEFINE n == Len(dialog) C(i) == Cardinality(News(i))
<1>1. n \in Nat /\ DOMAIN dialog = 1..n
  BY DEF DraftOK
<1>2. NextEnv = lastEnv + C(n)
  BY <1>1 DEF NextEnv, News
<1>3. \A i \in DOMAIN dialog :
        IF dialog[i].id = NewEnv THEN envId(i) = lastEnv + C(i) /\ i \in News(i)
        ELSE envId(i) = dialog[i].id /\ dialog[i].id \in 1..lastEnv
  <2> SUFFICES ASSUME NEW i \in DOMAIN dialog
               PROVE  IF dialog[i].id = NewEnv
                        THEN envId(i) = lastEnv + C(i) /\ i \in News(i)
                        ELSE envId(i) = dialog[i].id /\ dialog[i].id \in 1..lastEnv
    OBVIOUS
  <2>1. dialog[i].id \in 0..lastEnv /\ i \in 1..i
    BY <1>1, DraftElement
  <2>2. QED
    BY <2>1 DEF envId, News, NewEnv
<1>4. \A i \in 1..n : C(i) \in Nat /\ C(i) <= C(n) /\ (i \in News(i) => 1 <= C(i))
  BY <1>1, NewsCount
<1>5. \A i, j \in 1..n : i < j /\ j \in News(j) => C(i) < C(j)
  BY <1>1, NewsCount
<1>6. C(n) \in Nat
  BY <1>1, NewsCount
<1> HIDE DEF C, n
<1>7. ASSUME NEW i \in DOMAIN dialog PROVE envId(i) \in 1..NextEnv
  <2>1. C(i) \in Nat /\ C(i) <= C(n) /\ (i \in News(i) => 1 <= C(i))
    BY <1>1, <1>4
  <2>2. QED
    BY <2>1, <1>2, <1>3, <1>6
<1>8. ASSUME NEW i \in DOMAIN dialog, NEW j \in DOMAIN dialog, envId(i) = envId(j)
      PROVE  i = j
  <2>1. C(i) \in Nat /\ C(j) \in Nat /\ (i \in News(i) => 1 <= C(i))
        /\ (j \in News(j) => 1 <= C(j)) /\ i \in Nat /\ j \in Nat
    BY <1>1, <1>4
  <2>2. CASE dialog[i].id = NewEnv /\ dialog[j].id = NewEnv
    <3>1. C(i) = C(j) /\ i \in News(i) /\ j \in News(j)
      BY <2>1, <2>2, <1>3, <1>8
    <3>2. ~(C(i) < C(j)) /\ ~(C(j) < C(i))
      BY <2>1, <3>1
    <3>3. ~(i < j) /\ ~(j < i)
      BY <3>1, <3>2, <1>1, <1>5
    <3>4. QED
      BY <3>3, <2>1
  <2>3. CASE dialog[i].id # NewEnv /\ dialog[j].id # NewEnv
    <3>1. dialog[i].id = dialog[j].id
      BY <2>3, <1>3, <1>8
    <3>2. QED
      BY <2>3, <3>1 DEF DraftOK
  <2>4. CASE dialog[i].id = NewEnv /\ dialog[j].id # NewEnv
    BY <2>1, <2>4, <1>3, <1>8
  <2>5. CASE dialog[i].id # NewEnv /\ dialog[j].id = NewEnv
    BY <2>1, <2>5, <1>3, <1>8
  <2>6. QED
    BY <2>2, <2>3, <2>4, <2>5
<1>9. NextEnv \in Nat /\ lastEnv <= NextEnv
  BY <1>2, <1>6
<1>10. QED
  BY <1>7, <1>8, <1>9

(* The Keychain item of a secret row.                                      *)
LEMMA SecretPlaceFacts ==
  ASSUME lastEnv \in Nat, DraftOK(dialog, lastEnv), NEW at \in SecretPlaces
  PROVE  /\ at[1] \in DOMAIN dialog /\ at[2] \in DOMAIN Named(at[1])
         /\ Named(at[1])[at[2]].secret
         /\ KeyAt(at) \in (1..NextEnv) \X VarNames
         /\ KeyAt(at)[1] \in Nat \ {0}
<1>1. PICK i \in DOMAIN dialog : at \in {i} \X DOMAIN Named(i)
  BY DEF SecretPlaces
<1>2. at[1] = i /\ at[2] \in DOMAIN Named(i)
  BY <1>1
<1>3. envId(i) \in 1..NextEnv /\ NextEnv \in Nat
  BY <1>1, EnvIdFacts
<1>4. Named(i)[at[2]].name \in VarNames
  BY <1>1, <1>2, NamedFacts
<1>5. Named(at[1])[at[2]].secret
  BY DEF SecretPlaces
<1>6. KeyAt(at) = <<envId(i), Named(i)[at[2]].name>>
  BY <1>2 DEF KeyAt
<1>7. QED
  BY <1>1, <1>2, <1>3, <1>4, <1>5, <1>6

(* Every secret row with a name has a place.                               *)
LEMMA SecretHasPlace ==
  ASSUME lastEnv \in Nat, DraftOK(dialog, lastEnv),
         NEW i \in DOMAIN dialog, NEW j \in DOMAIN Named(i), Named(i)[j].secret
  PROVE  /\ <<i, j>> \in SecretPlaces
         /\ KeyAt(<<i, j>>) = <<envId(i), Named(i)[j].name>>
<1>1. <<i, j>> \in {i} \X DOMAIN Named(i)
  OBVIOUS
<1>2. <<i, j>>[1] = i /\ <<i, j>>[2] = j
  OBVIOUS
<1>3. QED
  BY <1>1, <1>2 DEF SecretPlaces, KeyAt

-----------------------------------------------------------------------------
(* What a save makes of the dialog, row by row.                            *)
LEMMA StoredEnvsOK ==
  ASSUME lastEnv \in Nat, DraftOK(dialog, lastEnv)
  PROVE  /\ EnvsOK(StoredEnvs, NextEnv) /\ DOMAIN StoredEnvs = DOMAIN dialog
         /\ \A i \in DOMAIN dialog :
              /\ StoredEnvs[i].id = envId(i)
              /\ DOMAIN StoredEnvs[i].vars = DOMAIN Named(i)
              /\ \A j \in DOMAIN Named(i) :
                   /\ StoredEnvs[i].vars[j].name = Named(i)[j].name
                   /\ StoredEnvs[i].vars[j].secret = Named(i)[j].secret
                   /\ StoredEnvs[i].vars[j].saved =
                        (Named(i)[j].secret /\ <<envId(i), Named(i)[j].name>>
                                         \in DOMAIN doSaveSecrets \cup DOMAIN keychain)
<1> DEFINE V(i, j) ==
      Var(Named(i)[j].name, IF Named(i)[j].secret THEN NoValue ELSE Named(i)[j].value,
          Named(i)[j].secret,
          Named(i)[j].secret /\ <<envId(i), Named(i)[j].name>>
                                \in DOMAIN doSaveSecrets \cup DOMAIN keychain)
    W(i) == [j \in DOMAIN Named(i) |-> V(i, j)]
    s == StoredEnvs
<1>1. Len(dialog) \in Nat /\ DOMAIN dialog = 1..Len(dialog)
  BY DEF DraftOK
<1>2. s = [i \in DOMAIN dialog |-> [id |-> envId(i), vars |-> W(i)]]
  BY DEF StoredEnvs
<1>3. ASSUME NEW i \in DOMAIN dialog, NEW j \in DOMAIN Named(i)
      PROVE  /\ V(i, j) \in StoredVar
             /\ V(i, j).name = Named(i)[j].name /\ V(i, j).secret = Named(i)[j].secret
             /\ V(i, j).saved =
                  (Named(i)[j].secret /\ <<envId(i), Named(i)[j].name>>
                                   \in DOMAIN doSaveSecrets \cup DOMAIN keychain)
  <2>1. /\ Named(i)[j].name \in VarNames
        /\ Named(i)[j].value \in PlainValues \cup {NoValue}
        /\ Named(i)[j].secret \in BOOLEAN
    BY NamedFacts
  <2> DEFINE n == Named(i)[j].name v == Named(i)[j].value x == Named(i)[j].secret
             y == x /\ <<envId(i), n>> \in DOMAIN doSaveSecrets \cup DOMAIN keychain
             z == IF x THEN NoValue ELSE v
  <2>2. z \in PlainValues \cup {NoValue} /\ y \in BOOLEAN
    BY <2>1
  <2>3. V(i, j) = Var(n, z, x, y)
    OBVIOUS
  <2>4. n \in VarNames /\ x \in BOOLEAN
    BY <2>1
  <2> HIDE DEF z, n, x, y, V
  <2>5. /\ V(i, j) \in StoredVar
        /\ V(i, j).name = n /\ V(i, j).secret = x /\ V(i, j).saved = y
    BY <2>2, <2>3, <2>4 DEF Var, StoredVar
  <2>6. QED
    BY <2>5 DEF n, x, y
<1> HIDE DEF V
<1>4. ASSUME NEW i \in DOMAIN dialog PROVE W(i) \in Seq(StoredVar)
  <2>1. Len(Named(i)) \in Nat /\ DOMAIN Named(i) = 1..Len(Named(i))
    BY NamedFacts
  <2>2. W(i) \in [1..Len(Named(i)) -> StoredVar]
    BY <2>1, <1>3
  <2> HIDE DEF W
  <2>3. QED
    BY <2>1, <2>2, IsSeq
<1>5. \A i \in DOMAIN dialog : DOMAIN W(i) = DOMAIN Named(i)
                               /\ \A j \in DOMAIN Named(i) : W(i)[j] = V(i, j)
  OBVIOUS
<1> HIDE DEF W
<1>6. ASSUME NEW i \in DOMAIN dialog
      PROVE  s[i] \in StoredEnv(NextEnv) /\ s[i].id = envId(i) /\ s[i].vars = W(i)
  <2>1. envId(i) \in 1..NextEnv
    BY EnvIdFacts
  <2>2. s[i] = [id |-> envId(i), vars |-> W(i)]
    BY <1>2
  <2>3. QED
    BY <2>1, <2>2, <1>4 DEF StoredEnv
<1>7. DOMAIN s = DOMAIN dialog /\ s \in [1..Len(dialog) -> StoredEnv(NextEnv)]
  <2>1. DOMAIN s = DOMAIN dialog /\ s = [i \in DOMAIN dialog |-> s[i]]
    BY <1>2
  <2> HIDE DEF s
  <2>2. QED
    BY <2>1, <1>1, <1>6
<1> HIDE DEF s
<1>8. s \in Seq(StoredEnv(NextEnv))
  BY <1>1, <1>7, IsSeq
<1>9. EnvsOK(s, NextEnv)
  <2>1. \A i, j \in DOMAIN dialog : envId(i) = envId(j) => i = j
    BY EnvIdFacts
  <2>2. QED
    BY <2>1, <1>6, <1>7, <1>8 DEF EnvsOK
<1>10. \A i \in DOMAIN dialog :
              /\ s[i].id = envId(i)
              /\ DOMAIN s[i].vars = DOMAIN Named(i)
              /\ \A j \in DOMAIN Named(i) :
                   /\ s[i].vars[j].name = Named(i)[j].name
                   /\ s[i].vars[j].secret = Named(i)[j].secret
                   /\ s[i].vars[j].saved =
                        (Named(i)[j].secret /\ <<envId(i), Named(i)[j].name>>
                                         \in DOMAIN doSaveSecrets \cup DOMAIN keychain)
  BY <1>3, <1>5, <1>6
<1>11. QED
  BY <1>7, <1>9, <1>10 DEF s

(* The keys of the secrets a list shows as saved.                          *)
LEMMA SavedKeyFacts ==
  ASSUME NEW es, NEW key
  PROVE  key \in SavedKeys(es) <=>
           \E i \in DOMAIN es : \E j \in DOMAIN es[i].vars :
             /\ es[i].vars[j].secret /\ es[i].vars[j].saved
             /\ key = <<es[i].id, es[i].vars[j].name>>
<1>1. ASSUME NEW i \in DOMAIN es, NEW j \in DOMAIN es[i].vars,
             es[i].vars[j].secret, es[i].vars[j].saved,
             key = <<es[i].id, es[i].vars[j].name>>
      PROVE  key \in SavedKeys(es)
  <2>1. es[i].vars[j] \in {w \in ToSet(es[i].vars) : w.secret /\ w.saved}
    BY <1>1 DEF ToSet
  <2>2. QED
    BY <2>1, <1>1 DEF SavedKeys
<1>2. ASSUME key \in SavedKeys(es)
      PROVE  \E i \in DOMAIN es : \E j \in DOMAIN es[i].vars :
             /\ es[i].vars[j].secret /\ es[i].vars[j].saved
             /\ key = <<es[i].id, es[i].vars[j].name>>
  <2>1. PICK i \in DOMAIN es :
          key \in {<<es[i].id, v.name>> : v \in {w \in ToSet(es[i].vars) : w.secret /\ w.saved}}
    BY <1>2 DEF SavedKeys
  <2>2. PICK v \in ToSet(es[i].vars) : v.secret /\ v.saved /\ key = <<es[i].id, v.name>>
    BY <2>1
  <2>3. PICK j \in DOMAIN es[i].vars : v = es[i].vars[j]
    BY <2>2 DEF ToSet
  <2>4. QED
    BY <2>2, <2>3
<1>3. QED
  BY <1>1, <1>2

(* After a save exactly those secrets are shown as saved that the dialog   *)
(* still has and that were handed over or are in the Keychain.             *)
LEMMA SavedAfterSave ==
  ASSUME lastEnv \in Nat, DraftOK(dialog, lastEnv)
  PROVE  SavedKeys(StoredEnvs)
           = {k \in NewSecrets : k \in DOMAIN doSaveSecrets \cup DOMAIN keychain}
<1> DEFINE s == StoredEnvs D == DOMAIN doSaveSecrets \cup DOMAIN keychain
<1>1. DOMAIN s = DOMAIN dialog /\
      \A i \in DOMAIN dialog :
        /\ s[i].id = envId(i)
        /\ DOMAIN s[i].vars = DOMAIN Named(i)
        /\ \A j \in DOMAIN Named(i) :
             /\ s[i].vars[j].name = Named(i)[j].name
             /\ s[i].vars[j].secret = Named(i)[j].secret
             /\ s[i].vars[j].saved =
                  (Named(i)[j].secret /\ <<envId(i), Named(i)[j].name>> \in D)
  BY StoredEnvsOK
<1> HIDE DEF s, D
<1>2. ASSUME NEW key \in SavedKeys(s) PROVE key \in NewSecrets /\ key \in D
  <2>1. PICK i \in DOMAIN s : \E j \in DOMAIN s[i].vars :
             /\ s[i].vars[j].secret /\ s[i].vars[j].saved
             /\ key = <<s[i].id, s[i].vars[j].name>>
    BY SavedKeyFacts
  <2>2. PICK j \in DOMAIN Named(i) :
             /\ Named(i)[j].secret /\ <<envId(i), Named(i)[j].name>> \in D
             /\ key = <<envId(i), Named(i)[j].name>>
    BY <2>1, <1>1
  <2>3. <<i, j>> \in SecretPlaces /\ KeyAt(<<i, j>>) = key
    BY <2>1, <2>2, <1>1, SecretHasPlace
  <2>4. QED
    BY <2>2, <2>3 DEF NewSecrets
<1>3. ASSUME NEW key \in NewSecrets, key \in D PROVE key \in SavedKeys(s)
  <2>1. PICK at \in SecretPlaces : key = KeyAt(at)
    BY DEF NewSecrets
  <2> DEFINE i == at[1] j == at[2]
  <2>2. i \in DOMAIN dialog /\ j \in DOMAIN Named(i) /\ Named(i)[j].secret
    BY SecretPlaceFacts
  <2>3. key = <<envId(i), Named(i)[j].name>>
    BY <2>1 DEF KeyAt
  <2> HIDE DEF i, j
  <2>4. /\ i \in DOMAIN s /\ j \in DOMAIN s[i].vars
        /\ s[i].vars[j].secret /\ s[i].vars[j].saved
        /\ key = <<s[i].id, s[i].vars[j].name>>
    BY <2>2, <2>3, <1>1, <1>3
  <2>5. QED
    BY <2>4, SavedKeyFacts
<1>4. QED
  BY <1>2, <1>3 DEF s, D

(* The Keychain while it is written.                                       *)
LEMMA WrittenFacts ==
  ASSUME lastEnv \in Nat, DraftOK(dialog, lastEnv), NEW places \in SUBSET Handed,
         DOMAIN keychain \subseteq (1..lastEnv) \X VarNames,
         \A key \in DOMAIN keychain : keychain[key] \in SecretValues
  PROVE  /\ DOMAIN Written(places) = DOMAIN keychain \cup {KeyAt(at) : at \in places}
         /\ DOMAIN Written(places) \subseteq (1..lastEnv) \X VarNames
         /\ \A key \in DOMAIN Written(places) : Written(places)[key] \in SecretValues
<1> DEFINE keys == {KeyAt(at) : at \in places}
<1>1. Written(places) = [key \in DOMAIN keychain \cup keys |->
                           IF key \in keys THEN doSaveSecrets[key] ELSE keychain[key]]
  BY DEF Written
<1>2. ASSUME NEW key \in keys
      PROVE  key \in (1..lastEnv) \X VarNames /\ doSaveSecrets[key] \in SecretValues
  <2>1. PICK at \in places : key = KeyAt(at)
    OBVIOUS
  <2>2. at \in SecretPlaces /\ key \in DOMAIN doSaveSecrets
    BY <2>1 DEF Handed
  <2>3. key \in (1..NextEnv) \X VarNames /\ key[1] \in Nat \ {0}
    BY <2>1, <2>2, SecretPlaceFacts
  <2>4. doSaveSecrets[key] \in SecretValues /\ key[1] <= lastEnv
    BY <2>2, SecretsHanded
  <2>5. QED
    BY <2>3, <2>4
<1> HIDE DEF keys
<1>3. DOMAIN Written(places) = DOMAIN keychain \cup keys
  BY <1>1
<1>4. \A key \in DOMAIN keychain \cup keys : Written(places)[key] \in SecretValues
  BY <1>1, <1>2
<1>5. DOMAIN keychain \cup keys \subseteq (1..lastEnv) \X VarNames
  BY <1>2
<1>6. QED
  BY <1>3, <1>4, <1>5 DEF keys

-----------------------------------------------------------------------------
(* The seeded environments.                                                *)
LEMMA EnvironmentsInitIInv ==
  ASSUME EnvironmentsInit
  PROVE  EnvironmentsIInv
<1> DEFINE n == CHOOSE n \in VarNames : TRUE
<1>1. PICK v \in PlainValues :
        envs = <<[id |-> 1, vars |-> <<Var(n, v, FALSE, FALSE)>>], [id |-> 2, vars |-> <<>>]>>
  BY DEF EnvironmentsInit
<1> DEFINE e1 == [id |-> 1, vars |-> <<Var(n, v, FALSE, FALSE)>>] e2 == [id |-> 2, vars |-> <<>>]
<1>2. lastEnv = 2 /\ activeEnv = 1 /\ keychain = <<>> /\ dialog = Closed /\ refused = FALSE
      /\ envStored = [envs |-> envs, active |-> 1]
  BY DEF EnvironmentsInit
<1>3. n \in VarNames
  BY EnvironmentsAssumption
<1> HIDE DEF n
<1>4. e1 \in StoredEnv(2) /\ e2 \in StoredEnv(2) /\ e1.id = 1 /\ e2.id = 2
  <2>1. Var(n, v, FALSE, FALSE) \in StoredVar
    BY <1>3 DEF Var, StoredVar
  <2> DEFINE x == Var(n, v, FALSE, FALSE)
  <2>2. <<>> \in Seq(StoredVar)
    OBVIOUS
  <2>3. <<x>> \in Seq(StoredVar)
    <3>1. x \in StoredVar
      BY <2>1
    <3> HIDE DEF x
    <3>2. QED
      BY <3>1
  <2> DEFINE w == <<x>>
  <2>4. e1 = [id |-> 1, vars |-> w]
    OBVIOUS
  <2>5. w \in Seq(StoredVar) /\ 1 \in 1..2 /\ 2 \in 1..2
    <3> HIDE DEF x
    <3>1. QED
      BY <2>3
  <2> HIDE DEF w
  <2>6. [id |-> 1, vars |-> w] \in StoredEnv(2) /\ [id |-> 1, vars |-> w].id = 1
    BY <2>5 DEF StoredEnv
  <2>7. e2 \in StoredEnv(2) /\ e2.id = 2
    BY <2>2, <2>5 DEF StoredEnv
  <2> HIDE DEF e1, e2
  <2>8. QED
    BY <2>4, <2>6, <2>7
<1>5. ~\E i \in DOMAIN e1.vars : e1.vars[i].secret
  BY DEF Var
<1>6. ~\E i \in DOMAIN e2.vars : e2.vars[i].secret
  OBVIOUS
<1> HIDE DEF e1, e2
<1>7. envs = <<e1, e2>>
  BY <1>1 DEF e1, e2
<1>8. envs \in Seq(StoredEnv(2)) /\ DOMAIN envs = 1..2 /\ envs[1] = e1 /\ envs[2] = e2
  BY <1>4, <1>7
<1>9. EnvsOK(envs, lastEnv)
  BY <1>2, <1>4, <1>8 DEF EnvsOK
<1>10. SavedKeys(envs) = {}
  <2> SUFFICES ASSUME NEW key \in SavedKeys(envs) PROVE FALSE
    OBVIOUS
  <2>1. PICK i \in DOMAIN envs : \E j \in DOMAIN envs[i].vars : envs[i].vars[j].secret
    BY SavedKeyFacts
  <2>2. QED
    BY <2>1, <1>5, <1>6, <1>8
<1>11. DOMAIN keychain = {}
  BY <1>2
<1>12. KeysOK(keychain, envs, lastEnv, refused)
  BY <1>10, <1>11 DEF KeysOK
<1>13. activeEnv \in EnvIds(envs)
  BY <1>2, <1>4, <1>8 DEF EnvIds
<1>14. lastEnv \in Nat /\ refused \in BOOLEAN /\ (dialog # Closed => DraftOK(dialog, lastEnv))
      /\ envStored = [envs |-> envs, active |-> activeEnv]
  BY <1>2
<1>15. QED
  BY <1>9, <1>12, <1>13, <1>14 DEF EnvironmentsIInv

-----------------------------------------------------------------------------
(* The steps of the dialog leave the service alone.                        *)
LEMMA DialogStep ==
  ASSUME EnvironmentsIInv, UNCHANGED Service, dialog' # Closed => DraftOK(dialog', lastEnv)
  PROVE  EnvironmentsIInv'
<1>1. /\ envs' = envs /\ activeEnv' = activeEnv /\ envStored' = envStored
      /\ keychain' = keychain /\ lastEnv' = lastEnv /\ refused' = refused
  BY DEF Service
<1>2. EnvIds(envs)' = EnvIds(envs)
  BY <1>1 DEF EnvIds
<1>3. EnvsOK(envs, lastEnv)'
  BY <1>1 DEF EnvironmentsIInv, EnvsOK
<1>4. KeysOK(keychain, envs, lastEnv, refused)'
  BY <1>1 DEF EnvironmentsIInv, KeysOK
<1>5. (dialog # Closed => DraftOK(dialog, lastEnv))'
  BY <1>1 DEF DraftOK
<1>6. QED
  BY <1>1, <1>2, <1>3, <1>4, <1>5 DEF EnvironmentsIInv

(* Opening the dialog keeps the invariant.                                 *)
LEMMA OpenKeeps ==
  ASSUME EnvironmentsIInv, openDialog
  PROVE  EnvironmentsIInv'
<1>1. DraftOK(dialog', lastEnv)
  BY OpenedIsDraft DEF openDialog, EnvironmentsIInv
<1>2. UNCHANGED Service
  BY DEF openDialog
<1>3. QED
  BY <1>1, <1>2, DialogStep

(* So does closing it without a save.                                      *)
LEMMA RejectKeeps ==
  ASSUME EnvironmentsIInv, Reject
  PROVE  EnvironmentsIInv'
<1>1. UNCHANGED Service /\ dialog' = Closed
  BY DEF Reject
<1>2. QED
  BY <1>1, DialogStep

(* An edit that leaves a draft keeps it.                                   *)
LEMMA EditKeeps ==
  ASSUME EnvironmentsIInv, NEW d, Edited(d), DraftOK(d, lastEnv)
  PROVE  EnvironmentsIInv'
<1>1. UNCHANGED Service /\ dialog' = d
  BY DEF Edited
<1>2. QED
  BY <1>1, DialogStep

(* An edit that changes the rows of one environment.                       *)
LEMMA RowsKeep ==
  ASSUME EnvironmentsIInv, dialog # Closed, NEW i \in DOMAIN dialog,
         NEW rows \in Seq(DraftRow), Edited([dialog EXCEPT ![i].vars = rows])
  PROVE  EnvironmentsIInv'
<1> DEFINE d == [dialog EXCEPT ![i].vars = rows]
<1>1. DraftOK(d, lastEnv)
  BY EditedIsDraft DEF EnvironmentsIInv
<1> HIDE DEF d
<1>2. Edited(d)
  BY DEF d
<1>3. QED
  BY <1>1, <1>2, EditKeeps

(* One row of a list is replaced.                                          *)
LEMMA RowReplaced ==
  ASSUME NEW rows \in Seq(DraftRow), NEW j \in DOMAIN rows, NEW r \in DraftRow
  PROVE  [rows EXCEPT ![j] = r] \in Seq(DraftRow)
<1>1. Len(rows) \in Nat /\ DOMAIN rows = 1..Len(rows) /\ rows \in [1..Len(rows) -> DraftRow]
  OBVIOUS
<1>2. [rows EXCEPT ![j] = r] \in [1..Len(rows) -> DraftRow]
  BY <1>1
<1>3. QED
  BY <1>1, <1>2, IsSeq

(* An edit of one row keeps it.                                            *)
LEMMA RowKeeps ==
  ASSUME EnvironmentsIInv, dialog # Closed, NEW i \in DOMAIN dialog,
         NEW j \in DOMAIN dialog[i].vars, NEW r \in DraftRow,
         Edited([dialog EXCEPT ![i].vars[j] = r])
  PROVE  EnvironmentsIInv'
<1>1. dialog[i].vars \in Seq(DraftRow)
  BY DraftElement DEF EnvironmentsIInv
<1>2. [dialog[i].vars EXCEPT ![j] = r] \in Seq(DraftRow)
  BY <1>1, RowReplaced
<1> DEFINE rows == [dialog[i].vars EXCEPT ![j] = r]
<1>3. Edited([dialog EXCEPT ![i].vars = rows])
  OBVIOUS
<1> HIDE DEF rows
<1>4. rows \in Seq(DraftRow)
  BY <1>2 DEF rows
<1>5. QED
  BY <1>3, <1>4, RowsKeep

(* Every edit of the dialog keeps it.                                      *)
LEMMA EditDialogKeeps ==
  ASSUME EnvironmentsIInv, EditDialog
  PROVE  EnvironmentsIInv'
<1>0. dialog # Closed /\ lastEnv \in Nat /\ DraftOK(dialog, lastEnv)
  BY DEF EditDialog, EnvironmentsIInv
<1>1. ASSUME NEW rows \in Seq(DraftRow), AddedEnv(rows) PROVE EnvironmentsIInv'
  <2>1. DraftOK(Append(dialog, [id |-> NewEnv, vars |-> rows]), lastEnv)
    BY <1>0, AddedIsDraft
  <2>2. QED
    BY <2>1, <1>1, EditKeeps DEF AddedEnv
<1>2. CASE addEnv
  <2>1. <<>> \in Seq(DraftRow)
    OBVIOUS
  <2>2. QED
    BY <2>1, <1>1, <1>2 DEF addEnv
<1>3. ASSUME NEW i \in DOMAIN dialog, duplicateEnv(i) PROVE EnvironmentsIInv'
  <2> DEFINE vs == dialog[i].vars
             ws == [j \in DOMAIN vs |-> [vs[j] EXCEPT !.typed = NoValue]]
  <2>1. vs \in Seq(DraftRow)
    BY <1>0, DraftElement
  <2>2. AddedEnv(ws)
    BY <1>3 DEF duplicateEnv
  <2> HIDE DEF vs
  <2>3. Len(vs) \in Nat /\ DOMAIN vs = 1..Len(vs)
    BY <2>1
  <2>4. ASSUME NEW j \in DOMAIN vs PROVE [vs[j] EXCEPT !.typed = NoValue] \in DraftRow
    <3>1. vs[j] \in DraftRow
      BY <2>1, RowElement
    <3>2. QED
      BY <3>1 DEF DraftRow
  <2>5. ws \in [1..Len(vs) -> DraftRow]
    BY <2>3, <2>4
  <2> HIDE DEF ws
  <2>6. ws \in Seq(DraftRow)
    BY <2>3, <2>5, IsSeq
  <2>7. QED
    BY <2>2, <2>6, <1>1
<1>4. ASSUME NEW i \in DOMAIN dialog, doDeleteEnv(i) PROVE EnvironmentsIInv'
  <2>1. DraftOK(RemoveAt(dialog, i), lastEnv)
    BY <1>0, RemovedIsDraft
  <2>2. QED
    BY <2>1, <1>4, EditKeeps DEF doDeleteEnv
<1>5. ASSUME NEW i \in DOMAIN dialog
      PROVE  /\ dialog[i].vars \in Seq(DraftRow)
             /\ dialog[i] = [id |-> dialog[i].id, vars |-> dialog[i].vars]
  BY <1>0, DraftElement
<1>6. ASSUME NEW i \in DOMAIN dialog, addVar(i) PROVE EnvironmentsIInv'
  <2> DEFINE vs == Append(dialog[i].vars, Row(NoName, NoValue, FALSE))
  <2>1. Row(NoName, NoValue, FALSE) \in DraftRow
    BY DEF Row, DraftRow
  <2>2. vs \in Seq(DraftRow)
    <3> DEFINE old == dialog[i].vars row == Row(NoName, NoValue, FALSE)
    <3>1. old \in Seq(DraftRow) /\ row \in DraftRow
      BY <2>1, <1>5
    <3> HIDE DEF old, row
    <3>2. Append(old, row) \in Seq(DraftRow)
      BY <3>1
    <3>3. QED
      BY <3>2 DEF old, row
  <2>3. Edited([dialog EXCEPT ![i].vars = vs])
    BY <1>6 DEF addVar
  <2> HIDE DEF vs
  <2>4. QED
    BY <2>2, <2>3, <1>0, RowsKeep
<1>7. ASSUME NEW i \in DOMAIN dialog, NEW j \in DOMAIN dialog[i].vars, deleteVar(i, j)
      PROVE  EnvironmentsIInv'
  <2> DEFINE vs == RemoveAt(dialog[i].vars, j)
  <2>1. vs \in Seq(DraftRow)
    BY <1>5, RemovedFacts
  <2>2. Edited([dialog EXCEPT ![i].vars = vs])
    BY <1>7 DEF deleteVar
  <2> HIDE DEF vs
  <2>3. QED
    BY <2>1, <2>2, <1>0, RowsKeep
<1>8. ASSUME NEW i \in DOMAIN dialog, NEW j \in DOMAIN dialog[i].vars, NEW r \in DraftRow,
             Edited([dialog EXCEPT ![i].vars[j] = r])
      PROVE  EnvironmentsIInv'
  BY <1>0, <1>8, RowKeeps
<1>9. ASSUME NEW i \in DOMAIN dialog, NEW j \in DOMAIN dialog[i].vars
      PROVE  /\ dialog[i].vars[j] \in DraftRow
             /\ dialog[i].vars[j].secret \in BOOLEAN
  BY <1>5, RowElement
<1>10. ASSUME NEW i \in DOMAIN dialog, NEW j \in DOMAIN dialog[i].vars, NEW n \in VarNames,
              setVarName(i, j, n)
       PROVE  EnvironmentsIInv'
  <2> DEFINE r == [dialog[i].vars[j] EXCEPT !.name = n]
  <2>1. r \in DraftRow
    BY <1>9 DEF DraftRow
  <2>2. [dialog EXCEPT ![i].vars[j].name = n] = [dialog EXCEPT ![i].vars[j] = r]
    BY Zenon
  <2> HIDE DEF r
  <2>3. QED
    BY <2>1, <2>2, <1>8, <1>10 DEF setVarName
<1>11. ASSUME NEW i \in DOMAIN dialog, NEW j \in DOMAIN dialog[i].vars, setVarSecret(i, j)
       PROVE  EnvironmentsIInv'
  <2> DEFINE old == dialog[i].vars[j]
             r == [dialog[i].vars[j] EXCEPT !.secret = ~@, !.typed = NoValue]
  <2>1. r \in DraftRow
    <3>1. old \in DraftRow /\ r = [old EXCEPT !.secret = ~@, !.typed = NoValue]
      BY <1>9
    <3> HIDE DEF old, r
    <3>2. QED
      BY <3>1 DEF DraftRow
  <2>2. [dialog EXCEPT ![i].vars[j].secret = ~@, ![i].vars[j].typed = NoValue]
          = [dialog EXCEPT ![i].vars[j] = r]
    BY <1>5, <1>9, ZenonT(60)
  <2> HIDE DEF r
  <2>3. QED
    BY <2>1, <2>2, <1>8, <1>11 DEF setVarSecret
<1>12. ASSUME NEW i \in DOMAIN dialog, NEW j \in DOMAIN dialog[i].vars, setVarValue(i, j)
       PROVE  EnvironmentsIInv'
  <2>1. CASE dialog[i].vars[j].secret
    <3>1. PICK v \in SecretValues : Edited([dialog EXCEPT ![i].vars[j].typed = v])
      BY <2>1, <1>12 DEF setVarValue
    <3> DEFINE r == [dialog[i].vars[j] EXCEPT !.typed = v]
    <3>2. r \in DraftRow
      BY <1>9 DEF DraftRow
    <3>3. [dialog EXCEPT ![i].vars[j].typed = v] = [dialog EXCEPT ![i].vars[j] = r]
      OBVIOUS
    <3> HIDE DEF r
    <3>4. QED
      BY <3>1, <3>2, <3>3, <1>8
  <2>2. CASE ~dialog[i].vars[j].secret
    <3>1. PICK v \in PlainValues : Edited([dialog EXCEPT ![i].vars[j].value = v])
      BY <2>2, <1>12 DEF setVarValue
    <3> DEFINE r == [dialog[i].vars[j] EXCEPT !.value = v]
    <3>2. r \in DraftRow
      BY <1>9 DEF DraftRow
    <3>3. [dialog EXCEPT ![i].vars[j].value = v] = [dialog EXCEPT ![i].vars[j] = r]
      OBVIOUS
    <3> HIDE DEF r
    <3>4. QED
      BY <3>1, <3>2, <3>3, <1>8
  <2>3. QED
    BY <2>1, <2>2
<1>13. QED
  BY <1>2, <1>3, <1>4, <1>6, <1>7, <1>10, <1>11, <1>12 DEF EditDialog

-----------------------------------------------------------------------------
(* A save keeps it: what it writes to the Keychain and what it removes     *)
(* from it is what the saved list shows.                                   *)
LEMMA SavingKeeps ==
  ASSUME EnvironmentsIInv, saveEnvironments
  PROVE  EnvironmentsIInv'
<1>1. dialog # Closed /\ lastEnv \in Nat /\ DraftOK(dialog, lastEnv) /\ refused \in BOOLEAN
      /\ KeysOK(keychain, envs, lastEnv, refused)
  BY DEF saveEnvironments, EnvironmentsIInv
<1> DEFINE s == StoredEnvs a == FirstUnless(StoredEnvs, activeEnv) W == Written(Handed)
           H == {KeyAt(at) : at \in Handed} n == NextEnv
<1>2. /\ envs' = s /\ activeEnv' = a /\ envStored' = [envs |-> s, active |-> a]
      /\ keychain' = [key \in DOMAIN W \ Dropped |-> W[key]]
      /\ lastEnv' = n /\ dialog' = Closed /\ refused' = refused
  BY DEF saveEnvironments, persistEnvs, Restrict, NextEnv
<1>3. EnvsOK(s, n) /\ SavedKeys(s)
        = {k \in NewSecrets : k \in DOMAIN doSaveSecrets \cup DOMAIN keychain}
  BY <1>1, StoredEnvsOK, SavedAfterSave
<1>4. n \in Nat /\ lastEnv <= n
  BY <1>1, EnvIdFacts
<1>5. /\ DOMAIN W = DOMAIN keychain \cup H
      /\ DOMAIN W \subseteq (1..lastEnv) \X VarNames
      /\ \A key \in DOMAIN W : W[key] \in SecretValues
  <2>1. Handed \in SUBSET Handed
    OBVIOUS
  <2>2. QED
    BY <2>1, <1>1, WrittenFacts DEF KeysOK
<1>6. H = {k \in NewSecrets : k \in DOMAIN doSaveSecrets}
  BY DEF Handed, NewSecrets
<1>7. a \in EnvIds(s) \/ s = <<>>
  <2>1. CASE s # <<>>
    <3>1. 1 \in DOMAIN s
      BY <2>1, <1>3 DEF EnvsOK
    <3> HIDE DEF s
    <3>2. s[1].id \in EnvIds(s)
      BY <3>1 DEF EnvIds
    <3>3. a = FirstUnless(s, activeEnv)
      BY DEF s
    <3> HIDE DEF a
    <3>4. QED
      BY <2>1, <3>2, <3>3 DEF FirstUnless
  <2>2. QED
    BY <2>1
<1> HIDE DEF s, a, W, H, n
<1>8. DOMAIN keychain' = DOMAIN W \ Dropped
  BY <1>2
<1>9. Dropped \cap SavedKeys(s) = {}
  BY <1>3 DEF Dropped
<1>10. SavedKeys(s) \subseteq DOMAIN keychain'
  BY <1>3, <1>5, <1>6, <1>8, <1>9
<1>11. ~refused => DOMAIN keychain' \subseteq SavedKeys(s)
  <2> SUFFICES ASSUME ~refused, NEW key \in DOMAIN keychain' PROVE key \in SavedKeys(s)
    OBVIOUS
  <2>1. CASE key \in H
    BY <2>1, <1>3, <1>6
  <2>2. CASE key \in DOMAIN keychain
    <3>1. key \in SavedKeys(envs) /\ key \notin Dropped
      BY <2>2, <1>1, <1>8 DEF KeysOK
    <3>2. key \in NewSecrets
      BY <3>1 DEF Dropped
    <3>3. QED
      BY <3>2, <2>2, <1>3
  <2>3. QED
    BY <2>1, <2>2, <1>5, <1>8
<1>12. DOMAIN keychain' \subseteq (1..n) \X VarNames
       /\ \A key \in DOMAIN keychain' : keychain'[key] \in SecretValues
  <2>1. 1..lastEnv \subseteq 1..n
    BY <1>1, <1>4
  <2>2. QED
    BY <2>1, <1>2, <1>5, <1>8
<1>13. KeysOK(keychain, envs, lastEnv, refused)'
  BY <1>2, <1>10, <1>11, <1>12 DEF KeysOK
<1>14. EnvsOK(envs, lastEnv)'
  BY <1>2, <1>3
<1>15. (envs # <<>> => activeEnv \in EnvIds(envs))'
  BY <1>2, <1>7
<1>16. (lastEnv \in Nat)' /\ (refused \in BOOLEAN)' /\ (dialog # Closed => DraftOK(dialog, lastEnv))'
       /\ (envStored = [envs |-> envs, active |-> activeEnv])'
  BY <1>1, <1>2, <1>4
<1>17. QED
  BY <1>13, <1>14, <1>15, <1>16 DEF EnvironmentsIInv

(* A refusal keeps it, after any part of the writing: nothing that is      *)
(* shown is lost.                                                          *)
LEMMA RefusedKeeps ==
  ASSUME EnvironmentsIInv, saveRefused
  PROVE  EnvironmentsIInv'
<1>1. dialog # Closed /\ lastEnv \in Nat /\ DraftOK(dialog, lastEnv)
      /\ KeysOK(keychain, envs, lastEnv, refused)
  BY DEF saveRefused, EnvironmentsIInv
<1>2. PICK at \in Handed : keychain' = Written(HandedBefore(at))
  BY DEF saveRefused
<1> DEFINE W == Written(HandedBefore(at))
<1>3. /\ envs' = envs /\ activeEnv' = activeEnv /\ envStored' = envStored
      /\ lastEnv' = lastEnv /\ dialog' = dialog /\ refused' = TRUE /\ keychain' = W
  BY <1>2 DEF saveRefused
<1>4. /\ DOMAIN keychain \subseteq DOMAIN W
      /\ DOMAIN W \subseteq (1..lastEnv) \X VarNames
      /\ \A key \in DOMAIN W : W[key] \in SecretValues
  <2>1. HandedBefore(at) \in SUBSET Handed
    BY DEF HandedBefore
  <2>2. QED
    BY <2>1, <1>1, WrittenFacts DEF KeysOK
<1> HIDE DEF W
<1>5. KeysOK(keychain, envs, lastEnv, refused)'
  BY <1>1, <1>3, <1>4 DEF KeysOK
<1>6. EnvIds(envs)' = EnvIds(envs) /\ EnvsOK(envs, lastEnv)'
      /\ (dialog # Closed => DraftOK(dialog, lastEnv))'
  BY <1>3 DEF EnvironmentsIInv, EnvsOK, DraftOK, EnvIds
<1>7. QED
  BY <1>3, <1>5, <1>6 DEF EnvironmentsIInv

(* Choosing the active environment keeps it.                               *)
LEMMA ActivateKeeps ==
  ASSUME EnvironmentsIInv, NEW id, setActiveEnv(id)
  PROVE  EnvironmentsIInv'
<1>1. /\ envs' = envs /\ activeEnv' = id /\ envStored' = [envs |-> envs, active |-> id]
      /\ keychain' = keychain /\ dialog' = dialog /\ lastEnv' = lastEnv /\ refused' = refused
      /\ id \in EnvIds(envs)
  BY DEF setActiveEnv, persistEnvs
<1>2. EnvIds(envs)' = EnvIds(envs)
  BY <1>1 DEF EnvIds
<1>3. KeysOK(keychain, envs, lastEnv, refused)' /\ EnvsOK(envs, lastEnv)'
      /\ (dialog # Closed => DraftOK(dialog, lastEnv))'
  BY <1>1 DEF EnvironmentsIInv, EnvsOK, DraftOK, KeysOK
<1>4. QED
  BY <1>1, <1>2, <1>3 DEF EnvironmentsIInv

(* A restart reads what was stored.                                        *)
LEMMA ReloadKeeps ==
  ASSUME EnvironmentsIInv, Reload
  PROVE  EnvironmentsIInv'
<1>1. envStored.envs = envs /\ envStored.active = activeEnv
  BY DEF EnvironmentsIInv
<1>2. FirstUnless(envs, activeEnv) = activeEnv
  BY DEF FirstUnless, EnvironmentsIInv
<1>3. /\ envs' = envs /\ activeEnv' = activeEnv /\ envStored' = envStored
      /\ keychain' = keychain /\ dialog' = Closed /\ lastEnv' = lastEnv /\ refused' = refused
  BY <1>1, <1>2 DEF Reload
<1>4. QED
  BY <1>3, DialogStep DEF Service

-----------------------------------------------------------------------------
(* For any names, values and bounds, and any number of refusals and        *)
(* restarts: the invariant of environments, settings, Keychain and dialog  *)
(* (apiservice.cpp, saveEnvironments; EnvironmentsDialog.qml).             *)
THEOREM EnvironmentsInvariant == EnvironmentsSpec => []EnvironmentsIInv
<1>1. EnvironmentsInit => EnvironmentsIInv
  BY EnvironmentsInitIInv
<1>2. EnvironmentsIInv /\ [EnvironmentsNext]_environmentVars => EnvironmentsIInv'
  <2> SUFFICES ASSUME EnvironmentsIInv, [EnvironmentsNext]_environmentVars
               PROVE  EnvironmentsIInv'
    OBVIOUS
  <2>1. CASE openDialog
    BY <2>1, OpenKeeps
  <2>2. CASE Reject
    BY <2>2, RejectKeeps
  <2>3. CASE EditDialog
    BY <2>3, EditDialogKeeps
  <2>4. CASE saveEnvironments
    BY <2>4, SavingKeeps
  <2>5. CASE saveRefused
    BY <2>5, RefusedKeeps
  <2>6. CASE \E id \in 1..lastEnv : setActiveEnv(id)
    BY <2>6, ActivateKeeps
  <2>7. CASE Reload
    BY <2>7, ReloadKeeps
  <2>8. CASE UNCHANGED environmentVars
    <3>1. UNCHANGED Service /\ dialog' = dialog
      BY <2>8 DEF environmentVars, Service
    <3>2. QED
      BY <3>1, DialogStep DEF EnvironmentsIInv
  <2>9. QED
    BY <2>1, <2>2, <2>3, <2>4, <2>5, <2>6, <2>7, <2>8 DEF EnvironmentsNext
<1>3. QED
  BY <1>1, <1>2, PTL DEF EnvironmentsSpec

(* A secret that is shown as saved is the value of its placeholder.        *)
LEMMA SavedResolves ==
  ASSUME EnvironmentsIInv, NEW i \in DOMAIN envs, NEW v \in ToSet(envs[i].vars),
         v.secret, v.saved
  PROVE  Resolved(envs[i], v.name) # "placeholder"
<1> DEFINE vs == envs[i].vars id == envs[i].id name == v.name
           Able == {j \in DOMAIN vs : /\ vs[j].name = name
                                      /\ ~vs[j].secret \/ ValueOf(id, vs[j]) # NoValue}
<1>1. EnvsOK(envs, lastEnv) /\ KeysOK(keychain, envs, lastEnv, refused) /\ lastEnv \in Nat
  BY DEF EnvironmentsIInv
<1>2. envs \in Seq(StoredEnv(lastEnv))
  BY <1>1 DEF EnvsOK
<1>3. vs \in Seq(StoredVar)
  <2>1. envs[i] \in StoredEnv(lastEnv)
    BY <1>2, SeqElement
  <2>2. QED
    BY <2>1 DEF StoredEnv
<1>4. Resolved(envs[i], name) =
        IF Able = {} THEN "placeholder"
        ELSE ValueOf(id, vs[CHOOSE j \in Able : \A k \in Able : j <= k])
  BY DEF Resolved
<1>5. PICK m \in DOMAIN vs : v = vs[m]
  BY DEF ToSet
<1>6. <<id, name>> \in DOMAIN keychain /\ keychain[<<id, name>>] \in SecretValues
  <2>1. <<id, name>> \in SavedKeys(envs)
    BY <1>5, SavedKeyFacts
  <2>2. QED
    BY <2>1, <1>1 DEF KeysOK
<1> HIDE DEF vs, id
<1>7. ValueOf(id, v) \in SecretValues
  BY <1>6 DEF ValueOf
<1>8. m \in Able
  BY <1>5, <1>7, EnvironmentsAssumption
<1>9. Able \in SUBSET Nat
  BY <1>3
<1> DEFINE f == CHOOSE j \in Able : \A k \in Able : j <= k
<1>10. f \in Able
  <2> HIDE DEF Able
  <2>1. \E j \in Able : \A k \in Able : j <= k
    BY <1>8, <1>9, LeastNat
  <2>2. QED
    BY <2>1
<1>11. ValueOf(id, vs[f]) \in PlainValues \cup {NoValue} \cup SecretValues
  <2>1. f \in DOMAIN vs
    BY <1>10
  <2> HIDE DEF f, Able
  <2>2. vs[f] \in StoredVar
    BY <1>3, <2>1, SeqElement
  <2>3. vs[f].value \in PlainValues \cup {NoValue}
    BY <2>2 DEF StoredVar
  <2>4. QED
    BY <2>3, <1>1 DEF ValueOf, KeysOK
<1>12. Resolved(envs[i], name) = ValueOf(id, vs[f])
  <2>1. Able # {}
    BY <1>8
  <2> HIDE DEF Able
  <2>2. QED
    BY <2>1, <1>4
<1> HIDE DEF f
<1>13. QED
  BY <1>11, <1>12, EnvironmentsAssumption

(* No secret value reaches the settings; every secret shown as saved       *)
(* resolves; as long as the Keychain has refused nothing it holds nothing  *)
(* else; settings and memory agree and an environment is active            *)
(* (saveEnvironments, load, resolveRequest).                               *)
THEOREM EnvironmentsAreKept == EnvironmentsSpec => []EnvironmentsKept
<1>1. EnvironmentsIInv => EnvironmentsKept
  <2> SUFFICES ASSUME EnvironmentsIInv PROVE EnvironmentsKept
    OBVIOUS
  <2>1. EnvsOK(envs, lastEnv) /\ KeysOK(keychain, envs, lastEnv, refused)
        /\ envs \in Seq(StoredEnv(lastEnv))
    BY DEF EnvironmentsIInv, EnvsOK
  <2>2. ASSUME NEW v \in VarsOf(envs) PROVE v \in StoredVar
    <3>1. PICK i \in DOMAIN envs : v \in ToSet(envs[i].vars)
      BY DEF VarsOf
    <3>2. envs[i] \in StoredEnv(lastEnv)
      BY <2>1, SeqElement
    <3> DEFINE vs == envs[i].vars
    <3>3. vs \in Seq(StoredVar)
      BY <3>2 DEF StoredEnv
    <3>4. PICK j \in DOMAIN vs : v = vs[j]
      BY <3>1 DEF ToSet
    <3> HIDE DEF vs
    <3>5. QED
      BY <3>3, <3>4, SeqElement
  <2>3. EnvironmentsTypeOK
    BY <2>1, <2>2 DEF EnvironmentsTypeOK, EnvironmentsIInv, StoredVar, KeysOK
  <2>4. SecretsNeverReachSettings
    <3>1. envStored.envs = envs
      BY DEF EnvironmentsIInv
    <3>2. QED
      BY <3>1, <2>2 DEF SecretsNeverReachSettings, StoredVar
  <2>5. ShownSecretsResolve
    BY <2>1, SavedResolves DEF ShownSecretsResolve, KeysOK
  <2>6. ActiveEnvExists
    <3>1. IsInjective([i \in DOMAIN envs |-> envs[i].id])
      BY <2>1 DEF IsInjective, EnvsOK
    <3>2. QED
      BY <3>1 DEF ActiveEnvExists, EnvironmentsIInv
  <2>7. QED
    BY <2>3, <2>4, <2>5, <2>6 DEF EnvironmentsKept
<1>2. QED
  BY <1>1, EnvironmentsInvariant, PTL

-----------------------------------------------------------------------------
(* What the splitter knows between two characters, and its steps.          *)
Letters == Chars \cup {SQ, DQ, BS, SP}
Pasted == Seq(Letters)
Quotes == {None, SQ, DQ}
Sp(ws, w, st, q, e) == [words |-> ws, word |-> w, started |-> st, quote |-> q, escape |-> e]
Splits == [words : Seq(Pasted), word : Pasted, started : BOOLEAN, quote : Quotes, escape : BOOLEAN]

LEMMA SpIs ==
  ASSUME NEW s \in Splits
  PROVE  s = Sp(s.words, s.word, s.started, s.quote, s.escape)
BY DEF Splits, Sp

LEMMA SpIn ==
  ASSUME NEW ws \in Seq(Pasted), NEW w \in Pasted, NEW st \in BOOLEAN, NEW q \in Quotes, NEW e \in BOOLEAN
  PROVE  /\ Sp(ws, w, st, q, e) \in Splits
         /\ Sp(ws, w, st, q, e).words = ws /\ Sp(ws, w, st, q, e).word = w
         /\ Sp(ws, w, st, q, e).started = st /\ Sp(ws, w, st, q, e).quote = q
         /\ Sp(ws, w, st, q, e).escape = e
BY DEF Splits, Sp

LEMMA SpChanges ==
  ASSUME NEW s \in Splits, NEW ws \in Seq(Pasted), NEW q \in Quotes, NEW e \in BOOLEAN
  PROVE  /\ [s EXCEPT !.escape = e] = Sp(s.words, s.word, s.started, s.quote, e)
         /\ [s EXCEPT !.quote = q] = Sp(s.words, s.word, s.started, q, s.escape)
         /\ [s EXCEPT !.words = ws] = Sp(ws, s.word, s.started, s.quote, s.escape)
<1>1. [s EXCEPT !.escape = e] = Sp(s.words, s.word, s.started, s.quote, e)
  <2> DEFINE v == [s EXCEPT !.escape = e]
  <2>1. v \in Splits /\ v.words = s.words /\ v.word = s.word /\ v.started = s.started /\ v.quote = s.quote /\ v.escape = e
    BY Zenon DEF Splits
  <2> HIDE DEF v
  <2>2. v = Sp(s.words, s.word, s.started, s.quote, e)
    BY <2>1, SpIs, Zenon
  <2>3. QED
    BY <2>2 DEF v
<1>2. [s EXCEPT !.quote = q] = Sp(s.words, s.word, s.started, q, s.escape)
  <2> DEFINE v == [s EXCEPT !.quote = q]
  <2>1. v \in Splits /\ v.words = s.words /\ v.word = s.word /\ v.started = s.started /\ v.quote = q /\ v.escape = s.escape
    BY Zenon DEF Splits
  <2> HIDE DEF v
  <2>2. v = Sp(s.words, s.word, s.started, q, s.escape)
    BY <2>1, SpIs, Zenon
  <2>3. QED
    BY <2>2 DEF v
<1>3. [s EXCEPT !.words = ws] = Sp(ws, s.word, s.started, s.quote, s.escape)
  <2> DEFINE v == [s EXCEPT !.words = ws]
  <2>1. v \in Splits /\ v.words = ws /\ v.word = s.word /\ v.started = s.started /\ v.quote = s.quote /\ v.escape = s.escape
    BY Zenon DEF Splits
  <2> HIDE DEF v
  <2>2. v = Sp(ws, s.word, s.started, s.quote, s.escape)
    BY <2>1, SpIs, Zenon
  <2>3. QED
    BY <2>2 DEF v
<1>4. QED
  BY <1>1, <1>2, <1>3, Zenon

LEMMA SplittingIs == Splitting = Sp(<<>>, <<>>, FALSE, None, FALSE) /\ Splitting \in Splits
BY DEF Splitting, Sp, Splits, Pasted, Quotes

LEMMA Signs ==
  /\ SQ # DQ /\ SQ # BS /\ SQ # SP /\ DQ # BS /\ DQ # SP /\ BS # SP /\ None \notin {SQ, DQ, BS, SP}
  /\ {SQ, DQ, BS, SP} \subseteq Letters /\ Quotes = {None, SQ, DQ}
BY DEF SQ, DQ, BS, SP, None, Quotes, Letters

Added(q, c) == IF q = None \/ c \in {DQ, BS} THEN <<c>> ELSE <<BS, c>>
Plainly(ws, w, st, q, c) ==
  IF c = BS /\ q # SQ THEN Sp(ws, w, st, q, TRUE)
  ELSE IF q = None /\ c = SP
         THEN IF st THEN Sp(Append(ws, w), <<>>, FALSE, None, FALSE) ELSE Sp(ws, w, st, q, FALSE)
  ELSE IF q = None /\ c \in {SQ, DQ} THEN Sp(ws, w, TRUE, c, FALSE)
  ELSE IF c = q THEN Sp(ws, w, st, None, FALSE)
  ELSE Sp(ws, w \o <<c>>, TRUE, q, FALSE)

LEMMA SplitEscaped ==
  ASSUME NEW ws \in Seq(Pasted), NEW w \in Pasted, NEW st \in BOOLEAN, NEW q \in Quotes, NEW c \in Letters
  PROVE  SplitStep(Sp(ws, w, st, q, TRUE), c) = Sp(ws, w \o Added(q, c), TRUE, q, FALSE)
<1> DEFINE s == Sp(ws, w, st, q, TRUE)
<1>1. s.words = ws /\ s.word = w /\ s.started = st /\ s.quote = q /\ s.escape = TRUE
  BY DEF Sp
<1> HIDE DEF s
<1>2. SplitStep(s, c) = Into(s, Added(q, c))
  BY <1>1, Zenon DEF SplitStep, Added
<1>3. Into(s, Added(q, c)) = Sp(ws, w \o Added(q, c), TRUE, q, FALSE)
  BY <1>1 DEF Into, Sp
<1>4. QED
  BY <1>2, <1>3 DEF s

LEMMA SplitPlain ==
  ASSUME NEW ws \in Seq(Pasted), NEW w \in Pasted, NEW st \in BOOLEAN, NEW q \in Quotes, NEW c \in Letters
  PROVE  SplitStep(Sp(ws, w, st, q, FALSE), c) = Plainly(ws, w, st, q, c)
<1> DEFINE s == Sp(ws, w, st, q, FALSE)
<1>s. s \in Splits /\ s.words = ws /\ s.word = w /\ s.started = st /\ s.quote = q /\ s.escape = FALSE
  BY DEF Splits, Sp
<1> HIDE DEF s
<1>e. [s EXCEPT !.escape = TRUE] = Sp(ws, w, st, q, TRUE)
  <2>1. [s EXCEPT !.escape = TRUE] = Sp(s.words, s.word, s.started, s.quote, TRUE)
    BY <1>s, SpChanges, Zenon
  <2>2. QED
    BY <1>s, <2>1, Zenon
<1>q. [s EXCEPT !.quote = None] = Sp(ws, w, st, None, FALSE)
  <2>1. [s EXCEPT !.quote = None] = Sp(s.words, s.word, s.started, None, s.escape)
    BY <1>s, SpChanges, Signs, Zenon
  <2>2. QED
    BY <1>s, <2>1, Zenon
<1>w. [Splitting EXCEPT !.words = Append(s.words, s.word)] = Sp(Append(ws, w), <<>>, FALSE, None, FALSE)
  <2> DEFINE b == Splitting
  <2>1. /\ b.words = <<>> /\ b.word = <<>> /\ b.started = FALSE /\ b.quote = None /\ b.escape = FALSE
    BY DEF Splitting
  <2>2. b \in Splits
    BY SplittingIs
  <2>3. Append(ws, w) \in Seq(Pasted)
    OBVIOUS
  <2> HIDE DEF b
  <2>4. [b EXCEPT !.words = Append(ws, w)] = Sp(Append(ws, w), b.word, b.started, b.quote, b.escape)
    BY <2>2, <2>3, SpChanges, Zenon
  <2>5. QED
    BY <1>s, <2>1, <2>4, Zenon DEF b
<1>1. SplitStep(s, c) =
        IF c = BS /\ s.quote # SQ THEN [s EXCEPT !.escape = TRUE]
        ELSE IF s.quote = None /\ c = SP
               THEN IF s.started THEN [Splitting EXCEPT !.words = Append(s.words, s.word)] ELSE s
        ELSE IF s.quote = None /\ c \in {SQ, DQ}
               THEN [words |-> s.words, word |-> s.word, started |-> TRUE, quote |-> c, escape |-> FALSE]
        ELSE IF c = s.quote THEN [s EXCEPT !.quote = None]
        ELSE Into(s, <<c>>)
  BY <1>s, Zenon DEF SplitStep
<1>2. Into(s, <<c>>) = Sp(ws, w \o <<c>>, TRUE, q, FALSE)
  BY <1>s DEF Into, Sp
<1>3. [words |-> s.words, word |-> s.word, started |-> TRUE, quote |-> c, escape |-> FALSE] = Sp(ws, w, TRUE, c, FALSE)
  BY <1>s DEF Sp
<1>4. SplitStep(s, c) = Plainly(ws, w, st, q, c)
  <2>1. s = Sp(ws, w, st, q, FALSE)
    BY DEF s
  <2>2. QED
    BY <1>s, <1>e, <1>q, <1>w, <1>1, <1>2, <1>3, <2>1, Zenon DEF Plainly
<1>5. QED
  BY <1>4, Zenon DEF s

LEMMA SplitStays ==
  ASSUME NEW s \in Splits, NEW c \in Letters
  PROVE  SplitStep(s, c) \in Splits
<1> DEFINE ws == s.words
           w == s.word
           st == s.started
           q == s.quote
<1>0. ws \in Seq(Pasted) /\ w \in Pasted /\ st \in BOOLEAN /\ q \in Quotes
  BY DEF Splits
<1>s. s = Sp(ws, w, st, q, TRUE) \/ s = Sp(ws, w, st, q, FALSE)
  BY DEF Splits, Sp
<1> HIDE DEF ws, w, st, q
<1>1. \A x \in Seq(Pasted), y \in Pasted, b \in BOOLEAN, z \in Quotes, e \in BOOLEAN : Sp(x, y, b, z, e) \in Splits
  BY DEF Splits, Sp
<1>2. Append(ws, w) \in Seq(Pasted) /\ <<>> \in Pasted /\ w \o <<c>> \in Pasted /\ w \o <<BS, c>> \in Pasted
  <2>1. Append(ws, w) \in Seq(Pasted)
    BY <1>0
  <2>2. <<c>> \in Seq(Letters) /\ <<BS, c>> \in Seq(Letters) /\ w \in Seq(Letters) /\ <<>> \in Seq(Letters)
    <3>1. BS \in Letters
      BY Signs
    <3>2. <<c>> \in Seq(Letters) /\ <<BS, c>> \in Seq(Letters) /\ <<>> \in Seq(Letters)
      BY <3>1
    <3>3. QED
      BY <1>0, <3>2, Zenon DEF Pasted
  <2>3. \A x, y \in Seq(Letters) : x \o y \in Seq(Letters)
    OBVIOUS
  <2>4. QED
    BY <2>1, <2>2, <2>3, Zenon DEF Pasted
<1>3. CASE s = Sp(ws, w, st, q, TRUE)
  <2>1. SplitStep(s, c) = Sp(ws, w \o Added(q, c), TRUE, q, FALSE)
    BY <1>0, <1>3, SplitEscaped, Zenon
  <2>2. w \o Added(q, c) \in Pasted
    BY <1>2, Zenon DEF Added
  <2>3. QED
    BY <1>0, <1>1, <2>1, <2>2, Zenon
<1>4. CASE s = Sp(ws, w, st, q, FALSE)
  <2>1. SplitStep(s, c) = Plainly(ws, w, st, q, c)
    BY <1>0, <1>4, SplitPlain, Zenon
  <2>2. Plainly(ws, w, st, q, c) \in Splits
    <3>1. None \in Quotes /\ \A x \in {SQ, DQ} : x \in Quotes
      BY Signs
    <3>2. QED
      BY <1>0, <1>1, <1>2, <3>1, Zenon DEF Plainly
  <2>3. QED
    BY <2>1, <2>2
<1>5. QED
  BY <1>s, <1>3, <1>4

-----------------------------------------------------------------------------
(* The splitter as a function of the text it has read.                     *)
Splitter(f) ==
  /\ f \in [Pasted -> Splits] /\ f[<<>>] = Sp(<<>>, <<>>, FALSE, None, FALSE)
  /\ \A t \in Pasted, c \in Letters : f[Append(t, c)] = SplitStep(f[t], c)

LEMMA SplitterIs ==
  \E f : /\ Splitter(f)
         /\ \A t \in Pasted : ~f[t].escape /\ f[t].started =>
              splitCommand(t) = Append(f[t].words, f[t].word)
<1> DEFINE step == [s \in Splits |-> [c \in Letters |-> SplitStep(s, c)]]
<1>0. Splitting \in Splits /\ step \in [Splits -> [Letters -> Splits]]
  BY SplittingIs, SplitStays
<1>s. \A s \in Splits, c \in Letters : step[s][c] = SplitStep(s, c)
  OBVIOUS
<1> HIDE DEF step
<1>1. PICK f : Fold(f, Letters, Splits, Splitting, step)
  BY <1>0, FoldExists
<1>2. f \in [Pasted -> Splits] /\ f[<<>>] = Splitting /\ \A t \in Pasted, c \in Letters : f[Append(t, c)] = step[f[t]][c]
  BY <1>1 DEF Fold, Pasted
<1>3. Splitter(f)
  <2>1. \A t \in Pasted, c \in Letters : f[Append(t, c)] = SplitStep(f[t], c)
    BY <1>s, <1>2
  <2>2. QED
    BY <1>2, <2>1, SplittingIs DEF Splitter
<1>4. ASSUME NEW t \in Pasted, ~f[t].escape, f[t].started
      PROVE  splitCommand(t) = Append(f[t].words, f[t].word)
  <2> DEFINE N == Len(t)
             Rec(g) == [n \in 0..N |-> IF n = 0 THEN Splitting ELSE SplitStep(g[n - 1], t[n])]
             u == CHOOSE g : g = Rec(g)
             last == IF u[N].escape THEN Into(u[N], <<BS>>) ELSE u[N]
  <2>0. t \in Seq(Letters) /\ N \in Nat /\ \A n \in 1..N : t[n] \in Letters
    BY DEF Pasted
  <2>p. PICK h : Walks(h, t, Splits, Splitting, step)
    BY <1>0, <1>1, <2>0, FoldPlaces
  <2>1. h \in [0..N -> Splits] /\ h[0] = Splitting /\ \A n \in 1..N : h[n] = step[h[n - 1]][t[n]]
    BY <2>p DEF Walks
  <2>2. splitCommand(t) = IF last.started THEN Append(last.words, last.word) ELSE last.words
    BY DEF splitCommand
  <2> HIDE DEF N, last
  <2>3. h = Rec(h)
    <3>1. ASSUME NEW n \in 0..N, n # 0 PROVE h[n] = SplitStep(h[n - 1], t[n])
      <4>1. n \in 1..N /\ n - 1 \in 0..N
        BY <2>0, <3>1
      <4>2. h[n - 1] \in Splits /\ t[n] \in Letters /\ h[n] = step[h[n - 1]][t[n]]
        BY <2>0, <2>1, <4>1
      <4>3. QED
        BY <1>s, <4>2
    <3>2. h = [n \in 0..N |-> h[n]] /\ h[0] = Splitting
      BY <2>1
    <3>3. QED
      BY <3>1, <3>2
  <2>4. u = Rec(u)
    BY <2>3
  <2> HIDE DEF u
  <2>5. u[0] = Splitting
    BY <2>0, <2>4
  <2>6. ASSUME NEW n \in 1..N, u[n - 1] \in Splits PROVE u[n] = step[u[n - 1]][t[n]]
    <3>1. n \in 0..N /\ n # 0 /\ t[n] \in Letters
      BY <2>0
    <3>2. u[n] = SplitStep(u[n - 1], t[n])
      BY <2>4, <3>1
    <3>3. QED
      BY <1>s, <2>6, <3>1, <3>2
  <2>7. u[Len(t)] = f[t]
    <3>1. Follows(u, t, Splits, Splitting, step)
      BY <2>5, <2>6 DEF Follows, N
    <3>2. QED
      BY <1>0, <1>1, <2>0, <3>1, FoldComputes
  <2>8. u[N] = f[t]
    BY <2>7 DEF N
  <2>9. last = f[t]
    BY <1>4, <2>8 DEF last
  <2>10. QED
    BY <1>4, <2>2, <2>9
<1>5. QED
  BY <1>3, <1>4

LEMMA TextsJoin ==
  /\ <<>> \in Pasted /\ \A c \in Letters : <<c>> \in Pasted
  /\ \A x, y \in Pasted : x \o y \in Pasted
  /\ \A x \in Pasted, c \in Letters : Append(x, c) \in Pasted /\ Append(x, c) = x \o <<c>>
  /\ \A x, y, z \in Pasted : (x \o y) \o z = x \o (y \o z)
  /\ \A x \in Pasted : x \o <<>> = x /\ <<>> \o x = x
  /\ \A x \in Pasted, c, d \in Letters : <<c, d>> \in Pasted /\ x \o <<c, d>> = Append(Append(x, c), d)
<1> DEFINE A == Letters
<1> HIDE DEF A
<1>1. <<>> \in Seq(A) /\ \A c \in A : <<c>> \in Seq(A)
  OBVIOUS
<1>2. \A x, y \in Seq(A) : x \o y \in Seq(A)
  OBVIOUS
<1>3. \A x \in Seq(A), c \in A : Append(x, c) \in Seq(A) /\ Append(x, c) = x \o <<c>>
  OBVIOUS
<1>4. \A x, y, z \in Seq(A) : (x \o y) \o z = x \o (y \o z)
  OBVIOUS
<1>5. \A x \in Seq(A) : x \o <<>> = x /\ <<>> \o x = x
  OBVIOUS
<1>6. \A x \in Seq(A), c, d \in A : <<c, d>> \in Seq(A) /\ x \o <<c, d>> = Append(Append(x, c), d)
  OBVIOUS
<1>7. QED
  BY <1>1, <1>2, <1>3, <1>4, <1>5, <1>6, Zenon DEF A, Pasted

LEMMA TextPairs == \A x \in Pasted, c, d \in Letters : x \o <<c, d>> = Append(Append(x, c), d)
BY TextsJoin, Zenon

LEMMA TextsAssociate == \A x, y, z \in Pasted : Associate(x, y, z)
BY TextsJoin, Zenon DEF Associate

(* What each character does to the word that is being read.                *)
Outside(f, t, ws, w) == f[t] = Sp(ws, w, FALSE, None, FALSE)
Reading(f, t, ws, w, q) == f[t] = Sp(ws, w, TRUE, q, FALSE)
Escaping(f, t, ws, w) == f[t] = Sp(ws, w, TRUE, DQ, TRUE)

Within(f, t, ws, w, st, q) == f[t] = Sp(ws, w, st, q, FALSE)
Struck(f, t, ws, w, st, q, c) == f[Append(t, c)] = Plainly(ws, w, st, q, c)
Freed(f, t, ws, w, q, c) == f[Append(t, c)] = Sp(ws, w \o Added(q, c), TRUE, q, FALSE)
Beyond(f, t, ws, w, st, q) == f[t] = Sp(ws, w, st, q, TRUE)

LEMMA Stroke ==
  ASSUME NEW f, Splitter(f), NEW t \in Pasted, NEW ws \in Seq(Pasted), NEW w \in Pasted, NEW st \in BOOLEAN,
         NEW q \in Quotes, NEW c \in Letters
  PROVE  /\ Within(f, t, ws, w, st, q) => Struck(f, t, ws, w, st, q, c)
         /\ Beyond(f, t, ws, w, st, q) => Freed(f, t, ws, w, q, c)
         /\ Append(w, c) = w \o <<c>>
<1>1. f[Append(t, c)] = SplitStep(f[t], c) /\ Append(w, c) = w \o <<c>>
  BY TextsJoin DEF Splitter
<1>2. SplitStep(Sp(ws, w, st, q, FALSE), c) = Plainly(ws, w, st, q, c)
  BY SplitPlain, Zenon
<1>3. SplitStep(Sp(ws, w, st, q, TRUE), c) = Sp(ws, w \o Added(q, c), TRUE, q, FALSE)
  BY SplitEscaped, Zenon
<1>4. QED
  BY <1>1, <1>2, <1>3, Zenon DEF Within, Beyond, Struck, Freed

LEMMA StrokeEscaped ==
  ASSUME NEW f, Splitter(f), NEW t \in Pasted, NEW ws \in Seq(Pasted), NEW w \in Pasted, NEW c \in {DQ, BS},
         Escaping(f, t, ws, w)
  PROVE  Reading(f, Append(t, c), ws, Append(w, c), DQ)
<1> DEFINE b == TRUE
<1>1. c \in Letters /\ DQ \in Quotes /\ b \in BOOLEAN
  BY Signs
<1>2. Beyond(f, t, ws, w, b, DQ)
  BY Zenon DEF Escaping, Beyond
<1> HIDE DEF b
<1>3. Freed(f, t, ws, w, DQ, c) /\ Append(w, c) = w \o <<c>>
  BY <1>1, <1>2, Stroke, Zenon
<1>4. QED
  BY <1>3, Signs DEF Freed, Added, b, Outside, Reading, Escaping

LEMMA StrokeEscape ==
  ASSUME NEW f, Splitter(f), NEW t \in Pasted, NEW ws \in Seq(Pasted), NEW w \in Pasted,
         Reading(f, t, ws, w, DQ)
  PROVE  Escaping(f, Append(t, BS), ws, w)
<1> DEFINE b == TRUE
<1>1. BS \in Letters /\ DQ \in Quotes /\ b \in BOOLEAN
  BY Signs
<1>2. Within(f, t, ws, w, b, DQ)
  BY Zenon DEF Reading, Within
<1> HIDE DEF b
<1>3. Struck(f, t, ws, w, b, DQ, BS) /\ Append(w, BS) = w \o <<BS>>
  BY <1>1, <1>2, Stroke, Zenon
<1>4. QED
  BY <1>3, Signs DEF Struck, Plainly, b, Outside, Reading, Escaping

LEMMA StrokeOpen ==
  ASSUME NEW f, Splitter(f), NEW t \in Pasted, NEW ws \in Seq(Pasted), NEW w \in Pasted, NEW c \in {SQ, DQ},
         Outside(f, t, ws, w)
  PROVE  Reading(f, Append(t, c), ws, w, c)
<1> DEFINE b == FALSE
<1>1. c \in Letters /\ None \in Quotes /\ b \in BOOLEAN
  BY Signs
<1>2. Within(f, t, ws, w, b, None)
  BY Zenon DEF Outside, Within
<1> HIDE DEF b
<1>3. Struck(f, t, ws, w, b, None, c) /\ Append(w, c) = w \o <<c>>
  BY <1>1, <1>2, Stroke, Zenon
<1>4. QED
  BY <1>3, Signs DEF Struck, Plainly, b, Outside, Reading, Escaping

LEMMA StrokeClose ==
  ASSUME NEW f, Splitter(f), NEW t \in Pasted, NEW ws \in Seq(Pasted), NEW w \in Pasted, NEW c \in {SQ, DQ},
         Reading(f, t, ws, w, c)
  PROVE  Reading(f, Append(t, c), ws, w, None)
<1> DEFINE b == TRUE
<1>1. c \in Letters /\ c \in Quotes /\ b \in BOOLEAN
  BY Signs
<1>2. Within(f, t, ws, w, b, c)
  BY Zenon DEF Reading, Within
<1> HIDE DEF b
<1>3. Struck(f, t, ws, w, b, c, c) /\ Append(w, c) = w \o <<c>>
  BY <1>1, <1>2, Stroke, Zenon
<1>4. QED
  BY <1>3, Signs DEF Struck, Plainly, b, Outside, Reading, Escaping

LEMMA StrokeInDouble ==
  ASSUME NEW f, Splitter(f), NEW t \in Pasted, NEW ws \in Seq(Pasted), NEW w \in Pasted, NEW c \in Letters \ {DQ, BS},
         Reading(f, t, ws, w, DQ)
  PROVE  Reading(f, Append(t, c), ws, Append(w, c), DQ)
<1> DEFINE b == TRUE
<1>1. c \in Letters /\ DQ \in Quotes /\ b \in BOOLEAN
  BY Signs
<1>2. Within(f, t, ws, w, b, DQ)
  BY Zenon DEF Reading, Within
<1> HIDE DEF b
<1>3. Struck(f, t, ws, w, b, DQ, c) /\ Append(w, c) = w \o <<c>>
  BY <1>1, <1>2, Stroke, Zenon
<1>4. QED
  BY <1>3, Signs DEF Struck, Plainly, b, Outside, Reading, Escaping

LEMMA StrokeInSingle ==
  ASSUME NEW f, Splitter(f), NEW t \in Pasted, NEW ws \in Seq(Pasted), NEW w \in Pasted, NEW c \in Letters \ {SQ},
         Reading(f, t, ws, w, SQ)
  PROVE  Reading(f, Append(t, c), ws, Append(w, c), SQ)
<1> DEFINE b == TRUE
<1>1. c \in Letters /\ SQ \in Quotes /\ b \in BOOLEAN
  BY Signs
<1>2. Within(f, t, ws, w, b, SQ)
  BY Zenon DEF Reading, Within
<1> HIDE DEF b
<1>3. Struck(f, t, ws, w, b, SQ, c) /\ Append(w, c) = w \o <<c>>
  BY <1>1, <1>2, Stroke, Zenon
<1>4. QED
  BY <1>3, Signs DEF Struck, Plainly, b, Outside, Reading, Escaping

LEMMA StrokeBlank ==
  ASSUME NEW f, Splitter(f), NEW t \in Pasted, NEW ws \in Seq(Pasted), NEW w \in Pasted,
         Reading(f, t, ws, w, None)
  PROVE  Outside(f, Append(t, SP), Append(ws, w), <<>>)
<1> DEFINE b == TRUE
<1>1. SP \in Letters /\ None \in Quotes /\ b \in BOOLEAN
  BY Signs
<1>2. Within(f, t, ws, w, b, None)
  BY Zenon DEF Reading, Within
<1> HIDE DEF b
<1>3. Struck(f, t, ws, w, b, None, SP) /\ Append(w, SP) = w \o <<SP>>
  BY <1>1, <1>2, Stroke, Zenon
<1>4. QED
  BY <1>3, Signs DEF Struck, Plainly, b, Outside, Reading, Escaping

LEMMA StrokeBlankAgain ==
  ASSUME NEW f, Splitter(f), NEW t \in Pasted, NEW ws \in Seq(Pasted), NEW w \in Pasted,
         Outside(f, t, ws, w)
  PROVE  Outside(f, Append(t, SP), ws, w)
<1> DEFINE b == FALSE
<1>1. SP \in Letters /\ None \in Quotes /\ b \in BOOLEAN
  BY Signs
<1>2. Within(f, t, ws, w, b, None)
  BY Zenon DEF Outside, Within
<1> HIDE DEF b
<1>3. Struck(f, t, ws, w, b, None, SP) /\ Append(w, SP) = w \o <<SP>>
  BY <1>1, <1>2, Stroke, Zenon
<1>4. QED
  BY <1>3, Signs DEF Struck, Plainly, b, Outside, Reading, Escaping

(* A quoted word reads as the word.                                        *)
LEMMA EscapedGrows ==
  ASSUME NEW v \in Pasted, NEW a \in Letters
  PROVE  LET e == IF a \in {DQ, BS} THEN <<BS, a>> ELSE <<a>>
         IN  /\ e \in Pasted /\ Escaped(v) \in Seq(Pasted) /\ Escaped(<<>>) = <<>>
             /\ Escaped(Append(v, a)) = Append(Escaped(v), e)
<1> DEFINE piece(c) == IF c \in {DQ, BS} THEN <<BS, c>> ELSE <<c>>
           e == piece(a)
           w == Append(v, a)
           N == Len(v)
<1>0. v \in Seq(Letters) /\ N \in Nat /\ w \in Seq(Letters) /\ Len(w) = N + 1 /\ w[N + 1] = a
      /\ (\A i \in 1..N : w[i] = v[i] /\ v[i] \in Letters)
  BY DEF Pasted
<1>1. \A c \in Letters : piece(c) \in Pasted
  BY TextsJoin, Signs
<1> HIDE DEF w, N
<1>2. Escaped(v) = [i \in 1..N |-> piece(v[i])] /\ Escaped(w) = [i \in 1..(N + 1) |-> piece(w[i])]
  <2>1. DOMAIN v = 1..N /\ DOMAIN w = 1..(N + 1)
    BY <1>0 DEF N
  <2>2. QED
    BY <2>1 DEF Escaped
<1> HIDE DEF piece
<1>3. Escaped(v) \in Seq(Pasted) /\ Len(Escaped(v)) = N
  BY <1>0, <1>1, <1>2
<1>4. Escaped(w) = Append(Escaped(v), e)
  <2> DEFINE x == Escaped(v)
             y == Escaped(w)
  <2>0. \A i \in 1..(N + 1) : w[i] \in Letters
    BY <1>0
  <2>1. y \in Seq(Pasted) /\ Len(y) = N + 1
    BY <1>0, <1>1, <1>2, <2>0
  <2>2. x \in Seq(Pasted) /\ Len(x) = N
    BY <1>3
  <2>3. y[N + 1] = e /\ \A i \in 1..N : y[i] = x[i]
    BY <1>0, <1>2
  <2>4. e \in Pasted
    BY <1>1
  <2> HIDE DEF x, y, e
  <2>5. y = Append(x, e)
    BY <1>0, <2>1, <2>2, <2>3, <2>4
  <2>6. QED
    BY <2>5 DEF x, y
<1>5. Escaped(<<>>) = <<>>
  BY DEF Escaped
<1>6. QED
  BY <1>1, <1>3, <1>4, <1>5 DEF w, piece

LEMMA WordInDouble ==
  ASSUME NEW f, Splitter(f), NEW t \in Pasted, NEW ws \in Seq(Pasted), Outside(f, t, ws, <<>>),
         NEW w \in Pasted
  PROVE  t \o InDouble(w) \in Pasted /\ Reading(f, t \o InDouble(w), ws, w, None)
<1> DEFINE In(v) == Append(t, DQ) \o Flat(Escaped(v))
           I == {v \in Pasted : In(v) \in Pasted /\ Reading(f, In(v), ws, v, DQ)}
<1>s. DQ \in Letters /\ BS \in Letters /\ DQ \in {SQ, DQ} /\ <<>> \in Pasted
  BY Signs, TextsJoin
<1>f. \A v \in Pasted : Flat(Escaped(v)) \in Pasted
  BY EscapedGrows, FlatFacts, <1>s DEF Pasted
<1>1. <<>> \in I
  <2>1. In(<<>>) = Append(t, DQ) /\ Append(t, DQ) \in Pasted
    <3>1. Flat(Escaped(<<>>)) = <<>>
      BY EscapedGrows, FlatFacts, <1>s
    <3>2. QED
      BY <1>s, <3>1, TextsJoin
  <2>2. Reading(f, Append(t, DQ), ws, <<>>, DQ)
    BY <1>s, StrokeOpen, Zenon
  <2>3. QED
    BY <1>s, <2>1, <2>2
<1>2. ASSUME NEW v \in Pasted, NEW a \in Letters, v \in I PROVE Append(v, a) \in I
  <2> DEFINE e == IF a \in {DQ, BS} THEN <<BS, a>> ELSE <<a>>
             z == In(v)
  <2>1. z \in Pasted /\ Reading(f, z, ws, v, DQ)
    BY <1>2
  <2>2. In(Append(v, a)) = z \o e
    <3>1. e \in Pasted /\ Escaped(v) \in Seq(Pasted) /\ Escaped(Append(v, a)) = Append(Escaped(v), e)
      BY EscapedGrows, Zenon
    <3> HIDE DEF e
    <3>2. Flat(Escaped(Append(v, a))) = Flat(Escaped(v)) \o e
      BY <3>1, FlatFacts DEF Pasted
    <3>3. Append(t, DQ) \in Pasted /\ Flat(Escaped(v)) \in Pasted
      BY <1>f, <1>s, TextsJoin
    <3>4. Append(t, DQ) \o (Flat(Escaped(v)) \o e) = (Append(t, DQ) \o Flat(Escaped(v))) \o e
      <4>1. Associate(Append(t, DQ), Flat(Escaped(v)), e)
        BY <3>1, <3>3, TextsAssociate, Zenon
      <4>2. QED
        BY <4>1, Zenon DEF Associate
    <3>5. QED
      BY <3>2, <3>4
  <2> HIDE DEF z
  <2>3. z \o e \in Pasted /\ Reading(f, z \o e, ws, Append(v, a), DQ)
    <3>1. CASE a \in {DQ, BS}
      <4>1. z \o e = Append(Append(z, BS), a) /\ Append(z, BS) \in Pasted /\ Append(Append(z, BS), a) \in Pasted
        <5>1. Append(z, BS) \in Pasted /\ Append(Append(z, BS), a) \in Pasted
          BY <1>s, <2>1, TextsJoin, Zenon
        <5>2. z \o <<BS, a>> = Append(Append(z, BS), a)
          BY <1>s, <2>1, TextPairs, Zenon
        <5>3. QED
          BY <2>1, <3>1, <5>1, <5>2, Zenon
      <4>2. Escaping(f, Append(z, BS), ws, v)
        BY <2>1, StrokeEscape, Zenon
      <4>3. Reading(f, Append(Append(z, BS), a), ws, Append(v, a), DQ)
        BY <3>1, <4>1, <4>2, StrokeEscaped, Zenon
      <4>4. QED
        BY <4>1, <4>3
    <3>2. CASE a \notin {DQ, BS}
      <4>1. z \o e = Append(z, a) /\ Append(z, a) \in Pasted
        BY <2>1, <3>2, TextsJoin
      <4>2. Reading(f, Append(z, a), ws, Append(v, a), DQ)
        <5>1. a \in Letters \ {DQ, BS}
          BY <3>2
        <5>2. QED
          BY <2>1, <5>1, StrokeInDouble, Zenon
      <4>3. QED
        BY <4>1, <4>2
    <3>3. QED
      BY <3>1, <3>2
  <2>4. Append(v, a) \in Pasted
    BY TextsJoin
  <2>5. QED
    BY <2>2, <2>3, <2>4
<1> HIDE DEF I
<1>3. Pasted \subseteq I
  <2>1. \A v \in Pasted, a \in Letters : v \in I => Append(v, a) \in I
    BY <1>2
  <2>2. QED
    BY <1>1, <2>1, SeqSet DEF Pasted
<1>4. In(w) \in Pasted /\ Reading(f, In(w), ws, w, DQ)
  BY <1>3 DEF I
<1> DEFINE z == In(w)
<1>5. t \o InDouble(w) = Append(z, DQ) /\ Append(z, DQ) \in Pasted
  <2>1. Flat(Escaped(w)) \in Pasted /\ <<DQ>> \in Pasted
    BY <1>f, <1>s, TextsJoin
  <2> DEFINE b == Flat(Escaped(w))
             d == <<DQ>>
  <2>2. InDouble(w) = (d \o b) \o d
    BY DEF InDouble
  <2>3. Append(t, DQ) = t \o d /\ \A x \in Pasted : Append(x, DQ) = x \o d
    BY <1>s, TextsJoin
  <2>4. z = (t \o d) \o b
    BY <2>3
  <2>5. z \in Pasted
    BY <1>4
  <2>6. Append(z, DQ) = z \o d /\ Append(z, DQ) \in Pasted
    BY <1>s, <2>3, <2>5, TextsJoin
  <2> HIDE DEF b, d, z
  <2>7. b \in Pasted /\ d \in Pasted
    BY <2>1 DEF b, d
  <2>8. t \o ((d \o b) \o d) = ((t \o d) \o b) \o d
    <3>1. t \o d \in Pasted /\ d \o b \in Pasted
      BY <2>7, TextsJoin
    <3>2. (t \o d) \o b = t \o (d \o b)
      <4>1. Associate(t, d, b)
        BY <2>7, TextsAssociate, Zenon
      <4>2. QED
        BY <4>1, Zenon DEF Associate
    <3>3. (t \o (d \o b)) \o d = t \o ((d \o b) \o d)
      <4>1. Associate(t, d \o b, d)
        BY <2>7, <3>1, TextsAssociate, Zenon
      <4>2. QED
        BY <4>1, Zenon DEF Associate
    <3>4. QED
      BY <3>2, <3>3
  <2>9. QED
    BY <2>2, <2>4, <2>6, <2>8
<1>6. Reading(f, Append(z, DQ), ws, w, None)
  <2>1. z \in Pasted /\ Reading(f, z, ws, w, DQ)
    BY <1>4
  <2> HIDE DEF z
  <2>2. QED
    BY <2>1, StrokeClose, Zenon
<1>7. QED
  BY <1>5, <1>6

-----------------------------------------------------------------------------
LEMMA WordInSingle ==
  ASSUME NEW f, Splitter(f), NEW t \in Pasted, NEW ws \in Seq(Pasted), Outside(f, t, ws, <<>>),
         NEW w \in Pasted, SQ \notin ToSet(w)
  PROVE  t \o InSingle(w) \in Pasted /\ Reading(f, t \o InSingle(w), ws, w, None)
<1> DEFINE In(v) == Append(t, SQ) \o v
           Most == Letters \ {SQ}
           I == {v \in Pasted : In(v) \in Pasted /\ Reading(f, In(v), ws, v, SQ)}
<1>s. SQ \in Letters /\ SQ \in {SQ, DQ} /\ <<>> \in Pasted /\ Append(t, SQ) \in Pasted
  BY Signs, TextsJoin
<1>1. <<>> \in I
  <2>1. In(<<>>) = Append(t, SQ)
    BY <1>s, TextsJoin
  <2>2. Reading(f, Append(t, SQ), ws, <<>>, SQ)
    BY <1>s, StrokeOpen, Zenon
  <2>3. QED
    BY <1>s, <2>1, <2>2
<1>2. ASSUME NEW v \in Pasted, NEW a \in Most, v \in I PROVE Append(v, a) \in I
  <2> DEFINE z == In(v)
  <2>1. z \in Pasted /\ Reading(f, z, ws, v, SQ) /\ a \in Letters
    BY <1>2
  <2>2. In(Append(v, a)) = Append(z, a)
    <3>1. <<a>> \in Pasted /\ Append(v, a) = v \o <<a>> /\ Append(z, a) = z \o <<a>>
      BY <2>1, TextsJoin
    <3>2. (Append(t, SQ) \o v) \o <<a>> = Append(t, SQ) \o (v \o <<a>>)
      <4>1. Append(t, SQ) \in Pasted /\ v \in Pasted
        BY <1>s, <1>2
      <4>2. Associate(Append(t, SQ), v, <<a>>)
        BY <3>1, <4>1, TextsAssociate, Zenon
      <4>3. QED
        BY <4>2, Zenon DEF Associate
    <3>3. QED
      BY <3>1, <3>2
  <2> HIDE DEF z
  <2>3. Reading(f, Append(z, a), ws, Append(v, a), SQ)
    BY <2>1, StrokeInSingle, Zenon
  <2>4. Append(v, a) \in Pasted /\ Append(z, a) \in Pasted
    BY <2>1, TextsJoin
  <2>5. QED
    BY <2>2, <2>3, <2>4
<1>3. w \in I
  <2>1. w \in Seq(Most)
    BY DEF Pasted, ToSet
  <2> HIDE DEF I
  <2>2. Seq(Most) \subseteq I
    <3>1. \A v \in Seq(Most), a \in Most : v \in I => Append(v, a) \in I
      <4>1. Seq(Most) \subseteq Pasted
        BY DEF Pasted
      <4>2. QED
        BY <1>2, <4>1
    <3> HIDE DEF Most
    <3>2. QED
      BY <1>1, <3>1, SeqSet
  <2>3. QED
    BY <2>1, <2>2
<1> DEFINE z == In(w)
<1>4. z \in Pasted /\ Reading(f, z, ws, w, SQ)
  BY <1>3
<1>5. t \o InSingle(w) = Append(z, SQ) /\ Append(z, SQ) \in Pasted
  <2> DEFINE d == <<SQ>>
  <2>1. d \in Pasted /\ Append(t, SQ) = t \o d /\ Append(z, SQ) = z \o d /\ Append(z, SQ) \in Pasted
    BY <1>s, <1>4, TextsJoin
  <2>2. InSingle(w) = (d \o w) \o d
    BY DEF InSingle
  <2>3. z = (t \o d) \o w
    BY <2>1
  <2> HIDE DEF d, z
  <2>4. t \o ((d \o w) \o d) = ((t \o d) \o w) \o d
    <3>1. t \o d \in Pasted /\ d \o w \in Pasted
      BY <2>1, TextsJoin
    <3>2. (t \o d) \o w = t \o (d \o w)
      <4>1. Associate(t, d, w)
        BY <2>1, TextsAssociate, Zenon
      <4>2. QED
        BY <4>1, Zenon DEF Associate
    <3>3. (t \o (d \o w)) \o d = t \o ((d \o w) \o d)
      <4>1. Associate(t, d \o w, d)
        BY <2>1, <3>1, TextsAssociate, Zenon
      <4>2. QED
        BY <4>1, Zenon DEF Associate
    <3>4. QED
      BY <3>2, <3>3
  <2>5. QED
    BY <2>1, <2>2, <2>3, <2>4
<1>6. Reading(f, Append(z, SQ), ws, w, None)
  <2> HIDE DEF z
  <2>1. QED
    BY <1>4, <1>s, StrokeClose, Zenon
<1>7. QED
  BY <1>5, <1>6

(* Two words, each quoted either way, with blanks between them.            *)
Quotings(w) == {InDouble(w)} \cup (IF SQ \in ToSet(w) THEN {} ELSE {InSingle(w)})

LEMMA WordIsRead ==
  ASSUME NEW f, Splitter(f), NEW t \in Pasted, NEW ws \in Seq(Pasted), Outside(f, t, ws, <<>>),
         NEW w \in Pasted, NEW a \in Quotings(w)
  PROVE  t \o a \in Pasted /\ Reading(f, t \o a, ws, w, None)
<1>1. CASE a = InDouble(w)
  BY <1>1, WordInDouble, Zenon
<1>2. CASE a = InSingle(w) /\ SQ \notin ToSet(w)
  BY <1>2, WordInSingle, Zenon
<1>3. QED
  BY <1>1, <1>2 DEF Quotings

LEMMA QuotedWordsReturn ==
  ASSUME NEW v \in Pasted, NEW w \in Pasted, NEW a \in Quotings(v), NEW b \in Quotings(w)
  PROVE  splitCommand(a \o <<SP, SP>> \o b) = <<v, w>>
<1>1. PICK f : /\ Splitter(f)
               /\ \A t \in Pasted : ~f[t].escape /\ f[t].started => splitCommand(t) = Append(f[t].words, f[t].word)
  BY SplitterIs
<1>s. <<>> \in Pasted /\ SP \in Letters
  BY Signs, TextsJoin
<1>0. a \in Pasted /\ b \in Pasted
  <2>1. \A x \in Pasted : Flat(Escaped(x)) \in Pasted
    <3>1. \A x \in Pasted : Escaped(x) \in Seq(Pasted)
      BY <1>s, EscapedGrows
    <3>2. QED
      BY <3>1, FlatFacts DEF Pasted
  <2>2. <<DQ>> \in Pasted /\ <<SQ>> \in Pasted
    BY Signs, TextsJoin
  <2>3. \A x \in Pasted : InDouble(x) \in Pasted /\ InSingle(x) \in Pasted
    BY <2>1, <2>2, TextsJoin DEF InDouble, InSingle
  <2>4. QED
    BY <2>3 DEF Quotings
<1>2. a \in Pasted /\ Reading(f, a, <<>>, v, None)
  <2>1. Outside(f, <<>>, <<>>, <<>>)
    BY <1>1 DEF Splitter, Outside
  <2>2. <<>> \in Seq(Pasted) /\ <<>> \o a = a
    BY <1>0, TextsJoin
  <2> DEFINE e == <<>>
  <2>3. e \in Pasted /\ e \in Seq(Pasted) /\ Outside(f, e, e, <<>>) /\ e \o a = a
    BY <1>s, <2>1, <2>2
  <2> HIDE DEF e
  <2>4. Reading(f, e \o a, e, v, None)
    BY <1>1, <2>3, WordIsRead, Zenon
  <2>5. QED
    BY <1>0, <2>3, <2>4 DEF e
<1> DEFINE ws == Append(<<>>, v)
           m == Append(Append(a, SP), SP)
<1>3. ws \in Seq(Pasted) /\ <<>> \in Seq(Pasted)
  OBVIOUS
<1>4. Append(a, SP) \in Pasted /\ m \in Pasted /\ m = a \o <<SP, SP>>
  BY <1>s, <1>2, TextsJoin
<1>5. Outside(f, Append(a, SP), ws, <<>>)
  BY <1>1, <1>2, <1>3, StrokeBlank, Zenon
<1> HIDE DEF ws
<1>6. Outside(f, m, ws, <<>>)
  BY <1>1, <1>3, <1>4, <1>5, <1>s, StrokeBlankAgain, Zenon
<1> HIDE DEF m
<1>7. m \o b \in Pasted /\ Reading(f, m \o b, ws, w, None)
  BY <1>1, <1>3, <1>4, <1>6, WordIsRead, Zenon
<1>8. splitCommand(m \o b) = Append(ws, w)
  <2> DEFINE x == f[m \o b]
  <2>1. x = Sp(ws, w, TRUE, None, FALSE)
    BY <1>7 DEF Reading
  <2>2. x.escape = FALSE /\ x.started = TRUE /\ x.words = ws /\ x.word = w
    BY <2>1 DEF Sp
  <2> HIDE DEF x
  <2>3. ~x.escape /\ x.started => splitCommand(m \o b) = Append(x.words, x.word)
    BY <1>1, <1>7 DEF x
  <2>4. QED
    BY <2>2, <2>3
<1>9. Append(ws, w) = <<v, w>>
  <2>1. \A x, y \in Pasted : Append(<<>>, x) = <<x>> /\ Append(<<x>>, y) = <<x, y>>
    <3> DEFINE T == Pasted
    <3> HIDE DEF T
    <3>1. ASSUME NEW x \in T, NEW y \in T PROVE Append(<<>>, x) = <<x>> /\ Append(<<x>>, y) = <<x, y>>
      <4>1. Append(<<>>, x) = <<x>>
        <5> DEFINE z == Append(<<>>, x)
        <5>1. z \in Seq(T) /\ Len(z) = 1 /\ z[1] = x
          OBVIOUS
        <5> HIDE DEF z
        <5>2. z = <<z[1]>>
          BY <5>1
        <5>3. QED
          BY <5>1, <5>2 DEF z
      <4>2. Append(<<x>>, y) = <<x, y>>
        <5> DEFINE z == Append(<<x>>, y)
        <5>1. z \in Seq(T) /\ Len(z) = 2 /\ z[1] = x /\ z[2] = y
          OBVIOUS
        <5> HIDE DEF z
        <5>2. z = <<z[1], z[2]>>
          BY <5>1
        <5>3. QED
          BY <5>1, <5>2 DEF z
      <4>3. QED
        BY <4>1, <4>2
    <3>2. QED
      BY <3>1 DEF T
  <2>2. QED
    BY <2>1, Zenon DEF ws
<1>10. QED
  BY <1>4, <1>8, <1>9

-----------------------------------------------------------------------------
WordsType == quoted \in Seq(Seq(Chars)) /\ Len(quoted) = 2

(* What is quoted for a shell is read back as it was: two words, whatever  *)
(* is in them, in either quoting (apiservice.cpp, splitCommand).           *)
THEOREM WordsComeBack == CurlSpec => []QuotingRoundTrips
<1> DEFINE Word == Seq(Chars)
<1>e. <<>> \in Word /\ \A x \in Word, c \in Chars : Append(x, c) \in Word
  OBVIOUS
<1>1. CurlInit => WordsType
  <2> SUFFICES ASSUME CurlInit PROVE quoted \in Seq(Word) /\ Len(quoted) = 2
    BY DEF WordsType
  <2> DEFINE e == <<>>
  <2>1. quoted = <<e, e>> /\ e \in Word
    BY <1>e DEF CurlInit
  <2> HIDE DEF e, Word
  <2>2. QED
    BY <2>1
<1>2. WordsType /\ [CurlNext]_curlVars => WordsType'
  <2> SUFFICES ASSUME WordsType, [CurlNext]_curlVars PROVE quoted' \in Seq(Word) /\ Len(quoted') = 2
    BY DEF WordsType
  <2>1. quoted \in Seq(Word) /\ Len(quoted) = 2
    BY DEF WordsType
  <2>2. CASE UNCHANGED quoted
    BY <2>1, <2>2
  <2>3. CASE TypeChar
    <3>1. PICK i \in {1, 2}, c \in Chars : quoted' = [quoted EXCEPT ![i] = Append(@, c)]
      BY <2>3 DEF TypeChar
    <3>2. quoted[i] \in Word
      <4>0. quoted \in Seq(Word) /\ Len(quoted) = 2
        BY <2>1
      <4>i. i = 1 \/ i = 2
        BY <3>1
      <4> HIDE DEF Word
      <4>1. quoted \in [1..2 -> Word] /\ i \in 1..2
        BY <4>0, <4>i, SeqIs, SMTT(60)
      <4>2. QED
        BY <4>1
    <3>3. Append(quoted[i], c) \in Word
      BY <1>e, <3>2
    <3> HIDE DEF Word
    <3>4. QED
      BY <2>1, <3>1, <3>3
  <2>4. QED
    BY <2>2, <2>3 DEF CurlNext, TypeOption, curlVars
<1>3. WordsType => QuotingRoundTrips
  <2> SUFFICES ASSUME WordsType PROVE QuotingRoundTrips
    OBVIOUS
  <2>1. quoted[1] \in Pasted /\ quoted[2] \in Pasted
    <3>1. quoted \in [1..2 -> Seq(Chars)] /\ Chars \subseteq Letters
      BY SeqIs DEF WordsType, Letters
    <3>2. quoted[1] \in Seq(Chars) /\ quoted[2] \in Seq(Chars)
      <4>1. quoted \in [1..2 -> Word]
        BY <3>1
      <4> HIDE DEF Word
      <4>2. quoted[1] \in Word /\ quoted[2] \in Word
        BY <4>1
      <4>3. QED
        BY <4>2 DEF Word
    <3>3. \A w \in Seq(Chars) : w \in Seq(Letters)
      BY <3>1
    <3>4. QED
      BY <3>2, <3>3 DEF Pasted
  <2>2. quoted = <<quoted[1], quoted[2]>>
    <3>1. quoted \in Seq(Word) /\ Len(quoted) = 2
      BY DEF WordsType
    <3> HIDE DEF Word
    <3>2. QED
      BY <3>1
  <2>3. \A a \in Quotings(quoted[1]), b \in Quotings(quoted[2]) : splitCommand(a \o <<SP, SP>> \o b) = quoted
    BY <2>1, <2>2, QuotedWordsReturn, Zenon
  <2>4. QED
    BY <2>3, Zenon DEF QuotingRoundTrips, Quotings
<1>4. QED
  BY <1>1, <1>2, <1>3, PTL DEF CurlSpec

-----------------------------------------------------------------------------
(* What importCurl knows between two words, and the ways it changes.       *)
Names == {NoText, "-", "http://a", "url", "request", "header", "data", "user", "output", "compressed",
          "location", "head", "get", "insecure", "http2", "X", "H", "d", "u", "o", "I", "G", "s",
          "PUT", "PATCH", "1", "2", "authorization", "content-type", "me", "file", "kS", "unknown", None}
Words == [kind : {"bare", "long", "short"}, name : Names, rest : Names, k : BOOLEAN]
Reqs == [method : Names, url : Names, body : Seq(Names), user : Names, headers : Seq(Names),
         head : BOOLEAN, get : BOOLEAN, insecure : BOOLEAN, waits : Names]

SetMethod(r, v) == [r EXCEPT !.method = v]
SetUrl(r, v) == [r EXCEPT !.url = IF @ = NoText THEN v ELSE @]
AddBody(r, v) == [r EXCEPT !.body = Append(@, v)]
SetUser(r, v) == [r EXCEPT !.user = v]
AddHeader(r, v) == [r EXCEPT !.headers = Append(@, v)]
SetHead(r) == [r EXCEPT !.head = TRUE]
SetGet(r) == [r EXCEPT !.get = TRUE]
SetInsecure(r) == [r EXCEPT !.insecure = TRUE]
OrInsecure(r, k) == [r EXCEPT !.insecure = @ \/ k]
SetWaits(r, v) == [r EXCEPT !.waits = v]

Is(s, method, url, body, user, headers, head, get, insecure, waits) ==
  /\ s \in Reqs
  /\ s.method = method /\ s.url = url /\ s.body = body /\ s.user = user /\ s.headers = headers
  /\ s.head = head /\ s.get = get /\ s.insecure = insecure /\ s.waits = waits

LEMMA ReqsEqual ==
  ASSUME NEW r \in Reqs, NEW s \in Reqs,
         Is(s, r.method, r.url, r.body, r.user, r.headers, r.head, r.get, r.insecure, r.waits)
  PROVE  r = s
<1>1. \A x \in Reqs : x = [method |-> x.method, url |-> x.url, body |-> x.body, user |-> x.user,
        headers |-> x.headers, head |-> x.head, get |-> x.get, insecure |-> x.insecure, waits |-> x.waits]
  BY DEF Reqs
<1>2. QED
  BY <1>1, Zenon DEF Is

LEMMA ReqFields ==
  ASSUME NEW r \in Reqs
  PROVE  /\ r.method \in Names /\ r.url \in Names /\ r.body \in Seq(Names) /\ r.user \in Names
         /\ r.headers \in Seq(Names) /\ r.head \in BOOLEAN /\ r.get \in BOOLEAN /\ r.insecure \in BOOLEAN
         /\ r.waits \in Names
BY DEF Reqs

LEMMA SetMethodIs ==
  ASSUME NEW r \in Reqs, NEW v \in Names
  PROVE  Is(SetMethod(r, v), v, r.url, r.body, r.user, r.headers, r.head, r.get, r.insecure, r.waits)
<1> DEFINE n == v
<1>1. n \in Names
  BY ReqFields
<1>2. SetMethod(r, v) = [r EXCEPT !.method = n]
  BY Zenon DEF SetMethod, Reqs
<1> HIDE DEF n
<1> DEFINE s == [r EXCEPT !.method = n]
<1>3. s \in Reqs
  BY <1>1, Zenon DEF Reqs
<1>4. s.method = n
  BY Zenon DEF Reqs
<1>5. s.url = r.url
  BY Zenon DEF Reqs
<1>6. s.body = r.body
  BY Zenon DEF Reqs
<1>7. s.user = r.user
  BY Zenon DEF Reqs
<1>8. s.headers = r.headers
  BY Zenon DEF Reqs
<1>9. s.head = r.head
  BY Zenon DEF Reqs
<1>10. s.get = r.get
  BY Zenon DEF Reqs
<1>11. s.insecure = r.insecure
  BY Zenon DEF Reqs
<1>12. s.waits = r.waits
  BY Zenon DEF Reqs
<1> HIDE DEF s
<1>13. Is(s, n, r.url, r.body, r.user, r.headers, r.head, r.get, r.insecure, r.waits)
  BY <1>3, <1>4, <1>5, <1>6, <1>7, <1>8, <1>9, <1>10, <1>11, <1>12, Zenon DEF Is
<1>14. QED
  BY <1>2, <1>13, Zenon DEF n, s

LEMMA SetUrlIs ==
  ASSUME NEW r \in Reqs, NEW v \in Names
  PROVE  Is(SetUrl(r, v), r.method, (IF r.url = NoText THEN v ELSE r.url), r.body, r.user, r.headers, r.head, r.get, r.insecure, r.waits)
<1> DEFINE n == IF r.url = NoText THEN v ELSE r.url
<1>1. n \in Names
  BY ReqFields
<1>2. SetUrl(r, v) = [r EXCEPT !.url = n]
  BY Zenon DEF SetUrl, Reqs
<1> HIDE DEF n
<1> DEFINE s == [r EXCEPT !.url = n]
<1>3. s \in Reqs
  BY <1>1, Zenon DEF Reqs
<1>4. s.method = r.method
  BY Zenon DEF Reqs
<1>5. s.url = n
  BY Zenon DEF Reqs
<1>6. s.body = r.body
  BY Zenon DEF Reqs
<1>7. s.user = r.user
  BY Zenon DEF Reqs
<1>8. s.headers = r.headers
  BY Zenon DEF Reqs
<1>9. s.head = r.head
  BY Zenon DEF Reqs
<1>10. s.get = r.get
  BY Zenon DEF Reqs
<1>11. s.insecure = r.insecure
  BY Zenon DEF Reqs
<1>12. s.waits = r.waits
  BY Zenon DEF Reqs
<1> HIDE DEF s
<1>13. Is(s, r.method, n, r.body, r.user, r.headers, r.head, r.get, r.insecure, r.waits)
  BY <1>3, <1>4, <1>5, <1>6, <1>7, <1>8, <1>9, <1>10, <1>11, <1>12, Zenon DEF Is
<1>14. QED
  BY <1>2, <1>13, Zenon DEF n, s

LEMMA AddBodyIs ==
  ASSUME NEW r \in Reqs, NEW v \in Names
  PROVE  Is(AddBody(r, v), r.method, r.url, (Append(r.body, v)), r.user, r.headers, r.head, r.get, r.insecure, r.waits)
<1> DEFINE n == Append(r.body, v)
<1>1. n \in Seq(Names)
  BY ReqFields
<1>2. AddBody(r, v) = [r EXCEPT !.body = n]
  BY Zenon DEF AddBody, Reqs
<1> HIDE DEF n
<1> DEFINE s == [r EXCEPT !.body = n]
<1>3. s \in Reqs
  BY <1>1, Zenon DEF Reqs
<1>4. s.method = r.method
  BY Zenon DEF Reqs
<1>5. s.url = r.url
  BY Zenon DEF Reqs
<1>6. s.body = n
  BY Zenon DEF Reqs
<1>7. s.user = r.user
  BY Zenon DEF Reqs
<1>8. s.headers = r.headers
  BY Zenon DEF Reqs
<1>9. s.head = r.head
  BY Zenon DEF Reqs
<1>10. s.get = r.get
  BY Zenon DEF Reqs
<1>11. s.insecure = r.insecure
  BY Zenon DEF Reqs
<1>12. s.waits = r.waits
  BY Zenon DEF Reqs
<1> HIDE DEF s
<1>13. Is(s, r.method, r.url, n, r.user, r.headers, r.head, r.get, r.insecure, r.waits)
  BY <1>3, <1>4, <1>5, <1>6, <1>7, <1>8, <1>9, <1>10, <1>11, <1>12, Zenon DEF Is
<1>14. QED
  BY <1>2, <1>13, Zenon DEF n, s

LEMMA SetUserIs ==
  ASSUME NEW r \in Reqs, NEW v \in Names
  PROVE  Is(SetUser(r, v), r.method, r.url, r.body, v, r.headers, r.head, r.get, r.insecure, r.waits)
<1> DEFINE n == v
<1>1. n \in Names
  BY ReqFields
<1>2. SetUser(r, v) = [r EXCEPT !.user = n]
  BY Zenon DEF SetUser, Reqs
<1> HIDE DEF n
<1> DEFINE s == [r EXCEPT !.user = n]
<1>3. s \in Reqs
  BY <1>1, Zenon DEF Reqs
<1>4. s.method = r.method
  BY Zenon DEF Reqs
<1>5. s.url = r.url
  BY Zenon DEF Reqs
<1>6. s.body = r.body
  BY Zenon DEF Reqs
<1>7. s.user = n
  BY Zenon DEF Reqs
<1>8. s.headers = r.headers
  BY Zenon DEF Reqs
<1>9. s.head = r.head
  BY Zenon DEF Reqs
<1>10. s.get = r.get
  BY Zenon DEF Reqs
<1>11. s.insecure = r.insecure
  BY Zenon DEF Reqs
<1>12. s.waits = r.waits
  BY Zenon DEF Reqs
<1> HIDE DEF s
<1>13. Is(s, r.method, r.url, r.body, n, r.headers, r.head, r.get, r.insecure, r.waits)
  BY <1>3, <1>4, <1>5, <1>6, <1>7, <1>8, <1>9, <1>10, <1>11, <1>12, Zenon DEF Is
<1>14. QED
  BY <1>2, <1>13, Zenon DEF n, s

LEMMA AddHeaderIs ==
  ASSUME NEW r \in Reqs, NEW v \in Names
  PROVE  Is(AddHeader(r, v), r.method, r.url, r.body, r.user, (Append(r.headers, v)), r.head, r.get, r.insecure, r.waits)
<1> DEFINE n == Append(r.headers, v)
<1>1. n \in Seq(Names)
  BY ReqFields
<1>2. AddHeader(r, v) = [r EXCEPT !.headers = n]
  BY Zenon DEF AddHeader, Reqs
<1> HIDE DEF n
<1> DEFINE s == [r EXCEPT !.headers = n]
<1>3. s \in Reqs
  BY <1>1, Zenon DEF Reqs
<1>4. s.method = r.method
  BY Zenon DEF Reqs
<1>5. s.url = r.url
  BY Zenon DEF Reqs
<1>6. s.body = r.body
  BY Zenon DEF Reqs
<1>7. s.user = r.user
  BY Zenon DEF Reqs
<1>8. s.headers = n
  BY Zenon DEF Reqs
<1>9. s.head = r.head
  BY Zenon DEF Reqs
<1>10. s.get = r.get
  BY Zenon DEF Reqs
<1>11. s.insecure = r.insecure
  BY Zenon DEF Reqs
<1>12. s.waits = r.waits
  BY Zenon DEF Reqs
<1> HIDE DEF s
<1>13. Is(s, r.method, r.url, r.body, r.user, n, r.head, r.get, r.insecure, r.waits)
  BY <1>3, <1>4, <1>5, <1>6, <1>7, <1>8, <1>9, <1>10, <1>11, <1>12, Zenon DEF Is
<1>14. QED
  BY <1>2, <1>13, Zenon DEF n, s

LEMMA SetHeadIs ==
  ASSUME NEW r \in Reqs
  PROVE  Is(SetHead(r), r.method, r.url, r.body, r.user, r.headers, TRUE, r.get, r.insecure, r.waits)
<1> DEFINE n == TRUE
<1>1. n \in BOOLEAN
  BY ReqFields
<1>2. SetHead(r) = [r EXCEPT !.head = n]
  BY Zenon DEF SetHead, Reqs
<1> HIDE DEF n
<1> DEFINE s == [r EXCEPT !.head = n]
<1>3. s \in Reqs
  BY <1>1, Zenon DEF Reqs
<1>4. s.method = r.method
  BY Zenon DEF Reqs
<1>5. s.url = r.url
  BY Zenon DEF Reqs
<1>6. s.body = r.body
  BY Zenon DEF Reqs
<1>7. s.user = r.user
  BY Zenon DEF Reqs
<1>8. s.headers = r.headers
  BY Zenon DEF Reqs
<1>9. s.head = n
  BY Zenon DEF Reqs
<1>10. s.get = r.get
  BY Zenon DEF Reqs
<1>11. s.insecure = r.insecure
  BY Zenon DEF Reqs
<1>12. s.waits = r.waits
  BY Zenon DEF Reqs
<1> HIDE DEF s
<1>13. Is(s, r.method, r.url, r.body, r.user, r.headers, n, r.get, r.insecure, r.waits)
  BY <1>3, <1>4, <1>5, <1>6, <1>7, <1>8, <1>9, <1>10, <1>11, <1>12, Zenon DEF Is
<1>14. QED
  BY <1>2, <1>13, Zenon DEF n, s

LEMMA SetGetIs ==
  ASSUME NEW r \in Reqs
  PROVE  Is(SetGet(r), r.method, r.url, r.body, r.user, r.headers, r.head, TRUE, r.insecure, r.waits)
<1> DEFINE n == TRUE
<1>1. n \in BOOLEAN
  BY ReqFields
<1>2. SetGet(r) = [r EXCEPT !.get = n]
  BY Zenon DEF SetGet, Reqs
<1> HIDE DEF n
<1> DEFINE s == [r EXCEPT !.get = n]
<1>3. s \in Reqs
  BY <1>1, Zenon DEF Reqs
<1>4. s.method = r.method
  BY Zenon DEF Reqs
<1>5. s.url = r.url
  BY Zenon DEF Reqs
<1>6. s.body = r.body
  BY Zenon DEF Reqs
<1>7. s.user = r.user
  BY Zenon DEF Reqs
<1>8. s.headers = r.headers
  BY Zenon DEF Reqs
<1>9. s.head = r.head
  BY Zenon DEF Reqs
<1>10. s.get = n
  BY Zenon DEF Reqs
<1>11. s.insecure = r.insecure
  BY Zenon DEF Reqs
<1>12. s.waits = r.waits
  BY Zenon DEF Reqs
<1> HIDE DEF s
<1>13. Is(s, r.method, r.url, r.body, r.user, r.headers, r.head, n, r.insecure, r.waits)
  BY <1>3, <1>4, <1>5, <1>6, <1>7, <1>8, <1>9, <1>10, <1>11, <1>12, Zenon DEF Is
<1>14. QED
  BY <1>2, <1>13, Zenon DEF n, s

LEMMA SetInsecureIs ==
  ASSUME NEW r \in Reqs
  PROVE  Is(SetInsecure(r), r.method, r.url, r.body, r.user, r.headers, r.head, r.get, TRUE, r.waits)
<1> DEFINE n == TRUE
<1>1. n \in BOOLEAN
  BY ReqFields
<1>2. SetInsecure(r) = [r EXCEPT !.insecure = n]
  BY Zenon DEF SetInsecure, Reqs
<1> HIDE DEF n
<1> DEFINE s == [r EXCEPT !.insecure = n]
<1>3. s \in Reqs
  BY <1>1, Zenon DEF Reqs
<1>4. s.method = r.method
  BY Zenon DEF Reqs
<1>5. s.url = r.url
  BY Zenon DEF Reqs
<1>6. s.body = r.body
  BY Zenon DEF Reqs
<1>7. s.user = r.user
  BY Zenon DEF Reqs
<1>8. s.headers = r.headers
  BY Zenon DEF Reqs
<1>9. s.head = r.head
  BY Zenon DEF Reqs
<1>10. s.get = r.get
  BY Zenon DEF Reqs
<1>11. s.insecure = n
  BY Zenon DEF Reqs
<1>12. s.waits = r.waits
  BY Zenon DEF Reqs
<1> HIDE DEF s
<1>13. Is(s, r.method, r.url, r.body, r.user, r.headers, r.head, r.get, n, r.waits)
  BY <1>3, <1>4, <1>5, <1>6, <1>7, <1>8, <1>9, <1>10, <1>11, <1>12, Zenon DEF Is
<1>14. QED
  BY <1>2, <1>13, Zenon DEF n, s

LEMMA OrInsecureIs ==
  ASSUME NEW r \in Reqs, NEW v \in BOOLEAN
  PROVE  Is(OrInsecure(r, v), r.method, r.url, r.body, r.user, r.headers, r.head, r.get, (r.insecure \/ v), r.waits)
<1> DEFINE n == r.insecure \/ v
<1>1. n \in BOOLEAN
  BY ReqFields
<1>2. OrInsecure(r, v) = [r EXCEPT !.insecure = n]
  BY Zenon DEF OrInsecure, Reqs
<1> HIDE DEF n
<1> DEFINE s == [r EXCEPT !.insecure = n]
<1>3. s \in Reqs
  BY <1>1, Zenon DEF Reqs
<1>4. s.method = r.method
  BY Zenon DEF Reqs
<1>5. s.url = r.url
  BY Zenon DEF Reqs
<1>6. s.body = r.body
  BY Zenon DEF Reqs
<1>7. s.user = r.user
  BY Zenon DEF Reqs
<1>8. s.headers = r.headers
  BY Zenon DEF Reqs
<1>9. s.head = r.head
  BY Zenon DEF Reqs
<1>10. s.get = r.get
  BY Zenon DEF Reqs
<1>11. s.insecure = n
  BY Zenon DEF Reqs
<1>12. s.waits = r.waits
  BY Zenon DEF Reqs
<1> HIDE DEF s
<1>13. Is(s, r.method, r.url, r.body, r.user, r.headers, r.head, r.get, n, r.waits)
  BY <1>3, <1>4, <1>5, <1>6, <1>7, <1>8, <1>9, <1>10, <1>11, <1>12, Zenon DEF Is
<1>14. QED
  BY <1>2, <1>13, Zenon DEF n, s

LEMMA SetWaitsIs ==
  ASSUME NEW r \in Reqs, NEW v \in Names
  PROVE  Is(SetWaits(r, v), r.method, r.url, r.body, r.user, r.headers, r.head, r.get, r.insecure, v)
<1> DEFINE n == v
<1>1. n \in Names
  BY ReqFields
<1>2. SetWaits(r, v) = [r EXCEPT !.waits = n]
  BY Zenon DEF SetWaits, Reqs
<1> HIDE DEF n
<1> DEFINE s == [r EXCEPT !.waits = n]
<1>3. s \in Reqs
  BY <1>1, Zenon DEF Reqs
<1>4. s.method = r.method
  BY Zenon DEF Reqs
<1>5. s.url = r.url
  BY Zenon DEF Reqs
<1>6. s.body = r.body
  BY Zenon DEF Reqs
<1>7. s.user = r.user
  BY Zenon DEF Reqs
<1>8. s.headers = r.headers
  BY Zenon DEF Reqs
<1>9. s.head = r.head
  BY Zenon DEF Reqs
<1>10. s.get = r.get
  BY Zenon DEF Reqs
<1>11. s.insecure = r.insecure
  BY Zenon DEF Reqs
<1>12. s.waits = n
  BY Zenon DEF Reqs
<1> HIDE DEF s
<1>13. Is(s, r.method, r.url, r.body, r.user, r.headers, r.head, r.get, r.insecure, n)
  BY <1>3, <1>4, <1>5, <1>6, <1>7, <1>8, <1>9, <1>10, <1>11, <1>12, Zenon DEF Is
<1>14. QED
  BY <1>2, <1>13, Zenon DEF n, s

-----------------------------------------------------------------------------
LEMMA ApplyIs ==
  ASSUME NEW r, NEW flag, NEW v
  PROVE  applyCurlValue(r, flag, v) =
           IF flag \in {"X", "request"} THEN SetMethod(r, v)
           ELSE IF flag \in {"H", "header"} THEN AddHeader(r, v)
           ELSE IF flag \in {"d", "data"} THEN AddBody(r, v)
           ELSE IF flag \in {"u", "user"} THEN SetUser(r, v)
           ELSE IF flag = "url" THEN SetUrl(r, v)
           ELSE r
BY Zenon DEF applyCurlValue, SetMethod, AddHeader, AddBody, SetUser, SetUrl

LEMMA LongIs ==
  ASSUME NEW r, NEW w
  PROVE  LongFlag(r, w) =
           IF w.name = "head" THEN SetHead(r)
           ELSE IF w.name = "get" THEN SetGet(r)
           ELSE IF w.name = "insecure" THEN SetInsecure(r)
           ELSE IF w.name \in {"compressed", "location"} THEN r
           ELSE IF w.name \in {"url", "request", "header", "data", "user", "output"}
                  THEN IF w.rest = NoText THEN SetWaits(r, w.name) ELSE applyCurlValue(r, w.name, w.rest)
           ELSE IF w.rest = NoText THEN SetWaits(r, "unknown") ELSE r
BY Zenon DEF LongFlag, SetHead, SetGet, SetInsecure, SetWaits, kLongBoolFlags, kLongValueFlags

LEMMA ShortIs ==
  ASSUME NEW r, NEW w
  PROVE  ShortFlag(r, w) =
           IF w.name = "I" THEN SetHead(r)
           ELSE IF w.name = "G" THEN SetGet(r)
           ELSE IF w.name \in {"X", "H", "d", "u", "o"}
                  THEN IF w.rest = NoText THEN SetWaits(r, w.name) ELSE applyCurlValue(r, w.name, w.rest)
           ELSE OrInsecure(r, w.k)
BY Zenon DEF ShortFlag, SetHead, SetGet, SetWaits, OrInsecure, kShortValueFlags

LEMMA KindIs ==
  ASSUME NEW o
  PROVE  Kind(o) = IF o[1].name \in {"X", "request"} THEN "method"
                   ELSE IF o[1].name \in {"d", "data"} THEN "body"
                   ELSE IF o[1].name \in {"H", "header"} THEN "header"
                   ELSE "other"
BY Zenon DEF Kind

LEMMA WordIs ==
  ASSUME NEW r, NEW w
  PROVE  ImportWord(r, w) =
           IF r.waits = "unknown" /\ ~Dash(w) THEN SetWaits(r, None)
           ELSE IF r.waits \notin {None, "unknown"} THEN applyCurlValue(SetWaits(r, None), r.waits, w.name)
           ELSE IF w.kind = "bare" /\ w.name = "-" THEN SetWaits(r, None)
           ELSE IF w.kind = "long" THEN LongFlag(SetWaits(r, None), w)
           ELSE IF w.kind = "short" THEN ShortFlag(SetWaits(r, None), w)
           ELSE SetUrl(SetWaits(r, None), w.name)
BY Zenon DEF ImportWord, SetWaits, SetUrl

LEMMA SetsStay ==
  ASSUME NEW r \in Reqs, NEW v \in Names, NEW b \in BOOLEAN
  PROVE  /\ SetMethod(r, v) \in Reqs /\ SetUrl(r, v) \in Reqs /\ AddBody(r, v) \in Reqs /\ SetUser(r, v) \in Reqs
         /\ AddHeader(r, v) \in Reqs /\ SetHead(r) \in Reqs /\ SetGet(r) \in Reqs /\ SetInsecure(r) \in Reqs
         /\ OrInsecure(r, b) \in Reqs /\ SetWaits(r, v) \in Reqs
<1>1. SetMethod(r, v) \in Reqs /\ SetUrl(r, v) \in Reqs /\ AddBody(r, v) \in Reqs
  BY SetMethodIs, SetUrlIs, AddBodyIs, Zenon DEF Is
<1>2. SetUser(r, v) \in Reqs /\ AddHeader(r, v) \in Reqs /\ SetWaits(r, v) \in Reqs
  BY SetUserIs, AddHeaderIs, SetWaitsIs, Zenon DEF Is
<1>3. SetHead(r) \in Reqs /\ SetGet(r) \in Reqs /\ SetInsecure(r) \in Reqs /\ OrInsecure(r, b) \in Reqs
  BY SetHeadIs, SetGetIs, SetInsecureIs, OrInsecureIs, Zenon DEF Is
<1>4. QED
  BY <1>1, <1>2, <1>3

LEMMA ApplyStays ==
  ASSUME NEW r \in Reqs, NEW flag \in Names, NEW v \in Names
  PROVE  applyCurlValue(r, flag, v) \in Reqs
BY ApplyIs, SetsStay

LEMMA WordStays ==
  ASSUME NEW r \in Reqs, NEW w \in Words
  PROVE  ImportWord(r, w) \in Reqs
<1> DEFINE go == SetWaits(r, None)
<1>0. /\ w.kind \in {"bare", "long", "short"} /\ w.name \in Names /\ w.rest \in Names /\ w.k \in BOOLEAN
      /\ r.waits \in Names /\ None \in Names /\ "unknown" \in Names
  BY DEF Words, Reqs, Names
<1>1. go \in Reqs
  BY <1>0, SetsStay
<1> HIDE DEF go
<1>2. LongFlag(go, w) \in Reqs
  <2>1. applyCurlValue(go, w.name, w.rest) \in Reqs
    BY <1>0, <1>1, ApplyStays
  <2>2. /\ SetHead(go) \in Reqs /\ SetGet(go) \in Reqs /\ SetInsecure(go) \in Reqs
        /\ SetWaits(go, w.name) \in Reqs /\ SetWaits(go, "unknown") \in Reqs
    BY <1>0, <1>1, SetsStay
  <2>3. QED
    BY <1>1, <2>1, <2>2, LongIs
<1>3. ShortFlag(go, w) \in Reqs
  <2>1. applyCurlValue(go, w.name, w.rest) \in Reqs
    BY <1>0, <1>1, ApplyStays
  <2>2. SetHead(go) \in Reqs /\ SetGet(go) \in Reqs /\ OrInsecure(go, w.k) \in Reqs /\ SetWaits(go, w.name) \in Reqs
    BY <1>0, <1>1, SetsStay
  <2>3. QED
    BY <1>1, <2>1, <2>2, ShortIs
<1>4. applyCurlValue(go, r.waits, w.name) \in Reqs /\ SetUrl(go, w.name) \in Reqs
  BY <1>0, <1>1, ApplyStays, SetsStay
<1>5. ImportWord(r, w) \in {go, LongFlag(go, w), ShortFlag(go, w), applyCurlValue(go, r.waits, w.name), SetUrl(go, w.name)}
  BY WordIs, Zenon DEF go
<1>6. QED
  BY <1>1, <1>2, <1>3, <1>4, <1>5

-----------------------------------------------------------------------------
(* The options of a command, each as the words it is made of.              *)
Told(w, kind, name, rest, k) ==
  w \in Words /\ w.kind = kind /\ w.name = name /\ w.rest = rest /\ w.k = k
One(o, kind, name, rest, k) == o = <<o[1]>> /\ Len(o) = 1 /\ Told(o[1], kind, name, rest, k)
Two(o, kind, name, v) ==
  o = <<o[1], o[2]>> /\ Len(o) = 2 /\ Told(o[1], kind, name, NoText, FALSE) /\ Told(o[2], "bare", v, NoText, FALSE)

LEMMA WordsTold ==
  ASSUME NEW name \in Names, NEW rest \in Names, NEW k \in BOOLEAN
  PROVE  /\ Told(Long(name, rest), "long", name, rest, FALSE)
         /\ Told(Short(name, rest, k), "short", name, rest, k)
         /\ Told(Bare(name), "bare", name, NoText, FALSE)
<1>1. NoText \in Names
  BY DEF Names
<1>2. QED
  BY <1>1 DEF Told, Long, Short, Bare, Words

LEMMA OptionTable ==
  ASSUME NEW o \in Options
  PROVE  \/ One(o, "bare", "http://a", NoText, FALSE)
         \/ Two(o, "long", "url", "http://a")
         \/ One(o, "bare", "-", NoText, FALSE)
         \/ Two(o, "short", "X", "PUT")
         \/ One(o, "long", "request", "PATCH", FALSE)
         \/ Two(o, "short", "d", "1")
         \/ One(o, "long", "data", "2", FALSE)
         \/ One(o, "short", "H", "authorization", FALSE)
         \/ Two(o, "long", "header", "content-type")
         \/ Two(o, "short", "u", "me")
         \/ Two(o, "short", "o", "file")
         \/ One(o, "short", "s", "kS", TRUE)
         \/ One(o, "long", "insecure", NoText, FALSE)
         \/ One(o, "long", "compressed", NoText, FALSE)
         \/ One(o, "short", "I", NoText, FALSE)
         \/ One(o, "long", "get", NoText, FALSE)
         \/ One(o, "long", "http2", NoText, FALSE)
<1>1. CASE o = <<Bare("http://a")>>
  <2>1. "http://a" \in Names /\ NoText \in Names
    BY DEF Names
  <2>2. Told(Bare("http://a"), "bare", "http://a", NoText, FALSE)
    BY <2>1, WordsTold
  <2>3. o[1] = Bare("http://a") /\ Len(o) = 1
    BY <1>1
  <2>4. QED
    BY <1>1, <2>2, <2>3, Zenon DEF One
<1>2. CASE o = <<Long("url", NoText), Bare("http://a")>>
  <2>1. "url" \in Names /\ NoText \in Names /\ "http://a" \in Names
    BY DEF Names
  <2>2. Told(Long("url", NoText), "long", "url", NoText, FALSE) /\ Told(Bare("http://a"), "bare", "http://a", NoText, FALSE)
    BY <2>1, WordsTold
  <2>3. o[1] = Long("url", NoText) /\ o[2] = Bare("http://a") /\ Len(o) = 2
    BY <1>2
  <2>4. QED
    BY <1>2, <2>2, <2>3, Zenon DEF Two
<1>3. CASE o = <<Bare("-")>>
  <2>1. "-" \in Names /\ NoText \in Names
    BY DEF Names
  <2>2. Told(Bare("-"), "bare", "-", NoText, FALSE)
    BY <2>1, WordsTold
  <2>3. o[1] = Bare("-") /\ Len(o) = 1
    BY <1>3
  <2>4. QED
    BY <1>3, <2>2, <2>3, Zenon DEF One
<1>4. CASE o = <<Short("X", NoText, FALSE), Bare("PUT")>>
  <2>1. "X" \in Names /\ NoText \in Names /\ "PUT" \in Names
    BY DEF Names
  <2>2. Told(Short("X", NoText, FALSE), "short", "X", NoText, FALSE) /\ Told(Bare("PUT"), "bare", "PUT", NoText, FALSE)
    BY <2>1, WordsTold
  <2>3. o[1] = Short("X", NoText, FALSE) /\ o[2] = Bare("PUT") /\ Len(o) = 2
    BY <1>4
  <2>4. QED
    BY <1>4, <2>2, <2>3, Zenon DEF Two
<1>5. CASE o = <<Long("request", "PATCH")>>
  <2>1. "request" \in Names /\ "PATCH" \in Names
    BY DEF Names
  <2>2. Told(Long("request", "PATCH"), "long", "request", "PATCH", FALSE)
    BY <2>1, WordsTold
  <2>3. o[1] = Long("request", "PATCH") /\ Len(o) = 1
    BY <1>5
  <2>4. QED
    BY <1>5, <2>2, <2>3, Zenon DEF One
<1>6. CASE o = <<Short("d", NoText, FALSE), Bare("1")>>
  <2>1. "d" \in Names /\ NoText \in Names /\ "1" \in Names
    BY DEF Names
  <2>2. Told(Short("d", NoText, FALSE), "short", "d", NoText, FALSE) /\ Told(Bare("1"), "bare", "1", NoText, FALSE)
    BY <2>1, WordsTold
  <2>3. o[1] = Short("d", NoText, FALSE) /\ o[2] = Bare("1") /\ Len(o) = 2
    BY <1>6
  <2>4. QED
    BY <1>6, <2>2, <2>3, Zenon DEF Two
<1>7. CASE o = <<Long("data", "2")>>
  <2>1. "data" \in Names /\ "2" \in Names
    BY DEF Names
  <2>2. Told(Long("data", "2"), "long", "data", "2", FALSE)
    BY <2>1, WordsTold
  <2>3. o[1] = Long("data", "2") /\ Len(o) = 1
    BY <1>7
  <2>4. QED
    BY <1>7, <2>2, <2>3, Zenon DEF One
<1>8. CASE o = <<Short("H", "authorization", FALSE)>>
  <2>1. "H" \in Names /\ "authorization" \in Names
    BY DEF Names
  <2>2. Told(Short("H", "authorization", FALSE), "short", "H", "authorization", FALSE)
    BY <2>1, WordsTold
  <2>3. o[1] = Short("H", "authorization", FALSE) /\ Len(o) = 1
    BY <1>8
  <2>4. QED
    BY <1>8, <2>2, <2>3, Zenon DEF One
<1>9. CASE o = <<Long("header", NoText), Bare("content-type")>>
  <2>1. "header" \in Names /\ NoText \in Names /\ "content-type" \in Names
    BY DEF Names
  <2>2. Told(Long("header", NoText), "long", "header", NoText, FALSE) /\ Told(Bare("content-type"), "bare", "content-type", NoText, FALSE)
    BY <2>1, WordsTold
  <2>3. o[1] = Long("header", NoText) /\ o[2] = Bare("content-type") /\ Len(o) = 2
    BY <1>9
  <2>4. QED
    BY <1>9, <2>2, <2>3, Zenon DEF Two
<1>10. CASE o = <<Short("u", NoText, FALSE), Bare("me")>>
  <2>1. "u" \in Names /\ NoText \in Names /\ "me" \in Names
    BY DEF Names
  <2>2. Told(Short("u", NoText, FALSE), "short", "u", NoText, FALSE) /\ Told(Bare("me"), "bare", "me", NoText, FALSE)
    BY <2>1, WordsTold
  <2>3. o[1] = Short("u", NoText, FALSE) /\ o[2] = Bare("me") /\ Len(o) = 2
    BY <1>10
  <2>4. QED
    BY <1>10, <2>2, <2>3, Zenon DEF Two
<1>11. CASE o = <<Short("o", NoText, FALSE), Bare("file")>>
  <2>1. "o" \in Names /\ NoText \in Names /\ "file" \in Names
    BY DEF Names
  <2>2. Told(Short("o", NoText, FALSE), "short", "o", NoText, FALSE) /\ Told(Bare("file"), "bare", "file", NoText, FALSE)
    BY <2>1, WordsTold
  <2>3. o[1] = Short("o", NoText, FALSE) /\ o[2] = Bare("file") /\ Len(o) = 2
    BY <1>11
  <2>4. QED
    BY <1>11, <2>2, <2>3, Zenon DEF Two
<1>12. CASE o = <<Short("s", "kS", TRUE)>>
  <2>1. "s" \in Names /\ "kS" \in Names
    BY DEF Names
  <2>2. Told(Short("s", "kS", TRUE), "short", "s", "kS", TRUE)
    BY <2>1, WordsTold
  <2>3. o[1] = Short("s", "kS", TRUE) /\ Len(o) = 1
    BY <1>12
  <2>4. QED
    BY <1>12, <2>2, <2>3, Zenon DEF One
<1>13. CASE o = <<Long("insecure", NoText)>>
  <2>1. "insecure" \in Names /\ NoText \in Names
    BY DEF Names
  <2>2. Told(Long("insecure", NoText), "long", "insecure", NoText, FALSE)
    BY <2>1, WordsTold
  <2>3. o[1] = Long("insecure", NoText) /\ Len(o) = 1
    BY <1>13
  <2>4. QED
    BY <1>13, <2>2, <2>3, Zenon DEF One
<1>14. CASE o = <<Long("compressed", NoText)>>
  <2>1. "compressed" \in Names /\ NoText \in Names
    BY DEF Names
  <2>2. Told(Long("compressed", NoText), "long", "compressed", NoText, FALSE)
    BY <2>1, WordsTold
  <2>3. o[1] = Long("compressed", NoText) /\ Len(o) = 1
    BY <1>14
  <2>4. QED
    BY <1>14, <2>2, <2>3, Zenon DEF One
<1>15. CASE o = <<Short("I", NoText, FALSE)>>
  <2>1. "I" \in Names /\ NoText \in Names
    BY DEF Names
  <2>2. Told(Short("I", NoText, FALSE), "short", "I", NoText, FALSE)
    BY <2>1, WordsTold
  <2>3. o[1] = Short("I", NoText, FALSE) /\ Len(o) = 1
    BY <1>15
  <2>4. QED
    BY <1>15, <2>2, <2>3, Zenon DEF One
<1>16. CASE o = <<Long("get", NoText)>>
  <2>1. "get" \in Names /\ NoText \in Names
    BY DEF Names
  <2>2. Told(Long("get", NoText), "long", "get", NoText, FALSE)
    BY <2>1, WordsTold
  <2>3. o[1] = Long("get", NoText) /\ Len(o) = 1
    BY <1>16
  <2>4. QED
    BY <1>16, <2>2, <2>3, Zenon DEF One
<1>17. CASE o = <<Long("http2", NoText)>>
  <2>1. "http2" \in Names /\ NoText \in Names
    BY DEF Names
  <2>2. Told(Long("http2", NoText), "long", "http2", NoText, FALSE)
    BY <2>1, WordsTold
  <2>3. o[1] = Long("http2", NoText) /\ Len(o) = 1
    BY <1>17
  <2>4. QED
    BY <1>17, <2>2, <2>3, Zenon DEF One
<1>18. QED
  BY <1>1, <1>2, <1>3, <1>4, <1>5, <1>6, <1>7, <1>8, <1>9, <1>10, <1>11, <1>12, <1>13, <1>14, <1>15, <1>16, <1>17, Zenon DEF Options

-----------------------------------------------------------------------------
(* What an option asks for, and what it does to the request.               *)
MethodOf(o) == IF Kind(o) = "method" THEN Value(o) ELSE NoText
UrlOf(o) == IF o[1].name \in {"url", "http://a"} THEN "http://a" ELSE NoText
DataOf(o) == IF Kind(o) = "body" THEN <<Value(o)>> ELSE <<>>
UserOf(o) == IF o[1].name = "u" THEN "me" ELSE NoText
HeaderOf(o) == IF Kind(o) = "header" THEN <<Value(o)>> ELSE <<>>
Insecure(o) == o[1].k \/ o[1].name = "insecure"

Does(r, o) == IF Len(o) = 2 THEN ImportWord(ImportWord(r, o[1]), o[2]) ELSE ImportWord(r, o[1])
Idle(r) == r \in Reqs /\ r.waits \in {None, "unknown"}

Effect(r, o, s) ==
  /\ s \in Reqs
  /\ s.method = (IF MethodOf(o) = NoText THEN r.method ELSE MethodOf(o))
  /\ s.url = (IF r.url = NoText THEN UrlOf(o) ELSE r.url)
  /\ s.body = r.body \o DataOf(o)
  /\ s.user = (IF UserOf(o) = NoText THEN r.user ELSE UserOf(o))
  /\ s.headers = r.headers \o HeaderOf(o)
  /\ s.head <=> (r.head \/ o[1].name = "I")
  /\ s.get <=> (r.get \/ o[1].name = "get")
  /\ s.insecure <=> (r.insecure \/ Insecure(o))
  /\ s.waits = (IF Unknown(o) THEN "unknown" ELSE None)

LEMMA Blanks ==
  /\ NoText \notin {"-", "http://a", "url", "request", "header", "data", "user", "output", "compressed",
                   "location", "head", "get", "insecure", "http2", "X", "H", "d", "u", "o", "I", "G", "s",
                   "PUT", "PATCH", "1", "2", "authorization", "content-type", "me", "file", "kS", "unknown"}
  /\ NoText # None
BY Zenon DEF NoText, None

LEMMA FirstWord ==
  ASSUME NEW r, Idle(r), NEW w, r.waits = None \/ Dash(w)
  PROVE  /\ ImportWord(r, w) =
              IF w.kind = "bare" /\ w.name = "-" THEN SetWaits(r, None)
              ELSE IF w.kind = "long" THEN LongFlag(SetWaits(r, None), w)
              ELSE IF w.kind = "short" THEN ShortFlag(SetWaits(r, None), w)
              ELSE SetUrl(SetWaits(r, None), w.name)
         /\ Is(SetWaits(r, None), r.method, r.url, r.body, r.user, r.headers, r.head, r.get, r.insecure, None)
<1>1. "unknown" # None /\ None \in Names
  BY DEF None, Names
<1>2. QED
  BY <1>1, WordIs, SetWaitsIs DEF Idle

LEMMA NextWord ==
  ASSUME NEW g \in Reqs, NEW flag \in Names \ {None, "unknown"}, NEW w
  PROVE  /\ ImportWord(SetWaits(g, flag), w) = applyCurlValue(SetWaits(SetWaits(g, flag), None), flag, w.name)
         /\ Is(SetWaits(SetWaits(g, flag), None), g.method, g.url, g.body, g.user, g.headers, g.head, g.get, g.insecure, None)
<1> DEFINE x == SetWaits(g, flag)
<1>0. None \in Names
  BY DEF None, Names
<1>1. Is(x, g.method, g.url, g.body, g.user, g.headers, g.head, g.get, g.insecure, flag)
  BY SetWaitsIs
<1> HIDE DEF x
<1>2. x \in Reqs /\ x.waits = flag
  BY <1>1 DEF Is
<1>3. ImportWord(x, w) = applyCurlValue(SetWaits(x, None), flag, w.name)
  BY <1>2, WordIs
<1>4. Is(SetWaits(x, None), x.method, x.url, x.body, x.user, x.headers, x.head, x.get, x.insecure, None)
  BY <1>0, <1>2, SetWaitsIs
<1>5. QED
  BY <1>1, <1>3, <1>4 DEF Is, x

LEMMA NothingAdded ==
  ASSUME NEW b \in Seq(Names)
  PROVE  b \o <<>> = b /\ \A v \in Names : Append(b, v) = b \o <<v>>
OBVIOUS

LEMMA DoesUrl ==
  ASSUME NEW r, Idle(r), NEW o, One(o, "bare", "http://a", NoText, FALSE), r.waits = None \/ Dash(o[1])
  PROVE  Effect(r, o, Does(r, o))
<1> DEFINE g == SetWaits(r, None)
<1>0. /\ r \in Reqs /\ r.body \in Seq(Names) /\ r.headers \in Seq(Names)
      /\ Len(o) = 1 /\ o[1].kind = "bare" /\ o[1].name = "http://a" /\ o[1].rest = NoText /\ o[1].k = FALSE
  BY ReqFields DEF Idle, One, Told
<1>1. Is(g, r.method, r.url, r.body, r.user, r.headers, r.head, r.get, r.insecure, None)
  BY FirstWord
<1> HIDE DEF g
<1>2. ImportWord(r, o[1]) = SetUrl(g, "http://a")
  BY <1>0, FirstWord DEF g
<1>5. Does(r, o) = SetUrl(g, "http://a")
  BY <1>0, <1>2 DEF Does
<1>6. Is(Does(r, o), r.method, (IF r.url = NoText THEN "http://a" ELSE r.url), r.body, r.user, r.headers, r.head, r.get, r.insecure, None)
  <2>1. "http://a" \in Names /\ g \in Reqs
    BY <1>0, <1>1 DEF Names, Is
  <2>2. QED
    BY <1>1, <1>5, <2>1, SetUrlIs DEF Is
<1>7. Kind(o) = "other" /\ Value(o) = NoText
  BY <1>0, KindIs DEF Value
<1>8. /\ MethodOf(o) = NoText /\ UrlOf(o) = "http://a" /\ DataOf(o) = <<>> /\ UserOf(o) = NoText /\ HeaderOf(o) = <<>>
      /\ Insecure(o) = FALSE /\ Unknown(o) = FALSE
      /\ (o[1].name = "I") = FALSE /\ (o[1].name = "get") = FALSE
  BY <1>0, <1>7, Blanks DEF MethodOf, UrlOf, DataOf, UserOf, HeaderOf, Insecure, Unknown
<1>n. NoText \in Names
  BY DEF Names
<1>9. r.body \o <<>> = r.body /\ r.headers \o <<>> = r.headers
  BY <1>0, <1>n, NothingAdded
<1>10. QED
  BY <1>0, <1>6, <1>8, <1>9, Blanks DEF Effect, Is

LEMMA DoesUrlOption ==
  ASSUME NEW r, Idle(r), NEW o, Two(o, "long", "url", "http://a"), r.waits = None \/ Dash(o[1])
  PROVE  Effect(r, o, Does(r, o))
<1> DEFINE g == SetWaits(r, None)
<1>0. /\ r \in Reqs /\ r.body \in Seq(Names) /\ r.headers \in Seq(Names)
      /\ Len(o) = 2 /\ o[1].kind = "long" /\ o[1].name = "url" /\ o[1].rest = NoText /\ o[1].k = FALSE
      /\ o[2].name = "http://a"
  BY ReqFields DEF Idle, Two, Told
<1>1. Is(g, r.method, r.url, r.body, r.user, r.headers, r.head, r.get, r.insecure, None)
  BY FirstWord
<1> HIDE DEF g
<1>2. ImportWord(r, o[1]) = LongFlag(g, o[1])
  BY <1>0, FirstWord DEF g
<1>3. LongFlag(g, o[1]) = SetWaits(g, "url")
  BY <1>0, LongIs, Blanks
<1> DEFINE h == SetWaits(SetWaits(g, "url"), None)
<1>4. /\ ImportWord(SetWaits(g, "url"), o[2]) = applyCurlValue(h, "url", "http://a")
      /\ Is(h, r.method, r.url, r.body, r.user, r.headers, r.head, r.get, r.insecure, None)
  <2>1. "url" \in Names \ {None, "unknown"} /\ g \in Reqs
    BY <1>1 DEF None, Names, Is
  <2>2. QED
    BY <1>0, <1>1, <2>1, NextWord DEF Is
<1> HIDE DEF h
<1>5. Does(r, o) = SetUrl(h, "http://a")
  BY <1>0, <1>2, <1>3, <1>4, ApplyIs DEF Does
<1>6. Is(Does(r, o), r.method, (IF r.url = NoText THEN "http://a" ELSE r.url), r.body, r.user, r.headers, r.head, r.get, r.insecure, None)
  <2>1. "http://a" \in Names /\ h \in Reqs
    BY <1>0, <1>4 DEF Names, Is
  <2>2. QED
    BY <1>4, <1>5, <2>1, SetUrlIs DEF Is
<1>7. Kind(o) = "other" /\ Value(o) = "http://a"
  BY <1>0, KindIs DEF Value
<1>8. /\ MethodOf(o) = NoText /\ UrlOf(o) = "http://a" /\ DataOf(o) = <<>> /\ UserOf(o) = NoText /\ HeaderOf(o) = <<>>
      /\ Insecure(o) = FALSE /\ Unknown(o) = FALSE
      /\ (o[1].name = "I") = FALSE /\ (o[1].name = "get") = FALSE
  BY <1>0, <1>7, Blanks DEF MethodOf, UrlOf, DataOf, UserOf, HeaderOf, Insecure, Unknown
<1>n. "http://a" \in Names
  BY DEF Names
<1>9. r.body \o <<>> = r.body /\ r.headers \o <<>> = r.headers
  BY <1>0, <1>n, NothingAdded
<1>10. QED
  BY <1>0, <1>6, <1>8, <1>9, Blanks DEF Effect, Is

LEMMA DoesStdin ==
  ASSUME NEW r, Idle(r), NEW o, One(o, "bare", "-", NoText, FALSE), r.waits = None \/ Dash(o[1])
  PROVE  Effect(r, o, Does(r, o))
<1> DEFINE g == SetWaits(r, None)
<1>0. /\ r \in Reqs /\ r.body \in Seq(Names) /\ r.headers \in Seq(Names)
      /\ Len(o) = 1 /\ o[1].kind = "bare" /\ o[1].name = "-" /\ o[1].rest = NoText /\ o[1].k = FALSE
  BY ReqFields DEF Idle, One, Told
<1>1. Is(g, r.method, r.url, r.body, r.user, r.headers, r.head, r.get, r.insecure, None)
  BY FirstWord
<1> HIDE DEF g
<1>2. ImportWord(r, o[1]) = g
  BY <1>0, FirstWord DEF g
<1>5. Does(r, o) = g
  BY <1>0, <1>2 DEF Does
<1>6. Is(Does(r, o), r.method, r.url, r.body, r.user, r.headers, r.head, r.get, r.insecure, None)
  BY <1>1, <1>5
<1>7. Kind(o) = "other" /\ Value(o) = NoText
  BY <1>0, KindIs DEF Value
<1>8. /\ MethodOf(o) = NoText /\ UrlOf(o) = NoText /\ DataOf(o) = <<>> /\ UserOf(o) = NoText /\ HeaderOf(o) = <<>>
      /\ Insecure(o) = FALSE /\ Unknown(o) = FALSE
      /\ (o[1].name = "I") = FALSE /\ (o[1].name = "get") = FALSE
  BY <1>0, <1>7, Blanks DEF MethodOf, UrlOf, DataOf, UserOf, HeaderOf, Insecure, Unknown
<1>n. NoText \in Names
  BY DEF Names
<1>9. r.body \o <<>> = r.body /\ r.headers \o <<>> = r.headers
  BY <1>0, <1>n, NothingAdded
<1>10. QED
  BY <1>0, <1>6, <1>8, <1>9, Blanks DEF Effect, Is

LEMMA DoesPut ==
  ASSUME NEW r, Idle(r), NEW o, Two(o, "short", "X", "PUT"), r.waits = None \/ Dash(o[1])
  PROVE  Effect(r, o, Does(r, o))
<1> DEFINE g == SetWaits(r, None)
<1>0. /\ r \in Reqs /\ r.body \in Seq(Names) /\ r.headers \in Seq(Names)
      /\ Len(o) = 2 /\ o[1].kind = "short" /\ o[1].name = "X" /\ o[1].rest = NoText /\ o[1].k = FALSE
      /\ o[2].name = "PUT"
  BY ReqFields DEF Idle, Two, Told
<1>1. Is(g, r.method, r.url, r.body, r.user, r.headers, r.head, r.get, r.insecure, None)
  BY FirstWord
<1> HIDE DEF g
<1>2. ImportWord(r, o[1]) = ShortFlag(g, o[1])
  BY <1>0, FirstWord DEF g
<1>3. ShortFlag(g, o[1]) = SetWaits(g, "X")
  BY <1>0, ShortIs, Blanks
<1> DEFINE h == SetWaits(SetWaits(g, "X"), None)
<1>4. /\ ImportWord(SetWaits(g, "X"), o[2]) = applyCurlValue(h, "X", "PUT")
      /\ Is(h, r.method, r.url, r.body, r.user, r.headers, r.head, r.get, r.insecure, None)
  <2>1. "X" \in Names \ {None, "unknown"} /\ g \in Reqs
    BY <1>1 DEF None, Names, Is
  <2>2. QED
    BY <1>0, <1>1, <2>1, NextWord DEF Is
<1> HIDE DEF h
<1>5. Does(r, o) = SetMethod(h, "PUT")
  BY <1>0, <1>2, <1>3, <1>4, ApplyIs DEF Does
<1>6. Is(Does(r, o), "PUT", r.url, r.body, r.user, r.headers, r.head, r.get, r.insecure, None)
  <2>1. "PUT" \in Names /\ h \in Reqs
    BY <1>0, <1>4 DEF Names, Is
  <2>2. QED
    BY <1>4, <1>5, <2>1, SetMethodIs DEF Is
<1>7. Kind(o) = "method" /\ Value(o) = "PUT"
  BY <1>0, KindIs DEF Value
<1>8. /\ MethodOf(o) = "PUT" /\ UrlOf(o) = NoText /\ DataOf(o) = <<>> /\ UserOf(o) = NoText /\ HeaderOf(o) = <<>>
      /\ Insecure(o) = FALSE /\ Unknown(o) = FALSE
      /\ (o[1].name = "I") = FALSE /\ (o[1].name = "get") = FALSE
  BY <1>0, <1>7, Blanks DEF MethodOf, UrlOf, DataOf, UserOf, HeaderOf, Insecure, Unknown
<1>n. "PUT" \in Names
  BY DEF Names
<1>9. r.body \o <<>> = r.body /\ r.headers \o <<>> = r.headers
  BY <1>0, <1>n, NothingAdded
<1>10. QED
  BY <1>0, <1>6, <1>8, <1>9, Blanks DEF Effect, Is

LEMMA DoesPatch ==
  ASSUME NEW r, Idle(r), NEW o, One(o, "long", "request", "PATCH", FALSE), r.waits = None \/ Dash(o[1])
  PROVE  Effect(r, o, Does(r, o))
<1> DEFINE g == SetWaits(r, None)
<1>0. /\ r \in Reqs /\ r.body \in Seq(Names) /\ r.headers \in Seq(Names)
      /\ Len(o) = 1 /\ o[1].kind = "long" /\ o[1].name = "request" /\ o[1].rest = "PATCH" /\ o[1].k = FALSE
  BY ReqFields DEF Idle, One, Told
<1>1. Is(g, r.method, r.url, r.body, r.user, r.headers, r.head, r.get, r.insecure, None)
  BY FirstWord
<1> HIDE DEF g
<1>2. ImportWord(r, o[1]) = LongFlag(g, o[1])
  BY <1>0, FirstWord DEF g
<1>5. Does(r, o) = SetMethod(g, "PATCH")
  BY <1>0, <1>2, LongIs, ApplyIs, Blanks DEF Does
<1>6. Is(Does(r, o), "PATCH", r.url, r.body, r.user, r.headers, r.head, r.get, r.insecure, None)
  <2>1. "PATCH" \in Names /\ g \in Reqs
    BY <1>0, <1>1 DEF Names, Is
  <2>2. QED
    BY <1>1, <1>5, <2>1, SetMethodIs DEF Is
<1>7. Kind(o) = "method" /\ Value(o) = "PATCH"
  BY <1>0, KindIs DEF Value
<1>8. /\ MethodOf(o) = "PATCH" /\ UrlOf(o) = NoText /\ DataOf(o) = <<>> /\ UserOf(o) = NoText /\ HeaderOf(o) = <<>>
      /\ Insecure(o) = FALSE /\ Unknown(o) = FALSE
      /\ (o[1].name = "I") = FALSE /\ (o[1].name = "get") = FALSE
  BY <1>0, <1>7, Blanks DEF MethodOf, UrlOf, DataOf, UserOf, HeaderOf, Insecure, Unknown
<1>n. "PATCH" \in Names
  BY DEF Names
<1>9. r.body \o <<>> = r.body /\ r.headers \o <<>> = r.headers
  BY <1>0, <1>n, NothingAdded
<1>10. QED
  BY <1>0, <1>6, <1>8, <1>9, Blanks DEF Effect, Is

LEMMA DoesOne ==
  ASSUME NEW r, Idle(r), NEW o, Two(o, "short", "d", "1"), r.waits = None \/ Dash(o[1])
  PROVE  Effect(r, o, Does(r, o))
<1> DEFINE g == SetWaits(r, None)
<1>0. /\ r \in Reqs /\ r.body \in Seq(Names) /\ r.headers \in Seq(Names)
      /\ Len(o) = 2 /\ o[1].kind = "short" /\ o[1].name = "d" /\ o[1].rest = NoText /\ o[1].k = FALSE
      /\ o[2].name = "1"
  BY ReqFields DEF Idle, Two, Told
<1>1. Is(g, r.method, r.url, r.body, r.user, r.headers, r.head, r.get, r.insecure, None)
  BY FirstWord
<1> HIDE DEF g
<1>2. ImportWord(r, o[1]) = ShortFlag(g, o[1])
  BY <1>0, FirstWord DEF g
<1>3. ShortFlag(g, o[1]) = SetWaits(g, "d")
  BY <1>0, ShortIs, Blanks
<1> DEFINE h == SetWaits(SetWaits(g, "d"), None)
<1>4. /\ ImportWord(SetWaits(g, "d"), o[2]) = applyCurlValue(h, "d", "1")
      /\ Is(h, r.method, r.url, r.body, r.user, r.headers, r.head, r.get, r.insecure, None)
  <2>1. "d" \in Names \ {None, "unknown"} /\ g \in Reqs
    BY <1>1 DEF None, Names, Is
  <2>2. QED
    BY <1>0, <1>1, <2>1, NextWord DEF Is
<1> HIDE DEF h
<1>5. Does(r, o) = AddBody(h, "1")
  BY <1>0, <1>2, <1>3, <1>4, ApplyIs DEF Does
<1>6. Is(Does(r, o), r.method, r.url, Append(r.body, "1"), r.user, r.headers, r.head, r.get, r.insecure, None)
  <2>1. "1" \in Names /\ h \in Reqs
    BY <1>0, <1>4 DEF Names, Is
  <2>2. QED
    BY <1>4, <1>5, <2>1, AddBodyIs DEF Is
<1>7. Kind(o) = "body" /\ Value(o) = "1"
  BY <1>0, KindIs DEF Value
<1>8. /\ MethodOf(o) = NoText /\ UrlOf(o) = NoText /\ DataOf(o) = <<"1">> /\ UserOf(o) = NoText /\ HeaderOf(o) = <<>>
      /\ Insecure(o) = FALSE /\ Unknown(o) = FALSE
      /\ (o[1].name = "I") = FALSE /\ (o[1].name = "get") = FALSE
  BY <1>0, <1>7, Blanks DEF MethodOf, UrlOf, DataOf, UserOf, HeaderOf, Insecure, Unknown
<1>n. "1" \in Names
  BY DEF Names
<1>9. r.body \o <<>> = r.body /\ r.headers \o <<>> = r.headers /\ Append(r.body, "1") = r.body \o <<"1">>
  BY <1>0, <1>n, NothingAdded
<1>10. QED
  BY <1>0, <1>6, <1>8, <1>9, Blanks DEF Effect, Is

LEMMA DoesTwo ==
  ASSUME NEW r, Idle(r), NEW o, One(o, "long", "data", "2", FALSE), r.waits = None \/ Dash(o[1])
  PROVE  Effect(r, o, Does(r, o))
<1> DEFINE g == SetWaits(r, None)
<1>0. /\ r \in Reqs /\ r.body \in Seq(Names) /\ r.headers \in Seq(Names)
      /\ Len(o) = 1 /\ o[1].kind = "long" /\ o[1].name = "data" /\ o[1].rest = "2" /\ o[1].k = FALSE
  BY ReqFields DEF Idle, One, Told
<1>1. Is(g, r.method, r.url, r.body, r.user, r.headers, r.head, r.get, r.insecure, None)
  BY FirstWord
<1> HIDE DEF g
<1>2. ImportWord(r, o[1]) = LongFlag(g, o[1])
  BY <1>0, FirstWord DEF g
<1>5. Does(r, o) = AddBody(g, "2")
  BY <1>0, <1>2, LongIs, ApplyIs, Blanks DEF Does
<1>6. Is(Does(r, o), r.method, r.url, Append(r.body, "2"), r.user, r.headers, r.head, r.get, r.insecure, None)
  <2>1. "2" \in Names /\ g \in Reqs
    BY <1>0, <1>1 DEF Names, Is
  <2>2. QED
    BY <1>1, <1>5, <2>1, AddBodyIs DEF Is
<1>7. Kind(o) = "body" /\ Value(o) = "2"
  BY <1>0, KindIs DEF Value
<1>8. /\ MethodOf(o) = NoText /\ UrlOf(o) = NoText /\ DataOf(o) = <<"2">> /\ UserOf(o) = NoText /\ HeaderOf(o) = <<>>
      /\ Insecure(o) = FALSE /\ Unknown(o) = FALSE
      /\ (o[1].name = "I") = FALSE /\ (o[1].name = "get") = FALSE
  BY <1>0, <1>7, Blanks DEF MethodOf, UrlOf, DataOf, UserOf, HeaderOf, Insecure, Unknown
<1>n. "2" \in Names
  BY DEF Names
<1>9. r.body \o <<>> = r.body /\ r.headers \o <<>> = r.headers /\ Append(r.body, "2") = r.body \o <<"2">>
  BY <1>0, <1>n, NothingAdded
<1>10. QED
  BY <1>0, <1>6, <1>8, <1>9, Blanks DEF Effect, Is

LEMMA DoesAuth ==
  ASSUME NEW r, Idle(r), NEW o, One(o, "short", "H", "authorization", FALSE), r.waits = None \/ Dash(o[1])
  PROVE  Effect(r, o, Does(r, o))
<1> DEFINE g == SetWaits(r, None)
<1>0. /\ r \in Reqs /\ r.body \in Seq(Names) /\ r.headers \in Seq(Names)
      /\ Len(o) = 1 /\ o[1].kind = "short" /\ o[1].name = "H" /\ o[1].rest = "authorization" /\ o[1].k = FALSE
  BY ReqFields DEF Idle, One, Told
<1>1. Is(g, r.method, r.url, r.body, r.user, r.headers, r.head, r.get, r.insecure, None)
  BY FirstWord
<1> HIDE DEF g
<1>2. ImportWord(r, o[1]) = ShortFlag(g, o[1])
  BY <1>0, FirstWord DEF g
<1>5. Does(r, o) = AddHeader(g, "authorization")
  BY <1>0, <1>2, ShortIs, ApplyIs, Blanks DEF Does
<1>6. Is(Does(r, o), r.method, r.url, r.body, r.user, Append(r.headers, "authorization"), r.head, r.get, r.insecure, None)
  <2>1. "authorization" \in Names /\ g \in Reqs
    BY <1>0, <1>1 DEF Names, Is
  <2>2. QED
    BY <1>1, <1>5, <2>1, AddHeaderIs DEF Is
<1>7. Kind(o) = "header" /\ Value(o) = "authorization"
  BY <1>0, KindIs DEF Value
<1>8. /\ MethodOf(o) = NoText /\ UrlOf(o) = NoText /\ DataOf(o) = <<>> /\ UserOf(o) = NoText /\ HeaderOf(o) = <<"authorization">>
      /\ Insecure(o) = FALSE /\ Unknown(o) = FALSE
      /\ (o[1].name = "I") = FALSE /\ (o[1].name = "get") = FALSE
  BY <1>0, <1>7, Blanks DEF MethodOf, UrlOf, DataOf, UserOf, HeaderOf, Insecure, Unknown
<1>n. "authorization" \in Names
  BY DEF Names
<1>9. r.body \o <<>> = r.body /\ r.headers \o <<>> = r.headers /\ Append(r.headers, "authorization") = r.headers \o <<"authorization">>
  BY <1>0, <1>n, NothingAdded
<1>10. QED
  BY <1>0, <1>6, <1>8, <1>9, Blanks DEF Effect, Is

LEMMA DoesType ==
  ASSUME NEW r, Idle(r), NEW o, Two(o, "long", "header", "content-type"), r.waits = None \/ Dash(o[1])
  PROVE  Effect(r, o, Does(r, o))
<1> DEFINE g == SetWaits(r, None)
<1>0. /\ r \in Reqs /\ r.body \in Seq(Names) /\ r.headers \in Seq(Names)
      /\ Len(o) = 2 /\ o[1].kind = "long" /\ o[1].name = "header" /\ o[1].rest = NoText /\ o[1].k = FALSE
      /\ o[2].name = "content-type"
  BY ReqFields DEF Idle, Two, Told
<1>1. Is(g, r.method, r.url, r.body, r.user, r.headers, r.head, r.get, r.insecure, None)
  BY FirstWord
<1> HIDE DEF g
<1>2. ImportWord(r, o[1]) = LongFlag(g, o[1])
  BY <1>0, FirstWord DEF g
<1>3. LongFlag(g, o[1]) = SetWaits(g, "header")
  BY <1>0, LongIs, Blanks
<1> DEFINE h == SetWaits(SetWaits(g, "header"), None)
<1>4. /\ ImportWord(SetWaits(g, "header"), o[2]) = applyCurlValue(h, "header", "content-type")
      /\ Is(h, r.method, r.url, r.body, r.user, r.headers, r.head, r.get, r.insecure, None)
  <2>1. "header" \in Names \ {None, "unknown"} /\ g \in Reqs
    BY <1>1 DEF None, Names, Is
  <2>2. QED
    BY <1>0, <1>1, <2>1, NextWord DEF Is
<1> HIDE DEF h
<1>5. Does(r, o) = AddHeader(h, "content-type")
  BY <1>0, <1>2, <1>3, <1>4, ApplyIs DEF Does
<1>6. Is(Does(r, o), r.method, r.url, r.body, r.user, Append(r.headers, "content-type"), r.head, r.get, r.insecure, None)
  <2>1. "content-type" \in Names /\ h \in Reqs
    BY <1>0, <1>4 DEF Names, Is
  <2>2. QED
    BY <1>4, <1>5, <2>1, AddHeaderIs DEF Is
<1>7. Kind(o) = "header" /\ Value(o) = "content-type"
  BY <1>0, KindIs DEF Value
<1>8. /\ MethodOf(o) = NoText /\ UrlOf(o) = NoText /\ DataOf(o) = <<>> /\ UserOf(o) = NoText /\ HeaderOf(o) = <<"content-type">>
      /\ Insecure(o) = FALSE /\ Unknown(o) = FALSE
      /\ (o[1].name = "I") = FALSE /\ (o[1].name = "get") = FALSE
  BY <1>0, <1>7, Blanks DEF MethodOf, UrlOf, DataOf, UserOf, HeaderOf, Insecure, Unknown
<1>n. "content-type" \in Names
  BY DEF Names
<1>9. r.body \o <<>> = r.body /\ r.headers \o <<>> = r.headers /\ Append(r.headers, "content-type") = r.headers \o <<"content-type">>
  BY <1>0, <1>n, NothingAdded
<1>10. QED
  BY <1>0, <1>6, <1>8, <1>9, Blanks DEF Effect, Is

LEMMA DoesUser ==
  ASSUME NEW r, Idle(r), NEW o, Two(o, "short", "u", "me"), r.waits = None \/ Dash(o[1])
  PROVE  Effect(r, o, Does(r, o))
<1> DEFINE g == SetWaits(r, None)
<1>0. /\ r \in Reqs /\ r.body \in Seq(Names) /\ r.headers \in Seq(Names)
      /\ Len(o) = 2 /\ o[1].kind = "short" /\ o[1].name = "u" /\ o[1].rest = NoText /\ o[1].k = FALSE
      /\ o[2].name = "me"
  BY ReqFields DEF Idle, Two, Told
<1>1. Is(g, r.method, r.url, r.body, r.user, r.headers, r.head, r.get, r.insecure, None)
  BY FirstWord
<1> HIDE DEF g
<1>2. ImportWord(r, o[1]) = ShortFlag(g, o[1])
  BY <1>0, FirstWord DEF g
<1>3. ShortFlag(g, o[1]) = SetWaits(g, "u")
  BY <1>0, ShortIs, Blanks
<1> DEFINE h == SetWaits(SetWaits(g, "u"), None)
<1>4. /\ ImportWord(SetWaits(g, "u"), o[2]) = applyCurlValue(h, "u", "me")
      /\ Is(h, r.method, r.url, r.body, r.user, r.headers, r.head, r.get, r.insecure, None)
  <2>1. "u" \in Names \ {None, "unknown"} /\ g \in Reqs
    BY <1>1 DEF None, Names, Is
  <2>2. QED
    BY <1>0, <1>1, <2>1, NextWord DEF Is
<1> HIDE DEF h
<1>5. Does(r, o) = SetUser(h, "me")
  BY <1>0, <1>2, <1>3, <1>4, ApplyIs DEF Does
<1>6. Is(Does(r, o), r.method, r.url, r.body, "me", r.headers, r.head, r.get, r.insecure, None)
  <2>1. "me" \in Names /\ h \in Reqs
    BY <1>0, <1>4 DEF Names, Is
  <2>2. QED
    BY <1>4, <1>5, <2>1, SetUserIs DEF Is
<1>7. Kind(o) = "other" /\ Value(o) = "me"
  BY <1>0, KindIs DEF Value
<1>8. /\ MethodOf(o) = NoText /\ UrlOf(o) = NoText /\ DataOf(o) = <<>> /\ UserOf(o) = "me" /\ HeaderOf(o) = <<>>
      /\ Insecure(o) = FALSE /\ Unknown(o) = FALSE
      /\ (o[1].name = "I") = FALSE /\ (o[1].name = "get") = FALSE
  BY <1>0, <1>7, Blanks DEF MethodOf, UrlOf, DataOf, UserOf, HeaderOf, Insecure, Unknown
<1>n. "me" \in Names
  BY DEF Names
<1>9. r.body \o <<>> = r.body /\ r.headers \o <<>> = r.headers
  BY <1>0, <1>n, NothingAdded
<1>10. QED
  BY <1>0, <1>6, <1>8, <1>9, Blanks DEF Effect, Is

LEMMA DoesOutput ==
  ASSUME NEW r, Idle(r), NEW o, Two(o, "short", "o", "file"), r.waits = None \/ Dash(o[1])
  PROVE  Effect(r, o, Does(r, o))
<1> DEFINE g == SetWaits(r, None)
<1>0. /\ r \in Reqs /\ r.body \in Seq(Names) /\ r.headers \in Seq(Names)
      /\ Len(o) = 2 /\ o[1].kind = "short" /\ o[1].name = "o" /\ o[1].rest = NoText /\ o[1].k = FALSE
      /\ o[2].name = "file"
  BY ReqFields DEF Idle, Two, Told
<1>1. Is(g, r.method, r.url, r.body, r.user, r.headers, r.head, r.get, r.insecure, None)
  BY FirstWord
<1> HIDE DEF g
<1>2. ImportWord(r, o[1]) = ShortFlag(g, o[1])
  BY <1>0, FirstWord DEF g
<1>3. ShortFlag(g, o[1]) = SetWaits(g, "o")
  BY <1>0, ShortIs, Blanks
<1> DEFINE h == SetWaits(SetWaits(g, "o"), None)
<1>4. /\ ImportWord(SetWaits(g, "o"), o[2]) = applyCurlValue(h, "o", "file")
      /\ Is(h, r.method, r.url, r.body, r.user, r.headers, r.head, r.get, r.insecure, None)
  <2>1. "o" \in Names \ {None, "unknown"} /\ g \in Reqs
    BY <1>1 DEF None, Names, Is
  <2>2. QED
    BY <1>0, <1>1, <2>1, NextWord DEF Is
<1> HIDE DEF h
<1>5. Does(r, o) = h
  BY <1>0, <1>2, <1>3, <1>4, ApplyIs DEF Does
<1>6. Is(Does(r, o), r.method, r.url, r.body, r.user, r.headers, r.head, r.get, r.insecure, None)
  BY <1>4, <1>5
<1>7. Kind(o) = "other" /\ Value(o) = "file"
  BY <1>0, KindIs DEF Value
<1>8. /\ MethodOf(o) = NoText /\ UrlOf(o) = NoText /\ DataOf(o) = <<>> /\ UserOf(o) = NoText /\ HeaderOf(o) = <<>>
      /\ Insecure(o) = FALSE /\ Unknown(o) = FALSE
      /\ (o[1].name = "I") = FALSE /\ (o[1].name = "get") = FALSE
  BY <1>0, <1>7, Blanks DEF MethodOf, UrlOf, DataOf, UserOf, HeaderOf, Insecure, Unknown
<1>n. "file" \in Names
  BY DEF Names
<1>9. r.body \o <<>> = r.body /\ r.headers \o <<>> = r.headers
  BY <1>0, <1>n, NothingAdded
<1>10. QED
  BY <1>0, <1>6, <1>8, <1>9, Blanks DEF Effect, Is

LEMMA DoesSilent ==
  ASSUME NEW r, Idle(r), NEW o, One(o, "short", "s", "kS", TRUE), r.waits = None \/ Dash(o[1])
  PROVE  Effect(r, o, Does(r, o))
<1> DEFINE g == SetWaits(r, None)
<1>0. /\ r \in Reqs /\ r.body \in Seq(Names) /\ r.headers \in Seq(Names)
      /\ Len(o) = 1 /\ o[1].kind = "short" /\ o[1].name = "s" /\ o[1].rest = "kS" /\ o[1].k = TRUE
  BY ReqFields DEF Idle, One, Told
<1>1. Is(g, r.method, r.url, r.body, r.user, r.headers, r.head, r.get, r.insecure, None)
  BY FirstWord
<1> HIDE DEF g
<1>2. ImportWord(r, o[1]) = ShortFlag(g, o[1])
  BY <1>0, FirstWord DEF g
<1>5. Does(r, o) = OrInsecure(g, o[1].k)
  BY <1>0, <1>2, ShortIs, ApplyIs, Blanks DEF Does
<1>6. Is(Does(r, o), r.method, r.url, r.body, r.user, r.headers, r.head, r.get, (r.insecure \/ o[1].k), None)
  <2>1. o[1].k \in BOOLEAN /\ g \in Reqs
    BY <1>0, <1>1 DEF Names, Is
  <2>2. QED
    BY <1>1, <1>5, <2>1, OrInsecureIs DEF Is
<1>7. Kind(o) = "other" /\ Value(o) = "kS"
  BY <1>0, KindIs DEF Value
<1>8. /\ MethodOf(o) = NoText /\ UrlOf(o) = NoText /\ DataOf(o) = <<>> /\ UserOf(o) = NoText /\ HeaderOf(o) = <<>>
      /\ Insecure(o) = TRUE /\ Unknown(o) = FALSE
      /\ (o[1].name = "I") = FALSE /\ (o[1].name = "get") = FALSE
  BY <1>0, <1>7, Blanks DEF MethodOf, UrlOf, DataOf, UserOf, HeaderOf, Insecure, Unknown
<1>n. "kS" \in Names
  BY DEF Names
<1>9. r.body \o <<>> = r.body /\ r.headers \o <<>> = r.headers
  BY <1>0, <1>n, NothingAdded
<1>10. QED
  BY <1>0, <1>6, <1>8, <1>9, Blanks DEF Effect, Is

LEMMA DoesInsecure ==
  ASSUME NEW r, Idle(r), NEW o, One(o, "long", "insecure", NoText, FALSE), r.waits = None \/ Dash(o[1])
  PROVE  Effect(r, o, Does(r, o))
<1> DEFINE g == SetWaits(r, None)
<1>0. /\ r \in Reqs /\ r.body \in Seq(Names) /\ r.headers \in Seq(Names)
      /\ Len(o) = 1 /\ o[1].kind = "long" /\ o[1].name = "insecure" /\ o[1].rest = NoText /\ o[1].k = FALSE
  BY ReqFields DEF Idle, One, Told
<1>1. Is(g, r.method, r.url, r.body, r.user, r.headers, r.head, r.get, r.insecure, None)
  BY FirstWord
<1> HIDE DEF g
<1>2. ImportWord(r, o[1]) = LongFlag(g, o[1])
  BY <1>0, FirstWord DEF g
<1>5. Does(r, o) = SetInsecure(g)
  BY <1>0, <1>2, LongIs, ApplyIs, Blanks DEF Does
<1>6. Is(Does(r, o), r.method, r.url, r.body, r.user, r.headers, r.head, r.get, TRUE, None)
  <2>1. TRUE /\ g \in Reqs
    BY <1>0, <1>1 DEF Names, Is
  <2>2. QED
    BY <1>1, <1>5, <2>1, SetInsecureIs, ZenonT(60) DEF Is
<1>7. Kind(o) = "other" /\ Value(o) = NoText
  BY <1>0, KindIs DEF Value
<1>8. /\ MethodOf(o) = NoText /\ UrlOf(o) = NoText /\ DataOf(o) = <<>> /\ UserOf(o) = NoText /\ HeaderOf(o) = <<>>
      /\ Insecure(o) = TRUE /\ Unknown(o) = FALSE
      /\ (o[1].name = "I") = FALSE /\ (o[1].name = "get") = FALSE
  BY <1>0, <1>7, Blanks DEF MethodOf, UrlOf, DataOf, UserOf, HeaderOf, Insecure, Unknown
<1>n. NoText \in Names
  BY DEF Names
<1>9. r.body \o <<>> = r.body /\ r.headers \o <<>> = r.headers
  BY <1>0, <1>n, NothingAdded
<1>10. QED
  BY <1>0, <1>6, <1>8, <1>9, Blanks DEF Effect, Is

LEMMA DoesCompressed ==
  ASSUME NEW r, Idle(r), NEW o, One(o, "long", "compressed", NoText, FALSE), r.waits = None \/ Dash(o[1])
  PROVE  Effect(r, o, Does(r, o))
<1> DEFINE g == SetWaits(r, None)
<1>0. /\ r \in Reqs /\ r.body \in Seq(Names) /\ r.headers \in Seq(Names)
      /\ Len(o) = 1 /\ o[1].kind = "long" /\ o[1].name = "compressed" /\ o[1].rest = NoText /\ o[1].k = FALSE
  BY ReqFields DEF Idle, One, Told
<1>1. Is(g, r.method, r.url, r.body, r.user, r.headers, r.head, r.get, r.insecure, None)
  BY FirstWord
<1> HIDE DEF g
<1>2. ImportWord(r, o[1]) = LongFlag(g, o[1])
  BY <1>0, FirstWord DEF g
<1>5. Does(r, o) = g
  BY <1>0, <1>2, LongIs, ApplyIs, Blanks DEF Does
<1>6. Is(Does(r, o), r.method, r.url, r.body, r.user, r.headers, r.head, r.get, r.insecure, None)
  BY <1>1, <1>5
<1>7. Kind(o) = "other" /\ Value(o) = NoText
  BY <1>0, KindIs DEF Value
<1>8. /\ MethodOf(o) = NoText /\ UrlOf(o) = NoText /\ DataOf(o) = <<>> /\ UserOf(o) = NoText /\ HeaderOf(o) = <<>>
      /\ Insecure(o) = FALSE /\ Unknown(o) = FALSE
      /\ (o[1].name = "I") = FALSE /\ (o[1].name = "get") = FALSE
  BY <1>0, <1>7, Blanks DEF MethodOf, UrlOf, DataOf, UserOf, HeaderOf, Insecure, Unknown
<1>n. NoText \in Names
  BY DEF Names
<1>9. r.body \o <<>> = r.body /\ r.headers \o <<>> = r.headers
  BY <1>0, <1>n, NothingAdded
<1>10. QED
  BY <1>0, <1>6, <1>8, <1>9, Blanks DEF Effect, Is

LEMMA DoesHeadOnly ==
  ASSUME NEW r, Idle(r), NEW o, One(o, "short", "I", NoText, FALSE), r.waits = None \/ Dash(o[1])
  PROVE  Effect(r, o, Does(r, o))
<1> DEFINE g == SetWaits(r, None)
<1>0. /\ r \in Reqs /\ r.body \in Seq(Names) /\ r.headers \in Seq(Names)
      /\ Len(o) = 1 /\ o[1].kind = "short" /\ o[1].name = "I" /\ o[1].rest = NoText /\ o[1].k = FALSE
  BY ReqFields DEF Idle, One, Told
<1>1. Is(g, r.method, r.url, r.body, r.user, r.headers, r.head, r.get, r.insecure, None)
  BY FirstWord
<1> HIDE DEF g
<1>2. ImportWord(r, o[1]) = ShortFlag(g, o[1])
  BY <1>0, FirstWord DEF g
<1>5. Does(r, o) = SetHead(g)
  BY <1>0, <1>2, ShortIs, ApplyIs, Blanks DEF Does
<1>6. Is(Does(r, o), r.method, r.url, r.body, r.user, r.headers, TRUE, r.get, r.insecure, None)
  <2>1. TRUE /\ g \in Reqs
    BY <1>0, <1>1 DEF Names, Is
  <2>2. QED
    BY <1>1, <1>5, <2>1, SetHeadIs, ZenonT(60) DEF Is
<1>7. Kind(o) = "other" /\ Value(o) = NoText
  BY <1>0, KindIs DEF Value
<1>8. /\ MethodOf(o) = NoText /\ UrlOf(o) = NoText /\ DataOf(o) = <<>> /\ UserOf(o) = NoText /\ HeaderOf(o) = <<>>
      /\ Insecure(o) = FALSE /\ Unknown(o) = FALSE
      /\ (o[1].name = "I") = TRUE /\ (o[1].name = "get") = FALSE
  BY <1>0, <1>7, Blanks DEF MethodOf, UrlOf, DataOf, UserOf, HeaderOf, Insecure, Unknown
<1>n. NoText \in Names
  BY DEF Names
<1>9. r.body \o <<>> = r.body /\ r.headers \o <<>> = r.headers
  BY <1>0, <1>n, NothingAdded
<1>10. QED
  BY <1>0, <1>6, <1>8, <1>9, Blanks DEF Effect, Is

LEMMA DoesGet ==
  ASSUME NEW r, Idle(r), NEW o, One(o, "long", "get", NoText, FALSE), r.waits = None \/ Dash(o[1])
  PROVE  Effect(r, o, Does(r, o))
<1> DEFINE g == SetWaits(r, None)
<1>0. /\ r \in Reqs /\ r.body \in Seq(Names) /\ r.headers \in Seq(Names)
      /\ Len(o) = 1 /\ o[1].kind = "long" /\ o[1].name = "get" /\ o[1].rest = NoText /\ o[1].k = FALSE
  BY ReqFields DEF Idle, One, Told
<1>1. Is(g, r.method, r.url, r.body, r.user, r.headers, r.head, r.get, r.insecure, None)
  BY FirstWord
<1> HIDE DEF g
<1>2. ImportWord(r, o[1]) = LongFlag(g, o[1])
  BY <1>0, FirstWord DEF g
<1>5. Does(r, o) = SetGet(g)
  BY <1>0, <1>2, LongIs, ApplyIs, Blanks DEF Does
<1>6. Is(Does(r, o), r.method, r.url, r.body, r.user, r.headers, r.head, TRUE, r.insecure, None)
  <2>1. TRUE /\ g \in Reqs
    BY <1>0, <1>1 DEF Names, Is
  <2>2. QED
    BY <1>1, <1>5, <2>1, SetGetIs, ZenonT(60) DEF Is
<1>7. Kind(o) = "other" /\ Value(o) = NoText
  BY <1>0, KindIs DEF Value
<1>8. /\ MethodOf(o) = NoText /\ UrlOf(o) = NoText /\ DataOf(o) = <<>> /\ UserOf(o) = NoText /\ HeaderOf(o) = <<>>
      /\ Insecure(o) = FALSE /\ Unknown(o) = FALSE
      /\ (o[1].name = "I") = FALSE /\ (o[1].name = "get") = TRUE
  BY <1>0, <1>7, Blanks DEF MethodOf, UrlOf, DataOf, UserOf, HeaderOf, Insecure, Unknown
<1>n. NoText \in Names
  BY DEF Names
<1>9. r.body \o <<>> = r.body /\ r.headers \o <<>> = r.headers
  BY <1>0, <1>n, NothingAdded
<1>10. QED
  BY <1>0, <1>6, <1>8, <1>9, Blanks DEF Effect, Is

LEMMA DoesHttp2 ==
  ASSUME NEW r, Idle(r), NEW o, One(o, "long", "http2", NoText, FALSE), r.waits = None \/ Dash(o[1])
  PROVE  Effect(r, o, Does(r, o))
<1> DEFINE g == SetWaits(r, None)
<1>0. /\ r \in Reqs /\ r.body \in Seq(Names) /\ r.headers \in Seq(Names)
      /\ Len(o) = 1 /\ o[1].kind = "long" /\ o[1].name = "http2" /\ o[1].rest = NoText /\ o[1].k = FALSE
  BY ReqFields DEF Idle, One, Told
<1>1. Is(g, r.method, r.url, r.body, r.user, r.headers, r.head, r.get, r.insecure, None)
  BY FirstWord
<1> HIDE DEF g
<1>2. ImportWord(r, o[1]) = LongFlag(g, o[1])
  BY <1>0, FirstWord DEF g
<1>5. Does(r, o) = SetWaits(g, "unknown")
  BY <1>0, <1>2, LongIs, ApplyIs, Blanks DEF Does
<1>6. Is(Does(r, o), r.method, r.url, r.body, r.user, r.headers, r.head, r.get, r.insecure, "unknown")
  <2>1. "unknown" \in Names /\ g \in Reqs
    BY <1>0, <1>1 DEF Names, Is
  <2>2. QED
    BY <1>1, <1>5, <2>1, SetWaitsIs DEF Is
<1>7. Kind(o) = "other" /\ Value(o) = NoText
  BY <1>0, KindIs DEF Value
<1>8. /\ MethodOf(o) = NoText /\ UrlOf(o) = NoText /\ DataOf(o) = <<>> /\ UserOf(o) = NoText /\ HeaderOf(o) = <<>>
      /\ Insecure(o) = FALSE /\ Unknown(o) = TRUE
      /\ (o[1].name = "I") = FALSE /\ (o[1].name = "get") = FALSE
  BY <1>0, <1>7, Blanks DEF MethodOf, UrlOf, DataOf, UserOf, HeaderOf, Insecure, Unknown
<1>n. NoText \in Names
  BY DEF Names
<1>9. r.body \o <<>> = r.body /\ r.headers \o <<>> = r.headers
  BY <1>0, <1>n, NothingAdded
<1>10. QED
  BY <1>0, <1>6, <1>8, <1>9, Blanks DEF Effect, Is

LEMMA OptionDoes ==
  ASSUME NEW r, Idle(r), NEW o \in Options, r.waits = None \/ Dash(o[1])
  PROVE  Effect(r, o, Does(r, o))
BY OptionTable, Zenon, DoesUrl, DoesUrlOption, DoesStdin, DoesPut, DoesPatch, DoesOne, DoesTwo, DoesAuth, DoesType, DoesUser, DoesOutput, DoesSilent, DoesInsecure, DoesCompressed, DoesHeadOnly, DoesGet, DoesHttp2

-----------------------------------------------------------------------------
(* What the words say in the end.                                          *)
Made(r) ==
  IF r.waits \notin {None, "unknown"} \/ r.url = NoText THEN Refused
  ELSE [method |-> FinalMethod(r), url |-> r.url, body |-> r.body,
        headers |-> [i \in DOMAIN r.headers |-> [name |-> r.headers[i], enabled |-> TRUE]],
        auth |-> IF r.user = NoText THEN "none" ELSE "basic",
        insecure |-> r.insecure]

LEMMA NothingIs ==
  /\ Nothing \in Reqs /\ Nothing.waits = None /\ Nothing.method = NoText /\ Nothing.body = <<>>
  /\ Nothing.headers = <<>> /\ Nothing.insecure = FALSE
BY DEF Nothing, Reqs, Names

LEMMA WordsAreRead ==
  \E f : /\ f \in [Seq(Words) -> Reqs] /\ f[<<>>] = Nothing
         /\ \A ws \in Seq(Words), w \in Words : f[Append(ws, w)] = ImportWord(f[ws], w)
         /\ \A ws \in Seq(Words) : importCurl(ws) = Made(f[ws])
<1> DEFINE step == [r \in Reqs |-> [w \in Words |-> ImportWord(r, w)]]
<1>0. Nothing \in Reqs /\ step \in [Reqs -> [Words -> Reqs]]
  BY NothingIs, WordStays
<1>s. \A r \in Reqs, w \in Words : step[r][w] = ImportWord(r, w)
  OBVIOUS
<1> HIDE DEF step
<1>1. PICK f : Fold(f, Words, Reqs, Nothing, step)
  BY <1>0, FoldExists
<1>2. f \in [Seq(Words) -> Reqs] /\ f[<<>>] = Nothing /\ \A t \in Seq(Words), w \in Words : f[Append(t, w)] = step[f[t]][w]
  BY <1>1 DEF Fold
<1>3. \A ws \in Seq(Words), w \in Words : f[Append(ws, w)] = ImportWord(f[ws], w)
  BY <1>s, <1>2
<1>4. ASSUME NEW t \in Seq(Words) PROVE importCurl(t) = Made(f[t])
  <2> DEFINE N == Len(t)
             Rec(g) == [n \in 0..N |-> IF n = 0 THEN Nothing ELSE ImportWord(g[n - 1], t[n])]
             u == CHOOSE g : g = Rec(g)
  <2>0. t \in Seq(Words) /\ N \in Nat /\ \A n \in 1..N : t[n] \in Words
    OBVIOUS
  <2>p. PICK h : Walks(h, t, Reqs, Nothing, step)
    BY <1>0, <1>1, FoldPlaces
  <2>1. h \in [0..N -> Reqs] /\ h[0] = Nothing /\ \A n \in 1..N : h[n] = step[h[n - 1]][t[n]]
    BY <2>p DEF Walks
  <2>2. importCurl(t) = Made(u[N])
    BY Zenon DEF importCurl, Made
  <2> HIDE DEF N
  <2>3. h = Rec(h)
    <3>1. ASSUME NEW n \in 0..N, n # 0 PROVE h[n] = ImportWord(h[n - 1], t[n])
      <4>1. n \in 1..N /\ n - 1 \in 0..N
        BY <2>0, <3>1
      <4>2. h[n - 1] \in Reqs /\ t[n] \in Words /\ h[n] = step[h[n - 1]][t[n]]
        BY <2>0, <2>1, <4>1
      <4>3. QED
        BY <1>s, <4>2
    <3>2. h = [n \in 0..N |-> h[n]] /\ h[0] = Nothing
      BY <2>1
    <3>3. QED
      BY <3>1, <3>2
  <2>4. u = Rec(u)
    BY <2>3
  <2> HIDE DEF u
  <2>5. u[0] = Nothing
    BY <2>0, <2>4
  <2>6. ASSUME NEW n \in 1..N, u[n - 1] \in Reqs PROVE u[n] = step[u[n - 1]][t[n]]
    <3>1. n \in 0..N /\ n # 0 /\ t[n] \in Words
      BY <2>0
    <3>2. u[n] = ImportWord(u[n - 1], t[n])
      BY <2>4, <3>1
    <3>3. QED
      BY <1>s, <2>6, <3>1, <3>2
  <2>7. u[Len(t)] = f[t]
    <3>1. Follows(u, t, Reqs, Nothing, step)
      BY <2>5, <2>6 DEF Follows, N
    <3>2. QED
      BY <1>0, <1>1, <2>0, <3>1, FoldComputes, SMTT(60)
  <2>8. QED
    BY <2>2, <2>7 DEF N
<1>5. QED
  BY <1>2, <1>3, <1>4

(* And option by option.                                                   *)
Reads(g) ==
  /\ g \in [Seq(Options) -> Reqs] /\ g[<<>>] = Nothing
  /\ \A os \in Seq(Options), o \in Options : g[Append(os, o)] = Does(g[os], o)
  /\ \A os \in Seq(Options) : Import(os) = Made(g[os])

LEMMA OptionWords ==
  ASSUME NEW o \in Options
  PROVE  \/ Len(o) = 1 /\ o = <<o[1]>> /\ o[1] \in Words
         \/ Len(o) = 2 /\ o = <<o[1], o[2]>> /\ o[1] \in Words /\ o[2] \in Words
BY OptionTable, Zenon DEF One, Two, Told

LEMMA OptionsAreRead == \E g : Reads(g)
<1>1. PICK f : /\ f \in [Seq(Words) -> Reqs] /\ f[<<>>] = Nothing
               /\ \A ws \in Seq(Words), w \in Words : f[Append(ws, w)] = ImportWord(f[ws], w)
               /\ \A ws \in Seq(Words) : importCurl(ws) = Made(f[ws])
  BY WordsAreRead
<1> DEFINE g == [os \in Seq(Options) |-> f[Flat(os)]]
<1>2. ASSUME NEW o \in Options PROVE o \in Seq(Words)
  <2>1. \A w, x \in Words : <<w>> \in Seq(Words) /\ <<w, x>> \in Seq(Words)
    OBVIOUS
  <2>2. QED
    BY <2>1, OptionWords, Zenon
<1>3. Seq(Options) \subseteq Seq(Seq(Words))
  BY <1>2
<1>4. Flat(<<>>) = <<>> /\ \A os \in Seq(Options) : Flat(os) \in Seq(Words)
  BY <1>3, FlatFacts
<1>5. g \in [Seq(Options) -> Reqs]
  BY <1>1, <1>4
<1>6. g[<<>>] = Nothing
  <2>1. <<>> \in Seq(Options)
    OBVIOUS
  <2>2. QED
    BY <1>1, <1>4, <2>1
<1>7. ASSUME NEW os \in Seq(Options), NEW o \in Options PROVE g[Append(os, o)] = Does(g[os], o)
  <2> DEFINE t == Flat(os)
  <2>1. Append(os, o) \in Seq(Options) /\ t \in Seq(Words)
    BY <1>4
  <2>2. Flat(Append(os, o)) = t \o o
    BY <1>2, <1>3, FlatFacts
  <2>3. g[Append(os, o)] = f[t \o o] /\ g[os] = f[t]
    BY <2>1, <2>2
  <2> HIDE DEF t, g
  <2>4. CASE Len(o) = 1 /\ o = <<o[1]>> /\ o[1] \in Words
    <3>1. t \o o = Append(t, o[1])
      <4> DEFINE w == o[1]
      <4>1. w \in Words /\ o = <<w>>
        BY <2>4
      <4> HIDE DEF w
      <4>2. t \o <<w>> = Append(t, w)
        BY <2>1, <4>1
      <4>3. QED
        BY <4>1, <4>2 DEF w
    <3>2. f[Append(t, o[1])] = ImportWord(f[t], o[1])
      BY <1>1, <2>1, <2>4
    <3>3. Does(f[t], o) = ImportWord(f[t], o[1])
      BY <2>4 DEF Does
    <3>4. QED
      BY <2>3, <3>1, <3>2, <3>3
  <2>5. CASE Len(o) = 2 /\ o = <<o[1], o[2]>> /\ o[1] \in Words /\ o[2] \in Words
    <3>1. t \o o = Append(Append(t, o[1]), o[2]) /\ Append(t, o[1]) \in Seq(Words)
      <4> DEFINE w == o[1]
                 x == o[2]
      <4>1. w \in Words /\ x \in Words /\ o = <<w, x>>
        BY <2>5
      <4> HIDE DEF w, x
      <4>2. t \o <<w, x>> = Append(Append(t, w), x) /\ Append(t, w) \in Seq(Words)
        BY <2>1, <4>1
      <4>3. QED
        BY <4>1, <4>2 DEF w, x
    <3>2. f[Append(Append(t, o[1]), o[2])] = ImportWord(ImportWord(f[t], o[1]), o[2])
      BY <1>1, <2>1, <2>5, <3>1
    <3>3. Does(f[t], o) = ImportWord(ImportWord(f[t], o[1]), o[2])
      BY <2>5 DEF Does
    <3>4. QED
      BY <2>3, <3>1, <3>2, <3>3
  <2>6. QED
    BY <2>4, <2>5, OptionWords
<1>8. \A os \in Seq(Options) : Import(os) = Made(g[os])
  BY <1>1, <1>4 DEF Import
<1>9. QED
  <2> HIDE DEF g
  <2>1. Reads(g)
    BY <1>5, <1>6, <1>7, <1>8 DEF Reads
  <2>2. QED
    BY <2>1

-----------------------------------------------------------------------------
(* What an option can ask for.                                             *)
LEMMA OptionAsks ==
  ASSUME NEW o \in Options
  PROVE  /\ Value(o) \in Names /\ MethodOf(o) \in Names /\ DataOf(o) \in Seq(Names) /\ HeaderOf(o) \in Seq(Names)
         /\ UrlOf(o) \in {NoText, "http://a"} /\ UserOf(o) \in {NoText, "me"}
         /\ Kind(o) = "method" => Value(o) # NoText /\ MethodOf(o) = Value(o)
         /\ Kind(o) # "method" => MethodOf(o) = NoText
         /\ Kind(o) # "body" => DataOf(o) = <<>>
         /\ Kind(o) # "header" => HeaderOf(o) = <<>>
<1>1. Value(o) \in Names
  BY OptionWords DEF Value, Words
<1>2. Kind(o) = "method" => Value(o) # NoText
  <2>1. Kind(o) = "method" => o[1].name \in {"X", "request"}
    BY KindIs
  <2>2. o[1].name \in {"X", "request"} => One(o, "long", "request", "PATCH", FALSE) \/ Two(o, "short", "X", "PUT")
    BY OptionTable DEF One, Two, Told
  <2>3. One(o, "long", "request", "PATCH", FALSE) => Value(o) = "PATCH"
    BY DEF One, Told, Value
  <2>4. Two(o, "short", "X", "PUT") => Value(o) = "PUT"
    BY DEF Two, Told, Value
  <2>5. QED
    BY <2>1, <2>2, <2>3, <2>4, Blanks
<1>3. <<>> \in Seq(Names) /\ <<Value(o)>> \in Seq(Names) /\ NoText \in Names
  BY <1>1 DEF Names
<1>4. QED
  BY <1>1, <1>2, <1>3 DEF MethodOf, DataOf, HeaderOf, UrlOf, UserOf

LEMMA OptionEaten ==
  ASSUME NEW r, Idle(r), NEW o \in Options, r.waits = "unknown", ~Dash(o[1])
  PROVE  Does(r, o) = SetWaits(r, None) /\ ~Unknown(o)
<1>1. One(o, "bare", "http://a", NoText, FALSE)
  BY OptionTable DEF One, Two, Told, Dash
<1>2. Len(o) = 1 /\ o[1].name = "http://a"
  BY <1>1 DEF One, Told
<1>3. Does(r, o) = ImportWord(r, o[1])
  BY <1>2 DEF Does
<1>4. ImportWord(r, o[1]) = SetWaits(r, None)
  BY WordIs
<1>5. QED
  BY <1>2, <1>3, <1>4 DEF Unknown

LEMMA UnknownDashes ==
  ASSUME NEW o \in Options, Unknown(o)
  PROVE  Dash(o[1])
BY OptionTable DEF One, Two, Told, Dash, Unknown

-----------------------------------------------------------------------------
(* Between two options nothing waits but an unknown option's value.        *)
LEMMA Waits ==
  ASSUME NEW r, Idle(r), NEW o \in Options
  PROVE  Idle(Does(r, o)) /\ (Does(r, o).waits = IF Unknown(o) THEN "unknown" ELSE None)
<1>1. CASE r.waits = None \/ Dash(o[1])
  <2>1. Effect(r, o, Does(r, o))
    BY <1>1, OptionDoes
  <2>2. QED
    BY <2>1 DEF Effect, Idle
<1>2. CASE r.waits = "unknown" /\ ~Dash(o[1])
  <2>1. Does(r, o) = SetWaits(r, None) /\ ~Unknown(o)
    BY <1>2, OptionEaten
  <2>2. None \in Names /\ r \in Reqs
    BY DEF Names, Idle
  <2>3. SetWaits(r, None) \in Reqs /\ SetWaits(r, None).waits = None
    BY <2>2, SetWaitsIs DEF Is
  <2>4. QED
    BY <2>1, <2>3 DEF Idle
<1>3. QED
  BY <1>1, <1>2 DEF Idle

AllKnown(os) == \A k \in DOMAIN os : ~Unknown(os[k])

LEMMA AlwaysIdle ==
  ASSUME NEW g, Reads(g), NEW os \in Seq(Options)
  PROVE  Idle(g[os]) /\ (AllKnown(os) => g[os].waits = None)
<1> DEFINE T == {t \in Seq(Options) : Idle(g[t]) /\ (AllKnown(t) => g[t].waits = None)}
<1>1. <<>> \in T
  BY NothingIs DEF Reads, Idle
<1>2. ASSUME NEW t \in Seq(Options), NEW o \in Options, t \in T PROVE Append(t, o) \in T
  <2>1. g[Append(t, o)] = Does(g[t], o) /\ Append(t, o) \in Seq(Options)
    BY DEF Reads
  <2>2. Idle(g[t])
    BY <1>2
  <2>3. Idle(Does(g[t], o)) /\ (~Unknown(o) => Does(g[t], o).waits = None)
    BY <2>2, Waits
  <2>4. AllKnown(Append(t, o)) => ~Unknown(o)
    <3>1. Len(t) + 1 \in DOMAIN Append(t, o) /\ Append(t, o)[Len(t) + 1] = o
      OBVIOUS
    <3>2. QED
      BY <3>1 DEF AllKnown
  <2>5. QED
    BY <2>1, <2>3, <2>4
<1> HIDE DEF T
<1>3. Seq(Options) \subseteq T
  BY <1>1, <1>2, SeqSet
<1>4. QED
  BY <1>3 DEF T

-----------------------------------------------------------------------------
Trade(s, p, q) == (s \o p) \o q = (s \o q) \o p

(* Two options that say different things may change places.                *)
LEMMA Exchange ==
  ASSUME NEW r, Idle(r), r.waits = None, NEW a \in Options, NEW b \in Options, ~Unknown(a), ~Unknown(b),
         Kind(a) # Kind(b) \/ Kind(a) = "other"
  PROVE  Does(Does(r, a), b) = Does(Does(r, b), a)
<1> DEFINE x == Does(r, a)
           y == Does(r, b)
           v == Does(x, b)
           w == Does(y, a)
<1>1. Effect(r, a, x) /\ Effect(r, b, y)
  BY OptionDoes
<1>2. Idle(x) /\ x.waits = None /\ Idle(y) /\ y.waits = None
  BY Waits
<1> HIDE DEF x, y
<1>3. Effect(x, b, v) /\ Effect(y, a, w)
  BY <1>2, OptionDoes
<1> HIDE DEF v, w
<1>4. r \in Reqs /\ v \in Reqs /\ w \in Reqs
  BY <1>3 DEF Effect, Idle
<1>5. MethodOf(a) = NoText \/ MethodOf(b) = NoText
  BY OptionAsks
<1>6. v.method = w.method /\ v.url = w.url /\ v.user = w.user /\ v.waits = w.waits
  <2>1. UrlOf(a) \in {NoText, "http://a"} /\ UrlOf(b) \in {NoText, "http://a"} /\ UserOf(a) \in {NoText, "me"} /\ UserOf(b) \in {NoText, "me"}
    BY OptionAsks
  <2>2. v.method = w.method
    BY <1>1, <1>3, <1>5 DEF Effect
  <2>3. v.url = w.url
    BY <1>1, <1>3, <2>1, Blanks DEF Effect
  <2>4. v.user = w.user
    BY <1>1, <1>3, <2>1, Blanks DEF Effect
  <2>5. v.waits = w.waits
    BY <1>1, <1>3 DEF Effect
  <2>6. QED
    BY <2>2, <2>3, <2>4, <2>5
<1>7. \A s, p, q \in Seq(Names) : p = <<>> \/ q = <<>> => Trade(s, p, q)
  <2>1. ASSUME NEW s \in Seq(Names), NEW p \in Seq(Names), NEW q \in Seq(Names), p = <<>> \/ q = <<>>
        PROVE  (s \o p) \o q = (s \o q) \o p
    <3>1. s \o <<>> = s /\ (s \o p) \o <<>> = s \o p /\ (s \o q) \o <<>> = s \o q
      <4>1. s \o p \in Seq(Names) /\ s \o q \in Seq(Names)
        <5> DEFINE A == Names
        <5>1. s \in Seq(A) /\ p \in Seq(A) /\ q \in Seq(A)
          OBVIOUS
        <5> HIDE DEF A
        <5>2. s \o p \in Seq(A) /\ s \o q \in Seq(A)
          BY <5>1
        <5>3. QED
          BY <5>2 DEF A
      <4>2. QED
        BY <4>1, NothingAdded, Zenon
    <3>2. QED
      BY <2>1, <3>1, Zenon
  <2>2. QED
    BY <2>1, Zenon DEF Trade
<1>8. v.body = w.body /\ v.headers = w.headers
  <2>1. /\ DataOf(a) \in Seq(Names) /\ DataOf(b) \in Seq(Names) /\ HeaderOf(a) \in Seq(Names) /\ HeaderOf(b) \in Seq(Names)
        /\ (DataOf(a) = <<>> \/ DataOf(b) = <<>>) /\ (HeaderOf(a) = <<>> \/ HeaderOf(b) = <<>>)
    BY OptionAsks
  <2>2. r.body \in Seq(Names) /\ r.headers \in Seq(Names)
    BY <1>4, ReqFields
  <2>3. v.body = (r.body \o DataOf(a)) \o DataOf(b) /\ w.body = (r.body \o DataOf(b)) \o DataOf(a)
    BY <1>1, <1>3, Zenon DEF Effect
  <2>4. v.headers = (r.headers \o HeaderOf(a)) \o HeaderOf(b) /\ w.headers = (r.headers \o HeaderOf(b)) \o HeaderOf(a)
    BY <1>1, <1>3, Zenon DEF Effect
  <2>5. Trade(r.body, DataOf(a), DataOf(b))
    BY <1>7, <2>1, <2>2, Zenon
  <2>6. Trade(r.headers, HeaderOf(a), HeaderOf(b))
    BY <1>7, <2>1, <2>2, Zenon
  <2>7. QED
    BY <2>3, <2>4, <2>5, <2>6, Zenon DEF Trade
<1>9. v.head = w.head /\ v.get = w.get /\ v.insecure = w.insecure
  <2>1. v.head \in BOOLEAN /\ w.head \in BOOLEAN /\ v.get \in BOOLEAN /\ w.get \in BOOLEAN /\ v.insecure \in BOOLEAN /\ w.insecure \in BOOLEAN
    BY <1>4, ReqFields
  <2>2. (v.head <=> w.head) /\ (v.get <=> w.get) /\ (v.insecure <=> w.insecure)
    BY <1>1, <1>3 DEF Effect
  <2>3. QED
    BY <2>1, <2>2
<1>10. v = w
  <2>1. Is(w, v.method, v.url, v.body, v.user, v.headers, v.head, v.get, v.insecure, v.waits)
    BY <1>4, <1>6, <1>8, <1>9, Zenon DEF Is
  <2>2. QED
    BY <1>4, <2>1, ReqsEqual, Zenon
<1>11. QED
  BY <1>10 DEF v, w, x, y

(* An option that is not known leaves no trace on one with a dash.         *)
LEMMA Traceless ==
  ASSUME NEW r, Idle(r), NEW a \in Options, NEW b \in Options, Unknown(a), Dash(b[1])
  PROVE  Does(Does(r, a), b) = Does(r, b)
<1> DEFINE x == Does(r, a)
           v == Does(x, b)
           w == Does(r, b)
<1>1. Effect(r, a, x)
  BY UnknownDashes, OptionDoes
<1>2. Idle(x)
  BY Waits
<1> HIDE DEF x
<1>3. Effect(x, b, v) /\ Effect(r, b, w)
  BY <1>2, OptionDoes
<1> HIDE DEF v, w
<1>4. r \in Reqs /\ x \in Reqs /\ v \in Reqs /\ w \in Reqs
  BY <1>2, <1>3 DEF Effect, Idle
<1>5. One(a, "long", "http2", NoText, FALSE)
  BY OptionTable DEF One, Two, Told, Unknown
<1>6. a[1].name = "http2" /\ a[1].k = FALSE /\ Kind(a) = "other"
  BY <1>5, KindIs DEF One, Told
<1>7. /\ MethodOf(a) = NoText /\ UrlOf(a) = NoText /\ DataOf(a) = <<>> /\ UserOf(a) = NoText /\ HeaderOf(a) = <<>>
      /\ ~Insecure(a) /\ a[1].name # "I" /\ a[1].name # "get"
  BY <1>6 DEF MethodOf, UrlOf, DataOf, UserOf, HeaderOf, Insecure
<1>8. /\ x.method = r.method /\ x.url = r.url /\ x.body = r.body /\ x.user = r.user /\ x.headers = r.headers
      /\ (x.head <=> r.head) /\ (x.get <=> r.get) /\ (x.insecure <=> r.insecure)
  <2>1. r.body \in Seq(Names) /\ r.headers \in Seq(Names)
    BY <1>4, ReqFields
  <2>2. r.body \o <<>> = r.body /\ r.headers \o <<>> = r.headers
    BY <2>1, NothingAdded
  <2>3. QED
    BY <1>1, <1>7, <2>2, Blanks DEF Effect
<1>9. /\ v.method = w.method /\ v.url = w.url /\ v.body = w.body /\ v.user = w.user /\ v.headers = w.headers
      /\ (v.head <=> w.head) /\ (v.get <=> w.get) /\ (v.insecure <=> w.insecure) /\ v.waits = w.waits
  BY <1>3, <1>8 DEF Effect
<1>10. v.head \in BOOLEAN /\ w.head \in BOOLEAN /\ v.get \in BOOLEAN /\ w.get \in BOOLEAN /\ v.insecure \in BOOLEAN /\ w.insecure \in BOOLEAN
  BY <1>4, ReqFields
<1>11. v.head = w.head /\ v.get = w.get /\ v.insecure = w.insecure
  BY <1>9, <1>10
<1>12. v = w
  <2>1. Is(w, v.method, v.url, v.body, v.user, v.headers, v.head, v.get, v.insecure, v.waits)
    BY <1>4, <1>9, <1>11, Zenon DEF Is
  <2>2. QED
    BY <1>4, <2>1, ReqsEqual, Zenon
<1>13. QED
  BY <1>12 DEF v, w, x

-----------------------------------------------------------------------------
(* What two options did alike, the rest of the command cannot tell apart.  *)
LEMMA SameRest ==
  ASSUME NEW g, Reads(g), NEW x \in Seq(Options), NEW y \in Seq(Options), g[x] = g[y], NEW q \in Seq(Options)
  PROVE  g[x \o q] = g[y \o q]
<1> DEFINE T == {t \in Seq(Options) : g[x \o t] = g[y \o t]}
<1>1. <<>> \in T
  <2>1. <<>> \in Seq(Options)
    OBVIOUS
  <2>2. \A t \in Seq(Options) : t \o <<>> = t
    <3> DEFINE A == Options
    <3> HIDE DEF A
    <3>1. \A t \in Seq(A) : t \o <<>> = t
      OBVIOUS
    <3>2. QED
      BY <3>1 DEF A
  <2>3. x \o <<>> = x /\ y \o <<>> = y
    BY <2>2
  <2>4. QED
    BY <2>1, <2>3
<1>2. ASSUME NEW t \in Seq(Options), NEW o \in Options, t \in T PROVE Append(t, o) \in T
  <2>1. x \o t \in Seq(Options) /\ y \o t \in Seq(Options) /\ Append(t, o) \in Seq(Options)
    OBVIOUS
  <2>2. x \o Append(t, o) = Append(x \o t, o) /\ y \o Append(t, o) = Append(y \o t, o)
    <3>1. \A u, v \in Seq(Options) : u \o Append(v, o) = Append(u \o v, o)
      <4> DEFINE A == Options
      <4>1. o \in A
        OBVIOUS
      <4> HIDE DEF A
      <4>2. \A u, v \in Seq(A) : u \o Append(v, o) = Append(u \o v, o)
        BY <4>1
      <4>3. QED
        BY <4>2 DEF A
    <3>2. QED
      BY <3>1, Zenon
  <2>3. g[Append(x \o t, o)] = Does(g[x \o t], o) /\ g[Append(y \o t, o)] = Does(g[y \o t], o)
    BY <2>1 DEF Reads
  <2>4. g[x \o t] = g[y \o t]
    BY <1>2
  <2>5. QED
    BY <2>1, <2>2, <2>3, <2>4
<1> HIDE DEF T
<1>3. Seq(Options) \subseteq T
  BY <1>1, <1>2, SeqSet
<1>4. QED
  BY <1>3 DEF T

(* A command around two neighbours.                                        *)
Neighbours(s, i, p, a, b, q) ==
  /\ s = Append(Append(p, a), b) \o q
  /\ Swapped(s, i) = Append(Append(p, b), a) \o q
  /\ RemoveAt(s, i) = Append(p, b) \o q
  /\ \A k \in DOMAIN p : k \in DOMAIN s /\ p[k] = s[k]

Holds(x, p, c, d, q) == x = Append(Append(p, c), d) \o q

From(x, q, n) == \A k \in 1..Len(q) : x[n + k] = q[k]

LEMMA Inside ==
  ASSUME NEW S, NEW p \in Seq(S), NEW q \in Seq(S), NEW c \in S, NEW d \in S, NEW x, Holds(x, p, c, d, q)
  PROVE  /\ x \in Seq(S) /\ Len(x) = Len(p) + 2 + Len(q) /\ x[Len(p) + 1] = c /\ x[Len(p) + 2] = d
         /\ \A k \in 1..Len(p) : x[k] = p[k]
         /\ From(x, q, Len(p) + 2)
<1> DEFINE t == Append(Append(p, c), d)
           i == Len(p)
<1>1. t \in Seq(S) /\ Len(t) = i + 2 /\ t[i + 1] = c /\ t[i + 2] = d /\ i \in Nat /\ \A k \in 1..i : t[k] = p[k]
  OBVIOUS
<1> HIDE DEF t, i
<1>2. Joins(x, t, q)
  BY DEF Joins, Holds, t
<1>3. /\ x \in Seq(S) /\ Len(x) = Len(t) + Len(q) /\ Len(q) \in Nat
      /\ \A k \in 1..Len(t) : x[k] = t[k]
      /\ \A k \in 1..Len(q) : x[Len(t) + k] = q[k]
  <2>1. t \in Seq(S) /\ q \in Seq(S)
    BY <1>1
  <2>2. x = t \o q
    BY <1>2 DEF Joins
  <2>3. /\ t \o q \in Seq(S) /\ Len(t \o q) = Len(t) + Len(q) /\ Len(q) \in Nat
        /\ \A k \in 1..Len(t) : (t \o q)[k] = t[k]
        /\ \A k \in 1..Len(q) : (t \o q)[Len(t) + k] = q[k]
    BY <2>1
  <2>4. QED
    BY <2>2, <2>3, Zenon
<1>4. i + 1 \in 1..Len(t) /\ i + 2 \in 1..Len(t) /\ \A k \in 1..i : k \in 1..Len(t)
  BY <1>1
<1>5. x[i + 1] = c /\ x[i + 2] = d /\ \A k \in 1..i : x[k] = p[k]
  BY <1>1, <1>3, <1>4
<1>6. Len(x) = i + 2 + Len(q) /\ From(x, q, i + 2)
  BY <1>1, <1>3 DEF From
<1>7. QED
  BY <1>3, <1>5, <1>6 DEF i

LEMMA Around ==
  ASSUME NEW S, NEW s \in Seq(S), NEW i \in 1..(Len(s) - 1)
  PROVE  /\ s[i] \in S /\ s[i + 1] \in S
         /\ \E p, q \in Seq(S) : Neighbours(s, i, p, s[i], s[i + 1], q)
<1> DEFINE n == Len(s)
           p == SubSeq(s, 1, i - 1)
           q == SubSeq(s, i + 2, n)
           a == s[i]
           b == s[i + 1]
<1>1. n \in Nat /\ i \in Nat /\ i >= 1 /\ i + 1 <= n /\ a \in S /\ b \in S
  OBVIOUS
<1>2. p \in Seq(S) /\ Len(p) = i - 1 /\ \A k \in 1..(i - 1) : p[k] = s[k]
  OBVIOUS
<1>3. q \in Seq(S) /\ Len(q) = n - i - 1 /\ \A k \in 1..(n - i - 1) : q[k] = s[i + 1 + k]
  OBVIOUS
<1> HIDE DEF n, p, q, a, b
<1>4. i = Len(p) + 1
  BY <1>1, <1>2
<1>s. p \in Seq(S) /\ q \in Seq(S) /\ a \in S /\ b \in S /\ i \in Nat /\ i = Len(p) + 1
  BY <1>1, <1>2, <1>3, <1>4
<1>5. ASSUME NEW k \in 1..n PROVE k \in 1..(i - 1) \/ k = i \/ k = i + 1 \/ (k - (i + 1) \in 1..Len(q) /\ i + 1 + (k - (i + 1)) = k)
  BY <1>1, <1>3
<1>6. s = Append(Append(p, a), b) \o q
  <2> DEFINE x == Append(Append(p, a), b) \o q
  <2>0. Holds(x, p, a, b, q)
    BY DEF Holds
  <2> HIDE DEF x
  <2>1. /\ x \in Seq(S) /\ Len(x) = i + 1 + Len(q) /\ x[i] = a /\ x[i + 1] = b
        /\ \A k \in 1..(i - 1) : x[k] = p[k]
        /\ From(x, q, i + 1)
    <3>1. /\ x \in Seq(S) /\ Len(x) = Len(p) + 2 + Len(q) /\ x[Len(p) + 1] = a /\ x[Len(p) + 2] = b
          /\ \A k \in 1..Len(p) : x[k] = p[k]
          /\ From(x, q, Len(p) + 2)
      BY <1>s, <2>0, Inside, Zenon
    <3>2. Len(p) = i - 1 /\ Len(p) + 1 = i /\ Len(p) + 2 = i + 1 /\ Len(q) \in Nat
      BY <1>s, <1>1
    <3>3. QED
      BY <3>1, <3>2
  <2>2. Len(x) = n
    BY <1>1, <1>3, <2>1
  <2>3. ASSUME NEW k \in 1..n PROVE x[k] = s[k]
    <3>1. CASE k \in 1..(i - 1)
      BY <1>2, <2>1, <3>1
    <3>2. CASE k = i \/ k = i + 1
      BY <2>1, <3>2 DEF a, b
    <3>3. CASE k - (i + 1) \in 1..Len(q) /\ i + 1 + (k - (i + 1)) = k
      BY <1>3, <2>1, <3>3 DEF From
    <3>4. QED
      BY <1>5, <3>1, <3>2, <3>3
  <2>4. x = s
    BY <2>1, <2>2, <2>3, SameSeq DEF n
  <2>5. QED
    BY <2>4 DEF x
<1>7. Swapped(s, i) = Append(Append(p, b), a) \o q
  <2> DEFINE x == Append(Append(p, b), a) \o q
             z == Swapped(s, i)
  <2>0. Holds(x, p, b, a, q)
    BY DEF Holds
  <2> HIDE DEF x
  <2>1. /\ x \in Seq(S) /\ Len(x) = i + 1 + Len(q) /\ x[i] = b /\ x[i + 1] = a
        /\ \A k \in 1..(i - 1) : x[k] = p[k]
        /\ From(x, q, i + 1)
    <3>1. /\ x \in Seq(S) /\ Len(x) = Len(p) + 2 + Len(q) /\ x[Len(p) + 1] = b /\ x[Len(p) + 2] = a
          /\ \A k \in 1..Len(p) : x[k] = p[k]
          /\ From(x, q, Len(p) + 2)
      BY <1>s, <2>0, Inside, Zenon
    <3>2. Len(p) = i - 1 /\ Len(p) + 1 = i /\ Len(p) + 2 = i + 1 /\ Len(q) \in Nat
      BY <1>s, <1>1
    <3>3. QED
      BY <3>1, <3>2
  <2>z. z = [k \in 1..n |-> IF k = i THEN b ELSE IF k = i + 1 THEN a ELSE s[k]]
    <3>1. DOMAIN s = 1..n
      BY DEF n
    <3>2. QED
      BY <3>1 DEF Swapped, a, b
  <2>y. \A k \in 1..n : s[k] \in S
    BY DEF n
  <2> HIDE DEF z
  <2>2. z \in [1..n -> S]
    BY <1>1, <2>z, <2>y
  <2>3. z \in Seq(S) /\ Len(z) = n /\ Len(x) = n
    <3>1. z \in Seq(S) /\ Len(z) = n
      BY <1>1, <2>2, IsSeq
    <3>2. Len(x) = n
      BY <1>1, <1>3, <2>1
    <3>3. QED
      BY <3>1, <3>2
  <2>4. ASSUME NEW k \in 1..n PROVE x[k] = z[k]
    <3>1. CASE k \in 1..(i - 1)
      BY <1>1, <1>2, <2>1, <2>z, <3>1
    <3>2. CASE k = i \/ k = i + 1
      BY <1>1, <2>1, <2>z, <3>2
    <3>3. CASE k - (i + 1) \in 1..Len(q) /\ i + 1 + (k - (i + 1)) = k
      <4>1. z[k] = s[k]
        BY <1>1, <2>z, <3>3
      <4>2. QED
        BY <1>3, <2>1, <3>3, <4>1 DEF From
    <3>4. QED
      BY <1>5, <3>1, <3>2, <3>3
  <2>5. x = z
    BY <2>1, <2>3, <2>4, SameSeq
  <2>6. QED
    BY <2>5 DEF x, z
<1>8. RemoveAt(s, i) = Append(p, b) \o q
  <2> DEFINE r == SubSeq(s, i + 1, n)
             e == <<b>>
  <2>1. r \in Seq(S) /\ Len(r) = n - i /\ \A k \in 1..(n - i) : r[k] = s[i + k]
    BY <1>1 DEF n
  <2>2. RemoveAt(s, i) = p \o r
    BY DEF RemoveAt, p, n
  <2>3. e \in Seq(S) /\ Len(e) = 1 /\ e[1] = b /\ p \o e = Append(p, b)
    BY <1>1, <1>2
  <2> HIDE DEF r, e
  <2>4. Joins(r, e, q)
    <3>1. Len(r) = Len(e) + Len(q) /\ Len(q) = n - i - 1
      BY <1>1, <1>3, <2>1, <2>3
    <3>2. \A k \in 1..Len(e) : r[k] = e[k]
      BY <1>1, <2>1, <2>3 DEF b
    <3>3. ASSUME NEW k \in 1..Len(q) PROVE r[Len(e) + k] = q[k]
      <4>1. Len(e) + k \in 1..(n - i) /\ i + (Len(e) + k) = i + 1 + k /\ k \in 1..(n - i - 1)
        BY <1>1, <2>3, <3>1
      <4>2. QED
        BY <1>3, <2>1, <4>1
    <3>4. QED
      BY <1>3, <2>1, <2>3, <3>1, <3>2, <3>3, IsJoin
  <2>5. p \o (e \o q) = (p \o e) \o q
    <3>1. p \in Seq(S) /\ e \in Seq(S) /\ q \in Seq(S)
      BY <1>2, <1>3, <2>3
    <3> HIDE DEF n
    <3>2. (p \o e) \o q = p \o (e \o q)
      <4>1. Associate(p, e, q)
        BY <3>1, JoinsAssociate, Zenon
      <4>2. QED
        BY <4>1 DEF Associate
    <3>3. QED
      BY <3>2
  <2>6. QED
    BY <2>2, <2>3, <2>4, <2>5 DEF Joins
<1>p. DOMAIN p = 1..(i - 1) /\ DOMAIN s = 1..n /\ \A k \in 1..(i - 1) : k \in 1..n
  BY <1>1, <1>2 DEF n
<1>9. Neighbours(s, i, p, a, b, q)
  BY <1>2, <1>6, <1>7, <1>8, <1>p DEF Neighbours
<1>10. QED
  BY <1>1, <1>2, <1>3, <1>9 DEF a, b

-----------------------------------------------------------------------------
(* Options may come in any order.                                          *)
LEMMA OptionsMayMove ==
  ASSUME options \in Seq(Options)
  PROVE  OptionsCommute
<1>0. PICK g : Reads(g)
  BY OptionsAreRead
<1> SUFFICES ASSUME NEW i \in 1..(Len(options) - 1)
             PROVE  LET a == options[i]  b == options[i + 1] IN
                    /\ (Kind(a) # Kind(b) \/ Kind(a) = "other") /\ (\A k \in DOMAIN options : ~Unknown(options[k])) =>
                         Import(options) = Import(Swapped(options, i))
                    /\ Unknown(a) /\ Dash(b[1]) => Import(options) = Import(RemoveAt(options, i))
  BY DEF OptionsCommute
<1> DEFINE a == options[i]
           b == options[i + 1]
<1>a. a \in Options /\ b \in Options /\ \E p, q \in Seq(Options) : Neighbours(options, i, p, a, b, q)
  BY Around
<1>p. PICK p \in Seq(Options), q \in Seq(Options) : Neighbours(options, i, p, a, b, q)
  BY <1>a
<1> DEFINE ab == Append(Append(p, a), b)
           ba == Append(Append(p, b), a)
           o == Append(p, b)
<1>1. /\ p \in Seq(Options) /\ q \in Seq(Options) /\ a \in Options /\ b \in Options
      /\ options = ab \o q /\ Swapped(options, i) = ba \o q /\ RemoveAt(options, i) = o \o q
  BY <1>a, <1>p, Zenon DEF Neighbours
<1>2. i \in DOMAIN options /\ i + 1 \in DOMAIN options /\ Len(options) \in Nat
  OBVIOUS
<1>d. \A k \in DOMAIN p : k \in DOMAIN options /\ p[k] = options[k]
  BY <1>p, Zenon DEF Neighbours
<1>k. AllKnown(options) => AllKnown(p) /\ ~Unknown(a) /\ ~Unknown(b)
  BY <1>2, <1>d DEF AllKnown
<1> HIDE DEF a, b
<1>3. ab \in Seq(Options) /\ ba \in Seq(Options) /\ o \in Seq(Options) /\ Append(p, a) \in Seq(Options)
  BY <1>1
<1>4. /\ g[ab] = Does(g[Append(p, a)], b) /\ g[ba] = Does(g[o], a)
      /\ g[Append(p, a)] = Does(g[p], a) /\ g[o] = Does(g[p], b)
  BY <1>0, <1>1, <1>3 DEF Reads
<1>5. Idle(g[p]) /\ (AllKnown(p) => g[p].waits = None)
  BY <1>0, <1>1, AlwaysIdle
<1> HIDE DEF ab, ba, o
<1>6. \A t \in Seq(Options) : Import(t) = Made(g[t])
  BY <1>0 DEF Reads
<1>7. ab \o q \in Seq(Options) /\ ba \o q \in Seq(Options) /\ o \o q \in Seq(Options)
  BY <1>1, <1>3
<1>8. ASSUME Kind(a) # Kind(b) \/ Kind(a) = "other", AllKnown(options)
      PROVE  Import(options) = Import(Swapped(options, i))
  <2>1. Does(Does(g[p], a), b) = Does(Does(g[p], b), a)
    BY <1>1, <1>k, <1>5, <1>8, Exchange
  <2>2. g[ab] = g[ba]
    BY <1>4, <2>1
  <2>3. g[ab \o q] = g[ba \o q]
    BY <1>0, <1>1, <1>3, <2>2, SameRest
  <2>4. QED
    BY <1>1, <1>6, <1>7, <2>3
<1>9. ASSUME Unknown(a), Dash(b[1]) PROVE Import(options) = Import(RemoveAt(options, i))
  <2>1. Does(Does(g[p], a), b) = Does(g[p], b)
    BY <1>1, <1>5, <1>9, Traceless
  <2>2. g[ab] = g[o]
    BY <1>4, <2>1
  <2>3. g[ab \o q] = g[o \o q]
    BY <1>0, <1>1, <1>3, <2>2, SameRest
  <2>4. QED
    BY <1>1, <1>6, <1>7, <2>3
<1>10. (\A k \in DOMAIN options : ~Unknown(options[k])) => AllKnown(options)
  BY DEF AllKnown
<1>11. QED
  BY <1>8, <1>9, <1>10 DEF a, b

-----------------------------------------------------------------------------
(* The options of a command that say one kind of thing.                    *)
PickedMore(s, e, I) ==
  /\ Picked(Append(s, e), I) = Picked(s, I)
  /\ Picked(Append(s, e), I \cup {Len(s) + 1}) = Append(Picked(s, I), e)
SayIn(os, kind) == {i \in DOMAIN os : Kind(os[i]) = kind}
Said(os, kind) == Picked(os, SayIn(os, kind))

LEMMA SaidFacts ==
  ASSUME NEW os \in Seq(Options), NEW kind
  PROVE  /\ Said(os, kind) \in Seq(Options)
         /\ \A k \in DOMAIN Said(os, kind) : Kind(Said(os, kind)[k]) = kind
         /\ \A o \in Options : Said(Append(os, o), kind) =
              IF Kind(o) = kind THEN Append(Said(os, kind), o) ELSE Said(os, kind)
<1> DEFINE I == SayIn(os, kind)
           s == Said(os, kind)
<1>1. I \in SUBSET (1..Len(os)) /\ Len(os) \in Nat /\ \A i \in I : Kind(os[i]) = kind
  BY DEF SayIn
<1>0. s = Picked(os, I)
  BY DEF Said
<1> HIDE DEF I, s
<1>2. s \in Seq(Options) /\ {s[k] : k \in DOMAIN s} = {os[i] : i \in I}
  <2>1. Picked(os, I) \in Seq(Options) /\ {Picked(os, I)[k] : k \in DOMAIN Picked(os, I)} = {os[i] : i \in I}
    BY <1>1, PickedFacts, Zenon
  <2>2. QED
    BY <1>0, <2>1, Zenon
<1>3. \A k \in DOMAIN s : Kind(s[k]) = kind
  <2>1. \A k \in DOMAIN s : \E i \in I : s[k] = os[i]
    BY <1>2
  <2>2. QED
    BY <1>1, <2>1, Zenon
<1>4. ASSUME NEW o \in Options
      PROVE  Said(Append(os, o), kind) = IF Kind(o) = kind THEN Append(s, o) ELSE s
  <2> DEFINE z == Append(os, o)
             n == Len(os)
  <2>1. DOMAIN z = 1..(n + 1) /\ n \in Nat /\ z[n + 1] = o /\ DOMAIN os = 1..n /\ \A i \in 1..n : z[i] = os[i]
    OBVIOUS
  <2>2. Picked(z, I) = s /\ Picked(z, I \cup {n + 1}) = Append(s, o)
    <3>1. PickedMore(os, o, I)
      BY <1>1, PickedAppend, ZenonT(60) DEF PickedMore
    <3>2. QED
      BY <1>0, <3>1, Zenon DEF PickedMore
  <2> HIDE DEF z, n
  <2>3. SayIn(z, kind) = {i \in 1..n : Kind(os[i]) = kind} \cup (IF Kind(o) = kind THEN {n + 1} ELSE {})
    <3>1. SayIn(z, kind) = {i \in 1..n : Kind(z[i]) = kind} \cup (IF Kind(z[n + 1]) = kind THEN {n + 1} ELSE {})
      BY <2>1 DEF SayIn
    <3>2. \A i \in 1..n : Kind(z[i]) = Kind(os[i])
      BY <2>1
    <3>3. {i \in 1..n : Kind(z[i]) = kind} = {i \in 1..n : Kind(os[i]) = kind}
      BY <3>2
    <3>4. QED
      BY <2>1, <3>1, <3>3
  <2>4. I = {i \in 1..n : Kind(os[i]) = kind}
    BY <2>1 DEF I, SayIn
  <2>5. SayIn(z, kind) = IF Kind(o) = kind THEN I \cup {n + 1} ELSE I
    BY <2>3, <2>4
  <2>6. Said(z, kind) = IF Kind(o) = kind THEN Append(s, o) ELSE s
    BY <2>2, <2>5 DEF Said
  <2>7. QED
    BY <2>6 DEF z
<1>5. QED
  BY <1>2, <1>3, <1>4 DEF s

LEMMA SaidNothing ==
  ASSUME NEW kind
  PROVE  Said(<<>>, kind) = <<>>
<1>1. SayIn(<<>>, kind) = {}
  BY DEF SayIn
<1>2. QED
  BY <1>1, PickedNone DEF Said

-----------------------------------------------------------------------------
(* What a command of known options says is what the import keeps.          *)
MethodSaid(s) == IF s = <<>> THEN NoText ELSE Value(Last(s))
DataSaid(s) == [i \in DOMAIN s |-> Value(s[i])]
Trusting(os) == \E i \in DOMAIN os : Insecure(os[i])
Agrees(r, os) ==
  /\ r.method = MethodSaid(Said(os, "method"))
  /\ r.body = DataSaid(Said(os, "body"))
  /\ r.insecure <=> Trusting(os)

LEMMA TrustingAppend ==
  ASSUME NEW os \in Seq(Options), NEW o \in Options
  PROVE  Trusting(Append(os, o)) <=> Trusting(os) \/ Insecure(o)
<1> DEFINE z == Append(os, o)
           n == Len(os)
<1>1. DOMAIN z = 1..(n + 1) /\ n \in Nat /\ z[n + 1] = o /\ DOMAIN os = 1..n /\ \A i \in 1..n : z[i] = os[i]
  OBVIOUS
<1> HIDE DEF z, n
<1>2. ASSUME Trusting(z) PROVE Trusting(os) \/ Insecure(o)
  <2>1. PICK i \in DOMAIN z : Insecure(z[i])
    BY <1>2 DEF Trusting
  <2>2. i \in 1..n \/ i = n + 1
    BY <1>1
  <2>3. QED
    BY <1>1, <2>1, <2>2 DEF Trusting
<1>3. ASSUME Trusting(os) PROVE Trusting(z)
  <2>1. PICK i \in DOMAIN os : Insecure(os[i])
    BY <1>3 DEF Trusting
  <2>2. i \in DOMAIN z /\ z[i] = os[i]
    BY <1>1
  <2>3. QED
    BY <2>1, <2>2 DEF Trusting
<1>4. Insecure(o) => Trusting(z)
  BY <1>1 DEF Trusting
<1>5. QED
  BY <1>2, <1>3, <1>4 DEF z

LEMMA DataAppend ==
  ASSUME NEW s \in Seq(Options), NEW o \in Options
  PROVE  /\ DataSaid(Append(s, o)) = DataSaid(s) \o <<Value(o)>>
         /\ DataSaid(s) \in Seq(Names) /\ DataSaid(<<>>) = <<>>
         /\ MethodSaid(Append(s, o)) = Value(o)
<1> DEFINE d == DataSaid(s)
           v == Value(o)
<1>1. v \in Names /\ \A x \in Options : Value(x) \in Names
  BY OptionAsks
<1> HIDE DEF v
<1>2. d \in [1..Len(s) -> Names] /\ d = [i \in 1..Len(s) |-> Value(s[i])]
  BY <1>1 DEF DataSaid
<1>3. d \in Seq(Names) /\ Len(d) = Len(s)
  BY <1>2, IsSeq
<1> DEFINE z == Append(s, o)
<1>4. z \in Seq(Options) /\ DOMAIN z = 1..(Len(s) + 1) /\ Len(s) \in Nat /\ z[Len(s) + 1] = o
      /\ (\A i \in 1..Len(s) : z[i] = s[i]) /\ z # <<>> /\ Len(z) = Len(s) + 1
  OBVIOUS
<1> HIDE DEF z, d
<1>5. DataSaid(z) = [i \in 1..(Len(s) + 1) |-> IF i = Len(s) + 1 THEN v ELSE d[i]]
  <2>1. DataSaid(z) = [i \in 1..(Len(s) + 1) |-> Value(z[i])]
    BY <1>4 DEF DataSaid
  <2>2. ASSUME NEW i \in 1..(Len(s) + 1) PROVE Value(z[i]) = IF i = Len(s) + 1 THEN v ELSE d[i]
    <3>1. CASE i = Len(s) + 1
      BY <1>4, <3>1 DEF v
    <3>2. CASE i \in 1..Len(s)
      <4>1. i # Len(s) + 1
        BY <1>4, <3>2
      <4>2. Value(z[i]) = Value(s[i]) /\ d[i] = Value(s[i])
        BY <1>2, <1>4, <3>2
      <4>3. QED
        BY <4>1, <4>2
    <3>3. QED
      BY <1>4, <3>1, <3>2
  <2>3. QED
    BY <2>1, <2>2
<1>6. DataSaid(z) = Append(d, v)
  <2>1. Append(d, v) \in Seq(Names) /\ Len(Append(d, v)) = Len(s) + 1
        /\ \A i \in 1..(Len(s) + 1) : Append(d, v)[i] = IF i = Len(s) + 1 THEN v ELSE d[i]
    BY <1>1, <1>3, <1>4
  <2> DEFINE y == Append(d, v)
             x == DataSaid(z)
  <2>2. y \in Seq(Names) /\ Len(y) = Len(s) + 1 /\ \A i \in 1..(Len(s) + 1) : y[i] = IF i = Len(s) + 1 THEN v ELSE d[i]
    BY <2>1
  <2>3. x = [i \in 1..(Len(s) + 1) |-> IF i = Len(s) + 1 THEN v ELSE d[i]]
    BY <1>5
  <2>6. ASSUME NEW i \in 1..(Len(s) + 1) PROVE x[i] \in Names
    <3>1. i = Len(s) + 1 \/ i \in 1..Len(s)
      BY <1>4
    <3>2. \A j \in 1..Len(s) : d[j] \in Names
      BY <1>2
    <3>3. QED
      BY <1>1, <2>3, <3>1, <3>2
  <2> HIDE DEF x, y
  <2>4. x \in [1..(Len(s) + 1) -> Names]
    BY <2>3, <2>6
  <2>5. x \in Seq(Names) /\ Len(x) = Len(s) + 1
    BY <1>4, <2>4, IsSeq
  <2>7. \A i \in 1..Len(x) : x[i] = y[i]
    BY <2>2, <2>3, <2>5
  <2>8. x = y
    BY <2>2, <2>5, <2>7, SameSeq
  <2>9. QED
    BY <2>8 DEF x, y
<1>7. Append(d, v) = d \o <<v>>
  BY <1>1, <1>3, NothingAdded
<1>8. MethodSaid(z) = v
  BY <1>4 DEF MethodSaid, Last, v
<1>9. DataSaid(<<>>) = <<>>
  BY DEF DataSaid
<1>10. QED
  BY <1>3, <1>6, <1>7, <1>8, <1>9 DEF d, v, z

LEMMA ImportAgrees ==
  ASSUME NEW g, Reads(g), NEW os \in Seq(Options), AllKnown(os)
  PROVE  Agrees(g[os], os)
<1> DEFINE T == {t \in Seq(Options) : AllKnown(t) => Agrees(g[t], t)}
<1>1. <<>> \in T
  <2>1. g[<<>>] = Nothing /\ <<>> \in Seq(Options)
    BY DEF Reads
  <2>2. Said(<<>>, "method") = <<>> /\ Said(<<>>, "body") = <<>>
    BY SaidNothing
  <2>3. MethodSaid(<<>>) = NoText /\ DataSaid(<<>>) = <<>> /\ ~Trusting(<<>>)
    BY DEF MethodSaid, DataSaid, Trusting
  <2>4. QED
    BY <2>1, <2>2, <2>3, NothingIs DEF Agrees
<1>2. ASSUME NEW t \in Seq(Options), NEW o \in Options, t \in T PROVE Append(t, o) \in T
  <2> DEFINE z == Append(t, o)
             r == g[t]
             s == Does(r, o)
  <2>1. z \in Seq(Options) /\ g[z] = s
    BY DEF Reads
  <2>2. SUFFICES ASSUME AllKnown(z) PROVE Agrees(s, z)
    BY <2>1
  <2>3. AllKnown(t) /\ ~Unknown(o)
    <3>1. Len(t) + 1 \in DOMAIN z /\ z[Len(t) + 1] = o /\ \A k \in DOMAIN t : k \in DOMAIN z /\ z[k] = t[k]
      OBVIOUS
    <3> HIDE DEF z
    <3>2. QED
      BY <2>2, <3>1 DEF AllKnown
  <2>4. Agrees(r, t)
    BY <1>2, <2>3
  <2>5. Idle(r) /\ r.waits = None
    BY <2>3, AlwaysIdle
  <2> HIDE DEF r
  <2>6. Effect(r, o, s)
    BY <2>5, OptionDoes
  <2> HIDE DEF s
  <2>7. /\ Said(z, "method") = IF Kind(o) = "method" THEN Append(Said(t, "method"), o) ELSE Said(t, "method")
        /\ Said(z, "body") = IF Kind(o) = "body" THEN Append(Said(t, "body"), o) ELSE Said(t, "body")
        /\ Said(t, "method") \in Seq(Options) /\ Said(t, "body") \in Seq(Options)
    BY SaidFacts
  <2>8. Trusting(z) <=> Trusting(t) \/ Insecure(o)
    BY TrustingAppend
  <2> HIDE DEF z
  <2>9. s.method = MethodSaid(Said(z, "method"))
    <3>1. CASE Kind(o) = "method"
      <4>1. MethodOf(o) # NoText /\ MethodOf(o) = Value(o)
        BY <3>1, OptionAsks
      <4>2. MethodSaid(Append(Said(t, "method"), o)) = Value(o)
        BY <2>7, DataAppend
      <4>3. QED
        BY <2>6, <2>7, <3>1, <4>1, <4>2 DEF Effect
    <3>2. CASE Kind(o) # "method"
      <4>1. MethodOf(o) = NoText
        BY <3>2, OptionAsks
      <4>2. QED
        BY <2>4, <2>6, <2>7, <3>2, <4>1 DEF Effect, Agrees
    <3>3. QED
      BY <3>1, <3>2
  <2>10. s.body = DataSaid(Said(z, "body"))
    <3>0. r.body = DataSaid(Said(t, "body")) /\ s.body = r.body \o DataOf(o) /\ r.body \in Seq(Names)
      BY <2>4, <2>5, <2>6, ReqFields, Zenon DEF Effect, Agrees, Idle
    <3>1. CASE Kind(o) = "body"
      <4>1. DataOf(o) = <<Value(o)>>
        BY <3>1 DEF DataOf
      <4>2. DataSaid(Append(Said(t, "body"), o)) = DataSaid(Said(t, "body")) \o <<Value(o)>>
        BY <2>7, DataAppend
      <4>3. QED
        BY <2>7, <3>0, <3>1, <4>1, <4>2
    <3>2. CASE Kind(o) # "body"
      <4>1. DataOf(o) = <<>> /\ r.body \o <<>> = r.body
        BY <3>0, <3>2, OptionAsks, NothingAdded
      <4>2. QED
        BY <2>7, <3>0, <3>2, <4>1
    <3>3. QED
      BY <3>1, <3>2
  <2>11. s.insecure <=> Trusting(z)
    BY <2>4, <2>6, <2>8 DEF Effect, Agrees
  <2>12. QED
    BY <2>9, <2>10, <2>11 DEF Agrees
<1> HIDE DEF T
<1>3. Seq(Options) \subseteq T
  BY <1>1, <1>2, SeqSet
<1>4. QED
  BY <1>3 DEF T

LEMMA ImportKeepsWhatIsSaid ==
  ASSUME options \in Seq(Options)
  PROVE  ImportSaysTheSame
<1>0. PICK g : Reads(g)
  BY OptionsAreRead
<1> DEFINE x == g[options]
           r == Import(options)
<1>1. r = Made(x)
  BY <1>0 DEF Reads
<1> SUFFICES ASSUME r # Refused, AllKnown(options)
             PROVE  /\ Saying("method") # <<>> => r.method = Value(Last(Saying("method")))
                    /\ r.body = [i \in DOMAIN Saying("body") |-> Value(Saying("body")[i])]
                    /\ r.insecure <=> \E i \in DOMAIN options : options[i][1].k \/ options[i][1].name = "insecure"
  BY DEF ImportSaysTheSame, AllKnown
<1>2. Saying("method") = Said(options, "method") /\ Saying("body") = Said(options, "body")
  BY DEF Saying, Said, SayIn
<1>3. Agrees(x, options)
  BY <1>0, ImportAgrees
<1> HIDE DEF x, r
<1>4. r.method = FinalMethod(x) /\ r.body = x.body /\ r.insecure = x.insecure
  BY <1>1 DEF Made
<1>5. Said(options, "method") \in Seq(Options) /\ \A k \in DOMAIN Said(options, "method") : Kind(Said(options, "method")[k]) = "method"
  BY SaidFacts
<1>6. ASSUME Said(options, "method") # <<>> PROVE r.method = Value(Last(Said(options, "method")))
  <2> DEFINE m == Said(options, "method")
  <2>1. x.method = Value(Last(m))
    BY <1>3, <1>6 DEF Agrees, MethodSaid
  <2>2. m \in Seq(Options) /\ m # <<>> /\ \A k \in DOMAIN m : Kind(m[k]) = "method"
    BY <1>5, <1>6
  <2> HIDE DEF m
  <2>3. Last(m) \in Options /\ Kind(Last(m)) = "method"
    BY <2>2 DEF Last
  <2>4. Value(Last(m)) # NoText
    BY <2>3, OptionAsks
  <2>5. QED
    BY <1>4, <2>1, <2>4 DEF FinalMethod, m
<1>7. r.body = [i \in DOMAIN Saying("body") |-> Value(Saying("body")[i])]
  BY <1>2, <1>3, <1>4 DEF Agrees, DataSaid
<1>8. r.insecure <=> \E i \in DOMAIN options : options[i][1].k \/ options[i][1].name = "insecure"
  BY <1>3, <1>4 DEF Agrees, Trusting, Insecure
<1>9. QED
  BY <1>2, <1>6, <1>7, <1>8

-----------------------------------------------------------------------------
(* How often a header is times.                                             *)
Times(s, h) == Cardinality({i \in DOMAIN s : s[i] = h})

LEMMA TimesFacts ==
  ASSUME NEW S, NEW s \in Seq(S), NEW h
  PROVE  /\ Times(s, h) \in Nat
         /\ Times(s, h) > 0 <=> \E i \in DOMAIN s : s[i] = h
         /\ \A e \in S : Times(Append(s, e), h) = IF e = h THEN Times(s, h) + 1 ELSE Times(s, h)
<1> DEFINE I == {i \in DOMAIN s : s[i] = h}
           n == Len(s)
<1>1. I \in SUBSET (1..n) /\ n \in Nat /\ DOMAIN s = 1..n /\ IsFiniteSet(1..n) /\ Times(s, h) = Cardinality(I)
      /\ (I # {} <=> \E i \in DOMAIN s : s[i] = h)
  BY FS_Interval DEF Times
<1>2. IsFiniteSet(I)
  BY <1>1, FS_Subset
<1>3. Cardinality(I) \in Nat /\ (Cardinality(I) = 0 <=> I = {}) /\ n + 1 \notin I
  <2> HIDE DEF I, n
  <2>1. Cardinality(I) \in Nat
    BY <1>2, FS_CardinalityType
  <2>2. Cardinality(I) = 0 <=> I = {}
    BY <1>2, FS_EmptySet
  <2>3. n + 1 \notin I
    BY <1>1
  <2>4. QED
    BY <2>1, <2>2, <2>3
<1>4. ASSUME NEW e \in S PROVE Times(Append(s, e), h) = IF e = h THEN Cardinality(I) + 1 ELSE Cardinality(I)
  <2> DEFINE z == Append(s, e)
             J == {i \in DOMAIN z : z[i] = h}
  <2>1. DOMAIN z = 1..(n + 1) /\ z[n + 1] = e /\ \A i \in 1..n : z[i] = s[i]
    OBVIOUS
  <2> HIDE DEF z, n
  <2>2. J = IF e = h THEN I \cup {n + 1} ELSE I
    <3>1. ASSUME NEW i \in 1..n PROVE i \in J <=> i \in I
      <4>1. i \in 1..(n + 1) /\ z[i] = s[i] /\ i \in DOMAIN s
        BY <1>1, <2>1
      <4>2. QED
        BY <2>1, <4>1
    <3>2. n + 1 \in J <=> e = h
      BY <1>1, <2>1
    <3>3. J \subseteq 1..(n + 1) /\ I \subseteq 1..n /\ n + 1 \notin I /\ \A i \in 1..(n + 1) : i \in 1..n \/ i = n + 1
      BY <1>1, <1>3, <2>1
    <3> HIDE DEF J, I
    <3>4. CASE e = h
      <4>1. \A i : i \in J <=> i \in I \cup {n + 1}
        BY <3>1, <3>2, <3>3, <3>4
      <4>2. QED
        BY <3>4, <4>1
    <3>5. CASE e # h
      <4>1. \A i : i \in J <=> i \in I
        BY <3>1, <3>2, <3>3, <3>5
      <4>2. QED
        BY <3>5, <4>1
    <3>6. QED
      BY <3>4, <3>5
  <2> HIDE DEF I, J
  <2>3. Cardinality(I \cup {n + 1}) = Cardinality(I) + 1
    BY <1>2, <1>3, FS_AddElement
  <2>4. Times(z, h) = Cardinality(J)
    BY DEF Times, J
  <2>5. QED
    BY <2>2, <2>3, <2>4 DEF z
<1> HIDE DEF I, n
<1>5. Times(s, h) > 0 <=> \E i \in DOMAIN s : s[i] = h
  <2> DEFINE c == Cardinality(I)
             E == \E i \in DOMAIN s : s[i] = h
  <2>1. c \in Nat /\ (c = 0 <=> I = {}) /\ (I # {} <=> E) /\ Times(s, h) = c
    BY <1>1, <1>3
  <2> HIDE DEF c, E
  <2>2. Times(s, h) > 0 <=> E
    BY <2>1
  <2>3. QED
    BY <2>2 DEF E
<1>6. QED
  BY <1>1, <1>3, <1>4, <1>5

LEMMA AddedOnce ==
  ASSUME NEW S, NEW s \in Seq(S), NEW e \in S, NEW h, NEW c \in BOOLEAN
  PROVE  /\ s \o (IF c THEN <<>> ELSE <<e>>) \in Seq(S)
         /\ Times(s \o (IF c THEN <<>> ELSE <<e>>), h) = IF ~c /\ e = h THEN Times(s, h) + 1 ELSE Times(s, h)
<1>1. s \o <<>> = s /\ s \o <<e>> = Append(s, e) /\ Append(s, e) \in Seq(S)
  OBVIOUS
<1>2. Times(Append(s, e), h) = IF e = h THEN Times(s, h) + 1 ELSE Times(s, h)
  BY TimesFacts
<1>3. CASE c
  BY <1>1, <1>3
<1>4. CASE ~c
  BY <1>1, <1>2, <1>4
<1>5. QED
  BY <1>3, <1>4

LEMMA HeadersAreNotDoubled ==
  ASSUME options \in Seq(Options)
  PROVE  ExplicitHeaderWins
<1>0. PICK g : Reads(g)
  BY OptionsAreRead
<1> DEFINE x == g[options]
           r == Import(options)
           hs == x.headers
<1>1. r = Made(x)
  BY <1>0 DEF Reads
<1>2. Idle(x)
  BY <1>0, AlwaysIdle
<1> SUFFICES ASSUME r # Refused, NEW h \in {"authorization", "content-type"}
             PROVE  LET times == Cardinality({i \in DOMAIN WireHeaders(r) : WireHeaders(r)[i] = h})
                        said == Cardinality({i \in DOMAIN r.headers : r.headers[i].name = h})
                        due  == IF h = "authorization" THEN r.auth # "none" ELSE r.body # <<>>
                    IN  times = IF said > 0 THEN said ELSE IF due THEN 1 ELSE 0
  BY DEF ExplicitHeaderWins
<1> HIDE DEF x, r
<1>3. hs \in Seq(Names)
  BY <1>2, ReqFields DEF Idle
<1>4. r.headers = [i \in DOMAIN hs |-> [name |-> hs[i], enabled |-> TRUE]]
  BY <1>1 DEF Made
<1> HIDE DEF hs
<1> DEFINE H == [name : Names, enabled : BOOLEAN]
           rh == r.headers
           n == Len(hs)
<1>5. n \in Nat /\ DOMAIN hs = 1..n /\ rh \in [1..n -> H] /\ \A i \in 1..n : rh[i].name = hs[i] /\ rh[i].enabled
  BY <1>3, <1>4
<1> HIDE DEF H, rh, n
<1>6. rh \in Seq(H) /\ Len(rh) = n /\ DOMAIN rh = 1..n
  BY <1>5, IsSeq
<1>7. Picked(rh, {i \in DOMAIN rh : rh[i].enabled}) = rh
  <2>1. {i \in DOMAIN rh : rh[i].enabled} = 1..Len(rh)
    BY <1>5, <1>6
  <2>2. Picked(rh, 1..Len(rh)) = rh
    BY <1>6, PickedAll
  <2>3. QED
    BY <2>1, <2>2
<1>8. [i \in DOMAIN rh |-> rh[i].name] = hs
  <2>1. hs = [i \in 1..n |-> hs[i]]
    BY <1>3, SeqIs DEF n
  <2>2. QED
    BY <1>5, <1>6, <2>1
<1>9. \A m : HasHeader(r, m) <=> Times(hs, m) > 0
  <2>1. ASSUME NEW m PROVE HasHeader(r, m) <=> \E i \in DOMAIN hs : hs[i] = m
    BY <1>5, <1>6 DEF HasHeader, rh
  <2>2. QED
    BY <1>3, <2>1, TimesFacts
<1> DEFINE ca == HasHeader(r, "authorization") \/ r.auth = "none"
           cb == HasHeader(r, "content-type") \/ r.body = <<>>
           u == hs \o (IF ca THEN <<>> ELSE <<"authorization">>)
           v == u \o (IF cb THEN <<>> ELSE <<"content-type">>)
<1>10. WireHeaders(r) = v
  BY <1>7, <1>8, Zenon DEF WireHeaders, rh
<1>11. ca \in BOOLEAN /\ cb \in BOOLEAN
  BY DEF HasHeader
<1>12. "authorization" \in Names /\ "content-type" \in Names
  BY DEF Names
<1> HIDE DEF ca, cb
<1>13. u \in Seq(Names) /\ Times(u, h) = IF ~ca /\ "authorization" = h THEN Times(hs, h) + 1 ELSE Times(hs, h)
  BY <1>3, <1>11, <1>12, AddedOnce
<1> HIDE DEF u
<1>14. Times(v, h) = IF ~cb /\ "content-type" = h THEN Times(u, h) + 1 ELSE Times(u, h)
  BY <1>11, <1>12, <1>13, AddedOnce
<1> HIDE DEF v
<1>15. Cardinality({i \in DOMAIN WireHeaders(r) : WireHeaders(r)[i] = h}) = Times(v, h)
  BY <1>10 DEF Times
<1>16. Cardinality({i \in DOMAIN r.headers : r.headers[i].name = h}) = Times(hs, h)
  <2>1. {i \in DOMAIN rh : rh[i].name = h} = {i \in DOMAIN hs : hs[i] = h}
    BY <1>5, <1>6
  <2>2. QED
    BY <2>1 DEF Times, rh
<1>17. Times(hs, h) \in Nat
  BY <1>3, TimesFacts
<1>18. CASE h = "authorization"
  <2>1. ca <=> Times(hs, h) > 0 \/ r.auth = "none"
    BY <1>9, <1>18 DEF ca
  <2>2. Times(v, h) = IF ~ca THEN Times(hs, h) + 1 ELSE Times(hs, h)
    BY <1>13, <1>14, <1>18
  <2>3. QED
    BY <1>15, <1>16, <1>17, <1>18, <2>1, <2>2
<1>19. CASE h = "content-type"
  <2>1. cb <=> Times(hs, h) > 0 \/ r.body = <<>>
    BY <1>9, <1>19 DEF cb
  <2>2. Times(v, h) = IF ~cb THEN Times(hs, h) + 1 ELSE Times(hs, h)
    BY <1>13, <1>14, <1>19
  <2>3. QED
    BY <1>15, <1>16, <1>17, <1>19, <2>1, <2>2
<1>20. QED
  BY <1>18, <1>19

-----------------------------------------------------------------------------
(* Words and commands are sequences.                                       *)
LEMMA OptionsType == CurlSpec => [](options \in Seq(Options))
<1>1. CurlInit => options \in Seq(Options)
  BY DEF CurlInit
<1>2. options \in Seq(Options) /\ [CurlNext]_curlVars => (options \in Seq(Options))'
  <2> SUFFICES ASSUME options \in Seq(Options), [CurlNext]_curlVars PROVE (options \in Seq(Options))'
    OBVIOUS
  <2>1. ASSUME TypeOption PROVE options' \in Seq(Options)
    BY <2>1 DEF TypeOption
  <2>2. TypeChar \/ UNCHANGED curlVars => options' = options
    BY DEF TypeChar, curlVars
  <2>3. QED
    BY <2>1, <2>2 DEF CurlNext
<1>3. QED
  BY <1>1, <1>2, PTL DEF CurlSpec

(* Whatever is pasted, of any length: the words come back as they were     *)
(* quoted, options may move, what each says arrives, and an explicit header*)
(* is not times twice (splitCommand, importCurl, resolveRequest).           *)
THEOREM ImportKeepsFaith == CurlSpec => []ImportIsFaithful
<1>1. options \in Seq(Options) /\ QuotingRoundTrips => ImportIsFaithful
  BY OptionsMayMove, ImportKeepsWhatIsSaid, HeadersAreNotDoubled DEF ImportIsFaithful
<1>2. QED
  BY <1>1, WordsComeBack, OptionsType, PTL
=============================================================================
