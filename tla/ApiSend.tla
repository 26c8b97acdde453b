------------------------------- MODULE ApiSend -------------------------------
(***************************************************************************)
(* One Send of the HTTP client (src/src/apiservice.cpp, send, cancel and   *)
(* finishSend): the GUI thread starts a throwaway worker thread per send,  *)
(* the worker publishes its reply under m_sendMutex, waits for it in an    *)
(* event loop of its own, collects the outcome under the mutex and posts   *)
(* the result back to the GUI thread.  A cancel may come at any moment.    *)
(***************************************************************************)
EXTENDS Naturals

CONSTANT MaxSends  \* bound on the sends of a behaviour

ASSUME SendsAssumption == MaxSends \in Nat

VARIABLES
  sending,          \* m_sending, touched by the GUI thread only
  cancelRequested,  \* m_cancelRequested, under m_sendMutex
  reply,            \* m_reply, under m_sendMutex: whose reply, or 0 for nullptr
  sent,             \* how many sends were started; the last one is current
  worker,           \* per send: where its worker thread is
  outcome,          \* per send: how its reply finished
  canceled,         \* the sends whose worker collected canceled = true
  aborts,           \* the replies with an abort() in their thread's queue
  asked             \* history: the sends a cancel() was meant for

vars == <<sending, cancelRequested, reply, sent, worker, outcome, canceled, aborts, asked>>

Sends == 1..MaxSends
NoReply == 0

(* "unsent", before its reply exists, in its event loop, past it with the  *)
(* reply still published, past the last use of m_reply, with the result in *)
(* the GUI thread's queue, and delivered.                                  *)
WorkerState == {"unsent", "starting", "waiting", "finished", "collected", "posted", "over"}
Outcome == {"none", "response", "failure", "aborted"}

TypeOK ==
  /\ sending \in BOOLEAN
  /\ cancelRequested \in BOOLEAN
  /\ reply \in Sends \cup {NoReply}
  /\ sent \in 0..MaxSends
  /\ worker \in [Sends -> WorkerState]
  /\ outcome \in [Sends -> Outcome]
  /\ canceled \subseteq Sends
  /\ aborts \subseteq Sends
  /\ asked \subseteq Sends

Init ==
  /\ sending = FALSE
  /\ cancelRequested = FALSE
  /\ reply = NoReply
  /\ sent = 0
  /\ worker = [n \in Sends |-> "unsent"]
  /\ outcome = [n \in Sends |-> "none"]
  /\ canceled = {}
  /\ aborts = {}
  /\ asked = {}

Goes(n, from, to) == worker[n] = from /\ worker' = [worker EXCEPT ![n] = to]

-----------------------------------------------------------------------------
(* The GUI thread.                                                         *)

Send ==
  /\ ~sending
  /\ sent < MaxSends
  /\ sent' = sent + 1
  /\ Goes(sent + 1, "unsent", "starting")
  /\ reply' = NoReply
  /\ cancelRequested' = FALSE
  /\ sending' = TRUE
  /\ UNCHANGED <<outcome, canceled, aborts, asked>>

(* Bug: the button is freed at once.                                       *)
CancelAndForget ==
  /\ sending
  /\ cancelRequested' = TRUE
  /\ sending' = FALSE
  /\ aborts' = aborts \cup ({reply} \ {NoReply})
  /\ asked' = asked \cup {sent}
  /\ UNCHANGED <<reply, sent, worker, outcome, canceled>>

Cancel ==
  /\ sending
  /\ cancelRequested' = TRUE
  /\ aborts' = aborts \cup ({reply} \ {NoReply})
  /\ asked' = asked \cup {sent}
  /\ UNCHANGED <<sending, reply, sent, worker, outcome, canceled>>

FinishSend(n) ==
  /\ Goes(n, "posted", "over")
  /\ sending' = FALSE
  /\ reply' = NoReply
  /\ cancelRequested' = FALSE
  /\ UNCHANGED <<sent, outcome, canceled, aborts, asked>>

-----------------------------------------------------------------------------
(* The worker thread of send n.                                            *)

Publish(n) ==
  /\ Goes(n, "starting", "waiting")
  /\ reply' = n
  /\ UNCHANGED <<sending, cancelRequested, sent, outcome, canceled, aborts, asked>>

(* The network answers or fails, the transfer timeout included.            *)
Answer(n) ==
  /\ Goes(n, "waiting", "finished")
  /\ \E o \in {"response", "failure"} : outcome' = [outcome EXCEPT ![n] = o]
  /\ UNCHANGED <<sending, cancelRequested, reply, sent, canceled, aborts, asked>>

Abort(n) ==
  /\ n \in aborts
  /\ aborts' = aborts \ {n}
  /\ Goes(n, "waiting", "finished")
  /\ outcome' = [outcome EXCEPT ![n] = "aborted"]
  /\ UNCHANGED <<sending, cancelRequested, reply, sent, canceled, asked>>

(* Bug: the pointer stays published when the reply is about to be deleted. *)
CollectPublished(n) ==
  /\ Goes(n, "finished", "collected")
  /\ canceled' = IF cancelRequested THEN canceled \cup {n} ELSE canceled
  /\ UNCHANGED <<sending, cancelRequested, reply, sent, outcome, aborts, asked>>

Collect(n) ==
  /\ Goes(n, "finished", "collected")
  /\ canceled' = IF cancelRequested THEN canceled \cup {n} ELSE canceled
  /\ reply' = NoReply
  /\ UNCHANGED <<sending, cancelRequested, sent, outcome, aborts, asked>>

(* delete reply takes the events still queued for it along.                *)
Post(n) ==
  /\ Goes(n, "collected", "posted")
  /\ aborts' = aborts \ {n}
  /\ UNCHANGED <<sending, cancelRequested, reply, sent, outcome, canceled, asked>>

-----------------------------------------------------------------------------
Worker(n) == Publish(n) \/ Answer(n) \/ Abort(n) \/ Collect(n) \/ Post(n)

Next ==
  \/ Send
  \/ Cancel
  \/ \E n \in Sends : Worker(n) \/ FinishSend(n)

Spec == Init /\ [][Next]_vars

(* Threads and queues make progress, and a reply finishes in the end: the  *)
(* transfer timeout aborts one on which nothing moves.                     *)
Fairness == \A n \in Sends : WF_vars(Worker(n)) /\ WF_vars(FinishSend(n))
FairSpec == Spec /\ Fairness

-----------------------------------------------------------------------------
Busy(n) == worker[n] \notin {"unsent", "over"}

(* The comment in send(): a queued abort() can never reach a dangling      *)
(* pointer.  What cancel() finds in m_reply is a reply that still exists,  *)
(* and it is the reply of the current send.                                *)
NoDanglingReply ==
  reply # NoReply => reply = sent /\ worker[reply] \in {"waiting", "finished"}

(* One send at a time: no worker runs beside the current one, the button   *)
(* is busy exactly as long as it, so that no result, cancel or pointer of  *)
(* one send is taken for another's.                                        *)
OneSendAtATime ==
  /\ sending <=> sent > 0 /\ Busy(sent)
  /\ \A n \in Sends : Busy(n) => n = sent

(* A result says canceled only when the user canceled that very send, and  *)
(* a reply the user aborted is never delivered as a time-out.              *)
CanceledMeansCanceled ==
  \A n \in Sends : worker[n] \in {"collected", "posted", "over"} =>
    /\ n \in canceled => n \in asked
    /\ outcome[n] = "aborted" => n \in canceled

(* What the GUI thread and the workers share is never misread: the         *)
(* pointer, the flags and the result are all of one and the same send.     *)
SendIsSafe ==
  /\ TypeOK
  /\ NoDanglingReply
  /\ OneSendAtATime
  /\ CanceledMeansCanceled

(* The inductive invariant: which sends are ahead, current and behind, and *)
(* that a request to cancel is always about the current one.               *)
SendsInOrder ==
  \A n \in Sends :
    /\ n > sent => worker[n] = "unsent"
    /\ n < sent => worker[n] = "over"
    /\ worker[n] = "unsent" => n > sent
CancelIsCurrent ==
  /\ cancelRequested => sending /\ sent \in asked
  /\ \A n \in aborts : worker[n] \in {"waiting", "finished", "collected"} /\ cancelRequested
  /\ \A n \in Sends :
       /\ worker[n] \in {"unsent", "starting", "waiting"} => outcome[n] = "none"
       /\ worker[n] \in {"unsent", "starting", "waiting", "finished"} => n \notin canceled
       /\ worker[n] = "finished" /\ outcome[n] = "aborted" => cancelRequested
IInv ==
  /\ TypeOK
  /\ NoDanglingReply
  /\ OneSendAtATime
  /\ CanceledMeansCanceled
  /\ SendsInOrder
  /\ CancelIsCurrent

(* The worker threads keep what the request page relies on: one result for *)
(* each send, in time, canceled only when that was asked.                  *)
LastResult ==
  LET over == IF sending THEN sent - 1 ELSE sent
  IN  IF over = 0 THEN "none" ELSE IF over \in canceled THEN "canceled" ELSE "answer"
SC == INSTANCE SendCycle WITH
        flying <- sending, canceling <- cancelRequested, result <- LastResult
SendsFollowCycle == SC!CycleSpec
=============================================================================
