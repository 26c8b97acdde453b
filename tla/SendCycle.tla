------------------------------ MODULE SendCycle ------------------------------
(***************************************************************************)
(* What the HTTP client promises about its sends (src/src/apiservice.h,    *)
(* send, cancel, sendFinished): one at a time, each with one result, which *)
(* says canceled only when cancel() was called during it.  ApiSend         *)
(* implements this with worker threads; the request page relies on it.     *)
(***************************************************************************)
VARIABLES
  flying,     \* sending
  canceling,  \* cancel() was called during this send
  result      \* the last sendFinished: "none", "answer" or "canceled"

cycleVars == <<flying, canceling, result>>

CycleInit == flying = FALSE /\ canceling = FALSE /\ result = "none"

Begin ==
  /\ ~flying
  /\ flying' = TRUE
  /\ canceling' = FALSE
  /\ UNCHANGED result

Ask == flying /\ canceling' = TRUE /\ UNCHANGED <<flying, result>>

Deliver(r) ==
  /\ flying
  /\ r = "canceled" => canceling
  /\ flying' = FALSE
  /\ canceling' = FALSE
  /\ result' = r

CycleNext == Begin \/ Ask \/ \E r \in {"answer", "canceled"} : Deliver(r)
CycleSafety == CycleInit /\ [][CycleNext]_cycleVars
CycleSpec ==
  /\ CycleSafety
  /\ WF_cycleVars(\E r \in {"answer", "canceled"} : Deliver(r))
=============================================================================
