-------------------------------- MODULE MCApi --------------------------------
(***************************************************************************)
(* The parts of the HTTP client.  They share no state that their steps     *)
(* change between them, so that interleaving the steps of two shows        *)
(* nothing: a behaviour picks one and runs it.  What the request page      *)
(* assumes of a send (SendCycle) is what the worker threads are shown to   *)
(* implement.                                                              *)
(***************************************************************************)
EXTENDS ApiSend, ApiRequests, ApiEnvironments, CurlImport

VARIABLE focus \* what runs
apiVars == <<focus, vars, requestVars, environmentVars, curlVars>>

ApiInit ==
  /\ focus \in {"send", "requests", "environments", "curl"}
  /\ Init /\ RequestsInit /\ EnvironmentsInit /\ CurlInit

SendOnly == focus = "send" /\ UNCHANGED <<focus, requestVars, environmentVars, curlVars>>
RequestsOnly == focus = "requests" /\ UNCHANGED <<focus, vars, environmentVars, curlVars>>
EnvironmentsOnly == focus = "environments" /\ UNCHANGED <<focus, vars, requestVars, curlVars>>
CurlOnly == focus = "curl" /\ UNCHANGED <<focus, vars, requestVars, environmentVars>>

ApiNext ==
  \/ SendOnly /\ Next
  \/ RequestsOnly /\ RequestsNext
  \/ EnvironmentsOnly /\ EnvironmentsNext
  \/ CurlOnly /\ CurlNext

(* Worker threads and the GUI thread's queue make progress, and a reply    *)
(* finishes in the end.                                                    *)
ApiSpec ==
  /\ ApiInit /\ [][ApiNext]_apiVars
  /\ \A n \in Sends : /\ WF_apiVars(SendOnly /\ Worker(n))
                      /\ WF_apiVars(SendOnly /\ FinishSend(n))
=============================================================================
