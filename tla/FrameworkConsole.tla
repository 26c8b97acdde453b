--------------------------- MODULE FrameworkConsole ---------------------------
(***************************************************************************)
(* Console discovery (src/src/frameworkconsole.cpp, startDiscovery): a php *)
(* process lists the console commands of a composer project, a worker      *)
(* thread parses the list, and a queued call delivers it, while files of   *)
(* the project change.  What is known to be under way is m_processes.      *)
(***************************************************************************)
EXTENDS Naturals, Functions

CONSTANTS
  Folders,   \* project paths
  MaxEdits,  \* bound on the edits of the disk
  MaxJobs    \* bound on discoveries of one path alive at a time

ASSUME DiscoveryAssumption == MaxEdits \in Nat /\ MaxJobs \in Nat \ {0}

VARIABLES
  console,    \* the disk: per folder what its composer.json stands for
  edits,      \* how many edits the disk has seen
  processes,  \* m_processes: path -> the discovery started last
  jobs        \* <<path, slot>> -> the discovery's stage and list

consoleVars == <<console, edits, processes, jobs>>

(* No composer.json; one without a known framework; and from 2 on the      *)
(* state of composer.lock and of the command directory, which stands both  *)
(* for their mtimes and for the list the console prints in that state.     *)
NoManifest == 0
NoFramework == 1
MaxVersion == MaxEdits + 2
Detected(f) == console[f] > NoFramework

(* php runs; it has read the project and runs on; it is over and its       *)
(* output is parsed, up to the queued call that delivers the result.       *)
Stage == {"running", "listed", "parsing"}
Slots == 1..MaxJobs
NoList == 0

ConsoleTypeOK ==
  /\ console \in [Folders -> 0..MaxVersion]
  /\ edits \in 0..MaxEdits
  /\ processes \in [DOMAIN processes -> Slots]
  /\ DOMAIN processes \subseteq Folders
  /\ DOMAIN jobs \subseteq Folders \X Slots
  /\ jobs \in [DOMAIN jobs -> [stage : Stage, list : 0..MaxVersion]]

ConsoleInit ==
  /\ console \in [Folders -> {NoManifest, NoFramework, NoFramework + 1}]
  /\ edits = 0
  /\ processes = [f \in {} |-> 1]
  /\ jobs = [j \in {} |-> 1]

JobsOf(f) == {j \in DOMAIN jobs : j[1] = f}

-----------------------------------------------------------------------------
(* An entry counts only while its QProcess runs.                           *)
discoveryInProgress(f) ==
  f \in DOMAIN processes /\ jobs[<<f, processes[f]>>].stage \in {"running", "listed"}

FreeSlot(f) == CHOOSE s \in Slots :
  <<f, s>> \notin DOMAIN jobs /\ \A t \in Slots : <<f, t>> \notin DOMAIN jobs => s <= t

(* startDiscovery() for each of the paths S, called where no php of theirs *)
(* runs and their framework has just been found.                           *)
StartAll(S) ==
  LET new == {<<f, FreeSlot(f)>> : f \in S}
  IN  /\ processes' = [f \in DOMAIN processes \cup S |->
                         IF f \in S THEN FreeSlot(f) ELSE processes[f]]
      /\ jobs' = [j \in DOMAIN jobs \cup new |->
                    IF j \in new THEN [stage |-> "running", list |-> NoList] ELSE jobs[j]]

(* Somewhere in its run the console reads the project.                     *)
PhpLists(j) ==
  /\ j \in DOMAIN jobs
  /\ jobs[j].stage = "running"
  /\ jobs' = [jobs EXCEPT ![j] = [stage |-> "listed", list |-> console[j[1]]]]
  /\ UNCHANGED <<console, edits, processes>>

(* finished with exit code 0: the parsing thread starts.                   *)
PhpFinished(j) ==
  /\ j \in DOMAIN jobs
  /\ jobs[j].stage = "listed"
  /\ jobs' = [jobs EXCEPT ![j].stage = "parsing"]
  /\ UNCHANGED <<console, edits, processes>>

(* The discovery ends: its path loses its entry, whosever it is, and its   *)
(* QProcess is deleted.                                                    *)
End(j) ==
  /\ processes' = Restrict(processes, DOMAIN processes \ {j[1]})
  /\ jobs' = Restrict(jobs, DOMAIN jobs \ {j})
  /\ UNCHANGED <<console, edits>>

(* errorOccurred, finished with another exit code, or both in a row after  *)
(* a crash: discoveryFailed.                                               *)
PhpFailed(j) ==
  /\ j \in DOMAIN jobs
  /\ jobs[j].stage \in {"running", "listed"}
  /\ End(j)

(* The queued call of the parsing thread: discoveryFinished with the list, *)
(* or discoveryFailed when nothing could be parsed.                        *)
Delivered(j) ==
  /\ j \in DOMAIN jobs
  /\ jobs[j].stage = "parsing"
  /\ End(j)

(* Somebody edits the project; every new state has new mtimes.             *)
EditConsole(f) ==
  /\ edits < MaxEdits
  /\ edits' = edits + 1
  /\ \E v \in {NoManifest, NoFramework, edits + 3} :
       v # console[f] /\ console' = [console EXCEPT ![f] = v]
  /\ UNCHANGED <<processes, jobs>>

=============================================================================
