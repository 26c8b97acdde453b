--------------------------- MODULE CommandExecutor ---------------------------
(***************************************************************************)
(* The process table of trun (src/src/commandexecutor.cpp): every run the  *)
(* app launched and every process it adopted from an earlier session.      *)
(*                                                                         *)
(* All of the executor's code runs on one thread, so each handler is one   *)
(* action.  What interleaves is the user (run, stop, stopCommand, killAll, *)
(* adoptExternal, detachAll), the Qt event loop (the zero timer of a       *)
(* deferred failure, QProcess's start and death notifications) and the     *)
(* kernel (exec, exit, signals, the reuse of a pid).                       *)
(***************************************************************************)
EXTENDS Naturals, Functions

CONSTANTS
  Commands,   \* the commandIds of UI commands
  NoCommand,  \* the empty commandId: a run no UI command stands behind
  Single,     \* the commands whose run configuration never allows multiple
  Pids,       \* the operating system's pids
  NoPid,      \* processId() of a QProcess that is not running (0)
  MaxRuns     \* bound on the ids handed out, so that TLC's instances end

ASSUME ConstantsAssumption ==
  /\ NoCommand \notin Commands
  /\ Single \subseteq Commands
  /\ NoPid \notin Pids
  /\ MaxRuns \in Nat

VARIABLES
  processes,      \* m_processes: id -> its command, the QProcess's pid and state
  external,       \* m_external: id -> adopted process
  killRequested,  \* m_killRequested: ids stop() was called for
  nextId,         \* m_nextId
  deferred,       \* ids whose deferFailure timer has not fired yet
  os,             \* the kernel's process table, as far as trun meets it
  heard,          \* per id, how often each signal about it was emitted
  shown           \* runningCommandIds when runningCommandsChanged last fired

vars == <<processes, external, killRequested, nextId, deferred, os, heard, shown>>

RunIds == 1..MaxRuns

QState == {"NotRunning", "Starting", "Running"}
Proc == [command : Commands \cup {NoCommand}, pid : Pids \cup {NoPid}, state : QState]
ExternalProc == [command : Commands, pid : Pids]

(***************************************************************************)
(* A pid is "free"; "forked" (our child, before exec); "live" (a program   *)
(* trun launched, in this session or an earlier one); "noexec", "exited"   *)
(* or "signalled" (our child, ended, not reaped yet); or it belongs to a   *)
(* program trun never launched, a "stranger", which is a "lookalike" when  *)
(* its command line happens to mention the executable trun asks ps for.    *)
(***************************************************************************)
Unreaped == {"noexec", "exited", "signalled"}
Foreign == {"stranger", "lookalike"}
OsState == {"free", "forked", "live"} \cup Unreaped \cup Foreign

Signals == {"started", "finished", "failed"}

TypeOK ==
  /\ DOMAIN processes \subseteq RunIds
  /\ processes \in [DOMAIN processes -> Proc]
  /\ DOMAIN external \subseteq RunIds
  /\ external \in [DOMAIN external -> ExternalProc]
  /\ killRequested \subseteq RunIds
  /\ nextId \in 1..(MaxRuns + 1)
  /\ deferred \subseteq RunIds
  /\ os \in [Pids -> OsState]
  /\ heard \in [RunIds -> [Signals -> Nat]]
  /\ shown \subseteq Commands

-----------------------------------------------------------------------------
Init ==
  /\ processes = [id \in {} |-> NoPid]
  /\ external = [id \in {} |-> NoPid]
  /\ killRequested = {}
  /\ nextId = 1
  /\ deferred = {}
  /\ os \in [Pids -> {"free", "live"} \cup Foreign]
  /\ heard = [id \in RunIds |-> [s \in Signals |-> 0]]
  /\ shown = {}

(* The pids of QProcess objects the table still holds: Qt reaps these. *)
HeldPids == {processes[id].pid : id \in DOMAIN processes} \ {NoPid}

CommandsOf(table) == {table[id].command : id \in DOMAIN table} \ {NoCommand}
runningCommandIds == CommandsOf(processes) \cup CommandsOf(external)

Of(table, c) == {id \in DOMAIN table : table[id].command = c}
(* Bug: adopted processes are overlooked.                                 *)
OwnRunsOf(c) == Of(processes, c)
RunsOf(c) == Of(processes, c) \cup Of(external, c)

Put(table, id, entry) ==
  [x \in DOMAIN table \cup {id} |-> IF x = id THEN entry ELSE table[x]]
Without(table, ids) == Restrict(table, DOMAIN table \ ids)

(* emit runningCommandsChanged(): every binding reads the list anew. *)
Notify == shown' = runningCommandIds'

(* The signals of one handler: one of the given kind for each id of S.     *)
Emit(kind, S) ==
  heard' = [id \in RunIds |-> [s \in Signals |->
              IF s = kind /\ id \in S THEN heard[id][s] + 1 ELSE heard[id][s]]]

-----------------------------------------------------------------------------
(***************************************************************************)
(* Stopping.  SIGKILL goes to the pid of each own run (QProcess::kill, a   *)
(* no-op without a pid) and to the recorded pid of each adopted one,       *)
(* whoever holds that pid by now.  A child of ours is left to be reaped.   *)
(***************************************************************************)
PidsOf(table, ids) == {table[id].pid : id \in DOMAIN table \cap ids} \ {NoPid}

(* Bug: a run still between fork and exec is not killed.                   *)
AfterKillOfStarted(ids) ==
  LET hit == PidsOf(processes, ids) \cup PidsOf(external, ids)
  IN  [p \in Pids |-> IF p \in hit /\ os[p] \in {"live"} \cup Foreign
                      THEN IF p \in HeldPids THEN "signalled" ELSE "free"
                      ELSE os[p]]

AfterKill(ids) ==
  LET hit == PidsOf(processes, ids) \cup PidsOf(external, ids)
  IN  [p \in Pids |-> IF p \in hit /\ os[p] \in {"forked", "live"} \cup Foreign
                      THEN IF p \in HeldPids THEN "signalled" ELSE "free"
                      ELSE os[p]]

(* The tables after stop() on own runs and the m_external half of          *)
(* stopCommand() on adopted ones.                                          *)
Stopped(ids) ==
  /\ killRequested' = killRequested \cup (ids \cap DOMAIN processes)
  /\ external' = Without(external, ids)

(* Bug: stop() drops the entry at once.                                    *)
StopRunsForgetting(ids) ==
  /\ processes' = Without(processes, ids)
  /\ external' = Without(external, ids)
  /\ killRequested' = killRequested \ ids
  /\ os' = AfterKill(ids)
  /\ Emit("finished", ids \cap DOMAIN external)
  /\ UNCHANGED <<nextId, deferred>>
  /\ Notify

StopRuns(ids) ==
  /\ Stopped(ids)
  /\ os' = AfterKill(ids)
  /\ Emit("finished", ids \cap DOMAIN external)
  /\ UNCHANGED <<processes, nextId, deferred>>
  /\ IF ids \cap DOMAIN external = {} THEN UNCHANGED shown ELSE Notify

Stop(id) == id \in DOMAIN processes /\ StopRuns({id})

StopCommand(c) == RunsOf(c) # {} /\ StopRuns(RunsOf(c))

(* Bug: adopted processes survive.                                         *)
KillAllOwn ==
  /\ DOMAIN processes \cup DOMAIN external # {}
  /\ StopRuns(DOMAIN processes)

(* Every adopted process carries a command, so its stopCommand reaches it; *)
(* looking up an id an earlier stopCommand erased stops nothing.           *)
KillAll ==
  /\ DOMAIN processes \cup DOMAIN external # {}
  /\ StopRuns(DOMAIN processes \cup DOMAIN external)

-----------------------------------------------------------------------------
(***************************************************************************)
(* Launching: runWithEnv(), on its own or from ProjectService::runResolved,*)
(* which first stops the command unless it may run several times.  Both    *)
(* happen in one handler: S is what it stops first.                        *)
(***************************************************************************)
(* Bug: runResolved() does not stop what already runs.                     *)
StoppedFirstNothing(c) == {{}}

StoppedFirst(c) ==
  IF c = NoCommand THEN {{}}
  ELSE IF c \in Single THEN {RunsOf(c)}
  ELSE {{}, RunsOf(c)}

TakeId == nextId <= MaxRuns /\ nextId' = nextId + 1

Launch(S, entry) ==
  /\ TakeId
  /\ Stopped(S)
  /\ processes' = Put(processes, nextId, entry)
  /\ Emit("finished", S \cap DOMAIN external)
  /\ Notify

(* Missing working directory or unresolvable executable: a QProcess that   *)
(* is never started, and a failure to be reported by a zero timer.         *)
RunNeverStarted(c) == \E S \in StoppedFirst(c) :
  /\ Launch(S, [command |-> c, pid |-> NoPid, state |-> "NotRunning"])
  /\ deferred' = deferred \cup {nextId}
  /\ os' = AfterKill(S)

RunForked(c) == \E S \in StoppedFirst(c), p \in Pids :
  /\ os[p] = "free"
  /\ Launch(S, [command |-> c, pid |-> p, state |-> "Starting"])
  /\ os' = [AfterKill(S) EXCEPT ![p] = "forked"]
  /\ UNCHANGED deferred

(* fork() itself fails: errorOccurred arrives inside process->start(), so  *)
(* the run is reported as failed before runWithEnv returns its id.         *)
RunForkFails(c) == \E S \in StoppedFirst(c) :
  /\ TakeId
  /\ Stopped(S)
  /\ os' = AfterKill(S)
  /\ heard' = [id \in RunIds |-> [s \in Signals |->
                 IF \/ s = "failed" /\ id = nextId
                    \/ s = "finished" /\ id \in S \cap DOMAIN external
                 THEN heard[id][s] + 1 ELSE heard[id][s]]]
  /\ UNCHANGED <<processes, deferred>>
  /\ Notify

(* Bug: a process no command stands behind is adopted all the same.        *)
AdoptUnnamed(p, c) ==
  /\ DOMAIN external = 1..(nextId - 1)
  /\ TakeId
  /\ os[p] \in {"live", "lookalike"}
  /\ external' = Put(external, nextId, [command |-> NoCommand, pid |-> p])
  /\ UNCHANGED <<processes, killRequested, deferred, os, heard>>
  /\ Notify

(* Once per stored process at startup, before anything else takes an id.   *)
(* ps must show the executable's name on the pid's command line; when ps   *)
(* does not answer, being alive is enough.                                 *)
AdoptExternal(p, c) ==
  /\ DOMAIN external = 1..(nextId - 1)
  /\ TakeId
  /\ os[p] # "free"
  /\ \E psAnswers \in BOOLEAN : psAnswers => os[p] \in {"live", "lookalike"}
  /\ external' = Put(external, nextId, [command |-> c, pid |-> p])
  /\ UNCHANGED <<processes, killRequested, deferred, os, heard>>
  /\ Notify

(* "Leave running": the table forgets everything, the processes go on.     *)
(* Unreaped children are left to their leaked wrappers.                    *)
DetachAll ==
  /\ DOMAIN processes \cup DOMAIN external # {}
  /\ processes' = Without(processes, DOMAIN processes)
  /\ external' = Without(external, DOMAIN external)
  /\ killRequested' = {}
  /\ os' = [p \in Pids |-> IF os[p] \in Unreaped THEN "free" ELSE os[p]]
  /\ Notify
  /\ UNCHANGED <<nextId, deferred, heard>>

-----------------------------------------------------------------------------
(***************************************************************************)
(* The Qt event loop.                                                      *)
(***************************************************************************)
Reaped(id) == [os EXCEPT ![processes[id].pid] = "free"]

(* Bugs: the entry is not cleaned up; the bindings are not told.           *)
ConcludeKeeping(id, kind) ==
  /\ UNCHANGED <<processes, external, killRequested>>
  /\ Emit(kind, {id})
  /\ Notify

ConcludeQuietly(id, kind) ==
  /\ processes' = Without(processes, {id})
  /\ killRequested' = killRequested \ {id}
  /\ Emit(kind, {id})
  /\ UNCHANGED <<external, shown>>

(* cleanup(id), the terminal signal, runningCommandsChanged.               *)
Conclude(id, kind) ==
  /\ processes' = Without(processes, {id})
  /\ UNCHANGED external
  /\ killRequested' = killRequested \ {id}
  /\ Emit(kind, {id})
  /\ Notify

(* Bug: the timer fails a run that was stopped meanwhile.                  *)
DeferredFailureAnyway(id) ==
  /\ id \in deferred
  /\ deferred' = deferred \ {id}
  /\ IF id \in DOMAIN processes
     THEN Conclude(id, "failed")
     ELSE UNCHANGED <<processes, external, killRequested, heard, shown>>
  /\ UNCHANGED <<nextId, os>>

(* deferFailure's timer; it stays quiet when the run was stopped meanwhile. *)
DeferredFailure(id) ==
  /\ id \in deferred
  /\ deferred' = deferred \ {id}
  /\ IF id \in DOMAIN processes \ killRequested
     THEN Conclude(id, "failed")
     ELSE UNCHANGED <<processes, external, killRequested, heard, shown>>
  /\ UNCHANGED <<nextId, os>>

(* QProcess learns what became of exec: errorOccurred(FailedToStart), on   *)
(* which a stop-requested run keeps quiet, or started.  A child killed     *)
(* before exec looks started.                                              *)
StartNotification(id) ==
  /\ id \in DOMAIN processes
  /\ processes[id].state = "Starting"
  /\ os[processes[id].pid] # "forked"
  /\ IF os[processes[id].pid] = "noexec"
     THEN /\ os' = Reaped(id)
          /\ IF id \in killRequested
             THEN /\ processes' = [processes EXCEPT ![id].pid = NoPid,
                                                    ![id].state = "NotRunning"]
                  /\ UNCHANGED <<external, killRequested, heard, shown>>
             ELSE Conclude(id, "failed")
     ELSE /\ processes' = [processes EXCEPT ![id].state = "Running"]
          /\ Emit("started", {id})
          /\ UNCHANGED <<external, killRequested, os>>
          /\ Notify
  /\ UNCHANGED <<nextId, deferred>>

(* Bug: finished, too, keeps quiet about a stopped run.                    *)
DeathUnreported(id) ==
  /\ id \in DOMAIN processes
  /\ processes[id].state = "Running"
  /\ os[processes[id].pid] \in {"exited", "signalled"}
  /\ os' = Reaped(id)
  /\ IF id \in killRequested
     THEN /\ processes' = [processes EXCEPT ![id].pid = NoPid, ![id].state = "NotRunning"]
          /\ UNCHANGED <<external, killRequested, heard, shown>>
     ELSE Conclude(id, IF os[processes[id].pid] = "signalled" THEN "failed" ELSE "finished")
  /\ UNCHANGED <<nextId, deferred>>

(* The child's death: after a signal errorOccurred(Crashed) comes first    *)
(* and reports the run as failed, unless stop() was called; the finished   *)
(* that follows reports whatever is still in the table.                    *)
DeathNotification(id) ==
  /\ id \in DOMAIN processes
  /\ processes[id].state = "Running"
  /\ os[processes[id].pid] \in {"exited", "signalled"}
  /\ os' = Reaped(id)
  /\ IF os[processes[id].pid] = "signalled" /\ id \notin killRequested
     THEN Conclude(id, "failed")
     ELSE Conclude(id, "finished")
  /\ UNCHANGED <<nextId, deferred>>

-----------------------------------------------------------------------------
(***************************************************************************)
(* The kernel.                                                             *)
(***************************************************************************)
Kernel(p, st) ==
  /\ os' = [os EXCEPT ![p] = IF st \in Unreaped /\ p \notin HeldPids THEN "free" ELSE st]
  /\ UNCHANGED <<processes, external, killRequested, nextId, deferred, heard, shown>>

Exec(p) == os[p] = "forked" /\ \E st \in {"live", "noexec"} : Kernel(p, st)

Exit(p) == os[p] = "live" /\ \E st \in {"exited", "signalled"} : Kernel(p, st)

StrangerComes(p) == os[p] = "free" /\ \E st \in Foreign : Kernel(p, st)

StrangerGoes(p) == os[p] \in Foreign /\ Kernel(p, "free")

(* killExternal(): SIGTERM to the pid found on a busy port, ours or not.   *)
KillExternal(p) ==
  /\ os[p] \in {"live"} \cup Foreign
  /\ \E st \in (IF os[p] = "live" THEN {"exited", "signalled"} ELSE {"free"}) : Kernel(p, st)

-----------------------------------------------------------------------------
User ==
  \/ \E c \in Commands \cup {NoCommand} :
       RunNeverStarted(c) \/ RunForked(c) \/ RunForkFails(c)
  \/ \E id \in RunIds : Stop(id)
  \/ \E c \in Commands : StopCommand(c)
  \/ \E p \in Pids, c \in Commands : AdoptExternal(p, c)
  \/ \E p \in Pids : KillExternal(p)
  \/ KillAll
  \/ DetachAll

EventLoop(id) == DeferredFailure(id) \/ StartNotification(id) \/ DeathNotification(id)

System ==
  \/ \E id \in RunIds : EventLoop(id)
  \/ \E p \in Pids : Exec(p) \/ Exit(p) \/ StrangerComes(p) \/ StrangerGoes(p)

Next == User \/ System

Spec == Init /\ [][Next]_vars

(* The event loop keeps delivering what is due, and a fork reaches exec.   *)
(* Nothing obliges a program to end or a user to act.                      *)
Fairness ==
  /\ \A id \in RunIds : WF_vars(EventLoop(id))
  /\ \A p \in Pids : WF_vars(Exec(p))

FairSpec == Spec /\ Fairness

-----------------------------------------------------------------------------
(***************************************************************************)
(* Properties.                                                             *)
(***************************************************************************)

(* Every id is reported at most once as over, and never while it is still  *)
(* in the table: errorOccurred(Crashed) and finished come in pairs, a      *)
(* deferred failure may race stop(), an adopted run ends in stopCommand.   *)
Ends(id) == heard[id]["finished"] + heard[id]["failed"]
ReportedOnce ==
  \A id \in RunIds :
    /\ Ends(id) <= 1
    /\ heard[id]["started"] <= 1
    /\ id \in DOMAIN processes \cup DOMAIN external => Ends(id) = 0

(* No child is lost: a pid waiting to be reaped belongs to exactly one     *)
(* entry, and an entry without a process either has its failure coming or  *)
(* was asked to stop.                                                      *)
NoLostChild ==
  /\ \A p \in Pids : os[p] \in Unreaped =>
       \E id \in DOMAIN processes : processes[id].pid = p
  /\ \A i, j \in DOMAIN processes :
       processes[i].pid = processes[j].pid /\ processes[i].pid # NoPid => i = j
  /\ \A id \in DOMAIN processes :
       processes[id].state = "NotRunning" => id \in deferred \cup killRequested

(* Once stop() was called for a run, its program no longer runs, whatever  *)
(* QProcess still believes about it.                                       *)
StopIsFinal ==
  \A id \in killRequested :
    /\ id \in DOMAIN processes
    /\ processes[id].pid \in Pids => os[processes[id].pid] \notin {"forked", "live"}

(* A command that may not run several times has at most one program alive  *)
(* among the runs of this session, and none while an adopted one is listed *)
(* for it: runResolved stops before it launches.                           *)
Alive(id) == processes[id].pid \in Pids /\ os[processes[id].pid] \in {"forked", "live"}
SingleInstance ==
  \A c \in Single : \A id \in Of(processes, c) :
    Alive(id) => /\ \A other \in Of(processes, c) : Alive(other) => other = id
                 /\ Of(external, c) = {}

(* What the bindings last read is what runningCommandIds would answer now: *)
(* no handler changes the tables without runningCommandsChanged.           *)
BindingsFresh == shown = runningCommandIds

(* The inductive invariant: what the tables and the kernel's process table *)
(* have to do with each other between any two handlers.                    *)
Ids == 1..(nextId - 1)
TablesDisjoint ==
  /\ DOMAIN processes \subseteq Ids
  /\ DOMAIN external \subseteq Ids
  /\ deferred \subseteq Ids
  /\ DOMAIN processes \cap DOMAIN external = {}
  /\ killRequested \subseteq DOMAIN processes

EntryMatchesKernel ==
  \A id \in DOMAIN processes :
    LET e == processes[id]
    IN  /\ e.state = "NotRunning" => e.pid = NoPid
        /\ e.state = "Starting" => e.pid \in Pids /\ os[e.pid] \in {"forked", "live"} \cup Unreaped
        /\ e.state = "Running" => e.pid \in Pids /\ os[e.pid] \in {"live", "exited", "signalled"}
        /\ id \in deferred => e.state = "NotRunning"

SignalsMatchState ==
  \A id \in RunIds :
    /\ id \notin Ids => \A s \in Signals : heard[id][s] = 0
    /\ id \in DOMAIN processes =>
         heard[id]["started"] = IF processes[id].state = "Running" THEN 1 ELSE 0
    /\ id \in DOMAIN external => heard[id]["started"] = 0

IInv ==
  /\ TypeOK
  /\ TablesDisjoint
  /\ EntryMatchesKernel
  /\ SignalsMatchState
  /\ ReportedOnce
  /\ NoLostChild
  /\ StopIsFinal
  /\ BindingsFresh

(* The phases a listener can tell apart implement RunLifecycle.            *)
PhaseOf ==
  [id \in RunIds |->
     IF heard[id]["failed"] > 0 THEN "failed"
     ELSE IF heard[id]["finished"] > 0 THEN "finished"
     ELSE IF id \in killRequested THEN "stopping"
     ELSE IF id \in DOMAIN external THEN "up"
     ELSE IF id \in DOMAIN processes
     THEN IF heard[id]["started"] > 0 THEN "up" ELSE "pending"
     ELSE IF id < nextId THEN "left" ELSE "none"]

Lifecycle == INSTANCE RunLifecycle WITH Runs <- RunIds, phase <- PhaseOf
ImplementsLifecycle == Lifecycle!Spec

(* A run leaves the table as over only when its program is gone: nothing   *)
(* reports an end that has not happened.                                   *)
EndsAreReal ==
  [][\A id \in DOMAIN processes :
       Ends(id)' > Ends(id) => ~Alive(id)]_vars

(* Every child that died under a run leads to the run's leaving the table. *)
DeadRunsReported ==
  \A id \in RunIds :
    (id \in DOMAIN processes /\ processes[id].pid \in Pids
       /\ os[processes[id].pid] \in {"exited", "signalled"})
      ~> id \notin DOMAIN processes

(* A run nobody stops is either up or over in the end, never left pending. *)
LaunchResolved ==
  \A id \in RunIds :
    id \in DOMAIN processes
      ~> \/ id \notin DOMAIN processes
         \/ processes[id].state = "Running"
         \/ id \in killRequested

(* The comments of stop() and of the errorOccurred handler: finished()     *)
(* follows from kill() and does the clean-up.                              *)
StopLeadsToCleanup ==
  \A id \in RunIds : id \in killRequested ~> id \notin DOMAIN processes

(* Both together: a dead program is found out, and a launch comes to       *)
(* something.                                                              *)
RunsResolve == DeadRunsReported /\ LaunchResolved
=============================================================================
