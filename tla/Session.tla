------------------------------- MODULE Session -------------------------------
(***************************************************************************)
(* Sessions of the app around the process table: quitting with or without  *)
(* leaving runs behind, the self-update's restart, an exit nobody prepared *)
(* (a crash, or the last window closed where there is no tray), and the    *)
(* start that reattaches to the processes recorded in the settings key     *)
(* "orphanedProcesses" (qml/main.qml, src/main.cpp, src/updater.cpp).      *)
(***************************************************************************)
EXTENDS CommandExecutor

CONSTANTS
  MaxSessions,  \* bound on the starts of the app
  MayCrash      \* whether the app may end without any of its quit paths

ASSUME SessionAssumption == MaxSessions \in Nat /\ MayCrash \in BOOLEAN

VARIABLES
  app,       \* where the app is: its loop runs, it starts, quits or is down
  session,   \* how many times it started
  stored,    \* the settings key "orphanedProcesses"
  todo,      \* the records the start has not looked at yet
  survivors, \* main()'s list of the records it adopted
  ours       \* history: the programs trun launched that still run

sessionVars == <<app, session, stored, todo, survivors, ours>>
allVars == <<vars, sessionVars>>

App == {"starting", "running", "quitting", "down"}
Record == [command : Commands \cup {NoCommand}, pid : Pids]

SessionTypeOK ==
  /\ app \in App
  /\ session \in 0..MaxSessions
  /\ stored \subseteq Record
  /\ todo \subseteq stored
  /\ survivors \subseteq stored
  /\ app # "starting" => todo = {} /\ survivors = {}
  /\ ours \subseteq Record

SessionInit ==
  /\ Init
  /\ \A p \in Pids : os[p] # "live"
  /\ app = "down"
  /\ session = 0
  /\ stored = {}
  /\ todo = {}
  /\ survivors = {}
  /\ ours = {}

Records(table) ==
  {[command |-> e.command, pid |-> e.pid] : e \in {x \in Range(table) : x.pid # NoPid}}

(* A program is ours from its fork to its end, or to a crash before it is  *)
(* recorded.                                                               *)
Track ==
  ours' = {r \in ours \cup Records(processes') : os'[r.pid] \in {"forked", "live"}}

(* runningProcesses(): what has a pid, adopted processes included.         *)
runningProcesses == Records(processes) \cup Records(external)

NothingTracked == DOMAIN processes \cup DOMAIN external = {}

-----------------------------------------------------------------------------
(* What goes on while the app is in its event loop: the user's handlers.   *)
(* The app never launches a run without a command behind it.               *)
UserStep ==
  /\ app = "running"
  /\ \/ \E c \in Commands : RunNeverStarted(c) \/ RunForked(c) \/ RunForkFails(c)
     \/ \E id \in RunIds : Stop(id)
     \/ \E c \in Commands : StopCommand(c)
     \/ \E p \in Pids : KillExternal(p)
  /\ Track
  /\ UNCHANGED <<app, session, stored, todo, survivors>>

LoopStep ==
  /\ app \in {"running", "quitting"}
  /\ \E id \in RunIds : EventLoop(id)
  /\ Track
  /\ UNCHANGED <<app, session, stored, todo, survivors>>

KernelStep ==
  /\ \E p \in Pids : Exec(p) \/ Exit(p) \/ StrangerComes(p) \/ StrangerGoes(p)
  /\ Track
  /\ UNCHANGED <<app, session, stored, todo, survivors>>

-----------------------------------------------------------------------------
Quit ==
  /\ app = "running"
  /\ app' = "quitting"
  /\ UNCHANGED <<session, todo, survivors>>

(* requestQuit() with runningCount() = 0 leaves the settings alone.        *)
QuitIdle == Quit /\ NothingTracked /\ UNCHANGED <<vars, stored, ours>>

(* The dialog's or the remembered "kill".  The dialog opens over at least  *)
(* one run, but all of them may be over when it is answered.               *)
QuitKill ==
  /\ Quit
  /\ nextId > 1
  /\ stored' = {}
  /\ KillAll \/ (NothingTracked /\ UNCHANGED vars)
  /\ Track

(* Bug: the table is asked after detachAll() emptied it.                   *)
QuitLeaveTooLate ==
  /\ Quit
  /\ DetachAll \/ (NothingTracked /\ UNCHANGED vars)
  /\ stored' = runningProcesses'
  /\ Track

(* The dialog's or the remembered "leave", and the self-update's restart.  *)
QuitLeave ==
  /\ Quit
  /\ stored' = runningProcesses
  /\ DetachAll \/ (NothingTracked /\ UNCHANGED vars)
  /\ Track

(* The process ends: the tables are gone, init reaps what is left.         *)
GoDown ==
  /\ processes' = Without(processes, DOMAIN processes)
  /\ external' = Without(external, DOMAIN external)
  /\ killRequested' = {}
  /\ nextId' = 1
  /\ deferred' = {}
  /\ os' = [p \in Pids |-> IF os[p] \in Unreaped THEN "free" ELSE os[p]]
  /\ heard' = [id \in RunIds |-> [s \in Signals |-> 0]]
  /\ shown' = {}
  /\ app' = "down"
  /\ todo' = {}
  /\ survivors' = {}
  /\ UNCHANGED <<session, stored>>

Ended == app = "quitting" /\ GoDown /\ Track

(* A crash writes nothing: what is not recorded from the session before is *)
(* nobody's from then on.                                                  *)
Crash ==
  /\ MayCrash
  /\ app \in {"starting", "running"}
  /\ GoDown
  /\ ours' = {r \in ours \cap stored : os'[r.pid] = "live"}

-----------------------------------------------------------------------------
(* A start takes longer than what was left between fork and exec.          *)
Start ==
  /\ app = "down"
  /\ session < MaxSessions
  /\ \A p \in Pids : os[p] # "forked"
  /\ app' = "starting"
  /\ session' = session + 1
  /\ todo' = stored
  /\ UNCHANGED <<vars, stored, survivors, ours>>

Adopt(r) ==
  /\ app = "starting"
  /\ r \in todo
  /\ r.command # NoCommand
  /\ AdoptExternal(r.pid, r.command)
  /\ todo' = todo \ {r}
  /\ survivors' = survivors \cup {r}
  /\ Track
  /\ UNCHANGED <<app, session, stored>>

(* Bug: when ps does not answer the process is taken for dead.             *)
SkipUnverified(r) ==
  /\ app = "starting"
  /\ r \in todo
  /\ todo' = todo \ {r}
  /\ UNCHANGED <<vars, app, session, stored, survivors, ours>>

(* ps shows a program for this very command with its executable.           *)
Skip(r) ==
  /\ app = "starting"
  /\ r \in todo
  /\ \/ r.command = NoCommand
     \/ os[r.pid] \in {"free", "stranger"}
     \/ os[r.pid] = "live" /\ r \notin ours
  /\ todo' = todo \ {r}
  /\ UNCHANGED <<vars, app, session, stored, survivors, ours>>

Started ==
  /\ app = "starting"
  /\ todo = {}
  /\ app' = "running"
  /\ stored' = survivors
  /\ survivors' = {}
  /\ UNCHANGED <<vars, session, todo, ours>>

-----------------------------------------------------------------------------
SessionNext ==
  \/ UserStep \/ LoopStep \/ KernelStep
  \/ QuitIdle \/ QuitKill \/ QuitLeave \/ Ended \/ Crash
  \/ Start \/ Started
  \/ \E r \in todo : Adopt(r) \/ Skip(r)

SessionSpec == SessionInit /\ [][SessionNext]_allVars

-----------------------------------------------------------------------------
(* Every session works on a sound process table, whatever the sessions     *)
(* before it left behind and however they ended.                           *)
TableSound == IInv

(* README "Leave running": no program trun launched is ever out of its     *)
(* sight: while it runs it lists it, and when it is down the settings have *)
(* it; a crash loses no program that was recorded before.                  *)
NothingForgotten ==
  \A r \in ours :
    CASE app = "running"  -> r \in runningProcesses
      [] app = "starting" -> r \in todo \cup survivors
      [] OTHER            -> r \in stored

(* What was left running and still runs is listed under its own command    *)
(* when the start is over.                                                 *)
Reattached ==
  [][Started => stored \cap ours \subseteq Range(external)]_allVars

(* Over all sessions, a command that may not run several times has at most *)
(* one program alive, but for those a crash left behind unrecorded.        *)
SingleAcrossSessions ==
  \A r, s \in ours : r.command = s.command /\ r.command \in Single => r = s

(* "Kill" means kill: nothing trun knows of outlives that quit, whichever  *)
(* session launched it, and the next start has nothing to reattach to.     *)
KillLeavesNothing == [][QuitKill => ours' = {} /\ stored' = {}]_allVars

=============================================================================
