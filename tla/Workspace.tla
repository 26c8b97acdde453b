------------------------------- MODULE Workspace -------------------------------
(***************************************************************************)
(* The workspace of trun (src/src/projectservice.cpp): the folders the     *)
(* user added, the projects found in them, the user's own commands and     *)
(* pins, the console commands discovered in the background, the copies of  *)
(* all this in memory, and the cache a start restores it from.             *)
(*                                                                         *)
(* ProjectService runs on the GUI thread; what interleaves with it is the  *)
(* discoveries of FrameworkConsole, the editing of the disk, and the end   *)
(* of the app at any moment.                                               *)
(***************************************************************************)
EXTENDS FrameworkConsole, FiniteSets

CONSTANTS
  Under,       \* per folder, the folders at or below it
  Packages,    \* folders with a package.json, which nobody edits
  MaxCustoms,  \* bound on the commands the user adds
  MaxStarts,   \* bound on the starts of the app
  MaxPins,     \* bound on the pins set at a time
  MayMigrate,  \* whether an update of the app may change the cache's format
  Guarded      \* whether scans are those of the wizard, which asks first

ASSUME WorkspaceAssumption ==
  /\ Under \in [Folders -> SUBSET Folders]
  /\ \A f \in Folders : f \in Under[f]
  /\ Packages \subseteq Folders
  /\ MaxCustoms \in Nat
  /\ MaxStarts \in Nat
  /\ MaxPins \in Nat
  /\ MayMigrate \in BOOLEAN
  /\ Guarded \in BOOLEAN

VARIABLES
  app,       \* "down", "restoring" (scanning roots again) or "running"
  starts,    \* how many times the app started
  rescan,    \* the roots a start still has to scan again
  roots,     \* m_rootPaths
  projects,  \* m_projects: project -> what the app shows of it
  scanned,   \* m_scanned: the same, for what a scan found
  customs,   \* m_customCommands and the settings key "customCommands"
  pins,      \* m_pins and the settings key "pinnedCommands"
  active,    \* m_activeProject: nothing, or one project as it was copied
  inFlight,  \* m_consoleInFlight
  stored     \* the settings keys "rootFolders" and "projects"

workspaceVars == <<app, starts, rescan, roots, projects, scanned, customs,
                   pins, active, inFlight, stored>>
allVars == <<consoleVars, workspaceVars>>

Package(f) == [folder |-> f, manifest |-> "package.json"]
Composer(f) == [folder |-> f, manifest |-> "composer.json"]
Pseudo(f) == [folder |-> f, manifest |-> "custom"]
Scannable == {Package(f) : f \in Folders} \cup {Composer(f) : f \in Folders}
Projects == Scannable \cup {Pseudo(f) : f \in Folders}

(* What the app holds of a project besides its scripts: the console        *)
(* commands (the state of the disk they were listed in), the mtimes in its *)
(* consoleCache, consoleLoading, and the ids of the user's commands.       *)
CustomIds == 1..MaxCustoms
Data == [list : 0..MaxVersion, cache : 0..MaxVersion, loading : BOOLEAN,
         customs : SUBSET CustomIds]
NoCache == 0
Found == [list |-> NoList, cache |-> NoCache, loading |-> FALSE, customs |-> {}]

Custom == [nr : CustomIds, folder : Folders, id : CustomIds]
Script == <<"script", 0>>
ConsoleCommand == <<"console", 0>>
Commands == {Script, ConsoleCommand} \cup ({"custom"} \X CustomIds)

Empty == [p \in {} |-> Found]

WorkspaceTypeOK ==
  /\ ConsoleTypeOK
  /\ app \in {"down", "restoring", "running"}
  /\ starts \in 0..MaxStarts
  /\ rescan \subseteq Folders
  /\ roots \subseteq Folders
  /\ DOMAIN projects \subseteq Projects /\ projects \in [DOMAIN projects -> Data]
  /\ DOMAIN scanned \subseteq Scannable /\ scanned \in [DOMAIN scanned -> Data]
  /\ customs \subseteq Custom
  /\ pins \subseteq Projects \X Commands
  /\ DOMAIN active \subseteq Projects /\ active \in [DOMAIN active -> Data]
  /\ inFlight \subseteq Folders
  /\ stored.roots \subseteq Folders
  /\ DOMAIN stored.projects \subseteq Scannable
  /\ stored.projects \in [DOMAIN stored.projects -> Data]

WorkspaceInit ==
  /\ ConsoleInit
  /\ app = "down"
  /\ starts = 0
  /\ rescan = {}
  /\ roots = {}
  /\ projects = Empty
  /\ scanned = Empty
  /\ customs = {}
  /\ pins = {}
  /\ active = Empty
  /\ inFlight = {}
  /\ stored = [roots |-> {}, projects |-> Empty]

Exists(p) ==
  \/ p.manifest = "package.json" /\ p.folder \in Packages
  \/ p.manifest = "composer.json" /\ console[p.folder] # NoManifest

Has(d, p, c) ==
  \/ c = Script /\ p.manifest # "custom"
  \/ c = ConsoleCommand /\ d.list # NoList
  \/ c[1] = "custom" /\ c[2] \in d.customs

-----------------------------------------------------------------------------
(* stripCustomCommands() on all but the pseudo-projects.                   *)
Stripped(table) ==
  [p \in DOMAIN table \cap Scannable |-> [table[p] EXCEPT !.customs = {}]]

(* The project a folder's own commands belong to: the first at that path,  *)
(* in the order of s_manifests.                                            *)
Target(P, f) ==
  CASE Package(f) \in P  -> Package(f)
    [] Composer(f) \in P -> Composer(f)
    [] OTHER             -> Pseudo(f)

IdsIn(cs, f) == {c.id : c \in {x \in cs : x.folder = f}}

(* Bug: the search for the target goes on after it was found.              *)
MergedEverywhere(table, cs) ==
  LET targets == {p \in DOMAIN table : \E c \in cs : p.folder = c.folder} \cup
                 {Target(DOMAIN table, c.folder) : c \in cs}
      base(p) == IF p \in DOMAIN table THEN table[p] ELSE Found
  IN  [p \in DOMAIN table \cup targets |->
         IF p \in targets THEN [base(p) EXCEPT !.customs = @ \cup IdsIn(cs, p.folder)]
                          ELSE base(p)]

(* mergeCustomCommands(): each command goes to its folder's first project, *)
(* which is made up when there is none, unless its id is taken there.      *)
Merged(table, cs) ==
  LET targets == {Target(DOMAIN table, c.folder) : c \in cs}
      base(p) == IF p \in DOMAIN table THEN table[p] ELSE Found
  IN  [p \in DOMAIN table \cup targets |->
         IF p \in targets THEN [base(p) EXCEPT !.customs = @ \cup IdsIn(cs, p.folder)]
                          ELSE base(p)]

(* Bug: the pins are looked up before the new projects are in place.       *)
PrunedTooEarly(P) ==
  {x \in pins : x[1] \in DOMAIN projects /\ Has(projects[x[1]], x[1], x[2])}

(* prunePins().                                                            *)
Pruned(P) == {x \in pins : x[1] \in DOMAIN P /\ Has(P[x[1]], x[1], x[2])}

(* refreshConsoleDiscovery(): which projects keep what they have, lose the *)
(* records of a framework that is gone, or wait for a new list.            *)
Valid(p, d) == d.cache = console[p.folder] /\ d.list # NoList
Outdated(P) ==
  {p \in DOMAIN P : p.manifest = "composer.json" /\ Detected(p.folder) /\ ~Valid(p, P[p])}
Frameless(P) ==
  {p \in DOMAIN P : /\ p.manifest = "composer.json"
                    /\ ~Detected(p.folder)
                    /\ P[p].list # NoList \/ P[p].cache # NoCache}
Refreshed(P) ==
  [p \in DOMAIN P |->
     IF p \in Outdated(P) \cup Frameless(P)
     THEN [P[p] EXCEPT !.list = NoList, !.cache = NoCache, !.loading = p \in Outdated(P)]
     ELSE P[p]]
(* Bug: only m_processes is asked what is under way.                       *)
ToDiscoverAgain(P) ==
  {f \in Folders : Composer(f) \in Outdated(P) /\ ~discoveryInProgress(f)}

ToDiscover(P) ==
  {f \in Folders \ inFlight : Composer(f) \in Outdated(P) /\ ~discoveryInProgress(f)}

(* The selection follows the project it is a copy of.                      *)
Reselected(P) == [p \in DOMAIN active \cap DOMAIN P |-> P[p]]

(* applyProjects(table), on its own and with refreshConsoleDiscovery().    *)
Apply(table, cs) ==
  LET P == Merged(table, cs)
  IN  /\ projects' = P
      /\ scanned' = table
      /\ customs' = cs
      /\ pins' = Pruned(P)
      /\ active' = Reselected(P)

ApplyAndRefresh(table) ==
  LET P == Merged(table, customs)
      R == Refreshed(P)
  IN  /\ projects' = R
      /\ scanned' = IF Outdated(P) \cup Frameless(P) = {} THEN table
                    ELSE [p \in DOMAIN table |-> R[p]]
      /\ pins' = Pruned(P)
      /\ active' = Reselected(R)
      /\ inFlight' = inFlight \cup ToDiscover(P)
      /\ StartAll(ToDiscover(P))
      /\ UNCHANGED <<console, edits, customs>>

(* persistWorkspace().                                                     *)
Persist == stored' = [roots |-> roots', projects |-> Stripped(projects')]

-----------------------------------------------------------------------------
(* scanFolder(r): r's projects are replaced, those elsewhere kept.         *)
FoundUnder(r) == {p \in Scannable : p.folder \in Under[r] /\ Exists(p)}

(* Bug: the scan starts over.                                              *)
ElsewhereForgotten(r) == {}

Elsewhere(r) == {p \in DOMAIN projects \cap Scannable : p.folder \notin Under[r]}
Rescanned(r) ==
  [p \in Elsewhere(r) \cup FoundUnder(r) |->
     IF p \in Elsewhere(r) THEN [projects[p] EXCEPT !.customs = {}] ELSE Found]

Scan(r) ==
  /\ roots' = roots \cup {r}
  /\ ApplyAndRefresh(Rescanned(r))
  /\ IF DOMAIN projects' = {} THEN UNCHANGED stored ELSE Persist

(* isFolderKnown(): the wizard scans no folder it answers true for, though *)
(* scanFolder() is made to scan a known root again.                        *)
Known(r) == \E p \in DOMAIN projects : p.folder \in Under[r] \/ r \in Under[p.folder]

ScanFolder(r) ==
  /\ app = "running"
  /\ Guarded => ~Known(r)
  /\ Scan(r)
  /\ UNCHANGED <<app, starts, rescan>>

(* The id a new command gets: the first one its target has not taken.      *)
Taken(f) ==
  LET p == Target(DOMAIN projects, f)
  IN  IF p \in DOMAIN projects THEN projects[p].customs ELSE {}
FreeId(f) == CHOOSE k \in CustomIds :
  k \notin Taken(f) /\ \A i \in CustomIds : i \notin Taken(f) => k <= i

AddCustom(f) ==
  /\ app = "running"
  /\ Cardinality(customs) < MaxCustoms
  /\ Apply(scanned, customs \cup
             {[nr |-> Cardinality(customs) + 1, folder |-> f, id |-> FreeId(f)]})
  /\ UNCHANGED <<consoleVars, app, starts, rescan, roots, inFlight, stored>>

SetPinned(p, c) ==
  /\ app = "running"
  /\ p \in DOMAIN projects
  /\ Has(projects[p], p, c)
  /\ <<p, c>> \in pins \/ Cardinality(pins) < MaxPins
  /\ pins' = IF <<p, c>> \in pins THEN pins \ {<<p, c>>} ELSE pins \cup {<<p, c>>}
  /\ UNCHANGED <<consoleVars, app, starts, rescan, roots, projects, scanned,
                 customs, active, inFlight, stored>>

SelectProject(p) ==
  /\ app = "running"
  /\ p \in DOMAIN projects
  /\ active' = Restrict(projects, {p})
  /\ UNCHANGED <<consoleVars, app, starts, rescan, roots, projects, scanned,
                 customs, pins, inFlight, stored>>

-----------------------------------------------------------------------------
(* The discoveries and their signals.                                      *)
PhpStep ==
  /\ \E j \in DOMAIN jobs : PhpLists(j) \/ (app = "running" /\ PhpFinished(j))
  /\ UNCHANGED workspaceVars

(* Bug: what was found keeps the old records.                              *)
Unsynced(p, new) == scanned

(* syncScanned().                                                          *)
Synced(p, new) == [q \in DOMAIN scanned |-> IF q = p THEN new ELSE scanned[q]]

(* What both slots do to the project at path f, if it is still there.      *)
Discovered(f, d) ==
  /\ inFlight' = inFlight \ {f}
  /\ IF Composer(f) \in DOMAIN projects
     THEN LET p == Composer(f)
              new == [d EXCEPT !.customs = projects[p].customs]
          IN  /\ projects' = [projects EXCEPT ![p] = new]
              /\ scanned' = Synced(p, new)
              /\ active' = Reselected(projects')
              /\ Persist
     ELSE UNCHANGED <<projects, scanned, active, stored>>
  /\ UNCHANGED <<app, starts, rescan, roots, customs, pins>>

OnDiscoveryFinished(j) ==
  /\ app = "running"
  /\ Delivered(j)
  /\ jobs[j].list > NoFramework
  /\ UNCHANGED roots
  /\ Discovered(j[1], [Found EXCEPT !.list = jobs[j].list, !.cache = console[j[1]]])

OnDiscoveryFailed(j) ==
  /\ app = "running"
  /\ PhpFailed(j) \/ Delivered(j)
  /\ UNCHANGED roots
  /\ Discovered(j[1], Found)

-----------------------------------------------------------------------------
EditDisk ==
  /\ \E f \in Folders : EditConsole(f)
  /\ UNCHANGED workspaceVars

(* The app ends, in whatever way; the workspace is not saved on exit.      *)
GoDown ==
  /\ app # "down"
  /\ app' = "down"
  /\ rescan' = {}
  /\ roots' = {}
  /\ projects' = Empty
  /\ scanned' = Empty
  /\ active' = Empty
  /\ inFlight' = {}
  /\ processes' = Restrict(processes, {})
  /\ jobs' = Restrict(jobs, {})
  /\ UNCHANGED <<console, edits, starts, customs, pins, stored>>

(* restoreFromCache().                                                     *)
Kept == {p \in DOMAIN stored.projects : Exists(p)}

Starting ==
  /\ app = "down"
  /\ starts < MaxStarts
  /\ starts' = starts + 1

(* Nothing to restore: the stored workspace is cleared.                    *)
StartEmpty ==
  /\ Starting
  /\ Kept = {}
  /\ app' = "running"
  /\ stored' = [roots |-> {}, projects |-> Empty]
  /\ UNCHANGED <<consoleVars, rescan, roots, projects, scanned, customs, pins, active, inFlight>>

StartFromCache ==
  /\ Starting
  /\ Kept # {}
  /\ app' = "running"
  /\ roots' = stored.roots
  /\ ApplyAndRefresh(Restrict(stored.projects, Kept))
  /\ Persist
  /\ UNCHANGED rescan

(* The cache has another format: every root is scanned again, one by one.  *)
StartRescanning ==
  /\ MayMigrate
  /\ Starting
  /\ stored.roots # {}
  /\ app' = "restoring"
  /\ rescan' = stored.roots
  /\ UNCHANGED <<consoleVars, roots, projects, scanned, customs, pins, active, inFlight, stored>>

RescanRoot(r) ==
  /\ app = "restoring"
  /\ r \in rescan
  /\ rescan' = rescan \ {r}
  /\ app' = IF rescan' = {} THEN "running" ELSE "restoring"
  /\ Scan(r)
  /\ UNCHANGED starts

-----------------------------------------------------------------------------
User ==
  \/ \E f \in Folders : ScanFolder(f) \/ AddCustom(f)
  \/ \E p \in Projects : SelectProject(p) \/ \E c \in Commands : SetPinned(p, c)

Discovery == PhpStep \/ \E j \in DOMAIN jobs : OnDiscoveryFinished(j) \/ OnDiscoveryFailed(j)

Session ==
  \/ GoDown \/ StartEmpty \/ StartFromCache \/ StartRescanning
  \/ \E r \in Folders : RescanRoot(r)

WorkspaceNext == User \/ Discovery \/ Session \/ EditDisk

WorkspaceSpec == WorkspaceInit /\ [][WorkspaceNext]_allVars

-----------------------------------------------------------------------------
(* What a scan found and what is shown are the same but for the user's own *)
(* commands: whoever changes one list changes the other (syncScanned), or  *)
(* the next command the user adds brings back what was there before.       *)
CopiesAgree ==
  /\ DOMAIN scanned = DOMAIN projects \cap Scannable
  /\ Stripped(scanned) = Stripped(projects)

(* The selected project is shown as it is in the list, after scans,        *)
(* discoveries that end in the background, and added commands.             *)
SelectionFresh == \A p \in DOMAIN active : p \in DOMAIN projects /\ active[p] = projects[p]

(* The settings hold what is on the screen, so that the end of the app at  *)
(* any moment loses nothing of it, and never the user's own commands,      *)
(* which have a key of their own.                                          *)
CacheCurrent ==
  app # "down" /\ DOMAIN projects \cap Scannable # {} =>
    stored = [roots |-> roots, projects |-> Stripped(projects)]

(* Every command the user added is listed once, whatever manifests come    *)
(* and go in its folder and however often it was merged.                   *)
CustomsListedOnce ==
  projects # Empty =>
    \A c \in customs :
      Cardinality({p \in DOMAIN projects :
                     p.folder = c.folder /\ c.id \in projects[p].customs}) = 1

(* Discoveries of one project never overlap, each is known to be under way *)
(* until its slot has run, and m_processes never holds a deleted process.  *)
DiscoveryTracked ==
  /\ \A f \in Folders :
       Cardinality(JobsOf(f)) = IF f \in inFlight THEN 1 ELSE 0
  /\ \A f \in DOMAIN processes : <<f, processes[f]>> \in DOMAIN jobs

(* scanFolder()'s comment: rescanning a root replaces only that root's     *)
(* projects.  All others stay, with their lists as far as they are valid.  *)
ScanTouchesOwnRoot ==
  [][\A r \in Folders : ScanFolder(r) =>
       \A p \in DOMAIN projects \cap Scannable :
         p.folder \notin Under[r] =>
           /\ p \in DOMAIN projects'
           /\ Detected(p.folder) /\ Valid(p, projects[p]) => projects'[p] = projects[p]]_allVars

(* Pins are persisted in Settings, and only the user takes one off a       *)
(* project of the workspace that is still there and still has the command, *)
(* in whatever order scans, restarts and discoveries come.  That is so for *)
(* scripts, but for the scans of a start that finds another cache format.  *)
Lost(x) ==
  /\ x \notin pins'
  /\ ~SetPinned(x[1], x[2])
  /\ x[1] \in DOMAIN projects \cup DOMAIN stored.projects
  /\ Exists(x[1])'
ScriptPinsKept ==
  [][app # "restoring" => \A x \in pins : x[2] = Script => ~Lost(x)]_allVars

(* Pins are persisted in Settings: the same for console commands, as long  *)
(* as their project has the framework, at any moment.                      *)
ConsolePinsKept ==
  [][\A x \in pins : x[2] = ConsoleCommand /\ Detected(x[1].folder) => ~Lost(x)]_allVars

(* The three copies of a project, in the scan, on the screen and in the    *)
(* settings, are never apart between two handlers.                         *)
WorkspaceSound ==
  /\ WorkspaceTypeOK
  /\ CopiesAgree
  /\ SelectionFresh
  /\ CacheCurrent
=============================================================================
