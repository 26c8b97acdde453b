---------------------------- MODULE RecentCommands ----------------------------
(***************************************************************************)
(* The recently run commands (src/src/projectservice.cpp): recorded when   *)
(* the executor tells that a run started, whatever launched it, and        *)
(* written to Settings each time.                                          *)
(***************************************************************************)
EXTENDS Naturals, SequencesExt, Ordered

CONSTANTS
  RecentKeys,  \* run keys, as <<project, command>>
  RecentCap,   \* how many are kept, 20 in the code
  MaxStarted   \* bound on the runs

ASSUME RecentAssumption == RecentCap \in Nat \ {0} /\ MaxStarted \in Nat

VARIABLES
  recents,        \* m_recents, the newest first
  storedRecents,  \* "recentCommands" in the settings file
  started         \* every run that started since the list was cleared
recentVars == <<recents, storedRecents, started>>

RecentsInit == recents = <<>> /\ storedRecents = <<>> /\ started = <<>>

Without(k, s) == Picked(s, {i \in DOMAIN s : s[i] # k})
Kept(s) == IF Len(s) > RecentCap THEN SubSeq(s, 1, RecentCap) ELSE s

persistRecents(list) == recents' = list /\ storedRecents' = list

(* Bug: room is made before the old entry of the command is taken out.     *)
recordAfterCut(k) ==
  persistRecents(<<k>> \o Without(k, IF Len(recents) < RecentCap THEN recents ELSE Front(recents)))

recordRecent(k) ==
  persistRecents(Kept(<<k>> \o Without(k, recents)))

(* A run without a project or a command is not recorded.                   *)
StartedRun(k) ==
  /\ Len(started) < MaxStarted
  /\ IF "" \in {k[1], k[2]} THEN UNCHANGED recentVars
     ELSE recordRecent(k) /\ started' = Append(started, k)

clearRecentCommands ==
  /\ recents # <<>>
  /\ persistRecents(<<>>)
  /\ started' = <<>>

(* The app ends, at any time, and starts again: loadRecents.               *)
Relaunched ==
  /\ recents' = storedRecents
  /\ UNCHANGED <<storedRecents, started>>

RecentsNext == (\E k \in RecentKeys : StartedRun(k)) \/ clearRecentCommands \/ Relaunched

RecentsSpec == RecentsInit /\ [][RecentsNext]_recentVars

(* The list is the last commands run, each once, newest first, and nothing *)
(* is lost to it or comes back by a restart or by many runs of a few.      *)
LastRunOf(k) == Max({i \in DOMAIN started : started[i] = k})
Newer(k) == {q \in ToSet(started) : q # k /\ LastRunOf(q) > LastRunOf(k)}
RecentsAreLastRuns ==
  /\ recents = storedRecents
  /\ \A k \in ToSet(started) :
       IF Cardinality(Newer(k)) < RecentCap
       THEN Len(recents) > Cardinality(Newer(k)) /\ recents[Cardinality(Newer(k)) + 1] = k
       ELSE ~Contains(recents, k)
  /\ Len(recents) = Cardinality(ToSet(recents)) /\ Len(recents) <= RecentCap
  /\ ToSet(recents) \subseteq ToSet(started)
=============================================================================
