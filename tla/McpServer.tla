------------------------------- MODULE McpServer -------------------------------
(***************************************************************************)
(* The MCP server (src/src/mcpserver.cpp): agents list, run and stop       *)
(* commands and read their output, in a process of its own without a       *)
(* window.  One request is answered at a time; between two of them the     *)
(* executor tells what becomes of the runs.  A run key is                  *)
(* <<project, command>>; an agent may leave the project out and writes     *)
(* <<"", command>>.                                                        *)
(***************************************************************************)
EXTENDS Integers, SequencesExt, Ordered, LogParser

CONSTANTS
  RunKeys,      \* the commands of all projects
  Joining,      \* those whose configuration allows several runs
  MaxLive,      \* bound on the runs of one command at a time
  MaxLogLines,  \* kMaxLogLines
  McpLines,     \* the lines programs print, as LogParser describes them
  McpFilters,   \* what agents filter by
  MaxLogged,    \* bound on the lines of all commands
  Tails,        \* the tails agents ask for
  LogFiles      \* what the log files of a project may hold, file by file

ASSUME McpAssumption ==
  /\ IsFiniteSet(RunKeys) /\ Joining \subseteq RunKeys /\ MaxLive \in Nat
  /\ MaxLogLines \in Nat \ {0} /\ MaxLogged \in Nat /\ Tails \subseteq Int
  /\ \A k \in RunKeys : k[1] # "" /\ k[2] # ""
  /\ \A files \in LogFiles : files \in Seq(Seq(McpLines))

VARIABLES
  up,       \* per key its runs that nobody has stopped, as the executor tells
  dying,    \* per key its runs that were stopped and have not ended yet
  mcpLogs,  \* m_logs
  logged,   \* per key all that was ever told of it
  blocked,  \* m_blockedCommandId, while m_runBlocked
  answer    \* the request just handled and its reply
mcpVars == <<up, dying, mcpLogs, logged, blocked, answer>>

Id(k) == k[2]
Ids == {Id(k) : k \in RunKeys}
Nothing == <<"", "">>
Refs == RunKeys \cup {<<"", i>> : i \in Ids} \cup {Nothing}

NoAnswer == [to |-> "nothing", says |-> "nothing"]

McpTypeOK ==
  /\ up \in [RunKeys -> 0..MaxLive] /\ dying \in [RunKeys -> 0..MaxLive]
  /\ DOMAIN mcpLogs \subseteq RunKeys
  /\ blocked \in Ids \cup {""}
  /\ \A k \in DOMAIN mcpLogs : mcpLogs[k] # <<>> /\ Len(mcpLogs[k]) <= MaxLogLines

runningCommandIds == {k \in RunKeys : up[k] + dying[k] > 0}

McpInit ==
  /\ up = [k \in RunKeys |-> 0] /\ dying = up /\ blocked = "" /\ answer = NoAnswer
  /\ mcpLogs = [k \in {} |-> <<>>] /\ logged = [k \in RunKeys |-> <<>>]

-----------------------------------------------------------------------------
(* A full key that is known wins, then the only known key of that command. *)
Hits(ref, known) == {k \in known : ref = <<"", Id(k)>>}
ambiguous(ref, known) == ref \notin known /\ Cardinality(Hits(ref, known)) > 1
resolveCommandKey(ref, known) ==
  IF ref \notin known /\ Cardinality(Hits(ref, known)) = 1
  THEN CHOOSE k \in Hits(ref, known) : TRUE ELSE ref

Bounded(low, n, high) == IF n < low THEN low ELSE IF n > high THEN high ELSE n
LastLines(s, n) == IF Len(s) > n THEN SubSeq(s, Len(s) - n + 1, Len(s)) ELSE s
FirstLines(s, n) == IF Len(s) > n THEN SubSeq(s, 1, n) ELSE s

LogOf(k) == IF k \in DOMAIN mcpLogs THEN mcpLogs[k] ELSE <<>>

Hint == [format |-> "text", word |-> "ready", docker |-> FALSE, labelled |-> FALSE, hit |-> FALSE]

appendLog(k, lines) ==
  /\ mcpLogs' = [q \in DOMAIN mcpLogs \cup {k} |->
       IF q = k THEN LastLines(LogOf(k) \o lines, MaxLogLines) ELSE mcpLogs[q]]
  /\ logged' = [logged EXCEPT ![k] = @ \o lines]

CanLog == FoldSet(LAMBDA k, n : n + Len(logged[k]), 0, RunKeys) < MaxLogged

-----------------------------------------------------------------------------
(* The executor's signals, each of which leaves a line; a port that is     *)
(* busy leaves a hint behind its own.                                      *)
OutputLogged(k) ==
  /\ CanLog /\ k \in runningCommandIds
  /\ \E l \in McpLines, hinted \in BOOLEAN : appendLog(k, IF hinted THEN <<l, Hint>> ELSE <<l>>)
  /\ UNCHANGED <<up, dying, blocked>>

EndLogged(k) ==
  /\ CanLog
  /\ \/ up[k] > 0 /\ up' = [up EXCEPT ![k] = @ - 1] /\ dying' = dying
     \/ dying[k] > 0 /\ dying' = [dying EXCEPT ![k] = @ - 1] /\ up' = up
  /\ \E l \in McpLines : appendLog(k, <<l>>)
  /\ UNCHANGED blocked

-----------------------------------------------------------------------------
(* run.  A run that may not join those of its command stops them, even if  *)
(* it cannot be started itself.  Arguments, directory or environment of    *)
(* the agent's own bypass the stored values and with them the check of the *)
(* required ones.  The failure of a default run is explained by what       *)
(* runBlocked, of which it only looks at the bare id, has left.            *)
runResolved(k, starts) ==
  LET stopped == IF k \in Joining THEN 0 ELSE up[k]
  IN  /\ up' = [up EXCEPT ![k] = @ - stopped + (IF starts THEN 1 ELSE 0)]
      /\ dying' = [dying EXCEPT ![k] = @ + stopped]
CanRun(k) == up[k] + dying[k] < MaxLive

Replied(k, says, run) == [to |-> "run", key |-> k, says |-> says, run |-> run]

AgentRunsOverridden(k) ==
  /\ CanRun(k)
  /\ \/ runResolved(k, TRUE) /\ answer' = Replied(k, "started", "starts")
     \/ runResolved(k, FALSE) /\ answer' = Replied(k, "failed", "fails")
  /\ UNCHANGED <<mcpLogs, logged, blocked>>

SaidOf(run, told, k) ==
  CASE run = "starts" -> "started" [] told = Id(k) -> "blocked" [] OTHER -> "failed"

AgentRuns(k) ==
  /\ CanRun(k)
  /\ \E run \in {"starts", "lacks", "fails"} :
       LET told == IF run = "lacks" THEN Id(k) ELSE ""
       IN  /\ IF run = "lacks" THEN UNCHANGED <<up, dying>> ELSE runResolved(k, run = "starts")
           /\ blocked' = told
           /\ answer' = Replied(k, SaidOf(run, told, k), run)
  /\ UNCHANGED <<mcpLogs, logged>>

(* stop: also of a command that is not running, which is told "stopped".   *)
stopCommand(k) ==
  /\ dying' = [q \in RunKeys |-> IF q = k THEN dying[q] + up[q] ELSE dying[q]]
  /\ up' = [q \in RunKeys |-> IF q = k THEN 0 ELSE up[q]]

(* Bug: of several running commands of that name the first is stopped.     *)
AgentStopsFirst(ref) ==
  /\ LET known == IF ref \in runningCommandIds THEN {ref} ELSE Hits(ref, runningCommandIds)
     IN  stopCommand(IF known = {} THEN ref ELSE CHOOSE k \in known : TRUE)
  /\ answer' = [to |-> "stop", says |-> "stopped", ref |-> ref]
  /\ UNCHANGED <<mcpLogs, logged, blocked>>

AgentStops(ref) ==
  /\ IF ambiguous(ref, runningCommandIds)
     THEN UNCHANGED <<up, dying>> /\ answer' = [to |-> "stop", says |-> "ambiguous", ref |-> ref]
     ELSE /\ stopCommand(resolveCommandKey(ref, runningCommandIds))
          /\ answer' = [to |-> "stop", says |-> "stopped", ref |-> ref]
  /\ UNCHANGED <<mcpLogs, logged, blocked>>

AgentAsksStatus(ref) ==
  /\ answer' = IF ref # Nothing /\ ambiguous(ref, runningCommandIds)
               THEN [to |-> "status", says |-> "ambiguous", ref |-> ref]
               ELSE [to |-> "status", says |-> "listed", ref |-> ref, listed |->
                      IF ref = Nothing THEN runningCommandIds
                      ELSE runningCommandIds \cap {resolveCommandKey(ref, runningCommandIds)}]
  /\ UNCHANGED <<up, dying, mcpLogs, logged, blocked>>

(* observe, with what each line of the log passes for.                     *)
observe(lines) == {parse(lines[i]).level : i \in DOMAIN lines} \ {NoLevel}
Passes(l, f) == applyFilter(parse(l), l.hit, f) = "Shown"
Matching(lines, f) == Picked(lines, {i \in DOMAIN lines : Passes(lines[i], f)})

ReadLog(ref, tail, f) ==
  LET key == resolveCommandKey(ref, DOMAIN mcpLogs)
      buf == LogOf(key)
      matched == Matching(buf, f)
      n == Bounded(1, tail, MaxLogLines)
  IN  IF ambiguous(ref, DOMAIN mcpLogs) THEN [to |-> "read_log", says |-> "ambiguous", ref |-> ref]
      ELSE IF buf = <<>> THEN [to |-> "read_log", says |-> "nothing", ref |-> ref]
      ELSE [to |-> "read_log", says |-> "lines", ref |-> ref, key |-> key, filter |-> f, tail |-> n,
            lines |-> LastLines(matched, n), matched |-> Len(matched), total |-> Len(buf),
            truncated |-> Len(matched) > n, levels |-> observe(buf)]

AgentReads(ref) ==
  /\ \E tail \in Tails, f \in McpFilters : answer' = ReadLog(ref, tail, f)
  /\ UNCHANGED <<up, dying, mcpLogs, logged, blocked>>

(* search_logs: file after file until enough is found; the last hit looked *)
(* for is taken for a sign of more.                                        *)
Searched(found, file, f, max) ==
  IF found.truncated THEN found
  ELSE LET hits == found.hits \o Matching(file, f)
       IN  [hits |-> FirstLines(hits, max), truncated |-> Len(hits) >= max]
SearchOf(files, f, max) ==
  LET upTo[n \in 0..Len(files)] ==
        IF n = 0 THEN [hits |-> <<>>, truncated |-> FALSE]
        ELSE Searched(upTo[n - 1], files[n], f, max)
  IN  upTo[Len(files)]

AgentSearches ==
  /\ \E files \in LogFiles, f \in McpFilters, most \in Tails :
       LET max == Bounded(1, most, 500)
           found == SearchOf(files, f, max)
       IN  answer' = [to |-> "search", says |-> "lines", files |-> files, filter |-> f, max |-> max,
                      lines |-> found.hits, truncated |-> found.truncated]
  /\ UNCHANGED <<up, dying, mcpLogs, logged, blocked>>

(* Everything else on the wire: what there is no tool for, and the methods *)
(* of the protocol.                                                        *)
protocolError(id) == IF id THEN "error" ELSE "none"

handleMessage(version, method, id) ==
  IF version # "2.0" THEN protocolError(id)
  ELSE IF method \in {"initialize", "ping", "tools/list", "tools/call"} THEN "result"
  ELSE IF method = "notifications/initialized" THEN "none" ELSE protocolError(id)

AgentWrites ==
  /\ \E version \in {"1.0", "2.0"}, id \in BOOLEAN,
        method \in {"initialize", "ping", "tools/list", "tools/call", "notifications/initialized", "other"} :
       answer' = [to |-> "message", says |-> handleMessage(version, method, id),
                  id |-> id, notifies |-> version = "2.0" /\ method = "notifications/initialized"]
  /\ UNCHANGED <<up, dying, mcpLogs, logged, blocked>>

(* onStdinActivated: each request is answered on the wire before anything  *)
(* else happens.                                                           *)
ReplySent ==
  /\ answer' = NoAnswer
  /\ UNCHANGED <<up, dying, mcpLogs, logged, blocked>>

World ==
  /\ \E k \in RunKeys : OutputLogged(k) \/ EndLogged(k)
  /\ UNCHANGED answer

Request ==
  \/ \E k \in RunKeys : AgentRuns(k) \/ AgentRunsOverridden(k)
  \/ \E ref \in Refs : AgentStops(ref) \/ AgentAsksStatus(ref) \/ AgentReads(ref)
  \/ AgentSearches \/ AgentWrites

McpNext ==
  IF answer = NoAnswer THEN World \/ Request ELSE ReplySent

McpSpec == McpInit /\ [][McpNext]_mcpVars

-----------------------------------------------------------------------------
(* What an agent stops is what it named: the key itself, or the only       *)
(* running command of that name, never one of two projects' commands; and  *)
(* a run stops runs of its own command alone.                              *)
StopHitsTheNamed ==
  [][\A k \in RunKeys : dying'[k] > dying[k] =>
       \/ answer'.to = "run" /\ answer'.key = k /\ k \notin Joining
       \/ answer'.to = "stop" /\ answer'.ref = k
       \/ /\ answer'.to = "stop" /\ answer'.ref = <<"", Id(k)>>
          /\ \A q \in runningCommandIds : Id(q) = Id(k) => q = k]_mcpVars

(* What an agent reads is the last of the newest matching lines ever told  *)
(* of that command; unless it is told of more it has all of them; and      *)
(* every level the header offers selects a line.                           *)
ReadsTheNewest ==
  answer.to = "read_log" /\ answer.says = "lines" =>
    LET kept == LastLines(logged[answer.key], MaxLogLines)
        all == Matching(kept, answer.filter)
    IN  /\ IsSuffix(answer.lines, all) /\ answer.lines = <<>> => all = <<>>
        /\ ~answer.truncated => answer.lines = all
        /\ Len(answer.lines) <= answer.tail
        /\ \A lv \in answer.levels : Matching(kept, [NoFilter EXCEPT !.levels = {lv}]) # <<>>

(* A search shows no more than was asked for, and all there is unless it   *)
(* says that there may be more.                                            *)
SearchMissesNothing ==
  answer.to = "search" =>
    LET all == FlattenSeq([i \in DOMAIN answer.files |-> Matching(answer.files[i], answer.filter)])
    IN  /\ Len(answer.lines) <= answer.max /\ IsPrefix(answer.lines, all)
        /\ ~answer.truncated => answer.lines = all

(* A launch is said to lack a value only if this launch did, whatever was  *)
(* blocked before it and whichever command of that name that was.          *)
RunRepliesAreTrue ==
  answer.to = "run" => (answer.says = "blocked" <=> answer.run = "lacks")

(* A request with an id gets its reply and a notification none.            *)
RequestsAreAnswered ==
  answer.to = "message" =>
    /\ answer.id /\ ~answer.notifies => answer.says # "none"
    /\ answer.notifies => answer.says = "none"

(* What an agent is told is so, what it asks for is what it named, and     *)
(* each request is answered once.                                          *)
AgentsAreServed ==
  /\ []McpTypeOK
  /\ []ReadsTheNewest
  /\ []SearchMissesNothing
  /\ []RunRepliesAreTrue
  /\ []RequestsAreAnswered
  /\ StopHitsTheNamed
=============================================================================
