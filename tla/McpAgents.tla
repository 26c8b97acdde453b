------------------------------ MODULE McpAgents ------------------------------
(***************************************************************************)
(* Registering trun's MCP server with the coding agents                    *)
(* (src/src/mcpagents.cpp): each keeps its settings in a file of the       *)
(* user's, three in JSON and Codex in TOML, which is edited line by line.  *)
(* Files may be missing, damaged, unreadable or unwritable, and a write    *)
(* may be cut short, which nobody looks at.                                *)
(***************************************************************************)
EXTENDS Naturals, SequencesExt, Ordered

CONSTANT MaxTomlLines \* how long a Codex file may be at first

ASSUME AgentsAssumption == MaxTomlLines \in Nat

VARIABLES
  agent,    \* whose file this is
  content,  \* the file's content
  backup,   \* the content of its newest backup
  reply     \* what was asked last, what it returned, and what went before
agentsVars == <<agent, content, backup, reply>>

Missing == <<"missing">>
Damaged == <<"damaged">>  \* not JSON, or cut short

(* A JSON file: trun's entry, which of the others it has, and for opencode *)
(* alone what the entry says of "enabled".                                 *)
Json(entry, enabled, others) == <<"json", entry, enabled, others>>
HasEntry(f) == f[1] = "json" /\ f[2]
TrunEntries == {<<FALSE, "unsaid">>} \cup ({TRUE} \X {"unsaid", "true", "false"})
JsonFiles == {Json(e[1], e[2], o) : e \in TrunEntries, o \in BOOLEAN}

(* The lines of a Codex file: headers of trun's own table, bare or quoted, *)
(* one that begins alike, another, and lines that begin with "enabled".    *)
Headers == {"[mcp_servers.trun]", "[mcp_servers.'trun']", "[mcp_servers.trun.env]", "[other]"}
EnabledLines == {"enabled = true", "enabled = false", "enabled_tools"}
TomlLines == Headers \cup EnabledLines \cup {"text"}
TomlFiles == {<<"toml", lines>> : lines \in SeqOf(TomlLines, MaxTomlLines)}

IsTrun(line) == line \in {"[mcp_servers.trun]", "[mcp_servers.'trun']"}
InBlock(lines, i) ==
  \E h \in 1..i : IsTrun(lines[h]) /\ \A j \in (h + 1)..i : lines[j] \notin Headers
Block(lines) == {i \in DOMAIN lines : InBlock(lines, i) /\ lines[i] \notin Headers}

-----------------------------------------------------------------------------
(* scanAgents: a file that cannot be parsed has nothing installed.         *)
Installed(f) ==
  CASE f[1] = "json" -> IF agent = "opencode" THEN HasEntry(f) ELSE f[2]
    [] f[1] = "toml" -> Block(f[2]) # {}
    [] OTHER -> FALSE

Enabled(f) ==
  /\ Installed(f)
  /\ CASE f[1] = "json" -> agent = "opencode" => f[3] # "false"
       [] f[1] = "toml" -> \A i \in Block(f[2]) : f[2][i] # "enabled = false"

-----------------------------------------------------------------------------
(* Every write goes through Written.  A new file has no backup.            *)
Torn(new) ==
  IF new[1] = "json" THEN {Damaged}
  ELSE {<<"toml", SubSeq(new[2], 1, n)>> : n \in 0..(Len(new[2]) - 1)}

Returned(asked, ok) == [asked |-> asked, ok |-> ok, before |-> content, fault |-> FALSE]
Unchanged(asked, ok) ==
  /\ reply' = Returned(asked, ok)
  /\ UNCHANGED <<content, backup>>

(* An existing file that cannot be opened; scanAgents would not see it.    *)
Unreadable(asked, ok) ==
  /\ content # Missing
  /\ reply' = [Returned(asked, ok) EXCEPT !.fault = TRUE]
  /\ UNCHANGED <<content, backup>>

backupFile == backup' = IF content = Missing THEN backup ELSE content

Written(asked, new) ==
  \/ backupFile /\ content' = new /\ reply' = Returned(asked, TRUE)
  \/ backupFile /\ content' \in Torn(new) /\ reply' = [Returned(asked, TRUE) EXCEPT !.fault = TRUE]
  \/ backupFile /\ content' = content /\ reply' = Returned(asked, FALSE)  \* not writable
  \/ content # Missing /\ Unchanged(asked, FALSE)                         \* backup failed

(* readJson, or a missing file, which starts as an empty object.           *)
JsonOf(f) == IF f = Missing THEN Json(FALSE, "unsaid", FALSE) ELSE f
Parses(f) == f[1] # "damaged"

installJson(asked) ==
  LET doc == JsonOf(content)
      enabled == IF agent # "opencode" THEN "unsaid"
                 ELSE IF doc[3] = "unsaid" THEN "true" ELSE doc[3]
  IN  \/ Parses(content) /\ Written(asked, Json(TRUE, enabled, doc[4]))
      \/ ~Parses(content) /\ Unchanged(asked, FALSE)
      \/ Unreadable(asked, FALSE)

removeJsonEntry(asked) ==
  \/ content[1] = "json" /\ IF HasEntry(content) THEN Written(asked, Json(FALSE, "unsaid", content[4]))
                            ELSE Unchanged(asked, TRUE)
  \/ Unchanged(asked, FALSE)

setOpencodeEnabled(asked) ==
  LET on == asked = "enable"
  IN  \/ content[1] = "json" /\ HasEntry(content)
           /\ Written(asked, Json(TRUE, IF on THEN "true" ELSE "false", content[4]))
      \/ content[1] = "json" /\ ~HasEntry(content)
           /\ IF on THEN installJson(asked) ELSE Unchanged(asked, TRUE)
      \/ Unchanged(asked, FALSE)

-----------------------------------------------------------------------------
(* Codex.  Any header that begins like trun's counts as installed.         *)
LinesOf(f) == IF f[1] = "toml" THEN f[2] ELSE <<>>
Alike(lines) == \E i \in DOMAIN lines : lines[i] \in {"[mcp_servers.trun]", "[mcp_servers.trun.env]"}

installCodex(asked) ==
  \/ IF Alike(LinesOf(content)) THEN Unchanged(asked, TRUE)
     ELSE Written(asked, <<"toml", LinesOf(content) \o <<"[mcp_servers.trun]", "text">>>>)
  \/ Unreadable(asked, FALSE)

(* Line by line: with "enabled" the lines that begin so are dropped; else  *)
(* they become "enabled = false", or that is added where the table ends.   *)
Off == "enabled = false"

(* Bug: the table is not closed by the next header.                        *)
EditOpenLine(s, line, on) ==
  IF s.inBlock /\ line \in EnabledLines
  THEN IF on THEN s ELSE [s EXCEPT !.out = Append(@, Off), !.enabledWritten = TRUE]
  ELSE [s EXCEPT !.out = Append(@, line), !.inBlock = @ \/ IsTrun(line)]

EditLine(s, line, on) ==
  IF line \in Headers
  THEN LET closes == s.inBlock /\ ~on /\ ~s.enabledWritten
       IN  [out |-> s.out \o (IF closes THEN <<Off, line>> ELSE <<line>>),
            inBlock |-> IsTrun(line), enabledWritten |-> s.enabledWritten \/ closes]
  ELSE IF s.inBlock /\ line \in EnabledLines
  THEN IF on THEN s ELSE [s EXCEPT !.out = Append(@, Off), !.enabledWritten = TRUE]
  ELSE [s EXCEPT !.out = Append(@, line)]

Edited(lines, on) ==
  LET upTo[n \in 0..Len(lines)] ==
        IF n = 0 THEN [out |-> <<>>, inBlock |-> FALSE, enabledWritten |-> FALSE]
        ELSE EditLine(upTo[n - 1], lines[n], on)
      end == upTo[Len(lines)]
  IN  IF end.inBlock /\ ~on /\ ~end.enabledWritten THEN Append(end.out, Off) ELSE end.out

setCodexEnabled(asked) ==
  LET on == asked = "enable"
      lines == LinesOf(content)
      seen == \E i \in DOMAIN lines : IsTrun(lines[i])
  IN  \/ content # Missing /\ seen /\ Written(asked, <<"toml", Edited(lines, on)>>)
      \/ ~seen /\ IF on THEN installCodex(asked) ELSE Unchanged(asked, TRUE)
      \/ Unreadable(asked, ~on)

-----------------------------------------------------------------------------
AgentsInit ==
  /\ \/ agent \in {"claude", "junie", "opencode"}
          /\ content \in {Missing, Damaged} \cup
               {f \in JsonFiles : agent # "opencode" => f[3] = "unsaid"}
     \/ agent = "codex" /\ content \in {Missing} \cup TomlFiles
  /\ backup = Missing /\ reply = [asked |-> "nothing", ok |-> TRUE, before |-> content, fault |-> FALSE]

installAgent(asked) == IF agent = "codex" THEN installCodex(asked) ELSE installJson(asked)

setAgentEnabled(asked) ==
  IF agent = "codex" THEN setCodexEnabled(asked)
  ELSE IF agent = "opencode" THEN setOpencodeEnabled(asked)
  ELSE IF asked = "disable" THEN removeJsonEntry(asked) ELSE installAgent(asked)

AgentsNext ==
  /\ agent' = agent
  /\ installAgent("install") \/ setAgentEnabled("enable") \/ setAgentEnabled("disable")

AgentsSpec == AgentsInit /\ [][AgentsNext]_agentsVars

-----------------------------------------------------------------------------
(* Whatever fails, what was in the file is in it still or in a backup; a   *)
(* file that could not be parsed is never touched.                         *)
NothingIsLost ==
  content # reply.before =>
    reply.before # Damaged /\ (reply.before # Missing => backup = reply.before)

(* What reports success has done what was asked, as the next scan sees it, *)
(* unless the file could not be read or was cut short; but a header that   *)
(* only begins like trun's, or trun's own with no line to it, keeps Codex  *)
(* from being given an entry.                                              *)
AskedIsDone ==
  /\ reply.ok /\ ~reply.fault
  /\ ToSet(LinesOf(content)) \cap Headers \subseteq {"[other]"} \/ Installed(content)
  =>
    /\ reply.asked \in {"install", "enable"} /\ content # Damaged => Installed(content)
    /\ reply.asked = "enable" => Enabled(content)
    /\ reply.asked = "disable" => ~Enabled(content)

(* What is not trun's stays: the other entries, and every line of Codex's  *)
(* file outside trun's table, in its place.                                *)
Outside(lines) == Picked(lines, {i \in DOMAIN lines : i \notin Block(lines) /\ ~IsTrun(lines[i])})
OthersAreKept ==
  LET before == reply.before
  IN  ~reply.fault =>
    /\ before[1] = "json" => content[1] = "json" /\ content[4] = before[4]
    /\ before[1] = "toml" =>
         LET was == Outside(before[2]) IN was = Outside(content[2])

(* Somebody else's settings survive: what is theirs stays, what was asked  *)
(* is done, and what a failure cuts short is in the backup.                *)
AgentFilesKept ==
  /\ OthersAreKept
  /\ AskedIsDone
  /\ NothingIsLost
=============================================================================
