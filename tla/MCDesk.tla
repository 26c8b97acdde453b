-------------------------------- MODULE MCDesk --------------------------------
(***************************************************************************)
(* The parts of the window and of the MCP server that share no state: a    *)
(* behaviour picks one and runs it.  The reading of log lines and the      *)
(* making of command lines have none at all, and are tried on every line   *)
(* and every launch.                                                       *)
(***************************************************************************)
EXTENDS Console, RunConfig, RecentCommands, McpServer, McpAgents, TreeModel, OutputLines, SystemStats

VARIABLES
  focus,  \* what runs
  line,   \* the line that is read
  launch  \* the launch that is put together
pureVars == <<focus, line, launch>>
deskVars == <<pureVars, consoleVars, recentVars, mcpVars, agentsVars, treeVars, outputVars, statsVars>>

(* Two runs of one command, which another one next to it interrupts.       *)
SameKey == [r \in Runs |-> "a"]
TwoKinds == {[format |-> "uvicorn", word |-> "error", docker |-> FALSE, labelled |-> FALSE, hit |-> TRUE],
             [format |-> "text", word |-> "ready", docker |-> FALSE, labelled |-> FALSE, hit |-> TRUE]}
ErrorsOrAll == {NoFilter, [NoFilter EXCEPT !.levels = {"ERROR"}]}

ThreeRecents == {<<"p", "a">>, <<"p", "b">>, <<"q", "a">>, <<"", "a">>}
TwoProjects == {<<"p", "serve">>, <<"q", "serve">>}
OneJoins == {<<"q", "serve">>}
TwoFiles == {<<f, g>> : f, g \in {<<>>} \cup {<<l, k>> : l, k \in TwoKinds}}

NestedRoots == {{}, {<<"a">>}, {<<"a">>, <<"a", "b">>}}
FoundProjects == {<<<<"a">>, "npm">>, <<<<"a", "b">>, "npm">>, <<<<"a", "b">>, "cargo">>, <<<<"a", "b", "c">>, "go">>}
FoundInAnyOrder ==
  {<<>>, <<<<<<"d">>, "go">>>>} \cup
  {s \in {<<p, q, r>> : p, q, r \in FoundProjects} : Cardinality(ToSet(s)) = 3}
TwoWorktrees == {<<"a">>, <<"a", "b">>}

(* A command with two arguments, one of which may share its name with an   *)
(* option, and every kind of option, spelled in either way, and what may   *)
(* be stored for and typed into each.                                      *)
Arg(name, required) == [kind |-> "positional", name |-> name, dashed |-> FALSE, required |-> required,
                        acceptValue |-> TRUE, multiple |-> FALSE, default |-> Blank]
Opt(name, dashed, accept, multiple, default) ==
  [kind |-> "option", name |-> name, dashed |-> dashed, required |-> FALSE,
   acceptValue |-> accept, multiple |-> multiple, default |-> default]

Commands == {[label |-> "app:user", command |-> "bin/console", meta |->
    <<Arg("user", r), Arg(IF r THEN "role" ELSE "shell", FALSE),
      Opt("shell", d, TRUE, FALSE, v), Opt("tag", d, TRUE, TRUE, Blank), Opt("force", d, FALSE, FALSE, Blank),
      Opt("verbose", d, FALSE, FALSE, Blank)>>] :
  r \in BOOLEAN, d \in BOOLEAN, v \in {Blank, Value("sh")}}

TwoWords == <<"zip", "tar">>
Entries == {
  Bare("user") :> Value("ann"), Bare("role") :> Value("admin"),
  Dashed("shell") :> Value("on"), Bare("shell") :> TwoWords, Dashed("tag") :> TwoWords, Bare("tag") :> Value("on"),
  (Bare("force") :> Value("on") @@ Bare("verbose") :> Value("2")), Bare("env") :> Value("prod")}
Together(es) == [k \in UNION {DOMAIN e : e \in es} |-> (CHOOSE e \in es : k \in DOMAIN e)[k]]
Typed == {Together({}), Bare("user") :> Value("bob"), Bare("shell") :> Value("fish"), Bare("role") :> Blank}

SomeLaunches == {l \in
  {[cmd |-> c, extra |-> x, config |-> [values |-> Together(es), executable |-> e]] :
    c \in Commands, x \in Typed, es \in SUBSET Entries, e \in {"", "docker"}} : Launchable(l)}

AnyLine == CHOOSE l \in Lines : TRUE
AnyLaunch == CHOOSE l \in Launches : TRUE
Busy(part) == focus = part

DeskInit ==
  /\ focus \in {"console", "lines", "launches", "recents", "mcp", "agents", "tree", "output", "stats"}
  /\ line \in IF Busy("lines") THEN Lines ELSE {AnyLine}
  /\ launch \in IF Busy("launches") THEN Launches ELSE {AnyLaunch}
  /\ AgentsInit /\ (Busy("agents") \/ (agent = "claude" /\ content = Missing))
  /\ TreeInit /\ (Busy("tree") \/ \A w \in TwoWorktrees : heads[w] = "main")
  /\ StatsInit /\ (Busy("stats") \/ (busyTicks = 0 /\ idleTicks = 0))
  /\ ConsoleInit /\ RecentsInit /\ McpInit /\ OutputInit

ConsoleOnly == Busy("console") /\ UNCHANGED <<pureVars, recentVars, mcpVars, agentsVars, treeVars, outputVars, statsVars>>
RecentsOnly == Busy("recents") /\ UNCHANGED <<pureVars, consoleVars, mcpVars, agentsVars, treeVars, outputVars, statsVars>>
McpOnly == Busy("mcp") /\ UNCHANGED <<pureVars, consoleVars, recentVars, agentsVars, treeVars, outputVars, statsVars>>
AgentsOnly == Busy("agents") /\ UNCHANGED <<pureVars, consoleVars, recentVars, mcpVars, treeVars, outputVars, statsVars>>
TreeOnly == Busy("tree") /\ UNCHANGED <<pureVars, consoleVars, recentVars, mcpVars, agentsVars, outputVars, statsVars>>
OutputOnly == Busy("output") /\ UNCHANGED <<pureVars, consoleVars, recentVars, mcpVars, agentsVars, treeVars, statsVars>>
StatsOnly == Busy("stats") /\ UNCHANGED <<pureVars, consoleVars, recentVars, mcpVars, agentsVars, treeVars, outputVars>>

DeskNext ==
  \/ ConsoleOnly /\ ConsoleNext
  \/ RecentsOnly /\ RecentsNext
  \/ McpOnly /\ McpNext
  \/ AgentsOnly /\ AgentsNext
  \/ TreeOnly /\ TreeNext
  \/ OutputOnly /\ OutputNext
  \/ StatsOnly /\ StatsNext

(* The timer that reads the branches fires.                                *)
DeskSpec == DeskInit /\ [][DeskNext]_deskVars /\ WF_deskVars(TreeOnly /\ refreshGitBranches)

(* LogParser's and RunConfig's properties, of every line and launch.       *)
ChipsSelectTheirLines == Busy("lines") => ChipSelectsItsLine(line)
LevelsAreSeen == Busy("lines") => LevelIsSeen(line)
ArgumentsAreReached == Busy("launches") => ValuesReachTheirArguments(launch)
BranchesFollowGit == Busy("tree") => BranchesFollow

(* Every line is read: its level is seen, and the chip of that level       *)
(* selects it.                                                             *)
LinesAreRead == ChipsSelectTheirLines /\ LevelsAreSeen

(* The tree of the workspace holds every folder and manifest where it      *)
(* belongs, with the branch it is on.                                      *)
TreeSound == [](FoldersStandOnce /\ ManifestsHaveTheirRow) /\ BranchesFollowGit
=============================================================================
