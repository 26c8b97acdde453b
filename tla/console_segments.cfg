SPECIFICATION DeskSpec
CONSTANTS
  Cap = 2
  Runs = {1, 2}
  Keys = {"a", "b"}
  NoKey = "none"
  KeyOf <- SameKey
  OneAtATime = {"a"}
  Kinds <- TwoKinds
  Filters <- ErrorsOrAll
  MaxSaid = 4
  RecentKeys <- ThreeRecents
  RecentCap = 2
  MaxStarted = 5
  RunKeys <- TwoProjects
  Joining <- OneJoins
  MaxLive = 2
  MaxLogLines = 2
  McpLines <- TwoKinds
  McpFilters <- ErrorsOrAll
  MaxLogged = 2
  Tails = {0, 2, 9}
  LogFiles <- TwoFiles
  MaxTomlLines = 3
  RootSets <- NestedRoots
  Scans <- FoundInAnyOrder
  Worktrees <- TwoWorktrees
  MaxHeads = 1
  MaxPrinted = 5
  Launches <- SomeLaunches
  TickRange = 8
  MaxGrowth = 4
  MaxTicks = 20
INVARIANT
  FinishedClosesItsSegment
CHECK_DEADLOCK FALSE
