\* Three sessions, each ended by one of the quit paths or by a crash.
SPECIFICATION SessionSpec
CONSTANTS
  serve = serve
  build = build
  none = none
  p1 = p1
  p2 = p2
  nopid = nopid
  Commands = {serve, build}
  NoCommand = none
  Single = {serve}
  Pids = {p1, p2}
  NoPid = nopid
  MaxRuns = 3
  MaxSessions = 3
  MayCrash = TRUE
SYMMETRY PidSymmetry

  
  
PROPERTIES
  
  KillLeavesNothing
