\* Liveness of the event loop, under fairness.
SPECIFICATION FairSpec
CONSTANTS
  serve = serve
  build = build
  none = none
  p1 = p1
  p2 = p2
  nopid = nopid
  Commands = {serve, build}
  NoCommand = none
  Single = {serve}
  Pids = {p1, p2}
  NoPid = nopid
  MaxRuns = 2
PROPERTIES
  RunsResolve
