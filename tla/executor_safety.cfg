\* Safety of the process table: two commands, one of them single-instance.
SPECIFICATION Spec
CONSTANTS
  serve = serve
  build = build
  none = none
  p1 = p1
  p2 = p2
  nopid = nopid
  Commands = {serve, build}
  NoCommand = none
  Single = {serve}
  Pids = {p1, p2}
  NoPid = nopid
  MaxRuns = 3
SYMMETRY PidSymmetry
INVARIANTS
  TypeOK
  ReportedOnce
  NoLostChild
  StopIsFinal
  SingleInstance
  BindingsFresh
PROPERTIES
  ImplementsLifecycle
