\* Scans, restarts, edits and discoveries of two nested folders.
SPECIFICATION WorkspaceSpec
CONSTANTS
  home = home
  web = web
  Folders = {home, web}
  Under <- Nested
  Packages = {web}
  MaxEdits = 1
  MaxJobs = 2
  MaxCustoms = 1
  MaxStarts = 2
  MaxPins = 1
  MayMigrate = TRUE
  Guarded = FALSE
INVARIANTS
  WorkspaceSound
  
  DiscoveryTracked
PROPERTIES
  ScanTouchesOwnRoot
  ScriptPinsKept
CHECK_DEADLOCK FALSE
