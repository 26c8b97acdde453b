\* Pins of console commands over restarts.
SPECIFICATION WorkspaceSpec
CONSTANTS
  home = home
  web = web
  Folders = {home, web}
  Under <- Beside
  Packages = {web}
  MaxEdits = 1
  MaxJobs = 2
  MaxCustoms = 1
  MaxStarts = 2
  MaxPins = 1
  MayMigrate = FALSE
  Guarded = TRUE
PROPERTIES
  ConsolePinsKept
CHECK_DEADLOCK FALSE
