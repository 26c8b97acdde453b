SPECIFICATION DatabasesSpec
CONSTANTS
  Installs <- MCInstalls
  MaxTurns = 2
  MaxThreads = 1
  Hosts = {here}
  Users = {alice}
  OsUser = osuser
  Unnamed = unnamed
  Unset = unset
  MaxSecret = 1
  MaxLabel = 1
  MaxCalls = 2

  
  
PROPERTIES
  ServicesMoveOn
