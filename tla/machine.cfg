SPECIFICATION MachineSpec
CONSTANTS
  Newest = 2
  MaxReplies = 2
  MaxInstalls = 2
  Containers = {web}
  Nobody = nobody
  Moods = {"up", "slow", "down"}
  MaxChanges = 1
  Carded = {web, sql}
  NoCard = nocard
  MaxLines = 2
INVARIANTS
  
  DockerSound
PROPERTIES
  
  DockerMovesOn
  MachineSettles
