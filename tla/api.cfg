\* One part at a time: four sends in a row; two requests and a history of two;
\* the environments dialog, opened twice; words of two characters and commands
\* of three options.
SPECIFICATION ApiSpec
CONSTANTS
  MaxSends = 4
  Texts = {a, b, blank}
  Blank = blank
  Statuses = {200}
  HistoryCap = 2
  MaxRequests = 2
  VarNames = {u, v}
  NoName = noname
  PlainValues = {p}
  SecretValues = {s}
  NoValue = none
  Closed = closed
  MaxEnvs = 3
  MaxVars = 2
  MaxEdits = 3
  MaxOpens = 2
  Chars = {"'", "dquote", "backslash", "space", "a"}
  MaxChars = 2
  MaxOptions = 3
INVARIANTS
  SendIsSafe
  EnvironmentsKept
  
PROPERTIES
  SendsFollowCycle
  RequestsStay
CHECK_DEADLOCK FALSE
