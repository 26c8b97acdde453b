SPECIFICATION ApiSpec
CONSTANTS
  MaxSends = 1
  Texts = {a, b, blank}
  Blank = blank
  Statuses = {200}
  HistoryCap = 2
  MaxRequests = 2
  VarNames = {u, v}
  NoName = noname
  PlainValues = {p}
  SecretValues = {s}
  NoValue = none
  Closed = closed
  MaxEnvs = 3
  MaxVars = 2
  MaxEdits = 3
  MaxOpens = 2
  Chars = {"'", "dquote", "backslash", "space", "a"}
  MaxChars = 2
  MaxOptions = 0
PROPERTY TypedSecretsLand
CHECK_DEADLOCK FALSE
