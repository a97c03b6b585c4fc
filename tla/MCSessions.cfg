SPECIFICATION Spec
CONSTANTS
  Server = server
  Commands = {c1}
  MaxTokens = 2
  MaxClock = 2
  MaxBreaks = 1
  Clients = {r1}
  Limit = 1
  MaxEdits = 1
  MaxStops = 1
INVARIANTS Inv ConfirmedStands
PROPERTIES RevokedIsRefused SessionIsCurrent
