SPECIFICATION FairSpec
CONSTANTS
  Agents = {a1}
  Execs = {e1}
  NoAgent = NoAgent
  NoExec = NoExec
  Matches <- AllMatch
  MaxLate = 0
  FaultyDisks = {}
PROPERTIES BlockedIsShown
