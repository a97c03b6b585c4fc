SPECIFICATION Spec
CONSTANTS
  Agents = {1, 2}
  Execs = {1, 2}
  NoAgent = 0
  NoExec = 0
  Matches <- MCMatches
  Schedulers = {loop}
  Loop = loop
  Admins = {d1}
  MaxEvents = 1
  Idle = Idle
PROPERTY OwnerStays
CHECK_DEADLOCK FALSE
