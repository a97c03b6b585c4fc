SPECIFICATION ImportSpec
CONSTANTS
  MaxExecs = 3
  Clients = {c1}
  Caps = {1, 2}
  Writers = {1}
  Waited = {2}
  MaxFaults = 1
  NoTxn = NoTxn
  MaxLegacy = 2
  Logged = {1}
  MaxImports = 2
INVARIANTS Inv OnlyEndedLeave ListedHasLog ImportedOnce
PROPERTIES WaitEnds ImportKeepsHistory
CHECK_DEADLOCK FALSE
