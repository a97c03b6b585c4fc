SPECIFICATION Spec
CONSTANTS
  MaxExecs = 3
  Clients = {c1}
  Caps = {1, 2}
  Writers = {1}
  Waited = {1}
  MaxFaults = 0
  NoTxn = NoTxn
INVARIANTS WaitReturnsRun
CHECK_DEADLOCK FALSE
