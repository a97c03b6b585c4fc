SPECIFICATION Spec
CONSTANTS
  Forms = {f1, f2}
  Documents = {}
  Hands = {h1}
  MaxStops = 0
  Nobody = Nobody
INVARIANTS EditsKept
CHECK_DEADLOCK FALSE
