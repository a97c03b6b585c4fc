SPECIFICATION Spec
CONSTANTS
  Forms = {f1}
  Documents = {d1}
  Hands = {h1, h2}
  MaxStops = 1
  Nobody = Nobody
INVARIANTS Inv
PROPERTIES ConfigConverges
CHECK_DEADLOCK FALSE
