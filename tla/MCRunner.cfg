SPECIFICATION Spec
CONSTANTS
  MaxRuns = 3
  Caps = {1, 2}
  MaxFaults = 2
INVARIANTS Inv RunsAtMostOnce
PROPERTIES EndIsFinal CancelWins InOrder QueueMoves
CHECK_DEADLOCK FALSE
