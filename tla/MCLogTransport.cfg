SPECIFICATION Spec
CONSTANTS
  MaxLocal = 5
  ChunkLimit = 2
  MaxLogBytes = 3
  NoticeLength = 2
  MaxFaults = 2
INVARIANTS Inv LogIsFaithful ResultHasLog
PROPERTIES ResultIsFrozen ShortLogConverges
CHECK_DEADLOCK FALSE
