SPECIFICATION Spec
CONSTANTS
  MaxLocal = 5
  ChunkLimit = 2
  MaxLogBytes = 3
  NoticeLength = 2
  MaxFaults = 1
PROPERTIES NeverSpins
CHECK_DEADLOCK FALSE
