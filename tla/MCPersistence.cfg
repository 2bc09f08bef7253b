SPECIFICATION Spec
CONSTANTS
  Daemon = {d1, d2}
  NULL = NULL
  MaxUpdates = 2
  MaxStarts = 3
  MaxFaults = 2
SYMMETRY MCDaemons
INVARIANTS
  EveryUpdateKept
  TwiceNeedsFault
  PartialNeedsFault
CHECK_DEADLOCK FALSE
