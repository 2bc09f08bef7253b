SPECIFICATION Spec
CONSTANTS
  Daemon = {d1, d2}
  NULL = NULL
  MaxUpdates = 1
  MaxStarts = 2
  MaxFaults = 0
INVARIANTS
  LockKeepsOneDaemon
CHECK_DEADLOCK FALSE
