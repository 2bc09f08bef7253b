SPECIFICATION FairSpec
CONSTANTS
  Daemonize = FALSE
  MaxSignals = 1
  MaxUpdates = 2
INVARIANTS
  AtMostOneUpdateMissed
PROPERTIES
  EndsUnlessLockLeft
  DeathEndsProcess
CHECK_DEADLOCK FALSE
