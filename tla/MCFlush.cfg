SPECIFICATION FairSpec
CONSTANTS
  Key = {"a", "b"}
  NameLength <- MCNameLength
  PrefixLength = 20
  LOCK_OPTIMIZE = FALSE
  EnableGmetric = TRUE
  EnableGraphite = TRUE
  GraphiteNumeric = TRUE
  NULL = NULL
  MaxValue = 1
INVARIANTS
  StatsLockEnough
  EveryGaugeReported
  SocketsClosed
PROPERTIES
  EveryValueAnnounced
  LastValueReported
  FlushesGoOn
