SPECIFICATION FairSpec
CONSTANTS
  Key = {hits, misses, errors}
  hits = hits
  misses = misses
  errors = errors
  MaxUpdates = 4
  LOCK_OPTIMIZE = FALSE
  EnableGraphite = TRUE
  EnableGmetric = TRUE
INVARIANTS
  NoUpdateLost
  ReportedOnce
  KeysUnique
PROPERTIES
  PassCoversTable
  EveryUpdateCleared
