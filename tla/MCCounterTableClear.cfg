SPECIFICATION Spec
CONSTANTS
  Key = {hits, misses}
  hits = hits
  misses = misses
  MaxUpdates = 3
  LOCK_OPTIMIZE = FALSE
  EnableGraphite = TRUE
  EnableGmetric = TRUE
PROPERTIES
  ClearedWhenDone
