SPECIFICATION Spec
CONSTANTS
  Name = {hits, misses}
  hits = hits
  misses = misses
  NULL = NULL
  MaxTokens = 3
SYMMETRY Alike
INVARIANTS
  TokenMeansUpdate
  JsonMeansText
PROPERTIES
  UndefinedNeedsBareToken
CHECK_DEADLOCK FALSE
