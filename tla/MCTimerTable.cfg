SPECIFICATION FairSpec
CONSTANTS
  Key = {get, put}
  get = get
  put = put
  MaxUpdates = 4
  EnableGraphite = TRUE
  EnableGmetric = TRUE
INVARIANTS
  CountMatchesValues
  EverySampleReported
PROPERTIES
  SummaryNotEmpty
  EverySampleSummarised
