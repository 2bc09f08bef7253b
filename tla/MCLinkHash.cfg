SPECIFICATION lh_FairSpec
CONSTANTS
  Key <- MCKey
  Value = {v1, v2}
  EMPTY = EMPTY
  FREED = FREED
  NoValue = NoValue
  InitialSize = 3
  Hashes <- MCHashes
  MaxAdds = 4
INVARIANTS
  TableSound
PROPERTIES
  RefinesObject
  GetFindsTheField
  CallsEnd
