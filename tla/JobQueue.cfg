SPECIFICATION FairSpec
CONSTANTS
  j1 = j1
  j2 = j2
  k1 = k1
  w1 = w1
  Jobs = {j1, j2}
  Keys = {k1}
  Key <- OneKey
  NoKey = NoKey
  NoJob = NoJob
  Workers = {w1}
  Receipts = {1, 2, 3, 4}
  NoReceipt = 0
  MaxAttempts <- TwiceOnce
  MaxWire = 1
  MaxStops = 1
  MaxRetries = 1
CHECK_DEADLOCK FALSE
INVARIANTS
  Placement
  KeyUnique
  TriesBounded
PROPERTIES
  LeaseRespected
  GoneOnlyIfDone
  EveryJobSettles
