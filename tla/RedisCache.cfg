SPECIFICATION FairSpec
CONSTANTS
  p1 = p1
  p2 = p2
  c1 = c1
  c2 = c2
  k1 = k1
  k2 = k2
  k3 = k3
  Process = {p1, p2}
  Cache = {c1, c2}
  NoCache = NoCache
  Key = {k1, k2, k3}
  CachesOf <- Made
  KeysOf <- Own
  Matches <- Matched
  Buckets = 2
  BucketOf <- Placed
  ScanSize = 1
  Repeats = TRUE
  Faulty = {p1}
  MaxWrites = 2
INVARIANT TypeOK
INVARIANT ClearRemovesAll
 
PROPERTY ClearGetsDone
CHECK_DEADLOCK FALSE
