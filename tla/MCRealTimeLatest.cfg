CONSTANTS
  Pubs = {p1}
  Subs = {s1}
  Wrappers = {w1, w2}
  MaxPubs = 1
  MaxSubs = 1
  MaxAcquires = 1
  PoolSize = 4
  MaxMessages = 2
  None = None
SPECIFICATION Spec
INVARIANT LatestAvailable
