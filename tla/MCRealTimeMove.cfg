CONSTANTS
  Pubs = {p1}
  Subs = {s1}
  Wrappers = {w1, w2, w3}
  MaxPubs = 1
  MaxSubs = 1
  MaxAcquires = 2
  PoolSize = 4
  MaxMessages = 4
  None = None
SPECIFICATION SpecMoveAssign
SYMMETRY Symmetry
INVARIANT AcquireLimit
