CONSTANTS
  Pubs = {p1, p2}
  Subs = {s1}
  Wrappers = {w1, w2}
  MaxPubs = 1
  MaxSubs = 1
  MaxAcquires = 1
  PoolSize = 4
  MaxMessages = 3
  None = None
SPECIFICATION Spec
SYMMETRY Symmetry
INVARIANTS TypeOK RefCountExact NoLeakedSlot
PROPERTY FetchIsFresh
