CONSTANTS
  Pubs = {p1, p2}
  Subs = {s1}
  Procs = {p1, p2}
  Home <- Mixed
  MaxPubs = 1
  MaxSubs = 1
  MaxObjects = 3
  MaxEnds = 2
  Weak = FALSE
  None = None
SPECIFICATION FairSpec
INVARIANTS ReadyIsBuilt CreateRecovers
PROPERTIES StaysInitialized CreateReturns
CHECK_DEADLOCK FALSE
