CONSTANTS
  Pubs = {p1, p2}
  Subs = {}
  Procs = {p1, p2}
  Home <- Mixed
  MaxPubs = 2
  MaxSubs = 1
  MaxObjects = 2
  MaxEnds = 0
  Weak = FALSE
  None = None
SPECIFICATION Spec
INVARIANT SameMemory
CHECK_DEADLOCK FALSE
