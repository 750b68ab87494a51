CONSTANTS
  Subs = {s1, s2, s3}
  QueueSize = 2
  MaxMessages = 3
  MaxCancels = 1
  None = None
SYMMETRY Symmetry
SPECIFICATION Spec
INVARIANTS ReadsAMessage ReferencesCover
PROPERTY StableWhileRead
CHECK_DEADLOCK FALSE
