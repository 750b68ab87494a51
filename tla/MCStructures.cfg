CONSTANTS
  Size = 18
  HeaderSize = 2
  NodeSize = 2
  Alignment = 2
  Requests = {0, 1, 4}
  None = None
  Width = 8
  Elements = {v1, v2}
  Raw = Raw
  ElemSizes = {2, 3}
  Align = 4
  Slack = {0, 2}
  MaxSize = 5
  MaxLen <- Lengths
  MaxArg = 2
  MaxBlock = 6
  TextSize = 3
  Chars = {1, 2}
  MaxText = 2
  Objects = {o1, o2}
  MaxFd = 2
  MaxPage = 2
  MaxFiles = 2
  NoObject = NoObject
  Procs = {p1, p2}
  LockSlots = {1, 2}
  Consumers = {c1, c2}
  QueueCapacity = 3
  StackCapacity = 3
  Threads = {t1, t2, t3}
  Retries = 2
  Weak = FALSE
SPECIFICATION SpecAll
SYMMETRY ObjectSymmetry
INVARIANTS Tiling ListWellFormed ClientsKeepData RoundingCorrect MaskWalksRound
  ActsAsStdVector StaysInStorage ActsAsStdString SearchesAgree
  ResourcesOwned NothingLeaks ExcludesProcesses
  FlagExact FailuresNeedChanges
PROPERTIES ImplementsDeque PopsWhatWasRead  ImplementsRWLock
CHECK_DEADLOCK FALSE
