CONSTANTS
  Threads = {t1, t2, t3, t4}
  Weak = FALSE
SPECIFICATION FairSpec
INVARIANTS StateExact NoStrandedSleeper
PROPERTIES ImplementsRWLock NoSleepForEver
