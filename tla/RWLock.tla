------------------------------- MODULE RWLock -------------------------------
(***************************************************************************)
(* What a shared (reader/writer) lock promises its callers, as required by *)
(* the shared_mutex concept: any number of threads hold it shared, or one  *)
(* thread holds it exclusively.                                            *)
(***************************************************************************)
CONSTANT Threads

VARIABLES
  readers,   \* threads that hold the lock shared
  writers    \* threads that hold the lock exclusively

rwvars == <<readers, writers>>

Init == readers = {} /\ writers = {}

AcquireShared(t) ==
  /\ writers = {} /\ t \notin readers
  /\ readers' = readers \cup {t}
  /\ UNCHANGED writers

ReleaseShared(t) ==
  /\ t \in readers
  /\ readers' = readers \ {t}
  /\ UNCHANGED writers

Acquire(t) ==
  /\ readers = {} /\ writers = {}
  /\ writers' = {t}
  /\ UNCHANGED readers

Release(t) ==
  /\ writers = {t}
  /\ writers' = {}
  /\ UNCHANGED readers

Next ==
  \E t \in Threads :
    AcquireShared(t) \/ ReleaseShared(t) \/ Acquire(t) \/ Release(t)

Spec == Init /\ [][Next]_rwvars
=============================================================================
