------------------------- MODULE SharedFutexProofs --------------------------
(***************************************************************************)
(* shared_futex implements a reader/writer lock and loses no wake-up, for  *)
(* any number of threads.                                                  *)
(***************************************************************************)
EXTENDS SharedFutex, FiniteSetTheorems, TLAPS

Inv == TypeOK /\ StateExact
SleepInv == WaitersSawLock /\ NoStrandedSleeper

\* The readers can be counted.
LEMMA ReadersFinite == IsFiniteSet(Readers) /\ Cardinality(Readers) \in Nat
BY ThreadsAssumption, FS_Subset, FS_CardinalityType DEF Readers

\* Control points outside the sections.
Outside == Points \ {"reader", "writer"}

\* What a FUTEX_WAIT that ends goes on with.
LEMMA AwakeType == \A t \in Threads : Awake(t) \in {"rload", "wcas"}
BY DEF Awake

\* A step in which every thread outside the sections stays outside, and
\* every thread inside stays where it is.
LEMMA OutsideStep ==
  ASSUME Inv, pc' \in [Threads -> Points], UNCHANGED state,
         \A u \in Threads : \/ pc'[u] = pc[u]
                            \/ pc[u] \in Outside /\ pc'[u] \in Outside
  PROVE  StateExact' /\ Readers' = Readers /\ Writers' = Writers
<1>1. Readers' = Readers /\ Writers' = Writers
  BY DEF Inv, TypeOK, Readers, Writers, Outside
<1> QED
  BY <1>1 DEF Inv, StateExact

\* Becoming a reader by a CAS from the loaded value.
LEMMA EnterShared ==
  ASSUME Inv, NEW t \in Threads, pc[t] = "rcas", expected[t] >= 0,
         state = expected[t], state' = expected[t] + 1, Goto(t, "reader")
  PROVE  /\ state' \in Nat /\ StateExact' /\ Writers = {} /\ Writers' = {}
         /\ t \notin Readers /\ Readers' = Readers \cup {t}
<1>1. state \in Nat /\ state = Cardinality(Readers) /\ Writers = {}
  BY DEF Inv, TypeOK, StateExact
<1>2. Readers' = Readers \cup {t} /\ t \notin Readers /\ Writers' = Writers
  BY DEF Inv, TypeOK, Goto, Readers, Writers
<1>3. Cardinality(Readers') = Cardinality(Readers) + 1
  BY <1>2, ReadersFinite, FS_AddElement
<1> QED
  BY <1>1, <1>2, <1>3 DEF StateExact

\* Becoming the writer by a CAS from 0.
LEMMA EnterExclusive ==
  ASSUME Inv, NEW t \in Threads, pc[t] = "wcas", state = 0, state' = -1,
         Goto(t, "writer")
  PROVE  /\ StateExact' /\ Readers = {} /\ Writers = {}
         /\ Readers' = {} /\ Writers' = {t}
<1>1. Readers = {} /\ Writers = {}
  BY ReadersFinite, FS_EmptySet DEF Inv, StateExact
<1>2. Readers' = {} /\ Writers' = {t}
  BY <1>1 DEF Inv, TypeOK, Goto, Readers, Writers
<1> QED
  BY <1>1, <1>2 DEF StateExact

\* Leaving the shared section.
LEMMA LeaveShared ==
  ASSUME Inv, NEW t \in Threads, UnlockShared(t)
  PROVE  /\ state' \in Nat /\ StateExact' /\ t \in Readers
         /\ Readers' = Readers \ {t} /\ Writers' = Writers
<1>1. t \in Readers
  BY DEF UnlockShared, Readers
<1>2. Cardinality(Readers) # 0
  BY <1>1, ReadersFinite, FS_EmptySet
<1>3. state > 0 /\ state \in Nat /\ state = Cardinality(Readers) /\ Writers = {}
  BY <1>1, <1>2, ReadersFinite DEF Inv, StateExact
<1>4. Readers' = Readers \ {t} /\ Writers' = Writers
  BY DEF Inv, TypeOK, UnlockShared, Goto, Readers, Writers
<1>5. Cardinality(Readers') = Cardinality(Readers) - 1
  BY <1>1, <1>4, ReadersFinite, FS_RemoveElement
<1> QED
  BY <1>1, <1>3, <1>4, <1>5 DEF StateExact, UnlockShared

\* Leaving the exclusive section.
LEMMA LeaveExclusive ==
  ASSUME Inv, NEW t \in Threads, Unlock(t)
  PROVE  StateExact' /\ Writers = {t} /\ Writers' = {} /\ Readers' = Readers
<1>1. t \in Writers
  BY DEF Unlock, Writers
<1>2. Readers = {} /\ Writers = {t}
  BY <1>1 DEF Inv, StateExact
<1>3. Readers' = {} /\ Writers' = {}
  BY <1>2 DEF Inv, TypeOK, Unlock, Goto, Readers, Writers
<1> QED
  BY <1>2, <1>3, FS_EmptySet DEF StateExact, Unlock

\* lock_shared only tries a CAS from a value it may increment.
CasFromShared == \A t \in Threads : pc[t] = "rcas" => expected[t] >= 0

-----------------------------------------------------------------------------

\* The initial state satisfies the invariants and maps to an initial state.
LEMMA InitInv == Init => Inv /\ CasFromShared /\ SleepInv /\ Abs!Init
<1> SUFFICES ASSUME Init PROVE Inv /\ CasFromShared /\ SleepInv /\ Abs!Init
  OBVIOUS
<1>1. TypeOK /\ CasFromShared
  BY DEF Init, TypeOK, CasFromShared, Points
<1>2. Readers = {} /\ Writers = {} /\ Sleepers = {}
  BY DEF Init, Readers, Writers, Sleepers
<1>3. SleepInv
  BY <1>2 DEF Init, SleepInv, WaitersSawLock, NoStrandedSleeper
<1> QED
  BY <1>1, <1>2, <1>3, FS_EmptySet DEF Init, Inv, StateExact, Abs!Init

\* Every step keeps Inv and maps to a step of the reader/writer lock or to
\* a stuttering step.
LEMMA NextInv ==
  Inv /\ CasFromShared /\ [Next]_vars => Inv' /\ [Abs!Next]_(Abs!rwvars)
<1> SUFFICES ASSUME Inv, CasFromShared, [Next]_vars
             PROVE  Inv' /\ [Abs!Next]_(Abs!rwvars)
  OBVIOUS
<1> USE DEF Inv
<1>1. ASSUME NEW t \in Threads, LockShared(t) \/ Lock(t) \/ UnlockSharedCheck(t)
      PROVE  Inv' /\ Readers' = Readers /\ Writers' = Writers
  <2>1. TypeOK' /\ UNCHANGED state
    BY <1>1 DEF LockShared, Lock, UnlockSharedCheck, Goto, TypeOK, Points
  <2> QED
    BY <1>1, <2>1, OutsideStep
       DEF LockShared, Lock, UnlockSharedCheck, Goto, TypeOK, Points, Outside
<1>2. ASSUME NEW t \in Threads, SharedLoad(t)
      PROVE  Inv' /\ Readers' = Readers /\ Writers' = Writers
  <2>1. TypeOK' /\ UNCHANGED state
    BY <1>2 DEF SharedLoad, Expect, Goto, TypeOK, Points
  <2> QED
    BY <1>2, <2>1, OutsideStep DEF SharedLoad, Goto, TypeOK, Points, Outside
<1>3. ASSUME NEW t \in Threads, SharedCas(t)
      PROVE  Inv' /\ (Abs!AcquireShared(t) \/ (Readers' = Readers /\ Writers' = Writers))
  <2>1. CASE state = expected[t] /\ state' = expected[t] + 1 /\ Goto(t, "reader")
    <3>1. expected[t] >= 0 /\ pc[t] = "rcas"
      BY <1>3 DEF SharedCas, CasFromShared
    <3> QED
      BY <1>3, <2>1, <3>1, EnterShared
         DEF SharedCas, Expect, Goto, TypeOK, Points, Abs!AcquireShared
  <2>2. CASE Goto(t, "rload") /\ UNCHANGED state
    <3>1. TypeOK' /\ UNCHANGED state
      BY <1>3, <2>2 DEF SharedCas, Expect, Goto, TypeOK, Points
    <3> QED
      BY <1>3, <2>2, <3>1, OutsideStep
         DEF SharedCas, Goto, TypeOK, Points, Outside
  <2> QED
    BY <1>3, <2>1, <2>2 DEF SharedCas
<1>4. ASSUME NEW t \in Threads, UnlockShared(t)
      PROVE  Inv' /\ Abs!ReleaseShared(t)
  BY <1>4, LeaveShared
     DEF UnlockShared, Goto, TypeOK, Points, Abs!ReleaseShared
<1>5. ASSUME NEW t \in Threads, LockCas(t)
      PROVE  Inv' /\ (Abs!Acquire(t) \/ (Readers' = Readers /\ Writers' = Writers))
  <2>1. CASE state = 0 /\ state' = -1 /\ Goto(t, "writer") /\ UNCHANGED expected
    BY <1>5, <2>1, EnterExclusive DEF LockCas, Goto, TypeOK, Points, Abs!Acquire
  <2>2. CASE Expect(t, state) /\ Goto(t, "wwait") /\ UNCHANGED state
    <3>1. TypeOK' /\ UNCHANGED state
      BY <1>5, <2>2 DEF LockCas, Expect, Goto, TypeOK, Points
    <3> QED
      BY <1>5, <2>2, <3>1, OutsideStep DEF LockCas, Goto, TypeOK, Points, Outside
  <2> QED
    BY <1>5, <2>1, <2>2 DEF LockCas
<1>6. ASSUME NEW t \in Threads, Unlock(t)
      PROVE  Inv' /\ Abs!Release(t)
  BY <1>6, LeaveExclusive DEF Unlock, Goto, TypeOK, Points, Abs!Release
<1>7. ASSUME NEW t \in Threads, FutexWait(t) \/ Interrupted(t)
      PROVE  Inv' /\ Readers' = Readers /\ Writers' = Writers
  <2>1. TypeOK' /\ UNCHANGED state
    BY <1>7, AwakeType DEF FutexWait, Interrupted, Expect, Goto, TypeOK, Points
  <2>2. pc[t] \in {"rwait", "wwait", "rsleep", "wsleep"}
    BY <1>7 DEF FutexWait, Interrupted, Sleepers
  <2>3. pc'[t] \in {"rload", "wcas", "rsleep", "wsleep"}
    BY <1>7, AwakeType DEF FutexWait, Interrupted, Goto, TypeOK
  <2>4. \A u \in Threads \ {t} : pc'[u] = pc[u]
    BY <1>7 DEF FutexWait, Interrupted, Goto, TypeOK
  <2> QED
    BY <2>1, <2>2, <2>3, <2>4, OutsideStep DEF TypeOK, Points, Outside
<1>8. ASSUME NEW t \in Threads, UnlockSharedWake(t) \/ UnlockWake(t)
      PROVE  Inv' /\ Readers' = Readers /\ Writers' = Writers
  <2>1. PICK woken \in SUBSET Sleepers : WakeAndReturn(t, woken)
    BY <1>8 DEF UnlockSharedWake, UnlockWake
  <2>2. \A u \in woken : pc[u] \in {"rsleep", "wsleep"} /\ pc'[u] \in {"rload", "wcas"}
    BY <2>1, AwakeType DEF Sleepers, WakeAndReturn
  <2>3. pc[t] \in {"rwake", "wwake"} /\ pc'[t] = "idle"
    BY <1>8, <2>1 DEF UnlockSharedWake, UnlockWake, WakeAndReturn, Sleepers
  <2>4. \A u \in Threads \ (woken \cup {t}) : pc'[u] = pc[u]
    BY <2>1 DEF WakeAndReturn
  <2>5. pc' \in [Threads -> Points]
    BY <2>1, AwakeType DEF WakeAndReturn, TypeOK, Points
  <2>6. UNCHANGED <<state, expected>>
    BY <1>8 DEF UnlockSharedWake, UnlockWake
  <2> QED
    BY <2>2, <2>3, <2>4, <2>5, <2>6, OutsideStep DEF TypeOK, Points, Outside
<1>9. CASE UNCHANGED vars
  <2>1. Readers' = Readers /\ Writers' = Writers
    BY <1>9 DEF vars, Readers, Writers
  <2> QED
    BY <1>9, <2>1 DEF vars, TypeOK, StateExact, Abs!rwvars
<1> QED
  BY <1>1, <1>2, <1>3, <1>4, <1>5, <1>6, <1>7, <1>8, <1>9
     DEF Next, Step, Abs!Next, Abs!rwvars

\* Threads that a FUTEX_WAKE touches are neither about to wait nor at a CAS
\* of lock_shared afterwards.
LEMMA WakePoints ==
  ASSUME TypeOK, NEW t \in Threads, UnlockSharedWake(t) \/ UnlockWake(t)
  PROVE  \A u \in Threads : pc'[u] \in {"rcas", "rwait", "wwait"} => pc'[u] = pc[u]
<1>1. PICK woken : WakeAndReturn(t, woken)
  BY DEF UnlockSharedWake, UnlockWake
<1> QED
  BY <1>1, AwakeType DEF WakeAndReturn

\* Every step keeps what threads about to wait or to CAS have seen.
LEMMA NextSeen ==
  Inv /\ CasFromShared /\ WaitersSawLock /\ [Next]_vars
    => CasFromShared' /\ WaitersSawLock'
<1> SUFFICES ASSUME Inv, CasFromShared, WaitersSawLock, [Next]_vars
             PROVE  CasFromShared' /\ WaitersSawLock'
  OBVIOUS
<1> USE DEF Inv
<1>1. ASSUME NEW t \in Threads,
             \/ LockShared(t) \/ Lock(t) \/ UnlockShared(t) \/ Unlock(t)
             \/ UnlockSharedCheck(t)
      PROVE  CasFromShared' /\ WaitersSawLock'
  BY <1>1 DEF LockShared, Lock, UnlockShared, Unlock, UnlockSharedCheck, Goto,
              TypeOK, CasFromShared, WaitersSawLock
<1>2. ASSUME NEW t \in Threads, SharedLoad(t)
      PROVE  CasFromShared' /\ WaitersSawLock'
  BY <1>2 DEF SharedLoad, Goto, Expect, TypeOK, CasFromShared, WaitersSawLock
<1>3. ASSUME NEW t \in Threads, SharedCas(t) \/ LockCas(t)
      PROVE  CasFromShared' /\ WaitersSawLock'
  BY <1>3 DEF SharedCas, LockCas, Goto, Expect, TypeOK, CasFromShared, WaitersSawLock
<1>4. ASSUME NEW t \in Threads, FutexWait(t)
      PROVE  CasFromShared' /\ WaitersSawLock'
  <2>1. pc'[t] \in {"rload", "wcas", "rsleep", "wsleep"}
    BY <1>4, AwakeType DEF FutexWait, Goto, TypeOK
  <2> QED
    BY <1>4, <2>1 DEF FutexWait, Goto, Expect, TypeOK, CasFromShared, WaitersSawLock
<1>5. ASSUME NEW t \in Threads, Interrupted(t)
      PROVE  CasFromShared' /\ WaitersSawLock'
  <2>1. pc'[t] \in {"rload", "wcas"}
    BY <1>5, AwakeType DEF Interrupted, Goto, TypeOK
  <2> QED
    BY <1>5, <2>1 DEF Interrupted, Goto, TypeOK, CasFromShared, WaitersSawLock
<1>6. ASSUME NEW t \in Threads, UnlockSharedWake(t) \/ UnlockWake(t)
      PROVE  CasFromShared' /\ WaitersSawLock'
  BY <1>6, WakePoints DEF UnlockSharedWake, UnlockWake, CasFromShared, WaitersSawLock
<1>7. CASE UNCHANGED vars
  BY <1>7 DEF vars, CasFromShared, WaitersSawLock
<1> QED
  BY <1>1, <1>2, <1>3, <1>4, <1>5, <1>6, <1>7 DEF Next, Step

\* Every step keeps a free lock with sleepers attended to.
LEMMA NextStranded ==
  Inv /\ SleepInv /\ [Next]_vars => NoStrandedSleeper'
<1> DEFINE Busy(p) == p \notin {"idle", "rsleep", "wsleep"}
<1> SUFFICES ASSUME Inv, SleepInv, [Next]_vars, ~Weak, Sleepers' # {}, state' = 0
             PROVE  \E u \in Threads : Busy(pc'[u])
  BY DEF NoStrandedSleeper
<1> USE DEF Inv
\* A thread whose next point is busy is the witness.
<1>1. ASSUME NEW t \in Threads,
             \/ LockShared(t) \/ Lock(t) \/ SharedLoad(t) \/ SharedCas(t)
             \/ UnlockShared(t) \/ LockCas(t) \/ Unlock(t)
      PROVE  Busy(pc'[t])
  BY <1>1 DEF LockShared, Lock, SharedLoad, SharedCas, UnlockShared, LockCas,
              Unlock, Goto, TypeOK
<1>2. ASSUME NEW t \in Threads, UnlockSharedCheck(t)
      PROVE  Busy(pc'[t])
  BY <1>2 DEF UnlockSharedCheck, Goto, TypeOK
<1>3. ASSUME NEW t \in Threads, Interrupted(t)
      PROVE  Busy(pc'[t])
  BY <1>3, AwakeType DEF Interrupted, Goto, TypeOK
\* FUTEX_WAIT returns at once, because the thread waits for a taken lock.
<1>4. ASSUME NEW t \in Threads, FutexWait(t)
      PROVE  Busy(pc'[t])
  <2>1. expected[t] # state
    BY <1>4 DEF FutexWait, SleepInv, WaitersSawLock
  <2> QED
    BY <1>4, <2>1, AwakeType DEF FutexWait, Goto, TypeOK
\* FUTEX_WAKE wakes a sleeper, if there is any.
<1>5. ASSUME NEW t \in Threads, UnlockSharedWake(t) \/ UnlockWake(t)
      PROVE  \E u \in Threads : Busy(pc'[u])
  <2>1. PICK woken \in SUBSET Sleepers :
          WakeAndReturn(t, woken) /\ (Sleepers # {} => woken # {})
    BY <1>5 DEF UnlockSharedWake, UnlockWake
  <2>2. Sleepers # {}
    <3>1. PICK u \in Threads : pc'[u] \in {"rsleep", "wsleep"}
      BY DEF Sleepers
    <3>2. pc[u] \in {"rsleep", "wsleep"}
      BY <2>1, <3>1, AwakeType DEF WakeAndReturn
    <3> QED
      BY <3>2 DEF Sleepers
  <2>3. PICK u \in woken : u \in Threads
    BY <2>1, <2>2 DEF Sleepers
  <2>4. pc'[u] \in {"rload", "wcas"}
    BY <2>1, <2>3, AwakeType DEF WakeAndReturn
  <2> QED
    BY <2>3, <2>4
<1>6. CASE UNCHANGED vars
  <2>1. Sleepers # {} /\ state = 0
    BY <1>6 DEF vars, Sleepers
  <2> QED
    BY <1>6, <2>1 DEF vars, SleepInv, NoStrandedSleeper
<1> QED
  BY <1>1, <1>2, <1>3, <1>4, <1>5, <1>6 DEF Next, Step

-----------------------------------------------------------------------------

\* The word is exact, and sleepers are attended to, in every reachable state.
THEOREM Invariance == Spec => [](Inv /\ CasFromShared /\ SleepInv)
<1>1. SleepInv <=> WaitersSawLock /\ NoStrandedSleeper
  BY DEF SleepInv
<1>2. Inv /\ CasFromShared /\ SleepInv /\ [Next]_vars
        => (Inv /\ CasFromShared /\ SleepInv)'
  BY NextInv, NextSeen, NextStranded DEF SleepInv
<1> QED
  BY InitInv, <1>2, PTL DEF Spec

\* The word tells who holds the lock, as the comment on _state says, so the
\* asserts of unlock and unlock_shared never fire.
THEOREM StateIsExact == Spec => []StateExact
<1>1. Inv => StateExact
  BY DEF Inv
<1> QED
  BY <1>1, Invariance, PTL

\* shared_futex implements the reader/writer lock.
THEOREM Refinement == Spec => ImplementsRWLock
BY InitInv, NextInv, Invariance, PTL DEF Spec, ImplementsRWLock, Abs!Spec

\* No wake-up is lost: nobody is left asleep with a free lock.
THEOREM NobodyStranded == Spec => []NoStrandedSleeper
<1>1. SleepInv => NoStrandedSleeper
  BY DEF SleepInv
<1> QED
  BY <1>1, Invariance, PTL
=============================================================================
