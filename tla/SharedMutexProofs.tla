-------------------------- MODULE SharedMutexProofs -------------------------
(***************************************************************************)
(* shared_mutex implements a reader/writer lock for any number of threads, *)
(* and its bounded try_lock_shared fails only when others change the word. *)
(***************************************************************************)
EXTENDS SharedMutex, FiniteSetTheorems, TLAPS

Inv == MutexTypeOK /\ FlagExact

\* The readers can be counted.
LEMMA ReadersFinite == IsFiniteSet(Readers) /\ Cardinality(Readers) \in Nat
BY ThreadsAssumption, FS_Subset, FS_CardinalityType DEF Readers

\* A word of 0 means that nobody holds the lock.
LEMMA FreeMeansNobody == Inv /\ flag = 0 => Readers = {} /\ Writers = {}
BY ReadersFinite, FS_EmptySet DEF Inv, FlagExact

\* A write to the word keeps the history within its bound.
LEMMA SetType ==
  ASSUME MutexTypeOK, NEW w \in Threads, NEW v \in Nat \cup {-1}, Set(w, v)
  PROVE  flag' \in Nat \cup {-1} /\ changes' \in [Threads -> 0 .. Retries + 1]
<1>1. ASSUME NEW t \in Threads, changes[t] <= Retries
      PROVE  changes[t] + 1 \in 0 .. Retries + 1
  BY <1>1, RetriesAssumption DEF MutexTypeOK
<1> QED
  BY <1>1, RetriesAssumption DEF Set, MutexTypeOK

\* A writer holds the lock alone.
LEMMA WriterAlone ==
  ASSUME Inv, NEW t \in Threads, tpc[t] = "writer"
  PROVE  flag = -1 /\ Readers = {} /\ Writers = {t}
BY DEF Inv, FlagExact, Writers

\* While a thread reads, the word counts it and there is no writer.
LEMMA ReaderCounted ==
  ASSUME Inv, NEW t \in Threads, tpc[t] = "reader"
  PROVE  flag > 0 /\ flag \in Nat /\ flag = Cardinality(Readers) /\ Writers = {}
<1>1. t \in Readers
  BY DEF Readers
<1>2. Cardinality(Readers) # 0
  BY <1>1, ReadersFinite, FS_EmptySet
<1> QED
  BY <1>1, <1>2, ReadersFinite DEF Inv, FlagExact

\* Becoming a reader by a CAS from the loaded value.
LEMMA EnterShared ==
  ASSUME Inv, NEW t \in Threads, tpc[t] \in {"scas", "tcas"},
         flag = expected[t], Set(t, expected[t] + 1), Goto(t, "reader")
  PROVE  /\ flag' \in Nat \cup {-1} /\ changes' \in [Threads -> 0 .. Retries + 1]
         /\ FlagExact' /\ Writers = {} /\ Writers' = {}
         /\ t \notin Readers /\ Readers' = Readers \cup {t}
<1>1. expected[t] \in Nat /\ flag = Cardinality(Readers) /\ Writers = {}
  BY DEF Inv, MutexTypeOK, FlagExact
<1>2. Readers' = Readers \cup {t} /\ t \notin Readers /\ Writers' = Writers
  BY DEF Inv, MutexTypeOK, Goto, Readers, Writers
<1>3. Cardinality(Readers') = Cardinality(Readers) + 1
  BY <1>2, ReadersFinite, FS_AddElement
<1>4. expected[t] + 1 \in Nat \cup {-1} /\ flag' = flag + 1
  BY <1>1 DEF Set
<1>5. flag' \in Nat \cup {-1} /\ changes' \in [Threads -> 0 .. Retries + 1]
  BY <1>4, SetType DEF Inv
<1> QED
  BY <1>1, <1>2, <1>3, <1>4, <1>5 DEF FlagExact

\* Becoming the writer by a CAS from 0.
LEMMA EnterExclusive ==
  ASSUME Inv, NEW t \in Threads, tpc[t] \in {"lock", "idle"}, flag = 0,
         Set(t, -1), Goto(t, "writer")
  PROVE  /\ flag' \in Nat \cup {-1} /\ changes' \in [Threads -> 0 .. Retries + 1]
         /\ FlagExact' /\ Readers = {} /\ Writers = {}
         /\ Readers' = {} /\ Writers' = {t}
<1>1. Readers = {} /\ Writers = {}
  BY FreeMeansNobody
<1>2. Readers' = {} /\ Writers' = {t}
  BY <1>1 DEF Inv, MutexTypeOK, Goto, Readers, Writers
<1>3. flag' \in Nat \cup {-1} /\ changes' \in [Threads -> 0 .. Retries + 1]
  BY SetType DEF Inv
<1> QED
  BY <1>1, <1>2, <1>3 DEF FlagExact, Set

\* Leaving the shared section.
LEMMA LeaveShared ==
  ASSUME Inv, NEW t \in Threads, UnlockShared(t)
  PROVE  /\ flag' \in Nat \cup {-1} /\ changes' \in [Threads -> 0 .. Retries + 1]
         /\ FlagExact' /\ t \in Readers /\ Readers' = Readers \ {t}
         /\ Writers' = Writers
<1>1. flag > 0 /\ flag \in Nat /\ flag = Cardinality(Readers) /\ Writers = {}
  BY ReaderCounted DEF UnlockShared
<1>2. Readers' = Readers \ {t} /\ t \in Readers /\ Writers' = Writers
  BY DEF Inv, MutexTypeOK, UnlockShared, Goto, Readers, Writers
<1>3. Cardinality(Readers') = Cardinality(Readers) - 1
  BY <1>2, ReadersFinite, FS_RemoveElement
<1>4. flag - 1 \in Nat \cup {-1} /\ flag' = flag - 1
  BY <1>1 DEF UnlockShared, Set
<1>5. flag' \in Nat \cup {-1} /\ changes' \in [Threads -> 0 .. Retries + 1]
  BY <1>4, SetType DEF Inv, UnlockShared
<1> QED
  BY <1>1, <1>2, <1>3, <1>4, <1>5 DEF FlagExact

\* Leaving the exclusive section.
LEMMA LeaveExclusive ==
  ASSUME Inv, NEW t \in Threads, Unlock(t)
  PROVE  /\ flag' \in Nat \cup {-1} /\ changes' \in [Threads -> 0 .. Retries + 1]
         /\ FlagExact' /\ Writers = {t} /\ Writers' = {} /\ Readers' = Readers
<1>1. Readers = {} /\ Writers = {t}
  BY WriterAlone DEF Unlock
<1>2. Readers' = {} /\ Writers' = {}
  BY <1>1 DEF Inv, MutexTypeOK, Unlock, Goto, Readers, Writers
<1>3. flag' \in Nat \cup {-1} /\ changes' \in [Threads -> 0 .. Retries + 1]
  BY SetType DEF Inv, Unlock
<1> QED
  BY <1>1, <1>2, <1>3, FS_EmptySet DEF FlagExact, Unlock, Set

\* A step of a thread between two points outside the sections.
LEMMA OutsideStep ==
  ASSUME Inv, NEW t \in Threads, NEW point \in Points \ {"reader", "writer"},
         tpc[t] \notin {"reader", "writer"}, Goto(t, point), UNCHANGED flag
  PROVE  FlagExact' /\ Readers' = Readers /\ Writers' = Writers
<1>1. Readers' = Readers /\ Writers' = Writers
  BY DEF Inv, MutexTypeOK, Goto, Readers, Writers
<1> QED
  BY <1>1 DEF Inv, FlagExact

-----------------------------------------------------------------------------

\* The initial state satisfies the invariants and maps to an initial state.
LEMMA InitInv == MutexInit => Inv /\ TryInv /\ Abs!Init
<1> SUFFICES ASSUME MutexInit PROVE Inv /\ TryInv /\ Abs!Init
  OBVIOUS
<1>1. MutexTypeOK /\ TryInv
  BY RetriesAssumption DEF MutexInit, MutexTypeOK, TryInv, Points
<1>2. Readers = {} /\ Writers = {}
  BY DEF MutexInit, Readers, Writers
<1> QED
  BY <1>1, <1>2, FS_EmptySet DEF MutexInit, Inv, FlagExact, Abs!Init

\* Every step keeps Inv and maps to a step of the reader/writer lock or to
\* a stuttering step.
LEMMA NextInv ==
  Inv /\ TryInv /\ [MutexNext]_mutexVars => Inv' /\ [Abs!Next]_(Abs!rwvars)
<1> SUFFICES ASSUME Inv, TryInv, [MutexNext]_mutexVars
             PROVE  Inv' /\ [Abs!Next]_(Abs!rwvars)
  OBVIOUS
<1> USE DEF Inv
<1>1. ASSUME NEW t \in Threads, Lock(t) \/ LockShared(t)
      PROVE  Inv' /\ Readers' = Readers /\ Writers' = Writers
  BY <1>1, OutsideStep DEF Lock, LockShared, Goto, MutexTypeOK, Points, try
<1>2. ASSUME NEW t \in Threads, LockCas(t) \/ TryLock(t)
      PROVE  Inv' /\ Abs!Acquire(t)
  BY <1>2, EnterExclusive DEF LockCas, TryLock, Goto, MutexTypeOK, Points, try, Abs!Acquire
<1>3. ASSUME NEW t \in Threads, Unlock(t)
      PROVE  Inv' /\ Abs!Release(t)
  BY <1>3, LeaveExclusive DEF Unlock, Goto, MutexTypeOK, Points, try, Abs!Release
<1>4. ASSUME NEW t \in Threads, SharedLoad(t)
      PROVE  Inv' /\ Readers' = Readers /\ Writers' = Writers
  BY <1>4, OutsideStep DEF SharedLoad, Goto, MutexTypeOK, Points, try
<1>5. ASSUME NEW t \in Threads, SharedCas(t)
      PROVE  Inv' /\ (Abs!AcquireShared(t) \/ (Readers' = Readers /\ Writers' = Writers))
  <2>1. CASE Goto(t, "reader") /\ flag = expected[t] /\ Set(t, expected[t] + 1)
    BY <1>5, <2>1, EnterShared DEF SharedCas, Goto, MutexTypeOK, Points, try, Abs!AcquireShared
  <2>2. CASE Goto(t, "sload") /\ UNCHANGED <<flag, changes>>
    BY <1>5, <2>2, OutsideStep DEF SharedCas, Goto, MutexTypeOK, Points, try
  <2> QED
    BY <1>5, <2>1, <2>2 DEF SharedCas
<1>6. ASSUME NEW t \in Threads, UnlockShared(t)
      PROVE  Inv' /\ Abs!ReleaseShared(t)
  BY <1>6, LeaveShared DEF UnlockShared, Goto, MutexTypeOK, Points, try, Abs!ReleaseShared
<1>7. ASSUME NEW t \in Threads, NEW n \in {0, Retries}, TryLockShared(t, n)
      PROVE  Inv' /\ Readers' = Readers /\ Writers' = Writers
  <2>1. n + 1 \in 0 .. Retries + 1 /\ 0 \in 0 .. Retries + 1
    BY RetriesAssumption
  <2> QED
    BY <1>7, <2>1, OutsideStep DEF TryLockShared, Goto, MutexTypeOK, Points
<1>8. ASSUME NEW t \in Threads, TryLoad(t)
      PROVE  Inv' /\ Readers' = Readers /\ Writers' = Writers
  <2>1. FlagExact' /\ Readers' = Readers /\ Writers' = Writers
    BY <1>8, OutsideStep DEF TryLoad, FailTry, Points
  <2> QED
    BY <1>8, <2>1, RetriesAssumption DEF TryLoad, FailTry, EndTry, Goto, MutexTypeOK, Points, try
<1>9. ASSUME NEW t \in Threads, TryCas(t)
      PROVE  Inv' /\ (Abs!AcquireShared(t) \/ (Readers' = Readers /\ Writers' = Writers))
  <2>1. CASE Goto(t, "reader") /\ flag = expected[t] /\ Set(t, expected[t] + 1) /\ EndTry(t)
    <3>1. /\ flag' \in Nat \cup {-1} /\ changes' \in [Threads -> 0 .. Retries + 1]
          /\ FlagExact' /\ Writers = {} /\ Writers' = {}
          /\ t \notin Readers /\ Readers' = Readers \cup {t}
      BY <1>9, <2>1, EnterShared DEF TryCas
    <3>2. MutexTypeOK'
      <4>1. 0 \in 0 .. Retries + 1
        BY RetriesAssumption
      <4>2. /\ tpc' = [tpc EXCEPT ![t] = "reader"] /\ expected' = [expected EXCEPT ![t] = 0]
            /\ r' = [r EXCEPT ![t] = 0] /\ limit' = [limit EXCEPT ![t] = 0]
        BY <1>9, <2>1 DEF TryCas, EndTry, Goto
      <4> QED
        BY <3>1, <4>1, <4>2 DEF MutexTypeOK, Points
    <3> QED
      BY <3>1, <3>2 DEF Abs!AcquireShared
  <2>2. CASE /\ Goto(t, "tload")
             /\ r' = [r EXCEPT ![t] = @ + 1]
             /\ UNCHANGED <<flag, limit, changes>>
    <3>1. r[t] + 1 \in 0 .. Retries + 1
      BY <1>9, RetriesAssumption DEF TryInv, MutexTypeOK, TryCas
    <3>2. FlagExact' /\ Readers' = Readers /\ Writers' = Writers
      BY <1>9, <2>2, OutsideStep DEF TryCas, Points
    <3> QED
      BY <1>9, <2>2, <3>1, <3>2 DEF TryCas, Goto, MutexTypeOK, Points
  <2>3. CASE FailTry(t)
    <3>1. FlagExact' /\ Readers' = Readers /\ Writers' = Writers
      BY <1>9, <2>3, OutsideStep DEF TryCas, FailTry, Points
    <3> QED
      BY <1>9, <2>3, <3>1, RetriesAssumption
         DEF TryCas, FailTry, EndTry, Goto, MutexTypeOK, Points
  <2> QED
    BY <1>9, <2>1, <2>2, <2>3 DEF TryCas
<1>10. CASE UNCHANGED mutexVars
  <2>1. Readers' = Readers /\ Writers' = Writers
    BY <1>10 DEF mutexVars, Readers, Writers
  <2> QED
    BY <1>10, <2>1 DEF mutexVars, MutexTypeOK, FlagExact, Abs!rwvars
<1> QED
  BY <1>1, <1>2, <1>3, <1>4, <1>5, <1>6, <1>7, <1>8, <1>9, <1>10
     DEF MutexNext, Abs!Next, Abs!rwvars

\* A write to the word is noticed by every thread that is trying.
LEMMA SetNoticed ==
  ASSUME MutexTypeOK, TryInv, NEW w \in Threads, NEW v, Set(w, v),
         NEW t \in Threads \ {w}, tpc[t] \in {"tload", "tcas"}
  PROVE  ~Weak => r[t] < changes'[t]
<1>1. r[t] < limit[t] /\ limit[t] <= Retries + 1 /\ r[t] \in Nat /\ changes[t] \in Nat
      /\ limit[t] \in Nat
  BY RetriesAssumption DEF TryInv, MutexTypeOK
<1>2. changes'[t] = IF changes[t] <= Retries THEN changes[t] + 1 ELSE changes[t]
  BY DEF Set
<1>3. ~Weak => r[t] <= changes[t]
  BY DEF TryInv
<1> QED
  BY <1>1, <1>2, <1>3, RetriesAssumption

\* Every step keeps the account of failed rounds.
LEMMA NextTry == Inv /\ TryInv /\ [MutexNext]_mutexVars => TryInv'
<1> SUFFICES ASSUME Inv, TryInv, [MutexNext]_mutexVars,
                    NEW u \in Threads, tpc'[u] \in {"tload", "tcas"}
             PROVE  TryInv!(u)!2'
  BY DEF TryInv
<1> USE DEF Inv
\* Writes to the word by a thread that then is not trying.
<1>1. ASSUME NEW t \in Threads, NEW v, NEW point, Set(t, v), Goto(t, point),
             point \in {"reader", "writer", "idle"},
             u # t => expected'[u] = expected[u] /\ r'[u] = r[u] /\ limit'[u] = limit[u]
      PROVE  TryInv!(u)!2'
  <2>1. u # t /\ tpc'[u] = tpc[u]
    BY <1>1 DEF Goto, MutexTypeOK
  <2>2. ~Weak => r[u] < changes'[u]
    BY <1>1, <2>1, SetNoticed
  <2>3. changes'[u] \in Int /\ r[u] \in Int
    BY <1>1, RetriesAssumption DEF Set, MutexTypeOK
  <2> QED
    BY <1>1, <2>1, <2>2, <2>3 DEF TryInv, try
\* Steps that leave the word alone and do not concern u's try.
<1>2. ASSUME NEW t \in Threads, NEW point, Goto(t, point), UNCHANGED flag,
             point \notin {"tload", "tcas"},
             \A q \in Threads \ {t} : /\ expected'[q] = expected[q] /\ changes'[q] = changes[q]
                                      /\ r'[q] = r[q] /\ limit'[q] = limit[q]
      PROVE  TryInv!(u)!2'
  <2>1. u # t /\ tpc'[u] = tpc[u]
    BY <1>2 DEF Goto, MutexTypeOK
  <2> QED
    BY <1>2, <2>1 DEF TryInv
<1>3. ASSUME NEW t \in Threads,
             Lock(t) \/ LockShared(t) \/ SharedLoad(t)
      PROVE  TryInv!(u)!2'
  BY <1>3, <1>2 DEF Lock, LockShared, SharedLoad, MutexTypeOK, try
<1>4. ASSUME NEW t \in Threads,
             LockCas(t) \/ TryLock(t) \/ Unlock(t) \/ UnlockShared(t)
      PROVE  TryInv!(u)!2'
  BY <1>4, <1>1 DEF LockCas, TryLock, Unlock, UnlockShared, try
<1>5. ASSUME NEW t \in Threads, SharedCas(t)
      PROVE  TryInv!(u)!2'
  <2>1. expected'[u] = expected[u] \/ u = t
    BY <1>5 DEF SharedCas, MutexTypeOK
  <2>2. CASE Set(t, expected[t] + 1) /\ Goto(t, "reader")
    BY <1>5, <2>1, <2>2, <1>1 DEF SharedCas, try
  <2>3. CASE Goto(t, "sload") /\ UNCHANGED <<flag, changes>>
    BY <1>5, <2>3, <1>2 DEF SharedCas, MutexTypeOK, try
  <2> QED
    BY <1>5, <2>2, <2>3 DEF SharedCas
<1>6. ASSUME NEW t \in Threads, NEW n \in {0, Retries}, TryLockShared(t, n)
      PROVE  TryInv!(u)!2'
  <2>1. CASE u = t
    BY <1>6, <2>1, RetriesAssumption DEF TryLockShared, Goto, MutexTypeOK
  <2>2. CASE u # t
    BY <1>6, <2>2 DEF TryLockShared, Goto, MutexTypeOK, TryInv
  <2> QED
    BY <2>1, <2>2
<1>7. ASSUME NEW t \in Threads, TryLoad(t)
      PROVE  TryInv!(u)!2'
  <2>1. CASE u = t
    BY <1>7, <2>1 DEF TryLoad, FailTry, Goto, MutexTypeOK, TryInv, try
  <2>2. CASE u # t
    BY <1>7, <2>2 DEF TryLoad, FailTry, EndTry, Goto, MutexTypeOK, TryInv, try
  <2> QED
    BY <2>1, <2>2
<1>8. ASSUME NEW t \in Threads, TryCas(t)
      PROVE  TryInv!(u)!2'
  <2>1. expected'[u] = expected[u] \/ u = t
    BY <1>8 DEF TryCas, MutexTypeOK
  <2>2. CASE Set(t, expected[t] + 1) /\ Goto(t, "reader") /\ EndTry(t)
    <3>1. u # t => expected'[u] = expected[u] /\ r'[u] = r[u] /\ limit'[u] = limit[u]
      BY <2>1, <2>2 DEF EndTry, MutexTypeOK
    <3> QED
      BY <2>2, <3>1, <1>1
  <2>3. CASE /\ flag # expected[t] \/ Weak
             /\ r[t] + 1 < limit[t]
             /\ r' = [r EXCEPT ![t] = @ + 1]
             /\ Goto(t, "tload")
             /\ UNCHANGED <<flag, limit, changes>>
    <3>1. CASE u = t
      <4>1. tpc[t] = "tcas" /\ r[t] + 1 < limit[t] /\ tpc'[t] = "tload" /\ r'[t] = r[t] + 1
        BY <1>8, <2>3, <3>1 DEF TryCas, Goto, MutexTypeOK
      <4>2. ~Weak => r[t] < changes[t]
        BY <1>8, <4>1, <2>3 DEF TryInv
      <4>3. r[t] \in Int /\ changes[t] \in Int
        BY RetriesAssumption DEF MutexTypeOK
      <4> QED
        BY <3>1, <4>1, <4>2, <4>3, <2>3
    <3>2. CASE u # t
      BY <1>8, <2>1, <2>3, <3>2 DEF Goto, MutexTypeOK, TryInv
    <3> QED
      BY <3>1, <3>2
  <2>4. CASE FailTry(t)
    BY <1>8, <2>4, <1>2 DEF TryCas, FailTry, EndTry, MutexTypeOK
  <2> QED
    BY <1>8, <2>2, <2>3, <2>4 DEF TryCas
<1>9. CASE UNCHANGED mutexVars
  BY <1>9 DEF mutexVars, TryInv
<1> QED
  BY <1>3, <1>4, <1>5, <1>6, <1>7, <1>8, <1>9 DEF MutexNext

-----------------------------------------------------------------------------

\* The word is exact, and tries account for their failures, in every
\* reachable state.
THEOREM Invariance == MutexSpec => [](Inv /\ TryInv)
BY InitInv, NextInv, NextTry, PTL DEF MutexSpec

\* The word tells who holds the lock, so unlock's asserts never fire.
THEOREM FlagIsExact == MutexSpec => []FlagExact
<1>1. Inv => FlagExact
  BY DEF Inv
<1> QED
  BY <1>1, Invariance, PTL

\* shared_mutex implements the reader/writer lock.
THEOREM Refinement == MutexSpec => ImplementsRWLock
BY InitInv, NextInv, Invariance, PTL DEF MutexSpec, ImplementsRWLock, Abs!Spec

\* try_lock_shared fails a round only if another thread changed the word.
THEOREM TryAccounted == MutexSpec => []FailuresNeedChanges
<1>1. TryInv => FailuresNeedChanges
  BY DEF TryInv, FailuresNeedChanges
<1> QED
  BY <1>1, Invariance, PTL
=============================================================================
