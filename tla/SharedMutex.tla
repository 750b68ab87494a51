---------------------------- MODULE SharedMutex -----------------------------
(***************************************************************************)
(* ipcpp::shared_mutex of utils/mutex.h: a reader/writer spin lock on one  *)
(* 64-bit word.  One action per access to the word; a failed attempt that  *)
(* changes nothing (a spin) is a stuttering step.                          *)
(***************************************************************************)
EXTENDS Integers, FiniteSets

CONSTANTS
  Threads,
  Retries,   \* the argument try_lock_shared(retries) is called with
  Weak       \* TRUE: compare_exchange_weak may fail on an equal value

ASSUME ThreadsAssumption == IsFiniteSet(Threads)
ASSUME RetriesAssumption == Retries \in Nat
ASSUME WeakAssumption == Weak \in BOOLEAN

VARIABLES
  flag,      \* _flag
  tpc,        \* thread -> control point
  expected,  \* thread -> the value its last load returned
  r,         \* thread -> rounds of try_lock_shared that failed
  limit,     \* thread -> rounds try_lock_shared may make
  changes    \* history: thread -> changes of flag since its try began
             \* (counted up to Retries + 1)

mutexVars == <<flag, tpc, expected, r, limit, changes>>
try == <<r, limit>>

MutexInit ==
  /\ flag = 0
  /\ tpc = [t \in Threads |-> "idle"]
  /\ expected = [t \in Threads |-> 0]
  /\ r = [t \in Threads |-> 0]
  /\ limit = [t \in Threads |-> 0]
  /\ changes = [t \in Threads |-> 0]

\* A write of thread t to the word, and the threads that will notice it.
Set(t, v) ==
  /\ flag' = v
  /\ changes' = [u \in Threads |->
       IF u = t THEN 0
       ELSE IF tpc[u] \in {"tload", "tcas"} /\ changes[u] <= Retries
         THEN changes[u] + 1 ELSE changes[u]]

Goto(t, point) == tpc' = [tpc EXCEPT ![t] = point]

\* lock(): spins on a CAS from 0 to -1.
Lock(t) ==
  /\ tpc[t] = "idle"
  /\ Goto(t, "lock")
  /\ UNCHANGED <<flag, expected, try, changes>>

\* Mutant: lock only looks for writers.
LockPastReaders(t) ==
  /\ tpc[t] = "lock" /\ flag >= 0
  /\ Set(t, -1)
  /\ Goto(t, "writer")
  /\ UNCHANGED <<expected, try>>

LockCas(t) ==
  /\ tpc[t] = "lock" /\ flag = 0
  /\ Set(t, -1)
  /\ Goto(t, "writer")
  /\ UNCHANGED <<expected, try>>

\* try_lock(): one CAS; a failure changes nothing.
TryLock(t) ==
  /\ tpc[t] = "idle" /\ flag = 0
  /\ Set(t, -1)
  /\ Goto(t, "writer")
  /\ UNCHANGED <<expected, try>>

Unlock(t) ==
  /\ tpc[t] = "writer"
  /\ Set(t, 0)
  /\ Goto(t, "idle")
  /\ UNCHANGED <<expected, try>>

\* lock_shared(): load, and CAS from the loaded value to the next one.
LockShared(t) ==
  /\ tpc[t] = "idle"
  /\ Goto(t, "sload")
  /\ UNCHANGED <<flag, expected, try, changes>>

SharedLoad(t) ==
  /\ tpc[t] = "sload" /\ flag # -1
  /\ expected' = [expected EXCEPT ![t] = flag]
  /\ Goto(t, "scas")
  /\ UNCHANGED <<flag, try, changes>>

\* Mutant: a store instead of the compare-and-swap.
SharedStore(t) ==
  /\ tpc[t] = "scas"
  /\ Set(t, expected[t] + 1)
  /\ Goto(t, "reader")
  /\ expected' = [expected EXCEPT ![t] = 0]
  /\ UNCHANGED try

SharedCas(t) ==
  /\ tpc[t] = "scas"
  /\ \/ /\ flag = expected[t]
        /\ Set(t, expected[t] + 1)
        /\ Goto(t, "reader")
     \/ /\ flag # expected[t] \/ Weak
        /\ Goto(t, "sload")
        /\ UNCHANGED <<flag, changes>>
  /\ expected' = [expected EXCEPT ![t] = 0]
  /\ UNCHANGED try

UnlockShared(t) ==
  /\ tpc[t] = "reader"
  /\ Set(t, flag - 1)
  /\ Goto(t, "idle")
  /\ UNCHANGED <<expected, try>>

\* try_lock_shared() is try_lock_shared(0): retries + 1 rounds at most.
TryLockShared(t, retries) ==
  /\ tpc[t] = "idle"
  /\ r' = [r EXCEPT ![t] = 0]
  /\ limit' = [limit EXCEPT ![t] = retries + 1]
  /\ changes' = [changes EXCEPT ![t] = 0]
  /\ Goto(t, "tload")
  /\ UNCHANGED <<flag, expected>>

\* The locals of try_lock_shared are gone when it returns.
EndTry(t) == r' = [r EXCEPT ![t] = 0] /\ limit' = [limit EXCEPT ![t] = 0]

\* It returns false.
FailTry(t) ==
  /\ Goto(t, "idle")
  /\ EndTry(t)
  /\ changes' = [changes EXCEPT ![t] = 0]
  /\ UNCHANGED flag

\* A writer ends the call with false.
TryLoad(t) ==
  /\ tpc[t] = "tload"
  /\ \/ flag = -1 /\ FailTry(t) /\ UNCHANGED expected
     \/ /\ flag # -1
        /\ expected' = [expected EXCEPT ![t] = flag]
        /\ Goto(t, "tcas")
        /\ UNCHANGED <<flag, try, changes>>

\* Mutant: the CAS expects the successor of the loaded value.
TryWrongExpected(t) ==
  /\ tpc[t] = "tcas"
  /\ \/ /\ flag = expected[t] + 1
        /\ Set(t, expected[t] + 1)
        /\ Goto(t, "reader")
        /\ EndTry(t)
     \/ /\ flag # expected[t] + 1
        /\ r[t] + 1 < limit[t]
        /\ r' = [r EXCEPT ![t] = @ + 1]
        /\ Goto(t, "tload")
        /\ UNCHANGED <<flag, limit, changes>>
     \/ /\ flag # expected[t] + 1
        /\ r[t] + 1 >= limit[t]
        /\ FailTry(t)
  /\ expected' = [expected EXCEPT ![t] = 0]

\* A failed CAS costs a round; without rounds left the call returns false.
TryCas(t) ==
  /\ tpc[t] = "tcas"
  /\ \/ /\ flag = expected[t]
        /\ Set(t, expected[t] + 1)
        /\ Goto(t, "reader")
        /\ EndTry(t)
     \/ /\ flag # expected[t] \/ Weak
        /\ r[t] + 1 < limit[t]
        /\ r' = [r EXCEPT ![t] = @ + 1]
        /\ Goto(t, "tload")
        /\ UNCHANGED <<flag, limit, changes>>
     \/ /\ flag # expected[t] \/ Weak
        /\ r[t] + 1 >= limit[t]
        /\ FailTry(t)
  /\ expected' = [expected EXCEPT ![t] = 0]

MutexNext ==
  \E t \in Threads :
    \/ Lock(t) \/ LockCas(t) \/ TryLock(t) \/ Unlock(t)
    \/ LockShared(t) \/ SharedLoad(t) \/ SharedCas(t) \/ UnlockShared(t)
    \/ \E retries \in {0, Retries} : TryLockShared(t, retries)
    \/ TryLoad(t) \/ TryCas(t)

MutexSpec == MutexInit /\ [][MutexNext]_mutexVars

-----------------------------------------------------------------------------
(* Properties                                                              *)

Readers == {t \in Threads : tpc[t] = "reader"}
Writers == {t \in Threads : tpc[t] = "writer"}

Points == {"idle", "lock", "writer", "sload", "scas", "reader", "tload", "tcas"}

\* Every variable has its type; the word never goes below -1.
MutexTypeOK ==
  /\ flag \in Nat \cup {-1}
  /\ tpc \in [Threads -> Points]
  /\ expected \in [Threads -> Nat]
  /\ r \in [Threads -> 0 .. Retries + 1]
  /\ limit \in [Threads -> 0 .. Retries + 1]
  /\ changes \in [Threads -> 0 .. Retries + 1]

\* The word says who holds the lock: -1 for one writer and no reader, n for
\* n readers and no writer.  The asserts of unlock and unlock_shared follow.
FlagExact ==
  \/ flag = -1 /\ Readers = {} /\ \E t \in Threads : Writers = {t}
  \/ flag = Cardinality(Readers) /\ Writers = {}

\* shared_mutex implements a reader/writer lock.
Abs == INSTANCE RWLock WITH readers <- Readers, writers <- Writers
ImplementsRWLock == Abs!Spec

\* The argument in the comment on try_lock_shared(retries), for a CAS that
\* does not fail spuriously: every failed round costs a change of the word
\* by another thread, so with more retries than the other threads make
\* changes the call cannot run out of rounds.
FailuresNeedChanges ==
  ~Weak => \A t \in Threads :
    tpc[t] \in {"tload", "tcas"} => r[t] <= changes[t]

\* The inductive form: a word that differs from the one loaded has changed.
TryInv ==
  \A t \in Threads : tpc[t] \in {"tload", "tcas"} =>
    /\ r[t] < limit[t]
    /\ ~Weak => /\ r[t] <= changes[t]
                /\ tpc[t] = "tcas" /\ flag # expected[t] => r[t] < changes[t]
=============================================================================
