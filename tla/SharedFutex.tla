---------------------------- MODULE SharedFutex -----------------------------
(***************************************************************************)
(* ipcpp::shared_futex of utils/mutex.h: a reader/writer lock on one       *)
(* 32-bit word that lets waiting threads sleep in the kernel.  One action  *)
(* per access to the word and per system call.  The kernel is external:    *)
(* FUTEX_WAIT(v) puts the caller to sleep iff the word still is v, and     *)
(* FUTEX_WAKE(n) ends the sleep of up to n threads.                        *)
(***************************************************************************)
EXTENDS Integers, FiniteSets

CONSTANTS
  Threads,
  Weak       \* TRUE: compare_exchange_weak may fail on an equal value

ASSUME ThreadsAssumption == IsFiniteSet(Threads)
ASSUME WeakAssumption == Weak \in BOOLEAN

VARIABLES
  state,     \* _state
  pc,        \* thread -> control point
  expected   \* thread -> the local of lock_shared and lock

vars == <<state, pc, expected>>

Init ==
  /\ state = 0
  /\ pc = [t \in Threads |-> "idle"]
  /\ expected = [t \in Threads |-> 0]

Goto(t, point) == pc' = [pc EXCEPT ![t] = point]
Expect(t, v) == expected' = [expected EXCEPT ![t] = v]

Sleepers == {t \in Threads : pc[t] \in {"rsleep", "wsleep"}}

-----------------------------------------------------------------------------
(* The kernel                                                              *)

\* Where a thread goes on when FUTEX_WAIT returns.
Awake(t) == IF pc[t] \in {"rwait", "rsleep"} THEN "rload" ELSE "wcas"

\* FUTEX_WAIT on the expected value; it returns at once on another value.
FutexWait(t) ==
  /\ pc[t] \in {"rwait", "wwait"}
  /\ Goto(t, IF state # expected[t] THEN Awake(t)
             ELSE IF pc[t] = "rwait" THEN "rsleep" ELSE "wsleep")
  /\ Expect(t, 0)
  /\ UNCHANGED state

\* FUTEX_WAKE of the threads in woken by thread t, which then returns.
WakeAndReturn(t, woken) ==
  pc' = [u \in Threads |-> IF u \in woken THEN Awake(u)
                           ELSE IF u = t THEN "idle" ELSE pc[u]]

\* A signal ends FUTEX_WAIT early.
Interrupted(t) ==
  /\ t \in Sleepers
  /\ Goto(t, Awake(t))
  /\ UNCHANGED <<state, expected>>

-----------------------------------------------------------------------------
(* lock_shared and unlock_shared                                           *)

LockShared(t) ==
  /\ pc[t] = "idle"
  /\ Goto(t, "rload")
  /\ UNCHANGED <<state, expected>>

SharedLoad(t) ==
  /\ pc[t] = "rload"
  /\ Expect(t, state)
  /\ Goto(t, IF state >= 0 THEN "rcas" ELSE "rwait")
  /\ UNCHANGED state

\* Mutant: a store instead of the compare-and-swap.
SharedStore(t) ==
  /\ pc[t] = "rcas"
  /\ state' = expected[t] + 1
  /\ Goto(t, "reader")
  /\ Expect(t, 0)

SharedCas(t) ==
  /\ pc[t] = "rcas"
  /\ \/ /\ state = expected[t]
        /\ state' = expected[t] + 1
        /\ Goto(t, "reader")
     \/ /\ state # expected[t] \/ Weak
        /\ Goto(t, "rload")
        /\ UNCHANGED state
  /\ Expect(t, 0)

UnlockShared(t) ==
  /\ pc[t] = "reader"
  /\ state' = state - 1
  /\ Goto(t, "rcheck")
  /\ UNCHANGED expected

\* Mutant: the check expects the value before the decrement.
CheckComparesOld(t) ==
  /\ pc[t] = "rcheck"
  /\ Goto(t, IF state = 1 THEN "rwake" ELSE "idle")
  /\ UNCHANGED <<state, expected>>

\* The word is read again, after the decrement and not together with it.
UnlockSharedCheck(t) ==
  /\ pc[t] = "rcheck"
  /\ Goto(t, IF state = 0 THEN "rwake" ELSE "idle")
  /\ UNCHANGED <<state, expected>>

UnlockSharedWake(t) ==
  /\ pc[t] = "rwake"
  /\ IF Sleepers = {} THEN WakeAndReturn(t, {})
     ELSE \E u \in Sleepers : WakeAndReturn(t, {u})
  /\ UNCHANGED <<state, expected>>

-----------------------------------------------------------------------------
(* lock and unlock                                                         *)

Lock(t) ==
  /\ pc[t] = "idle"
  /\ Goto(t, "wcas")
  /\ UNCHANGED <<state, expected>>

\* Mutant: lock only looks for writers.
LockPastReaders(t) ==
  /\ pc[t] = "wcas"
  /\ \/ /\ state >= 0
        /\ state' = -1
        /\ Goto(t, "writer")
        /\ UNCHANGED expected
     \/ /\ state < 0
        /\ Expect(t, state)
        /\ Goto(t, "wwait")
        /\ UNCHANGED state

\* CAS from 0 to -1; a failed one leaves the word's value in expected.
LockCas(t) ==
  /\ pc[t] = "wcas"
  /\ \/ /\ state = 0
        /\ state' = -1
        /\ Goto(t, "writer")
        /\ UNCHANGED expected
     \/ /\ state # 0 \/ Weak
        /\ Expect(t, state)
        /\ Goto(t, "wwait")
        /\ UNCHANGED state

Unlock(t) ==
  /\ pc[t] = "writer"
  /\ state' = 0
  /\ Goto(t, "wwake")
  /\ UNCHANGED expected

\* Mutant: unlock wakes nobody.
UnlockWithoutWake(t) ==
  /\ pc[t] = "wwake"
  /\ WakeAndReturn(t, {})
  /\ UNCHANGED <<state, expected>>

UnlockWake(t) ==
  /\ pc[t] = "wwake"
  /\ WakeAndReturn(t, Sleepers)
  /\ UNCHANGED <<state, expected>>

-----------------------------------------------------------------------------

\* What a thread does by itself inside lock, lock_shared, unlock and
\* unlock_shared.
Step(t) ==
  \/ SharedLoad(t) \/ SharedCas(t) \/ LockCas(t) \/ FutexWait(t)
  \/ UnlockSharedCheck(t) \/ UnlockSharedWake(t) \/ UnlockWake(t)

Next ==
  \E t \in Threads :
    \/ LockShared(t) \/ UnlockShared(t) \/ Lock(t) \/ Unlock(t)
    \/ Step(t) \/ Interrupted(t)

Spec == Init /\ [][Next]_vars

\* Calls go on, and whoever holds the lock gives it back some day; nobody
\* has to lock, and no signal has to arrive.
Fairness ==
  \A t \in Threads : WF_vars(Step(t)) /\ WF_vars(UnlockShared(t) \/ Unlock(t))

FairSpec == Spec /\ Fairness

-----------------------------------------------------------------------------
(* Properties                                                              *)

Readers == {t \in Threads : pc[t] = "reader"}
Writers == {t \in Threads : pc[t] = "writer"}

Points == {"idle", "rload", "rcas", "rwait", "rsleep", "reader", "rcheck",
           "rwake", "wcas", "wwait", "wsleep", "writer", "wwake"}

\* Every variable has its type; the word never goes below -1.
TypeOK ==
  /\ state \in Nat \cup {-1}
  /\ pc \in [Threads -> Points]
  /\ expected \in [Threads -> Nat \cup {-1}]

\* The comment on _state, "-1: exclusive lock, >0: shared locks, 0: free",
\* with the exact number of readers; the asserts of the unlocks follow.
StateExact ==
  \/ state = -1 /\ Readers = {} /\ \E t \in Threads : Writers = {t}
  \/ state = Cardinality(Readers) /\ Writers = {}

\* shared_futex implements a reader/writer lock.
Abs == INSTANCE RWLock WITH readers <- Readers, writers <- Writers
ImplementsRWLock == Abs!Spec

\* No wake-up is lost: whenever a thread sleeps in lock or lock_shared while
\* the lock is free, another thread is on its way to wake it or to take the
\* lock itself.  (For a CAS that does not fail spuriously: after such a
\* failure lock() would wait for the free word to change.)
NoStrandedSleeper ==
  ~Weak => (Sleepers # {} /\ state = 0
              => \E t \in Threads : pc[t] \notin {"idle", "rsleep", "wsleep"})

\* The inductive form: a thread about to wait has seen the lock taken.
WaitersSawLock ==
  ~Weak => \A t \in Threads :
             /\ pc[t] = "rwait" => expected[t] = -1
             /\ pc[t] = "wwait" => expected[t] # 0

\* No thread sleeps for ever next to a lock that stays free: the wake-up of
\* unlock and the single one of unlock_shared reach it in the end.
NoSleepForEver ==
  \A t \in Threads : []<>(t \notin Sleepers \/ state # 0)
=============================================================================
