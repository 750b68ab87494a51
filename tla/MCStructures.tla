---------------------------- MODULE MCStructures ----------------------------
(***************************************************************************)
(* The building blocks that share nothing with one another, each in a      *)
(* small instance: those of Structures, the pool allocator, the roundings  *)
(* and the spinning shared_mutex.  In every behaviour the one named by     *)
(* which moves and the others stay as they are made.                       *)
(***************************************************************************)
EXTENDS Structures, PoolAllocator, Numeric, SharedMutex, TLC

VARIABLE which
VARIABLE arg        \* Numeric: the argument

Lengths == <<4, 1>>

vVars == <<es, vec, vecRef, vecDeviated, vecOverrun>>
sVars == <<str, strRef, strDeviated, strOverrun>>
mVars == <<obj, unmaps, fds, pages, name, files, leaked>>
lVars == <<open, held, kernel, undermined>>
qVars == <<head, tail, full, items, pc, got, disturbed>>
tVars == <<top, stack, stackOverrun>>
allVars == <<which, arg, vars, vVars, sVars, mVars, lVars, qVars, tVars, mutexVars>>

InitAll ==
  /\ which \in {"allocator", "numeric", "vector", "string", "mapping", "locks",
                "queue", "stack", "mutex"}
  /\ arg = 0
  /\ Init /\ V!Init /\ S!Init /\ M!Init /\ L!Init /\ Q!Init /\ T!Init /\ MutexInit
  /\ which # "vector" => es = 2

NextAll ==
  /\ UNCHANGED which
  /\ \/ /\ which = "allocator" /\ Next
        /\ UNCHANGED <<arg, vVars, sVars, mVars, lVars, qVars, tVars, mutexVars>>
     \/ /\ which = "numeric" /\ arg' = Wrap(arg + 1)
        /\ UNCHANGED <<vars, vVars, sVars, mVars, lVars, qVars, tVars, mutexVars>>
     \/ /\ which = "vector" /\ V!Next
        /\ UNCHANGED <<arg, vars, sVars, mVars, lVars, qVars, tVars, mutexVars>>
     \/ /\ which = "string" /\ S!Next
        /\ UNCHANGED <<arg, vars, vVars, mVars, lVars, qVars, tVars, mutexVars>>
     \/ /\ which = "mapping" /\ M!Next
        /\ UNCHANGED <<arg, vars, vVars, sVars, lVars, qVars, tVars, mutexVars>>
     \/ /\ which = "locks" /\ L!Next
        /\ UNCHANGED <<arg, vars, vVars, sVars, mVars, qVars, tVars, mutexVars>>
     \/ /\ which = "queue" /\ Q!Next
        /\ UNCHANGED <<arg, vars, vVars, sVars, mVars, lVars, tVars, mutexVars>>
     \/ /\ which = "stack" /\ T!Next
        /\ UNCHANGED <<arg, vars, vVars, sVars, mVars, lVars, qVars, mutexVars>>
     \/ /\ which = "mutex" /\ MutexNext
        /\ UNCHANGED <<arg, vars, vVars, sVars, mVars, lVars, qVars, tVars>>

SpecAll == InitAll /\ [][NextAll]_allVars

ObjectSymmetry == Permutations(Objects)

-----------------------------------------------------------------------------
(* Properties                                                              *)

\* floor_to_power_of_two returns the largest power of two not above its
\* argument, and ceil_to_power_of_two the smallest one not below it,
\* wherever one exists in Width bits.
RoundingCorrect == which = "numeric" =>
  /\ arg > 0 => floor_to_power_of_two(arg) =
       {p \in Powers : p <= arg /\ \A o \in Powers : o <= arg => o <= p}
  /\ arg \in 1 .. 2^(Width - 1) => ceil_to_power_of_two(arg) =
       {p \in Powers : p >= arg /\ \A o \in Powers : o >= arg => p <= o}

\* A running id masked with size - 1 walks round a pool of that size, slot
\* after slot, also when the unsigned id itself wraps around: what publish()
\* and the message queue rely on for every size they round to.
MaskWalksRound == which = "numeric" =>
  \A n \in 1 .. 2^(Width - 1) : \A size \in ceil_to_power_of_two(n) :
    (Wrap(arg + 1) & (size - 1)) = ((arg & (size - 1)) + 1) % size
=============================================================================
