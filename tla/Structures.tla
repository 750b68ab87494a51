----------------------------- MODULE Structures -----------------------------
(***************************************************************************)
(* The building blocks whose operations are self-contained: the vector,    *)
(* the fixed-size string, queue and stack, the shared memory mapping and   *)
(* the file locks, each with variables and parameters of its own, and what *)
(* each of them promises.                                                  *)
(***************************************************************************)
EXTENDS Integers, Sequences

CONSTANTS
  Elements,        \* what vectors, queues and stacks hold
  Raw,             \* what an unused slot of a queue or stack holds
  ElemSizes, Align, Slack, MaxSize, MaxLen, MaxArg, MaxBlock,   \* Vector
  TextSize, Chars, MaxText,                                     \* FixedString
  Objects, MaxFd, MaxPage, MaxFiles, NoObject,                  \* Mapping
  Procs, LockSlots,                                             \* FileLock
  Consumers, QueueCapacity,                                     \* FixedSizeQueue
  StackCapacity                                                 \* FixedSizeStack

VARIABLES es, vec, vecRef, vecDeviated, vecOverrun      \* Vector
VARIABLES str, strRef, strDeviated, strOverrun          \* FixedString
VARIABLES obj, unmaps, fds, pages, name, files, leaked  \* Mapping
VARIABLES open, held, kernel, undermined                \* FileLock
VARIABLES head, tail, full, items, pc, got, disturbed   \* FixedSizeQueue
VARIABLES top, stack, stackOverrun                      \* FixedSizeStack

V == INSTANCE Vector WITH
       Values <- Elements,
       ref <- vecRef, deviated <- vecDeviated, overrun <- vecOverrun
S == INSTANCE FixedString WITH
       N <- TextSize, MaxArg <- MaxText,
       ref <- strRef, deviated <- strDeviated, overrun <- strOverrun
M == INSTANCE Mapping WITH None <- NoObject
L == INSTANCE FileLock WITH Slots <- LockSlots
Q == INSTANCE FixedSizeQueue WITH Values <- Elements, Capacity <- QueueCapacity
T == INSTANCE FixedSizeStack WITH
       Values <- Elements, Capacity <- StackCapacity,
       head <- top, items <- stack, overrun <- stackOverrun

-----------------------------------------------------------------------------
(* Assumptions                                                             *)

\* fixed_size_queue.h computes indices modulo the capacity.
ASSUME QueueAssumption == QueueCapacity \in Nat \ {0}

ASSUME StackAssumption == StackCapacity \in Nat

\* basic_string.h: _N and the lengths of arguments are counts of characters.
ASSUME TextAssumption == TextSize \in Nat /\ MaxText \in Nat

\* Characters are ordered as numbers, and the terminator is none of them:
\* compare() takes it for a character below all others.
ASSUME CharsAssumption == Chars \subseteq Nat \ {0}

\* vector.h: elements and alignments have a size, blocks nothing less than
\* was asked for, and lengths are counts.
ASSUME VectorAssumption ==
  /\ ElemSizes \subseteq Nat \ {0} /\ Align \in Nat \ {0} /\ Slack \subseteq Nat
  /\ MaxSize \in Nat /\ MaxArg \in Nat /\ MaxBlock \in Nat

\* There are descriptors and pages in some number, and what stands for no
\* object, no file and no destructor is none of the values used for them.
ASSUME MappingAssumption ==
  /\ MaxFd \in Nat /\ MaxPage \in Nat
  /\ NoObject \notin Nat /\ NoObject \notin Seq(SUBSET Nat)
  /\ NoObject \notin
       [region : Nat, n : {0, 1, 2}, double : BOOLEAN, fd : 0 .. MaxFd,
        file : Nat \cup {NoObject}, created : BOOLEAN, stale : BOOLEAN, hit : BOOLEAN]

-----------------------------------------------------------------------------
(* Properties                                                              *)

\* vector.h: every call leaves what std::vector would, except in the cases
\* Vector names; see there.
ActsAsStdVector == V!ActsAsStdVector

\* vector.h: no element is constructed behind the storage if the size of the
\* elements divides that of every block; see Vector.
StaysInStorage == V!StaysInStorage

\* basic_string.h: every call leaves what std::basic_string would, except in
\* the cases FixedString names; see there.
ActsAsStdString == S!ActsAsStdString

\* basic_string.h: find and compare answer as std::basic_string does;
\* see FixedString.
SearchesAgree == S!SearchesAgree

\* Descriptors and pages belong to one object each; see Mapping.
ResourcesOwned == M!ResourcesOwned

\* Nothing is left open or mapped when its owner is gone; see Mapping.
NothingLeaks == M!NothingLeaks

\* file_lock.h, ip_lock.h: locks of two processes exclude each other; see
\* FileLock.
ExcludesProcesses == L!ExcludesProcesses

\* fixed_size_queue.h is a bounded double-ended queue; see FixedSizeQueue.
ImplementsDeque == Q!ImplementsDeque

\* fixed_size_queue.h: a consumer left alone pops what it read; see
\* FixedSizeQueue.
PopsWhatWasRead == Q!PopsWhatWasRead

\* fixed_size_stack.h is a bounded stack until an element is pushed on a
\* full one; see FixedSizeStack.
ImplementsStack == T!ImplementsStack
=============================================================================
