-------------------------- MODULE StructuresProofs --------------------------
(***************************************************************************)
(* Proofs about the building blocks of Structures, one part after the      *)
(* other, for every value of their parameters that the assumptions there   *)
(* allow.                                                                  *)
(***************************************************************************)
EXTENDS Structures, SequenceTheorems, WellFoundedInduction, TLAPS

-----------------------------------------------------------------------------
(* The file locks                                                          *)

Modes == {"none", "shared", "exclusive"}

\* held, kernel and undermined speak of the locks there can be.
LTypeOK ==
  /\ open \subseteq L!Locks /\ undermined \subseteq L!Locks
  /\ held \in [L!Locks -> Modes] /\ kernel \in [Procs -> Modes]

\* Only an object that exists believes to hold the lock.
ClosedHoldsNothing == \A o \in L!Locks : o \notin open => held[o] = "none"

\* What an object believes, the kernel keeps for its process, until another
\* object of the process changes it.
BeliefsTrue ==
  \A o \in L!Locks : held[o] # "none" /\ o \notin undermined => kernel[L!Proc(o)] = held[o]

\* The kernel never keeps conflicting locks for two processes.
KernelExcludes ==
  \A p, q \in Procs : p # q => ~L!Conflict(kernel[p], kernel[q])

LockInv == LTypeOK /\ ClosedHoldsNothing /\ BeliefsTrue /\ KernelExcludes

-----------------------------------------------------------------------------

\* An object belongs to one of the processes.
LEMMA ProcOfLock == \A o \in L!Locks : L!Proc(o) \in Procs
  BY DEF L!Locks, L!Proc

\* A request that the kernel grants leaves its locks compatible.
LEMMA GrantKeepsExclusion ==
  ASSUME LTypeOK, KernelExcludes, NEW p \in Procs, NEW type \in Modes,
         type = "none" \/ L!Grants(p, type),
         kernel' = [kernel EXCEPT ![p] = type]
  PROVE  KernelExcludes'
<1> SUFFICES ASSUME NEW q \in Procs, NEW r \in Procs, q # r
             PROVE  ~L!Conflict(kernel'[q], kernel'[r])
  BY DEF KernelExcludes
<1>1. \A s \in Procs : kernel'[s] = IF s = p THEN type ELSE kernel[s]
  BY DEF LTypeOK
<1>2. CASE q # p /\ r # p
  BY <1>1, <1>2 DEF KernelExcludes
<1>3. \A s \in Procs \ {p} : ~L!Conflict(type, kernel[s]) /\ ~L!Conflict(kernel[s], type)
  BY DEF L!Conflict, L!Grants, LTypeOK, Modes
<1> QED BY <1>1, <1>2, <1>3

\* After an object o changed the lock of its process, the others of the
\* process that believe in something else are undermined.
LEMMA ChangeUndermines ==
  ASSUME LockInv, NEW o \in L!Locks, NEW type \in Modes, NEW belief \in {"none", type},
         L!SetKernel(L!Proc(o), type, o), held' = [held EXCEPT ![o] = belief]
  PROVE  BeliefsTrue' /\ undermined' \subseteq L!Locks /\ held' \in [L!Locks -> Modes]
         /\ kernel' \in [Procs -> Modes]
<1>1. held' \in [L!Locks -> Modes] /\ kernel' \in [Procs -> Modes]
  BY ProcOfLock DEF LockInv, LTypeOK, L!SetKernel, Modes
<1>2. undermined' \subseteq L!Locks
  BY DEF LockInv, LTypeOK, L!SetKernel
<1>3. ASSUME NEW l \in L!Locks, held'[l] # "none", l \notin undermined'
      PROVE  kernel'[L!Proc(l)] = held'[l]
  <2>1. kernel'[L!Proc(o)] = type
    BY ProcOfLock DEF L!SetKernel, LockInv, LTypeOK
  <2>2. CASE l = o
    BY <1>3, <2>1, <2>2 DEF LockInv, LTypeOK
  <2>3. CASE l # o
    <3>1. held'[l] = held[l] /\ l \in open
      BY <1>3, <2>3 DEF LockInv, LTypeOK, ClosedHoldsNothing
    <3>2. l \notin undermined /\ (L!Proc(l) = L!Proc(o) => held[l] = type)
      BY <1>3, <2>3, <3>1 DEF L!SetKernel
    <3>3. kernel[L!Proc(l)] = held[l]
      BY <1>3, <3>1, <3>2 DEF LockInv, BeliefsTrue
    <3> QED BY <2>1, <3>1, <3>2, <3>3, ProcOfLock DEF L!SetKernel, LockInv, LTypeOK
  <2> QED BY <2>2, <2>3
<1> QED BY <1>1, <1>2, <1>3 DEF BeliefsTrue

-----------------------------------------------------------------------------

LEMMA LockInit == L!Init => LockInv
  BY ProcOfLock DEF L!Init, LockInv, LTypeOK, ClosedHoldsNothing, BeliefsTrue, KernelExcludes,
     L!Conflict, Modes

LEMMA LockOpenPreserves == ASSUME LockInv, NEW o \in L!Locks, L!Open(o) PROVE LockInv'
  BY DEF LockInv, L!Open, LTypeOK, ClosedHoldsNothing, BeliefsTrue, KernelExcludes

LEMMA LockTakePreserves ==
  ASSUME LockInv, NEW o \in L!Locks, NEW type \in {"shared", "exclusive"}, L!Lock(o, type)
  PROVE  LockInv'
<1>1. type \in Modes /\ L!Proc(o) \in Procs
  BY ProcOfLock DEF Modes
<1>2. BeliefsTrue' /\ undermined' \subseteq L!Locks /\ held' \in [L!Locks -> Modes]
      /\ kernel' \in [Procs -> Modes]
  BY <1>1, ChangeUndermines DEF L!Lock
<1>3. KernelExcludes'
  BY <1>1, GrantKeepsExclusion DEF L!Lock, L!SetKernel, LockInv
<1>4. ClosedHoldsNothing'
  BY DEF L!Lock, LockInv, LTypeOK, ClosedHoldsNothing
<1> QED BY <1>2, <1>3, <1>4 DEF LockInv, LTypeOK, L!Lock

LEMMA LockDropPreserves == ASSUME LockInv, NEW o \in L!Locks, L!Unlock(o) \/ L!Close(o) PROVE LockInv'
<1>1. "none" \in Modes /\ L!Proc(o) \in Procs
  BY ProcOfLock DEF Modes
<1>2. L!SetKernel(L!Proc(o), "none", o) /\ held' = [held EXCEPT ![o] = "none"]
      /\ open' \subseteq open /\ open \ {o} \subseteq open'
  BY DEF L!Unlock, L!Close
<1>3. BeliefsTrue' /\ undermined' \subseteq L!Locks /\ held' \in [L!Locks -> Modes]
      /\ kernel' \in [Procs -> Modes]
  BY <1>1, <1>2, ChangeUndermines
<1>4. KernelExcludes'
  BY <1>1, <1>2, GrantKeepsExclusion DEF L!SetKernel, LockInv
<1>5. ClosedHoldsNothing'
  BY <1>2 DEF LockInv, LTypeOK, ClosedHoldsNothing
<1> QED BY <1>2, <1>3, <1>4, <1>5 DEF LockInv, LTypeOK

LEMMA LockMovePreserves ==
  ASSUME LockInv, NEW o \in L!Locks, NEW p \in L!Locks, L!Move(o, p) PROVE LockInv'
<1>1. LTypeOK'
  BY DEF L!Move, LockInv, LTypeOK, Modes
<1>2. ClosedHoldsNothing'
  BY DEF L!Move, LockInv, LTypeOK, ClosedHoldsNothing
<1>3. ASSUME NEW l \in L!Locks, held'[l] # "none", l \notin undermined'
      PROVE  kernel'[L!Proc(l)] = held'[l]
  <2>1. CASE l = p
    <3>1. held'[l] = held[o] /\ o \notin undermined
      BY <1>3, <2>1 DEF L!Move, LockInv, LTypeOK
    <3> QED BY <1>3, <2>1, <3>1 DEF L!Move, LockInv, BeliefsTrue
  <2>2. CASE l # p
    <3>1. l # o /\ held'[l] = held[l] /\ l \notin undermined
      BY <1>3, <2>2 DEF L!Move, LockInv, LTypeOK
    <3> QED BY <1>3, <3>1 DEF L!Move, LockInv, BeliefsTrue
  <2> QED BY <2>1, <2>2
<1>4. KernelExcludes'
  BY DEF L!Move, LockInv, KernelExcludes
<1> QED BY <1>1, <1>2, <1>3, <1>4 DEF LockInv, BeliefsTrue

LEMMA LockExitPreserves == ASSUME LockInv, NEW p \in Procs, L!Exit(p) PROVE LockInv'
<1>1. LTypeOK'
  BY DEF L!Exit, LockInv, LTypeOK, Modes
<1>2. ClosedHoldsNothing'
  BY DEF L!Exit, LockInv, LTypeOK, ClosedHoldsNothing
<1>3. BeliefsTrue'
  BY ProcOfLock DEF L!Exit, LockInv, LTypeOK, BeliefsTrue
<1>4. KernelExcludes'
  BY GrantKeepsExclusion DEF L!Exit, LockInv, Modes
<1> QED BY <1>1, <1>2, <1>3, <1>4 DEF LockInv

\* The invariant of the locks: the kernel never keeps conflicting locks, and
\* what lock(), unlock(), close() and moves make an owner believe is what the
\* kernel keeps for its process, until another object of the process acts.
THEOREM LockInvariance == L!Spec => []LockInv
<1>1. ASSUME LockInv, [L!Next]_L!vars PROVE LockInv'
  <2>1. CASE \E o \in L!Locks : L!Open(o) \/ L!Guarded(o) \/ L!ProcessLocked(o) \/ L!Close(o)
                              \/ \E p \in L!Locks : L!Move(o, p)
    <3> PICK o \in L!Locks : L!Open(o) \/ L!Guarded(o) \/ L!ProcessLocked(o) \/ L!Close(o)
                              \/ \E p \in L!Locks : L!Move(o, p)
      BY <2>1
    <3>1. CASE UNCHANGED L!vars
      BY <1>1, <3>1 DEF L!vars, LockInv, LTypeOK, ClosedHoldsNothing, BeliefsTrue, KernelExcludes
    <3>2. CASE \E type \in {"shared", "exclusive"} : L!Lock(o, type)
      BY <1>1, <3>2, LockTakePreserves
    <3>3. CASE L!Unlock(o) \/ L!Close(o)
      BY <1>1, <3>3, LockDropPreserves
    <3>4. CASE L!Open(o)
      BY <1>1, <3>4, LockOpenPreserves
    <3>5. CASE \E p \in L!Locks : L!Move(o, p)
      BY <1>1, <3>5, LockMovePreserves
    <3> QED BY <3>1, <3>2, <3>3, <3>4, <3>5 DEF L!Guarded, L!ProcessLocked, L!TryFails
  <2>2. CASE \E p \in Procs : L!Exit(p)
    BY <1>1, <2>2, LockExitPreserves
  <2>3. CASE UNCHANGED L!vars
    BY <1>1, <2>3 DEF L!vars, LockInv, LTypeOK, ClosedHoldsNothing, BeliefsTrue, KernelExcludes
  <2> QED BY <1>1, <2>1, <2>2, <2>3 DEF L!Next
<1> QED BY <1>1, LockInit, PTL DEF L!Spec

\* file_lock and InterProcessLock keep processes out of each other's way,
\* for any number of processes and objects.
THEOREM ProcessesExcluded == L!Spec => []ExcludesProcesses
<1>1. LockInv => ExcludesProcesses
  <2> SUFFICES ASSUME LockInv, NEW o \in L!Locks, NEW p \in L!Locks, L!Proc(o) # L!Proc(p),
                      L!Conflict(held[o], held[p]), {o, p} \cap undermined = {}
               PROVE  FALSE
    BY DEF ExcludesProcesses, L!ExcludesProcesses
  <2>1. kernel[L!Proc(o)] = held[o] /\ kernel[L!Proc(p)] = held[p]
    BY DEF LockInv, BeliefsTrue, L!Conflict
  <2> QED BY <2>1, ProcOfLock DEF LockInv, KernelExcludes
<1> QED BY <1>1, LockInvariance, PTL

-----------------------------------------------------------------------------
(* The fixed-size stack                                                    *)

\* What a slot of a queue or stack can hold.
Content == Elements \cup {Raw}

\* The index stays within the slots until an element is pushed on a full
\* stack, which is the last step.
StackInv ==
  /\ top \in 0 .. StackCapacity + 1 /\ stack \in [0 .. StackCapacity - 1 -> Content]
  /\ stackOverrun \in BOOLEAN /\ (~stackOverrun => top <= StackCapacity)

\* The stack's contents are the sequence of the slots below the index.
LEMMA StackContents ==
  ASSUME StackInv, ~stackOverrun
  PROVE  /\ T!Contents \in Seq(Content) /\ Len(T!Contents) = top
         /\ \A i \in 1 .. top : T!Contents[i] = stack[i - 1]
<1>1. \A i \in 1 .. top : i - 1 \in 0 .. StackCapacity - 1
  BY StackAssumption DEF StackInv
<1>2. T!Contents \in [1 .. top -> Content]
  BY <1>1 DEF StackInv, T!Contents
<1>3. top \in Nat
  BY StackAssumption DEF StackInv
<1> QED BY <1>2, <1>3 DEF T!Contents

\* push() adds an element behind the others, as long as there is a slot.
LEMMA StackPush ==
  ASSUME StackInv, ~stackOverrun, NEW v \in Elements, T!Push(v), top < StackCapacity
  PROVE  /\ StackInv' /\ ~stackOverrun' /\ Len(T!Contents) < StackCapacity
         /\ T!Contents' = Append(T!Contents, v)
<1>1. top \in 0 .. StackCapacity - 1 /\ top' = top + 1
  BY StackAssumption DEF StackInv, T!Push
<1>0. stackOverrun' = stackOverrun /\ stack' = [stack EXCEPT ![top] = v]
  BY <1>1 DEF T!Push, T!Slots
<1>2. StackInv' /\ ~stackOverrun'
  BY <1>1, <1>0, StackAssumption DEF StackInv, Content
<1>3. \A i \in 1 .. top + 1 : stack'[i - 1] = IF i = top + 1 THEN v ELSE stack[i - 1]
  BY <1>1, <1>0, StackAssumption DEF StackInv
<1>4. /\ T!Contents \in Seq(Content) /\ Len(T!Contents) = top
      /\ \A i \in 1 .. top : T!Contents[i] = stack[i - 1]
  BY StackContents
<1>5. v \in Content
  BY DEF Content
<1>6. /\ Append(T!Contents, v) \in [1 .. top + 1 -> Content]
      /\ \A i \in 1 .. top + 1 : Append(T!Contents, v)[i] = stack'[i - 1]
  <2>1. /\ Append(T!Contents, v) \in Seq(Content) /\ Len(Append(T!Contents, v)) = top + 1
        /\ \A i \in 1 .. top : Append(T!Contents, v)[i] = T!Contents[i]
        /\ Append(T!Contents, v)[top + 1] = v
    BY <1>4, <1>5, AppendProperties
  <2>2. Append(T!Contents, v) \in [1 .. top + 1 -> Content]
    BY <2>1, LenProperties
  <2> QED BY <1>1, <1>3, <1>4, <2>1, <2>2
<1>7. T!Contents' = Append(T!Contents, v)
  BY <1>1, <1>6 DEF T!Contents
<1> QED BY <1>1, <1>2, <1>4, <1>7, StackAssumption

\* push() on a full stack writes behind it.
LEMMA StackOverrun ==
  ASSUME StackInv, ~stackOverrun, NEW v \in Elements, T!Push(v), ~(top < StackCapacity)
  PROVE  StackInv' /\ stackOverrun' /\ Len(T!Contents) = StackCapacity
<1>1. top = StackCapacity /\ top' = top + 1 /\ stackOverrun' = TRUE /\ stack' = stack
  BY StackAssumption DEF StackInv, T!Push, T!Slots
<1> QED BY <1>1, StackContents, StackAssumption DEF StackInv

\* pop() takes off the last element.
LEMMA StackPop ==
  ASSUME StackInv, ~stackOverrun, T!Pop
  PROVE  /\ StackInv' /\ ~stackOverrun' /\ T!Contents # <<>>
         /\ T!Contents' = SubSeq(T!Contents, 1, Len(T!Contents) - 1)
<1>1. /\ top \in 1 .. StackCapacity /\ top' = top - 1 /\ stack' = stack
      /\ stackOverrun' = stackOverrun
  BY StackAssumption DEF StackInv, T!Pop
<1>2. StackInv'
  BY <1>1, StackAssumption DEF StackInv
<1>3. /\ T!Contents \in Seq(Content) /\ Len(T!Contents) = top
      /\ \A i \in 1 .. top : T!Contents[i] = stack[i - 1]
  BY StackContents
<1>4. \A i \in 1 .. top - 1 : T!Contents[i] \in Content
  BY <1>1, <1>3, ElementOfSeq
<1>5. /\ SubSeq(T!Contents, 1, top - 1) \in Seq(Content)
      /\ Len(SubSeq(T!Contents, 1, top - 1)) = top - 1
      /\ \A i \in 1 .. top - 1 : SubSeq(T!Contents, 1, top - 1)[i] = stack[i - 1]
  BY <1>1, <1>3, <1>4, SubSeqProperties, StackAssumption
<1>6. T!Contents' = SubSeq(T!Contents, 1, top - 1)
  BY <1>1, <1>5, LenProperties DEF T!Contents
<1> QED BY <1>1, <1>2, <1>3, <1>6, EmptySeq

LEMMA StackStep ==
  ASSUME StackInv, T!Next
  PROVE  /\ StackInv'
         /\ IF stackOverrun' THEN Len(T!Contents) = StackCapacity
            ELSE (T!Create \/ T!Deque!Next) /\ T!size' = Len(T!Contents')
<1>0. ~stackOverrun
  BY DEF T!Next
<1>1. \/ StackInv' /\ stackOverrun' /\ Len(T!Contents) = StackCapacity
      \/ StackInv' /\ ~stackOverrun' /\ (T!Create \/ T!Deque!Next)
  <2>1. CASE T!Create
    BY <1>0, <2>1, StackAssumption DEF StackInv, T!Create
  <2>2. CASE T!Pop
    BY <1>0, <2>2, StackPop DEF T!Deque!Next, T!Deque!PopBack
  <2>3. ASSUME NEW v \in Elements, T!Push(v)
        PROVE  \/ StackInv' /\ stackOverrun' /\ Len(T!Contents) = StackCapacity
               \/ StackInv' /\ ~stackOverrun' /\ T!Deque!Next
    <3>1. CASE top < StackCapacity
      BY <1>0, <2>3, <3>1, StackPush DEF T!Deque!Next, T!Deque!PushBack
    <3>2. CASE ~(top < StackCapacity)
      BY <1>0, <2>3, <3>2, StackOverrun
    <3> QED BY <3>1, <3>2
  <2> QED BY <2>1, <2>2, <2>3 DEF T!Next
<1>2. ASSUME StackInv', ~stackOverrun' PROVE T!size' = Len(T!Contents')
  <2>1. T!Contents' \in [1 .. top' -> Content] /\ top' \in Nat /\ top' <= StackCapacity
    BY <1>2, StackAssumption DEF StackInv, T!Contents
  <2>2. Len(T!Contents') = top'
    BY <2>1
  <2> QED BY <2>1, <2>2, StackAssumption DEF T!size
<1> QED BY <1>1, <1>2

\* fixed_size_stack.h implements a bounded stack of its capacity, for every
\* capacity, up to the first push on a full stack, which writes behind it.
THEOREM StackImplementsDeque == T!Spec => ImplementsStack
<1>1. ASSUME T!Init PROVE StackInv /\ T!Deque!Init
  <2>1. top = 0 /\ stackOverrun = FALSE /\ stack \in [0 .. StackCapacity - 1 -> Content]
    BY <1>1 DEF T!Init, T!Slots, Content
  <2>2. T!Contents = <<>>
    BY <2>1 DEF T!Contents
  <2>3. 0 \in 0 .. StackCapacity + 1 /\ 0 <= StackCapacity
    BY StackAssumption
  <2>4. StackInv
    BY <2>1, <2>3, Zenon DEF StackInv
  <2> QED BY <2>2, <2>4 DEF T!Deque!Init
<1>2. ASSUME StackInv, [T!Next]_T!vars
      PROVE  /\ StackInv'
             /\ [IF stackOverrun' THEN Len(T!Contents) = StackCapacity
                 ELSE (T!Create \/ T!Deque!Next) /\ T!size' = Len(T!Contents')]_T!vars
  BY <1>2, StackStep DEF StackInv, T!vars
<1> QED BY <1>1, <1>2, PTL DEF T!Spec, ImplementsStack, T!ImplementsStack

-----------------------------------------------------------------------------
(* The fixed-size queue                                                    *)

QueueTypeOK ==
  /\ head \in Q!Slots /\ tail \in Q!Slots /\ full \in BOOLEAN
  /\ items \in [Q!Slots -> Content]
  /\ pc \in [Consumers -> {"empty", "read", "pop"}]
  /\ got \in [Consumers -> {"front", "back"} \X Content]

\* The flag says what the indices cannot.
FullMeansEqual == full => head = tail

\* What a consumer that nobody disturbed has seen is still so.
SeenIsThere ==
  \A c \in Consumers : pc[c] # "empty" /\ c \notin disturbed =>
    /\ ~Q!IsEmpty
    /\ pc[c] = "pop" => got[c][2] = items[IF got[c][1] = "front" THEN head ELSE Q!Before(tail)]

QueueInv == QueueTypeOK /\ FullMeansEqual /\ SeenIsThere

-----------------------------------------------------------------------------

\* The index behind another.
After(i) == IF i = QueueCapacity - 1 THEN 0 ELSE i + 1

\* The slot of a queue's i-th element, counted from h.
SlotOf(h, i) == IF h + i - 1 < QueueCapacity THEN h + i - 1 ELSE h + i - 1 - QueueCapacity

\* The n elements from the slot h on.
ContentsOf(h, n, it) == [i \in 1 .. n |-> it[SlotOf(h, i)]]

\* Indices go round: the remainder of what is below twice the capacity.
LEMMA Remainder ==
  \A n \in 0 .. 2 * QueueCapacity - 1 :
    n % QueueCapacity = IF n < QueueCapacity THEN n ELSE n - QueueCapacity
  BY QueueAssumption

LEMMA AfterIsRemainder == \A i \in Q!Slots : (i + 1) % QueueCapacity = After(i) /\ After(i) \in Q!Slots
  BY QueueAssumption DEF Q!Slots, After

LEMMA ZeroIsSlot == 0 \in Q!Slots
  BY QueueAssumption DEF Q!Slots

LEMMA BeforeIsSlot == \A i \in Q!Slots : Q!Before(i) \in Q!Slots
  BY QueueAssumption DEF Q!Slots, Q!Before

\* The elements of a queue lie in its slots, one after another.
LEMMA QueueSlots ==
  ASSUME NEW h \in Q!Slots, NEW n \in 0 .. QueueCapacity, NEW it \in [Q!Slots -> Content]
  PROVE  /\ \A i \in 1 .. n :
              /\ SlotOf(h, i) \in Q!Slots
              /\ (h + i - 1) % QueueCapacity = SlotOf(h, i)
         /\ ContentsOf(h, n, it) \in [1 .. n -> Content]
         /\ ContentsOf(h, n, it) \in Seq(Content)
         /\ Len(ContentsOf(h, n, it)) = n
<1>1. ASSUME NEW i \in 1 .. n
      PROVE  SlotOf(h, i) \in Q!Slots /\ (h + i - 1) % QueueCapacity = SlotOf(h, i)
  <2>1. h + i - 1 \in 0 .. 2 * QueueCapacity - 1
    BY QueueAssumption DEF Q!Slots
  <2>2. SlotOf(h, i) \in Q!Slots
    BY <2>1, QueueAssumption DEF Q!Slots, SlotOf
  <2>3. PICK k \in 0 .. 2 * QueueCapacity - 1 : k = h + i - 1
    BY <2>1
  <2>4. k % QueueCapacity = IF k < QueueCapacity THEN k ELSE k - QueueCapacity
    BY Remainder
  <2>5. SlotOf(h, i) = IF k < QueueCapacity THEN k ELSE k - QueueCapacity
    BY <2>3, QueueAssumption DEF SlotOf, Q!Slots
  <2> QED BY <2>2, <2>3, <2>4, <2>5
<1>2. ContentsOf(h, n, it) \in [1 .. n -> Content]
  BY <1>1 DEF ContentsOf
<1> QED BY <1>1, <1>2

\* size() and the contents in those terms, before and after a step.
LEMMA QueueContents ==
  ASSUME QueueTypeOK
  PROVE  Q!size \in 0 .. QueueCapacity /\ Q!Contents = ContentsOf(head, Q!size, items)
<1>1. Q!size \in 0 .. QueueCapacity
  BY QueueAssumption DEF QueueTypeOK, Q!Slots, Q!size
<1> QED BY <1>1, QueueSlots DEF QueueTypeOK, Q!Contents, ContentsOf

LEMMA QueueContentsNext ==
  ASSUME QueueTypeOK', Q!size' \in 0 .. QueueCapacity
  PROVE  Q!Contents' = ContentsOf(head', Q!size', items')
<1>1. head' \in Q!Slots /\ items' \in [Q!Slots -> Content]
  BY DEF QueueTypeOK, Q!Slots
<1> QED BY <1>1, QueueSlots DEF Q!Contents, ContentsOf

\* An element written behind the last one is the new last one.
LEMMA ContentsPush ==
  ASSUME NEW h \in Q!Slots, NEW n \in 0 .. QueueCapacity - 1, NEW it \in [Q!Slots -> Content],
         NEW v \in Content, NEW new \in [Q!Slots -> Content], new[SlotOf(h, n + 1)] = v,
         \A s \in Q!Slots \ {SlotOf(h, n + 1)} : new[s] = it[s]
  PROVE  ContentsOf(h, n + 1, new) = Append(ContentsOf(h, n, it), v)
<1> DEFINE c == ContentsOf(h, n, it)
<1>1. n \in Nat /\ n \in 0 .. QueueCapacity
  BY QueueAssumption
<1>2. \A i \in 1 .. n : SlotOf(h, i) # SlotOf(h, n + 1)
  BY QueueAssumption DEF Q!Slots, SlotOf
<1>3. /\ c \in Seq(Content) /\ Len(c) = n
      /\ \A i \in 1 .. n : c[i] = it[SlotOf(h, i)] /\ SlotOf(h, i) \in Q!Slots
  BY <1>1, QueueSlots DEF ContentsOf
<1>4. SlotOf(h, n + 1) \in Q!Slots
  BY QueueAssumption DEF Q!Slots, SlotOf
<1> HIDE DEF c
<1>5. /\ Append(c, v) \in Seq(Content) /\ Len(Append(c, v)) = n + 1
      /\ \A i \in 1 .. n : Append(c, v)[i] = c[i]
      /\ Append(c, v)[n + 1] = v
  BY <1>3, AppendProperties
<1>6. Append(c, v) \in [1 .. n + 1 -> Content]
  BY <1>5, LenProperties
<1>7. \A i \in 1 .. n + 1 : Append(c, v)[i] = new[SlotOf(h, i)]
  <2>1. \A i \in 1 .. n + 1 : i = n + 1 \/ i \in 1 .. n
    BY <1>1
  <2> QED BY <1>2, <1>3, <1>4, <1>5, <2>1
<1>8. ContentsOf(h, n + 1, new) = Append(c, v)
  BY <1>6, <1>7 DEF ContentsOf
<1> QED BY <1>8 DEF c

\* Without its first element a queue begins one slot later.
LEMMA ContentsPopFront ==
  ASSUME NEW h \in Q!Slots, NEW n \in 1 .. QueueCapacity, NEW it \in [Q!Slots -> Content]
  PROVE  /\ ContentsOf(h, n, it) # <<>>
         /\ Head(ContentsOf(h, n, it)) = it[h]
         /\ ContentsOf(After(h), n - 1, it) = Tail(ContentsOf(h, n, it))
<1> DEFINE c == ContentsOf(h, n, it)
<1>1. n \in 0 .. QueueCapacity
  BY QueueAssumption
<1>2. SlotOf(h, 1) = h /\ \A i \in 1 .. n - 1 : SlotOf(After(h), i) = SlotOf(h, i + 1)
  BY QueueAssumption DEF Q!Slots, SlotOf, After
<1>3. /\ c \in Seq(Content) /\ Len(c) = n
      /\ \A i \in 1 .. n : c[i] = it[SlotOf(h, i)] /\ SlotOf(h, i) \in Q!Slots
  BY <1>1, QueueSlots DEF ContentsOf
<1> HIDE DEF c
<1>4. c # <<>> /\ Head(c) = c[1]
  BY <1>3
<1>5. /\ Tail(c) \in Seq(Content) /\ Len(Tail(c)) = n - 1
      /\ \A i \in 1 .. n - 1 : Tail(c)[i] = c[i + 1]
  BY <1>3, <1>4, HeadTailProperties
<1>6. Tail(c) \in [1 .. n - 1 -> Content]
  BY <1>5, LenProperties
<1>7. ContentsOf(After(h), n - 1, it) = Tail(c)
  <2>1. \A i \in 1 .. n - 1 : i + 1 \in 1 .. n
    OBVIOUS
  <2>2. \A i \in 1 .. n - 1 : Tail(c)[i] = it[SlotOf(After(h), i)]
    BY <1>2, <1>3, <1>5, <2>1
  <2> QED BY <1>6, <2>2 DEF ContentsOf
<1>8. Head(c) = it[h]
  BY <1>2, <1>3, <1>4
<1> QED BY <1>4, <1>7, <1>8 DEF c

\* Without its last element a queue ends one slot earlier.
LEMMA ContentsPopBack ==
  ASSUME NEW h \in Q!Slots, NEW n \in 1 .. QueueCapacity, NEW it \in [Q!Slots -> Content]
  PROVE  /\ ContentsOf(h, n, it)[n] = it[SlotOf(h, n)]
         /\ ContentsOf(h, n - 1, it) = SubSeq(ContentsOf(h, n, it), 1, n - 1)
<1> DEFINE c == ContentsOf(h, n, it)
<1>1. n \in 0 .. QueueCapacity
  BY QueueAssumption
<1>2. /\ c \in Seq(Content) /\ Len(c) = n
      /\ \A i \in 1 .. n : c[i] = it[SlotOf(h, i)]
  BY <1>1, QueueSlots DEF ContentsOf
<1> HIDE DEF c
<1>3. \A i \in 1 .. n - 1 : c[i] \in Content
  BY <1>2, ElementOfSeq
<1>4. /\ SubSeq(c, 1, n - 1) \in Seq(Content)
      /\ Len(SubSeq(c, 1, n - 1)) = n - 1
      /\ \A i \in 1 .. n - 1 : SubSeq(c, 1, n - 1)[i] = c[i]
  BY <1>3, SubSeqProperties
<1>5. SubSeq(c, 1, n - 1) \in [1 .. n - 1 -> Content]
  BY <1>4, LenProperties
<1>6. ContentsOf(h, n - 1, it) = SubSeq(c, 1, n - 1)
  <2>1. \A i \in 1 .. n - 1 : i \in 1 .. n
    OBVIOUS
  <2> QED BY <1>2, <1>4, <1>5, <2>1 DEF ContentsOf
<1> QED BY <1>2, <1>6 DEF c

-----------------------------------------------------------------------------

\* push() keeps what consumers at the front have seen.
LEMMA QueuePush ==
  ASSUME QueueInv, NEW v \in Elements, Q!Push(v)
  PROVE  QueueInv' /\ Q!Deque!PushBack /\ (full' => Q!size' = QueueCapacity)
<1>1. /\ ~full /\ head' = head /\ items' = [items EXCEPT ![tail] = v]
      /\ pc' = pc /\ got' = got /\ tail' = After(tail) /\ full' = (After(tail) = head)
  BY AfterIsRemainder DEF Q!Push, QueueInv, QueueTypeOK
<1>2. v \in Content
  BY DEF Content
<1>3. /\ head \in Q!Slots /\ tail \in Q!Slots /\ items \in [Q!Slots -> Content]
  BY DEF QueueInv, QueueTypeOK
<1>4. QueueTypeOK' /\ FullMeansEqual'
  BY <1>1, <1>2, AfterIsRemainder DEF QueueInv, QueueTypeOK, FullMeansEqual
<1>5. /\ Q!size \in 0 .. QueueCapacity - 1 /\ tail = SlotOf(head, Q!size + 1)
  BY <1>1, <1>3, QueueAssumption DEF Q!Slots, Q!size, SlotOf
<1>6. Q!size' = Q!size + 1
  <2>1. CASE After(tail) = head
    <3>1. full' = TRUE /\ tail' = head'
      BY <1>1, <2>1
    <3> QED BY <1>1, <1>3, <2>1, <3>1, QueueAssumption DEF Q!Slots, Q!size, After
  <2>2. CASE After(tail) # head
    BY <1>1, <1>3, <2>2, QueueAssumption DEF Q!Slots, Q!size, After
  <2> QED BY <2>1, <2>2
<1>7. Q!Contents' = Append(Q!Contents, v) /\ Len(Q!Contents) < QueueCapacity
  <2>1. Q!Contents' = ContentsOf(head, Q!size + 1, items')
    <3>1. Q!size' \in 0 .. QueueCapacity
      BY <1>5, <1>6, QueueAssumption
    <3> QED BY <1>1, <1>4, <1>6, <3>1, QueueContentsNext
  <2>2. Q!Contents = ContentsOf(head, Q!size, items) /\ Q!size \in 0 .. QueueCapacity
    BY QueueContents DEF QueueInv
  <2>3. /\ items' \in [Q!Slots -> Content] /\ items'[SlotOf(head, Q!size + 1)] = v
        /\ \A s \in Q!Slots \ {SlotOf(head, Q!size + 1)} : items'[s] = items[s]
    BY <1>1, <1>2, <1>3, <1>5
  <2> HIDE DEF Q!size
  <2>4. ContentsOf(head, Q!size + 1, items') = Append(ContentsOf(head, Q!size, items), v)
    BY <1>2, <1>3, <1>5, <2>3, ContentsPush
  <2>5. Len(Q!Contents) = Q!size
    BY <1>3, <2>2, QueueSlots
  <2> QED BY <1>5, <2>1, <2>2, <2>4, <2>5, QueueAssumption
<1>8. ASSUME NEW c \in Consumers, pc'[c] # "empty", c \notin disturbed'
      PROVE  /\ ~Q!IsEmpty'
             /\ pc'[c] = "pop" => got'[c][2] = items'[IF got'[c][1] = "front" THEN head' ELSE Q!Before(tail)']
  <2>1. pc[c] # "empty" /\ c \notin disturbed /\ got[c][1] = "front"
    BY <1>1, <1>8 DEF Q!Push, Q!Busy, QueueInv, QueueTypeOK
  <2>2. head # tail
    BY <1>1, <2>1 DEF QueueInv, SeenIsThere, Q!IsEmpty
  <2>3. ~Q!IsEmpty'
    BY <1>1 DEF Q!IsEmpty
  <2>4. pc[c] = "pop" => got[c][2] = items[head]
    BY <2>1 DEF QueueInv, SeenIsThere
  <2> QED BY <1>1, <2>1, <2>2, <2>3, <2>4 DEF QueueInv, QueueTypeOK
<1>9. SeenIsThere'
  BY <1>8 DEF SeenIsThere
<1>10. full' => Q!size' = QueueCapacity
  BY <1>1 DEF Q!size
<1> QED BY <1>2, <1>4, <1>7, <1>9, <1>10 DEF QueueInv, Q!Deque!PushBack, Content

\* A consumer that pops makes the others, who are in between two calls,
\* disturbed; the rest is one element less.
LEMMA QueuePop ==
  ASSUME QueueInv, NEW c \in Consumers, Q!PopFront(c) \/ Q!PopBack(c)
  PROVE  /\ QueueInv' /\ full' = FALSE
         /\ Q!Deque!PopFront \/ Q!Deque!PopBack \/ Q!UncheckedPop
<1>1. /\ full' = FALSE /\ items' = items /\ got' = got /\ pc[c] = "pop"
      /\ pc' = [pc EXCEPT ![c] = "empty"] /\ disturbed' = disturbed \cup (Q!Busy \ {c})
  BY DEF Q!PopFront, Q!PopBack, Q!Popped
<1>2. \/ head' = After(head) /\ tail' = tail
      \/ tail' = Q!Before(tail) /\ head' = head
  BY AfterIsRemainder DEF Q!PopFront, Q!PopBack, QueueInv, QueueTypeOK
<1>3. /\ head \in Q!Slots /\ tail \in Q!Slots /\ full \in BOOLEAN
      /\ items \in [Q!Slots -> Content] /\ (full => head = tail)
  BY DEF QueueInv, QueueTypeOK, FullMeansEqual
<1>4. head' \in Q!Slots /\ tail' \in Q!Slots
  BY <1>2, <1>3, AfterIsRemainder, BeforeIsSlot
<1>5. QueueTypeOK' /\ FullMeansEqual'
  BY <1>1, <1>3, <1>4 DEF QueueInv, QueueTypeOK, FullMeansEqual
<1>6. SeenIsThere'
  BY <1>1 DEF QueueInv, QueueTypeOK, SeenIsThere, Q!Busy
<1>7. Q!size' \in 0 .. QueueCapacity
  <2>1. ~full'
    BY <1>1
  <2>2. Q!size' = IF tail' = head' THEN 0
                 ELSE IF tail' >= head' THEN tail' - head' ELSE tail' + QueueCapacity - head'
    BY <2>1 DEF Q!size
  <2>3. \A h, t \in Q!Slots :
          (IF t = h THEN 0 ELSE IF t >= h THEN t - h ELSE t + QueueCapacity - h) \in 0 .. QueueCapacity
    BY QueueAssumption DEF Q!Slots
  <2> QED BY <1>4, <2>2, <2>3
<1>8. /\ Q!Contents' = ContentsOf(head', Q!size', items)
      /\ Q!Contents = ContentsOf(head, Q!size, items) /\ Q!size \in 0 .. QueueCapacity
      /\ Len(Q!Contents) = Q!size
  <2>1. Q!Contents' = ContentsOf(head', Q!size', items)
    BY <1>1, <1>5, <1>7, QueueContentsNext
  <2>2. Q!Contents = ContentsOf(head, Q!size, items) /\ Q!size \in 0 .. QueueCapacity
    BY QueueContents DEF QueueInv
  <2> QED BY <1>3, <2>1, <2>2, QueueSlots
<1>9. CASE ~Q!IsEmpty
  <2>1. Q!size \in 1 .. QueueCapacity /\ Q!size' = Q!size - 1
    BY <1>1, <1>2, <1>3, <1>9, QueueAssumption
       DEF Q!IsEmpty, Q!size, Q!Slots, After, Q!Before
  <2>2. Q!Contents # <<>>
    BY <1>3, <1>8, <2>1, ContentsPopFront
  <2>3. CASE head' = After(head) /\ tail' = tail
    <3>1. Q!Contents' = Tail(Q!Contents)
      BY <1>3, <1>8, <2>1, <2>3, ContentsPopFront
    <3> QED BY <2>2, <3>1, <1>1, <1>5, <1>6 DEF Q!Deque!PopFront, QueueInv
  <2>4. CASE tail' = Q!Before(tail) /\ head' = head
    <3>1. Q!Contents' = SubSeq(Q!Contents, 1, Len(Q!Contents) - 1)
      BY <1>3, <1>8, <2>1, <2>4, ContentsPopBack
    <3> QED BY <2>2, <3>1, <1>1, <1>5, <1>6 DEF Q!Deque!PopBack, QueueInv
  <2> QED BY <1>2, <2>3, <2>4
<1>10. CASE Q!IsEmpty
  <2>1. pc'[c] = "empty"
    BY <1>1 DEF QueueInv, QueueTypeOK
  <2> QED BY <1>1, <1>5, <1>6, <1>10, <2>1 DEF Q!UncheckedPop, QueueInv
<1> QED BY <1>9, <1>10

\* empty(), front() and back() change nothing in the queue; create() forgets
\* all of it.
LEMMA QueueRest ==
  ASSUME QueueInv
  PROVE  /\ Q!Create => QueueInv' /\ ~full'
         /\ \A c \in Consumers : Q!Ask(c, "front") \/ Q!Ask(c, "back") \/ Q!Read(c) =>
              QueueInv' /\ UNCHANGED <<head, tail, full, items>>
<1>1. ASSUME Q!Create PROVE QueueInv' /\ ~full'
  <2>1. QueueTypeOK' /\ FullMeansEqual' /\ ~full'
    BY <1>1, ZeroIsSlot DEF Q!Create, QueueInv, QueueTypeOK, FullMeansEqual
  <2>2. SeenIsThere'
    BY <1>1 DEF Q!Create, Q!Busy, SeenIsThere
  <2> QED BY <2>1, <2>2 DEF QueueInv
<1>2. ASSUME NEW c \in Consumers, NEW end \in {"front", "back"}, Q!Ask(c, end)
      PROVE  QueueInv' /\ UNCHANGED <<head, tail, full, items>>
  <2>1. /\ pc' = [pc EXCEPT ![c] = "read"] /\ got' = [got EXCEPT ![c] = <<end, Raw>>]
        /\ disturbed' = disturbed \ {c} /\ ~Q!IsEmpty
        /\ head' = head /\ tail' = tail /\ full' = full /\ items' = items
    BY <1>2 DEF Q!Ask
  <2>2. QueueTypeOK' /\ FullMeansEqual'
    BY <2>1 DEF QueueInv, QueueTypeOK, FullMeansEqual, Content
  <2>3. SeenIsThere'
    <3> SUFFICES ASSUME NEW d \in Consumers, pc'[d] # "empty", d \notin disturbed'
                 PROVE  /\ ~Q!IsEmpty'
                        /\ pc'[d] = "pop" =>
                             got'[d][2] = items'[IF got'[d][1] = "front" THEN head' ELSE Q!Before(tail)']
      BY DEF SeenIsThere
    <3>1. ~Q!IsEmpty'
      BY <2>1 DEF Q!IsEmpty
    <3>2. CASE d = c
      BY <2>1, <3>1, <3>2 DEF QueueInv, QueueTypeOK
    <3>3. CASE d # c
      BY <2>1, <3>1, <3>3 DEF QueueInv, QueueTypeOK, SeenIsThere, Q!Before
    <3> QED BY <3>2, <3>3
  <2> QED BY <2>1, <2>2, <2>3 DEF QueueInv
<1>3. ASSUME NEW c \in Consumers, Q!Read(c)
      PROVE  QueueInv' /\ UNCHANGED <<head, tail, full, items>>
  <2> DEFINE slot == IF got[c][1] = "front" THEN head ELSE Q!Before(tail)
  <2>1. /\ pc[c] = "read" /\ pc' = [pc EXCEPT ![c] = "pop"]
        /\ got' = [got EXCEPT ![c][2] = items[slot]] /\ disturbed' = disturbed
        /\ head' = head /\ tail' = tail /\ full' = full /\ items' = items
    BY <1>3 DEF Q!Read
  <2>2. slot \in Q!Slots /\ items[slot] \in Content
    BY BeforeIsSlot DEF QueueInv, QueueTypeOK
  <2> HIDE DEF slot
  <2>3. /\ got' \in [Consumers -> {"front", "back"} \X Content]
        /\ got'[c][2] = items[slot] /\ got'[c][1] = got[c][1]
        /\ \A d \in Consumers \ {c} : got'[d] = got[d]
    BY <2>1, <2>2 DEF QueueInv, QueueTypeOK
  <2>4. QueueTypeOK' /\ FullMeansEqual'
    BY <2>1, <2>3 DEF QueueInv, QueueTypeOK, FullMeansEqual
  <2>5. SeenIsThere'
    <3> SUFFICES ASSUME NEW d \in Consumers, pc'[d] # "empty", d \notin disturbed'
                 PROVE  /\ ~Q!IsEmpty'
                        /\ pc'[d] = "pop" =>
                             got'[d][2] = items'[IF got'[d][1] = "front" THEN head' ELSE Q!Before(tail)']
      BY DEF SeenIsThere
    <3>1. pc[d] # "empty" /\ d \notin disturbed
      BY <2>1 DEF QueueInv, QueueTypeOK
    <3>2. ~Q!IsEmpty'
      BY <2>1, <3>1 DEF QueueInv, SeenIsThere, Q!IsEmpty
    <3>3. CASE d = c
      BY <2>1, <2>3, <3>2, <3>3 DEF slot, Q!Before
    <3>4. CASE d # c
      BY <2>1, <2>3, <3>1, <3>2, <3>4 DEF QueueInv, QueueTypeOK, SeenIsThere, Q!Before
    <3> QED BY <3>3, <3>4
  <2> QED BY <2>1, <2>4, <2>5 DEF QueueInv
<1> QED BY <1>1, <1>2, <1>3

\* Every step of the queue.
LEMMA QueueStep ==
  ASSUME QueueInv, Q!Next
  PROVE  /\ QueueInv'
         /\ Q!Create \/ Q!Deque!Next \/ UNCHANGED Q!Contents \/ Q!UncheckedPop
         /\ full' => Len(Q!Contents') = QueueCapacity
<1>1. /\ QueueInv'
      /\ \/ Q!Create \/ Q!Deque!Next \/ Q!UncheckedPop
         \/ UNCHANGED <<head, tail, full, items>>
      /\ \/ ~full' \/ Q!size' = QueueCapacity
         \/ UNCHANGED <<head, tail, full, items>>
  <2>1. CASE Q!Create
    BY <2>1, QueueRest
  <2>2. ASSUME NEW v \in Elements, Q!Push(v)
        PROVE  QueueInv' /\ Q!Deque!Next /\ (full' => Q!size' = QueueCapacity)
    BY <2>2, QueuePush DEF Q!Deque!Next
  <2>3. ASSUME NEW c \in Consumers, Q!PopFront(c) \/ Q!PopBack(c)
        PROVE  QueueInv' /\ (Q!Deque!Next \/ Q!UncheckedPop) /\ ~full'
    BY <2>3, QueuePop DEF Q!Deque!Next
  <2>4. ASSUME NEW c \in Consumers, Q!Ask(c, "front") \/ Q!Ask(c, "back") \/ Q!Read(c)
        PROVE  QueueInv' /\ UNCHANGED <<head, tail, full, items>>
    BY <2>4, QueueRest
  <2> QED BY <2>1, <2>2, <2>3, <2>4 DEF Q!Next
<1>2. full' => Q!size' = QueueCapacity
  BY <1>1 DEF Q!size, QueueInv, FullMeansEqual
<1>3. full' => Len(Q!Contents') = QueueCapacity
  <2>1. SUFFICES ASSUME full' PROVE Len(Q!Contents') = QueueCapacity
    OBVIOUS
  <2>2. Q!size' \in 0 .. QueueCapacity
    BY <1>2, <2>1, QueueAssumption
  <2>3. Q!Contents' = ContentsOf(head', QueueCapacity, items')
    BY <1>1, <1>2, <2>1, <2>2, QueueContentsNext DEF QueueInv
  <2>4. head' \in Q!Slots /\ items' \in [Q!Slots -> Content] /\ QueueCapacity \in 0 .. QueueCapacity
    BY <1>1, QueueAssumption DEF QueueInv, QueueTypeOK, Q!Slots
  <2> QED BY <2>3, <2>4, QueueSlots
<1>4. UNCHANGED <<head, tail, full, items>> => UNCHANGED Q!Contents
  BY DEF Q!Contents, Q!size
<1> QED BY <1>1, <1>3, <1>4

LEMMA QueueInitHolds == Q!Init => QueueInv /\ Q!Deque!Init
<1> SUFFICES ASSUME Q!Init PROVE QueueInv /\ Q!Deque!Init
  OBVIOUS
<1>1. QueueInv
  BY ZeroIsSlot DEF Q!Init, QueueInv, QueueTypeOK, FullMeansEqual, SeenIsThere, Content
<1>2. Q!size = 0
  BY DEF Q!Init, Q!size
<1> QED BY <1>1, <1>2 DEF Q!Deque!Init, Q!Contents

\* fixed_size_queue.h: the indices, the flag, and what undisturbed consumers
\* have seen, for every capacity and any number of consumers.
THEOREM QueueInvariance == Q!Spec => []QueueInv
<1>1. ASSUME QueueInv, UNCHANGED Q!vars PROVE QueueInv'
  BY <1>1 DEF Q!vars, QueueInv, QueueTypeOK, FullMeansEqual, SeenIsThere, Q!IsEmpty, Q!Before
<1> QED BY <1>1, QueueInitHolds, QueueStep, PTL DEF Q!Spec

\* fixed_size_queue.h implements a bounded double-ended queue, and refuses an
\* element only when it is full.
THEOREM QueueImplementsDeque == Q!Spec => ImplementsDeque
<1>1. ASSUME QueueInv, [Q!Next]_Q!vars
      PROVE  [/\ Q!Create \/ Q!Deque!Next \/ UNCHANGED Q!Contents \/ Q!UncheckedPop
              /\ full' => Len(Q!Contents') = QueueCapacity]_Q!vars
  BY <1>1, QueueStep
<1> QED BY <1>1, QueueInitHolds, QueueInvariance, PTL DEF Q!Spec, ImplementsDeque, Q!ImplementsDeque

\* Three calls of one consumer take out what the second one read.
THEOREM QueuePopsWhatWasRead == Q!Spec => PopsWhatWasRead
<1>1. ASSUME QueueInv, [Q!Next]_Q!vars
      PROVE  [\A c \in Consumers : pc[c] = "pop" /\ pc'[c] = "empty" /\ c \notin disturbed =>
                /\ ~Q!IsEmpty
                /\ got[c][2] = IF got[c][1] = "front" THEN Head(Q!Contents)
                               ELSE Q!Contents[Q!size]]_Q!vars
  <2> SUFFICES ASSUME NEW c \in Consumers, pc[c] = "pop", c \notin disturbed
               PROVE  /\ ~Q!IsEmpty
                      /\ got[c][2] = IF got[c][1] = "front" THEN Head(Q!Contents)
                                     ELSE Q!Contents[Q!size]
    OBVIOUS
  <2>1. /\ ~Q!IsEmpty
        /\ got[c][2] = items[IF got[c][1] = "front" THEN head ELSE Q!Before(tail)]
    BY <1>1 DEF QueueInv, SeenIsThere
  <2>2. /\ head \in Q!Slots /\ tail \in Q!Slots /\ full \in BOOLEAN
        /\ items \in [Q!Slots -> Content] /\ (full => head = tail)
    BY <1>1 DEF QueueInv, QueueTypeOK, FullMeansEqual
  <2>3. Q!size \in 1 .. QueueCapacity /\ SlotOf(head, Q!size) = Q!Before(tail)
    BY <2>1, <2>2, QueueAssumption DEF Q!IsEmpty, Q!size, Q!Slots, Q!Before, SlotOf
  <2>4. Q!Contents = ContentsOf(head, Q!size, items)
    BY <1>1, QueueContents DEF QueueInv
  <2>5. Head(Q!Contents) = items[head]
    BY <2>2, <2>3, <2>4, ContentsPopFront
  <2>6. Q!Contents[Q!size] = items[Q!Before(tail)]
    BY <2>2, <2>3, <2>4, ContentsPopBack
  <2> QED BY <2>1, <2>5, <2>6
<1> QED BY <1>1, QueueInvariance, PTL DEF Q!Spec, PopsWhatWasRead, Q!PopsWhatWasRead

-----------------------------------------------------------------------------
(* The shared memory mapping                                               *)

\* The values of MappedMemory objects.
MapRecord ==
  [region : Nat, n : {0, 1, 2}, double : BOOLEAN, fd : 0 .. MaxFd,
   file : Nat \cup {NoObject}, created : BOOLEAN, stale : BOOLEAN, hit : BOOLEAN]

\* A mapping has one page or, if it is DOUBLE, two.
Sized(v) == v.n > 0 => v.n = (IF v.double THEN 2 ELSE 1) /\ M!Region(v) \subseteq M!Pages

MapTypeOK ==
  /\ obj \in [Objects -> MapRecord \cup {NoObject}]
  /\ unmaps \in [Objects -> Seq(SUBSET Nat) \cup {NoObject}]
  /\ fds \in [M!Fds -> Nat \cup {NoObject}] /\ pages \in [M!Pages -> Nat \cup {NoObject}]
  /\ files \in Nat /\ name \in Nat \cup {NoObject}
  /\ \A o \in Objects : obj[o] # NoObject => Sized(obj[o])

\* The munmap calls u that the destructor of an object v can have left.
CallsLeft(v, u) ==
  \/ u = NoObject
  \/ /\ v # NoObject
     /\ \/ v.n = 0 /\ u = <<>>
        \/ v.n > 0 /\ u = <<M!Region(v)>>
        \/ v.n > 0 /\ v.double /\ u = <<{v.region + 1}, M!Region(v)>>
        \/ v.n > 0 /\ v.double /\ u = <<{v.region}, {v.region + 1}, M!Region(v)>>

DestructorsInOrder == \A o \in Objects : CallsLeft(obj[o], unmaps[o])

\* The pages an object still has mapped: its destructor gives back the two
\* halves of a DOUBLE mapping one after the other.
Held(v, u) ==
  IF v.n = 0 THEN {}
  ELSE IF u = NoObject \/ ~v.double \/ Len(u) = 3 THEN M!Region(v)
  ELSE IF Len(u) = 2 THEN {v.region + 1} ELSE {}

\* Whether the object has a descriptor that it may close.
OwnsFd(v) == v # NoObject /\ v.fd # 0 /\ ~v.stale

\* What an object has mapped shows its file, unless it is being destroyed
\* because it was never complete, and is no other object's.
PagesOwned ==
  /\ \A o \in Objects : obj[o] # NoObject =>
       \A q \in Held(obj[o], unmaps[o]) :
         pages[q] # NoObject /\ (unmaps[o] = NoObject => pages[q] = obj[o].file)
  /\ \A o, p \in Objects : o # p /\ obj[o] # NoObject /\ obj[p] # NoObject =>
       \A q \in Held(obj[o], unmaps[o]) : q \notin Held(obj[p], unmaps[p])

\* A descriptor that is not stale is open on the object's file and is no
\* other object's.
FdsOwned ==
  /\ \A o \in Objects : OwnsFd(obj[o]) =>
       fds[obj[o].fd] = obj[o].file /\ obj[o].file # NoObject
  /\ \A o, p \in Objects : o # p /\ OwnsFd(obj[o]) /\ OwnsFd(obj[p]) => obj[o].fd # obj[p].fd

MapInv ==
  /\ MapTypeOK /\ DestructorsInOrder
  /\ ~M!Damaged => PagesOwned /\ FdsOwned
  /\ M!NothingLeaks

\* The same where nobody has been hit.
MapGood == MapTypeOK /\ DestructorsInOrder /\ PagesOwned /\ FdsOwned /\ M!NothingLeaks /\ ~M!Damaged

-----------------------------------------------------------------------------

\* The first call of a destructor and the others.
LEMMA CallTuples ==
  ASSUME NEW x, NEW y, NEW z
  PROVE  /\ Head(<<x>>) = x /\ Tail(<<x>>) = <<>> /\ Len(<<x>>) = 1
         /\ Head(<<x, y>>) = x /\ Tail(<<x, y>>) = <<y>> /\ Len(<<x, y>>) = 2
         /\ Head(<<x, y, z>>) = x /\ Tail(<<x, y, z>>) = <<y, z>> /\ Len(<<x, y, z>>) = 3
         /\ Len(<<>>) = 0
  OBVIOUS

LEMMA TuplesAreSeqs ==
  ASSUME NEW X, NEW x \in X, NEW y \in X, NEW z \in X
  PROVE  <<>> \in Seq(X) /\ <<x>> \in Seq(X) /\ <<x, y>> \in Seq(X) /\ <<x, y, z>> \in Seq(X)
  OBVIOUS

\* A record is not what stands for none.
LEMMA RecordIsObject == \A v \in MapRecord : v # NoObject
  BY MappingAssumption DEF MapRecord

LEMMA RegionIs ==
  ASSUME NEW v \in MapRecord
  PROVE  /\ v.n = 0 => M!Region(v) = {}
         /\ v.n = 1 => M!Region(v) = {v.region}
         /\ v.n = 2 => M!Region(v) = {v.region, v.region + 1}
         /\ M!Region(v) \subseteq Nat
  BY DEF MapRecord, M!Region

LEMMA HeldInRegion ==
  ASSUME NEW v \in MapRecord, Sized(v), NEW u
  PROVE  Held(v, u) \subseteq M!Region(v) /\ (v.n = 0 => Held(v, u) = {})
<1>1. v.n \in {0, 1, 2} /\ v.double \in BOOLEAN
  BY DEF MapRecord
<1> QED BY <1>1, RegionIs DEF Held, Sized

\* One munmap call of a destructor: what is left of its calls, what it gives
\* back, and that only the last call for a DOUBLE mapping gives back pages
\* that the object no longer has.
LEMMA MunmapCall ==
  ASSUME NEW v \in MapRecord, Sized(v), NEW u, u \notin {NoObject, <<>>}, CallsLeft(v, u),
         NEW w \in MapRecord, w.region = v.region, w.double = v.double,
         w.n = IF Len(u) = 1 THEN 0 ELSE v.n
  PROVE  /\ v.n > 0 /\ CallsLeft(w, Tail(u)) /\ Tail(u) \in Seq(SUBSET Nat)
         /\ Head(u) \subseteq M!Region(v)
         /\ Held(w, Tail(u)) \subseteq Held(v, u) /\ Held(w, Tail(u)) \cap Head(u) = {}
         /\ ~(v.double /\ Len(u) = 1) => Head(u) \subseteq Held(v, u)
         /\ Len(u) = 1 => Head(u) = M!Region(v)
         /\ Sized(w)
<1>1. /\ v.n \in {1, 2} /\ v.region \in Nat /\ v.double \in BOOLEAN
      /\ v.n = (IF v.double THEN 2 ELSE 1) /\ v # NoObject /\ w # NoObject
  BY RecordIsObject DEF MapRecord, CallsLeft, Sized
<1>2. w.n = v.n => M!Region(w) = M!Region(v)
  BY DEF M!Region
<1>3. <<>> # NoObject /\ <<>> \in Seq(SUBSET Nat)
  BY MappingAssumption, EmptySeq
<1>4. CASE u = <<M!Region(v)>>
  <2>1. Head(u) = M!Region(v) /\ Tail(u) = <<>> /\ Len(u) = 1
    BY <1>4, CallTuples
  <2>2. w.n = 0
    BY <2>1
  <2>3. Held(w, Tail(u)) = {} /\ Sized(w) /\ CallsLeft(w, Tail(u))
    BY <1>1, <2>1, <2>2 DEF Held, Sized, CallsLeft
  <2>4. ~v.double => Held(v, u) = M!Region(v)
    BY <1>1 DEF Held
  <2>5. Tail(u) \in Seq(SUBSET Nat)
    BY <1>3, <2>1
  <2>7. v.n > 0
    BY <1>1
  <2>6. ~(v.double /\ Len(u) = 1) => Head(u) \subseteq Held(v, u)
    BY <2>1, <2>4
  <2> QED BY <2>1, <2>3, <2>5, <2>6, <2>7
<1>5. CASE v.double /\ u = <<{v.region + 1}, M!Region(v)>>
  <2>1. Head(u) = {v.region + 1} /\ Tail(u) = <<M!Region(v)>> /\ Len(u) = 2
    BY <1>5, CallTuples
  <2>2. Len(Tail(u)) = 1 /\ w.n = v.n /\ w.n = 2
    BY <1>1, <1>5, <2>1, CallTuples
  <2>3. M!Region(v) = {v.region, v.region + 1} /\ M!Region(v) \in SUBSET Nat
    BY <1>1, <1>5, RegionIs
  <2>4. Tail(u) \in Seq(SUBSET Nat)
    BY <2>1, <2>3, TuplesAreSeqs
  <2>5. Tail(u) # NoObject /\ u # NoObject
    BY <2>4, MappingAssumption
  <2>6. Held(w, Tail(u)) = {} /\ Held(v, u) = {v.region + 1}
    BY <1>1, <1>5, <2>1, <2>2, <2>5 DEF Held
  <2>7. CallsLeft(w, Tail(u)) /\ Sized(w)
    BY <1>1, <1>2, <1>5, <2>1, <2>2 DEF CallsLeft, Sized
  <2> QED BY <1>1, <2>1, <2>3, <2>4, <2>6, <2>7
<1>6. CASE v.double /\ u = <<{v.region}, {v.region + 1}, M!Region(v)>>
  <2>1. Head(u) = {v.region} /\ Tail(u) = <<{v.region + 1}, M!Region(v)>> /\ Len(u) = 3
    BY <1>6, CallTuples
  <2>2. Len(Tail(u)) = 2 /\ w.n = v.n /\ w.n = 2
    BY <1>1, <1>6, <2>1, CallTuples
  <2>3. M!Region(v) = {v.region, v.region + 1} /\ M!Region(v) \in SUBSET Nat
    BY <1>1, <1>6, RegionIs
  <2>4. Tail(u) \in Seq(SUBSET Nat)
    <3>1. {v.region + 1} \in SUBSET Nat
      BY <1>1
    <3> QED BY <2>1, <2>3, <3>1, TuplesAreSeqs, ZenonT(30)
  <2>5. Tail(u) # NoObject /\ u # NoObject
    BY <2>4, MappingAssumption
  <2>6. Held(w, Tail(u)) = {v.region + 1} /\ Held(v, u) = M!Region(v)
    BY <1>1, <1>6, <2>1, <2>2, <2>5 DEF Held
  <2>7. CallsLeft(w, Tail(u)) /\ Sized(w)
    BY <1>1, <1>2, <1>6, <2>1, <2>2 DEF CallsLeft, Sized
  <2> QED BY <1>1, <2>1, <2>3, <2>4, <2>6, <2>7
<1> QED BY <1>1, <1>4, <1>5, <1>6 DEF CallsLeft

-----------------------------------------------------------------------------

LEMMA FdFacts ==
  ASSUME MapTypeOK, NEW o \in Objects, obj[o] # NoObject
  PROVE  obj[o] \in MapRecord /\ Sized(obj[o]) /\ (obj[o].fd # 0 => obj[o].fd \in M!Fds)
         /\ obj[o].hit \in BOOLEAN /\ obj[o].stale \in BOOLEAN
  BY MappingAssumption DEF MapTypeOK, MapRecord, M!Fds

\* Pages stay owned if whoever has some after a step had them before, or has
\* them from the object s[x] that had them and gave them up.
LEMMA PagesFollow ==
  ASSUME MapGood, NEW s \in [Objects -> Objects],
         \A x \in Objects : obj'[x] # NoObject =>
           \/ Held(obj'[x], unmaps'[x]) = {}
           \/ /\ obj[s[x]] # NoObject /\ obj'[x].file = obj[s[x]].file
              /\ unmaps'[x] = NoObject => unmaps[s[x]] = NoObject
              /\ \A q \in Held(obj'[x], unmaps'[x]) :
                   q \in Held(obj[s[x]], unmaps[s[x]]) /\ pages'[q] = pages[q],
         \A x, y \in Objects :
           /\ x # y /\ obj'[x] # NoObject /\ obj'[y] # NoObject
           /\ Held(obj'[x], unmaps'[x]) # {} /\ Held(obj'[y], unmaps'[y]) # {}
           => s[x] # s[y]
  PROVE  PagesOwned'
<1>1. ASSUME NEW x \in Objects, obj'[x] # NoObject, NEW q \in Held(obj'[x], unmaps'[x])
      PROVE  /\ obj[s[x]] # NoObject /\ q \in Held(obj[s[x]], unmaps[s[x]])
             /\ pages'[q] # NoObject /\ (unmaps'[x] = NoObject => pages'[q] = obj'[x].file)
  <2>1. /\ obj[s[x]] # NoObject /\ obj'[x].file = obj[s[x]].file
        /\ unmaps'[x] = NoObject => unmaps[s[x]] = NoObject
        /\ q \in Held(obj[s[x]], unmaps[s[x]]) /\ pages'[q] = pages[q] /\ s[x] \in Objects
    BY <1>1
  <2>2. pages[q] # NoObject /\ (unmaps[s[x]] = NoObject => pages[q] = obj[s[x]].file)
    BY <2>1 DEF MapGood, PagesOwned
  <2> QED BY <2>1, <2>2
<1>2. ASSUME NEW x \in Objects, NEW y \in Objects, x # y, obj'[x] # NoObject, obj'[y] # NoObject,
             NEW q \in Held(obj'[x], unmaps'[x]), q \in Held(obj'[y], unmaps'[y])
      PROVE  FALSE
  <2>1. s[x] # s[y] /\ s[x] \in Objects /\ s[y] \in Objects
    BY <1>2
  <2>2. /\ obj[s[x]] # NoObject /\ q \in Held(obj[s[x]], unmaps[s[x]])
        /\ obj[s[y]] # NoObject /\ q \in Held(obj[s[y]], unmaps[s[y]])
    BY <1>1, <1>2
  <2> QED BY <2>1, <2>2 DEF MapGood, PagesOwned
<1>3. \A x \in Objects : obj'[x] # NoObject =>
        \A q \in Held(obj'[x], unmaps'[x]) :
          pages'[q] # NoObject /\ (unmaps'[x] = NoObject => pages'[q] = obj'[x].file)
  BY <1>1
<1>4. \A x, y \in Objects : x # y /\ obj'[x] # NoObject /\ obj'[y] # NoObject =>
        \A q \in Held(obj'[x], unmaps'[x]) : q \notin Held(obj'[y], unmaps'[y])
  BY <1>2
<1> QED BY <1>3, <1>4 DEF PagesOwned, Held, M!Region

\* The same of descriptors.
LEMMA FdsFollow ==
  ASSUME MapGood, NEW s \in [Objects -> Objects],
         \A x \in Objects : OwnsFd(obj'[x]) =>
           /\ OwnsFd(obj[s[x]]) /\ obj'[x].file = obj[s[x]].file /\ obj'[x].fd = obj[s[x]].fd
           /\ fds'[obj'[x].fd] = fds[obj'[x].fd],
         \A x, y \in Objects : x # y /\ OwnsFd(obj'[x]) /\ OwnsFd(obj'[y]) => s[x] # s[y]
  PROVE  FdsOwned'
<1>1. ASSUME NEW x \in Objects, OwnsFd(obj'[x])
      PROVE  /\ OwnsFd(obj[s[x]]) /\ obj'[x].fd = obj[s[x]].fd
             /\ fds'[obj'[x].fd] = obj'[x].file /\ obj'[x].file # NoObject
  BY <1>1 DEF MapGood, FdsOwned
<1>2. ASSUME NEW x \in Objects, NEW y \in Objects, x # y, OwnsFd(obj'[x]), OwnsFd(obj'[y])
      PROVE  obj'[x].fd # obj'[y].fd
  <2>1. s[x] # s[y] /\ s[x] \in Objects /\ s[y] \in Objects
    BY <1>2
  <2> QED BY <1>1, <1>2, <2>1 DEF MapGood, FdsOwned
<1> QED BY <1>1, <1>2 DEF FdsOwned, OwnsFd

\* The calls of a destructor give back exactly the object's pages.
LEMMA CallsFacts ==
  ASSUME NEW v \in MapRecord, Sized(v)
  PROVE  /\ M!Calls(v) \in Seq(SUBSET Nat) /\ M!Calls(v) # NoObject
         /\ CallsLeft(v, M!Calls(v)) /\ Held(v, M!Calls(v)) = Held(v, NoObject)
         /\ Held(v, NoObject) = M!Region(v)
<1> DEFINE u == M!Calls(v)
<1>1. v.n \in {0, 1, 2} /\ v.region \in Nat /\ v.double \in BOOLEAN
      /\ (v.n > 0 => v.n = IF v.double THEN 2 ELSE 1) /\ v # NoObject
  BY RecordIsObject DEF MapRecord, Sized
<1>2. u \in Seq(SUBSET Nat) /\ u # NoObject
  <2>1. {v.region} \in SUBSET Nat /\ {v.region + 1} \in SUBSET Nat /\ M!Region(v) \in SUBSET Nat
    BY <1>1, RegionIs
  <2>2. u \in Seq(SUBSET Nat)
    BY <2>1, TuplesAreSeqs DEF M!Calls
  <2> QED BY <2>2, MappingAssumption
<1>3. CallsLeft(v, u)
  BY <1>1 DEF M!Calls, CallsLeft
<1>4. Held(v, u) = Held(v, NoObject)
  <2>1. CASE v.n = 0
    BY <2>1 DEF Held
  <2>2. CASE v.n > 0 /\ v.double
    <3>1. Len(u) = 3
      BY <1>1, <2>2, CallTuples DEF M!Calls
    <3> QED BY <2>2, <3>1 DEF Held
  <2>3. CASE v.n > 0 /\ ~v.double
    BY <2>3 DEF Held
  <2> QED BY <1>1, <2>1, <2>2, <2>3
<1>5. Held(v, NoObject) = M!Region(v)
  BY <1>1, RegionIs DEF Held
<1> QED BY <1>2, <1>3, <1>4, <1>5

\* A new object v takes pages and a descriptor that are nobody's.
LEMMA NewObject ==
  ASSUME MapGood, NEW o \in Objects, obj[o] = NoObject,
         NEW v \in MapRecord, Sized(v), ~v.stale, ~v.hit, v.file = name', name' \in Nat, files' \in Nat,
         v.fd \in M!Fds, fds[v.fd] = NoObject, fds' = [fds EXCEPT ![v.fd] = name'],
         obj' = [obj EXCEPT ![o] = v],
         NEW u \in Seq(SUBSET Nat) \cup {NoObject}, unmaps' = [unmaps EXCEPT ![o] = u],
         CallsLeft(v, u), Held(v, u) = M!Region(v),
         pages' \in [M!Pages -> Nat \cup {NoObject}], leaked' = leaked,
         \A q \in M!Region(v) : pages[q] = NoObject /\ pages'[q] # NoObject,
         u = NoObject => \A q \in M!Region(v) : pages'[q] = v.file,
         \A q \in M!Pages \ M!Region(v) : pages'[q] = pages[q]
  PROVE  MapGood'
<1>1. v # NoObject /\ name' # NoObject
  BY RecordIsObject, MappingAssumption
<1>2. OwnsFd(v)
  BY <1>1 DEF OwnsFd, M!Fds
<1>3. /\ obj'[o] = v /\ \A x \in Objects \ {o} : obj'[x] = obj[x]
      /\ unmaps'[o] = u /\ \A x \in Objects \ {o} : unmaps'[x] = unmaps[x]
  BY DEF MapGood, MapTypeOK
<1>4. MapTypeOK'
  <2>1. obj' \in [Objects -> MapRecord \cup {NoObject}]
    BY DEF MapGood, MapTypeOK
  <2>2. fds' \in [M!Fds -> Nat \cup {NoObject}]
    BY DEF MapGood, MapTypeOK
  <2>3. \A x \in Objects : obj'[x] # NoObject => Sized(obj'[x])
    BY <1>3 DEF MapGood, MapTypeOK
  <2>4. unmaps' \in [Objects -> Seq(SUBSET Nat) \cup {NoObject}]
    BY DEF MapGood, MapTypeOK
  <2> QED BY <2>1, <2>2, <2>3, <2>4 DEF MapTypeOK, Sized, M!Region, M!Pages, M!Fds, MapRecord
<1>5. DestructorsInOrder'
  <2>1. \A x \in Objects : CallsLeft(obj'[x], unmaps'[x])
    BY <1>3 DEF MapGood, DestructorsInOrder
  <2> QED BY <2>1 DEF DestructorsInOrder, CallsLeft, M!Region
<1>6. \A x \in Objects \ {o} : obj[x] # NoObject =>
         Held(obj[x], unmaps[x]) \subseteq M!Pages /\ Held(obj[x], unmaps[x]) \cap M!Region(v) = {}
  <2> SUFFICES ASSUME NEW x \in Objects \ {o}, obj[x] # NoObject
               PROVE  /\ Held(obj[x], unmaps[x]) \subseteq M!Pages
                      /\ Held(obj[x], unmaps[x]) \cap M!Region(v) = {}
    OBVIOUS
  <2>1. obj[x] \in MapRecord /\ Sized(obj[x])
    BY FdFacts DEF MapGood
  <2>2. Held(obj[x], unmaps[x]) \subseteq M!Pages
    <3>1. Held(obj[x], unmaps[x]) \subseteq M!Region(obj[x]) /\ (obj[x].n = 0 => Held(obj[x], unmaps[x]) = {})
      BY <2>1, HeldInRegion
    <3>2. obj[x].n \in {0, 1, 2}
      BY <2>1 DEF MapRecord
    <3> QED BY <2>1, <3>1, <3>2 DEF Sized
  <2>3. \A q \in Held(obj[x], unmaps[x]) : pages[q] # NoObject
    BY DEF MapGood, PagesOwned
  <2> QED BY <2>2, <2>3
<1>7. PagesOwned'
  <2> DEFINE h(x) == Held(obj'[x], unmaps'[x])
  <2>1. h(o) = M!Region(v) /\ \A x \in Objects \ {o} : h(x) = Held(obj[x], unmaps[x])
    BY <1>3
  <2> HIDE DEF h
  <2>2. \A q \in h(o) : pages'[q] # NoObject /\ (unmaps'[o] = NoObject => pages'[q] = obj'[o].file)
    BY <1>3, <2>1
  <2>3. \A x \in Objects \ {o} : obj'[x] # NoObject =>
          \A q \in h(x) :
            /\ pages'[q] # NoObject /\ (unmaps'[x] = NoObject => pages'[q] = obj'[x].file)
            /\ q \notin h(o)
    BY <1>3, <1>6, <2>1 DEF MapGood, PagesOwned
  <2>4. \A x, y \in Objects \ {o} : x # y /\ obj'[x] # NoObject /\ obj'[y] # NoObject =>
          \A q \in h(x) : q \notin h(y)
    <3>1. \A x, y \in Objects : x # y /\ obj[x] # NoObject /\ obj[y] # NoObject =>
            \A q \in Held(obj[x], unmaps[x]) : q \notin Held(obj[y], unmaps[y])
      BY DEF MapGood, PagesOwned
    <3>2. \A x \in Objects \ {o} : obj'[x] = obj[x] /\ h(x) = Held(obj[x], unmaps[x])
      BY <1>3, <2>1
    <3> SUFFICES ASSUME NEW x \in Objects \ {o}, NEW y \in Objects \ {o}, x # y,
                        obj'[x] # NoObject, obj'[y] # NoObject, NEW q \in h(x)
                 PROVE  q \notin h(y)
      OBVIOUS
    <3>3. obj[x] # NoObject /\ obj[y] # NoObject /\ q \in Held(obj[x], unmaps[x])
      BY <3>2
    <3>4. q \notin Held(obj[y], unmaps[y])
      BY <3>1, <3>3
    <3> QED BY <3>2, <3>4
  <2>5. \A x \in Objects : obj'[x] # NoObject =>
          \A q \in h(x) : pages'[q] # NoObject /\ (unmaps'[x] = NoObject => pages'[q] = obj'[x].file)
    BY <2>2, <2>3
  <2>6. \A x, y \in Objects : x # y /\ obj'[x] # NoObject /\ obj'[y] # NoObject =>
          \A q \in h(x) : q \notin h(y)
    BY <2>3, <2>4
  <2> QED BY <2>5, <2>6 DEF PagesOwned, h, Held, M!Region
<1>8. FdsOwned'
  <2>1. \A x \in Objects \ {o} : OwnsFd(obj[x]) => obj[x].fd # v.fd /\ obj[x].fd \in M!Fds
    BY FdFacts DEF MapGood, FdsOwned, OwnsFd
  <2> QED BY <1>1, <1>3, <2>1 DEF MapGood, MapTypeOK, FdsOwned
<1>9. M!NothingLeaks'
  <2>1. ASSUME NEW q \in M!Pages, pages'[q] # NoObject
        PROVE  <<"page", q>> \in leaked' \/ \E x \in Objects :
                 obj'[x] # NoObject /\ obj'[x].n > 0 /\ q \in M!Region(obj'[x])
    <3>1. CASE q \in M!Region(v)
      <4>1. v.n > 0
        BY <3>1, RegionIs DEF MapRecord
      <4> QED BY <1>1, <1>3, <3>1, <4>1
    <3>2. CASE q \notin M!Region(v)
      BY <1>3, <2>1, <3>2 DEF MapGood, M!NothingLeaks, M!Exists
    <3> QED BY <3>1, <3>2
  <2>2. ASSUME NEW d \in M!Fds, fds'[d] # NoObject
        PROVE  <<"fd", d>> \in leaked' \/ \E x \in Objects : obj'[x] # NoObject /\ obj'[x].fd = d
    <3>1. CASE d = v.fd
      BY <1>1, <1>3, <3>1
    <3>2. CASE d # v.fd
      <4>1. fds[d] # NoObject
        BY <2>2, <3>2 DEF MapGood, MapTypeOK
      <4>2. <<"fd", d>> \in leaked \/ \E x \in Objects : obj[x] # NoObject /\ obj[x].fd = d
        BY <4>1 DEF MapGood, M!NothingLeaks, M!Exists
      <4> QED BY <1>3, <4>2
    <3> QED BY <3>1, <3>2
  <2> QED BY <2>1, <2>2 DEF M!NothingLeaks, M!Exists, M!Region, M!Pages, M!Fds
<1>10. ~M!Damaged'
  BY <1>3 DEF MapGood, M!Damaged, M!Exists
<1> QED BY <1>4, <1>5, <1>7, <1>8, <1>9, <1>10 DEF MapGood

\* The file that create() and open() begin with.
LEMMA NewFile ==
  ASSUME MapGood, NEW fd \in M!Fds, NEW created \in BOOLEAN,
         IF created THEN M!CreateFile(fd) ELSE M!OpenFile(fd)
  PROVE  /\ name' \in Nat /\ files' \in Nat /\ fds[fd] = NoObject
         /\ fds' = [fds EXCEPT ![fd] = name'] /\ fd \in Nat
  BY MappingAssumption DEF M!CreateFile, M!OpenFile, M!FreeFd, MapGood, MapTypeOK, M!Fds

\* What such an object is.
LEMMA ObjectFacts ==
  ASSUME NEW p \in Nat, NEW n \in {0, 1, 2}, NEW double \in BOOLEAN, NEW fd \in M!Fds,
         NEW file \in Nat, NEW created \in BOOLEAN
  PROVE  LET v == M!Object(p, n, double, fd, file, created)
         IN  /\ v \in MapRecord /\ v.fd = fd /\ v.file = file /\ v.n = n /\ v.double = double
             /\ ~v.stale /\ ~v.hit /\ v.region = p /\ M!Region(v) = p .. p + n - 1
  BY MappingAssumption DEF M!Object, MapRecord, M!Fds, M!Region

\* create() and open()
LEMMA EstablishPreserves ==
  ASSUME MapGood, NEW o \in Objects, NEW created \in BOOLEAN, NEW double \in BOOLEAN,
         M!Establish(o, created, double)
  PROVE  MapGood'
<1> DEFINE n == IF double THEN 2 ELSE 1
<1>1. PICK fd \in M!Fds, p \in M!Pages :
        /\ obj[o] = NoObject /\ M!FreeRegion(p, n)
        /\ IF created THEN M!CreateFile(fd) ELSE M!OpenFile(fd)
        /\ obj' = [obj EXCEPT ![o] = M!Object(p, n, double, fd, name', created)]
        /\ pages' = [q \in M!Pages |-> IF q \in p .. p + n - 1 THEN name' ELSE pages[q]]
        /\ unmaps' = unmaps /\ leaked' = leaked
  BY DEF M!Establish, M!Exists
<1>2. /\ name' \in Nat /\ files' \in Nat /\ fds[fd] = NoObject /\ fds' = [fds EXCEPT ![fd] = name']
      /\ name' # NoObject
  BY <1>1, NewFile, MappingAssumption
<1> DEFINE v == M!Object(p, n, double, fd, name', created)
<1>3. p \in Nat /\ n \in {0, 1, 2}
  BY DEF M!Pages
<1>4. /\ v \in MapRecord /\ v.fd = fd /\ v.file = name' /\ v.n = n /\ v.double = double
      /\ ~v.stale /\ ~v.hit /\ M!Region(v) = p .. p + n - 1
  BY <1>2, <1>3, ObjectFacts
<1>5. obj' = [obj EXCEPT ![o] = v]
  BY <1>1
<1>6. n = IF double THEN 2 ELSE 1
  OBVIOUS
<1> HIDE DEF v, n
<1>7. M!Region(v) \subseteq M!Pages /\ \A q \in M!Region(v) : pages[q] = NoObject /\ pages'[q] = name'
  BY <1>1, <1>4 DEF M!FreeRegion
<1>8. Sized(v)
  BY <1>4, <1>6, <1>7 DEF Sized
<1>9. unmaps[o] = NoObject
  BY <1>1 DEF MapGood, DestructorsInOrder, CallsLeft
<1>10. unmaps' = [unmaps EXCEPT ![o] = NoObject]
  BY <1>1, <1>9 DEF MapGood, MapTypeOK
<1>11. CallsLeft(v, NoObject) /\ Held(v, NoObject) = M!Region(v)
  BY <1>4, <1>8, CallsFacts DEF CallsLeft
<1>12. /\ pages' \in [M!Pages -> Nat \cup {NoObject}]
       /\ \A q \in M!Pages \ M!Region(v) : pages'[q] = pages[q]
  BY <1>1, <1>2, <1>4 DEF MapGood, MapTypeOK
<1>13. /\ \A q \in M!Region(v) : pages[q] = NoObject /\ pages'[q] # NoObject
       /\ \A q \in M!Region(v) : pages'[q] = v.file
  BY <1>2, <1>4, <1>7
<1> QED BY <1>1, <1>2, <1>4, <1>5, <1>8, <1>10, <1>11, <1>12, <1>13, NewObject

\* An object whose mapping failed has its file and no page.
LEMMA MapFailsPreserves ==
  ASSUME MapGood, NEW o \in Objects, NEW created \in BOOLEAN, NEW double \in BOOLEAN,
         M!MapFails(o, created, double)
  PROVE  MapGood'
<1>1. PICK fd \in M!Fds :
        /\ obj[o] = NoObject
        /\ IF created THEN M!CreateFile(fd) ELSE M!OpenFile(fd)
        /\ obj' = [obj EXCEPT ![o] = M!Object(0, 0, double, fd, name', created)]
        /\ unmaps' = [unmaps EXCEPT ![o] = M!Calls(obj'[o])]
        /\ pages' = pages /\ leaked' = leaked
  BY DEF M!MapFails, M!Exists
<1>2. name' \in Nat /\ files' \in Nat /\ fds[fd] = NoObject /\ fds' = [fds EXCEPT ![fd] = name']
  BY <1>1, NewFile
<1> DEFINE v == M!Object(0, 0, double, fd, name', created)
<1>3. /\ v \in MapRecord /\ v.fd = fd /\ v.file = name' /\ v.n = 0 /\ ~v.stale /\ ~v.hit
  BY <1>2, MappingAssumption DEF M!Object, MapRecord, M!Fds
<1>4. obj' = [obj EXCEPT ![o] = v] /\ obj'[o] = v
  BY <1>1 DEF MapGood, MapTypeOK
<1> HIDE DEF v
<1>5. M!Region(v) = {} /\ Sized(v)
  BY <1>3, RegionIs DEF Sized
<1> DEFINE u == M!Calls(v)
<1>6. /\ u \in Seq(SUBSET Nat) \cup {NoObject} /\ CallsLeft(v, u) /\ Held(v, u) = M!Region(v)
  BY <1>3, <1>5, CallsFacts
<1>7. unmaps' = [unmaps EXCEPT ![o] = u]
  BY <1>1, <1>4
<1>8. pages' \in [M!Pages -> Nat \cup {NoObject}]
  BY <1>1 DEF MapGood, MapTypeOK
<1> HIDE DEF u
<1> QED BY <1>1, <1>2, <1>3, <1>4, <1>5, <1>6, <1>7, <1>8, NewObject

\* An object whose mapping failed halfway has both pages to give back.
LEMMA RemapFailsPreserves ==
  ASSUME MapGood, NEW o \in Objects, NEW created \in BOOLEAN, M!RemapFails(o, created)
  PROVE  MapGood'
<1>1. PICK fd \in M!Fds, p \in M!Pages, first \in BOOLEAN :
        /\ obj[o] = NoObject /\ M!FreeRegion(p, 2)
        /\ IF created THEN M!CreateFile(fd) ELSE M!OpenFile(fd)
        /\ obj' = [obj EXCEPT ![o] = M!Object(p, 2, TRUE, fd, name', created)]
        /\ unmaps' = [unmaps EXCEPT ![o] = M!Calls(obj'[o])]
        /\ pages' = [pages EXCEPT ![p] = IF first THEN name' ELSE M!Anonymous, ![p + 1] = M!Anonymous]
        /\ leaked' = leaked
  BY DEF M!RemapFails, M!Exists
<1>2. name' \in Nat /\ files' \in Nat /\ fds[fd] = NoObject /\ fds' = [fds EXCEPT ![fd] = name']
  BY <1>1, NewFile
<1> DEFINE v == M!Object(p, 2, TRUE, fd, name', created)
<1>3. p \in Nat
  BY DEF M!Pages
<1>4. /\ v \in MapRecord /\ v.fd = fd /\ v.file = name' /\ v.n = 2 /\ v.double = TRUE
      /\ v.region = p /\ ~v.stale /\ ~v.hit
  BY <1>2, <1>3, MappingAssumption DEF M!Object, MapRecord, M!Fds
<1>5. obj' = [obj EXCEPT ![o] = v] /\ obj'[o] = v
  BY <1>1 DEF MapGood, MapTypeOK
<1> HIDE DEF v
<1>6. M!Region(v) = {p, p + 1} /\ p \in M!Pages /\ p + 1 \in M!Pages
      /\ pages[p] = NoObject /\ pages[p + 1] = NoObject
  BY <1>1, <1>3, <1>4, RegionIs DEF M!FreeRegion
<1>7. Sized(v)
  BY <1>4, <1>6 DEF Sized
<1> DEFINE u == M!Calls(v)
<1>8. /\ u \in Seq(SUBSET Nat) \cup {NoObject} /\ u # NoObject
      /\ CallsLeft(v, u) /\ Held(v, u) = M!Region(v)
  BY <1>4, <1>7, CallsFacts
<1>9. unmaps' = [unmaps EXCEPT ![o] = u]
  BY <1>1, <1>5
<1>10. M!Anonymous \in Nat /\ \A m \in Nat : m # NoObject
  BY MappingAssumption DEF M!Anonymous
<1> HIDE DEF M!Anonymous, u
<1>11. /\ pages' \in [M!Pages -> Nat \cup {NoObject}]
       /\ pages'[p] \in Nat /\ pages'[p + 1] \in Nat
       /\ \A q \in M!Pages \ {p, p + 1} : pages'[q] = pages[q]
  BY <1>1, <1>2, <1>3, <1>6, <1>10 DEF MapGood, MapTypeOK
<1>12. /\ \A q \in M!Region(v) : pages[q] = NoObject /\ pages'[q] # NoObject
       /\ \A q \in M!Pages \ M!Region(v) : pages'[q] = pages[q]
  BY <1>6, <1>10, <1>11
<1>13. \A q \in M!Region(v) : pages[q] = NoObject /\ pages'[q] # NoObject
  BY <1>12
<1>14. fds[v.fd] = NoObject /\ fds' = [fds EXCEPT ![v.fd] = name'] /\ v.fd \in M!Fds
  BY <1>2, <1>4
<1>15. obj[o] = NoObject /\ leaked' = leaked /\ name' \in Nat /\ files' \in Nat
  BY <1>1, <1>2
<1>16. v \in MapRecord /\ v.file = name' /\ ~v.stale /\ ~v.hit /\ obj' = [obj EXCEPT ![o] = v]
  BY <1>4, <1>5
<1>17. pages' \in [M!Pages -> Nat \cup {NoObject}] /\ \A q \in M!Pages \ M!Region(v) : pages'[q] = pages[q]
  BY <1>11, <1>12
<1> QED BY <1>7, <1>8, <1>9, <1>13, <1>14, <1>15, <1>16, <1>17, NewObject

\* The calls that fail leave the objects as they are.
LEMMA FailuresPreserve ==
  ASSUME MapGood, M!CreateFails \/ \E created \in BOOLEAN : M!SizeFails(created)
  PROVE  MapGood'
<1>1. obj' = obj /\ unmaps' = unmaps /\ pages' = pages
  BY DEF M!CreateFails, M!SizeFails
<1>2. /\ files' \in Nat /\ name' \in Nat \cup {NoObject} /\ fds' \in [M!Fds -> Nat \cup {NoObject}]
      /\ \A d \in M!Fds : fds[d] # NoObject => fds'[d] = fds[d]
      /\ \A d \in M!Fds : fds'[d] # NoObject => fds[d] # NoObject \/ <<"fd", d>> \in leaked'
      /\ leaked \subseteq leaked'
  BY MappingAssumption
     DEF M!CreateFails, M!SizeFails, M!CreateFile, M!OpenFile, M!FreeFd, MapGood, MapTypeOK
<1>3. MapTypeOK'
  BY <1>1, <1>2 DEF MapGood, MapTypeOK
<1> DEFINE s == [x \in Objects |-> x]
<1>4. PagesOwned'
  <2>1. s \in [Objects -> Objects] /\ \A x \in Objects : s[x] = x
    OBVIOUS
  <2> HIDE DEF s
  <2> QED BY <1>1, <2>1, PagesFollow
<1>5. FdsOwned'
  <2>1. s \in [Objects -> Objects] /\ \A x \in Objects : s[x] = x
    OBVIOUS
  <2>2. \A x \in Objects : OwnsFd(obj[x]) => fds'[obj[x].fd] = fds[obj[x].fd]
    BY <1>2, FdFacts DEF MapGood, FdsOwned, OwnsFd
  <2> HIDE DEF s
  <2> QED BY <1>1, <2>1, <2>2, FdsFollow
<1>6. M!NothingLeaks'
  BY <1>1, <1>2 DEF MapGood, M!NothingLeaks, M!Exists
<1> QED BY <1>1, <1>3, <1>4, <1>5, <1>6 DEF MapGood, DestructorsInOrder, M!Damaged, M!Exists

\* release() gives up the pages, and its owner's object has none.
LEMMA ReleasePreserves == ASSUME MapGood, NEW o \in Objects, M!Release(o) PROVE MapGood'
<1> DEFINE w == [obj[o] EXCEPT !.region = 0, !.n = 0]
<1>1. /\ obj[o] \in MapRecord /\ unmaps[o] = NoObject /\ obj[o].n > 0
      /\ leaked' = leaked \cup {<<"page", q>> : q \in M!Region(obj[o])}
      /\ unmaps' = unmaps /\ fds' = fds /\ pages' = pages /\ name' = name /\ files' = files
  BY DEF M!Release, M!Live, M!Exists, MapGood, MapTypeOK
<1>2. obj' = [obj EXCEPT ![o] = w]
  BY DEF M!Release, MapGood, MapTypeOK
<1>3. /\ w \in MapRecord /\ w.n = 0 /\ w.fd = obj[o].fd /\ w.file = obj[o].file
      /\ w.stale = obj[o].stale /\ w.hit = obj[o].hit
  BY <1>1 DEF MapRecord
<1> HIDE DEF w
<1>4. obj'[o] = w /\ w # NoObject /\ \A x \in Objects \ {o} : obj'[x] = obj[x]
  BY <1>2, <1>3, RecordIsObject DEF MapGood, MapTypeOK
<1>5. MapTypeOK'
  <2>1. obj' \in [Objects -> MapRecord \cup {NoObject}]
    BY <1>2, <1>3 DEF MapGood, MapTypeOK
  <2>2. \A x \in Objects : obj'[x] # NoObject => Sized(obj'[x])
    BY <1>3, <1>4 DEF MapGood, MapTypeOK, Sized
  <2> QED BY <1>1, <2>1, <2>2 DEF MapGood, MapTypeOK, Sized, M!Region, M!Pages, M!Fds, MapRecord
<1>6. DestructorsInOrder'
  BY <1>1, <1>4 DEF MapGood, DestructorsInOrder, CallsLeft
<1> DEFINE s == [x \in Objects |-> x]
<1>7. s \in [Objects -> Objects] /\ \A x \in Objects : s[x] = x
  OBVIOUS
<1> HIDE DEF s
<1>8. PagesOwned'
  <2>1. Held(w, unmaps[o]) = {}
    BY <1>3 DEF Held
  <2> QED BY <1>1, <1>4, <1>7, <2>1, PagesFollow
<1>9. FdsOwned'
  <2>1. OwnsFd(w) => OwnsFd(obj[o])
    BY <1>1, <1>3, RecordIsObject DEF OwnsFd
  <2> QED BY <1>1, <1>3, <1>4, <1>7, <2>1, FdsFollow
<1>10. M!NothingLeaks'
  <2>1. ASSUME NEW q \in M!Pages, pages'[q] # NoObject
        PROVE  <<"page", q>> \in leaked' \/ \E x \in Objects :
                 obj'[x] # NoObject /\ obj'[x].n > 0 /\ q \in M!Region(obj'[x])
    <3>1. CASE q \in M!Region(obj[o])
      BY <1>1, <3>1
    <3>2. CASE q \notin M!Region(obj[o])
      BY <1>1, <1>4, <2>1, <3>2 DEF MapGood, M!NothingLeaks, M!Exists
    <3> QED BY <3>1, <3>2
  <2>2. ASSUME NEW d \in M!Fds, fds'[d] # NoObject
        PROVE  <<"fd", d>> \in leaked' \/ \E x \in Objects : obj'[x] # NoObject /\ obj'[x].fd = d
    BY <1>1, <1>3, <1>4, <2>2 DEF MapGood, M!NothingLeaks, M!Exists
  <2> QED BY <2>1, <2>2 DEF M!NothingLeaks, M!Exists, M!Region, M!Pages, M!Fds
<1>11. ~M!Damaged'
  BY <1>1, <1>3, <1>4, RecordIsObject DEF MapGood, M!Damaged, M!Exists
<1> QED BY <1>5, <1>6, <1>8, <1>9, <1>10, <1>11 DEF MapGood

\* A destructor begins: its calls will give back exactly the object's pages.
LEMMA DestroyPreserves == ASSUME MapGood, NEW o \in Objects, M!Destroy(o) PROVE MapGood'
<1> DEFINE v == obj[o]
           u == M!Calls(v)
<1>1. /\ v \in MapRecord /\ v # NoObject /\ Sized(v) /\ unmaps[o] = NoObject
      /\ unmaps' = [unmaps EXCEPT ![o] = u]
      /\ obj' = obj /\ fds' = fds /\ pages' = pages /\ name' = name /\ files' = files
      /\ leaked' = leaked
  BY DEF M!Destroy, M!Live, M!Exists, MapGood, MapTypeOK
<1>3. u \in Seq(SUBSET Nat) /\ u # NoObject /\ CallsLeft(v, u) /\ Held(v, u) = Held(v, NoObject)
  <2> HIDE DEF v
  <2> QED BY <1>1, CallsFacts
<1>6. unmaps'[o] = u /\ \A x \in Objects \ {o} : unmaps'[x] = unmaps[x]
  BY <1>1 DEF MapGood, MapTypeOK
<1> HIDE DEF v, u
<1>7. MapTypeOK'
  <2>1. unmaps' \in [Objects -> Seq(SUBSET Nat) \cup {NoObject}]
    BY <1>1, <1>3 DEF MapGood, MapTypeOK
  <2> QED BY <1>1, <2>1 DEF MapGood, MapTypeOK
<1>8. DestructorsInOrder'
  BY <1>1, <1>3, <1>6 DEF MapGood, DestructorsInOrder, v
<1> DEFINE s == [x \in Objects |-> x]
<1>9. s \in [Objects -> Objects] /\ \A x \in Objects : s[x] = x
  OBVIOUS
<1> HIDE DEF s
<1>10. PagesOwned'
  <2>1. \A x \in Objects : Held(obj[x], unmaps'[x]) = Held(obj[x], unmaps[x])
    BY <1>1, <1>3, <1>6 DEF v
  <2>2. \A x \in Objects : unmaps'[x] = NoObject => unmaps[x] = NoObject
    BY <1>1, <1>3, <1>6
  <2> QED BY <1>1, <1>9, <2>1, <2>2, PagesFollow
<1>11. FdsOwned' /\ M!NothingLeaks' /\ ~M!Damaged'
  BY <1>1 DEF MapGood, FdsOwned, M!NothingLeaks, M!Damaged, M!Exists
<1> QED BY <1>7, <1>8, <1>10, <1>11 DEF MapGood

\* Move construction hands everything on.
LEMMA MoveConstructPreserves ==
  ASSUME MapGood, NEW o \in Objects, NEW p \in Objects, M!MoveConstruct(o, p) PROVE MapGood'
<1> DEFINE w == M!Husk(obj[p])
<1>1. /\ obj[p] \in MapRecord /\ obj[p] # NoObject /\ unmaps[p] = NoObject /\ obj[o] = NoObject
      /\ o # p /\ obj' = [obj EXCEPT ![o] = obj[p], ![p] = w]
      /\ unmaps' = unmaps /\ fds' = fds /\ pages' = pages /\ name' = name /\ files' = files
      /\ leaked' = leaked
  BY DEF M!MoveConstruct, M!Live, M!Exists, MapGood, MapTypeOK
<1>2. unmaps[o] = NoObject
  BY <1>1 DEF MapGood, DestructorsInOrder, CallsLeft
<1>3. w \in MapRecord /\ w.n = 0 /\ w.fd = 0 /\ w.hit = FALSE /\ w # NoObject
  <2>1. w \in MapRecord /\ w.n = 0 /\ w.fd = 0 /\ w.hit = FALSE
    BY <1>1, MappingAssumption DEF M!Husk, M!Object, MapRecord
  <2> QED BY <2>1, RecordIsObject
<1> HIDE DEF w
<1>4. obj'[o] = obj[p] /\ obj'[p] = w /\ \A x \in Objects \ {o, p} : obj'[x] = obj[x]
  BY <1>1 DEF MapGood, MapTypeOK
<1>5. MapTypeOK'
  <2>1. obj' \in [Objects -> MapRecord \cup {NoObject}]
    BY <1>1, <1>3 DEF MapGood, MapTypeOK
  <2>2. \A x \in Objects : obj'[x] # NoObject => Sized(obj'[x])
    BY <1>1, <1>3, <1>4 DEF MapGood, MapTypeOK, Sized
  <2> QED BY <1>1, <2>1, <2>2 DEF MapGood, MapTypeOK, Sized, M!Region, M!Pages, M!Fds, MapRecord
<1>6. DestructorsInOrder'
  BY <1>1, <1>2, <1>4 DEF MapGood, DestructorsInOrder, CallsLeft
<1> DEFINE s == [x \in Objects |-> IF x = o THEN p ELSE x]
<1>7. s \in [Objects -> Objects] /\ s[o] = p /\ \A x \in Objects \ {o} : s[x] = x
  OBVIOUS
<1> HIDE DEF s
<1>12. o # p /\ obj[p] # NoObject /\ unmaps[p] = NoObject /\ unmaps' = unmaps
       /\ pages' = pages /\ fds' = fds
  BY <1>1
<1>8. PagesOwned'
  <2>1. Held(w, unmaps[p]) = {}
    BY <1>3 DEF Held
  <2>2. ASSUME NEW x \in Objects, obj'[x] # NoObject
        PROVE  \/ Held(obj'[x], unmaps'[x]) = {}
               \/ /\ obj[s[x]] # NoObject /\ obj'[x].file = obj[s[x]].file
                  /\ unmaps'[x] = NoObject => unmaps[s[x]] = NoObject
                  /\ \A q \in Held(obj'[x], unmaps'[x]) :
                       q \in Held(obj[s[x]], unmaps[s[x]]) /\ pages'[q] = pages[q]
    <3>1. CASE x = o
      BY <1>2, <1>4, <1>7, <1>12, <3>1
    <3>2. CASE x = p
      BY <1>4, <1>12, <2>1, <3>2
    <3>3. CASE x \notin {o, p}
      BY <1>4, <1>7, <1>12, <2>2, <3>3
    <3> QED BY <3>1, <3>2, <3>3
  <2>3. ASSUME NEW x \in Objects, NEW y \in Objects, x # y,
               Held(obj'[x], unmaps'[x]) # {}, Held(obj'[y], unmaps'[y]) # {}
        PROVE  s[x] # s[y]
    <3>1. x # p /\ y # p
      BY <1>4, <1>12, <2>1, <2>3
    <3> QED BY <1>7, <1>12, <2>3, <3>1
  <2> QED BY <1>7, <2>2, <2>3, PagesFollow, ZenonT(30)
<1>9. FdsOwned'
  <2>1. ~OwnsFd(w)
    BY <1>3 DEF OwnsFd
  <2>2. ASSUME NEW x \in Objects, OwnsFd(obj'[x])
        PROVE  /\ OwnsFd(obj[s[x]]) /\ obj'[x].file = obj[s[x]].file /\ obj'[x].fd = obj[s[x]].fd
               /\ fds'[obj'[x].fd] = fds[obj'[x].fd]
    <3>1. x # p
      BY <1>4, <2>1, <2>2
    <3>2. CASE x = o
      BY <1>4, <1>7, <1>12, <2>2, <3>2
    <3>3. CASE x # o
      BY <1>4, <1>7, <1>12, <2>2, <3>1, <3>3
    <3> QED BY <3>2, <3>3
  <2>3. ASSUME NEW x \in Objects, NEW y \in Objects, x # y, OwnsFd(obj'[x]), OwnsFd(obj'[y])
        PROVE  s[x] # s[y]
    <3>1. x # p /\ y # p
      BY <1>4, <2>1, <2>3
    <3> QED BY <1>7, <1>12, <2>3, <3>1
  <2> QED BY <1>7, <2>2, <2>3, FdsFollow
<1>10. M!NothingLeaks'
  <2>1. ASSUME NEW q \in M!Pages, pages'[q] # NoObject
        PROVE  <<"page", q>> \in leaked' \/ \E x \in Objects :
                 obj'[x] # NoObject /\ obj'[x].n > 0 /\ q \in M!Region(obj'[x])
    BY <1>1, <1>4, <2>1, ZenonT(30) DEF MapGood, M!NothingLeaks, M!Exists
  <2>2. ASSUME NEW d \in M!Fds, fds'[d] # NoObject
        PROVE  <<"fd", d>> \in leaked' \/ \E x \in Objects : obj'[x] # NoObject /\ obj'[x].fd = d
    BY <1>1, <1>4, <2>2, ZenonT(30) DEF MapGood, M!NothingLeaks, M!Exists
  <2> QED BY <2>1, <2>2 DEF M!NothingLeaks, M!Exists, M!Region, M!Pages, M!Fds
<1>11. ~M!Damaged'
  BY <1>1, <1>3, <1>4 DEF MapGood, M!Damaged, M!Exists
<1> QED BY <1>5, <1>6, <1>8, <1>9, <1>10, <1>11 DEF MapGood

\* What the second close() of a stale descriptor does to the others: it hits
\* whoever owns the descriptor by now, and nobody else.
LEMMA AfterCloseFacts ==
  ASSUME MapGood, NEW o \in Objects, obj[o] # NoObject
  PROVE  /\ M!AfterClose(o) \in [Objects -> MapRecord \cup {NoObject}]
         /\ M!AfterClose(o)[o] = obj[o]
         /\ \A x \in Objects :
              LET r == M!AfterClose(o)[x]
              IN  /\ r = NoObject <=> obj[x] = NoObject
                  /\ obj[x] # NoObject =>
                       /\ r.region = obj[x].region /\ r.n = obj[x].n /\ r.double = obj[x].double
                       /\ r.fd = obj[x].fd /\ r.file = obj[x].file /\ r.stale = obj[x].stale
                       /\ r.hit = FALSE /\ x # o /\ OwnsFd(obj[x]) => r.fd # obj[o].fd
<1> DEFINE r == M!AfterClose(o)
<1>1. ASSUME NEW x \in Objects
      PROVE  /\ r[x] \in MapRecord \cup {NoObject}
             /\ r[x] = NoObject <=> obj[x] = NoObject
             /\ obj[x] # NoObject =>
                  /\ r[x].region = obj[x].region /\ r[x].n = obj[x].n /\ r[x].double = obj[x].double
                  /\ r[x].fd = obj[x].fd /\ r[x].file = obj[x].file /\ r[x].stale = obj[x].stale
                  /\ r[x].hit = FALSE /\ x # o /\ OwnsFd(obj[x]) => r[x].fd # obj[o].fd
             /\ x = o => r[x] = obj[x]
  <2>1. CASE obj[x] = NoObject
    BY <2>1 DEF M!AfterClose, M!Exists, MapGood, MapTypeOK
  <2>2. CASE obj[x] # NoObject
    <3> DEFINE hits == x # o /\ obj[o].stale /\ obj[x].fd = obj[o].fd /\ ~obj[x].stale
    <3>1. obj[x] \in MapRecord /\ obj[o] \in MapRecord
      BY <2>2 DEF MapGood, MapTypeOK
    <3>2. CASE hits
      <4>1. r[x] = [obj[x] EXCEPT !.hit = TRUE]
        BY <2>2, <3>2 DEF M!AfterClose, M!Exists
      <4>2. /\ r[x] \in MapRecord /\ r[x].region = obj[x].region /\ r[x].n = obj[x].n
            /\ r[x].double = obj[x].double /\ r[x].fd = obj[x].fd /\ r[x].file = obj[x].file
            /\ r[x].stale = obj[x].stale /\ r[x].hit = TRUE
        <5> HIDE DEF r
        <5> QED BY <3>1, <4>1 DEF MapRecord
      <4> HIDE DEF r
      <4> QED BY <2>2, <3>2, <4>2, RecordIsObject
    <3>3. CASE ~hits
      <4>1. r[x] = obj[x]
        BY <2>2, <3>3 DEF M!AfterClose, M!Exists
      <4>2. x # o /\ OwnsFd(obj[x]) => obj[x].fd # obj[o].fd
        <5> SUFFICES ASSUME x # o, OwnsFd(obj[x]), obj[x].fd = obj[o].fd PROVE FALSE
          OBVIOUS
        <5>1. ~obj[o].stale
          BY <3>3 DEF OwnsFd
        <5>2. OwnsFd(obj[o])
          BY <5>1 DEF OwnsFd
        <5> QED BY <5>2 DEF MapGood, FdsOwned
      <4> HIDE DEF r
      <4> QED BY <2>2, <3>1, <4>1, <4>2
    <3> QED BY <3>2, <3>3
  <2> QED BY <2>1, <2>2
<1>2. r \in [Objects -> MapRecord \cup {NoObject}]
  <2>1. r = [x \in Objects |-> r[x]]
    BY DEF M!AfterClose
  <2> HIDE DEF r
  <2> QED BY <1>1, <2>1
<1> HIDE DEF r
<1> QED BY <1>1, <1>2 DEF r

\* Move assignment closes one descriptor and swaps the rest; the object moved
\* from is left with a stale descriptor.
LEMMA MoveAssignPreserves ==
  ASSUME MapGood, NEW o \in Objects, NEW p \in Objects, M!MoveAssign(o, p) PROVE MapInv'
<1> DEFINE r == M!AfterClose(o)
           w == [obj[o] EXCEPT !.stale = obj[o].fd # 0, !.created = FALSE]
<1>1. /\ obj[o] # NoObject /\ obj[p] # NoObject /\ o # p
      /\ unmaps[o] = NoObject /\ unmaps[p] = NoObject
      /\ fds' = M!Closed(obj[o].fd) /\ obj' = [r EXCEPT ![o] = r[p], ![p] = w]
      /\ name' \in {name, NoObject}
      /\ unmaps' = unmaps /\ pages' = pages /\ files' = files /\ leaked' = leaked
  BY DEF M!MoveAssign, M!Live, M!Exists
<1>2. obj[o] \in MapRecord /\ obj[p] \in MapRecord /\ Sized(obj[o]) /\ Sized(obj[p])
  BY <1>1, FdFacts DEF MapGood
<1>3. /\ w \in MapRecord /\ w.region = obj[o].region /\ w.n = obj[o].n /\ w.double = obj[o].double
      /\ w.fd = obj[o].fd /\ w.file = obj[o].file /\ w.stale = (obj[o].fd # 0) /\ w.hit = obj[o].hit
  BY <1>2 DEF MapRecord
<1>4. /\ r \in [Objects -> MapRecord \cup {NoObject}]
      /\ \A x \in Objects :
           /\ r[x] = NoObject <=> obj[x] = NoObject
           /\ obj[x] # NoObject =>
                /\ r[x].region = obj[x].region /\ r[x].n = obj[x].n /\ r[x].double = obj[x].double
                /\ r[x].fd = obj[x].fd /\ r[x].file = obj[x].file /\ r[x].stale = obj[x].stale
                /\ r[x].hit = FALSE /\ x # o /\ OwnsFd(obj[x]) => r[x].fd # obj[o].fd
  BY <1>1, AfterCloseFacts
<1> HIDE DEF r, w
<1>5. obj'[o] = r[p] /\ obj'[p] = w /\ \A x \in Objects \ {o, p} : obj'[x] = r[x]
  BY <1>1, <1>4
<1> DEFINE s == [x \in Objects |-> IF x = o THEN p ELSE IF x = p THEN o ELSE x]
<1>6. /\ s \in [Objects -> Objects] /\ s[o] = p /\ s[p] = o
      /\ \A x \in Objects \ {o, p} : s[x] = x
      /\ \A x, y \in Objects : x # y => s[x] # s[y]
  BY <1>1
<1> HIDE DEF s
\* Every object has the mapping of the one it comes from.
<1>7. ASSUME NEW x \in Objects
      PROVE  /\ obj'[x] = NoObject <=> obj[s[x]] = NoObject
             /\ obj[s[x]] # NoObject =>
                  /\ obj'[x].region = obj[s[x]].region /\ obj'[x].n = obj[s[x]].n
                  /\ obj'[x].double = obj[s[x]].double /\ obj'[x].file = obj[s[x]].file
                  /\ obj'[x].fd = obj[s[x]].fd
             /\ unmaps'[x] = unmaps[s[x]]
  <2>1. CASE x = o
    BY <1>1, <1>4, <1>5, <1>6, <2>1
  <2>2. CASE x = p
    <3>1. w # NoObject
      BY <1>3, RecordIsObject
    <3> QED BY <1>1, <1>3, <1>5, <1>6, <2>2, <3>1
  <2>3. CASE x \notin {o, p}
    BY <1>1, <1>4, <1>5, <1>6, <2>3
  <2> QED BY <2>1, <2>2, <2>3
<1>8. \A x \in Objects : obj[s[x]] # NoObject =>
        M!Region(obj'[x]) = M!Region(obj[s[x]])
  BY <1>7 DEF M!Region
<1>9. MapTypeOK'
  <2>1. obj' \in [Objects -> MapRecord \cup {NoObject}]
    BY <1>1, <1>3, <1>4
  <2>2. \A x \in Objects : obj'[x] # NoObject => Sized(obj'[x])
    BY <1>6, <1>7, <1>8 DEF MapGood, MapTypeOK, Sized
  <2>3. fds' \in [M!Fds -> Nat \cup {NoObject}]
    BY <1>1 DEF M!Closed, MapGood, MapTypeOK
  <2> QED BY <1>1, <2>1, <2>2, <2>3 DEF MapGood, MapTypeOK, Sized, M!Region, M!Pages, M!Fds, MapRecord
<1>10. DestructorsInOrder'
  <2>1. ASSUME NEW x \in Objects PROVE CallsLeft(obj'[x], unmaps'[x])
    <3>1. CallsLeft(obj[s[x]], unmaps[s[x]])
      BY <1>6 DEF MapGood, DestructorsInOrder
    <3> QED BY <1>7, <1>8, <3>1 DEF CallsLeft
  <2> QED BY <2>1 DEF DestructorsInOrder, CallsLeft, M!Region
<1>11. PagesOwned'
  <2>1. \A x \in Objects : obj[s[x]] # NoObject =>
          Held(obj'[x], unmaps'[x]) = Held(obj[s[x]], unmaps[s[x]])
    BY <1>7, <1>8 DEF Held
  <2>2. pages' = pages
    BY <1>1
  <2> QED BY <1>6, <1>7, <2>1, <2>2, PagesFollow
<1>12. ~M!Damaged' => FdsOwned'
  <2> SUFFICES ASSUME ~M!Damaged' PROVE FdsOwned'
    OBVIOUS
  <2>1. ASSUME NEW x \in Objects, OwnsFd(obj'[x])
        PROVE  /\ OwnsFd(obj[s[x]]) /\ obj'[x].fd # obj[o].fd /\ obj'[x].fd \in M!Fds
    <3>1. x # p
      BY <1>3, <1>5, <2>1 DEF OwnsFd
    <3>2. s[x] # o /\ s[x] \in Objects /\ obj'[x] = r[s[x]] /\ obj[s[x]] # NoObject
      <4>1. obj'[x] # NoObject
        BY <2>1 DEF OwnsFd
      <4>2. obj[s[x]] # NoObject
        BY <1>7, <4>1
      <4>3. CASE x = o
        BY <1>1, <1>5, <1>6, <4>2, <4>3
      <4>4. CASE x # o
        BY <1>5, <1>6, <3>1, <4>2, <4>4
      <4> QED BY <4>3, <4>4
    <3>3. OwnsFd(obj[s[x]])
      BY <1>4, <2>1, <3>2 DEF OwnsFd
    <3>4. obj'[x].hit = FALSE
      <4>1. obj'[x] \in MapRecord /\ ~obj'[x].hit
        BY <1>9, <2>1 DEF MapTypeOK, OwnsFd, M!Damaged, M!Exists, MapRecord
      <4> QED BY <4>1 DEF MapRecord
    <3>5. obj'[x].fd # obj[o].fd
      BY <1>4, <3>2, <3>3, <3>4
    <3>6. obj[s[x]].fd \in M!Fds
      BY <3>2, <3>3, FdFacts DEF MapGood, OwnsFd
    <3> QED BY <1>7, <3>2, <3>3, <3>5, <3>6
  <2>2. ASSUME NEW x \in Objects, OwnsFd(obj'[x])
        PROVE  fds'[obj'[x].fd] = fds[obj'[x].fd]
    BY <1>1, <2>1, <2>2 DEF M!Closed
  <2>3. \A x \in Objects : OwnsFd(obj'[x]) =>
          /\ OwnsFd(obj[s[x]]) /\ obj'[x].file = obj[s[x]].file /\ obj'[x].fd = obj[s[x]].fd
          /\ fds'[obj'[x].fd] = fds[obj'[x].fd]
    BY <1>7, <2>1, <2>2 DEF OwnsFd
  <2> QED BY <1>6, <2>3, FdsFollow
<1>13. M!NothingLeaks'
  <2>3. ASSUME NEW y \in Objects PROVE \E x \in Objects : s[x] = y
    <3>1. CASE y = o
      BY <1>6, <3>1
    <3>2. CASE y = p
      BY <1>6, <3>2
    <3>3. CASE y \notin {o, p}
      BY <1>6, <3>3
    <3> QED BY <3>1, <3>2, <3>3
  <2>1. ASSUME NEW q \in M!Pages, pages'[q] # NoObject
        PROVE  <<"page", q>> \in leaked' \/ \E x \in Objects :
                 obj'[x] # NoObject /\ obj'[x].n > 0 /\ q \in M!Region(obj'[x])
    <3> SUFFICES ASSUME <<"page", q>> \notin leaked'
                 PROVE  \E x \in Objects :
                          obj'[x] # NoObject /\ obj'[x].n > 0 /\ q \in M!Region(obj'[x])
      OBVIOUS
    <3>1. PICK y \in Objects : obj[y] # NoObject /\ obj[y].n > 0 /\ q \in M!Region(obj[y])
      BY <1>1, <2>1 DEF MapGood, M!NothingLeaks, M!Exists
    <3>2. PICK x \in Objects : s[x] = y
      BY <2>3
    <3> QED BY <1>7, <1>8, <3>1, <3>2
  <2>2. ASSUME NEW d \in M!Fds, fds'[d] # NoObject
        PROVE  <<"fd", d>> \in leaked' \/ \E x \in Objects : obj'[x] # NoObject /\ obj'[x].fd = d
    <3> SUFFICES ASSUME <<"fd", d>> \notin leaked'
                 PROVE  \E x \in Objects : obj'[x] # NoObject /\ obj'[x].fd = d
      OBVIOUS
    <3>1. PICK y \in Objects : obj[y] # NoObject /\ obj[y].fd = d
      BY <1>1, <2>2 DEF MapGood, M!NothingLeaks, M!Exists, M!Closed
    <3>2. PICK x \in Objects : s[x] = y
      BY <2>3
    <3> QED BY <1>7, <3>1, <3>2
  <2> QED BY <2>1, <2>2 DEF M!NothingLeaks, M!Exists, M!Region, M!Pages, M!Fds
<1> QED BY <1>9, <1>10, <1>11, <1>12, <1>13 DEF MapInv

\* A destructor's munmap: only the last one of a DOUBLE mapping can hit
\* somebody, and then it says so.
LEMMA MunmapPreserves == ASSUME MapGood, NEW o \in Objects, M!Munmap(o) PROVE MapInv'
<1> DEFINE v == obj[o]
           u == unmaps[o]
           r == M!AfterMunmap(o, Head(u))
           w == [v EXCEPT !.n = IF Len(u) = 1 THEN 0 ELSE v.n]
<1>1. /\ v # NoObject /\ u \notin {NoObject, <<>>}
      /\ pages' = [q \in M!Pages |-> IF q \in Head(u) THEN NoObject ELSE pages[q]]
      /\ unmaps' = [unmaps EXCEPT ![o] = Tail(u)]
      /\ fds' = fds /\ name' = name /\ files' = files /\ leaked' = leaked
  BY DEF M!Munmap, M!Exists, MapGood, MapTypeOK
<1>2. v \in MapRecord /\ Sized(v) /\ CallsLeft(v, u) /\ v.hit = FALSE
  <2>1. v \in MapRecord /\ Sized(v) /\ CallsLeft(v, u) /\ ~v.hit
    BY <1>1, FdFacts DEF MapGood, DestructorsInOrder, M!Damaged, M!Exists
  <2> QED BY <2>1 DEF MapRecord
<1>3. /\ w \in MapRecord /\ w.region = v.region /\ w.double = v.double
      /\ w.n = (IF Len(u) = 1 THEN 0 ELSE v.n) /\ w.fd = v.fd /\ w.file = v.file
      /\ w.stale = v.stale /\ w.hit = FALSE
  <2> HIDE DEF v, u
  <2> QED BY <1>2 DEF MapRecord
<1> DEFINE hits(x) == /\ obj[x] # NoObject /\ x # o /\ v.double /\ Len(u) = 1 /\ obj[x].n > 0
                      /\ M!Region(obj[x]) \cap Head(u) # {}
<1>4. /\ r = [x \in Objects |-> IF hits(x) THEN [obj[x] EXCEPT !.hit = TRUE] ELSE obj[x]]
      /\ obj' = [r EXCEPT ![o] = w]
  <2>1. r = [x \in Objects |-> IF hits(x) THEN [obj[x] EXCEPT !.hit = TRUE] ELSE obj[x]]
    BY DEF M!AfterMunmap, M!Exists, M!FreesAgain
  <2>2. r[o] = v
    BY <2>1
  <2>3. obj' = [r EXCEPT ![o].n = IF Len(u) = 1 THEN 0 ELSE @]
    BY DEF M!Munmap
  <2>4. obj' = [r EXCEPT ![o] = [r[o] EXCEPT !.n = IF Len(u) = 1 THEN 0 ELSE r[o].n]]
    <3> HIDE DEF r, u, v
    <3> QED BY <2>3
  <2> QED BY <2>1, <2>2, <2>4
<1>5. /\ v.n > 0 /\ CallsLeft(w, Tail(u)) /\ Tail(u) \in Seq(SUBSET Nat)
      /\ Head(u) \subseteq M!Region(v)
      /\ Held(w, Tail(u)) \subseteq Held(v, u) /\ Held(w, Tail(u)) \cap Head(u) = {}
      /\ ~(v.double /\ Len(u) = 1) => Head(u) \subseteq Held(v, u)
      /\ Len(u) = 1 => Head(u) = M!Region(v)
      /\ Sized(w)
  <2> HIDE DEF v, u, w
  <2> QED BY <1>1, <1>2, <1>3, MunmapCall
<1> HIDE DEF v, u, w
\* The others are as before, but for the hits.
<1>6. ASSUME NEW x \in Objects, x # o
      PROVE  /\ obj'[x] = NoObject <=> obj[x] = NoObject
             /\ obj'[x] \in MapRecord \cup {NoObject} /\ unmaps'[x] = unmaps[x]
             /\ obj[x] # NoObject =>
                  /\ obj'[x].region = obj[x].region /\ obj'[x].n = obj[x].n
                  /\ obj'[x].double = obj[x].double /\ obj'[x].file = obj[x].file
                  /\ obj'[x].fd = obj[x].fd /\ obj'[x].stale = obj[x].stale
                  /\ hits(x) => obj'[x].hit
  <2>1. obj'[x] = IF hits(x) THEN [obj[x] EXCEPT !.hit = TRUE] ELSE obj[x]
    BY <1>4, <1>6
  <2>2. obj[x] \in MapRecord \cup {NoObject} /\ unmaps'[x] = unmaps[x]
    BY <1>1, <1>6 DEF MapGood, MapTypeOK
  <2> HIDE DEF hits
  <2>3. CASE hits(x)
    <3>1. obj[x] \in MapRecord
      BY <2>2, <2>3 DEF hits
    <3>2. /\ obj'[x] \in MapRecord /\ obj'[x].region = obj[x].region /\ obj'[x].n = obj[x].n
          /\ obj'[x].double = obj[x].double /\ obj'[x].file = obj[x].file
          /\ obj'[x].fd = obj[x].fd /\ obj'[x].stale = obj[x].stale /\ obj'[x].hit = TRUE
      BY <2>1, <2>3, <3>1 DEF MapRecord
    <3> QED BY <2>2, <3>1, <3>2, RecordIsObject
  <2>4. CASE ~hits(x)
    BY <2>1, <2>2, <2>4
  <2> QED BY <2>3, <2>4
<1> HIDE DEF r, hits
<1>7. obj'[o] = w /\ w # NoObject /\ unmaps'[o] = Tail(u) /\ unmaps[o] = u /\ obj[o] = v
  BY <1>1, <1>3, <1>4, RecordIsObject DEF MapGood, MapTypeOK, v, u
<1>8. \A x \in Objects \ {o} : obj[x] # NoObject =>
        /\ M!Region(obj'[x]) = M!Region(obj[x])
        /\ Held(obj'[x], unmaps'[x]) = Held(obj[x], unmaps[x])
  BY <1>6 DEF M!Region, Held
<1>9. MapTypeOK'
  <2>1. obj' \in [Objects -> MapRecord \cup {NoObject}]
    <3>1. \A x \in Objects : obj'[x] \in MapRecord \cup {NoObject}
      BY <1>3, <1>6, <1>7
    <3>2. obj' = [x \in Objects |-> obj'[x]]
      BY <1>4
    <3> QED BY <3>1, <3>2
  <2>2. \A x \in Objects : obj'[x] # NoObject => Sized(obj'[x])
    BY <1>5, <1>6, <1>7, <1>8 DEF MapGood, MapTypeOK, Sized
  <2>3. unmaps' \in [Objects -> Seq(SUBSET Nat) \cup {NoObject}]
    BY <1>1, <1>5 DEF MapGood, MapTypeOK
  <2>4. pages' \in [M!Pages -> Nat \cup {NoObject}]
    BY <1>1 DEF MapGood, MapTypeOK
  <2> QED BY <1>1, <2>1, <2>2, <2>3, <2>4 DEF MapGood, MapTypeOK, Sized, M!Region, M!Pages, M!Fds, MapRecord
<1>10. DestructorsInOrder'
  <2>1. ASSUME NEW x \in Objects, x # o PROVE CallsLeft(obj'[x], unmaps'[x])
    <3>1. CallsLeft(obj[x], unmaps[x])
      BY DEF MapGood, DestructorsInOrder
    <3> QED BY <1>6, <1>8, <2>1, <3>1 DEF CallsLeft
  <2>2. \A x \in Objects : CallsLeft(obj'[x], unmaps'[x])
    BY <1>5, <1>7, <2>1
  <2> QED BY <2>2 DEF DestructorsInOrder, CallsLeft, M!Region
<1> DEFINE s == [x \in Objects |-> x]
<1>11. s \in [Objects -> Objects] /\ \A x \in Objects : s[x] = x
  OBVIOUS
<1> HIDE DEF s
<1>12. ~M!Damaged' => PagesOwned'
  <2> SUFFICES ASSUME ~M!Damaged' PROVE PagesOwned'
    OBVIOUS
  <2>1. ASSUME NEW x \in Objects, x # o, obj[x] # NoObject, NEW q \in Held(obj[x], unmaps[x])
        PROVE  q \notin Head(u) /\ q \in M!Pages
    <3>1. obj[x] \in MapRecord /\ Sized(obj[x]) /\ obj[x].n \in {0, 1, 2}
      BY <2>1, FdFacts DEF MapGood, MapRecord
    <3>2. q \in M!Region(obj[x]) /\ obj[x].n > 0 /\ q \in M!Pages
      BY <2>1, <3>1, HeldInRegion DEF Sized
    <3>3. CASE v.double /\ Len(u) = 1
      <4>1. ~hits(x)
        BY <1>6, <2>1 DEF M!Damaged, M!Exists
      <4> QED BY <2>1, <3>2, <3>3, <4>1 DEF hits
    <3>4. CASE ~(v.double /\ Len(u) = 1)
      <4>1. Head(u) \subseteq Held(v, u)
        BY <1>5, <3>4
      <4> QED BY <1>1, <1>7, <2>1, <3>2, <4>1 DEF MapGood, PagesOwned
    <3> QED BY <3>3, <3>4
  <2>2. ASSUME NEW q \in Held(w, Tail(u))
        PROVE  q \in Held(v, u) /\ q \notin Head(u) /\ q \in M!Pages
    <3>1. q \in Held(v, u) /\ q \notin Head(u)
      BY <1>5
    <3> QED BY <1>2, <1>5, <3>1, HeldInRegion DEF Sized
  <2>3. ASSUME NEW x \in Objects, obj'[x] # NoObject
        PROVE  /\ obj[x] # NoObject /\ obj'[x].file = obj[x].file
               /\ unmaps'[x] = NoObject => unmaps[x] = NoObject
               /\ \A q \in Held(obj'[x], unmaps'[x]) :
                    q \in Held(obj[x], unmaps[x]) /\ pages'[q] = pages[q]
    <3>1. CASE x = o
      BY <1>1, <1>3, <1>5, <1>7, <2>2, <3>1, MappingAssumption
    <3>2. CASE x # o
      BY <1>1, <1>6, <1>8, <2>1, <2>3, <3>2
    <3> QED BY <3>1, <3>2
  <2>4. \A x \in Objects : obj'[x] # NoObject =>
          /\ obj[s[x]] # NoObject /\ obj'[x].file = obj[s[x]].file
          /\ unmaps'[x] = NoObject => unmaps[s[x]] = NoObject
          /\ \A q \in Held(obj'[x], unmaps'[x]) :
               q \in Held(obj[s[x]], unmaps[s[x]]) /\ pages'[q] = pages[q]
    BY <1>11, <2>3
  <2>5. \A x, y \in Objects : x # y => s[x] # s[y]
    BY <1>11
  <2> QED BY <1>11, <2>4, <2>5, PagesFollow, ZenonT(30)
<1>13. FdsOwned'
  <2>1. ASSUME NEW x \in Objects, OwnsFd(obj'[x])
        PROVE  OwnsFd(obj[x]) /\ obj'[x].file = obj[x].file /\ obj'[x].fd = obj[x].fd
    <3>1. CASE x = o
      BY <1>1, <1>3, <1>7, <2>1, <3>1 DEF OwnsFd
    <3>2. CASE x # o
      BY <1>6, <2>1, <3>2 DEF OwnsFd
    <3> QED BY <3>1, <3>2
  <2>2. fds' = fds
    BY <1>1
  <2> QED BY <1>11, <2>1, <2>2, FdsFollow
<1>14. M!NothingLeaks'
  <2>1. ASSUME NEW q \in M!Pages, pages'[q] # NoObject
        PROVE  <<"page", q>> \in leaked' \/ \E x \in Objects :
                 obj'[x] # NoObject /\ obj'[x].n > 0 /\ q \in M!Region(obj'[x])
    <3> SUFFICES ASSUME <<"page", q>> \notin leaked'
                 PROVE  \E x \in Objects :
                          obj'[x] # NoObject /\ obj'[x].n > 0 /\ q \in M!Region(obj'[x])
      OBVIOUS
    <3>1. q \notin Head(u) /\ pages[q] # NoObject
      BY <1>1, <2>1
    <3>2. PICK y \in Objects : obj[y] # NoObject /\ obj[y].n > 0 /\ q \in M!Region(obj[y])
      BY <1>1, <3>1 DEF MapGood, M!NothingLeaks, M!Exists
    <3>3. CASE y = o
      <4>1. Len(u) # 1
        BY <1>5, <1>7, <3>1, <3>2, <3>3
      <4>2. w.n = v.n /\ M!Region(w) = M!Region(v)
        BY <1>3, <4>1 DEF M!Region
      <4> QED BY <1>7, <3>2, <3>3, <4>2
    <3>4. CASE y # o
      BY <1>6, <1>8, <3>2, <3>4
    <3> QED BY <3>3, <3>4
  <2>2. ASSUME NEW d \in M!Fds, fds'[d] # NoObject
        PROVE  <<"fd", d>> \in leaked' \/ \E x \in Objects : obj'[x] # NoObject /\ obj'[x].fd = d
    <3> SUFFICES ASSUME <<"fd", d>> \notin leaked'
                 PROVE  \E x \in Objects : obj'[x] # NoObject /\ obj'[x].fd = d
      OBVIOUS
    <3>1. PICK y \in Objects : obj[y] # NoObject /\ obj[y].fd = d
      BY <1>1, <2>2 DEF MapGood, M!NothingLeaks, M!Exists
    <3>2. CASE y = o
      BY <1>3, <1>7, <3>1, <3>2
    <3>3. CASE y # o
      BY <1>6, <3>1, <3>3
    <3> QED BY <3>2, <3>3
  <2> QED BY <2>1, <2>2 DEF M!NothingLeaks, M!Exists, M!Region, M!Pages, M!Fds
<1> QED BY <1>9, <1>10, <1>12, <1>13, <1>14 DEF MapInv

\* A destructor's last call: close() and, for the creator, unlink().
LEMMA CloseFilePreserves == ASSUME MapGood, NEW o \in Objects, M!CloseFile(o) PROVE MapInv'
<1> DEFINE r == M!AfterClose(o)
<1>1. /\ obj[o] # NoObject /\ unmaps[o] = <<>> /\ name' \in {name, NoObject}
      /\ fds' = M!Closed(obj[o].fd) /\ obj' = [r EXCEPT ![o] = NoObject]
      /\ unmaps' = [unmaps EXCEPT ![o] = NoObject]
      /\ pages' = pages /\ files' = files /\ leaked' = leaked
  BY DEF M!CloseFile, M!Exists
<1>2. obj[o].n = 0
  <2>1. CallsLeft(obj[o], <<>>)
    BY <1>1 DEF MapGood, DestructorsInOrder
  <2>2. <<>> # NoObject
    BY MappingAssumption, EmptySeq
  <2>3. \A x, y, z : <<>> # <<x>> /\ <<>> # <<x, y>> /\ <<>> # <<x, y, z>>
    OBVIOUS
  <2> QED BY <2>1, <2>2, <2>3 DEF CallsLeft
<1>3. /\ r \in [Objects -> MapRecord \cup {NoObject}]
      /\ \A x \in Objects :
           /\ r[x] = NoObject <=> obj[x] = NoObject
           /\ obj[x] # NoObject =>
                /\ r[x].region = obj[x].region /\ r[x].n = obj[x].n /\ r[x].double = obj[x].double
                /\ r[x].fd = obj[x].fd /\ r[x].file = obj[x].file /\ r[x].stale = obj[x].stale
                /\ r[x].hit = FALSE /\ x # o /\ OwnsFd(obj[x]) => r[x].fd # obj[o].fd
  BY <1>1, AfterCloseFacts
<1> HIDE DEF r
<1>4. /\ obj'[o] = NoObject /\ unmaps'[o] = NoObject
      /\ \A x \in Objects \ {o} : obj'[x] = r[x] /\ unmaps'[x] = unmaps[x]
  BY <1>1, <1>3 DEF MapGood, MapTypeOK
<1>5. \A x \in Objects \ {o} : obj[x] # NoObject =>
        /\ M!Region(obj'[x]) = M!Region(obj[x])
        /\ Held(obj'[x], unmaps'[x]) = Held(obj[x], unmaps[x])
  <2> SUFFICES ASSUME NEW x \in Objects \ {o}, obj[x] # NoObject
               PROVE  /\ M!Region(obj'[x]) = M!Region(obj[x])
                      /\ Held(obj'[x], unmaps'[x]) = Held(obj[x], unmaps[x])
    OBVIOUS
  <2>1. /\ obj'[x].region = obj[x].region /\ obj'[x].n = obj[x].n
        /\ obj'[x].double = obj[x].double /\ unmaps'[x] = unmaps[x]
    BY <1>3, <1>4
  <2> QED BY <2>1 DEF M!Region, Held
<1>6. MapTypeOK'
  <2>1. obj' \in [Objects -> MapRecord \cup {NoObject}]
    BY <1>1, <1>3
  <2>2. \A x \in Objects : obj'[x] # NoObject => Sized(obj'[x])
    BY <1>3, <1>4, <1>5 DEF MapGood, MapTypeOK, Sized
  <2>3. fds' \in [M!Fds -> Nat \cup {NoObject}]
    BY <1>1 DEF M!Closed, MapGood, MapTypeOK
  <2>4. unmaps' \in [Objects -> Seq(SUBSET Nat) \cup {NoObject}]
    BY <1>1 DEF MapGood, MapTypeOK
  <2> QED BY <1>1, <2>1, <2>2, <2>3, <2>4
          DEF MapGood, MapTypeOK, Sized, M!Region, M!Pages, M!Fds, MapRecord
<1>7. DestructorsInOrder'
  <2>1. ASSUME NEW x \in Objects, x # o PROVE CallsLeft(obj'[x], unmaps'[x])
    <3>1. CallsLeft(obj[x], unmaps[x])
      BY DEF MapGood, DestructorsInOrder
    <3> QED BY <1>3, <1>4, <1>5, <2>1, <3>1 DEF CallsLeft
  <2>2. CallsLeft(obj'[o], unmaps'[o])
    BY <1>4 DEF CallsLeft
  <2>3. \A x \in Objects : CallsLeft(obj'[x], unmaps'[x])
    BY <2>1, <2>2
  <2> QED BY <2>3 DEF DestructorsInOrder, CallsLeft, M!Region
<1> DEFINE s == [x \in Objects |-> x]
<1>8. s \in [Objects -> Objects] /\ \A x \in Objects : s[x] = x
  OBVIOUS
<1> HIDE DEF s
<1>9. \A x, y \in Objects : x # y => s[x] # s[y]
  BY <1>8
<1>10. PagesOwned'
  <2>1. \A x \in Objects : obj'[x] # NoObject =>
          /\ obj[s[x]] # NoObject /\ obj'[x].file = obj[s[x]].file
          /\ unmaps'[x] = NoObject => unmaps[s[x]] = NoObject
          /\ \A q \in Held(obj'[x], unmaps'[x]) :
               q \in Held(obj[s[x]], unmaps[s[x]]) /\ pages'[q] = pages[q]
    BY <1>1, <1>3, <1>4, <1>5, <1>8
  <2> QED BY <1>8, <1>9, <2>1, PagesFollow, ZenonT(30)
<1>11. ~M!Damaged' => FdsOwned'
  <2> SUFFICES ASSUME ~M!Damaged' PROVE FdsOwned'
    OBVIOUS
  <2>1. ASSUME NEW x \in Objects, OwnsFd(obj'[x])
        PROVE  /\ OwnsFd(obj[x]) /\ obj'[x].file = obj[x].file /\ obj'[x].fd = obj[x].fd
               /\ fds'[obj'[x].fd] = fds[obj'[x].fd]
    <3>1. x # o /\ obj'[x] = r[x] /\ obj[x] # NoObject
      BY <1>3, <1>4, <2>1 DEF OwnsFd
    <3>2. OwnsFd(obj[x]) /\ obj'[x].file = obj[x].file /\ obj'[x].fd = obj[x].fd
      BY <1>3, <2>1, <3>1 DEF OwnsFd
    <3>3. obj'[x].hit = FALSE
      <4>1. obj'[x] \in MapRecord /\ ~obj'[x].hit
        BY <1>6, <2>1 DEF MapTypeOK, OwnsFd, M!Damaged, M!Exists, MapRecord
      <4> QED BY <4>1 DEF MapRecord
    <3>4. obj'[x].fd # obj[o].fd
      BY <1>3, <3>1, <3>2, <3>3
    <3>5. obj'[x].fd \in M!Fds
      BY <3>1, <3>2, FdFacts DEF MapGood, OwnsFd
    <3>6. fds'[obj'[x].fd] = fds[obj'[x].fd]
      BY <1>1, <3>4, <3>5 DEF M!Closed
    <3> QED BY <3>2, <3>6
  <2>2. \A x \in Objects : OwnsFd(obj'[x]) =>
          /\ OwnsFd(obj[s[x]]) /\ obj'[x].file = obj[s[x]].file /\ obj'[x].fd = obj[s[x]].fd
          /\ fds'[obj'[x].fd] = fds[obj'[x].fd]
    BY <1>8, <2>1
  <2> QED BY <1>8, <1>9, <2>2, FdsFollow
<1>12. M!NothingLeaks'
  <2>1. ASSUME NEW q \in M!Pages, pages'[q] # NoObject
        PROVE  <<"page", q>> \in leaked' \/ \E x \in Objects :
                 obj'[x] # NoObject /\ obj'[x].n > 0 /\ q \in M!Region(obj'[x])
    <3> SUFFICES ASSUME <<"page", q>> \notin leaked'
                 PROVE  \E x \in Objects :
                          obj'[x] # NoObject /\ obj'[x].n > 0 /\ q \in M!Region(obj'[x])
      OBVIOUS
    <3>1. PICK y \in Objects : obj[y] # NoObject /\ obj[y].n > 0 /\ q \in M!Region(obj[y])
      BY <1>1, <2>1 DEF MapGood, M!NothingLeaks, M!Exists
    <3>2. y # o
      BY <1>2, <3>1
    <3> QED BY <1>3, <1>4, <1>5, <3>1, <3>2
  <2>2. ASSUME NEW d \in M!Fds, fds'[d] # NoObject
        PROVE  <<"fd", d>> \in leaked' \/ \E x \in Objects : obj'[x] # NoObject /\ obj'[x].fd = d
    <3> SUFFICES ASSUME <<"fd", d>> \notin leaked'
                 PROVE  \E x \in Objects : obj'[x] # NoObject /\ obj'[x].fd = d
      OBVIOUS
    <3>1. d # obj[o].fd /\ fds[d] # NoObject
      BY <1>1, <2>2 DEF M!Closed
    <3>2. PICK y \in Objects : obj[y] # NoObject /\ obj[y].fd = d
      BY <1>1, <3>1 DEF MapGood, M!NothingLeaks, M!Exists
    <3>3. y # o
      BY <3>1, <3>2
    <3> QED BY <1>3, <1>4, <3>2, <3>3
  <2> QED BY <2>1, <2>2 DEF M!NothingLeaks, M!Exists, M!Region, M!Pages, M!Fds
<1> QED BY <1>6, <1>7, <1>10, <1>11, <1>12 DEF MapInv

-----------------------------------------------------------------------------

\* Mappings and descriptors: every object that has not been hit has its pages
\* and its descriptor to itself, and nothing is left without an owner.
THEOREM MapInvariance == M!Spec => []MapInv
<1>1. M!Init => MapInv
  <2> SUFFICES ASSUME M!Init PROVE MapInv
    OBVIOUS
  <2>1. MapTypeOK /\ DestructorsInOrder /\ M!NothingLeaks
    BY DEF M!Init, MapTypeOK, DestructorsInOrder, CallsLeft, M!NothingLeaks
  <2>2. PagesOwned /\ FdsOwned
    BY DEF M!Init, PagesOwned, FdsOwned, OwnsFd
  <2> QED BY <2>1, <2>2 DEF MapInv
<1>2. ASSUME MapInv, [M!Next]_M!vars PROVE MapInv'
  <2>1. CASE UNCHANGED M!vars
    BY <1>2, <2>1 DEF M!vars, MapInv, MapTypeOK, DestructorsInOrder, PagesOwned, FdsOwned,
       M!NothingLeaks, M!Damaged, M!Exists
  <2>2. CASE M!Next
    <3>1. MapGood
      BY <1>2, <2>2 DEF M!Next, MapInv, MapGood
    <3>2. CASE M!CreateFails \/ \E created \in BOOLEAN : M!SizeFails(created)
      BY <3>1, <3>2, FailuresPreserve DEF MapGood, MapInv
    <3>3. ASSUME NEW o \in Objects, NEW created \in BOOLEAN, NEW double \in BOOLEAN,
                 \/ M!Establish(o, created, double) \/ M!MapFails(o, created, double)
                 \/ M!RemapFails(o, created)
          PROVE  MapInv'
      BY <3>1, <3>3, EstablishPreserves, MapFailsPreserves, RemapFailsPreserves DEF MapGood, MapInv
    <3>4. ASSUME NEW o \in Objects,
                 M!Release(o) \/ M!Destroy(o) \/ \E p \in Objects : M!MoveConstruct(o, p)
          PROVE  MapInv'
      BY <3>1, <3>4, ReleasePreserves, DestroyPreserves, MoveConstructPreserves
         DEF MapGood, MapInv
    <3>5. ASSUME NEW o \in Objects,
                 M!Munmap(o) \/ M!CloseFile(o) \/ \E p \in Objects : M!MoveAssign(o, p)
          PROVE  MapInv'
      BY <3>1, <3>5, MunmapPreserves, CloseFilePreserves, MoveAssignPreserves
    <3> QED BY <2>2, <3>2, <3>3, <3>4, <3>5 DEF M!Next
  <2> QED BY <1>2, <2>1, <2>2
<1> QED BY <1>1, <1>2, PTL DEF M!Spec

\* Whatever other objects are moved, released or destroyed, a living object's
\* pages show its file and its descriptor is open on it.
THEOREM MapResourcesOwned == M!Spec => []ResourcesOwned
<1>1. MapInv => ResourcesOwned
  <2> SUFFICES ASSUME MapInv, ~M!Damaged, NEW o \in Objects, M!Live(o)
               PROVE  /\ obj[o].n > 0 => \A q \in M!Region(obj[o]) : pages[q] = obj[o].file
                      /\ obj[o].fd # 0 /\ ~obj[o].stale => fds[obj[o].fd] = obj[o].file
    BY DEF ResourcesOwned, M!ResourcesOwned
  <2>1. obj[o] # NoObject /\ unmaps[o] = NoObject /\ PagesOwned /\ FdsOwned
    BY DEF M!Live, M!Exists, MapInv
  <2>2. obj[o].n > 0 => Held(obj[o], unmaps[o]) = M!Region(obj[o])
    BY <2>1 DEF Held
  <2> QED BY <2>1, <2>2 DEF PagesOwned, FdsOwned, OwnsFd
<1> QED BY <1>1, MapInvariance, PTL

\* Destructors and moves of mapped_memory and shared_memory_file give back what
\* was mapped or opened: every page and descriptor in use belongs to an object,
\* except those that the failure paths recorded in leaked forget.
THEOREM MapNothingLeaks == M!Spec => []NothingLeaks
<1>1. MapInv => NothingLeaks
  BY DEF MapInv, NothingLeaks
<1> QED BY <1>1, MapInvariance, PTL

-----------------------------------------------------------------------------
(* The fixed-size string                                                   *)

\* What a place of a string's array can hold, and the values of strings.
Letter == Chars \cup {S!Nul}
StringRecord == [size : Nat, data : [0 .. TextSize -> Letter]]

\* The string v holds the text r, unless r is unspecified, and its terminator.
StringHolds(v, r) ==
  /\ v \in StringRecord /\ r \in Seq(Letter) /\ v.size <= TextSize
  /\ r # S!Unknown =>
       /\ Len(r) = v.size /\ \A i \in 1 .. v.size : v.data[i - 1] = r[i]
       /\ v.data[v.size] = S!Nul

StringsGood ==
  /\ str \in [S!Strings -> StringRecord] /\ strRef \in [S!Strings -> Seq(Letter)]
  /\ \A a \in S!Strings : StringHolds(str[a], strRef[a])

StringInv == ~strDeviated /\ ~strOverrun => StringsGood

-----------------------------------------------------------------------------

\* What the arguments of calls are.
LEMMA TextArgs ==
  /\ \A s \in S!Args : s \in Seq(Letter) /\ Len(s) \in Nat
  /\ \A s \in [1 .. TextSize + 1 -> Chars] : s \in Seq(Letter) /\ Len(s) \in Nat
  /\ S!Empty \in StringRecord /\ S!Empty.size = 0
  /\ S!Nul \in Letter /\ <<>> \in Seq(Letter) /\ S!Unknown \in Seq(Letter)
<1>1. \A k \in Nat : \A s \in [1 .. k -> Chars] : s \in Seq(Letter) /\ Len(s) \in Nat
  BY DEF Letter
<1>2. \A s \in S!Args : \E k \in Nat : s \in [1 .. k -> Chars]
  BY TextAssumption DEF S!Args
<1>3. S!Empty \in StringRecord /\ S!Empty.size = 0
  BY DEF S!Empty, StringRecord, Letter, S!Nul
<1> QED BY <1>1, <1>2, <1>3, TextAssumption DEF Letter, S!Unknown

\* Writing changes the places the characters come to, and nothing else.
LEMMA WriteIs ==
  ASSUME NEW v \in StringRecord, NEW i \in Nat, NEW s \in Seq(Letter)
  PROVE  /\ S!Write(v, i, s) \in StringRecord /\ S!Write(v, i, s).size = v.size
         /\ \A d \in 0 .. TextSize :
              S!Write(v, i, s).data[d] =
                IF i <= d /\ d < i + Len(s) THEN s[d - i + 1] ELSE v.data[d]
<1> DEFINE D == [d \in 0 .. TextSize |->
                   IF d - i + 1 \in 1 .. Len(s) THEN s[d - i + 1] ELSE v.data[d]]
<1>1. S!Write(v, i, s) = [v EXCEPT !.data = D]
  BY DEF S!Write
<1>2. Len(s) \in Nat /\ \A k \in 1 .. Len(s) : s[k] \in Letter
  BY ElementOfSeq
<1>3. D \in [0 .. TextSize -> Letter]
  BY <1>2 DEF StringRecord
<1>4. \A d \in 0 .. TextSize :
        D[d] = IF i <= d /\ d < i + Len(s) THEN s[d - i + 1] ELSE v.data[d]
  BY <1>2, TextAssumption
<1> HIDE DEF D
<1> QED BY <1>1, <1>3, <1>4 DEF StringRecord

\* Setting the size leaves the characters.
LEMMA SizeSet ==
  ASSUME NEW v \in StringRecord, NEW n \in Nat
  PROVE  /\ [v EXCEPT !.size = n] \in StringRecord
         /\ [v EXCEPT !.size = n].size = n /\ [v EXCEPT !.size = n].data = v.data
  BY DEF StringRecord

\* Text written with its terminator behind the first i characters.
LEMMA TerminatedIs ==
  ASSUME NEW v \in StringRecord, NEW i \in Nat, NEW s \in Seq(Letter)
  PROVE  /\ S!Terminated(v, i, s) \in StringRecord
         /\ S!Terminated(v, i, s).size = i + Len(s)
         /\ \A d \in 0 .. TextSize :
              S!Terminated(v, i, s).data[d] =
                IF i <= d /\ d < i + Len(s) THEN s[d - i + 1]
                ELSE IF d = i + Len(s) THEN S!Nul ELSE v.data[d]
<1> DEFINE t == Append(s, S!Nul)
           w == S!Write(v, i, t)
<1>1. /\ t \in Seq(Letter) /\ Len(t) = Len(s) + 1 /\ Len(s) \in Nat
      /\ \A k \in 1 .. Len(s) : t[k] = s[k]
      /\ t[Len(s) + 1] = S!Nul
  BY TextArgs, AppendProperties
<1>2. S!Terminated(v, i, s) = [w EXCEPT !.size = i + Len(s)]
  BY DEF S!Terminated
<1>3. /\ w \in StringRecord
      /\ \A d \in 0 .. TextSize :
           w.data[d] = IF i <= d /\ d < i + Len(t) THEN t[d - i + 1] ELSE v.data[d]
  BY <1>1, WriteIs
<1> HIDE DEF t, w
<1>4. i + Len(s) \in Nat
  BY <1>1
<1>5. \A d \in 0 .. TextSize :
        w.data[d] = IF i <= d /\ d < i + Len(s) THEN s[d - i + 1]
                    ELSE IF d = i + Len(s) THEN S!Nul ELSE v.data[d]
  <2> SUFFICES ASSUME NEW d \in 0 .. TextSize
               PROVE w.data[d] = IF i <= d /\ d < i + Len(s) THEN s[d - i + 1]
                                 ELSE IF d = i + Len(s) THEN S!Nul ELSE v.data[d]
    OBVIOUS
  <2>1. CASE i <= d /\ d < i + Len(s)
    BY <1>1, <1>3, <2>1
  <2>2. CASE d = i + Len(s)
    BY <1>1, <1>3, <2>2
  <2>3. CASE d < i \/ d > i + Len(s)
    BY <1>1, <1>3, <2>3
  <2> QED BY <1>1, <2>1, <2>2, <2>3
<1> QED BY <1>2, <1>3, <1>4, <1>5, SizeSet

\* The characters of the array from one place to another.
LEMMA ChunkIs ==
  ASSUME NEW v \in StringRecord, NEW from \in Nat, NEW to \in Int,
         from <= to + 1, to <= TextSize
  PROVE  /\ S!Chunk(v, from, to) \in Seq(Letter) /\ Len(S!Chunk(v, from, to)) = to - from + 1
         /\ \A k \in 1 .. to - from + 1 : S!Chunk(v, from, to)[k] = v.data[from + k - 1]
<1>1. to - from + 1 \in Nat
  OBVIOUS
<1>2. \A k \in 1 .. to - from + 1 : v.data[from + k - 1] \in Letter
  BY TextAssumption DEF StringRecord
<1>3. S!Chunk(v, from, to) \in [1 .. to - from + 1 -> Letter]
  BY <1>2 DEF S!Chunk
<1> QED BY <1>1, <1>3, SMTT(30) DEF S!Chunk

\* A call that replaces one of the strings by one that holds its text.
LEMMA StringResult ==
  ASSUME StringsGood, NEW a \in S!Strings, NEW v, NEW r,
         str' = [str EXCEPT ![a] = v], strRef' = [strRef EXCEPT ![a] = r],
         ~strDeviated' /\ ~strOverrun' => StringHolds(v, r)
  PROVE  StringInv'
<1> SUFFICES ASSUME StringHolds(v, r) PROVE StringsGood'
  BY DEF StringInv
<1>1. v \in StringRecord /\ r \in Seq(Letter)
  BY DEF StringHolds
<1>2. str' \in [S!Strings -> StringRecord] /\ strRef' \in [S!Strings -> Seq(Letter)]
  BY <1>1 DEF StringsGood
<1>3. \A b \in S!Strings :
        /\ str'[b] = IF b = a THEN v ELSE str[b]
        /\ strRef'[b] = IF b = a THEN r ELSE strRef[b]
  BY DEF StringsGood
<1>4. \A b \in S!Strings : StringHolds(str'[b], strRef'[b])
  BY <1>3 DEF StringsGood
<1> QED BY <1>2, <1>4 DEF StringsGood

\* The string written from the front holds the text.
LEMMA FrontHolds ==
  ASSUME NEW v \in StringRecord, NEW s \in Seq(Letter), Len(s) <= TextSize
  PROVE  StringHolds(S!Terminated(v, 0, s), s)
<1> DEFINE w == S!Terminated(v, 0, s)
<1>1. /\ w \in StringRecord /\ w.size = 0 + Len(s) /\ Len(s) \in Nat
      /\ \A d \in 0 .. TextSize :
           w.data[d] = IF 0 <= d /\ d < 0 + Len(s) THEN s[d - 0 + 1]
                       ELSE IF d = 0 + Len(s) THEN S!Nul ELSE v.data[d]
  BY TerminatedIs, LenProperties, 0 \in Nat
<1> HIDE DEF w
<1>2. \A i \in 1 .. w.size : w.data[i - 1] = s[i]
  BY <1>1, TextAssumption
<1>3. w.data[w.size] = S!Nul
  BY <1>1, TextAssumption
<1> QED BY <1>1, <1>2, <1>3 DEF StringHolds, w

\* The string written behind its text holds both texts.
LEMMA AppendHolds ==
  ASSUME NEW v, NEW r, StringHolds(v, r), r # S!Unknown,
         NEW s \in Seq(Letter), v.size + Len(s) <= TextSize
  PROVE  StringHolds(S!Terminated(v, v.size, s), r \o s)
<1> DEFINE w == S!Terminated(v, v.size, s)
<1>1. /\ v \in StringRecord /\ r \in Seq(Letter) /\ v.size \in Nat /\ Len(r) = v.size
      /\ \A i \in 1 .. v.size : v.data[i - 1] = r[i]
  BY DEF StringHolds, StringRecord
<1>2. /\ w \in StringRecord /\ w.size = v.size + Len(s) /\ Len(s) \in Nat
      /\ \A d \in 0 .. TextSize :
           w.data[d] = IF v.size <= d /\ d < v.size + Len(s) THEN s[d - v.size + 1]
                       ELSE IF d = v.size + Len(s) THEN S!Nul ELSE v.data[d]
  BY <1>1, TerminatedIs, LenProperties
<1> HIDE DEF w
<1>3. /\ r \o s \in Seq(Letter) /\ Len(r \o s) = Len(r) + Len(s)
      /\ \A i \in 1 .. Len(r) + Len(s) :
           (r \o s)[i] = IF i <= Len(r) THEN r[i] ELSE s[i - Len(r)]
  BY <1>1, ConcatProperties
<1>4. \A i \in 1 .. w.size : w.data[i - 1] = (r \o s)[i]
  <2> SUFFICES ASSUME NEW i \in 1 .. w.size PROVE w.data[i - 1] = (r \o s)[i]
    OBVIOUS
  <2>1. i - 1 \in 0 .. TextSize
    BY <1>1, <1>2, TextAssumption
  <2>2. CASE i <= v.size
    BY <1>1, <1>2, <1>3, <2>1, <2>2
  <2>3. CASE i > v.size
    <3>1. v.size <= i - 1 /\ i - 1 < v.size + Len(s) /\ (i - 1) - v.size + 1 = i - Len(r)
      BY <1>1, <1>2, <2>3
    <3> QED BY <1>1, <1>2, <1>3, <2>1, <2>3, <3>1, SMTT(30)
  <2>4. i \in Int
    BY <1>1, <1>2
  <2>5. i <= v.size \/ i > v.size
    BY <1>1, <2>4
  <2> QED BY <2>2, <2>3, <2>5
<1>5. w.data[w.size] = S!Nul
  BY <1>1, <1>2, TextAssumption
<1> QED BY <1>1, <1>2, <1>3, <1>4, <1>5 DEF StringHolds, w

\* Text() reads what the string holds.
LEMMA TextIs ==
  ASSUME NEW v, NEW r, StringHolds(v, r), r # S!Unknown
  PROVE  S!Text(v) = r
<1>1. /\ r \in Seq(Letter) /\ Len(r) = v.size /\ v.size \in Nat
      /\ \A i \in 1 .. v.size : v.data[i - 1] = r[i]
  BY DEF StringHolds, StringRecord
<1>2. r \in [1 .. v.size -> Letter]
  BY <1>1, LenProperties
<1>3. S!Text(v) = [i \in 1 .. v.size |-> r[i]]
  BY <1>1 DEF S!Text
<1> QED BY <1>2, <1>3

\* Parts of a text are texts.
LEMMA PartOfText ==
  ASSUME NEW r \in Seq(Letter), NEW m \in 1 .. Len(r) + 1, NEW n \in m - 1 .. Len(r)
  PROVE  /\ SubSeq(r, m, n) \in Seq(Letter) /\ Len(SubSeq(r, m, n)) = n - m + 1
         /\ \A i \in 1 .. n - m + 1 : SubSeq(r, m, n)[i] = r[m + i - 1]
<1>1. Len(r) \in Nat /\ m \in Int /\ n \in Int /\ \A i \in m .. n : r[i] \in Letter
  BY LenProperties, ElementOfSeq
<1>2. /\ SubSeq(r, m, n) \in Seq(Letter)
      /\ Len(SubSeq(r, m, n)) = IF m <= n THEN n - m + 1 ELSE 0
      /\ \A i \in 1 .. n - m + 1 : SubSeq(r, m, n)[i] = r[m + i - 1]
  BY <1>1, SubSeqProperties
<1>3. m <= n \/ n = m - 1
  BY <1>1
<1> QED BY <1>1, <1>2, <1>3

\* The array copied with its terminator, and the size.
LEMMA CopyHolds ==
  ASSUME NEW v \in StringRecord, NEW w, NEW r, StringHolds(w, r), r # S!Unknown
  PROVE  StringHolds([S!Write(v, 0, S!Chunk(w, 0, w.size)) EXCEPT !.size = w.size], r)
<1> DEFINE c == S!Chunk(w, 0, w.size)
           u == S!Write(v, 0, c)
           z == [u EXCEPT !.size = w.size]
<1>1. /\ w \in StringRecord /\ r \in Seq(Letter) /\ w.size \in Nat /\ w.size <= TextSize
      /\ Len(r) = w.size /\ w.data[w.size] = S!Nul
      /\ \A i \in 1 .. w.size : w.data[i - 1] = r[i]
  BY DEF StringHolds, StringRecord
<1>2. /\ c \in Seq(Letter) /\ Len(c) = w.size - 0 + 1
      /\ \A k \in 1 .. w.size - 0 + 1 : c[k] = w.data[0 + k - 1]
  <2>1. 0 \in Nat /\ w.size \in Int /\ 0 <= w.size + 1
    BY <1>1
  <2> QED BY <1>1, <2>1, ChunkIs
<1> HIDE DEF c
<1>3. /\ u \in StringRecord
      /\ \A d \in 0 .. TextSize :
           u.data[d] = IF 0 <= d /\ d < 0 + Len(c) THEN c[d - 0 + 1] ELSE v.data[d]
  BY <1>2, WriteIs, 0 \in Nat
<1> HIDE DEF u
<1>4. z \in StringRecord /\ z.size = w.size /\ z.data = u.data
  BY <1>1, <1>3, SizeSet
<1> HIDE DEF z
<1>5. \A d \in 0 .. w.size : z.data[d] = w.data[d]
  <2> SUFFICES ASSUME NEW d \in 0 .. w.size PROVE u.data[d] = w.data[d]
    BY <1>4
  <2>1. /\ d \in 0 .. TextSize /\ 0 <= d /\ d < 0 + (w.size - 0 + 1)
        /\ d - 0 + 1 \in 1 .. w.size - 0 + 1 /\ 0 + (d - 0 + 1) - 1 = d
    BY <1>1, TextAssumption
  <2> QED BY <1>2, <1>3, <2>1
<1>6. \A i \in 1 .. z.size : z.data[i - 1] = r[i]
  BY <1>1, <1>4, <1>5
<1>7. StringHolds(z, r)
  BY <1>1, <1>4, <1>5, <1>6 DEF StringHolds
<1> QED BY <1>7 DEF z, u, c

\* Text inserted at a place, the rest moved behind it with its terminator.
LEMMA InsertHolds ==
  ASSUME NEW v, NEW r, StringHolds(v, r), r # S!Unknown,
         NEW i \in 0 .. v.size, NEW s \in Seq(Letter), v.size + Len(s) <= TextSize
  PROVE  StringHolds([S!Write(S!Write(v, i + Len(s), S!Chunk(v, i, v.size)), i, s)
                        EXCEPT !.size = @ + Len(s)],
                     S!Opened(r, i, s))
<1> DEFINE c == S!Chunk(v, i, v.size)
           u == S!Write(v, i + Len(s), c)
           w == S!Write(u, i, s)
           z == [w EXCEPT !.size = v.size + Len(s)]
           before == SubSeq(r, 1, i)
           behind == SubSeq(r, i + 1, Len(r))
           o == S!Opened(r, i, s)
<1>1. /\ v \in StringRecord /\ r \in Seq(Letter) /\ v.size \in Nat /\ v.size <= TextSize
      /\ Len(r) = v.size /\ v.data[v.size] = S!Nul
      /\ \A k \in 1 .. v.size : v.data[k - 1] = r[k]
  BY DEF StringHolds, StringRecord
<1>2. i \in Nat /\ i \in Int /\ i <= v.size /\ Len(s) \in Nat
  BY <1>1, LenProperties
<1>3. /\ c \in Seq(Letter) /\ Len(c) = v.size - i + 1
      /\ \A k \in 1 .. v.size - i + 1 : c[k] = v.data[i + k - 1]
  <2>1. v.size \in Int /\ i <= v.size + 1
    BY <1>1, <1>2
  <2> QED BY <1>1, <1>2, <2>1, ChunkIs
<1> HIDE DEF c
<1>4. /\ u \in StringRecord /\ u.size = v.size
      /\ \A d \in 0 .. TextSize :
           u.data[d] = IF i + Len(s) <= d /\ d < i + Len(s) + Len(c)
                       THEN c[d - (i + Len(s)) + 1] ELSE v.data[d]
  BY <1>1, <1>2, <1>3, WriteIs, i + Len(s) \in Nat
<1> HIDE DEF u
<1>5. /\ w \in StringRecord /\ w.size = v.size
      /\ \A d \in 0 .. TextSize :
           w.data[d] = IF i <= d /\ d < i + Len(s) THEN s[d - i + 1] ELSE u.data[d]
  BY <1>2, <1>4, WriteIs
<1> HIDE DEF w
<1>6. z \in StringRecord /\ z.size = v.size + Len(s) /\ z.data = w.data
  BY <1>1, <1>2, <1>5, SizeSet, v.size + Len(s) \in Nat
<1>7. \A d \in 0 .. v.size + Len(s) :
        z.data[d] = IF d < i THEN v.data[d]
                    ELSE IF d < i + Len(s) THEN s[d - i + 1] ELSE v.data[d - Len(s)]
  <2> SUFFICES ASSUME NEW d \in 0 .. v.size + Len(s)
               PROVE z.data[d] = IF d < i THEN v.data[d]
                       ELSE IF d < i + Len(s) THEN s[d - i + 1] ELSE v.data[d - Len(s)]
    OBVIOUS
  <2>1. d \in 0 .. TextSize /\ d \in Int
    BY <1>1, <1>2, TextAssumption
  <2>2. CASE d < i
    BY <1>2, <1>4, <1>5, <1>6, <2>1, <2>2
  <2>3. CASE i <= d /\ d < i + Len(s)
    BY <1>2, <1>5, <1>6, <2>1, <2>3
  <2>4. CASE i + Len(s) <= d
    <3>1. u.data[d] = c[d - (i + Len(s)) + 1]
      BY <1>1, <1>2, <1>3, <1>4, <2>1, <2>4
    <3>2. /\ d - (i + Len(s)) + 1 \in 1 .. v.size - i + 1
          /\ i + (d - (i + Len(s)) + 1) - 1 = d - Len(s)
      BY <1>1, <1>2, <2>1, <2>4, SMTT(30)
    <3>3. u.data[d] = v.data[d - Len(s)]
      BY <1>3, <3>1, <3>2
    <3> QED BY <1>2, <1>5, <1>6, <2>1, <2>4, <3>3
  <2>5. d < i \/ (i <= d /\ d < i + Len(s)) \/ i + Len(s) <= d
    BY <1>2, <2>1
  <2> QED BY <2>2, <2>3, <2>4, <2>5
<1>8. /\ before \in Seq(Letter) /\ Len(before) = i
      /\ \A k \in 1 .. i : before[k] = r[k]
  <2>1. 1 \in 1 .. Len(r) + 1 /\ i \in 1 - 1 .. Len(r)
    BY <1>1, <1>2
  <2>2. /\ before \in Seq(Letter) /\ Len(before) = i - 1 + 1
        /\ \A k \in 1 .. i - 1 + 1 : before[k] = r[1 + k - 1]
    BY <1>1, <2>1, PartOfText
  <2> HIDE DEF before
  <2> QED BY <1>2, <2>2
<1>9. /\ behind \in Seq(Letter) /\ Len(behind) = Len(r) - i
      /\ \A k \in 1 .. Len(r) - i : behind[k] = r[i + k]
  <2>1. i + 1 \in 1 .. Len(r) + 1 /\ Len(r) \in (i + 1) - 1 .. Len(r)
    BY <1>1, <1>2
  <2>2. /\ behind \in Seq(Letter) /\ Len(behind) = Len(r) - (i + 1) + 1
        /\ \A k \in 1 .. Len(r) - (i + 1) + 1 : behind[k] = r[(i + 1) + k - 1]
    BY <1>1, <2>1, PartOfText
  <2> HIDE DEF behind
  <2>3. Len(r) - (i + 1) + 1 = Len(r) - i
    <3>1. Len(r) \in Int /\ i \in Int
      BY <1>1, <1>2
    <3> QED BY ONLY <3>1
  <2>4. \A k \in 1 .. Len(r) - i : (i + 1) + k - 1 = i + k
    BY <1>2
  <2> QED BY <2>2, <2>3, <2>4
<1>10. o = (before \o s) \o behind
  BY DEF S!Opened
<1> HIDE DEF before, behind
<1>11. /\ before \o s \in Seq(Letter) /\ Len(before \o s) = i + Len(s)
       /\ \A k \in 1 .. i + Len(s) : (before \o s)[k] = IF k <= i THEN before[k] ELSE s[k - i]
  BY <1>8, ConcatProperties
<1>12. /\ o \in Seq(Letter) /\ Len(o) = v.size + Len(s)
       /\ \A k \in 1 .. v.size + Len(s) :
            o[k] = IF k <= i + Len(s) THEN (before \o s)[k] ELSE behind[k - (i + Len(s))]
  <2>1. i + Len(s) + (Len(r) - i) = v.size + Len(s)
    BY <1>1, <1>2
  <2> DEFINE f == before \o s
  <2> HIDE DEF f
  <2>2. /\ f \in Seq(Letter) /\ Len(f) = i + Len(s) /\ o = f \o behind
    BY <1>10, <1>11 DEF f
  <2>3. /\ f \o behind \in Seq(Letter) /\ Len(f \o behind) = Len(f) + Len(behind)
        /\ \A k \in 1 .. Len(f) + Len(behind) :
             (f \o behind)[k] = IF k <= Len(f) THEN f[k] ELSE behind[k - Len(f)]
    BY <1>9, <2>2, ConcatProperties
  <2>4. Len(f) + Len(behind) = v.size + Len(s)
    BY <1>9, <2>1, <2>2
  <2> HIDE DEF o
  <2>5. /\ o \in Seq(Letter) /\ Len(o) = v.size + Len(s)
        /\ \A k \in 1 .. v.size + Len(s) :
             o[k] = IF k <= i + Len(s) THEN f[k] ELSE behind[k - (i + Len(s))]
    BY <2>2, <2>3, <2>4
  <2> QED BY <2>5 DEF f
<1> HIDE DEF o
<1>13. \A k \in 1 .. z.size : z.data[k - 1] = o[k]
  <2> SUFFICES ASSUME NEW k \in 1 .. v.size + Len(s) PROVE z.data[k - 1] = o[k]
    BY <1>6
  <2>1. k \in Int /\ k - 1 \in 0 .. v.size + Len(s)
    BY <1>1, <1>2
  <2>2. CASE k <= i
    BY <1>1, <1>2, <1>7, <1>8, <1>11, <1>12, <2>1, <2>2
  <2>3. CASE i < k /\ k <= i + Len(s)
    <3>1. (k - 1) - i + 1 = k - i /\ ~(k - 1 < i) /\ k - 1 < i + Len(s)
      BY <1>2, <2>1, <2>3
    <3>2. z.data[k - 1] = s[k - i]
      BY <1>7, <2>1, <3>1
    <3>3. k \in 1 .. i + Len(s) /\ ~(k <= i)
      BY <1>2, <2>1, <2>3
    <3>4. o[k] = s[k - i]
      BY <1>11, <1>12, <2>3, <3>3
    <3> QED BY <3>2, <3>4
  <2>4. CASE i + Len(s) < k
    <3>1. /\ z.data[k - 1] = v.data[k - 1 - Len(s)] /\ o[k] = behind[k - (i + Len(s))]
      BY <1>2, <1>7, <1>12, <2>1, <2>4
    <3>2. /\ k - (i + Len(s)) \in 1 .. Len(r) - i /\ i + (k - (i + Len(s))) = k - Len(s)
          /\ k - Len(s) \in 1 .. v.size /\ (k - Len(s)) - 1 = k - 1 - Len(s)
      BY <1>1, <1>2, <2>1, <2>4
    <3>3. behind[k - (i + Len(s))] = r[k - Len(s)]
      BY <1>9, <3>2
    <3> QED BY <1>1, <3>1, <3>2, <3>3
  <2>5. k <= i \/ (i < k /\ k <= i + Len(s)) \/ i + Len(s) < k
    BY <1>2, <2>1
  <2> QED BY <2>2, <2>3, <2>4, <2>5
<1>14. z.data[z.size] = S!Nul
  <2>1. v.size + Len(s) \in 0 .. v.size + Len(s) /\ ~(v.size + Len(s) < i)
        /\ ~(v.size + Len(s) < i + Len(s)) /\ v.size + Len(s) - Len(s) = v.size
    BY <1>1, <1>2
  <2> QED BY <1>1, <1>6, <1>7, <2>1
<1>15. [w EXCEPT !.size = @ + Len(s)] = z
  BY <1>5 DEF StringRecord
<1> HIDE DEF z
<1>16. StringHolds(z, o)
  BY <1>6, <1>12, <1>13, <1>14 DEF StringHolds
<1> QED BY <1>15, <1>16 DEF o, w, u, c

-----------------------------------------------------------------------------

LEMMA StringInitHolds == S!Init => StringInv
<1> SUFFICES ASSUME S!Init PROVE \A a \in S!Strings : StringHolds(str[a], strRef[a])
  BY DEF StringInv, StringsGood, S!Init, StringHolds
<1>1. \A a \in S!Strings : str[a] = S!Empty /\ strRef[a] = <<>>
  BY DEF S!Init
<1>2. S!Empty.data[0] = S!Nul
  BY TextAssumption DEF S!Empty
<1>3. StringHolds(S!Empty, <<>>)
  BY <1>2, TextArgs, EmptySeq, TextAssumption DEF StringHolds
<1> QED BY <1>1, <1>3

\* Constructors and assignments from characters.
LEMMA TextStep ==
  ASSUME StringsGood, NEW a \in S!Strings, NEW s \in Seq(Letter),
         S!ConstructText(a, s) \/ S!AssignText(a, s) \/ S!AssignUnchecked(a, s)
           \/ S!AssignRange(a, s)
  PROVE  StringInv'
<1>1. str[a] \in StringRecord /\ S!Empty \in StringRecord /\ Len(s) \in Nat
  BY TextArgs, LenProperties DEF StringsGood
<1>2. ASSUME NEW v \in StringRecord, S!Result(a, S!Terminated(v, 0, s), s, FALSE)
      PROVE  StringInv'
  <2>1. /\ str' = [str EXCEPT ![a] = S!Terminated(v, 0, s)]
        /\ strRef' = [strRef EXCEPT ![a] = s]
        /\ strOverrun' <=> S!Terminated(v, 0, s).size > TextSize
    BY <1>2 DEF S!Result
  <2>2. S!Terminated(v, 0, s).size = 0 + Len(s)
    BY <1>2, TerminatedIs, 0 \in Nat
  <2>3. ~strOverrun' => Len(s) <= TextSize
    BY <1>1, <2>1, <2>2, TextAssumption
  <2>4. ~strDeviated' /\ ~strOverrun' => StringHolds(S!Terminated(v, 0, s), s)
    BY <1>2, <2>3, FrontHolds
  <2> QED BY <2>1, <2>4, StringResult
<1>3. CASE S!ConstructText(a, s)
  BY <1>1, <1>2, <1>3 DEF S!ConstructText
<1>4. CASE S!AssignText(a, s)
  BY <1>1, <1>2, <1>4 DEF S!AssignText
<1>5. CASE S!AssignUnchecked(a, s)
  BY <1>1, <1>2, <1>5 DEF S!AssignUnchecked
<1>6. CASE S!AssignRange(a, s)
  <2>1. CASE s = <<>>
    BY <1>1, <1>2, <1>6, <2>1 DEF S!AssignRange
  <2>2. CASE s # <<>>
    BY <1>6, <2>2 DEF S!AssignRange, StringInv
  <2> QED BY <2>1, <2>2
<1> QED BY <1>3, <1>4, <1>5, <1>6

\* Copies, and parts of the other string.
LEMMA CopyStep ==
  ASSUME StringsGood, NEW a \in S!Strings, NEW b \in S!Strings,
         NEW pos \in 0 .. TextSize, NEW count \in 0 .. TextSize,
         S!Copy(a, b) \/ S!ConstructFrom(a, b, pos) \/ S!ConstructPart(a, b, pos, count)
           \/ S!AssignPart(a, b, pos, count)
  PROVE  StringInv'
<1> DEFINE w == str[b]
           r == strRef[b]
<1>1. /\ str[a] \in StringRecord /\ w \in StringRecord /\ r \in Seq(Letter)
      /\ StringHolds(w, r) /\ w.size \in Nat /\ w.size <= TextSize
      /\ pos \in Nat /\ count \in Nat
  BY DEF StringsGood, StringHolds, StringRecord
<1>2. r # S!Unknown
  BY DEF S!Copy, S!ConstructFrom, S!ConstructPart, S!AssignPart
<1>3. Len(r) = w.size
  BY <1>1, <1>2 DEF StringHolds
<1> HIDE DEF w, r
<1>4. CASE S!Copy(a, b)
  <2> DEFINE z == [S!Write(str[a], 0, S!Chunk(w, 0, w.size)) EXCEPT !.size = w.size]
  <2>1. /\ str' = [str EXCEPT ![a] = z] /\ strRef' = [strRef EXCEPT ![a] = r]
    BY <1>4 DEF S!Copy, S!Result, w, r
  <2>2. StringHolds(z, r)
    BY <1>1, <1>2, CopyHolds
  <2> HIDE DEF z
  <2> QED BY <2>1, <2>2, StringResult
<1>5. CASE S!ConstructFrom(a, b, pos)
  <2> DEFINE z == [S!Empty EXCEPT !.size = w.size]
             part == SubSeq(r, pos + 1, w.size)
  <2>1. /\ str' = [str EXCEPT ![a] = z] /\ strRef' = [strRef EXCEPT ![a] = part]
        /\ strDeviated' <=> w.size > 0
        /\ pos <= w.size
    BY <1>5 DEF S!ConstructFrom, S!Result, w, r
  <2>2. ASSUME w.size = 0 PROVE StringHolds(z, part)
    <3>1. z \in StringRecord /\ z.size = 0 /\ z.data = S!Empty.data
      BY <2>2, TextArgs, SizeSet, 0 \in Nat
    <3>2. part = <<>>
      BY <1>1, <2>2, SubSeqEmpty, pos + 1 \in Int, w.size \in Int, w.size < pos + 1
    <3>3. z.data[0] = S!Nul
      BY <3>1, TextAssumption DEF S!Empty
    <3> HIDE DEF z, part
    <3> QED BY <3>1, <3>2, <3>3, EmptySeq, TextAssumption DEF StringHolds
  <2>3. ~strDeviated' => w.size = 0
    BY <1>1, <2>1
  <2> HIDE DEF z, part
  <2> QED BY <2>1, <2>2, <2>3, StringResult
<1>6. CASE S!ConstructPart(a, b, pos, count)
  <2> DEFINE part == SubSeq(r, pos + 1, pos + count)
             z == S!Terminated(S!Empty, 0, part)
  <2>1. S!Text(w) = r
    BY <1>1, <1>2, TextIs
  <2>2. /\ str' = [str EXCEPT ![a] = z] /\ strRef' = [strRef EXCEPT ![a] = part]
        /\ pos + count <= w.size
    BY <1>6, <2>1 DEF S!ConstructPart, S!Result, w, r
  <2>3. pos + 1 \in 1 .. Len(r) + 1 /\ pos + count \in (pos + 1) - 1 .. Len(r)
    BY <1>1, <1>3, <2>2
  <2>4. part \in Seq(Letter) /\ Len(part) = pos + count - (pos + 1) + 1
    BY <1>1, <2>3, PartOfText
  <2>5. Len(part) <= TextSize
    BY <1>1, <2>2, <2>4, TextAssumption
  <2> HIDE DEF part
  <2>6. StringHolds(z, part)
    BY <2>4, <2>5, TextArgs, FrontHolds
  <2> HIDE DEF z
  <2> QED BY <2>2, <2>6, StringResult
<1>7. CASE S!AssignPart(a, b, pos, count)
  <2> DEFINE part == SubSeq(r, pos + 1, pos + count)
             z == [S!Write(str[a], 0, S!Chunk(w, pos, pos + count)) EXCEPT !.size = w.size]
             copy == [S!Write(str[a], 0, S!Chunk(w, 0, w.size)) EXCEPT !.size = w.size]
  <2>1. /\ str' = [str EXCEPT ![a] = z] /\ strRef' = [strRef EXCEPT ![a] = part]
        /\ strDeviated' <=> count # w.size
        /\ pos <= w.size /\ count <= w.size - pos
    BY <1>7 DEF S!AssignPart, S!Result, w, r
  <2>2. ASSUME count = w.size PROVE StringHolds(z, part)
    <3>1. pos = 0 /\ pos + count = w.size /\ pos + 1 = 1
      BY <1>1, <2>1, <2>2
    <3>2. z = copy /\ part = r
      BY <1>1, <1>3, <3>1, SubSeqFull
    <3>3. StringHolds(copy, r)
      BY <1>1, <1>2, CopyHolds
    <3> HIDE DEF z, copy, part
    <3> QED BY <3>2, <3>3
  <2> HIDE DEF z, copy, part
  <2> QED BY <2>1, <2>2, StringResult
<1> QED BY <1>4, <1>5, <1>6, <1>7

\* Moves: the source's text is unspecified, but its size stays in the array.
LEMMA MoveStep ==
  ASSUME StringsGood, NEW a \in S!Strings, NEW b \in S!Strings, a # b,
         NEW fresh \in BOOLEAN, S!Move(a, b, fresh)
  PROVE  StringInv'
<1> DEFINE v == IF fresh THEN S!Empty ELSE str[a]
           w == str[b]
           z == [S!Write(v, 0, S!Chunk(w, 0, w.size)) EXCEPT !.size = w.size]
           u == [w EXCEPT !.size = v.size]
<1>1. /\ strRef[b] # S!Unknown /\ StringHolds(w, strRef[b])
      /\ str' = [str EXCEPT ![a] = z, ![b].size = v.size]
      /\ strRef' = [strRef EXCEPT ![a] = strRef[b], ![b] = S!Unknown]
  BY DEF S!Move, StringsGood
<1>2. v \in StringRecord /\ v.size \in Nat /\ v.size <= TextSize /\ w \in StringRecord
  BY TextArgs, TextAssumption DEF StringsGood, StringHolds, StringRecord
<1> HIDE DEF v
<1>3. StringHolds(z, strRef[b])
  BY <1>1, <1>2, CopyHolds
<1>4. u \in StringRecord /\ u.size = v.size
  BY <1>2, SizeSet
<1>5. StringHolds(u, S!Unknown)
  BY <1>2, <1>4, TextArgs DEF StringHolds
<1> HIDE DEF z
<1>6. str'[a] = z /\ str'[b] = u /\ strRef'[a] = strRef[b] /\ strRef'[b] = S!Unknown
  BY <1>1 DEF StringsGood
<1>7. \A c \in S!Strings : c = a \/ c = b
  BY DEF S!Strings
<1> HIDE DEF u, w
<1>8. /\ str' = [c \in S!Strings |-> str'[c]] /\ strRef' = [c \in S!Strings |-> strRef'[c]]
  BY <1>1 DEF StringsGood
<1>9. \A c \in S!Strings : StringHolds(str'[c], strRef'[c])
  BY <1>3, <1>5, <1>6, <1>7
<1>10. str' \in [S!Strings -> StringRecord] /\ strRef' \in [S!Strings -> Seq(Letter)]
  BY <1>8, <1>9 DEF StringHolds
<1> QED BY <1>9, <1>10 DEF StringInv, StringsGood

\* Modifiers of a string whose text is known.
LEMMA ModifyStep ==
  ASSUME StringsGood, NEW a \in S!Strings, NEW s \in Seq(Letter), NEW x \in Letter,
         S!Clear(a) \/ (strRef[a] # S!Unknown
                         /\ (S!PopBack(a) \/ S!PushBack(a, x) \/ S!AppendText(a, s)))
  PROVE  StringInv'
<1> DEFINE v == str[a]
           r == strRef[a]
<1>1. /\ v \in StringRecord /\ r \in Seq(Letter) /\ StringHolds(v, r) /\ Len(s) \in Nat
      /\ v.size \in Nat /\ v.size <= TextSize /\ (r # S!Unknown => Len(r) = v.size)
  BY LenProperties DEF StringsGood, StringHolds, StringRecord
<1> HIDE DEF v, r
<1>2. CASE S!Clear(a)
  <2> DEFINE u == S!Write(v, 0, <<S!Nul>>)
             z == [u EXCEPT !.size = 0]
  <2>1. str' = [str EXCEPT ![a] = z] /\ strRef' = [strRef EXCEPT ![a] = <<>>]
    BY <1>2 DEF S!Clear, S!Result, v
  <2>2. <<S!Nul>> \in Seq(Letter) /\ Len(<<S!Nul>>) = 1 /\ <<S!Nul>>[1] = S!Nul
    BY TextArgs
  <2>3. /\ u \in StringRecord
        /\ \A d \in 0 .. TextSize :
             u.data[d] = IF 0 <= d /\ d < 0 + Len(<<S!Nul>>) THEN <<S!Nul>>[d - 0 + 1]
                         ELSE v.data[d]
    BY <1>1, <2>2, WriteIs, 0 \in Nat
  <2>4. u.data[0] = S!Nul
    BY <2>2, <2>3, TextAssumption
  <2> HIDE DEF u
  <2>5. z \in StringRecord /\ z.size = 0 /\ z.data = u.data
    BY <2>3, SizeSet, 0 \in Nat
  <2> HIDE DEF z
  <2>6. StringHolds(z, <<>>)
    BY <2>4, <2>5, EmptySeq, TextAssumption DEF StringHolds
  <2> QED BY <2>1, <2>6, StringResult
<1>3. CASE r # S!Unknown /\ S!PopBack(a)
  <2> DEFINE n == v.size - 1
             part == SubSeq(r, 1, n)
             z == S!Terminated(v, n, <<>>)
  <2>1. n >= 0 /\ str' = [str EXCEPT ![a] = z] /\ strRef' = [strRef EXCEPT ![a] = part]
    BY <1>3 DEF S!PopBack, S!Result, v, r
  <2>2. n \in Nat /\ n + 1 = v.size
    BY <1>1, <2>1
  <2>3. 1 \in 1 .. Len(r) + 1 /\ n \in 1 - 1 .. Len(r)
    BY <1>1, <1>3, <2>2
  <2> HIDE DEF n
  <2>4. /\ part \in Seq(Letter) /\ Len(part) = n - 1 + 1
        /\ \A i \in 1 .. n - 1 + 1 : part[i] = r[1 + i - 1]
    BY <1>1, <2>3, PartOfText
  <2>5. /\ z \in StringRecord /\ z.size = n + Len(<<>>)
        /\ \A d \in 0 .. TextSize :
             z.data[d] = IF n <= d /\ d < n + Len(<<>>) THEN <<>>[d - n + 1]
                         ELSE IF d = n + Len(<<>>) THEN S!Nul ELSE v.data[d]
    BY <1>1, <2>2, TextArgs, TerminatedIs, ZenonT(30)
  <2> HIDE DEF z, part
  <2>6. Len(<<>>) = 0
    OBVIOUS
  <2>7. z.size = n /\ Len(part) = n /\ z.data[n] = S!Nul /\ n <= TextSize
    BY <1>1, <2>2, <2>4, <2>5, <2>6, TextAssumption
  <2>8. ASSUME NEW i \in 1 .. n PROVE z.data[i - 1] = part[i]
    <3>1. /\ i - 1 \in 0 .. TextSize /\ ~(n <= i - 1) /\ i - 1 # n /\ i \in 1 .. v.size
          /\ 1 + i - 1 = i /\ i \in 1 .. n - 1 + 1
      BY <1>1, <2>2, TextAssumption
    <3>2. z.data[i - 1] = v.data[i - 1]
      BY <2>5, <2>6, <3>1, <2>2
    <3>3. v.data[i - 1] = r[i]
      BY <1>1, <1>3, <3>1 DEF StringHolds
    <3> QED BY <2>4, <3>1, <3>2, <3>3
  <2>9. StringHolds(z, part)
    BY <2>4, <2>5, <2>7, <2>8 DEF StringHolds
  <2> QED BY <2>1, <2>9, StringResult
<1>4. ASSUME NEW t \in Seq(Letter), r # S!Unknown,
             str' = [str EXCEPT ![a] = S!Terminated(v, v.size, t)],
             strRef' = [strRef EXCEPT ![a] = r \o t],
             strOverrun' <=> S!Terminated(v, v.size, t).size > TextSize
      PROVE  StringInv'
  <2>1. S!Terminated(v, v.size, t).size = v.size + Len(t) /\ Len(t) \in Nat
    BY <1>1, <1>4, TerminatedIs, LenProperties
  <2>2. ~strOverrun' => v.size + Len(t) <= TextSize
    BY <1>1, <1>4, <2>1, TextAssumption
  <2>3. ~strDeviated' /\ ~strOverrun' => StringHolds(S!Terminated(v, v.size, t), r \o t)
    BY <1>1, <1>4, <2>2, AppendHolds
  <2> QED BY <1>4, <2>3, StringResult
<1>5. CASE r # S!Unknown /\ S!PushBack(a, x)
  <2>1. Append(r, x) = r \o <<x>> /\ <<x>> \in Seq(Letter)
    BY <1>1, AppendIsConcat
  <2>2. /\ str' = [str EXCEPT ![a] = S!Terminated(v, v.size, <<x>>)]
        /\ strRef' = [strRef EXCEPT ![a] = r \o <<x>>]
        /\ strOverrun' <=> S!Terminated(v, v.size, <<x>>).size > TextSize
    BY <1>5, <2>1 DEF S!PushBack, S!Result, v, r
  <2> QED BY <1>4, <1>5, <2>1, <2>2
<1>6. CASE r # S!Unknown /\ S!AppendText(a, s)
  <2>1. /\ str' = [str EXCEPT ![a] = S!Terminated(v, v.size, s)]
        /\ strRef' = [strRef EXCEPT ![a] = r \o s]
        /\ strOverrun' <=> S!Terminated(v, v.size, s).size > TextSize
    BY <1>6 DEF S!AppendText, S!Result, v, r
  <2> QED BY <1>4, <1>6, <2>1
<1> QED BY <1>2, <1>3, <1>5, <1>6 DEF r

\* insert(), of characters and of a part of the other string.
LEMMA InsertStep ==
  ASSUME StringsGood, NEW a \in S!Strings, strRef[a] # S!Unknown, NEW i \in 0 .. str[a].size,
         NEW s \in Seq(Letter), NEW std, S!Insert(a, i, s, std)
  PROVE  StringInv'
<1> DEFINE v == str[a]
           z == [S!Write(S!Write(v, i + Len(s), S!Chunk(v, i, v.size)), i, s)
                   EXCEPT !.size = @ + Len(s)]
           o == S!Opened(strRef[a], i, std)
<1>1. /\ v.size + Len(s) <= TextSize
      /\ str' = [str EXCEPT ![a] = z] /\ strRef' = [strRef EXCEPT ![a] = o]
      /\ strDeviated' <=> s # std
  BY DEF S!Insert, S!Result
<1>2. StringHolds(v, strRef[a])
  BY DEF StringsGood
<1>3. s = std => StringHolds(z, o)
  BY <1>1, <1>2, InsertHolds
<1> HIDE DEF z, o
<1> QED BY <1>1, <1>3, StringResult

LEMMA InsertPartStep ==
  ASSUME StringsGood, NEW a \in S!Strings, NEW b \in S!Strings, strRef[a] # S!Unknown,
         NEW i \in 0 .. str[a].size, NEW sIndex \in 0 .. TextSize, NEW count \in 0 .. TextSize,
         S!InsertPart(a, i, b, sIndex, count)
  PROVE  StringInv'
<1> DEFINE part == SubSeq(strRef[b], 1, count)
           std == SubSeq(strRef[b], sIndex + 1, sIndex + count)
<1>1. /\ strRef[b] # S!Unknown /\ sIndex + count <= str[b].size
      /\ S!Insert(a, i, SubSeq(S!Text(str[b]), 1, count), std)
  BY DEF S!InsertPart
<1>2. /\ StringHolds(str[b], strRef[b]) /\ strRef[b] \in Seq(Letter)
      /\ str[b].size \in Nat /\ Len(strRef[b]) = str[b].size
  BY <1>1 DEF StringsGood, StringHolds, StringRecord
<1>3. S!Text(str[b]) = strRef[b]
  BY <1>1, <1>2, TextIs
<1>4. 1 \in 1 .. Len(strRef[b]) + 1 /\ count \in 1 - 1 .. Len(strRef[b])
  BY <1>1, <1>2
<1>5. part \in Seq(Letter)
  BY <1>2, <1>4, PartOfText
<1>6. S!Insert(a, i, part, std)
  BY <1>1, <1>3
<1> HIDE DEF part, std
<1> QED BY <1>5, <1>6, InsertStep

LEMMA InsertRestStep ==
  ASSUME StringsGood, NEW a \in S!Strings, NEW b \in S!Strings, strRef[a] # S!Unknown,
         NEW i \in 0 .. str[a].size, NEW sIndex \in 0 .. TextSize,
         S!InsertRest(a, i, b, sIndex)
  PROVE  StringInv'
<1> DEFINE std == SubSeq(strRef[b], sIndex + 1, str[b].size)
<1>1. strRef[b] # S!Unknown /\ S!Insert(a, i, S!Text(str[b]), std)
  BY DEF S!InsertRest
<1>2. StringHolds(str[b], strRef[b]) /\ strRef[b] \in Seq(Letter)
  BY <1>1 DEF StringsGood, StringHolds
<1>3. S!Insert(a, i, strRef[b], std)
  BY <1>1, <1>2, TextIs
<1> HIDE DEF std
<1> QED BY <1>2, <1>3, InsertStep

\* As long as no call deviates and no character is written behind the array,
\* every string is well-formed and holds its text.
THEOREM StringInvariance == S!Spec => []StringInv
<1>1. StringInv /\ [S!Next]_S!vars => StringInv'
  <2> SUFFICES ASSUME StringInv, [S!Next]_S!vars PROVE StringInv'
    OBVIOUS
  <2>1. CASE UNCHANGED S!vars
    BY <2>1 DEF S!vars, StringInv, StringsGood
  <2>2. CASE S!Next
    <3>1. StringsGood
      BY <2>2 DEF S!Next, StringInv
    <3>2. \A a \in S!Strings : 3 - a \in S!Strings /\ 3 - a # a
      BY DEF S!Strings
    <3>3. Chars \subseteq Letter /\ 0 \in 0 .. TextSize /\ <<>> \in Seq(Letter)
          /\ S!Nul \in Letter
      BY TextAssumption DEF Letter
    <3>4. PICK a \in S!Strings :
            \/ S!Clear(a)
            \/ \E s \in S!Args :
                 S!ConstructText(a, s) \/ S!AssignText(a, s) \/ S!AssignRange(a, s)
            \/ \E s \in S!Args \cup [1 .. TextSize + 1 -> Chars] : S!AssignUnchecked(a, s)
            \/ S!Copy(a, 3 - a)
            \/ \E fresh \in BOOLEAN : S!Move(a, 3 - a, fresh)
            \/ \E pos \in 0 .. TextSize :
                 \/ S!ConstructFrom(a, 3 - a, pos)
                 \/ \E count \in 0 .. TextSize : S!ConstructPart(a, 3 - a, pos, count)
                                                   \/ S!AssignPart(a, 3 - a, pos, count)
            \/ /\ strRef[a] # S!Unknown
               /\ \/ S!PopBack(a)
                  \/ \E x \in Chars : S!PushBack(a, x)
                  \/ \E s \in S!Args :
                       S!AppendText(a, s) \/ \E i \in 0 .. str[a].size : S!Insert(a, i, s, s)
                  \/ \E i \in 0 .. str[a].size, sIndex \in 0 .. TextSize :
                       \/ S!InsertRest(a, i, 3 - a, sIndex)
                       \/ \E count \in 0 .. TextSize : S!InsertPart(a, i, 3 - a, sIndex, count)
      BY <2>2 DEF S!Next
    <3>5. CASE S!Clear(a)
      BY <3>1, <3>3, <3>5, ModifyStep
    <3>6. CASE \E s \in S!Args :
                 S!ConstructText(a, s) \/ S!AssignText(a, s) \/ S!AssignRange(a, s)
      BY <3>1, <3>6, TextArgs, TextStep
    <3>7. CASE \E s \in S!Args \cup [1 .. TextSize + 1 -> Chars] : S!AssignUnchecked(a, s)
      BY <3>1, <3>7, TextArgs, TextStep
    <3>8. CASE S!Copy(a, 3 - a)
      BY <3>1, <3>2, <3>3, <3>8, CopyStep
    <3>9. CASE \E fresh \in BOOLEAN : S!Move(a, 3 - a, fresh)
      BY <3>1, <3>2, <3>9, MoveStep
    <3>10. CASE \E pos \in 0 .. TextSize :
                 \/ S!ConstructFrom(a, 3 - a, pos)
                 \/ \E count \in 0 .. TextSize : S!ConstructPart(a, 3 - a, pos, count)
                                                   \/ S!AssignPart(a, 3 - a, pos, count)
      BY <3>1, <3>2, <3>3, <3>10, CopyStep
    <3>11. CASE strRef[a] # S!Unknown /\ S!PopBack(a)
      BY <3>1, <3>3, <3>11, ModifyStep
    <3>12. CASE strRef[a] # S!Unknown /\ \E x \in Chars : S!PushBack(a, x)
      BY <3>1, <3>3, <3>12, ModifyStep
    <3>13. ASSUME strRef[a] # S!Unknown, NEW s \in S!Args,
                  S!AppendText(a, s) \/ \E i \in 0 .. str[a].size : S!Insert(a, i, s, s)
           PROVE  StringInv'
      <4>1. s \in Seq(Letter)
        BY TextArgs
      <4>2. CASE S!AppendText(a, s)
        BY <3>1, <3>3, <3>13, <4>1, <4>2, ModifyStep
      <4>3. CASE \E i \in 0 .. str[a].size : S!Insert(a, i, s, s)
        BY <3>1, <3>13, <4>1, <4>3, InsertStep
      <4> QED BY <3>13, <4>2, <4>3
    <3>14. ASSUME strRef[a] # S!Unknown,
                  NEW i \in 0 .. str[a].size, NEW sIndex \in 0 .. TextSize,
                  \/ S!InsertRest(a, i, 3 - a, sIndex)
                  \/ \E count \in 0 .. TextSize : S!InsertPart(a, i, 3 - a, sIndex, count)
           PROVE  StringInv'
      <4>1. CASE S!InsertRest(a, i, 3 - a, sIndex)
        BY <3>1, <3>2, <3>14, <4>1, InsertRestStep
      <4>2. CASE \E count \in 0 .. TextSize : S!InsertPart(a, i, 3 - a, sIndex, count)
        BY <3>1, <3>2, <3>14, <4>2, InsertPartStep
      <4> QED BY <3>14, <4>1, <4>2
    <3> QED BY <3>4, <3>5, <3>6, <3>7, <3>8, <3>9, <3>10, <3>11, <3>12, <3>13, <3>14
  <2> QED BY <2>1, <2>2
<1> QED BY <1>1, StringInitHolds, PTL DEF S!Spec

\* basic_string.h: whatever the calls, a string holds what std::basic_string
\* would, up to the first call that deviates.
THEOREM StringActsAsStd == S!Spec => []ActsAsStdString
<1>1. StringInv => ActsAsStdString
  <2> SUFFICES ASSUME StringsGood, NEW a \in S!Strings, strRef[a] # S!Unknown
               PROVE  /\ str[a].size <= TextSize /\ S!Text(str[a]) = strRef[a]
                      /\ str[a].data[str[a].size] = S!Nul
    BY DEF StringInv, ActsAsStdString, S!ActsAsStdString
  <2>1. StringHolds(str[a], strRef[a])
    BY DEF StringsGood
  <2> QED BY <2>1, TextIs DEF StringHolds
<1> QED BY <1>1, StringInvariance, PTL

-----------------------------------------------------------------------------
(* Searching in strings                                                    *)

\* A set of numbers has a least one.
LEMMA LeastExists ==
  ASSUME NEW Nums \in SUBSET Nat, Nums # {}
  PROVE  \E x \in Nums : \A y \in Nums : x <= y
<1> DEFINE R == OpToRel(<, Nat)
<1>1. IsWellFoundedOn(R, Nat)
  BY NatLessThanWellFounded
<1>2. \A x \in Nat, y \in Nat : y < x => <<y, x>> \in R
  BY DEF OpToRel
<1> HIDE DEF R
<1>3. \E x \in Nums : \A y \in Nums : <<y, x>> \notin R
  BY <1>1, WFMin
<1>4. PICK x \in Nums : \A y \in Nums : <<y, x>> \notin R
  BY <1>3
<1>5. \A y \in Nums : ~(y < x)
  BY <1>2, <1>4
<1>6. \A y \in Nums : x <= y
  BY <1>5
<1> QED BY <1>6

LeastOf(Nums) == CHOOSE i \in Nums : \A j \in Nums : i <= j

LEMMA LeastOfIs ==
  ASSUME NEW Nums \in SUBSET Nat, Nums # {}
  PROVE  LeastOf(Nums) \in Nums /\ \A j \in Nums : LeastOf(Nums) <= j
  BY LeastExists DEF LeastOf

\* There is one least number only.
LEMMA LeastUnique ==
  ASSUME NEW Nums \in SUBSET Nat, NEW i \in Nums, \A j \in Nums : i <= j
  PROVE  LeastOf(Nums) = i
<1>1. LeastOf(Nums) \in Nums /\ LeastOf(Nums) <= i /\ i <= LeastOf(Nums)
  BY LeastOfIs
<1>2. LeastOf(Nums) \in Nat /\ i \in Nat
  BY <1>1
<1> QED BY <1>1, <1>2

\* Where s occurs in the string from place first on, and the first of these
\* places or npos.
Occurs(v, s, first) ==
  {i \in first .. v.size - Len(s) : S!Chunk(v, i, i + Len(s) - 1) = s}
FirstOccurrence(v, s, first) ==
  IF Occurs(v, s, first) = {} THEN -1 ELSE LeastOf(Occurs(v, s, first))

\* The body of find's loop: what it returns from place first on, if f says
\* what it returns from later ones.
FindBody(v, s, f, first) ==
  IF v.size - first < Len(s) THEN -1
  ELSE LET hits == {i \in first .. v.size - Len(s) : v.data[i] = s[1]}
       IN  IF hits = {} THEN -1
           ELSE IF S!Chunk(v, LeastOf(hits), LeastOf(hits) + Len(s) - 1) = s THEN LeastOf(hits)
           ELSE f[LeastOf(hits) + 1]

FindLoop(v, s) == CHOOSE f : f = [first \in 0 .. v.size + 1 |-> FindBody(v, s, f, first)]

LEMMA FindUnfold ==
  ASSUME NEW v, NEW s, NEW pos
  PROVE  S!Find(v, s, pos) =
    IF Len(s) = 0 THEN (IF pos <= v.size THEN pos ELSE -1)
    ELSE IF pos >= v.size THEN -1 ELSE FindLoop(v, s)[pos]
  BY DEF S!Find, FindLoop, FindBody, LeastOf

\* One round of the loop finds the first occurrence, if the later rounds do.
LEMMA FindRound ==
  ASSUME NEW v \in StringRecord, v.size <= TextSize, NEW s \in Seq(Letter), Len(s) > 0,
         NEW first \in 0 .. v.size + 1, NEW f,
         \A k \in first + 1 .. v.size + 1 : f[k] = FirstOccurrence(v, s, k)
  PROVE  FindBody(v, s, f, first) = FirstOccurrence(v, s, first)
<1> DEFINE n == Len(s)
           hits == {i \in first .. v.size - n : v.data[i] = s[1]}
           hit == LeastOf(hits)
           at == Occurs(v, s, first)
<1>1. n \in Nat /\ n > 0 /\ v.size \in Nat /\ first \in Nat
  BY LenProperties DEF StringRecord
<1>2. hits \in SUBSET Nat /\ at \in SUBSET Nat
  BY <1>1 DEF Occurs
<1>3. at \subseteq hits
  <2> SUFFICES ASSUME NEW i \in at PROVE v.data[i] = s[1]
    BY DEF Occurs
  <2>1. i \in first .. v.size - n /\ S!Chunk(v, i, i + n - 1) = s /\ i \in Nat
    BY <1>2 DEF Occurs
  <2>2. /\ i + n - 1 \in Int /\ i <= i + n - 1 + 1 /\ i + n - 1 <= TextSize
        /\ 1 \in 1 .. (i + n - 1) - i + 1 /\ i + 1 - 1 = i
    BY <1>1, <2>1, TextAssumption
  <2>3. S!Chunk(v, i, i + n - 1)[1] = v.data[i + 1 - 1]
    BY <2>1, <2>2, ChunkIs
  <2> QED BY <2>1, <2>2, <2>3
<1>4. FindBody(v, s, f, first) =
        IF v.size - first < n THEN -1
        ELSE IF hits = {} THEN -1
        ELSE IF S!Chunk(v, hit, hit + n - 1) = s THEN hit ELSE f[hit + 1]
  BY DEF FindBody
<1>5. FirstOccurrence(v, s, first) = IF at = {} THEN -1 ELSE LeastOf(at)
  BY DEF FirstOccurrence
<1>6. CASE v.size - first < n
  <2>1. at = {}
    BY <1>1, <1>6 DEF Occurs
  <2> QED BY <1>4, <1>5, <1>6, <2>1
<1>7. CASE ~(v.size - first < n) /\ hits = {}
  BY <1>3, <1>4, <1>5, <1>7
<1>8. CASE ~(v.size - first < n) /\ hits # {}
  <2>1. hit \in hits /\ \A j \in hits : hit <= j
    BY <1>2, <1>8, LeastOfIs
  <2>2. hit \in first .. v.size - n /\ hit \in Nat
    BY <1>2, <2>1
  <2> HIDE DEF hit
  <2>3. CASE S!Chunk(v, hit, hit + n - 1) = s
    <3>1. hit \in at /\ \A j \in at : hit <= j
      BY <1>3, <2>1, <2>2, <2>3 DEF Occurs
    <3> HIDE DEF at
    <3>2. LeastOf(at) = hit
      BY <1>2, <3>1, LeastUnique
    <3> QED BY <1>4, <1>5, <1>8, <2>3, <3>1, <3>2
  <2>4. CASE S!Chunk(v, hit, hit + n - 1) # s
    <3>1. at = Occurs(v, s, hit + 1)
      <4>1. \A i \in at : hit <= i /\ i # hit /\ i \in Nat
        BY <1>2, <1>3, <2>1, <2>4 DEF Occurs
      <4>2. \A i \in at : i \in Occurs(v, s, hit + 1)
        BY <1>1, <2>2, <4>1 DEF Occurs
      <4>3. \A i \in Occurs(v, s, hit + 1) : i \in at
        BY <1>1, <2>2 DEF Occurs
      <4> QED BY <4>2, <4>3
    <3>2. hit + 1 \in first + 1 .. v.size + 1
      BY <1>1, <2>2
    <3>3. f[hit + 1] = FirstOccurrence(v, s, hit + 1)
      BY <3>2
    <3>4. FirstOccurrence(v, s, hit + 1) = FirstOccurrence(v, s, first)
      BY <3>1 DEF FirstOccurrence
    <3> QED BY <1>4, <1>8, <2>4, <3>3, <3>4
  <2> QED BY <2>3, <2>4
<1> QED BY <1>6, <1>7, <1>8

\* So the loop does from every place on.
LEMMA FindLoopFinds ==
  ASSUME NEW v \in StringRecord, v.size <= TextSize, NEW s \in Seq(Letter), Len(s) > 0,
         NEW pos \in 0 .. v.size + 1
  PROVE  FindLoop(v, s)[pos] = FirstOccurrence(v, s, pos)
<1> DEFINE D == 0 .. v.size + 1
           g == [first \in D |-> FirstOccurrence(v, s, first)]
           f == FindLoop(v, s)
           Wrong == {n \in Nat : n <= v.size + 1 /\ f[v.size + 1 - n]
                                                     # FirstOccurrence(v, s, v.size + 1 - n)}
<1>1. v.size \in Nat
  BY DEF StringRecord
<1>2. g = [first \in D |-> FindBody(v, s, g, first)]
  <2>1. ASSUME NEW first \in D PROVE FindBody(v, s, g, first) = FirstOccurrence(v, s, first)
    <3>1. \A k \in first + 1 .. v.size + 1 : g[k] = FirstOccurrence(v, s, k)
      BY <1>1
    <3> HIDE DEF g
    <3> QED BY <3>1, FindRound
  <2> QED BY <2>1
<1> HIDE DEF g
<1>3. f = [first \in D |-> FindBody(v, s, f, first)]
  BY <1>2 DEF FindLoop
<1> HIDE DEF f
<1>4. Wrong = {}
  <2> SUFFICES ASSUME Wrong # {} PROVE FALSE
    OBVIOUS
  <2>1. Wrong \in SUBSET Nat
    OBVIOUS
  <2> HIDE DEF Wrong
  <2>2. PICK n \in Wrong : \A m \in Wrong : n <= m
    BY <2>1, LeastExists
  <2> DEFINE first == v.size + 1 - n
  <2>3. /\ n \in Nat /\ n <= v.size + 1 /\ first \in D
        /\ f[first] # FirstOccurrence(v, s, first)
    BY <1>1, <2>2 DEF Wrong
  <2>4. ASSUME NEW k \in first + 1 .. v.size + 1
        PROVE  f[k] = FirstOccurrence(v, s, k)
    <3>1. /\ v.size + 1 - k \in Nat /\ v.size + 1 - k < n /\ v.size + 1 - k <= v.size + 1
          /\ v.size + 1 - (v.size + 1 - k) = k
      BY <1>1, <2>3, SMTT(30)
    <3>2. v.size + 1 - k \notin Wrong
      BY <2>2, <2>3, <3>1
    <3> QED BY <3>1, <3>2 DEF Wrong
  <2> HIDE DEF first
  <2>5. FindBody(v, s, f, first) = FirstOccurrence(v, s, first)
    BY <2>3, <2>4, FindRound
  <2>6. f[first] = FindBody(v, s, f, first)
    BY <1>3, <2>3
  <2> QED BY <2>3, <2>5, <2>6
<1>5. /\ v.size + 1 - pos \in Nat /\ v.size + 1 - pos <= v.size + 1
      /\ v.size + 1 - (v.size + 1 - pos) = pos
  BY <1>1
<1>6. f[pos] = FirstOccurrence(v, s, pos)
  BY <1>4, <1>5
<1> QED BY <1>6 DEF f

\* find(): the first place from pos on at which s occurs in the text.
LEMMA FindAgrees ==
  ASSUME NEW v, NEW r, StringHolds(v, r), r # S!Unknown,
         NEW s \in Seq(Letter), NEW pos \in 0 .. TextSize
  PROVE  LET at == {i \in pos .. Len(r) - Len(s) : SubSeq(r, i + 1, i + Len(s)) = s}
         IN  IF at = {} THEN S!Find(v, s, pos) = -1
             ELSE S!Find(v, s, pos) \in at /\ \A i \in at : S!Find(v, s, pos) <= i
<1> DEFINE at == {i \in pos .. Len(r) - Len(s) : SubSeq(r, i + 1, i + Len(s)) = s}
           find == S!Find(v, s, pos)
<1>1. /\ v \in StringRecord /\ r \in Seq(Letter) /\ v.size \in Nat /\ v.size <= TextSize
      /\ Len(r) = v.size /\ Len(s) \in Nat /\ pos \in Nat
      /\ \A k \in 1 .. v.size : v.data[k - 1] = r[k]
  BY LenProperties DEF StringHolds, StringRecord
<1>2. find = IF Len(s) = 0 THEN (IF pos <= v.size THEN pos ELSE -1)
             ELSE IF pos >= v.size THEN -1 ELSE FindLoop(v, s)[pos]
  BY FindUnfold
<1>3. CASE Len(s) = 0
  <2>1. s = <<>>
    BY <1>3, EmptySeq
  <2>2. ASSUME NEW i \in pos .. Len(r) PROVE i \in at
    <3>1. i + 1 \in Int /\ i + Len(s) \in Int /\ i + Len(s) < i + 1
          /\ i \in pos .. Len(r) - Len(s)
      BY <1>1, <1>3
    <3>2. SubSeq(r, i + 1, i + Len(s)) = <<>>
      BY <3>1, SubSeqEmpty
    <3> QED BY <2>1, <3>1, <3>2
  <2>3. \A i \in at : i \in pos .. Len(r)
    BY <1>1, <1>3
  <2> HIDE DEF at, find
  <2>4. CASE pos <= v.size
    <3>1. pos \in at /\ find = pos /\ \A i \in at : pos <= i
      BY <1>1, <1>2, <1>3, <2>2, <2>3, <2>4
    <3> QED BY <3>1 DEF at, find
  <2>5. CASE ~(pos <= v.size)
    <3>1. at = {} /\ find = -1
      BY <1>1, <1>2, <1>3, <2>3, <2>5
    <3> QED BY <3>1 DEF at, find
  <2> QED BY <2>4, <2>5
<1>4. CASE Len(s) > 0 /\ pos >= v.size
  <2>1. at = {}
    BY <1>1, <1>4
  <2>2. find = -1
    BY <1>1, <1>2, <1>4
  <2> QED BY <2>1, <2>2
<1>5. CASE Len(s) > 0 /\ ~(pos >= v.size)
  <2>1. find = FirstOccurrence(v, s, pos)
    BY <1>1, <1>2, <1>5, FindLoopFinds
  <2>2. ASSUME NEW i \in pos .. v.size - Len(s)
        PROVE  S!Chunk(v, i, i + Len(s) - 1) = SubSeq(r, i + 1, i + Len(s))
    <3> DEFINE last == i + Len(s) - 1
               c == S!Chunk(v, i, last)
               b == SubSeq(r, i + 1, i + Len(s))
    <3>1. /\ i \in Nat /\ last \in Int /\ i <= last + 1 /\ last <= TextSize
          /\ last - i + 1 = Len(s)
      BY <1>1, TextAssumption
    <3> HIDE DEF last
    <3>2. /\ c \in Seq(Letter) /\ Len(c) = last - i + 1
          /\ \A k \in 1 .. last - i + 1 : c[k] = v.data[i + k - 1]
      BY <1>1, <3>1, ChunkIs
    <3>3. /\ i + 1 \in 1 .. Len(r) + 1 /\ i + Len(s) \in (i + 1) - 1 .. Len(r)
      BY <1>1, <3>1, SMTT(30)
    <3>4. /\ b \in Seq(Letter) /\ Len(b) = i + Len(s) - (i + 1) + 1
          /\ \A k \in 1 .. i + Len(s) - (i + 1) + 1 : b[k] = r[(i + 1) + k - 1]
      <4> DEFINE m == i + 1
                 n == i + Len(s)
      <4>1. r \in Seq(Letter) /\ m \in 1 .. Len(r) + 1 /\ n \in m - 1 .. Len(r)
        BY <1>1, <3>3
      <4> HIDE DEF m, n
      <4>2. /\ SubSeq(r, m, n) \in Seq(Letter) /\ Len(SubSeq(r, m, n)) = n - m + 1
            /\ \A k \in 1 .. n - m + 1 : SubSeq(r, m, n)[k] = r[m + k - 1]
        BY <4>1, PartOfText
      <4> QED BY <4>2, SMTT(30) DEF m, n
    <3> HIDE DEF c, b
    <3>5. last - i + 1 = Len(s) /\ i + Len(s) - (i + 1) + 1 = Len(s)
      BY <1>1, <3>1
    <3>6. ASSUME NEW k \in 1 .. Len(s) PROVE c[k] = b[k]
      <4>1. i + k \in 1 .. v.size /\ (i + k) - 1 = i + k - 1 /\ (i + 1) + k - 1 = i + k
        BY <1>1, <3>1
      <4> QED BY <1>1, <3>2, <3>4, <3>5, <4>1
    <3>7. c = b
      BY <3>2, <3>4, <3>5, <3>6, SeqEqual
    <3> QED BY <3>7 DEF c, b, last
  <2>3. at = Occurs(v, s, pos)
    BY <1>1, <2>2 DEF Occurs
  <2>4. at \in SUBSET Nat
    BY <1>1
  <2> HIDE DEF at, find
  <2>5. CASE at = {}
    BY <2>1, <2>3, <2>5 DEF FirstOccurrence, at, find
  <2>6. CASE at # {}
    <3>1. find = LeastOf(at)
      BY <2>1, <2>3, <2>6 DEF FirstOccurrence
    <3>2. find \in at /\ \A i \in at : find <= i
      BY <2>4, <2>6, <3>1, LeastOfIs
    <3> QED BY <2>6, <3>2 DEF at, find
  <2> QED BY <2>5, <2>6
<1>6. Len(s) = 0 \/ Len(s) > 0
  BY <1>1
<1> QED BY <1>3, <1>4, <1>5, <1>6

\* The greatest number of a set that has one.
GreatestOf(Nums) == CHOOSE k \in Nums : \A l \in Nums : l <= k

LEMMA GreatestUnique ==
  ASSUME NEW Nums \in SUBSET Nat, NEW i \in Nums, \A j \in Nums : j <= i
  PROVE  GreatestOf(Nums) = i
<1>1. GreatestOf(Nums) \in Nums /\ \A j \in Nums : j <= GreatestOf(Nums)
  BY DEF GreatestOf
<1>2. GreatestOf(Nums) \in Nat /\ i \in Nat /\ GreatestOf(Nums) <= i /\ i <= GreatestOf(Nums)
  BY <1>1
<1> QED BY <1>2

\* The lengths of the texts that two texts begin with.
CommonStarts(r, q) ==
  {k \in 0 .. Len(r) : k <= Len(q) /\ SubSeq(r, 1, k) = SubSeq(q, 1, k)}

LEMMA StartsAre ==
  ASSUME NEW r \in Seq(Letter), NEW q \in Seq(Letter), NEW k \in 0 .. Len(r), k <= Len(q)
  PROVE  k \in CommonStarts(r, q) <=> \A i \in 1 .. k : r[i] = q[i]
<1>1. Len(r) \in Nat /\ Len(q) \in Nat /\ k \in Nat
  BY LenProperties
<1>2. 1 \in 1 .. Len(r) + 1 /\ k \in 1 - 1 .. Len(r) /\ 1 \in 1 .. Len(q) + 1
      /\ k \in 1 - 1 .. Len(q)
  BY <1>1
<1>3. /\ SubSeq(r, 1, k) \in Seq(Letter) /\ Len(SubSeq(r, 1, k)) = k - 1 + 1
      /\ \A i \in 1 .. k - 1 + 1 : SubSeq(r, 1, k)[i] = r[1 + i - 1]
  BY <1>2, PartOfText
<1>4. /\ SubSeq(q, 1, k) \in Seq(Letter) /\ Len(SubSeq(q, 1, k)) = k - 1 + 1
      /\ \A i \in 1 .. k - 1 + 1 : SubSeq(q, 1, k)[i] = q[1 + i - 1]
  BY <1>2, PartOfText
<1>5. k - 1 + 1 = k /\ \A i \in 1 .. k : 1 + i - 1 = i
  BY <1>1
<1>6. SubSeq(r, 1, k) = SubSeq(q, 1, k) <=> \A i \in 1 .. k : r[i] = q[i]
  <2>1. ASSUME SubSeq(r, 1, k) = SubSeq(q, 1, k), NEW i \in 1 .. k PROVE r[i] = q[i]
    BY <1>3, <1>4, <1>5, <2>1
  <2>2. ASSUME \A i \in 1 .. k : r[i] = q[i] PROVE SubSeq(r, 1, k) = SubSeq(q, 1, k)
    <3>1. \A i \in 1 .. Len(SubSeq(r, 1, k)) : SubSeq(r, 1, k)[i] = SubSeq(q, 1, k)[i]
      BY <1>3, <1>4, <1>5, <2>2
    <3> QED BY <1>3, <1>4, <3>1, SeqEqual
  <2> QED BY <2>1, <2>2
<1> QED BY <1>6 DEF CommonStarts

\* compare(): the sign of the first difference of the texts, or of their
\* lengths.  The terminator of a shorter text is a difference as well.
LEMMA CompareAgrees ==
  ASSUME NEW v, NEW r, StringHolds(v, r), r # S!Unknown, r \in Seq(Chars),
         NEW w, NEW q, StringHolds(w, q), q # S!Unknown, q \in Seq(Chars)
  PROVE  S!Compare(v, w) =
           LET same == GreatestOf(CommonStarts(r, q))
           IN  IF same < Len(r) /\ same < Len(q) THEN S!Sign(r[same + 1] - q[same + 1])
               ELSE S!Sign(Len(r) - Len(q))
<1> DEFINE differ == {i \in 0 .. v.size - 1 : v.data[i] # w.data[i]}
           least == LeastOf(differ)
           same == GreatestOf(CommonStarts(r, q))
           c == S!CompareChars(v.data, w.data, v.size)
<1>1. /\ r \in Seq(Letter) /\ q \in Seq(Letter)
      /\ v.size \in Nat /\ w.size \in Nat /\ v.size <= TextSize /\ w.size <= TextSize
      /\ Len(r) = v.size /\ Len(q) = w.size /\ w.data[w.size] = 0
      /\ \A k \in 1 .. v.size : v.data[k - 1] = r[k]
      /\ \A k \in 1 .. w.size : w.data[k - 1] = q[k]
  BY DEF StringHolds, StringRecord, S!Nul
<1>2. /\ \A k \in 1 .. v.size : r[k] \in Nat /\ r[k] > 0
      /\ \A k \in 1 .. w.size : q[k] \in Nat /\ q[k] > 0
  <2>1. /\ \A k \in 1 .. v.size : r[k] \in Chars
        /\ \A k \in 1 .. w.size : q[k] \in Chars
    BY <1>1, ElementOfSeq
  <2>2. \A x \in Chars : x \in Nat /\ x > 0
    BY CharsAssumption
  <2> QED BY <2>1, <2>2
<1>3. c = IF differ = {} THEN 0 ELSE v.data[least] - w.data[least]
  BY DEF S!CompareChars, LeastOf
<1>4. S!Compare(v, w) = S!Sign(IF c # 0 THEN c ELSE v.size - w.size)
  BY DEF S!Compare
<1>5. CommonStarts(r, q) \in SUBSET Nat
  BY <1>1 DEF CommonStarts
<1>6. ASSUME NEW k \in 0 .. v.size, k > w.size, \A i \in 0 .. k - 1 : v.data[i] = w.data[i]
      PROVE  FALSE
  <2>1. w.size \in 0 .. k - 1 /\ w.size + 1 \in 1 .. v.size /\ (w.size + 1) - 1 = w.size
    BY <1>1, <1>6
  <2>2. v.data[w.size] = r[w.size + 1] /\ r[w.size + 1] > 0
    BY <1>1, <1>2, <2>1
  <2>3. v.data[w.size] = 0
    BY <1>1, <1>6, <2>1
  <2> QED BY <2>2, <2>3
<1>7. ASSUME NEW k \in 0 .. v.size, k <= w.size
      PROVE  k \in CommonStarts(r, q) <=> \A i \in 0 .. k - 1 : v.data[i] = w.data[i]
  <2>1. k \in CommonStarts(r, q) <=> \A i \in 1 .. k : r[i] = q[i]
    BY <1>1, <1>7, StartsAre
  <2>2. \A i \in 1 .. k : r[i] = v.data[i - 1] /\ q[i] = w.data[i - 1] /\ i - 1 \in 0 .. k - 1
    BY <1>1, <1>7, SMTT(30)
  <2>3. \A i \in 0 .. k - 1 : i + 1 \in 1 .. k /\ (i + 1) - 1 = i
    BY <1>7
  <2>4. ASSUME \A i \in 1 .. k : r[i] = q[i], NEW i \in 0 .. k - 1
        PROVE  v.data[i] = w.data[i]
    <3>1. r[i + 1] = q[i + 1] /\ r[i + 1] = v.data[(i + 1) - 1]
          /\ q[i + 1] = w.data[(i + 1) - 1]
      BY <2>2, <2>3, <2>4
    <3> QED BY <2>3, <3>1
  <2>5. ASSUME \A i \in 0 .. k - 1 : v.data[i] = w.data[i], NEW i \in 1 .. k
        PROVE  r[i] = q[i]
    BY <2>2, <2>5
  <2> QED BY <2>1, <2>4, <2>5
<1> HIDE DEF c
<1>8. CASE differ = {}
  <2>1. \A i \in 0 .. v.size - 1 : v.data[i] = w.data[i]
    BY <1>8
  <2>2. v.size \in 0 .. v.size /\ v.size <= w.size
    BY <1>1, <1>6, <2>1, SMTT(30)
  <2>3. v.size \in CommonStarts(r, q)
    BY <1>7, <2>1, <2>2
  <2>4. \A k \in CommonStarts(r, q) : k <= v.size
    BY <1>1 DEF CommonStarts
  <2>5. same = v.size
    BY <1>5, <2>3, <2>4, GreatestUnique
  <2> HIDE DEF differ, same
  <2> QED BY <1>1, <1>3, <1>4, <1>8, <2>5 DEF same
<1>9. CASE differ # {}
  <2>1. differ \in SUBSET Nat
    BY <1>1
  <2>2. least \in differ /\ \A j \in differ : least <= j
    BY <1>9, <2>1, LeastOfIs
  <2> HIDE DEF least
  <2>3. /\ least \in 0 .. v.size /\ least \in Nat /\ least < v.size
        /\ v.data[least] # w.data[least]
        /\ \A i \in 0 .. least - 1 : v.data[i] = w.data[i]
    BY <1>1, <2>1, <2>2
  <2>4. least <= w.size
    <3> SUFFICES ASSUME least > w.size PROVE FALSE
      BY <1>1, <2>3
    <3> QED BY <1>6, <2>3
  <2>5. least \in CommonStarts(r, q)
    BY <1>7, <2>3, <2>4
  <2>6. ASSUME NEW k \in CommonStarts(r, q) PROVE k <= least
    <3>1. k \in 0 .. v.size /\ k <= w.size
      BY <1>1 DEF CommonStarts
    <3>2. \A i \in 0 .. k - 1 : v.data[i] = w.data[i]
      BY <1>7, <3>1
    <3> QED BY <1>1, <2>3, <3>1, <3>2
  <2>7. same = least
    BY <1>5, <2>5, <2>6, GreatestUnique
  <2> HIDE DEF differ, same
  <2>8. v.data[least] = r[least + 1] /\ r[least + 1] \in Nat /\ r[least + 1] > 0
    <3>1. least + 1 \in 1 .. v.size /\ (least + 1) - 1 = least
      BY <1>1, <2>3
    <3> QED BY <1>1, <1>2, <3>1
  <2>9. c = v.data[least] - w.data[least]
    BY <1>3, <1>9
  <2>10. CASE least < w.size
    <3>1. least + 1 \in 1 .. w.size /\ (least + 1) - 1 = least
      BY <1>1, <2>3, <2>10
    <3>2. w.data[least] = q[least + 1] /\ q[least + 1] \in Nat
      BY <1>1, <1>2, <3>1
    <3>3. c = r[least + 1] - q[least + 1] /\ c # 0
      BY <2>3, <2>8, <2>9, <3>2
    <3>4. S!Compare(v, w) = S!Sign(r[same + 1] - q[same + 1])
      BY <1>4, <2>7, <3>3
    <3>5. same < Len(r) /\ same < Len(q)
      BY <1>1, <2>3, <2>7, <2>10
    <3> QED BY <3>4, <3>5 DEF same
  <2>11. CASE least = w.size
    <3>1. c = r[least + 1] /\ c > 0 /\ c # 0 /\ c \in Nat
      BY <1>1, <2>8, <2>9, <2>11
    <3>2. S!Compare(v, w) = 1
      BY <1>4, <3>1 DEF S!Sign
    <3>3. S!Sign(Len(r) - Len(q)) = 1
      <4>1. Len(r) - Len(q) > 0
        BY <1>1, <2>3, <2>11
      <4> QED BY <4>1 DEF S!Sign
    <3>4. ~(same < Len(q))
      BY <1>1, <2>7, <2>11
    <3> QED BY <3>2, <3>3, <3>4 DEF same
  <2> QED BY <1>1, <2>3, <2>4, <2>10, <2>11
<1> QED BY <1>8, <1>9

\* The texts that are known consist of characters.
KnownTexts == \A a \in S!Strings : strRef[a] # S!Unknown => strRef[a] \in Seq(Chars)

TextsInv == StringInv /\ (~strDeviated /\ ~strOverrun => KnownTexts)

LEMMA TextReplaced ==
  ASSUME StringsGood, KnownTexts, NEW a \in S!Strings, NEW r \in Seq(Chars),
         strRef' = [strRef EXCEPT ![a] = r]
  PROVE  KnownTexts'
  BY DEF KnownTexts, StringsGood

LEMMA PartOfChars ==
  ASSUME NEW r \in Seq(Chars), NEW m \in Int, NEW n \in Int, 1 <= m, n <= Len(r)
  PROVE  SubSeq(r, m, n) \in Seq(Chars)
<1>1. Len(r) \in Nat
  BY LenProperties
<1>2. \A i \in m .. n : r[i] \in Chars
  <2> SUFFICES ASSUME NEW i \in m .. n PROVE r[i] \in Chars
    OBVIOUS
  <2>1. i \in 1 .. Len(r)
    BY <1>1
  <2> QED BY <2>1, ElementOfSeq
<1> QED BY <1>2, SubSeqProperties

LEMMA TextsStep == ASSUME StringsGood, KnownTexts, S!Next PROVE KnownTexts'
<1>1. \A s \in S!Args \cup [1 .. TextSize + 1 -> Chars] : s \in Seq(Chars)
  <2>1. \A k \in Nat : \A s \in [1 .. k -> Chars] : s \in Seq(Chars)
    OBVIOUS
  <2>2. \A s \in S!Args : \E k \in Nat : s \in [1 .. k -> Chars]
    BY TextAssumption DEF S!Args
  <2> QED BY <2>1, <2>2, TextAssumption
<1>2. \A a \in S!Strings : strRef[a] # S!Unknown =>
        /\ strRef[a] \in Seq(Chars) /\ str[a].size \in Nat /\ Len(strRef[a]) = str[a].size
  BY DEF KnownTexts, StringsGood, StringHolds, StringRecord
<1>3. \A a \in S!Strings : 3 - a \in S!Strings /\ 3 - a # a
  BY DEF S!Strings
<1>4. <<>> \in Seq(Chars)
  OBVIOUS
<1>5. PICK a \in S!Strings :
        \/ S!Clear(a)
        \/ \E s \in S!Args :
             S!ConstructText(a, s) \/ S!AssignText(a, s) \/ S!AssignRange(a, s)
        \/ \E s \in S!Args \cup [1 .. TextSize + 1 -> Chars] : S!AssignUnchecked(a, s)
        \/ S!Copy(a, 3 - a)
        \/ \E fresh \in BOOLEAN : S!Move(a, 3 - a, fresh)
        \/ \E pos \in 0 .. TextSize :
             \/ S!ConstructFrom(a, 3 - a, pos)
             \/ \E count \in 0 .. TextSize : S!ConstructPart(a, 3 - a, pos, count)
                                               \/ S!AssignPart(a, 3 - a, pos, count)
        \/ /\ strRef[a] # S!Unknown
           /\ \/ S!PopBack(a)
              \/ \E x \in Chars : S!PushBack(a, x)
              \/ \E s \in S!Args :
                   S!AppendText(a, s) \/ \E i \in 0 .. str[a].size : S!Insert(a, i, s, s)
              \/ \E i \in 0 .. str[a].size, sIndex \in 0 .. TextSize :
                   \/ S!InsertRest(a, i, 3 - a, sIndex)
                   \/ \E count \in 0 .. TextSize : S!InsertPart(a, i, 3 - a, sIndex, count)
  BY DEF S!Next
<1> DEFINE b == 3 - a
<1>6. b \in S!Strings /\ b # a
  BY <1>3
<1> HIDE DEF b
<1>7. CASE S!Clear(a)
  BY <1>4, <1>7, TextReplaced DEF S!Clear, S!Result
<1>8. ASSUME NEW s \in S!Args \cup [1 .. TextSize + 1 -> Chars],
             S!ConstructText(a, s) \/ S!AssignText(a, s) \/ S!AssignRange(a, s)
               \/ S!AssignUnchecked(a, s)
      PROVE  KnownTexts'
  <2>1. s \in Seq(Chars)
    BY <1>1
  <2>2. strRef' = [strRef EXCEPT ![a] = s] \/ strRef' = strRef
    BY <1>8 DEF S!ConstructText, S!AssignText, S!AssignRange, S!AssignUnchecked, S!Result
  <2> QED BY <2>1, <2>2, TextReplaced DEF KnownTexts
<1>9. CASE S!Copy(a, b)
  <2>1. strRef[b] # S!Unknown /\ strRef' = [strRef EXCEPT ![a] = strRef[b]]
    BY <1>9 DEF S!Copy, S!Result
  <2> QED BY <1>2, <1>6, <2>1, TextReplaced
<1>10. ASSUME NEW fresh \in BOOLEAN, S!Move(a, b, fresh) PROVE KnownTexts'
  <2>1. /\ strRef[b] # S!Unknown
        /\ strRef' = [strRef EXCEPT ![a] = strRef[b], ![b] = S!Unknown]
    BY <1>10 DEF S!Move
  <2>2. strRef'[a] = strRef[b] /\ strRef'[b] = S!Unknown
    BY <1>6, <2>1 DEF StringsGood
  <2>3. \A c \in S!Strings : c = a \/ c = b
    BY <1>6 DEF S!Strings
  <2> QED BY <1>2, <1>6, <2>1, <2>2, <2>3 DEF KnownTexts
<1>11. ASSUME NEW pos \in 0 .. TextSize, NEW count \in 0 .. TextSize,
              S!ConstructFrom(a, b, pos) \/ S!ConstructPart(a, b, pos, count)
                \/ S!AssignPart(a, b, pos, count)
       PROVE  KnownTexts'
  <2>1. strRef[b] # S!Unknown
    BY <1>11 DEF S!ConstructFrom, S!ConstructPart, S!AssignPart
  <2>2. pos \in Nat /\ count \in Nat /\ strRef[b] \in Seq(Chars) /\ str[b].size \in Nat
        /\ Len(strRef[b]) = str[b].size
    BY <1>2, <1>6, <2>1
  <2>3. CASE S!ConstructFrom(a, b, pos)
    <3>1. strRef' = [strRef EXCEPT ![a] = SubSeq(strRef[b], pos + 1, str[b].size)]
      BY <2>3 DEF S!ConstructFrom, S!Result
    <3>2. SubSeq(strRef[b], pos + 1, str[b].size) \in Seq(Chars)
      <4>1. pos + 1 \in Int /\ 1 <= pos + 1 /\ str[b].size \in Int
            /\ str[b].size <= Len(strRef[b])
        BY <2>2
      <4> QED BY <2>2, <4>1, PartOfChars
    <3> QED BY <3>1, <3>2, TextReplaced
  <2>4. CASE S!ConstructPart(a, b, pos, count) \/ S!AssignPart(a, b, pos, count)
    <3>1. /\ strRef' = [strRef EXCEPT ![a] = SubSeq(strRef[b], pos + 1, pos + count)]
          /\ pos + count <= str[b].size
      BY <2>2, <2>4 DEF S!ConstructPart, S!AssignPart, S!Result
    <3>2. SubSeq(strRef[b], pos + 1, pos + count) \in Seq(Chars)
      <4>1. pos + 1 \in Int /\ 1 <= pos + 1 /\ pos + count \in Int
            /\ pos + count <= Len(strRef[b])
        BY <2>2, <3>1
      <4> QED BY <2>2, <4>1, PartOfChars
    <3> QED BY <3>1, <3>2, TextReplaced
  <2> QED BY <1>11, <2>3, <2>4
<1>12. ASSUME strRef[a] # S!Unknown PROVE
         /\ strRef[a] \in Seq(Chars) /\ str[a].size \in Nat /\ Len(strRef[a]) = str[a].size
  BY <1>2, <1>12
<1>13. CASE strRef[a] # S!Unknown /\ S!PopBack(a)
  <2>1. strRef' = [strRef EXCEPT ![a] = SubSeq(strRef[a], 1, str[a].size - 1)]
    BY <1>13 DEF S!PopBack, S!Result
  <2>2. SubSeq(strRef[a], 1, str[a].size - 1) \in Seq(Chars)
    <3>1. /\ 1 \in Int /\ 1 <= 1 /\ str[a].size - 1 \in Int
          /\ str[a].size - 1 <= Len(strRef[a])
      BY <1>12, <1>13
    <3> QED BY <1>12, <1>13, <3>1, PartOfChars
  <2> QED BY <2>1, <2>2, TextReplaced
<1>14. ASSUME strRef[a] # S!Unknown, NEW x \in Chars, S!PushBack(a, x) PROVE KnownTexts'
  <2>1. strRef' = [strRef EXCEPT ![a] = Append(strRef[a], x)]
    BY <1>14 DEF S!PushBack, S!Result
  <2>2. Append(strRef[a], x) \in Seq(Chars)
    BY <1>12, <1>14, AppendProperties
  <2> QED BY <2>1, <2>2, TextReplaced
<1>15. ASSUME strRef[a] # S!Unknown, NEW s \in S!Args, S!AppendText(a, s) PROVE KnownTexts'
  <2>1. strRef' = [strRef EXCEPT ![a] = strRef[a] \o s]
    BY <1>15 DEF S!AppendText, S!Result
  <2>2. strRef[a] \o s \in Seq(Chars)
    BY <1>1, <1>12, <1>15, ConcatProperties
  <2> QED BY <2>1, <2>2, TextReplaced
<1>16. ASSUME strRef[a] # S!Unknown, NEW i \in 0 .. str[a].size, NEW s, NEW std \in Seq(Chars),
              S!Insert(a, i, s, std)
       PROVE  KnownTexts'
  <2> DEFINE r == strRef[a]
             before == SubSeq(r, 1, i)
             behind == SubSeq(r, i + 1, Len(r))
  <2>1. strRef' = [strRef EXCEPT ![a] = (before \o std) \o behind]
    BY <1>16 DEF S!Insert, S!Opened, S!Result
  <2>2. /\ r \in Seq(Chars) /\ 1 \in Int /\ 1 <= 1 /\ i \in Int /\ i <= Len(r)
        /\ i + 1 \in Int /\ 1 <= i + 1 /\ Len(r) \in Int /\ Len(r) <= Len(r)
    BY <1>12, <1>16
  <2> HIDE DEF r
  <2>3. before \in Seq(Chars) /\ behind \in Seq(Chars)
    BY <2>2, PartOfChars
  <2> HIDE DEF before, behind
  <2>4. (before \o std) \o behind \in Seq(Chars)
    BY <1>16, <2>3, ConcatProperties
  <2> QED BY <2>1, <2>4, TextReplaced
<1>17. ASSUME strRef[a] # S!Unknown, NEW i \in 0 .. str[a].size,
              NEW sIndex \in 0 .. TextSize, NEW count \in 0 .. TextSize,
              S!InsertPart(a, i, b, sIndex, count)
       PROVE  KnownTexts'
  <2> DEFINE std == SubSeq(strRef[b], sIndex + 1, sIndex + count)
             s == SubSeq(S!Text(str[b]), 1, count)
  <2>1. strRef[b] # S!Unknown /\ sIndex + count <= str[b].size /\ S!Insert(a, i, s, std)
    BY <1>17 DEF S!InsertPart
  <2>2. /\ strRef[b] \in Seq(Chars) /\ sIndex + 1 \in Int /\ 1 <= sIndex + 1
        /\ sIndex + count \in Int /\ sIndex + count <= Len(strRef[b])
    BY <1>2, <1>6, <2>1
  <2>3. std \in Seq(Chars)
    BY <2>2, PartOfChars
  <2> HIDE DEF s, std
  <2> QED BY <1>16, <1>17, <2>1, <2>3
<1>18. ASSUME strRef[a] # S!Unknown, NEW i \in 0 .. str[a].size,
              NEW sIndex \in 0 .. TextSize, S!InsertRest(a, i, b, sIndex)
       PROVE  KnownTexts'
  <2> DEFINE std == SubSeq(strRef[b], sIndex + 1, str[b].size)
             s == S!Text(str[b])
  <2>1. strRef[b] # S!Unknown /\ S!Insert(a, i, s, std)
    BY <1>18 DEF S!InsertRest
  <2>2. /\ strRef[b] \in Seq(Chars) /\ sIndex + 1 \in Int /\ 1 <= sIndex + 1
        /\ str[b].size \in Int /\ str[b].size <= Len(strRef[b])
    BY <1>2, <1>6, <2>1
  <2>3. std \in Seq(Chars)
    BY <2>2, PartOfChars
  <2> HIDE DEF s, std
  <2> QED BY <1>16, <1>18, <2>1, <2>3
<1>19. ASSUME strRef[a] # S!Unknown, NEW s \in S!Args, NEW i \in 0 .. str[a].size,
              S!Insert(a, i, s, s)
       PROVE  KnownTexts'
  BY <1>1, <1>16, <1>19
<1> QED
  BY <1>5, <1>7, <1>8, <1>9, <1>10, <1>11, <1>13, <1>14, <1>15, <1>17, <1>18, <1>19,
     TextAssumption, 0 \in 0 .. TextSize DEF b

\* basic_string.h: compare() orders strings as their texts are ordered, and
\* find() returns the first place at which a text occurs, whatever the calls
\* before were, up to the first that deviates.
THEOREM StringSearchesAgree == S!Spec => []SearchesAgree
<1>1. StringInv /\ S!Init => TextsInv
  BY DEF TextsInv, S!Init, KnownTexts
<1>2. TextsInv /\ StringInv' /\ [S!Next]_S!vars => TextsInv'
  <2> SUFFICES ASSUME TextsInv, StringInv', [S!Next]_S!vars PROVE TextsInv'
    OBVIOUS
  <2>1. CASE UNCHANGED S!vars
    BY <2>1 DEF S!vars, TextsInv, KnownTexts
  <2>2. CASE S!Next
    <3>1. StringsGood /\ KnownTexts
      BY <2>2 DEF S!Next, TextsInv, StringInv
    <3> QED BY <2>2, <3>1, TextsStep DEF TextsInv
  <2> QED BY <2>1, <2>2
<1>3. TextsInv => SearchesAgree
  <2> SUFFICES ASSUME StringsGood, KnownTexts, NEW a \in S!Strings, NEW b \in S!Strings,
                      strRef[a] # S!Unknown, strRef[b] # S!Unknown
               PROVE
      LET v == strRef[a]
          w == strRef[b]
          common == {k \in 0 .. Len(v) : k <= Len(w) /\ SubSeq(v, 1, k) = SubSeq(w, 1, k)}
          same == CHOOSE k \in common : \A l \in common : l <= k
      IN  /\ S!Compare(str[a], str[b]) =
               IF same < Len(v) /\ same < Len(w) THEN S!Sign(v[same + 1] - w[same + 1])
               ELSE S!Sign(Len(v) - Len(w))
          /\ \A s \in S!Args, pos \in 0 .. TextSize :
               LET at == {i \in pos .. Len(v) - Len(s) : SubSeq(v, i + 1, i + Len(s)) = s}
               IN  IF at = {} THEN S!Find(str[a], s, pos) = -1
                   ELSE S!Find(str[a], s, pos) \in at
                        /\ \A i \in at : S!Find(str[a], s, pos) <= i
    BY ZenonT(30) DEF TextsInv, StringInv, SearchesAgree, S!SearchesAgree
  <2> DEFINE v == strRef[a]
             w == strRef[b]
  <2>1. /\ StringHolds(str[a], v) /\ StringHolds(str[b], w)
        /\ v \in Seq(Chars) /\ w \in Seq(Chars)
    BY DEF StringsGood, KnownTexts
  <2>2. S!Compare(str[a], str[b]) =
          LET same == GreatestOf(CommonStarts(v, w))
          IN  IF same < Len(v) /\ same < Len(w) THEN S!Sign(v[same + 1] - w[same + 1])
              ELSE S!Sign(Len(v) - Len(w))
    BY <2>1, CompareAgrees
  <2>3. ASSUME NEW s \in S!Args, NEW pos \in 0 .. TextSize
        PROVE
          LET at == {i \in pos .. Len(v) - Len(s) : SubSeq(v, i + 1, i + Len(s)) = s}
          IN  IF at = {} THEN S!Find(str[a], s, pos) = -1
              ELSE S!Find(str[a], s, pos) \in at
                   /\ \A i \in at : S!Find(str[a], s, pos) <= i
    <3>1. s \in Seq(Letter)
      BY TextArgs
    <3> QED BY <2>1, <3>1, FindAgrees
  <2> QED BY <2>2, <2>3 DEF GreatestOf, CommonStarts
<1> QED BY <1>1, <1>2, <1>3, StringInvariance, PTL DEF S!Spec

-----------------------------------------------------------------------------
(* The vector                                                              *)

\* What the cells of a block can hold, and the values of vectors.
Cell == Elements \cup {V!Unbuilt}
VecRecord == [n : Nat, eos : Nat \cup {-1}, cells : [V!Cells -> Cell]]

\* The size of elements divides that of every block.
Divides == Align % es = 0 /\ \A slack \in Slack : slack % es = 0

\* The block of v ends with an element, if the sizes divide.
EndsEven(v) == v.eos = -1 \/ (Divides => v.eos % es = 0)

\* v reads as r, as far as the cells reach.
Reads(v, r) ==
  /\ v \in VecRecord /\ r \in Seq(Elements) /\ Len(r) = v.n
  /\ v.n <= MaxBlock => \A i \in 1 .. v.n : v.cells[i - 1] = r[i]

VecHolds(v, r) == Reads(v, r) /\ V!Fits(v) /\ EndsEven(v) /\ V!Capacity(v) <= MaxBlock

VectorsGood ==
  /\ es \in ElemSizes
  /\ vec \in [V!Vecs -> VecRecord] /\ vecRef \in [V!Vecs -> Seq(Elements)]
  /\ \A a \in V!Vecs : VecHolds(vec[a], vecRef[a])

VectorInv == (~vecDeviated /\ ~vecOverrun => VectorsGood) /\ V!StaysInStorage

-----------------------------------------------------------------------------

LEMMA Quotient ==
  ASSUME NEW e \in Nat \ {0}, NEW b \in Nat
  PROVE  /\ b \div e \in Nat /\ b % e \in Nat /\ b % e < e
         /\ b = (e * (b \div e)) + (b % e)
<1>1. b \div e \in Nat
  OBVIOUS
<1>2. b % e \in Nat
  OBVIOUS
<1>3. b % e < e
  OBVIOUS
<1>4. b = (e * (b \div e)) + (b % e)
  OBVIOUS
<1> QED BY <1>1, <1>2, <1>3, <1>4

\* A block has room for as many elements as its size divided by theirs.
LEMMA RoomIs ==
  ASSUME NEW e \in Nat \ {0}, NEW b \in Nat, NEW n \in Nat
  PROVE  n <= b \div e <=> n * e <= b
  OBVIOUS

LEMMA Products ==
  ASSUME NEW e \in Nat \ {0}, NEW m \in Nat, NEW n \in Nat
  PROVE  /\ m * e \in Nat
         /\ m <= n <=> m * e <= n * e
         /\ m < n <=> m * e < n * e
         /\ (m * e) % e = 0
<1>1. m * e \in Nat
  OBVIOUS
<1>2. (m * e) % e = 0
  OBVIOUS
<1> QED BY <1>1, <1>2

\* One more element has room before an end it does not reach.
LEMMA OneMore ==
  ASSUME NEW e \in Nat \ {0}, NEW b \in Nat, NEW n \in Nat, b % e = 0, n * e < b
  PROVE  (n + 1) * e <= b
<1> DEFINE q == b \div e
<1>1. q \in Nat /\ b = (e * q) + (b % e)
  BY Quotient
<1> HIDE DEF q
<1>2. b = q * e
  BY <1>1
<1>3. n < q
  BY <1>1, <1>2, Products
<1>4. n + 1 \in Nat /\ n + 1 <= q
  BY <1>1, <1>3
<1> QED BY <1>1, <1>2, <1>4, Products

LEMMA AlignedUp ==
  ASSUME NEW b \in Nat
  PROVE  V!align_up(b) \in Nat /\ b <= V!align_up(b)
<1> DEFINE q == (b + Align - 1) \div Align
<1>1. Align \in Nat \ {0} /\ b + Align - 1 \in Nat
  BY VectorAssumption
<1>2. /\ q \in Nat /\ (b + Align - 1) % Align < Align /\ (b + Align - 1) % Align \in Nat
      /\ b + Align - 1 = (Align * q) + ((b + Align - 1) % Align)
  BY <1>1, Quotient
<1>3. V!align_up(b) = q * Align
  BY DEF V!align_up
<1> HIDE DEF q
<1>4. q * Align \in Nat /\ q * Align = Align * q
  BY <1>1, <1>2
<1> QED BY <1>1, <1>2, <1>3, <1>4

LEMMA AlignedMultiple ==
  ASSUME NEW b \in Nat, NEW e \in Nat \ {0}, Align % e = 0
  PROVE  V!align_up(b) % e = 0
<1> DEFINE q == (b + Align - 1) \div Align
           m == Align \div e
<1>1. Align \in Nat \ {0} /\ b + Align - 1 \in Nat
  BY VectorAssumption
<1>2. q \in Nat
  BY <1>1, Quotient
<1>3. m \in Nat /\ Align = (e * m) + (Align % e)
  BY <1>1, Quotient
<1>4. V!align_up(b) = q * Align
  BY DEF V!align_up
<1> HIDE DEF q, m
<1>5. q * Align = (q * m) * e /\ q * m \in Nat
  BY <1>1, <1>2, <1>3
<1> QED BY <1>4, <1>5, Products

LEMMA SumDivides ==
  ASSUME NEW e \in Nat \ {0}, NEW a \in Nat, NEW b \in Nat, a % e = 0, b % e = 0
  PROVE  (a + b) % e = 0
<1> DEFINE p == a \div e
           q == b \div e
<1>1. p \in Nat /\ a = (e * p) + (a % e) /\ q \in Nat /\ b = (e * q) + (b % e)
  BY Quotient
<1> HIDE DEF p, q
<1>2. a + b = (p + q) * e /\ p + q \in Nat
  BY <1>1
<1> QED BY <1>2, Products

-----------------------------------------------------------------------------

LEMMA SizeIs == ASSUME VectorsGood PROVE es \in Nat \ {0}
  BY VectorAssumption DEF VectorsGood

LEMMA NullIs ==
  /\ V!Null \in VecRecord /\ V!Null.n = 0 /\ V!Null.eos = -1
  BY DEF V!Null, VecRecord, Cell

\* What fits into a block that is not too large has cells.
LEMMA FitsCells ==
  ASSUME es \in Nat \ {0}, NEW v \in VecRecord, V!Fits(v), V!Capacity(v) <= MaxBlock
  PROVE  v.n <= MaxBlock /\ v.n <= V!Capacity(v)
<1>1. v.n \in Nat /\ v.eos \in Nat \cup {-1} /\ MaxBlock \in Nat
  BY VectorAssumption DEF VecRecord
<1>2. CASE v.eos = -1
  <2>1. v.n * es \in Nat
    BY <1>1
  <2>2. v.n = 0 /\ V!Capacity(v) = 0
    BY <1>1, <1>2, <2>1 DEF V!Fits, V!Capacity
  <2> QED BY <1>1, <2>2
<1>3. CASE v.eos \in Nat
  <2>1. V!Capacity(v) = v.eos \div es /\ v.eos \div es \in Nat
    BY <1>3, Quotient DEF V!Capacity
  <2>2. v.n <= v.eos \div es
    <3>1. CASE v.n = 0
      BY <2>1, <3>1
    <3>2. CASE v.n * es <= v.eos
      BY <1>1, <1>3, <3>2, RoomIs
    <3> QED BY <3>1, <3>2 DEF V!Fits
  <2> QED BY <1>1, <2>1, <2>2
<1> QED BY <1>1, <1>2, <1>3

\* What the capacity allows has room.
LEMMA CapacityFits ==
  ASSUME es \in Nat \ {0}, NEW v \in VecRecord, NEW k \in Nat, k <= V!Capacity(v)
  PROVE  k * es <= v.eos \/ k = 0
<1>1. v.eos \in Nat \cup {-1}
  BY DEF VecRecord
<1>2. CASE v.eos = -1
  BY <1>2 DEF V!Capacity
<1>3. CASE v.eos \in Nat
  BY <1>3, RoomIs DEF V!Capacity
<1> QED BY <1>1, <1>2, <1>3

LEMMA CountSet ==
  ASSUME NEW v \in VecRecord, NEW k \in Nat
  PROVE  /\ [v EXCEPT !.n = k] \in VecRecord /\ [v EXCEPT !.n = k].n = k
         /\ [v EXCEPT !.n = k].eos = v.eos /\ [v EXCEPT !.n = k].cells = v.cells
  BY DEF VecRecord

\* The block for n elements has room for them, and more if it is to.
LEMMA CreateIs ==
  ASSUME es \in Nat \ {0}, NEW n \in Nat, NEW slack \in Slack
  PROVE  LET v == V!CreateStorage(n, slack)
         IN  v \in VecRecord /\ v.n = 0 /\ EndsEven(v) /\ (n = 0 \/ n * es <= v.eos)
<1> DEFINE v == V!CreateStorage(n, slack)
<1>1. CASE n = 0
  <2>1. v = V!Null
    BY <1>1 DEF V!CreateStorage
  <2> QED BY <1>1, <2>1, NullIs DEF EndsEven
<1>2. CASE n # 0
  <2> DEFINE up == V!align_up(n * es)
  <2>1. n * es \in Nat /\ slack \in Nat
    BY VectorAssumption
  <2>2. up \in Nat /\ n * es <= up
    BY <2>1, AlignedUp
  <2>3. v = [V!Null EXCEPT !.eos = up + slack]
    BY <1>2 DEF V!CreateStorage
  <2>4. Divides => up % es = 0 /\ slack % es = 0
    BY <2>1, AlignedMultiple DEF Divides
  <2> HIDE DEF up
  <2>5. Divides => (up + slack) % es = 0
    BY <2>1, <2>2, <2>4, SumDivides
  <2>6. up + slack \in Nat /\ n * es <= up + slack
    BY <2>1, <2>2
  <2>7. v \in VecRecord /\ v.n = 0 /\ v.eos = up + slack
    BY <2>3, <2>6, NullIs DEF VecRecord
  <2> HIDE DEF v
  <2>8. EndsEven(v)
    BY <2>5, <2>7 DEF EndsEven
  <2> QED BY <2>6, <2>7, <2>8 DEF v
<1> QED BY <1>1, <1>2

LEMMA ConstructAtIs ==
  ASSUME NEW v \in VecRecord, NEW c \in Nat, NEW s \in Seq(Cell)
  PROVE  /\ V!ConstructAt(v, c, s) \in VecRecord
         /\ V!ConstructAt(v, c, s).n = v.n /\ V!ConstructAt(v, c, s).eos = v.eos
         /\ \A d \in V!Cells : V!ConstructAt(v, c, s).cells[d] =
              IF c <= d /\ d < c + Len(s) THEN s[d - c + 1] ELSE v.cells[d]
<1> DEFINE D == [d \in V!Cells |->
                   IF d - c + 1 \in 1 .. Len(s) THEN s[d - c + 1] ELSE v.cells[d]]
<1>1. V!ConstructAt(v, c, s) = [v EXCEPT !.cells = D]
  BY DEF V!ConstructAt
<1>2. Len(s) \in Nat /\ \A k \in 1 .. Len(s) : s[k] \in Cell
  BY ElementOfSeq
<1>3. D \in [V!Cells -> Cell]
  BY <1>2 DEF VecRecord
<1>4. \A d \in V!Cells : d \in Int
  BY VectorAssumption DEF V!Cells
<1>5. \A d \in V!Cells :
        D[d] = IF c <= d /\ d < c + Len(s) THEN s[d - c + 1] ELSE v.cells[d]
  BY <1>2, <1>4
<1> HIDE DEF D
<1> QED BY <1>1, <1>3, <1>5 DEF VecRecord

LEMMA DestroyIs ==
  ASSUME NEW v \in VecRecord, NEW first \in Nat, NEW last \in Nat
  PROVE  /\ V!Destroy(v, first, last) \in VecRecord
         /\ V!Destroy(v, first, last).n = v.n /\ V!Destroy(v, first, last).eos = v.eos
         /\ \A d \in V!Cells : d < first => V!Destroy(v, first, last).cells[d] = v.cells[d]
<1> DEFINE D == [d \in V!Cells |-> IF d \in first .. last - 1 THEN V!Unbuilt ELSE v.cells[d]]
<1>1. V!Destroy(v, first, last) = [v EXCEPT !.cells = D]
  BY DEF V!Destroy
<1>2. D \in [V!Cells -> Cell]
  BY DEF VecRecord, Cell
<1>3. \A d \in V!Cells : d < first => D[d] = v.cells[d]
  BY VectorAssumption DEF V!Cells
<1> HIDE DEF D
<1> QED BY <1>1, <1>2, <1>3 DEF VecRecord

\* data() and operator[] read what the vector holds.
LEMMA ContentsAre ==
  ASSUME es \in Nat \ {0}, NEW v, NEW r, VecHolds(v, r)
  PROVE  /\ V!Contents(v) = r /\ v \in VecRecord /\ r \in Seq(Elements)
         /\ v.n \in Nat /\ Len(r) = v.n /\ v.n <= MaxBlock
         /\ \A i \in 1 .. v.n : v.cells[i - 1] = r[i]
<1>1. v \in VecRecord /\ r \in Seq(Elements) /\ Len(r) = v.n /\ v.n \in Nat
  BY DEF VecHolds, Reads, VecRecord
<1>2. v.n <= MaxBlock
  BY <1>1, FitsCells DEF VecHolds
<1>3. \A i \in 1 .. v.n : v.cells[i - 1] = r[i]
  BY <1>2 DEF VecHolds, Reads
<1>4. r \in [1 .. v.n -> Elements]
  BY <1>1, LenProperties
<1>5. V!Contents(v) = [i \in 1 .. v.n |-> r[i]]
  BY <1>3 DEF V!Contents
<1> QED BY <1>1, <1>2, <1>3, <1>4, <1>5

LEMMA ElementsAreCells == ASSUME NEW s \in Seq(Elements) PROVE s \in Seq(Cell)
  BY SeqMonotonic DEF Cell

\* Elements constructed in an empty block.
LEMMA InitializeReads ==
  ASSUME NEW v \in VecRecord, v.n = 0, NEW s \in Seq(Elements)
  PROVE  Reads(V!Initialize(v, s), s) /\ V!Initialize(v, s).eos = v.eos
<1> DEFINE u == V!ConstructAt(v, 0, s)
           z == [u EXCEPT !.n = Len(s)]
<1>1. s \in Seq(Cell) /\ Len(s) \in Nat
  BY ElementsAreCells, LenProperties
<1>2. /\ u \in VecRecord /\ u.n = 0 /\ u.eos = v.eos
      /\ \A d \in V!Cells :
           u.cells[d] = IF 0 <= d /\ d < 0 + Len(s) THEN s[d - 0 + 1] ELSE v.cells[d]
  BY <1>1, ConstructAtIs, 0 \in Nat
<1>3. V!Initialize(v, s) = [u EXCEPT !.n = @ + Len(s)]
  BY DEF V!Initialize
<1> HIDE DEF u
<1>4. V!Initialize(v, s) = z
  BY <1>1, <1>2, <1>3 DEF VecRecord
<1>5. z \in VecRecord /\ z.n = Len(s) /\ z.eos = v.eos /\ z.cells = u.cells
  BY <1>1, <1>2, CountSet
<1> HIDE DEF z
<1>6. ASSUME z.n <= MaxBlock, NEW i \in 1 .. z.n PROVE z.cells[i - 1] = s[i]
  <2>1. i - 1 \in V!Cells /\ 0 <= i - 1 /\ i - 1 < 0 + Len(s) /\ (i - 1) - 0 + 1 = i
    BY <1>1, <1>5, <1>6, VectorAssumption DEF V!Cells
  <2> QED BY <1>2, <1>5, <2>1
<1> QED BY <1>4, <1>5, <1>6 DEF Reads

\* Moved to another block, a vector reads the same.
LEMMA ReallocReads ==
  ASSUME es \in Nat \ {0}, NEW v, NEW r, VecHolds(v, r), NEW n \in Nat, NEW slack \in Slack
  PROVE  LET w == V!Realloc(v, n, slack)
         IN  Reads(w, r) /\ EndsEven(w) /\ (n = 0 \/ n * es <= w.eos)
<1> DEFINE c == V!CreateStorage(n, slack)
           w == V!Realloc(v, n, slack)
<1>1. c \in VecRecord /\ c.n = 0 /\ EndsEven(c) /\ (n = 0 \/ n * es <= c.eos)
  BY CreateIs
<1>2. V!Contents(v) = r /\ r \in Seq(Elements)
  BY ContentsAre
<1>3. w = V!Initialize(c, r)
  BY <1>2 DEF V!Realloc
<1> HIDE DEF c
<1>4. Reads(w, r) /\ w.eos = c.eos
  BY <1>1, <1>2, <1>3, InitializeReads
<1> HIDE DEF w
<1>5. EndsEven(w)
  BY <1>1, <1>4 DEF EndsEven
<1> QED BY <1>1, <1>4, <1>5 DEF w

\* Elements constructed behind those there are.
LEMMA AppendReads ==
  ASSUME NEW v, NEW r, Reads(v, r), NEW s \in Seq(Elements)
  PROVE  /\ Reads([V!ConstructAt(v, v.n, s) EXCEPT !.n = v.n + Len(s)], r \o s)
         /\ [V!ConstructAt(v, v.n, s) EXCEPT !.n = v.n + Len(s)].eos = v.eos
<1> DEFINE u == V!ConstructAt(v, v.n, s)
           z == [u EXCEPT !.n = v.n + Len(s)]
<1>1. /\ v \in VecRecord /\ r \in Seq(Elements) /\ Len(r) = v.n /\ v.n \in Nat
      /\ v.n <= MaxBlock => \A i \in 1 .. v.n : v.cells[i - 1] = r[i]
  BY DEF Reads, VecRecord
<1>2. s \in Seq(Cell) /\ Len(s) \in Nat /\ MaxBlock \in Nat
  BY ElementsAreCells, LenProperties, VectorAssumption
<1>3. /\ u \in VecRecord /\ u.eos = v.eos
      /\ \A d \in V!Cells :
           u.cells[d] = IF v.n <= d /\ d < v.n + Len(s) THEN s[d - v.n + 1] ELSE v.cells[d]
  BY <1>1, <1>2, ConstructAtIs
<1> HIDE DEF u
<1>4. v.n + Len(s) \in Nat
  BY <1>1, <1>2
<1>5. z \in VecRecord /\ z.n = v.n + Len(s) /\ z.eos = v.eos /\ z.cells = u.cells
  BY <1>3, <1>4, CountSet
<1>6. /\ r \o s \in Seq(Elements) /\ Len(r \o s) = Len(r) + Len(s)
      /\ \A i \in 1 .. Len(r) + Len(s) :
           (r \o s)[i] = IF i <= Len(r) THEN r[i] ELSE s[i - Len(r)]
  BY <1>1, ConcatProperties
<1> HIDE DEF z
<1>7. ASSUME z.n <= MaxBlock, NEW i \in 1 .. z.n PROVE z.cells[i - 1] = (r \o s)[i]
  <2>1. i - 1 \in V!Cells /\ i \in Int /\ v.n <= MaxBlock
    BY <1>1, <1>2, <1>5, <1>7 DEF V!Cells
  <2>2. CASE i <= v.n
    <3>1. ~(v.n <= i - 1) /\ i \in 1 .. v.n /\ i \in 1 .. Len(r) + Len(s)
      BY <1>1, <1>2, <2>1, <2>2
    <3> QED BY <1>1, <1>3, <1>5, <1>6, <2>1, <2>2, <3>1
  <2>3. CASE i > v.n
    <3>1. v.n <= i - 1 /\ i - 1 < v.n + Len(s) /\ (i - 1) - v.n + 1 = i - Len(r)
          /\ i \in 1 .. Len(r) + Len(s) /\ ~(i <= Len(r))
      BY <1>1, <1>2, <1>5, <2>1, <2>3
    <3> QED BY <1>3, <1>5, <1>6, <2>1, <3>1
  <2>4. i <= v.n \/ i > v.n
    BY <1>1, <2>1
  <2> QED BY <2>2, <2>3, <2>4
<1>8. Reads(z, r \o s)
  BY <1>1, <1>5, <1>6, <1>7 DEF Reads
<1> QED BY <1>5, <1>8 DEF z, u

\* Parts of what a vector holds.
LEMMA PartOfElements ==
  ASSUME NEW r \in Seq(Elements), NEW m \in 1 .. Len(r) + 1, NEW n \in m - 1 .. Len(r)
  PROVE  /\ SubSeq(r, m, n) \in Seq(Elements) /\ Len(SubSeq(r, m, n)) = n - m + 1
         /\ \A i \in 1 .. n - m + 1 : SubSeq(r, m, n)[i] = r[m + i - 1]
<1>1. Len(r) \in Nat /\ m \in Int /\ n \in Int /\ \A i \in m .. n : r[i] \in Elements
  BY LenProperties, ElementOfSeq
<1>2. /\ SubSeq(r, m, n) \in Seq(Elements)
      /\ Len(SubSeq(r, m, n)) = IF m <= n THEN n - m + 1 ELSE 0
      /\ \A i \in 1 .. n - m + 1 : SubSeq(r, m, n)[i] = r[m + i - 1]
  BY <1>1, SubSeqProperties
<1>3. m <= n \/ n = m - 1
  BY <1>1
<1> QED BY <1>1, <1>2, <1>3

\* The first k elements.
LEMMA FirstElements ==
  ASSUME NEW r \in Seq(Elements), NEW k \in 0 .. Len(r)
  PROVE  /\ SubSeq(r, 1, k) \in Seq(Elements) /\ Len(SubSeq(r, 1, k)) = k
         /\ \A i \in 1 .. k : SubSeq(r, 1, k)[i] = r[i]
<1>1. Len(r) \in Nat
  BY LenProperties
<1>2. 1 \in 1 .. Len(r) + 1 /\ k \in 1 - 1 .. Len(r)
  BY <1>1
<1>3. /\ SubSeq(r, 1, k) \in Seq(Elements) /\ Len(SubSeq(r, 1, k)) = k - 1 + 1
      /\ \A i \in 1 .. k - 1 + 1 : SubSeq(r, 1, k)[i] = r[1 + i - 1]
  BY <1>2, PartOfElements
<1>4. k - 1 + 1 = k /\ \A i \in 1 .. k : 1 + i - 1 = i
  BY <1>1
<1> QED BY <1>3, <1>4

\* Those behind the first k.
LEMMA LastElements ==
  ASSUME NEW r \in Seq(Elements), NEW k \in 0 .. Len(r)
  PROVE  /\ SubSeq(r, k + 1, Len(r)) \in Seq(Elements)
         /\ Len(SubSeq(r, k + 1, Len(r))) = Len(r) - k
         /\ \A i \in 1 .. Len(r) - k : SubSeq(r, k + 1, Len(r))[i] = r[k + i]
<1>1. Len(r) \in Nat
  BY LenProperties
<1>2. k + 1 \in 1 .. Len(r) + 1 /\ Len(r) \in (k + 1) - 1 .. Len(r)
  BY <1>1
<1> DEFINE p == SubSeq(r, k + 1, Len(r))
<1>3. /\ p \in Seq(Elements) /\ Len(p) = Len(r) - (k + 1) + 1
      /\ \A i \in 1 .. Len(r) - (k + 1) + 1 : p[i] = r[(k + 1) + i - 1]
  BY <1>2, PartOfElements
<1> HIDE DEF p
<1>4. Len(r) - (k + 1) + 1 = Len(r) - k
  BY <1>1
<1>5. \A i \in 1 .. Len(r) - k : (k + 1) + i - 1 = k + i
  BY <1>1
<1>6. p \in Seq(Elements) /\ Len(p) = Len(r) - k /\ \A i \in 1 .. Len(r) - k : p[i] = r[k + i]
  BY <1>3, <1>4, <1>5
<1> QED BY <1>6 DEF p

\* Elements destroyed at the end.
LEMMA TruncateReads ==
  ASSUME NEW v, NEW r, Reads(v, r), v.n <= MaxBlock, NEW k \in 0 .. v.n
  PROVE  /\ Reads([V!Destroy(v, k, v.n) EXCEPT !.n = k], SubSeq(r, 1, k))
         /\ [V!Destroy(v, k, v.n) EXCEPT !.n = k].eos = v.eos
<1> DEFINE u == V!Destroy(v, k, v.n)
           z == [u EXCEPT !.n = k]
<1>1. /\ v \in VecRecord /\ r \in Seq(Elements) /\ Len(r) = v.n /\ v.n \in Nat /\ k \in Nat
      /\ \A i \in 1 .. v.n : v.cells[i - 1] = r[i]
  BY DEF Reads, VecRecord
<1>2. /\ u \in VecRecord /\ u.eos = v.eos
      /\ \A d \in V!Cells : d < k => u.cells[d] = v.cells[d]
  BY <1>1, DestroyIs
<1> HIDE DEF u
<1>3. z \in VecRecord /\ z.n = k /\ z.eos = v.eos /\ z.cells = u.cells
  BY <1>1, <1>2, CountSet
<1>4. /\ SubSeq(r, 1, k) \in Seq(Elements) /\ Len(SubSeq(r, 1, k)) = k
      /\ \A i \in 1 .. k : SubSeq(r, 1, k)[i] = r[i]
  BY <1>1, FirstElements
<1> HIDE DEF z
<1>5. ASSUME NEW i \in 1 .. k PROVE z.cells[i - 1] = SubSeq(r, 1, k)[i]
  <2>1. i - 1 \in V!Cells /\ i - 1 < k /\ i \in 1 .. v.n
    BY <1>1, VectorAssumption DEF V!Cells
  <2> QED BY <1>1, <1>2, <1>3, <1>4, <2>1
<1>6. Reads(z, SubSeq(r, 1, k))
  BY <1>3, <1>4, <1>5 DEF Reads
<1> QED BY <1>3, <1>6 DEF z, u

\* _m_move_to moves the elements, where it does not lose one.
LEMMA MoveToIs ==
  ASSUME NEW v \in VecRecord, NEW first \in Nat, NEW last \in Nat, NEW dst \in Nat,
         first <= last, last <= MaxBlock + 1, ~V!MoveLoses(first, last, dst)
  PROVE  LET w == V!MoveTo(v, first, last, dst)
         IN  /\ w \in VecRecord /\ w.n = v.n /\ w.eos = v.eos
             /\ \A d \in V!Cells :
                  w.cells[d] = IF dst <= d /\ d < dst + (last - first)
                               THEN v.cells[first + (d - dst)] ELSE v.cells[d]
<1> DEFINE w == V!MoveTo(v, first, last, dst)
           m == last - first
<1>1. m \in Nat /\ MaxBlock \in Nat /\ \A d \in V!Cells : d \in Nat
  BY VectorAssumption DEF V!Cells
<1>2. \A d \in first .. last - 1 : d \in V!Cells
  BY <1>1 DEF V!Cells
<1>3. CASE dst = first \/ first >= last
  <2>1. w = v
    BY <1>3 DEF V!MoveTo
  <2>2. ASSUME NEW d \in V!Cells, dst <= d, d < dst + m PROVE first + (d - dst) = d
    BY <1>1, <1>3, <2>2
  <2> HIDE DEF w, m
  <2>3. \A d \in V!Cells :
          w.cells[d] = IF dst <= d /\ d < dst + m THEN v.cells[first + (d - dst)] ELSE v.cells[d]
    BY <2>1, <2>2
  <2> QED BY <2>1, <2>3 DEF w, m
<1>4. CASE ~(dst = first \/ first >= last) /\ (dst < first \/ dst > last + 1)
  <2> DEFINE s == <<v.cells[last - 1]>>
  <2>1. m = 1 /\ last - 1 = first
    BY <1>1, <1>4 DEF V!MoveLoses
  <2>2. w = V!ConstructAt(v, dst, s)
    BY <1>4 DEF V!MoveTo
  <2>3. v.cells[last - 1] \in Cell
    BY <1>1, <1>2, <2>1 DEF VecRecord
  <2>4. s \in Seq(Cell) /\ Len(s) = 1 /\ s[1] = v.cells[first]
    BY <2>1, <2>3
  <2> HIDE DEF s, m, w
  <2>5. /\ w \in VecRecord /\ w.n = v.n /\ w.eos = v.eos
        /\ \A d \in V!Cells :
             w.cells[d] = IF dst <= d /\ d < dst + Len(s) THEN s[d - dst + 1] ELSE v.cells[d]
    BY <2>2, <2>4, ConstructAtIs
  <2>6. ASSUME NEW d \in V!Cells
        PROVE  w.cells[d] = IF dst <= d /\ d < dst + m
                            THEN v.cells[first + (d - dst)] ELSE v.cells[d]
    <3>1. CASE dst <= d /\ d < dst + m
      <4>1. d - dst + 1 = 1 /\ first + (d - dst) = first
        BY <1>1, <2>1, <3>1
      <4> QED BY <2>1, <2>4, <2>5, <3>1, <4>1
    <3>2. CASE ~(dst <= d /\ d < dst + m)
      BY <2>1, <2>4, <2>5, <3>2
    <3> QED BY <3>1, <3>2
  <2> QED BY <2>5, <2>6 DEF w, m
<1>5. CASE ~(dst = first \/ first >= last) /\ ~(dst < first \/ dst > last + 1)
  <2> DEFINE s == [i \in 1 .. m |-> v.cells[first + i - 1]]
  <2>1. w = V!ConstructAt(v, dst, s)
    BY <1>5 DEF V!MoveTo
  <2>2. \A i \in 1 .. m : first + i - 1 \in V!Cells
    BY <1>1, <1>2
  <2>3. s \in [1 .. m -> Cell]
    BY <2>2 DEF VecRecord
  <2>4. s \in Seq(Cell) /\ Len(s) = m /\ \A i \in 1 .. m : s[i] = v.cells[first + i - 1]
    <3>1. \A i \in 1 .. m : s[i] = v.cells[first + i - 1]
      OBVIOUS
    <3> HIDE DEF s, m
    <3>2. s \in Seq(Cell) /\ Len(s) = m
      BY <1>1, <2>3
    <3> QED BY <3>1, <3>2
  <2> HIDE DEF s, m, w
  <2>5. /\ w \in VecRecord /\ w.n = v.n /\ w.eos = v.eos
        /\ \A d \in V!Cells :
             w.cells[d] = IF dst <= d /\ d < dst + Len(s) THEN s[d - dst + 1] ELSE v.cells[d]
    BY <2>1, <2>4, ConstructAtIs
  <2>6. ASSUME NEW d \in V!Cells
        PROVE  w.cells[d] = IF dst <= d /\ d < dst + m
                            THEN v.cells[first + (d - dst)] ELSE v.cells[d]
    <3>1. CASE dst <= d /\ d < dst + m
      <4>1. d - dst + 1 \in 1 .. m /\ first + (d - dst + 1) - 1 = first + (d - dst)
        BY <1>1, <3>1
      <4> QED BY <2>4, <2>5, <3>1, <4>1
    <3>2. CASE ~(dst <= d /\ d < dst + m)
      BY <2>4, <2>5, <3>2
    <3> QED BY <3>1, <3>2
  <2> QED BY <2>5, <2>6 DEF w, m
<1> QED BY <1>3, <1>4, <1>5

\* insert(): the rest moved on, the new elements in the gap.
LEMMA InsertReads ==
  ASSUME NEW v, NEW r, Reads(v, r), v.n <= MaxBlock, NEW pos \in 0 .. v.n,
         NEW s \in Seq(Elements), ~V!MoveLoses(pos, v.n, pos + Len(s))
  PROVE  LET z == [V!ConstructAt(V!MoveTo(v, pos, v.n, pos + Len(s)), pos, s)
                     EXCEPT !.n = @ + Len(s)]
         IN  /\ Reads(z, SubSeq(r, 1, pos) \o s \o SubSeq(r, pos + 1, Len(r)))
             /\ z.eos = v.eos /\ z.n = v.n + Len(s)
<1> DEFINE k == Len(s)
           w == V!MoveTo(v, pos, v.n, pos + Len(s))
           u == V!ConstructAt(w, pos, s)
           z == [u EXCEPT !.n = v.n + k]
           before == SubSeq(r, 1, pos)
           behind == SubSeq(r, pos + 1, Len(r))
           f == before \o s
           o == f \o behind
<1>1. /\ v \in VecRecord /\ r \in Seq(Elements) /\ Len(r) = v.n /\ v.n \in Nat
      /\ \A i \in 1 .. v.n : v.cells[i - 1] = r[i]
      /\ pos \in Nat /\ pos <= v.n /\ MaxBlock \in Nat /\ v.n <= MaxBlock + 1
  BY VectorAssumption DEF Reads, VecRecord
<1>2. s \in Seq(Cell) /\ k \in Nat /\ pos + k \in Nat /\ v.n + k \in Nat
  BY <1>1, ElementsAreCells, LenProperties
<1>3. /\ w \in VecRecord /\ w.n = v.n /\ w.eos = v.eos
      /\ \A d \in V!Cells :
           w.cells[d] = IF pos + k <= d /\ d < pos + k + (v.n - pos)
                        THEN v.cells[pos + (d - (pos + k))] ELSE v.cells[d]
  BY <1>1, <1>2, MoveToIs, SMTT(30)
<1> HIDE DEF w
<1>4. /\ u \in VecRecord /\ u.n = v.n /\ u.eos = v.eos
      /\ \A d \in V!Cells :
           u.cells[d] = IF pos <= d /\ d < pos + k THEN s[d - pos + 1] ELSE w.cells[d]
  BY <1>1, <1>2, <1>3, ConstructAtIs
<1> HIDE DEF u
<1>5. z \in VecRecord /\ z.n = v.n + k /\ z.eos = v.eos /\ z.cells = u.cells
  BY <1>2, <1>4, CountSet
<1>6. [u EXCEPT !.n = @ + Len(s)] = z
  BY <1>4 DEF VecRecord
<1> HIDE DEF z
<1>7. /\ before \in Seq(Elements) /\ Len(before) = pos
      /\ \A i \in 1 .. pos : before[i] = r[i]
  BY <1>1, FirstElements
<1>8. /\ behind \in Seq(Elements) /\ Len(behind) = Len(r) - pos
      /\ \A i \in 1 .. Len(r) - pos : behind[i] = r[pos + i]
  BY <1>1, LastElements
<1> HIDE DEF before, behind
<1>9. /\ f \in Seq(Elements) /\ Len(f) = pos + k
      /\ \A i \in 1 .. pos + k : f[i] = IF i <= pos THEN before[i] ELSE s[i - pos]
  BY <1>7, ConcatProperties
<1> HIDE DEF f
<1>10. /\ o \in Seq(Elements) /\ Len(o) = Len(f) + Len(behind)
       /\ \A i \in 1 .. Len(f) + Len(behind) :
            o[i] = IF i <= Len(f) THEN f[i] ELSE behind[i - Len(f)]
  BY <1>8, <1>9, ConcatProperties
<1>11. Len(f) + Len(behind) = v.n + k
  BY <1>1, <1>2, <1>8, <1>9
<1> HIDE DEF o, k
<1>12. ASSUME z.n <= MaxBlock, NEW i \in 1 .. z.n PROVE z.cells[i - 1] = o[i]
  <2>1. i - 1 \in V!Cells /\ i \in Int /\ i \in 1 .. v.n + k
    BY <1>1, <1>2, <1>5, <1>12 DEF V!Cells
  <2>2. CASE i <= pos
    <3>1. ~(pos <= i - 1) /\ ~(pos + k <= i - 1) /\ i \in 1 .. v.n
          /\ i <= pos + k /\ i \in 1 .. pos + k /\ i \in 1 .. pos
      BY <1>1, <1>2, <2>1, <2>2
    <3>2. z.cells[i - 1] = v.cells[i - 1]
      BY <1>3, <1>4, <1>5, <2>1, <3>1
    <3>3. o[i] = before[i]
      BY <1>9, <1>10, <1>11, <2>1, <2>2, <3>1
    <3> QED BY <1>1, <1>7, <3>1, <3>2, <3>3
  <2>3. CASE pos < i /\ i <= pos + k
    <3>1. pos <= i - 1 /\ i - 1 < pos + k /\ (i - 1) - pos + 1 = i - pos
          /\ i \in 1 .. pos + k /\ ~(i <= pos)
      BY <1>1, <1>2, <2>1, <2>3
    <3>2. z.cells[i - 1] = s[i - pos]
      BY <1>4, <1>5, <2>1, <3>1
    <3>3. o[i] = s[i - pos]
      BY <1>9, <1>10, <1>11, <2>1, <2>3, <3>1
    <3> QED BY <3>2, <3>3
  <2>4. CASE pos + k < i
    <3>1. /\ ~(i - 1 < pos + k) /\ pos + k <= i - 1 /\ i - 1 < pos + k + (v.n - pos)
          /\ pos + ((i - 1) - (pos + k)) = (i - k) - 1 /\ i - k \in 1 .. v.n
          /\ ~(i <= pos + k) /\ i - (pos + k) \in 1 .. Len(r) - pos
          /\ pos + (i - (pos + k)) = i - k
      <4>1. /\ i \in Int /\ pos \in Nat /\ k \in Nat /\ v.n \in Nat /\ pos <= v.n
            /\ i \in 1 .. v.n + k /\ pos + k < i /\ Len(r) = v.n
        BY <1>1, <1>2, <2>1, <2>4
      <4> HIDE DEF k
      <4> QED BY ONLY <4>1
    <3>2. z.cells[i - 1] = v.cells[(i - k) - 1]
      BY <1>3, <1>4, <1>5, <2>1, <3>1
    <3>3. o[i] = r[i - k]
      BY <1>8, <1>9, <1>10, <1>11, <2>1, <3>1
    <3> QED BY <1>1, <3>1, <3>2, <3>3
  <2>5. i <= pos \/ (pos < i /\ i <= pos + k) \/ pos + k < i
    BY <1>1, <1>2, <2>1
  <2> QED BY <2>2, <2>3, <2>4, <2>5
<1>13. Reads(z, o)
  BY <1>5, <1>10, <1>11, <1>12 DEF Reads
<1> QED BY <1>5, <1>6, <1>13 DEF o, f, before, behind, u, w, k

\* erase(): the rest moved to the front, where that loses nothing.
LEMMA EraseReads ==
  ASSUME NEW v, NEW r, Reads(v, r), v.n <= MaxBlock,
         NEW first \in 0 .. v.n, NEW last \in first .. v.n,
         ~V!MoveLoses(last, v.n, first)
  PROVE  LET w == V!MoveTo(v, last, v.n, first)
             z == [w EXCEPT !.n = v.n - (last - first)]
         IN  /\ Reads(z, SubSeq(r, 1, first) \o SubSeq(r, last + 1, Len(r)))
             /\ z.eos = v.eos /\ z.n = v.n - (last - first) /\ w.n = v.n
<1> DEFINE k == last - first
           w == V!MoveTo(v, last, v.n, first)
           z == [w EXCEPT !.n = v.n - k]
           before == SubSeq(r, 1, first)
           behind == SubSeq(r, last + 1, Len(r))
           o == before \o behind
<1>1. /\ v \in VecRecord /\ r \in Seq(Elements) /\ Len(r) = v.n /\ v.n \in Nat
      /\ \A i \in 1 .. v.n : v.cells[i - 1] = r[i]
      /\ first \in Nat /\ last \in Nat /\ last <= v.n /\ first <= last
      /\ first \in 0 .. Len(r) /\ last \in 0 .. Len(r)
      /\ MaxBlock \in Nat /\ v.n <= MaxBlock + 1
  BY VectorAssumption DEF Reads, VecRecord
<1>2. k \in Nat /\ v.n - k \in Nat
  BY <1>1
<1>3. /\ w \in VecRecord /\ w.n = v.n /\ w.eos = v.eos
      /\ \A d \in V!Cells :
           w.cells[d] = IF first <= d /\ d < first + (v.n - last)
                        THEN v.cells[last + (d - first)] ELSE v.cells[d]
  BY <1>1, MoveToIs
<1> HIDE DEF w
<1>4. z \in VecRecord /\ z.n = v.n - k /\ z.eos = v.eos /\ z.cells = w.cells
  BY <1>2, <1>3, CountSet
<1> HIDE DEF z
<1>5. /\ before \in Seq(Elements) /\ Len(before) = first
      /\ \A i \in 1 .. first : before[i] = r[i]
  BY <1>1, FirstElements
<1>6. /\ behind \in Seq(Elements) /\ Len(behind) = Len(r) - last
      /\ \A i \in 1 .. Len(r) - last : behind[i] = r[last + i]
  BY <1>1, LastElements
<1> HIDE DEF before, behind
<1>7. /\ o \in Seq(Elements) /\ Len(o) = first + (Len(r) - last)
      /\ \A i \in 1 .. first + (Len(r) - last) :
           o[i] = IF i <= first THEN before[i] ELSE behind[i - first]
  <2>1. /\ o \in Seq(Elements) /\ Len(o) = Len(before) + Len(behind)
        /\ \A i \in 1 .. Len(before) + Len(behind) :
             o[i] = IF i <= Len(before) THEN before[i] ELSE behind[i - Len(before)]
    BY <1>5, <1>6, ConcatProperties
  <2> HIDE DEF o
  <2> QED BY <1>5, <1>6, <2>1
<1> HIDE DEF o
<1>8. first + (Len(r) - last) = v.n - k
  BY <1>1
<1>9. ASSUME NEW i \in 1 .. v.n - k PROVE z.cells[i - 1] = o[i]
  <2>1. i - 1 \in V!Cells /\ i \in Int /\ i \in 1 .. first + (Len(r) - last)
    BY <1>1, <1>2, <1>8 DEF V!Cells
  <2>2. CASE i <= first
    <3>1. ~(first <= i - 1) /\ i \in 1 .. v.n /\ i \in 1 .. first
      BY <1>1, <2>1, <2>2
    <3> QED BY <1>1, <1>3, <1>4, <1>5, <1>7, <2>1, <2>2, <3>1
  <2>3. CASE i > first
    <3>1. /\ first <= i - 1 /\ i - 1 < first + (v.n - last)
          /\ last + ((i - 1) - first) = (last + (i - first)) - 1
          /\ last + (i - first) \in 1 .. v.n /\ i - first \in 1 .. Len(r) - last
          /\ ~(i <= first)
      <4>1. /\ i \in Int /\ i <= first + (v.n - last) /\ i > first
            /\ first \in Nat /\ last \in Nat /\ v.n \in Nat /\ Len(r) = v.n
        BY <1>1, <2>1, <2>3
      <4> QED BY ONLY <4>1
    <3>2. z.cells[i - 1] = v.cells[(last + (i - first)) - 1]
      BY <1>3, <1>4, <2>1, <3>1
    <3>3. o[i] = r[last + (i - first)]
      BY <1>6, <1>7, <2>1, <3>1
    <3> QED BY <1>1, <3>1, <3>2, <3>3
  <2>4. i <= first \/ i > first
    BY <1>1, <2>1
  <2> QED BY <2>2, <2>3, <2>4
<1>10. Reads(z, o)
  BY <1>4, <1>7, <1>8, <1>9 DEF Reads
<1> HIDE DEF k
<1> QED BY <1>3, <1>4, <1>10 DEF o, before, behind, w, k, z

-----------------------------------------------------------------------------

\* A call that replaces one of the vectors by one that reads as it should.
LEMMA VectorResult ==
  ASSUME VectorsGood, NEW a \in V!Vecs, NEW v, NEW r, V!Capacity(v) <= MaxBlock,
         vec' = [vec EXCEPT ![a] = V!Destroy(v, v.n, MaxBlock + 1)],
         vecRef' = [vecRef EXCEPT ![a] = r],
         vecOverrun' <=> ~V!Fits(v), es' = es,
         ~vecDeviated' => Reads(v, r) /\ EndsEven(v) /\ (Divides => V!Fits(v))
  PROVE  VectorInv'
<1>1. V!StaysInStorage'
  <2> SUFFICES ASSUME vecOverrun', ~vecDeviated'
               PROVE  Align % es # 0 \/ \E slack \in Slack : slack % es # 0
    BY DEF V!StaysInStorage
  <2>1. ~Divides
    OBVIOUS
  <2> QED BY <2>1 DEF Divides
<1>2. ASSUME ~vecDeviated', ~vecOverrun' PROVE VectorsGood'
  <2> DEFINE z == V!Destroy(v, v.n, MaxBlock + 1)
  <2>1. Reads(v, r) /\ EndsEven(v) /\ V!Fits(v) /\ es \in Nat \ {0}
    BY <1>2, SizeIs
  <2>2. /\ v \in VecRecord /\ r \in Seq(Elements) /\ v.n \in Nat /\ Len(r) = v.n
        /\ MaxBlock + 1 \in Nat
    BY <2>1, VectorAssumption DEF Reads, VecRecord
  <2>3. /\ z \in VecRecord /\ z.n = v.n /\ z.eos = v.eos
        /\ \A d \in V!Cells : d < v.n => z.cells[d] = v.cells[d]
    BY <2>2, DestroyIs
  <2>4. v.n <= MaxBlock /\ \A i \in 1 .. v.n : v.cells[i - 1] = r[i]
    <3>1. v.n <= MaxBlock
      BY <2>1, <2>2, FitsCells
    <3> QED BY <2>1, <3>1 DEF Reads
  <2> HIDE DEF z
  <2>5. \A i \in 1 .. v.n : z.cells[i - 1] = r[i]
    <3> SUFFICES ASSUME NEW i \in 1 .. v.n PROVE z.cells[i - 1] = r[i]
      OBVIOUS
    <3>1. i - 1 \in V!Cells /\ i - 1 < v.n
      BY <2>2, <2>4, VectorAssumption DEF V!Cells
    <3> QED BY <2>3, <2>4, <3>1
  <2>6. VecHolds(z, r)
    <3>1. Reads(z, r)
      BY <2>2, <2>3, <2>5 DEF Reads
    <3>2. EndsEven(z) /\ V!Fits(z) /\ V!Capacity(z) <= MaxBlock
      BY <2>1, <2>3 DEF EndsEven, V!Fits, V!Capacity
    <3> QED BY <3>1, <3>2 DEF VecHolds
  <2>7. \A b \in V!Vecs : /\ vec'[b] = IF b = a THEN z ELSE vec[b]
                          /\ vecRef'[b] = IF b = a THEN r ELSE vecRef[b]
    BY DEF VectorsGood, z
  <2>8. \A b \in V!Vecs : VecHolds(vec'[b], vecRef'[b])
    BY <2>6, <2>7 DEF VectorsGood
  <2>9. \A b \in V!Vecs : VecHolds(vec[b], vecRef[b])'
    BY <2>8 DEF VecHolds, Reads, EndsEven, Divides, V!Fits, V!Capacity
  <2>10. vec' \in [V!Vecs -> VecRecord] /\ vecRef' \in [V!Vecs -> Seq(Elements)]
    BY <2>2, <2>3 DEF VectorsGood, z
  <2> QED BY <2>9, <2>10 DEF VectorsGood
<1> QED BY <1>1, <1>2 DEF VectorInv

\* What the arguments of calls are.
LEMMA ElementArgs == \A s \in V!Args : s \in Seq(Elements) /\ Len(s) \in Nat
<1>1. \A k \in Nat : \A s \in [1 .. k -> Elements] : s \in Seq(Elements) /\ Len(s) \in Nat
  OBVIOUS
<1>2. \A s \in V!Args : \E k \in Nat : s \in [1 .. k -> Elements]
  BY VectorAssumption DEF V!Args
<1> QED BY <1>1, <1>2

\* Elements in a new block.
LEMMA NewBlock ==
  ASSUME VectorsGood, NEW s \in Seq(Elements), NEW slack \in Slack
  PROVE  LET v == V!Initialize(V!CreateStorage(Len(s), slack), s)
         IN  Reads(v, s) /\ EndsEven(v) /\ V!Fits(v)
<1> DEFINE c == V!CreateStorage(Len(s), slack)
           v == V!Initialize(c, s)
<1>1. es \in Nat \ {0} /\ Len(s) \in Nat
  BY SizeIs, LenProperties
<1>2. c \in VecRecord /\ c.n = 0 /\ EndsEven(c) /\ (Len(s) = 0 \/ Len(s) * es <= c.eos)
  BY <1>1, CreateIs
<1> HIDE DEF c
<1>3. Reads(v, s) /\ v.eos = c.eos
  BY <1>2, InitializeReads
<1> HIDE DEF v
<1>4. EndsEven(v) /\ V!Fits(v)
  BY <1>2, <1>3 DEF EndsEven, V!Fits, Reads
<1> QED BY <1>3, <1>4 DEF v, c

LEMMA ConstructStep ==
  ASSUME VectorsGood, NEW a \in V!Vecs, NEW s \in Seq(Elements), V!Construct(a, s)
  PROVE  VectorInv'
<1>1. PICK slack \in Slack :
        V!Result(a, V!Initialize(V!CreateStorage(Len(s), slack), s), s, FALSE)
  BY DEF V!Construct
<1> DEFINE v == V!Initialize(V!CreateStorage(Len(s), slack), s)
<1>2. Reads(v, s) /\ EndsEven(v) /\ V!Fits(v)
  BY NewBlock
<1>3. /\ V!Capacity(v) <= MaxBlock /\ vec' = [vec EXCEPT ![a] = V!Destroy(v, v.n, MaxBlock + 1)]
      /\ vecRef' = [vecRef EXCEPT ![a] = s] /\ es' = es /\ (vecOverrun' <=> ~V!Fits(v))
  BY <1>1 DEF V!Result
<1> HIDE DEF v
<1> QED BY <1>2, <1>3, VectorResult

\* The elements destroyed, an empty block of the same size.
LEMMA Emptied ==
  ASSUME VectorsGood, NEW a \in V!Vecs
  PROVE  LET v == V!Destroy(vec[a], 0, vec[a].n)
         IN  /\ v \in VecRecord /\ v.n = vec[a].n /\ v.eos = vec[a].eos /\ EndsEven(v)
             /\ V!Capacity(v) = V!Capacity(vec[a])
<1> DEFINE v == V!Destroy(vec[a], 0, vec[a].n)
<1>1. VecHolds(vec[a], vecRef[a]) /\ vec[a] \in VecRecord /\ vec[a].n \in Nat
  BY DEF VectorsGood, VecRecord
<1>2. v \in VecRecord /\ v.n = vec[a].n /\ v.eos = vec[a].eos
  BY <1>1, DestroyIs, 0 \in Nat
<1> HIDE DEF v
<1>3. EndsEven(v) /\ V!Capacity(v) = V!Capacity(vec[a])
  BY <1>1, <1>2 DEF VecHolds, EndsEven, V!Capacity
<1> QED BY <1>2, <1>3 DEF v

LEMMA AssignStep ==
  ASSUME VectorsGood, NEW a \in V!Vecs, NEW s \in Seq(Elements), V!Assign(a, s)
  PROVE  VectorInv'
<1> DEFINE v == V!Destroy(vec[a], 0, vec[a].n)
<1>1. v \in VecRecord /\ v.n \in Nat /\ EndsEven(v) /\ Len(s) \in Nat /\ es \in Nat \ {0}
  BY Emptied, LenProperties, SizeIs DEF VecRecord
<1>2. CASE Len(s) > V!Capacity(v) /\ V!Construct(a, s)
  BY <1>2, ConstructStep
<1>3. CASE V!Result(a, v, s, TRUE)
  <2>1. /\ V!Capacity(v) <= MaxBlock /\ vec' = [vec EXCEPT ![a] = V!Destroy(v, v.n, MaxBlock + 1)]
        /\ vecRef' = [vecRef EXCEPT ![a] = s] /\ es' = es /\ (vecOverrun' <=> ~V!Fits(v))
        /\ vecDeviated'
    BY <1>3 DEF V!Result
  <2> HIDE DEF v
  <2> QED BY <2>1, VectorResult
<1>4. CASE ~(Len(s) > V!Capacity(v)) /\ V!Result(a, V!Initialize(v, s), s, v.n > 0)
  <2> DEFINE z == V!Initialize(v, s)
  <2>1. /\ V!Capacity(z) <= MaxBlock /\ vec' = [vec EXCEPT ![a] = V!Destroy(z, z.n, MaxBlock + 1)]
        /\ vecRef' = [vecRef EXCEPT ![a] = s] /\ es' = es /\ (vecOverrun' <=> ~V!Fits(z))
        /\ (vecDeviated' <=> v.n > 0)
    BY <1>4 DEF V!Result
  <2> HIDE DEF v
  <2>2. ASSUME v.n = 0 PROVE Reads(z, s) /\ EndsEven(z) /\ V!Fits(z)
    <3>1. Reads(z, s) /\ z.eos = v.eos
      BY <1>1, <2>2, InitializeReads
    <3>2. Len(s) * es <= v.eos \/ Len(s) = 0
      <4>1. V!Capacity(v) \in Int
        <5>1. v.eos \in Nat \cup {-1}
          BY <1>1 DEF VecRecord
        <5>2. v.eos \in Nat => v.eos \div es \in Nat
          BY <1>1, Quotient
        <5> QED BY <5>1, <5>2 DEF V!Capacity
      <4>2. Len(s) <= V!Capacity(v)
        BY <1>1, <1>4, <4>1
      <4> QED BY <1>1, <4>2, CapacityFits
    <3> HIDE DEF z
    <3> QED BY <1>1, <3>1, <3>2 DEF EndsEven, V!Fits, Reads
  <2>3. ~vecDeviated' => v.n = 0
    BY <1>1, <2>1
  <2> HIDE DEF z
  <2> QED BY <2>1, <2>2, <2>3, VectorResult
<1> QED BY <1>2, <1>3, <1>4 DEF V!Assign, V!Construct

LEMMA AssignListStep ==
  ASSUME VectorsGood, NEW a \in V!Vecs, NEW s \in Seq(Elements), V!AssignList(a, s)
  PROVE  VectorInv'
<1> DEFINE u == V!Destroy(vec[a], 0, vec[a].n)
           v == [u EXCEPT !.n = 0]
           z == V!Initialize(v, s)
<1>1. u \in VecRecord /\ EndsEven(u) /\ Len(s) \in Nat /\ es \in Nat \ {0}
  BY Emptied, LenProperties, SizeIs
<1>2. /\ Len(s) <= V!Capacity(u)
      /\ V!Capacity(z) <= MaxBlock /\ vec' = [vec EXCEPT ![a] = V!Destroy(z, z.n, MaxBlock + 1)]
      /\ vecRef' = [vecRef EXCEPT ![a] = s] /\ es' = es /\ (vecOverrun' <=> ~V!Fits(z))
  BY DEF V!AssignList, V!Result
<1> HIDE DEF u
<1>3. v \in VecRecord /\ v.n = 0 /\ v.eos = u.eos
  BY <1>1, CountSet, 0 \in Nat
<1> HIDE DEF v
<1>4. Reads(z, s) /\ z.eos = u.eos
  BY <1>3, InitializeReads
<1>5. Len(s) * es <= u.eos \/ Len(s) = 0
  BY <1>1, <1>2, CapacityFits
<1> HIDE DEF z
<1>6. EndsEven(z) /\ V!Fits(z)
  BY <1>1, <1>4, <1>5 DEF EndsEven, V!Fits, Reads
<1> QED BY <1>2, <1>4, <1>6, VectorResult

\* The move constructor and swap() hand the blocks over.
LEMMA HandOverStep ==
  ASSUME VectorsGood, V!Swap \/ \E a \in V!Vecs : V!MoveConstruct(a, 3 - a),
         ~vecDeviated, ~vecOverrun
  PROVE  VectorInv'
<1>1. /\ es' = es /\ ~vecDeviated' /\ ~vecOverrun'
      /\ vec' = [b \in V!Vecs |-> vec'[b]] /\ vecRef' = [b \in V!Vecs |-> vecRef'[b]]
  BY DEF V!Swap, V!MoveConstruct, VectorsGood
<1>2. \A a \in V!Vecs : 3 - a \in V!Vecs /\ 3 - a # a
  BY DEF V!Vecs
<1>3. VecHolds(V!Null, <<>>)
  BY NullIs, VectorAssumption DEF VecHolds, Reads, EndsEven, V!Fits, V!Capacity
<1>4. \A b \in V!Vecs : VecHolds(vec'[b], vecRef'[b])
  <2>1. CASE V!Swap
    BY <1>2, <2>1 DEF V!Swap, VectorsGood
  <2>2. ASSUME NEW a \in V!Vecs, V!MoveConstruct(a, 3 - a)
        PROVE  \A b \in V!Vecs : VecHolds(vec'[b], vecRef'[b])
    <3>1. /\ vec'[a] = vec[3 - a] /\ vec'[3 - a] = V!Null
          /\ vecRef'[a] = vecRef[3 - a] /\ vecRef'[3 - a] = <<>>
      BY <1>2, <2>2 DEF V!MoveConstruct, VectorsGood
    <3>2. \A b \in V!Vecs : b = a \/ b = 3 - a
      BY DEF V!Vecs
    <3> QED BY <1>2, <1>3, <3>1, <3>2 DEF VectorsGood
  <2> QED BY <2>1, <2>2
<1>5. \A b \in V!Vecs : VecHolds(vec[b], vecRef[b])'
  BY <1>1, <1>4 DEF VecHolds, Reads, EndsEven, Divides, V!Fits, V!Capacity
<1>6. vec' \in [V!Vecs -> VecRecord] /\ vecRef' \in [V!Vecs -> Seq(Elements)]
  BY <1>1, <1>4 DEF VecHolds, Reads
<1>7. VectorsGood'
  BY <1>1, <1>5, <1>6 DEF VectorsGood
<1> QED BY <1>1, <1>7 DEF VectorInv, V!StaysInStorage

\* reserve() and shrink_to_fit().
LEMMA ReallocStep ==
  ASSUME VectorsGood, NEW a \in V!Vecs, NEW n \in Nat,
         V!Reserve(a, n) \/ V!ShrinkToFit(a)
  PROVE  VectorInv'
<1> DEFINE v == vec[a]
           r == vecRef[a]
<1>1. VecHolds(v, r) /\ es \in Nat \ {0} /\ v \in VecRecord /\ v.n \in Nat /\ Len(r) = v.n
      /\ v.eos \in Nat \cup {-1}
  BY SizeIs DEF VectorsGood, VecHolds, Reads, VecRecord
<1>2. v.n <= V!Capacity(v) /\ V!Capacity(v) \in Nat
  <2>1. v.eos \in Nat => v.eos \div es \in Nat
    BY <1>1, Quotient
  <2> QED BY <1>1, <2>1, FitsCells DEF VecHolds, V!Capacity
<1>3. PICK m \in Nat, slack \in Slack :
        v.n <= m /\ V!Result(a, V!Realloc(v, m, slack), r, FALSE)
  <2>1. CASE V!Reserve(a, n)
    <3>1. v.n <= n
      BY <1>1, <1>2, <2>1 DEF V!Reserve
    <3> QED BY <2>1, <3>1 DEF V!Reserve
  <2>2. CASE V!ShrinkToFit(a)
    <3>1. v.n <= v.n
      BY <1>1
    <3> QED BY <1>1, <2>2, <3>1 DEF V!ShrinkToFit
  <2> QED BY <2>1, <2>2
<1> DEFINE z == V!Realloc(v, m, slack)
<1>4. /\ V!Capacity(z) <= MaxBlock /\ vec' = [vec EXCEPT ![a] = V!Destroy(z, z.n, MaxBlock + 1)]
      /\ vecRef' = [vecRef EXCEPT ![a] = r] /\ es' = es /\ (vecOverrun' <=> ~V!Fits(z))
  BY <1>3 DEF V!Result
<1> HIDE DEF v, r
<1>5. Reads(z, r) /\ EndsEven(z) /\ (m = 0 \/ m * es <= z.eos)
  BY <1>1, ReallocReads
<1> HIDE DEF z
<1>6. V!Fits(z)
  <2>1. z.n = v.n /\ z.eos \in Int
    BY <1>1, <1>5 DEF Reads, VecRecord
  <2>2. v.n * es \in Nat /\ m * es \in Nat /\ v.n * es <= m * es
    BY <1>1, <1>3, Products
  <2>3. CASE m = 0
    BY <1>1, <1>3, <2>1, <2>3 DEF V!Fits
  <2>4. CASE m * es <= z.eos
    <3>1. z.n * es <= z.eos
      BY <2>1, <2>2, <2>4
    <3> QED BY <3>1 DEF V!Fits
  <2> QED BY <1>5, <2>3, <2>4
<1> QED BY <1>4, <1>5, <1>6, VectorResult

\* clear(), pop_back() and a resize() to fewer elements.
LEMMA FewerStep ==
  ASSUME VectorsGood, NEW a \in V!Vecs, NEW k \in 0 .. vec[a].n,
         LET v == vec[a]
         IN  V!Result(a, [V!Destroy(v, k, v.n) EXCEPT !.n = k], SubSeq(vecRef[a], 1, k), FALSE)
  PROVE  VectorInv'
<1> DEFINE v == vec[a]
           r == SubSeq(vecRef[a], 1, k)
           z == [V!Destroy(v, k, v.n) EXCEPT !.n = k]
<1>1. VecHolds(v, vecRef[a]) /\ es \in Nat \ {0} /\ v \in VecRecord /\ v.n \in Nat
      /\ v.n <= MaxBlock /\ v.eos \in Nat \cup {-1} /\ k \in Nat /\ k <= v.n
  BY SizeIs, ContentsAre DEF VectorsGood, VecRecord
<1>2. /\ V!Capacity(z) <= MaxBlock /\ vec' = [vec EXCEPT ![a] = V!Destroy(z, z.n, MaxBlock + 1)]
      /\ vecRef' = [vecRef EXCEPT ![a] = r] /\ es' = es /\ (vecOverrun' <=> ~V!Fits(z))
  BY DEF V!Result
<1>3. Reads(z, r) /\ z.eos = v.eos
  BY <1>1, TruncateReads DEF VecHolds
<1>4. z.n = k
  BY <1>1, DestroyIs, CountSet
<1> HIDE DEF v, z, r
<1>5. V!Fits(z)
  <2>1. k * es \in Nat /\ v.n * es \in Nat /\ k * es <= v.n * es
    BY <1>1, Products
  <2>2. CASE v.n = 0
    BY <1>1, <1>4, <2>2 DEF V!Fits
  <2>3. CASE v.n * es <= v.eos
    <3>1. z.n * es <= z.eos
      BY <1>1, <1>3, <1>4, <2>1, <2>3
    <3> QED BY <3>1 DEF V!Fits
  <2> QED BY <1>1, <2>2, <2>3 DEF VecHolds, V!Fits
<1>6. EndsEven(z)
  BY <1>1, <1>3 DEF VecHolds, EndsEven
<1> QED BY <1>2, <1>3, <1>5, <1>6, VectorResult

\* _m_check_length returns room for what is there and what is to come.
LEMMA LengthIs ==
  ASSUME NEW v \in VecRecord, NEW k \in Nat, V!LengthAllowed(v, k)
  PROVE  V!CheckLength(v, k) \in Nat /\ v.n + k <= V!CheckLength(v, k)
  BY VectorAssumption DEF V!LengthAllowed, V!CheckLength, VecRecord

\* Elements added behind the others, in the same block or in a new one.
LEMMA MoreStep ==
  ASSUME VectorsGood, NEW a \in V!Vecs, NEW w, NEW s \in Seq(Elements),
         Reads(w, vecRef[a]), EndsEven(w),
         Divides => (w.n + Len(s)) * es <= w.eos,
         LET z == [V!ConstructAt(w, w.n, s) EXCEPT !.n = w.n + Len(s)]
         IN  V!Result(a, z, vecRef[a] \o s, FALSE)
  PROVE  VectorInv'
<1> DEFINE r == vecRef[a] \o s
           z == [V!ConstructAt(w, w.n, s) EXCEPT !.n = w.n + Len(s)]
<1>1. /\ V!Capacity(z) <= MaxBlock /\ vec' = [vec EXCEPT ![a] = V!Destroy(z, z.n, MaxBlock + 1)]
      /\ vecRef' = [vecRef EXCEPT ![a] = r] /\ es' = es /\ (vecOverrun' <=> ~V!Fits(z))
  BY DEF V!Result
<1>2. Reads(z, r) /\ z.eos = w.eos
  BY AppendReads
<1>3. w \in VecRecord /\ w.n + Len(s) \in Nat /\ s \in Seq(Cell) /\ w.n \in Nat
  BY LenProperties, ElementsAreCells DEF Reads, VecRecord
<1>4. z.n = w.n + Len(s)
  BY <1>3, ConstructAtIs, CountSet
<1> HIDE DEF z, r
<1>5. EndsEven(z) /\ (Divides => V!Fits(z))
  BY <1>2, <1>4 DEF EndsEven, V!Fits
<1> QED BY <1>1, <1>2, <1>5, VectorResult

\* A vector of VectorsGood, all that is known of it.
LEMMA VectorFacts ==
  ASSUME VectorsGood, NEW a \in V!Vecs
  PROVE  /\ VecHolds(vec[a], vecRef[a]) /\ Reads(vec[a], vecRef[a]) /\ EndsEven(vec[a])
         /\ es \in Nat \ {0} /\ vec[a] \in VecRecord /\ vecRef[a] \in Seq(Elements)
         /\ vec[a].n \in Nat /\ Len(vecRef[a]) = vec[a].n /\ vec[a].eos \in Nat \cup {-1}
         /\ V!Capacity(vec[a]) \in Nat /\ vec[a].n <= V!Capacity(vec[a])
         /\ vec[a].n <= MaxBlock
<1> DEFINE v == vec[a]
<1>1. VecHolds(v, vecRef[a]) /\ Reads(v, vecRef[a]) /\ EndsEven(v) /\ es \in Nat \ {0}
  BY SizeIs DEF VectorsGood, VecHolds
<1>2. /\ v \in VecRecord /\ vecRef[a] \in Seq(Elements) /\ Len(vecRef[a]) = v.n
      /\ v.n \in Nat /\ v.eos \in Nat \cup {-1}
  BY <1>1 DEF Reads, VecRecord
<1>3. v.n <= MaxBlock /\ v.n <= V!Capacity(v)
  BY <1>1, <1>2, FitsCells DEF VecHolds
<1>4. V!Capacity(v) \in Nat
  <2>1. v.eos \in Nat => v.eos \div es \in Nat
    BY <1>1, Quotient
  <2> QED BY <1>2, <2>1 DEF V!Capacity
<1> QED BY <1>1, <1>2, <1>3, <1>4

\* A larger block has room for what it was made for.
LEMMA LargerBlock ==
  ASSUME VectorsGood, NEW a \in V!Vecs, NEW k \in Nat, V!LengthAllowed(vec[a], k),
         NEW slack \in Slack
  PROVE  LET w == V!Realloc(vec[a], V!CheckLength(vec[a], k), slack)
         IN  /\ Reads(w, vecRef[a]) /\ EndsEven(w) /\ w.n = vec[a].n
             /\ w.n + k = 0 \/ (w.n + k) * es <= w.eos
<1> DEFINE v == vec[a]
           n == V!CheckLength(v, k)
           w == V!Realloc(v, n, slack)
<1>1. VecHolds(v, vecRef[a]) /\ es \in Nat \ {0} /\ v \in VecRecord /\ v.n \in Nat
      /\ Len(vecRef[a]) = v.n
  BY VectorFacts
<1>2. n \in Nat /\ v.n + k <= n
  BY <1>1, LengthIs
<1> HIDE DEF n
<1>3. Reads(w, vecRef[a]) /\ EndsEven(w) /\ (n = 0 \/ n * es <= w.eos)
  BY <1>1, <1>2, ReallocReads
<1>4. w.n = v.n /\ w.eos \in Int
  BY <1>1, <1>3 DEF Reads, VecRecord
<1> HIDE DEF w
<1>5. v.n + k = 0 \/ (v.n + k) * es <= w.eos
  <2>1. v.n + k \in Nat
    BY <1>1
  <2>2. (v.n + k) * es \in Nat /\ n * es \in Nat /\ (v.n + k) * es <= n * es
    BY <1>1, <1>2, <2>1, Products
  <2>3. CASE n = 0
    BY <1>2, <2>1, <2>3
  <2>4. CASE n * es <= w.eos
    BY <1>4, <2>2, <2>4
  <2> QED BY <1>3, <2>3, <2>4
<1>6. w.n + k = 0 \/ (w.n + k) * es <= w.eos
  BY <1>4, <1>5
<1> QED BY <1>3, <1>4, <1>6 DEF w, n

LEMMA VectorPushBackStep ==
  ASSUME VectorsGood, NEW a \in V!Vecs, NEW x \in Elements, V!PushBack(a, x)
  PROVE  VectorInv'
<1> DEFINE v == vec[a]
           r == vecRef[a]
           added(w) == [V!ConstructAt(w, w.n, <<x>>) EXCEPT !.n = @ + 1]
           added1(w) == [V!ConstructAt(w, w.n, <<x>>) EXCEPT !.n = w.n + Len(<<x>>)]
<1>1. /\ VecHolds(v, r) /\ Reads(v, r) /\ EndsEven(v)
      /\ es \in Nat \ {0} /\ v \in VecRecord /\ r \in Seq(Elements)
      /\ v.n \in Nat /\ v.eos \in Nat \cup {-1}
  BY VectorFacts
<1>2. <<x>> \in Seq(Elements) /\ <<x>> \in Seq(Cell) /\ Len(<<x>>) = 1
      /\ Append(r, x) = r \o <<x>>
  <2>1. <<x>> \in Seq(Elements) /\ Len(<<x>>) = 1
    OBVIOUS
  <2>2. <<x>> \in Seq(Cell)
    BY <2>1, ElementsAreCells
  <2>3. Append(r, x) = r \o <<x>>
    BY <1>1, AppendIsConcat
  <2> QED BY <2>1, <2>2, <2>3
<1>3. ASSUME NEW w, Reads(w, r) PROVE added(w) = added1(w)
  <2>1. w \in VecRecord /\ w.n \in Nat
    BY <1>3 DEF Reads, VecRecord
  <2> DEFINE u == V!ConstructAt(w, w.n, <<x>>)
  <2>2. u.n = w.n
    BY <1>2, <2>1, ConstructAtIs
  <2> HIDE DEF u
  <2>3. [u EXCEPT !.n = @ + 1] = [u EXCEPT !.n = w.n + Len(<<x>>)]
    BY <1>2, <2>2
  <2> QED BY <2>3 DEF u
<1>4. \/ V!Finish(v) # v.eos /\ V!Result(a, added(v), Append(r, x), FALSE)
      \/ /\ V!Finish(v) = v.eos /\ V!LengthAllowed(v, 1)
         /\ \E slack \in Slack :
              V!Result(a, added(V!Realloc(v, V!CheckLength(v, 1), slack)), Append(r, x), FALSE)
  BY DEF V!PushBack
<1>5. CASE V!Finish(v) # v.eos /\ V!Result(a, added(v), Append(r, x), FALSE)
  <2>1. V!Result(a, added1(v), r \o <<x>>, FALSE)
    BY <1>1, <1>2, <1>3, <1>5
  <2>2. ASSUME Divides PROVE (v.n + 1) * es <= v.eos
    <3>1. v.eos \in Nat /\ v.n * es # v.eos
      BY <1>1, <1>5 DEF V!Finish
    <3>2. v.eos % es = 0
      BY <1>1, <2>2, <3>1 DEF EndsEven
    <3>3. v.n * es <= v.eos
      BY <1>1, <3>1 DEF VecHolds, V!Fits
    <3>4. v.n * es < v.eos
      BY <1>1, <3>1, <3>3
    <3> QED BY <1>1, <3>1, <3>2, <3>4, OneMore
  <2>3. Divides => (v.n + Len(<<x>>)) * es <= v.eos
    BY <1>2, <2>2
  <2> HIDE DEF v
  <2> QED BY <1>1, <1>2, <2>1, <2>3, MoreStep
<1>6. ASSUME V!LengthAllowed(v, 1), NEW slack \in Slack,
             V!Result(a, added(V!Realloc(v, V!CheckLength(v, 1), slack)), Append(r, x), FALSE)
      PROVE  VectorInv'
  <2> DEFINE w == V!Realloc(v, V!CheckLength(v, 1), slack)
  <2>1. Reads(w, r) /\ EndsEven(w) /\ w.n = v.n /\ (w.n + 1 = 0 \/ (w.n + 1) * es <= w.eos)
    BY <1>6, LargerBlock
  <2> HIDE DEF w
  <2>2. V!Result(a, added1(w), r \o <<x>>, FALSE)
    BY <1>2, <1>3, <1>6, <2>1 DEF w
  <2>3. Divides => (w.n + Len(<<x>>)) * es <= w.eos
    BY <1>1, <1>2, <2>1
  <2> QED BY <1>2, <2>1, <2>2, <2>3, MoreStep
<1> QED BY <1>4, <1>5, <1>6

LEMMA ResizeStep ==
  ASSUME VectorsGood, NEW a \in V!Vecs, NEW count \in Nat, NEW x \in Elements,
         V!Resize(a, count, x)
  PROVE  VectorInv'
<1> DEFINE v == vec[a]
           r == vecRef[a]
           new == [i \in 1 .. count - v.n |-> x]
           filled(w) == [V!ConstructAt(w, w.n, new) EXCEPT !.n = count]
           more(w) == [V!ConstructAt(w, w.n, new) EXCEPT !.n = w.n + Len(new)]
<1>1. /\ VecHolds(v, r) /\ Reads(v, r) /\ EndsEven(v)
      /\ es \in Nat \ {0} /\ v \in VecRecord /\ r \in Seq(Elements)
      /\ v.n \in Nat /\ v.eos \in Nat \cup {-1} /\ V!Capacity(v) \in Nat
  BY VectorFacts
<1>2. \/ /\ count < v.n
         /\ V!Result(a, [V!Destroy(v, count, v.n) EXCEPT !.n = count], SubSeq(r, 1, count), FALSE)
      \/ /\ count > v.n /\ count <= V!Capacity(v)
         /\ V!Result(a, filled(v), r \o new, FALSE)
      \/ /\ count > v.n /\ V!LengthAllowed(v, count)
         /\ \E slack \in Slack :
              V!Result(a, filled(V!Realloc(v, V!CheckLength(v, count), slack)), r \o new, FALSE)
  BY DEF V!Resize
<1>3. CASE /\ count < v.n
           /\ V!Result(a, [V!Destroy(v, count, v.n) EXCEPT !.n = count], SubSeq(r, 1, count), FALSE)
  <2>1. count \in 0 .. v.n
    BY <1>1, <1>3
  <2> QED BY <1>3, <2>1, FewerStep
<1>4. ASSUME count > v.n
      PROVE  new \in Seq(Elements) /\ Len(new) \in Nat /\ v.n + Len(new) = count
  <2>1. count - v.n \in Nat
    BY <1>1, <1>4
  <2>2. new \in [1 .. count - v.n -> Elements]
    OBVIOUS
  <2> HIDE DEF new
  <2>3. new \in Seq(Elements) /\ Len(new) = count - v.n
    BY <2>1, <2>2
  <2> QED BY <1>1, <2>1, <2>3
<1> HIDE DEF new
<1>5. CASE /\ count > v.n /\ count <= V!Capacity(v)
           /\ V!Result(a, filled(v), r \o new, FALSE)
  <2>1. V!Result(a, more(v), r \o new, FALSE)
    BY <1>4, <1>5
  <2>2. count * es <= v.eos \/ count = 0
    BY <1>1, <1>5, CapacityFits
  <2>3. Divides => (v.n + Len(new)) * es <= v.eos
    BY <1>1, <1>4, <1>5, <2>2
  <2> HIDE DEF v
  <2> QED BY <1>1, <1>4, <1>5, <2>1, <2>3, MoreStep
<1>6. ASSUME count > v.n, V!LengthAllowed(v, count), NEW slack \in Slack,
             V!Result(a, filled(V!Realloc(v, V!CheckLength(v, count), slack)), r \o new, FALSE)
      PROVE  VectorInv'
  <2> DEFINE w == V!Realloc(v, V!CheckLength(v, count), slack)
  <2>1. /\ Reads(w, r) /\ EndsEven(w) /\ w.n = v.n
        /\ w.n + count = 0 \/ (w.n + count) * es <= w.eos
    BY <1>6, LargerBlock
  <2>2. w.eos \in Int
    BY <2>1 DEF Reads, VecRecord
  <2> HIDE DEF w
  <2>3. V!Result(a, more(w), r \o new, FALSE)
    BY <1>4, <1>6, <2>1 DEF w
  <2>4. (w.n + Len(new)) * es <= w.eos
    <3> DEFINE m == w.n + count
    <3>1. w.n + Len(new) = count /\ m \in Nat /\ count <= m /\ m # 0
      BY <1>1, <1>4, <1>6, <2>1, SMTT(30)
    <3>2. m * es <= w.eos
      BY <2>1, <3>1
    <3> HIDE DEF m
    <3>3. count * es <= w.eos
      <4>1. count * es \in Nat /\ m * es \in Nat /\ count * es <= m * es
        BY <1>1, <3>1, Products
      <4> QED BY <2>2, <3>2, <4>1
    <3> QED BY <3>1, <3>3
  <2> QED BY <1>4, <1>6, <2>1, <2>3, <2>4, MoreStep
<1> QED BY <1>2, <1>3, <1>5, <1>6

\* insert(), in the same block or in a new one.
LEMMA PlaceStep ==
  ASSUME VectorsGood, NEW a \in V!Vecs, NEW w, NEW pos \in 0 .. w.n, NEW s \in Seq(Elements),
         Reads(w, vecRef[a]), EndsEven(w), w.n <= MaxBlock,
         w.n + Len(s) = 0 \/ (w.n + Len(s)) * es <= w.eos,
         LET z == [V!ConstructAt(V!MoveTo(w, pos, w.n, pos + Len(s)), pos, s)
                     EXCEPT !.n = @ + Len(s)]
         IN  V!Result(a, z, V!Opened(a, pos, s), V!MoveLoses(pos, w.n, pos + Len(s)))
  PROVE  VectorInv'
<1> DEFINE r == V!Opened(a, pos, s)
           z == [V!ConstructAt(V!MoveTo(w, pos, w.n, pos + Len(s)), pos, s)
                   EXCEPT !.n = @ + Len(s)]
<1>1. /\ V!Capacity(z) <= MaxBlock /\ vec' = [vec EXCEPT ![a] = V!Destroy(z, z.n, MaxBlock + 1)]
      /\ vecRef' = [vecRef EXCEPT ![a] = r] /\ es' = es /\ (vecOverrun' <=> ~V!Fits(z))
      /\ (vecDeviated' <=> V!MoveLoses(pos, w.n, pos + Len(s)))
  BY DEF V!Result
<1>2. ASSUME ~vecDeviated' PROVE Reads(z, r) /\ EndsEven(z) /\ V!Fits(z)
  <2>1. Reads(z, r) /\ z.eos = w.eos /\ z.n = w.n + Len(s)
    BY <1>1, <1>2, InsertReads, ZenonT(30) DEF V!Opened
  <2> HIDE DEF z, r
  <2> QED BY <2>1 DEF EndsEven, V!Fits
<1> HIDE DEF z, r
<1> QED BY <1>1, <1>2, VectorResult

\* The calls that insert test the capacity first.
LEMMA EnoughRoom ==
  ASSUME VectorsGood, NEW a \in V!Vecs, NEW k \in Nat, V!Capacity(vec[a]) >= vec[a].n + k
  PROVE  vec[a].n + k = 0 \/ (vec[a].n + k) * es <= vec[a].eos
<1> DEFINE m == vec[a].n + k
<1>1. /\ es \in Nat \ {0} /\ vec[a] \in VecRecord /\ m \in Nat /\ m <= V!Capacity(vec[a])
  BY VectorFacts
<1> HIDE DEF m
<1>2. m * es <= vec[a].eos \/ m = 0
  BY <1>1, CapacityFits
<1> QED BY <1>2 DEF m

LEMMA VectorInsertStep ==
  ASSUME VectorsGood, NEW a \in V!Vecs, NEW pos \in 0 .. vec[a].n, NEW s \in Seq(Elements),
         V!Insert(a, pos, s)
  PROVE  VectorInv'
<1> DEFINE v == vec[a]
           filled(w) == [V!ConstructAt(V!MoveTo(w, pos, w.n, pos + Len(s)), pos, s)
                           EXCEPT !.n = @ + Len(s)]
<1>1. Reads(v, vecRef[a]) /\ EndsEven(v) /\ v.n <= MaxBlock /\ Len(s) \in Nat /\ v.n \in Nat
  BY VectorFacts, LenProperties
<1>2. CASE /\ V!Capacity(v) >= v.n + Len(s)
           /\ V!Result(a, filled(v), V!Opened(a, pos, s), V!MoveLoses(pos, v.n, pos + Len(s)))
  <2>1. v.n + Len(s) = 0 \/ (v.n + Len(s)) * es <= v.eos
    BY <1>1, <1>2, EnoughRoom
  <2> HIDE DEF v
  <2> QED BY <1>1, <1>2, <2>1, PlaceStep DEF v
<1>3. ASSUME V!LengthAllowed(v, Len(s)), NEW slack \in Slack,
             V!Result(a, filled(V!Realloc(v, V!CheckLength(v, Len(s)), slack)),
                      V!Opened(a, pos, s), V!MoveLoses(pos, v.n, pos + Len(s)))
      PROVE  VectorInv'
  <2> DEFINE w == V!Realloc(v, V!CheckLength(v, Len(s)), slack)
  <2>1. /\ Reads(w, vecRef[a]) /\ EndsEven(w) /\ w.n = v.n
        /\ w.n + Len(s) = 0 \/ (w.n + Len(s)) * es <= w.eos
    BY <1>1, <1>3, LargerBlock
  <2> HIDE DEF w
  <2>2. V!Result(a, filled(w), V!Opened(a, pos, s), V!MoveLoses(pos, w.n, pos + Len(s)))
    BY <1>3, <2>1 DEF w
  <2>3. pos \in 0 .. w.n /\ w.n <= MaxBlock
    BY <1>1, <2>1
  <2> QED BY <2>1, <2>2, <2>3, PlaceStep
<1> QED BY <1>2, <1>3 DEF V!Insert

\* A range inserted at the end is added there.
LEMMA OpenedAtEnd ==
  ASSUME NEW r \in Seq(Elements), NEW s \in Seq(Elements)
  PROVE  SubSeq(r, 1, Len(r)) \o s \o SubSeq(r, Len(r) + 1, Len(r)) = r \o s
<1>1. Len(r) \in Nat
  BY LenProperties
<1>2. SubSeq(r, 1, Len(r)) = r
  BY SubSeqFull
<1>3. SubSeq(r, Len(r) + 1, Len(r)) = <<>>
  BY <1>1, SubSeqEmpty, Len(r) + 1 \in Int, Len(r) \in Int, Len(r) < Len(r) + 1
<1>4. r \o s \in Seq(Elements)
  BY ConcatProperties
<1>5. (r \o s) \o <<>> = r \o s
  BY <1>4, ConcatEmptySeq
<1> QED BY <1>2, <1>3, <1>5

LEMMA InsertRangeStep ==
  ASSUME VectorsGood, NEW a \in V!Vecs, NEW pos \in 0 .. vec[a].n, NEW s \in Seq(Elements),
         V!InsertRange(a, pos, s)
  PROVE  VectorInv'
<1> DEFINE v == vec[a]
           moved == [V!ConstructAt(V!MoveTo(v, pos, v.n, pos + Len(s)), pos, s)
                       EXCEPT !.n = @ + Len(s)]
           stale(w) == [V!ConstructAt(w, pos, s) EXCEPT !.n = @ + Len(s)]
<1>1. /\ Reads(v, vecRef[a]) /\ EndsEven(v) /\ v.n <= MaxBlock /\ Len(s) \in Nat /\ v.n \in Nat
      /\ V!Capacity(v) \in Nat /\ v.n <= V!Capacity(v) /\ Len(vecRef[a]) = v.n
      /\ vecRef[a] \in Seq(Elements) /\ s \in Seq(Cell) /\ pos \in Nat
  BY VectorFacts, LenProperties, ElementsAreCells
<1>2. CASE /\ V!Capacity(v) >= v.n + Len(s)
           /\ V!Result(a, moved, V!Opened(a, pos, s), V!MoveLoses(pos, v.n, pos + Len(s)))
  <2>1. v.n + Len(s) = 0 \/ (v.n + Len(s)) * es <= v.eos
    BY <1>1, <1>2, EnoughRoom
  <2> HIDE DEF v
  <2> QED BY <1>1, <1>2, <2>1, PlaceStep DEF v
<1>3. ASSUME V!Capacity(v) < v.n + Len(s), V!LengthAllowed(v, Len(s)),
             NEW slack \in Slack, NEW behind \in BOOLEAN,
             V!Result(a, stale(V!Realloc(v, V!CheckLength(v, Len(s)), slack)),
                      V!Opened(a, pos, s), pos < v.n \/ ~behind)
      PROVE  VectorInv'
  <2> DEFINE w == V!Realloc(v, V!CheckLength(v, Len(s)), slack)
             z == stale(w)
             r == V!Opened(a, pos, s)
  <2>1. /\ Reads(w, vecRef[a]) /\ EndsEven(w) /\ w.n = v.n
        /\ w.n + Len(s) = 0 \/ (w.n + Len(s)) * es <= w.eos
    BY <1>1, <1>3, LargerBlock
  <2>2. /\ V!Capacity(z) <= MaxBlock /\ vec' = [vec EXCEPT ![a] = V!Destroy(z, z.n, MaxBlock + 1)]
        /\ vecRef' = [vecRef EXCEPT ![a] = r] /\ es' = es /\ (vecOverrun' <=> ~V!Fits(z))
        /\ (vecDeviated' <=> pos < v.n \/ ~behind)
    BY <1>3 DEF V!Result
  <2> HIDE DEF w
  <2>3. ASSUME ~vecDeviated' PROVE Reads(z, r) /\ EndsEven(z) /\ V!Fits(z)
    <3>1. pos = w.n /\ w \in VecRecord /\ w.n \in Nat
      BY <1>1, <2>1, <2>2, <2>3 DEF Reads
    <3>2. z = [V!ConstructAt(w, w.n, s) EXCEPT !.n = w.n + Len(s)]
      <4> DEFINE u == V!ConstructAt(w, pos, s)
      <4>1. u.n = w.n
        BY <1>1, <3>1, ConstructAtIs
      <4> HIDE DEF u
      <4>2. [u EXCEPT !.n = @ + Len(s)] = [u EXCEPT !.n = w.n + Len(s)]
        BY <4>1
      <4>3. u = V!ConstructAt(w, w.n, s)
        BY <3>1 DEF u
      <4> QED BY <4>2, <4>3 DEF u
    <3>3. r = vecRef[a] \o s
      BY <1>1, <2>1, <3>1, OpenedAtEnd, ZenonT(30) DEF V!Opened
    <3>4. Reads(z, vecRef[a] \o s) /\ z.eos = w.eos
      BY <2>1, <3>2, AppendReads
    <3>5. z.n = w.n + Len(s)
      <4>1. w.n + Len(s) \in Nat
        BY <1>1, <3>1
      <4> QED BY <1>1, <3>1, <3>2, <4>1, ConstructAtIs, CountSet
    <3> HIDE DEF z, r
    <3> QED BY <2>1, <3>3, <3>4, <3>5 DEF EndsEven, V!Fits
  <2> HIDE DEF z, r
  <2> QED BY <2>2, <2>3, VectorResult
<1> QED BY <1>2, <1>3 DEF V!InsertRange

\* erase() of a range.
LEMMA CutStep ==
  ASSUME VectorsGood, NEW a \in V!Vecs, NEW first \in 0 .. vec[a].n,
         NEW last \in first .. vec[a].n,
         LET v == vec[a]
         IN  V!Result(a, [V!MoveTo(v, last, v.n, first) EXCEPT !.n = @ - (last - first)],
                      V!Cut(a, first, last), V!MoveLoses(last, v.n, first))
  PROVE  VectorInv'
<1> DEFINE v == vec[a]
           r == V!Cut(a, first, last)
           z == [V!MoveTo(v, last, v.n, first) EXCEPT !.n = @ - (last - first)]
<1>1. /\ VecHolds(v, vecRef[a]) /\ Reads(v, vecRef[a]) /\ EndsEven(v) /\ v.n <= MaxBlock
      /\ v.n \in Nat /\ es \in Nat \ {0} /\ v.eos \in Nat \cup {-1}
  BY VectorFacts
<1>2. /\ V!Capacity(z) <= MaxBlock /\ vec' = [vec EXCEPT ![a] = V!Destroy(z, z.n, MaxBlock + 1)]
      /\ vecRef' = [vecRef EXCEPT ![a] = r] /\ es' = es /\ (vecOverrun' <=> ~V!Fits(z))
      /\ (vecDeviated' <=> V!MoveLoses(last, v.n, first))
  BY DEF V!Result
<1>3. ASSUME ~vecDeviated' PROVE Reads(z, r) /\ EndsEven(z) /\ V!Fits(z)
  <2>1. Reads(z, r) /\ z.eos = v.eos /\ z.n = v.n - (last - first)
    <3>1. ~V!MoveLoses(last, v.n, first)
      BY <1>2, <1>3
    <3>2. first \in 0 .. v.n /\ last \in first .. v.n
      OBVIOUS
    <3> DEFINE w == V!MoveTo(v, last, v.n, first)
               y == [w EXCEPT !.n = v.n - (last - first)]
    <3> HIDE DEF v
    <3>3. /\ Reads(y, SubSeq(vecRef[a], 1, first) \o SubSeq(vecRef[a], last + 1, Len(vecRef[a])))
          /\ y.eos = v.eos /\ y.n = v.n - (last - first) /\ w.n = v.n
      BY <1>1, <3>1, <3>2, EraseReads
    <3> HIDE DEF w
    <3>4. [w EXCEPT !.n = @ - (last - first)] = y
      BY <3>3
    <3> HIDE DEF y
    <3>5. z = y
      BY <3>4 DEF w
    <3> QED BY <3>3, <3>5 DEF V!Cut
  <2> HIDE DEF z, r
  <2>2. z.n \in Nat /\ z.n <= v.n
    BY <1>1, <2>1
  <2>3. z.n * es \in Nat /\ v.n * es \in Nat /\ z.n * es <= v.n * es
    BY <1>1, <2>2, Products
  <2>4. v.n = 0 => z.n = 0
    BY <2>2
  <2>5. z.n = 0 \/ z.n * es <= v.eos
    BY <1>1, <2>3, <2>4 DEF VecHolds, V!Fits
  <2> QED BY <1>1, <2>1, <2>5 DEF EndsEven, V!Fits
<1> HIDE DEF z, r
<1> QED BY <1>2, <1>3, VectorResult

LEMMA VectorEraseStep ==
  ASSUME VectorsGood, NEW a \in V!Vecs, NEW pos \in 0 .. vec[a].n - 1, V!Erase(a, pos)
  PROVE  VectorInv'
<1> DEFINE v == vec[a]
           r == vecRef[a]
<1>1. v.n \in Nat /\ Len(r) = v.n /\ r \in Seq(Elements) /\ pos \in Nat /\ v \in VecRecord
  BY VectorFacts
<1>2. CASE pos + 1 = v.n
  <2> DEFINE z == [V!Destroy(v, pos, v.n) EXCEPT !.n = @ - 1]
  <2>1. V!Result(a, z, V!Cut(a, pos, pos + 1), V!MoveLoses(pos + 1, v.n, pos))
    BY <1>2 DEF V!Erase
  <2>2. pos \in 0 .. v.n /\ v.n - 1 = pos /\ pos \in 0 .. Len(r)
    BY <1>1, <1>2
  <2>3. V!Destroy(v, pos, v.n).n = v.n
    BY <1>1, DestroyIs
  <2>4. z = [V!Destroy(v, pos, v.n) EXCEPT !.n = pos]
    BY <2>2, <2>3
  <2>5. V!Cut(a, pos, pos + 1) = SubSeq(r, 1, pos)
    <3>1. SubSeq(r, (pos + 1) + 1, Len(r)) = <<>>
      BY <1>1, <1>2, SubSeqEmpty, (pos + 1) + 1 \in Int, Len(r) \in Int, Len(r) < (pos + 1) + 1
    <3>2. SubSeq(r, 1, pos) \in Seq(Elements)
      BY <1>1, <2>2, FirstElements
    <3>3. SubSeq(r, 1, pos) \o <<>> = SubSeq(r, 1, pos)
      BY <3>2, ConcatEmptySeq
    <3> QED BY <3>1, <3>3 DEF V!Cut
  <2>6. V!MoveLoses(pos + 1, v.n, pos) = FALSE
    BY <1>1, <1>2 DEF V!MoveLoses
  <2>7. V!Result(a, [V!Destroy(v, pos, v.n) EXCEPT !.n = pos], SubSeq(r, 1, pos), FALSE)
    BY <2>1, <2>4, <2>5, <2>6
  <2> QED BY <2>2, <2>7, FewerStep
<1>3. CASE pos + 1 # v.n
  <2>1. pos \in 0 .. v.n /\ pos + 1 \in pos .. v.n /\ (pos + 1) - pos = 1
    BY <1>1
  <2>2. V!Result(a, [V!MoveTo(v, pos + 1, v.n, pos) EXCEPT !.n = @ - ((pos + 1) - pos)],
                 V!Cut(a, pos, pos + 1), V!MoveLoses(pos + 1, v.n, pos))
    BY <1>3, <2>1 DEF V!Erase
  <2> QED BY <2>1, <2>2, CutStep
<1> QED BY <1>2, <1>3

LEMMA EraseRangeStep ==
  ASSUME VectorsGood, NEW a \in V!Vecs, NEW first \in 0 .. vec[a].n - 1,
         NEW last \in 0 .. vec[a].n, V!EraseRange(a, first, last)
  PROVE  VectorInv'
<1>1. vec[a].n \in Nat
  BY VectorFacts
<1>2. first \in 0 .. vec[a].n /\ last \in first .. vec[a].n
  BY <1>1 DEF V!EraseRange
<1> QED BY <1>2, CutStep DEF V!EraseRange

LEMMA PopBackStep ==
  ASSUME VectorsGood, NEW a \in V!Vecs, V!PopBack(a)
  PROVE  VectorInv'
<1> DEFINE v == vec[a]
           u == V!Destroy(v, v.n - 1, v.n)
<1>1. v.n \in Nat /\ v \in VecRecord /\ v.n > 0
  BY VectorFacts DEF V!PopBack
<1>2. v.n - 1 \in 0 .. v.n /\ v.n - 1 \in Nat
  BY <1>1
<1>3. u.n = v.n
  BY <1>1, <1>2, DestroyIs
<1>4. V!Result(a, [u EXCEPT !.n = @ - 1], SubSeq(vecRef[a], 1, v.n - 1), FALSE)
  BY DEF V!PopBack
<1>5. [u EXCEPT !.n = @ - 1] = [u EXCEPT !.n = v.n - 1]
  <2> HIDE DEF u
  <2> QED BY <1>3
<1>6. V!Result(a, [u EXCEPT !.n = v.n - 1], SubSeq(vecRef[a], 1, v.n - 1), FALSE)
  BY <1>4, <1>5
<1> QED BY <1>2, <1>6, FewerStep

LEMMA ClearStep ==
  ASSUME VectorsGood, NEW a \in V!Vecs, V!Clear(a)
  PROVE  VectorInv'
<1>1. vec[a].n \in Nat /\ vecRef[a] \in Seq(Elements)
  BY VectorFacts
<1>2. 0 \in 0 .. vec[a].n
  BY <1>1
<1>3. SubSeq(vecRef[a], 1, 0) = <<>>
  BY <1>1, SubSeqEmpty, 0 < 1
<1>4. V!Result(a, [V!Destroy(vec[a], 0, vec[a].n) EXCEPT !.n = 0], SubSeq(vecRef[a], 1, 0), FALSE)
  BY <1>3 DEF V!Clear
<1> QED BY <1>2, <1>4, FewerStep

LEMMA VectorInitHolds ==
  ASSUME V!Init
  PROVE  VectorInv
<1>1. es \in Nat \ {0}
  BY VectorAssumption DEF V!Init
<1>2. VecHolds(V!Null, <<>>)
  <2>1. V!Capacity(V!Null) = 0 /\ V!Fits(V!Null) /\ EndsEven(V!Null)
    BY NullIs DEF V!Capacity, V!Fits, EndsEven
  <2>2. Reads(V!Null, <<>>)
    BY NullIs DEF Reads
  <2> QED BY <2>1, <2>2, VectorAssumption DEF VecHolds
<1>3. V!Null \in VecRecord /\ <<>> \in Seq(Elements)
  BY NullIs
<1> HIDE DEF V!Null
<1>4. VectorsGood
  BY <1>2, <1>3 DEF V!Init, VectorsGood
<1> QED BY <1>4 DEF V!Init, VectorInv, V!StaysInStorage

\* Every call keeps the vectors good.
LEMMA VectorStep ==
  ASSUME VectorInv, [V!Next]_V!vars
  PROVE  VectorInv'
<1>1. CASE UNCHANGED V!vars
  BY <1>1 DEF VectorInv, V!vars, VectorsGood, VecHolds, Reads, EndsEven, Divides, V!Fits,
              V!Capacity, V!StaysInStorage
<1>2. CASE V!Next
  <2>1. VectorsGood /\ ~vecDeviated /\ ~vecOverrun
    BY <1>2 DEF V!Next, VectorInv
  <2>2. CASE V!Swap \/ \E a \in V!Vecs : V!MoveConstruct(a, 3 - a)
    BY <2>1, <2>2, HandOverStep
  <2>3. ASSUME NEW a \in V!Vecs, V!ShrinkToFit(a) \/ V!Clear(a) \/ V!PopBack(a)
        PROVE  VectorInv'
    BY <2>1, <2>3, ReallocStep, ClearStep, PopBackStep, 0 \in Nat
  <2>4. ASSUME NEW a \in V!Vecs, V!CopyAssign(a, 3 - a)
        PROVE  VectorInv'
    <3>1. 3 - a \in V!Vecs
      BY DEF V!Vecs
    <3>2. V!Contents(vec[3 - a]) \in Seq(Elements)
      <4>1. VecHolds(vec[3 - a], vecRef[3 - a]) /\ es \in Nat \ {0}
        BY <2>1, <3>1, VectorFacts
      <4> QED BY <4>1, ContentsAre
    <3>3. V!Assign(a, V!Contents(vec[3 - a]))
      BY <2>4 DEF V!CopyAssign
    <3> QED BY <2>1, <3>2, <3>3, AssignStep
  <2>5. ASSUME NEW a \in V!Vecs, NEW s \in V!Args,
               V!Construct(a, s) \/ V!Assign(a, s) \/ V!AssignList(a, s)
        PROVE  VectorInv'
    BY <2>1, <2>5, ElementArgs, ConstructStep, AssignStep, AssignListStep
  <2>6. ASSUME NEW a \in V!Vecs, NEW x \in Elements, V!PushBack(a, x)
        PROVE  VectorInv'
    BY <2>1, <2>6, VectorPushBackStep
  <2>7. ASSUME NEW a \in V!Vecs, NEW n \in Nat,
               V!Reserve(a, n) \/ \E x \in Elements : V!Resize(a, n, x)
        PROVE  VectorInv'
    BY <2>1, <2>7, ReallocStep, ResizeStep
  <2>8. ASSUME NEW a \in V!Vecs, NEW pos \in 0 .. vec[a].n, NEW s \in V!Args,
               V!InsertRange(a, pos, s) \/ V!Insert(a, pos, s)
        PROVE  VectorInv'
    BY <2>1, <2>8, ElementArgs, InsertRangeStep, VectorInsertStep
  <2>9. ASSUME NEW a \in V!Vecs, NEW pos \in 0 .. vec[a].n - 1,
               V!Erase(a, pos) \/ \E last \in 0 .. vec[a].n : V!EraseRange(a, pos, last)
        PROVE  VectorInv'
    BY <2>1, <2>9, VectorEraseStep, EraseRangeStep
  <2>10. \/ V!Swap \/ \E a \in V!Vecs : V!MoveConstruct(a, 3 - a)
         \/ \E a \in V!Vecs : V!ShrinkToFit(a) \/ V!Clear(a) \/ V!PopBack(a)
         \/ \E a \in V!Vecs : V!CopyAssign(a, 3 - a)
         \/ \E a \in V!Vecs : \E s \in V!Args :
              V!Construct(a, s) \/ V!Assign(a, s) \/ V!AssignList(a, s)
         \/ \E a \in V!Vecs : \E x \in Elements : V!PushBack(a, x)
         \/ \E a \in V!Vecs : \E n \in 0 .. MaxLen[a] :
              V!Reserve(a, n) \/ \E x \in Elements : V!Resize(a, n, x)
         \/ \E a \in V!Vecs : \E pos \in 0 .. vec[a].n : \E s \in V!Args :
              V!InsertRange(a, pos, s) \/ V!Insert(a, pos, s)
         \/ \E a \in V!Vecs : \E pos \in 0 .. vec[a].n - 1 :
              V!Erase(a, pos) \/ \E last \in 0 .. vec[a].n : V!EraseRange(a, pos, last)
    BY <1>2, ZenonT(60) DEF V!Next
  <2>11. \A a \in V!Vecs : \A n \in 0 .. MaxLen[a] : n \in Nat
    OBVIOUS
  <2>12. ASSUME NEW a \in V!Vecs, NEW n \in 0 .. MaxLen[a],
                V!Reserve(a, n) \/ \E x \in Elements : V!Resize(a, n, x)
         PROVE  VectorInv'
    BY <2>7, <2>11, <2>12
  <2> QED BY <2>2, <2>3, <2>4, <2>5, <2>6, <2>8, <2>9, <2>10, <2>12, Zenon
<1> QED BY <1>1, <1>2

\* VectorInv, the inductive invariant of vector.h: as long as no call deviated,
\* each vector's record counts what its reference holds, its cells hold it in
\* order, its elements lie in its block, and a block ends with an element when
\* the element size divides what blocks are made of.
THEOREM VectorInvariance == V!Spec => []VectorInv
<1>1. V!Init => VectorInv
  BY VectorInitHolds
<1>2. VectorInv /\ [V!Next]_V!vars => VectorInv'
  BY VectorStep
<1> QED BY <1>1, <1>2, PTL DEF V!Spec

\* Whatever the sequence of calls on the two vectors of vector.h, they hold and
\* compare as what std::vector would hold, until a call deviates, for every
\* element size, alignment, slack and bound.
THEOREM VectorActsAsStd == V!Spec => []ActsAsStdVector
<1>1. ASSUME VectorsGood PROVE V!Contents(vec[1]) = vecRef[1] /\ V!Contents(vec[2]) = vecRef[2]
                               /\ (V!Equal(vec[1], vec[2]) <=> vecRef[1] = vecRef[2])
  <2>1. 1 \in V!Vecs /\ 2 \in V!Vecs
    BY DEF V!Vecs
  <2>2. VecHolds(vec[1], vecRef[1]) /\ VecHolds(vec[2], vecRef[2]) /\ es \in Nat \ {0}
    BY <1>1, <2>1, VectorFacts
  <2>3. /\ V!Contents(vec[1]) = vecRef[1] /\ vecRef[1] \in Seq(Elements)
        /\ Len(vecRef[1]) = vec[1].n /\ vec[1].n \in Nat
        /\ \A i \in 1 .. vec[1].n : vec[1].cells[i - 1] = vecRef[1][i]
    BY <2>2, ContentsAre
  <2>4. /\ V!Contents(vec[2]) = vecRef[2] /\ vecRef[2] \in Seq(Elements)
        /\ Len(vecRef[2]) = vec[2].n /\ vec[2].n \in Nat
        /\ \A i \in 1 .. vec[2].n : vec[2].cells[i - 1] = vecRef[2][i]
    BY <2>2, ContentsAre
  <2>5. ASSUME V!Equal(vec[1], vec[2]) PROVE vecRef[1] = vecRef[2]
    <3>1. Len(vecRef[1]) = Len(vecRef[2])
      BY <2>3, <2>4, <2>5 DEF V!Equal
    <3>2. \A i \in 1 .. Len(vecRef[1]) : vecRef[1][i] = vecRef[2][i]
      BY <2>3, <2>4, <2>5 DEF V!Equal
    <3> QED BY <2>3, <2>4, <3>1, <3>2, SeqEqual
  <2>6. ASSUME vecRef[1] = vecRef[2] PROVE V!Equal(vec[1], vec[2])
    BY <2>3, <2>4, <2>6 DEF V!Equal
  <2> QED BY <2>3, <2>4, <2>5, <2>6
<1>2. VectorInv => ActsAsStdVector
  BY <1>1 DEF VectorInv, ActsAsStdVector, V!ActsAsStdVector, V!Vecs
<1> QED BY <1>2, VectorInvariance, PTL

\* No call of vector.h constructs an element behind its block, unless a call
\* deviated or the element size does not divide the alignment and the slack.
THEOREM VectorStaysInStorage == V!Spec => []StaysInStorage
<1>1. VectorInv => StaysInStorage
  BY DEF VectorInv, StaysInStorage
<1> QED BY <1>1, VectorInvariance, PTL
=============================================================================
