--------------------------- MODULE FixedSizeQueue ---------------------------
(***************************************************************************)
(* FixedSizeQueue of stl/fixed_size_queue.h.  Every call holds the queue's *)
(* shared mutex throughout and is one step, but taking an element is three *)
(* calls: empty(), front() or back(), and pop_front() or pop_back().  The  *)
(* reference counters that front() and back() count up are never read and  *)
(* left out.  SharedMutex, UniqueLock and SharedLock, which the header     *)
(* names, are defined nowhere in the repository: the model takes them for  *)
(* a reader/writer lock.                                                   *)
(***************************************************************************)
EXTENDS Integers, Sequences

CONSTANTS
  Values,      \* elements
  Raw,         \* what a slot holds that nothing was constructed in
  Capacity,    \* _capacity
  Consumers    \* clients that take elements out

VARIABLES
  head, tail,   \* _head_idx, _tail_idx
  full,         \* _is_full
  items,        \* _items
  pc,           \* consumer -> the call it is to make next
  got,          \* consumer -> the end it works at and the element it read
  disturbed     \* consumers that somebody got in between of

vars == <<head, tail, full, items, pc, got, disturbed>>

Slots == 0 .. Capacity - 1

\* size()
size ==
  IF tail = head THEN (IF full THEN Capacity ELSE 0)
  ELSE IF tail >= head THEN tail - head
  ELSE tail + Capacity - head

Contents == [i \in 1 .. size |-> items[(head + i - 1) % Capacity]]

\* empty()
IsEmpty == head = tail /\ ~full

\* Mutant: the slot read is the one behind the last element.
BackOfTail(idx) == idx

Before(idx) == IF idx = 0 THEN Capacity - 1 ELSE idx - 1

Busy == {c \in Consumers : pc[c] # "empty"}

\* create(capacity, memory) on new memory, or on memory that holds a queue.
Init ==
  /\ head = 0 /\ tail = 0 /\ full = FALSE
  /\ items = [s \in Slots |-> Raw]
  /\ pc = [c \in Consumers |-> "empty"]
  /\ got = [c \in Consumers |-> <<"front", Raw>>]
  /\ disturbed = {}

\* The constructor writes the header, its mutex included, without locking
\* anything: here it runs between two calls.  Beside a call that is under
\* way it is a data race, which is not modelled.
Create ==
  /\ head' = 0 /\ tail' = 0 /\ full' = FALSE
  /\ disturbed' = disturbed \cup Busy
  /\ UNCHANGED <<items, pc, got>>

\* Mutant: the flag is set one element early.
PushFullEarly(v) ==
  /\ ~full
  /\ items' = [items EXCEPT ![tail] = v]
  /\ tail' = (tail + 1) % Capacity
  /\ full' = ((tail + 2) % Capacity = head)
  /\ disturbed' = disturbed \cup {c \in Busy : got[c][1] = "back"}
  /\ UNCHANGED <<head, pc, got>>

\* push(): refused if the queue is full.
Push(v) ==
  /\ ~full
  /\ items' = [items EXCEPT ![tail] = v]
  /\ tail' = (tail + 1) % Capacity
  /\ full' = (tail' = head)
  /\ disturbed' = disturbed \cup {c \in Busy : got[c][1] = "back"}
  /\ UNCHANGED <<head, pc, got>>

\* A consumer turns to one end and asks whether there is something.
Ask(c, end) ==
  /\ pc[c] = "empty" /\ ~IsEmpty
  /\ pc' = [pc EXCEPT ![c] = "read"]
  /\ got' = [got EXCEPT ![c] = <<end, Raw>>]
  /\ disturbed' = disturbed \ {c}
  /\ UNCHANGED <<head, tail, full, items>>

\* front(), back()
Read(c) ==
  /\ pc[c] = "read"
  /\ got' = [got EXCEPT ![c][2] = items[IF got[c][1] = "front" THEN head ELSE Before(tail)]]
  /\ pc' = [pc EXCEPT ![c] = "pop"]
  /\ UNCHANGED <<head, tail, full, items, disturbed>>

Popped(c) ==
  /\ pc' = [pc EXCEPT ![c] = "empty"]
  /\ disturbed' = disturbed \cup (Busy \ {c})
  /\ UNCHANGED <<items, got>>

\* pop_front(): no check.
PopFront(c) ==
  /\ pc[c] = "pop" /\ got[c][1] = "front"
  /\ head' = (head + 1) % Capacity /\ full' = FALSE
  /\ Popped(c)
  /\ UNCHANGED tail

\* pop_back(): no check.
PopBack(c) ==
  /\ pc[c] = "pop" /\ got[c][1] = "back"
  /\ tail' = Before(tail) /\ full' = FALSE
  /\ Popped(c)
  /\ UNCHANGED head

Next ==
  \/ Create
  \/ \E v \in Values : Push(v)
  \/ \E c \in Consumers :
       Ask(c, "front") \/ Ask(c, "back") \/ Read(c) \/ PopFront(c) \/ PopBack(c)

Spec == Init /\ [][Next]_vars

-----------------------------------------------------------------------------
(* Properties                                                              *)

Deque == INSTANCE BoundedDeque WITH Values <- Values \cup {Raw}, q <- Contents

\* What pop_front() and pop_back() do to a queue that is empty by the time
\* they are called, which neither of them looks at.
UncheckedPop == IsEmpty /\ \E c \in Consumers : pc[c] = "pop" /\ pc'[c] = "empty"

\* Though both indices are equal when it is empty and when it is full, the
\* queue behaves, from one create() to the next, as a double-ended queue of
\* Capacity elements, whoever pushes and pops at which end, and it refuses
\* an element only if it holds Capacity of them; only the unchecked pop of
\* a consumer that another one has overtaken may make something out of
\* nothing.
ImplementsDeque ==
  /\ Deque!Init
  /\ [][/\ Create \/ Deque!Next \/ UNCHANGED Contents \/ UncheckedPop
        /\ full' => Len(Contents') = Capacity]_vars

\* empty(), front() and pop_front() of one consumer, and the same calls at
\* the back, take out the element that was read, unless in between the
\* queue was created anew, another consumer popped or, at the back,
\* somebody pushed.
PopsWhatWasRead ==
  [][\A c \in Consumers : pc[c] = "pop" /\ pc'[c] = "empty" /\ c \notin disturbed =>
       /\ ~IsEmpty
       /\ got[c][2] = IF got[c][1] = "front" THEN Head(Contents) ELSE Contents[size]]_vars
=============================================================================
