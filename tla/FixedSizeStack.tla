--------------------------- MODULE FixedSizeStack ---------------------------
(***************************************************************************)
(* FixedSizeStack of stl/fixed_size_stack.h.  Every call holds the stack's *)
(* mutex throughout and is one step.  push() refuses when _head_idx is     *)
(* greater than _capacity, so that a push on a full stack writes behind    *)
(* the end of _items.  What that overwrites, and what the stack does       *)
(* afterwards, is undefined: the behaviour ends there.                     *)
(***************************************************************************)
EXTENDS Integers, Sequences

CONSTANTS Values, Raw, Capacity

VARIABLES
  head,     \* _head_idx
  items,    \* _items, a span of _capacity elements
  overrun   \* an element was constructed behind _items

vars == <<head, items, overrun>>

Slots == 0 .. Capacity - 1

Init == head = 0 /\ items = [s \in Slots |-> Raw] /\ overrun = FALSE

\* create(): also on memory that holds a stack.
Create == head' = 0 /\ UNCHANGED <<items, overrun>>

\* Mutant: the index moves before the element is written.
PushMovesFirst(v) ==
  /\ ~(head > Capacity)
  /\ IF head + 1 \in Slots
       THEN items' = [items EXCEPT ![head + 1] = v] /\ UNCHANGED overrun
       ELSE overrun' = TRUE /\ UNCHANGED items
  /\ head' = head + 1

Push(v) ==
  /\ ~(head > Capacity)
  /\ IF head \in Slots
       THEN items' = [items EXCEPT ![head] = v] /\ UNCHANGED overrun
       ELSE overrun' = TRUE /\ UNCHANGED items
  /\ head' = head + 1

Pop == head # 0 /\ head' = head - 1 /\ UNCHANGED <<items, overrun>>

\* size()
size == IF head > Capacity THEN Capacity ELSE head

Next == ~overrun /\ (Create \/ Pop \/ \E v \in Values : Push(v))

Spec == Init /\ [][Next]_vars

-----------------------------------------------------------------------------
(* Properties                                                              *)

\* front() is its last element.
Contents == [i \in 1 .. head |-> items[i - 1]]

Deque == INSTANCE BoundedDeque WITH q <- Contents

\* Elements come out of the stack in the reverse order of push(), none is
\* lost or overwritten, and size() is their number, up to the first push
\* that writes behind _items, for which the stack must be full.
ImplementsStack ==
  /\ Deque!Init
  /\ [][IF overrun' THEN Len(Contents) = Capacity
        ELSE (Create \/ Deque!Next) /\ size' = Len(Contents')]_vars

-----------------------------------------------------------------------------
(* What a comment of the code promises and the code does not do            *)

\* create(): capacity is the "max number of elements stored by the
\* FixedSizeStack", so push() on a full stack adds nothing.
StoresAtMostCapacity == head <= Capacity /\ ~overrun
=============================================================================
