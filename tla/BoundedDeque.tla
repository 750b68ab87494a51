---------------------------- MODULE BoundedDeque ----------------------------
(***************************************************************************)
(* What fixed_size_queue.h and fixed_size_stack.h promise: at most         *)
(* Capacity elements, added at the back and removed at either end.         *)
(***************************************************************************)
EXTENDS Integers, Sequences

CONSTANTS Values, Capacity

VARIABLE q

Init == q = <<>>

PushBack == \E v \in Values : Len(q) < Capacity /\ q' = Append(q, v)
PopFront == q # <<>> /\ q' = Tail(q)
PopBack == q # <<>> /\ q' = SubSeq(q, 1, Len(q) - 1)

Next == PushBack \/ PopFront \/ PopBack

Spec == Init /\ [][Next]_q
=============================================================================
