--------------------------- MODULE PoolAllocator ----------------------------
(***************************************************************************)
(* pool_allocator of stl/allocator.h: a first-fit allocator that keeps a   *)
(* doubly linked list of nodes inside the memory it hands out.  A node is  *)
(* a header of NodeSize bytes followed by its data; offsets count from     *)
(* _memory.  Operations are one step: deallocate and all allocations but   *)
(* allocate() hold the pool's mutex throughout.  allocate() does not take  *)
(* it; what it does alone is modelled, its races with other threads are    *)
(* not.                                                                    *)
(***************************************************************************)
EXTENDS Integers, FiniteSets

CONSTANTS
  Size,        \* bytes handed to the constructor
  HeaderSize,  \* align_up(sizeof(Header))
  NodeSize,    \* align_up(sizeof(AllocatorListNode))
  Alignment,   \* 16 in the code
  Requests,    \* bytes clients ask for: n * sizeof(value_type)
  None         \* no node, no client

Invalid == -1    \* invalid_offset

ASSUME SizesAssumption ==
  /\ Alignment \in Nat \ {0} /\ NodeSize \in Nat \ {0} /\ HeaderSize \in Nat
  /\ Size \in Nat /\ Size >= HeaderSize + NodeSize
ASSUME RequestsAssumption == Requests \subseteq Nat /\ IsFiniteSet(Requests)

Memory == Size - HeaderSize
Offsets == 0 .. Memory - 1
DataOffsets == 0 .. Memory   \* where data begin: that of an empty last node at the end

ASSUME NoneAssumption ==
  None \notin Requests \cup [size : Nat, next : Int, prev : Int, free : BOOLEAN]

VARIABLES
  nodes,   \* offset -> the AllocatorListNode there, or None
  live     \* data offset -> bytes requested by the client that holds it, or None

vars == <<nodes, live>>

Node(size, nextOffset, prevOffset, free) ==
  [size |-> size, next |-> nextOffset, prev |-> prevOffset, free |-> free]

\* The constructor: one free node over all of the memory.
Init ==
  /\ nodes = [o \in Offsets |->
                IF o = 0 THEN Node(Memory - NodeSize, Invalid, Invalid, TRUE) ELSE None]
  /\ live = [d \in DataOffsets |-> None]

align_up(n) == ((n + Alignment - 1) \div Alignment) * Alignment

\* offset_to_pointer followed by a dereference; null is Invalid.
Pointer(o) == IF o < 0 \/ o > Size THEN Invalid ELSE o

Headers(ns) == {o \in Offsets : ns[o] # None}

\* The nodes of the list, from the head on.
ListOf(ns) ==
  LET reach[o \in Headers(ns)] ==
        {o} \cup IF ns[o].next = Invalid THEN {} ELSE reach[ns[o].next]
  IN  reach[0]

-----------------------------------------------------------------------------
(* Allocation                                                              *)

\* Mutant: the first free node is taken, large enough or not.
FirstFree(bytes) ==
  LET search[o \in Headers(nodes)] ==
        IF nodes[o].free THEN o
        ELSE IF nodes[o].next = Invalid THEN Invalid
        ELSE search[Pointer(nodes[o].next)]
  IN  search[0]

\* The search for the first free node that is large enough, from the head on.
FirstFit(bytes) ==
  LET search[o \in Headers(nodes)] ==
        IF nodes[o].free /\ nodes[o].size >= bytes THEN o
        ELSE IF nodes[o].next = Invalid THEN Invalid
        ELSE search[Pointer(nodes[o].next)]
  IN  search[0]

\* _m_insert_node: a free node at new, right after node o.
InsertNode(ns, o, new, size) ==
  LET after == ns[o].next
      linked == [ns EXCEPT ![o].next = new, ![new] = Node(size, after, o, TRUE)]
  IN  IF after = Invalid THEN linked ELSE [linked EXCEPT ![after].prev = new]

\* Node o is used for bytes bytes and split if more than a header is left.
Take(o, bytes) ==
  LET taken == [nodes EXCEPT ![o].free = FALSE]
  IN  IF nodes[o].size - bytes > NodeSize
        THEN [InsertNode(taken, o, o + NodeSize + bytes,
                         nodes[o].size - bytes - NodeSize) EXCEPT ![o].size = bytes]
        ELSE taken

-----------------------------------------------------------------------------
(* Deallocation                                                            *)

\* Mutant: merging forward forgets the headers it swallows.
MergeForwardLosesHeaders(ns, o) ==
  LET busy[p \in Headers(ns) \cup {Invalid}] ==
        IF p = Invalid \/ ~ns[p].free THEN p
        ELSE busy[Pointer(ns[p].next)]
      bytes[p \in Headers(ns) \cup {Invalid}] ==
        IF p = Invalid \/ ~ns[p].free THEN 0
        ELSE ns[p].size + bytes[Pointer(ns[p].next)]
      last == busy[Pointer(ns[o].next)]
      merged == [ns EXCEPT ![o].size = @ + bytes[Pointer(ns[o].next)], ![o].next = last]
  IN  IF ns[o].next = Invalid THEN ns
      ELSE IF last = Invalid THEN merged
      ELSE [merged EXCEPT ![last].prev = o]

\* _m_merge_forward: node o swallows the free nodes that follow it.
MergeForward(ns, o) ==
  LET busy[p \in Headers(ns) \cup {Invalid}] ==
        IF p = Invalid \/ ~ns[p].free THEN p
        ELSE busy[Pointer(ns[p].next)]
      bytes[p \in Headers(ns) \cup {Invalid}] ==
        IF p = Invalid \/ ~ns[p].free THEN 0
        ELSE ns[p].size + NodeSize + bytes[Pointer(ns[p].next)]
      last == busy[Pointer(ns[o].next)]
      merged == [ns EXCEPT ![o].size = @ + bytes[Pointer(ns[o].next)], ![o].next = last]
  IN  IF ns[o].next = Invalid THEN ns
      ELSE IF last = Invalid THEN merged
      ELSE [merged EXCEPT ![last].prev = o]

\* Mutant: nodes are only merged forward.
MergeBackwardNever(ns, o) == ns

\* _m_merge_backward: the free nodes before node o swallow it; the first of
\* them takes its place.
MergeBackward(ns, o) ==
  LET before(p) == Pointer(ns[p].prev)
      first[p \in Headers(ns)] ==
        IF before(p) = Invalid \/ ~ns[before(p)].free THEN p
        ELSE first[before(p)]
      bytes[p \in Headers(ns)] ==
        IF first[p] = p THEN ns[p].size
        ELSE ns[p].size + NodeSize + bytes[before(p)]
      after == Pointer(ns[o].next)
      merged == [ns EXCEPT ![first[o]].size = bytes[o], ![first[o]].next = ns[o].next]
  IN  IF ns[o].prev = Invalid THEN ns
      ELSE IF after = Invalid THEN merged
      ELSE [merged EXCEPT ![after].prev = first[o]]

-----------------------------------------------------------------------------
(* Operations                                                              *)

\* _m_allocate_from_list and _m_allocate_from_list_ptr, for a client that
\* wants n bytes; without a node that fits they throw bad_alloc.
AllocateFromList(bytes, n) ==
  LET o == FirstFit(bytes)
  IN  /\ o # Invalid
      /\ nodes' = Take(o, bytes)
      /\ live' = [live EXCEPT ![o + NodeSize] = n]

\* allocate_offset, allocate_at_least and allocate_at_least_offset: the size
\* is rounded up.
AllocateAtLeast(n) == AllocateFromList(align_up(n), n)

\* allocate: the size is not rounded up.
Allocate(n) == AllocateFromList(n, n)

\* deallocate, of data that an allocation returned; a header that is merged
\* away is plain memory from then on.
Deallocate(d) ==
  LET o == d - NodeSize
      freed == [nodes EXCEPT ![o].free = TRUE]
      merged == MergeBackward(MergeForward(freed, o), o)
  IN  /\ live[d] # None
      /\ live' = [live EXCEPT ![d] = None]
      /\ nodes' = [p \in Offsets |-> IF p \in ListOf(merged) THEN merged[p] ELSE None]

Next ==
  \/ \E n \in Requests : AllocateAtLeast(n) \/ Allocate(n)
  \/ \E d \in DataOffsets : Deallocate(d)

Spec == Init /\ [][Next]_vars

-----------------------------------------------------------------------------
(* Properties                                                              *)

List == ListOf(nodes)

EndOf(o) == o + NodeSize + nodes[o].size

\* The list tiles the memory: every node ends where the next one begins and
\* the last one at the end, whatever was split and merged before; so no byte
\* is lost and no two nodes overlap.
Tiling ==
  \A o \in List :
    EndOf(o) = IF nodes[o].next = Invalid THEN Memory ELSE nodes[o].next

\* After splits and merges anywhere in the list the links backward still
\* mirror the links forward, and no two neighbours are free: deallocate
\* merged them.
ListWellFormed ==
  /\ nodes[0].prev = Invalid
  /\ \A o \in List : nodes[o].next # Invalid =>
       /\ nodes[nodes[o].next].prev = o
       /\ ~(nodes[o].free /\ nodes[nodes[o].next].free)

\* What clients hold is what the list says is in use, each with room for
\* the bytes asked for, so nobody writes over another's data or a header.
ClientsKeepData ==
  /\ {o \in List : ~nodes[o].free} = {d - NodeSize : d \in {x \in DataOffsets : live[x] # None}}
  /\ \A d \in DataOffsets : live[d] # None => nodes[d - NodeSize].size >= live[d]
=============================================================================
