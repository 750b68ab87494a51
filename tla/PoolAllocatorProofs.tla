------------------------ MODULE PoolAllocatorProofs -------------------------
(***************************************************************************)
(* The pool allocator for any memory, header and node sizes, alignment and *)
(* requests: the list of nodes tiles the memory, its links agree and what  *)
(* clients hold is theirs.                                                 *)
(***************************************************************************)
EXTENDS PoolAllocator, WellFoundedInduction, TLAPS

Record == [size : Nat, next : Offsets \cup {Invalid}, prev : Offsets \cup {Invalid}, free : BOOLEAN]

TypeOK ==
  /\ nodes \in [Offsets -> Record \cup {None}]
  /\ live \in [DataOffsets -> Requests \cup {None}]

H == Headers(nodes)

\* Where node o ends according to its link.
Following(o) == IF nodes[o].next = Invalid THEN Memory ELSE nodes[o].next

\* All headers in memory are in the list, in the order of their addresses:
\* one ends where the next one begins, and each but the first is linked from
\* the one before it.
Links ==
  /\ 0 \in H /\ nodes[0].prev = Invalid
  /\ \A o \in H : /\ EndOf(o) = Following(o) /\ EndOf(o) <= Memory
                  /\ nodes[o].next # Invalid => /\ nodes[o].next \in H
                                                /\ nodes[nodes[o].next].prev = o
                  /\ o # 0 => nodes[o].prev \in H /\ nodes[nodes[o].prev].next = o
  /\ \A o, h \in H : o < h => EndOf(o) <= h

\* Neighbours are not both free.
Merged ==
  \A o \in H : nodes[o].free /\ nodes[o].next # Invalid => ~nodes[nodes[o].next].free

Clients ==
  /\ \A d \in DataOffsets : live[d] # None <=> d - NodeSize \in H /\ ~nodes[d - NodeSize].free
  /\ \A d \in DataOffsets : live[d] # None => nodes[d - NodeSize].size >= live[d]

IndInv == TypeOK /\ Links /\ Merged /\ Clients

-----------------------------------------------------------------------------
(* Walks along the list                                                    *)

LEMMA LessThanWellFounded ==
  \E R : IsWellFoundedOn(R, Nat) /\ \A x, y \in Nat : x < y => <<x, y>> \in R
<1>1. \A x, y \in Nat : x < y => <<x, y>> \in OpToRel(<, Nat)
  BY DEF OpToRel
<1> QED
  BY <1>1, NatLessThanWellFounded, Zenon

\* A set of numbers that is not empty has a least member.
LEMMA LeastMember ==
  ASSUME NEW S \in SUBSET Nat, S # {}
  PROVE  \E x \in S : \A y \in S : x <= y
<1>1. PICK R : IsWellFoundedOn(R, Nat) /\ \A x, y \in Nat : x < y => <<x, y>> \in R
  BY LessThanWellFounded
<1>2. IsWellFoundedOn(R, Nat) /\ S \subseteq Nat
  BY <1>1
<1>3. PICK x \in S : \A y \in S : ~(<<y, x>> \in R)
  BY <1>2, WFMin
<1>4. \A y \in S : ~(y < x)
  BY <1>1, <1>2, <1>3, Zenon
<1> QED
  BY <1>2, <1>4, SMT

\* A walk over D goes on, from nodes other than those in stop, to a node of
\* lower rank.
Walk(D, N, r, stop, nx) ==
  /\ N \in Nat /\ r \in [D -> 0 .. N]
  /\ \A o \in D : o \notin stop => nx[o] \in D /\ r[nx[o]] < r[o]

Computes(D, V, base, step) == base \in [D -> V] /\ step \in [D -> [V -> V]]

Computable(D, V, stop, nx, base, step) ==
  \E f \in [D -> V] : \A o \in D :
    f[o] = IF o \in stop THEN base[o] ELSE step[o][f[nx[o]]]

\* It computes something: a function defined by recursion along it exists ...
LEMMA WalkDefined ==
  ASSUME NEW D, NEW V, NEW N, NEW r, NEW stop, NEW nx, Walk(D, N, r, stop, nx),
         NEW base, NEW step, Computes(D, V, base, step)
  PROVE  Computable(D, V, stop, nx, base, step)
<1> DEFINE Eq(f, o) == f[o] = IF o \in stop THEN base[o] ELSE step[o][f[nx[o]]]
           Good == {n \in Nat : \E f \in [D -> V] : \A o \in D : r[o] < n => Eq(f, o)}
<1> USE DEF Walk, Computes
<1>1. Nat \ Good = {}
  <2> SUFFICES ASSUME Nat \ Good # {} PROVE FALSE
    OBVIOUS
  <2>1. PICK n \in Nat \ Good : \A m \in Nat \ Good : n <= m
    BY LeastMember
  <2>2. 0 \in Good
    <3>1. \A o \in D : ~(r[o] < 0)
      OBVIOUS
    <3> QED
      BY <3>1, Zenon
  <2>3. n # 0 /\ n - 1 \in Nat /\ n - 1 \in Good
    <3> HIDE DEF Good
    <3>1. n \in Nat /\ n # 0
      BY <2>1, <2>2
    <3>2. n - 1 \in Nat /\ ~(n <= n - 1)
      BY <3>1
    <3> QED
      BY <2>1, <3>1, <3>2
  <2>4. PICK f \in [D -> V] : \A o \in D : r[o] < n - 1 => Eq(f, o)
    BY <2>3, Zenon
  <2> DEFINE g == [o \in D |-> IF r[o] < n - 1 THEN f[o]
                              ELSE IF o \in stop THEN base[o] ELSE step[o][f[nx[o]]]]
  <2>5. g \in [D -> V]
    <3>1. \A o \in D : o \notin stop => step[o][f[nx[o]]] \in V
      OBVIOUS
    <3> QED
      BY <3>1
  <2>6. ASSUME NEW o \in D, r[o] < n PROVE Eq(g, o)
    <3>1. g[o] = IF o \in stop THEN base[o] ELSE step[o][f[nx[o]]]
      BY <2>4
    <3>2. o \notin stop => g[nx[o]] = f[nx[o]]
      BY <2>3, <2>6
    <3> HIDE DEF g
    <3> QED
      BY <3>1, <3>2
  <2> HIDE DEF g
  <2>7. n \in Good
    BY <2>1, <2>5, <2>6, Zenon
  <2> QED
    BY <2>1, <2>7
<1>2. N + 1 \in Good
  <2>1. N + 1 \in Nat
    OBVIOUS
  <2> QED
    BY <1>1, <2>1, Zenon
<1>3. PICK f \in [D -> V] : \A o \in D : r[o] < N + 1 => Eq(f, o)
  BY <1>2, Zenon
<1>4. \A o \in D : r[o] < N + 1
  OBVIOUS
<1> QED
  BY <1>3, <1>4, Zenon DEF Computable

\* ... and only one.
LEMMA WalkUnique ==
  ASSUME NEW D, NEW N, NEW r, NEW stop, NEW nx, Walk(D, N, r, stop, nx),
         NEW f, NEW g, \A o \in D : o \in stop => f[o] = g[o],
         \A o \in D : o \notin stop /\ f[nx[o]] = g[nx[o]] => f[o] = g[o]
  PROVE  \A o \in D : f[o] = g[o]
<1> DEFINE Bad == {o \in D : f[o] # g[o]}
           Ranks == {r[o] : o \in Bad}
<1> SUFFICES ASSUME Bad # {} PROVE FALSE
  OBVIOUS
<1> USE DEF Walk
<1>1. Ranks \in SUBSET Nat /\ Ranks # {}
  OBVIOUS
<1>2. PICK k \in Ranks : \A m \in Ranks : k <= m
  BY <1>1, LeastMember
<1>3. PICK o \in Bad : r[o] = k
  BY <1>2
<1>4. o \notin stop /\ nx[o] \in D /\ r[nx[o]] < r[o]
  BY <1>3
<1>5. nx[o] \notin Bad
  <2>1. k \in Nat /\ r[nx[o]] \in Nat /\ ~(k <= r[nx[o]])
    BY <1>1, <1>2, <1>3, <1>4
  <2>2. r[nx[o]] \notin Ranks
    BY <1>2, <2>1
  <2> QED
    BY <2>2
<1> QED
  BY <1>3, <1>4, <1>5

LEMMA Sizes ==
  /\ Memory \in Nat /\ Memory >= NodeSize /\ NodeSize \in Nat /\ NodeSize > 0
  /\ Offsets \subseteq Nat /\ Invalid \notin Nat /\ 0 \in Offsets /\ None \notin Record
BY SizesAssumption, NoneAssumption DEF Memory, Offsets, Invalid, Record

\* The list goes from the head to the members of C, in the order of their
\* addresses, if every link leads to the nearest one of them.
LEMMA ListOfChain ==
  ASSUME NEW ns \in [Offsets -> Record \cup {None}], NEW C \in SUBSET Headers(ns), 0 \in C,
         \A h \in Headers(ns) : ns[h].next = Invalid => \A c \in C : c <= h,
         \A h \in Headers(ns) : ns[h].next # Invalid =>
           ns[h].next \in C /\ ns[h].next > h /\ \A c \in C : c > h => c >= ns[h].next
  PROVE  ListOf(ns) = C
<1> DEFINE D == Headers(ns)
           E(f) == f = [o \in D |-> {o} \cup IF ns[o].next = Invalid THEN {} ELSE f[ns[o].next]]
           walk == CHOOSE f : E(f)
           f0 == [o \in D |-> {o} \cup {c \in C : c > o}]
           r == [o \in D |-> Memory - o]
           nx == [o \in D |-> ns[o].next]
           stop == {o \in D : ns[o].next = Invalid}
<1>0. D \subseteq Nat /\ C \subseteq D /\ C \subseteq Nat /\ \A o \in D : ns[o] \in Record /\ o < Memory
  BY Sizes DEF Headers, Offsets
<1> HIDE DEF D
<1>1. ASSUME NEW o \in D
      PROVE  {o} \cup {c \in C : c > o} = {o} \cup IF ns[o].next = Invalid THEN {} ELSE f0[ns[o].next]
  <2>1. CASE ns[o].next = Invalid
    <3>1. {c \in C : c > o} = {}
      <4>1. \A c \in C : c <= o
        BY <2>1 DEF D
      <4>2. \A c \in C : ~(c > o)
        BY <1>0, <4>1
      <4> QED
        BY <4>2
    <3> QED
      BY <2>1, <3>1
  <2>2. CASE ns[o].next # Invalid
    <3>1. ns[o].next \in C /\ ns[o].next > o /\ \A c \in C : c > o => c >= ns[o].next
      BY <2>2 DEF D
    <3>2. {c \in C : c > o} = {ns[o].next} \cup {c \in C : c > ns[o].next}
      <4>1. o \in Nat /\ ns[o].next \in Nat
        BY <1>0, <3>1
      <4>2. \A c \in C : c > o <=> c = ns[o].next \/ c > ns[o].next
        BY <1>0, <3>1, <4>1
      <4> QED
        BY <3>1, <4>2
    <3> QED
      BY <1>0, <2>2, <3>1, <3>2
  <2> QED
    BY <2>1, <2>2
<1>2. E(f0)
  BY <1>1
<1>3. E(walk)
  <2> HIDE DEF f0
  <2> QED
    BY <1>2, Zenon
<1>4. ListOf(ns) = walk[0]
  BY Zenon DEF ListOf, D
<1> HIDE DEF walk
<1>5. \A o \in D : walk[o] = {o} \cup IF ns[o].next = Invalid THEN {} ELSE walk[ns[o].next]
  BY <1>3
<1>6. \A o \in D : f0[o] = {o} \cup IF ns[o].next = Invalid THEN {} ELSE f0[ns[o].next]
  BY <1>1
<1>7. \A o \in D : walk[o] = f0[o]
  <2>1. r \in [D -> 0 .. Memory] /\ Memory \in Nat
    BY <1>0, Sizes
  <2>2. \A o \in D : o \notin stop => nx[o] \in D /\ r[nx[o]] < r[o]
    <3> SUFFICES ASSUME NEW o \in D, o \notin stop PROVE nx[o] \in D /\ r[nx[o]] < r[o]
      OBVIOUS
    <3>1. ns[o].next \in D /\ ns[o].next > o
      BY <1>0 DEF D
    <3>2. nx[o] = ns[o].next /\ r[o] = Memory - o /\ r[nx[o]] = Memory - ns[o].next
      BY <3>1
    <3>3. o \in Nat /\ ns[o].next \in Nat /\ Memory \in Nat
      BY <1>0, <3>1, Sizes
    <3> HIDE DEF nx, r
    <3> QED
      BY <3>1, <3>2, <3>3
  <2>3. \A o \in D : o \in stop => walk[o] = f0[o]
    BY <1>5, <1>6
  <2>4. \A o \in D : o \notin stop /\ walk[nx[o]] = f0[nx[o]] => walk[o] = f0[o]
    BY <1>5, <1>6
  <2> HIDE DEF r, nx, stop, f0
  <2>5. Walk(D, Memory, r, stop, nx)
    BY <2>1, <2>2 DEF Walk
  <2> QED
    BY <2>3, <2>4, <2>5, WalkUnique
<1>8. f0[0] = C
  <2>1. \A c \in C : c = 0 \/ c > 0
    BY <1>0
  <2> QED
    BY <1>0, <2>1, ZenonT(40)
<1> QED
  BY <1>0, <1>4, <1>7, <1>8

LEMMA PointerIs == \A x \in Offsets \cup {Invalid} : Pointer(x) = x
BY SizesAssumption DEF Pointer, Offsets, Invalid, Memory

\* What TypeOK and Links say of a header.
LEMMA HeaderFacts ==
  ASSUME TypeOK, Links, NEW h \in H
  PROVE  /\ h \in Offsets /\ h \in Nat /\ h < Memory /\ nodes[h] \in Record /\ nodes[h].size \in Nat
         /\ EndOf(h) = h + NodeSize + nodes[h].size /\ EndOf(h) <= Memory /\ EndOf(h) > h
         /\ nodes[h].next = Invalid => EndOf(h) = Memory
         /\ nodes[h].next # Invalid => /\ nodes[h].next \in H /\ nodes[h].next = EndOf(h)
                                       /\ nodes[h].next > h /\ nodes[nodes[h].next].prev = h
<1>1. h \in Offsets /\ h \in Nat /\ h < Memory /\ nodes[h] \in Record /\ nodes[h].size \in Nat
  BY Sizes DEF H, Headers, TypeOK, Record, Offsets
<1>2. EndOf(h) = h + NodeSize + nodes[h].size /\ EndOf(h) <= Memory /\ EndOf(h) = Following(h)
  BY DEF Links, EndOf
<1>3. EndOf(h) > h
  BY <1>1, <1>2, Sizes
<1> QED
  BY <1>1, <1>2, <1>3 DEF Links, Following

LEMMA ListIsHeaders ==
  ASSUME TypeOK, Links
  PROVE  List = H
<1>1. nodes \in [Offsets -> Record \cup {None}] /\ H \in SUBSET Headers(nodes) /\ 0 \in H
  BY DEF TypeOK, H, Links
<1>2. ASSUME NEW h \in Headers(nodes), nodes[h].next = Invalid, NEW c \in H PROVE c <= h
  <2>1. h \in H
    BY DEF H
  <2>2. h \in Nat /\ c \in Nat /\ c < Memory /\ EndOf(h) = Memory
    BY <1>2, <2>1, HeaderFacts
  <2>3. h < c => Memory <= c
    BY <2>1, <2>2 DEF Links
  <2> QED
    BY <2>2, <2>3, Sizes
<1>3. ASSUME NEW h \in Headers(nodes), nodes[h].next # Invalid
      PROVE  nodes[h].next \in H /\ nodes[h].next > h /\ \A c \in H : c > h => c >= nodes[h].next
  <2>1. h \in H
    BY DEF H
  <2>2. h \in Nat /\ nodes[h].next \in H /\ nodes[h].next > h /\ nodes[h].next = EndOf(h)
    BY <1>3, <2>1, HeaderFacts
  <2>3. ASSUME NEW c \in H, c > h PROVE c >= nodes[h].next
    <3>1. c \in Nat /\ nodes[h].next \in Nat
      BY <2>2, HeaderFacts
    <3>2. h < c
      BY <2>2, <2>3, <3>1
    <3>3. EndOf(h) <= c
      BY <2>1, <3>2 DEF Links
    <3> QED
      BY <2>2, <3>1, <3>3
  <2> QED
    BY <2>2, <2>3
<1> QED
  BY <1>1, <1>2, <1>3, ListOfChain DEF List

\* The search finds a free node that is large enough, or nothing.
LEMMA FirstFitFits ==
  ASSUME TypeOK, Links, NEW bytes
  PROVE  FirstFit(bytes) # Invalid =>
           /\ FirstFit(bytes) \in H
           /\ nodes[FirstFit(bytes)].free /\ nodes[FirstFit(bytes)].size >= bytes
<1> DEFINE D == Headers(nodes)
           fits(o) == nodes[o].free /\ nodes[o].size >= bytes
           E(f) == f = [o \in D |-> IF fits(o) THEN o
                                    ELSE IF nodes[o].next = Invalid THEN Invalid
                                    ELSE f[Pointer(nodes[o].next)]]
           walk == CHOOSE f : E(f)
           V == {o \in D : fits(o)} \cup {Invalid}
           r == [o \in D |-> Memory - o]
           nx == [o \in D |-> Pointer(nodes[o].next)]
           stop == {o \in D : fits(o) \/ nodes[o].next = Invalid}
           base == [o \in D |-> IF fits(o) THEN o ELSE Invalid]
           step == [o \in D |-> [v \in V |-> v]]
<1>1. FirstFit(bytes) = walk[0]
  BY Zenon DEF FirstFit
<1>2. Walk(D, Memory, r, stop, nx)
  <2>1. r \in [D -> 0 .. Memory] /\ Memory \in Nat
    BY Sizes DEF Headers, Offsets
  <2>2. ASSUME NEW o \in D, o \notin stop PROVE nx[o] \in D /\ r[nx[o]] < r[o]
    <3>1. o \in H /\ nodes[o].next # Invalid
      BY <2>2 DEF H
    <3>2. o \in Nat /\ nodes[o].next \in H /\ nodes[o].next > o
      BY <3>1, HeaderFacts
    <3>3. nodes[o].next \in Offsets /\ nodes[o].next \in Nat /\ nodes[o].next \in D
      BY <3>2, HeaderFacts DEF H
    <3>4. nx[o] = nodes[o].next
      BY <3>3, PointerIs
    <3>5. r[o] = Memory - o /\ r[nx[o]] = Memory - nodes[o].next
      BY <3>3, <3>4
    <3> HIDE DEF nx, r
    <3> QED
      BY <3>2, <3>3, <3>4, <3>5, Sizes
  <2> HIDE DEF r, nx, stop, D
  <2> QED
    BY <2>1, <2>2 DEF Walk
<1>3. base \in [D -> V] /\ step \in [D -> [V -> V]]
  OBVIOUS
<1>4. PICK f0 \in [D -> V] : \A o \in D : f0[o] = IF o \in stop THEN base[o] ELSE step[o][f0[nx[o]]]
  <2> HIDE DEF D, V, r, stop, nx, base, step
  <2>1. Computable(D, V, stop, nx, base, step)
    BY <1>2, <1>3, WalkDefined DEF Computes
  <2> QED
    BY <2>1, Zenon DEF Computable
<1>5. \A o \in D : f0[o] = IF fits(o) THEN o ELSE IF nodes[o].next = Invalid THEN Invalid
                           ELSE f0[Pointer(nodes[o].next)]
  <2> SUFFICES ASSUME NEW o \in D
               PROVE  f0[o] = IF fits(o) THEN o ELSE IF nodes[o].next = Invalid THEN Invalid
                              ELSE f0[Pointer(nodes[o].next)]
    OBVIOUS
  <2>1. CASE o \in stop
    BY <1>4, <2>1
  <2>2. CASE o \notin stop
    <3>1. nx[o] \in D /\ nx[o] = Pointer(nodes[o].next)
      BY <1>2, <2>2 DEF Walk
    <3>2. f0[nx[o]] \in V
      BY <1>4, <3>1
    <3>3. step[o][f0[nx[o]]] = f0[nx[o]]
      BY <3>2
    <3>4. f0[o] = f0[nx[o]]
      BY <1>4, <2>2, <3>3
    <3> QED
      BY <2>2, <3>1, <3>4
  <2> QED
    BY <2>1, <2>2
<1>6. E(f0)
  BY <1>4, <1>5
<1>7. E(walk)
  BY <1>6, Zenon
<1> HIDE DEF walk
<1>8. \A o \in D : walk[o] = IF fits(o) THEN o ELSE IF nodes[o].next = Invalid THEN Invalid
                             ELSE walk[Pointer(nodes[o].next)]
  BY <1>7
<1>9. \A o \in D : o \in stop => walk[o] = f0[o]
  BY <1>5, <1>8
<1>10. \A o \in D : o \notin stop /\ walk[nx[o]] = f0[nx[o]] => walk[o] = f0[o]
  BY <1>5, <1>8
<1>11. \A o \in D : walk[o] = f0[o]
  <2> HIDE DEF D, r, stop, nx
  <2> QED
    BY <1>2, <1>9, <1>10, WalkUnique
<1>12. 0 \in D
  BY DEF Links, H
<1>13. walk[0] \in V
  BY <1>4, <1>11, <1>12
<1> QED
  BY <1>1, <1>13 DEF H

\* Links lead forward, and backward, to other headers.
Forward(ns) ==
  \A h \in Headers(ns) : ns[h].next # Invalid => ns[h].next \in Headers(ns) /\ ns[h].next > h
Backward(ns) ==
  \A h \in Headers(ns) : ns[h].prev # Invalid => ns[h].prev \in Headers(ns) /\ ns[h].prev < h

\* What the two walks of _m_merge_forward compute: the first node that is in
\* use, and the bytes before it.
BusyFrom(ns, busy) ==
  \A p \in Headers(ns) \cup {Invalid} :
    busy[p] = IF p = Invalid \/ ~ns[p].free THEN p ELSE busy[Pointer(ns[p].next)]
FreeFrom(ns, bytes) ==
  \A p \in Headers(ns) \cup {Invalid} :
    bytes[p] = IF p = Invalid \/ ~ns[p].free THEN 0
               ELSE ns[p].size + NodeSize + bytes[Pointer(ns[p].next)]

ForwardMerged(ns, o, last, bytes) ==
  LET merged == [ns EXCEPT ![o].size = @ + bytes, ![o].next = last]
  IN  IF ns[o].next = Invalid THEN ns
      ELSE IF last = Invalid THEN merged
      ELSE [merged EXCEPT ![last].prev = o]

LEMMA MergeForwardIs ==
  ASSUME NEW ns \in [Offsets -> Record \cup {None}], Forward(ns), NEW o
  PROVE  \E busy, bytes :
           /\ BusyFrom(ns, busy) /\ FreeFrom(ns, bytes)
           /\ MergeForward(ns, o) = ForwardMerged(ns, o, busy[Pointer(ns[o].next)],
                                                  bytes[Pointer(ns[o].next)])
<1> DEFINE D == Headers(ns) \cup {Invalid}
           E(f) == f = [p \in D |-> IF p = Invalid \/ ~ns[p].free THEN p
                                    ELSE f[Pointer(ns[p].next)]]
           F(f) == f = [p \in D |-> IF p = Invalid \/ ~ns[p].free THEN 0
                                    ELSE ns[p].size + NodeSize + f[Pointer(ns[p].next)]]
           busy == CHOOSE f : E(f)
           bytes == CHOOSE f : F(f)
           stop == {p \in D : p = Invalid \/ ~ns[p].free}
           nx == [p \in D |-> Pointer(ns[p].next)]
           r == [p \in D |-> IF p = Invalid THEN 0 ELSE Memory - p]
           base == [p \in D |-> p]
           step == [p \in D |-> [v \in D |-> v]]
           base0 == [p \in D |-> 0]
           step0 == [p \in D |-> [v \in Nat |-> IF p = Invalid THEN 0 ELSE ns[p].size + NodeSize + v]]
<1>0. \A p \in Headers(ns) : ns[p] \in Record /\ p \in Nat /\ p \in Offsets /\ p < Memory /\ p # Invalid
                             /\ ns[p].size \in Nat /\ ns[p].next \in Offsets \cup {Invalid}
  BY Sizes DEF Headers, Offsets, Record
<1>1. Walk(D, Memory, r, stop, nx)
  <2>1. r \in [D -> 0 .. Memory] /\ Memory \in Nat
    BY <1>0, Sizes
  <2>2. ASSUME NEW p \in D, p \notin stop PROVE nx[p] \in D /\ r[nx[p]] < r[p]
    <3>1. p \in Headers(ns) /\ p # Invalid /\ nx[p] = ns[p].next /\ p \in Nat /\ p < Memory
      BY <1>0, <2>2, PointerIs
    <3>2. CASE ns[p].next = Invalid
      BY <1>0, <3>1, <3>2, Sizes
    <3>3. CASE ns[p].next # Invalid
      <4>1. ns[p].next \in Headers(ns) /\ ns[p].next > p
        BY <3>1, <3>3 DEF Forward
      <4>2. r[p] = Memory - p /\ r[nx[p]] = Memory - ns[p].next /\ ns[p].next \in Nat
        BY <1>0, <3>1, <3>3, <4>1
      <4> HIDE DEF r, nx
      <4> QED
        BY <3>1, <4>1, <4>2, Sizes
    <3> QED
      BY <3>2, <3>3
  <2> HIDE DEF r, nx, stop, D
  <2> QED
    BY <2>1, <2>2 DEF Walk
<1>2. \A p \in D : p \notin stop => p \in Headers(ns) /\ nx[p] \in D /\ nx[p] = Pointer(ns[p].next)
  BY <1>1 DEF Walk
<1>3. E(busy)
  <2>1. Computes(D, D, base, step)
    BY DEF Computes
  <2>2. Computable(D, D, stop, nx, base, step)
    <3> HIDE DEF D, r, nx, stop, base, step
    <3> QED
      BY <1>1, <2>1, WalkDefined
  <2>3. PICK f \in [D -> D] : \A p \in D : f[p] = IF p \in stop THEN base[p] ELSE step[p][f[nx[p]]]
    BY <2>2, Zenon DEF Computable
  <2>4. ASSUME NEW p \in D
        PROVE  f[p] = IF p = Invalid \/ ~ns[p].free THEN p ELSE f[Pointer(ns[p].next)]
    <3>1. CASE p \in stop
      BY <2>3, <3>1
    <3>2. CASE p \notin stop
      <4>1. f[nx[p]] \in D
        BY <1>2, <2>3, <3>2
      <4>2. f[p] = f[nx[p]]
        BY <2>3, <3>2, <4>1
      <4> QED
        BY <1>2, <3>2, <4>2
    <3> QED
      BY <3>1, <3>2
  <2>5. E(f)
    BY <2>3, <2>4
  <2> QED
    BY <2>5, Zenon
<1>4. F(bytes)
  <2>1. Computes(D, Nat, base0, step0)
    <3>1. \A p \in D, v \in Nat : (IF p = Invalid THEN 0 ELSE ns[p].size + NodeSize + v) \in Nat
      BY <1>0, Sizes
    <3> QED
      BY <3>1 DEF Computes
  <2>2. Computable(D, Nat, stop, nx, base0, step0)
    <3> HIDE DEF D, r, nx, stop, base0, step0
    <3> QED
      BY <1>1, <2>1, WalkDefined
  <2>3. PICK f \in [D -> Nat] : \A p \in D : f[p] = IF p \in stop THEN base0[p] ELSE step0[p][f[nx[p]]]
    BY <2>2, Zenon DEF Computable
  <2>4. ASSUME NEW p \in D
        PROVE  f[p] = IF p = Invalid \/ ~ns[p].free THEN 0
                      ELSE ns[p].size + NodeSize + f[Pointer(ns[p].next)]
    <3>1. CASE p \in stop
      BY <2>3, <3>1
    <3>2. CASE p \notin stop
      <4>1. f[nx[p]] \in Nat /\ p # Invalid
        BY <1>2, <2>3, <3>2
      <4>2. step0[p][f[nx[p]]] = ns[p].size + NodeSize + f[nx[p]]
        BY <4>1
      <4>3. f[p] = ns[p].size + NodeSize + f[nx[p]]
        BY <2>3, <3>2, <4>2
      <4> QED
        BY <1>2, <3>2, <4>3
    <3> QED
      BY <3>1, <3>2
  <2>5. F(f)
    BY <2>3, <2>4
  <2> QED
    BY <2>5, Zenon
<1>5. MergeForward(ns, o) = ForwardMerged(ns, o, busy[Pointer(ns[o].next)], bytes[Pointer(ns[o].next)])
  BY Zenon DEF MergeForward, ForwardMerged
<1> HIDE DEF busy, bytes
<1>6. BusyFrom(ns, busy)
  BY <1>3 DEF BusyFrom
<1>7. FreeFrom(ns, bytes)
  BY <1>4 DEF FreeFrom
<1> QED
  BY <1>5, <1>6, <1>7

\* What the walks of _m_merge_backward compute: the first of the free nodes
\* before a node, and the bytes from there on.
FirstFrom(ns, first) ==
  \A p \in Headers(ns) :
    first[p] = IF Pointer(ns[p].prev) = Invalid \/ ~ns[Pointer(ns[p].prev)].free THEN p
               ELSE first[Pointer(ns[p].prev)]
BytesFrom(ns, first, bytes) ==
  \A p \in Headers(ns) :
    bytes[p] = IF first[p] = p THEN ns[p].size
               ELSE ns[p].size + NodeSize + bytes[Pointer(ns[p].prev)]

BackwardMerged(ns, o, first, bytes) ==
  LET after == Pointer(ns[o].next)
      merged == [ns EXCEPT ![first].size = bytes, ![first].next = ns[o].next]
  IN  IF ns[o].prev = Invalid THEN ns
      ELSE IF after = Invalid THEN merged
      ELSE [merged EXCEPT ![after].prev = first]

LEMMA MergeBackwardIs ==
  ASSUME NEW ns \in [Offsets -> Record \cup {None}], Backward(ns), NEW o
  PROVE  \E first, bytes :
           /\ FirstFrom(ns, first) /\ BytesFrom(ns, first, bytes)
           /\ MergeBackward(ns, o) = BackwardMerged(ns, o, first[o], bytes[o])
<1> DEFINE D == Headers(ns)
           before(p) == Pointer(ns[p].prev)
           E(f) == f = [p \in D |-> IF before(p) = Invalid \/ ~ns[before(p)].free THEN p
                                    ELSE f[before(p)]]
           first == CHOOSE f : E(f)
           F(f) == f = [p \in D |-> IF first[p] = p THEN ns[p].size
                                    ELSE ns[p].size + NodeSize + f[before(p)]]
           bytes == CHOOSE f : F(f)
           stop == {p \in D : before(p) = Invalid \/ ~ns[before(p)].free}
           stop0 == {p \in D : first[p] = p}
           nx == [p \in D |-> before(p)]
           r == [p \in D |-> p]
           base == [p \in D |-> p]
           step == [p \in D |-> [v \in D |-> v]]
           base0 == [p \in D |-> ns[p].size]
           step0 == [p \in D |-> [v \in Nat |-> ns[p].size + NodeSize + v]]
<1>0. \A p \in D : ns[p] \in Record /\ p \in Nat /\ p < Memory
                   /\ ns[p].size \in Nat /\ ns[p].prev \in Offsets \cup {Invalid}
  BY Sizes DEF Headers, Offsets, Record
<1>1. r \in [D -> 0 .. Memory] /\ Memory \in Nat
  BY <1>0, Sizes
<1>2. ASSUME NEW p \in D, p \notin stop PROVE nx[p] \in D /\ r[nx[p]] < r[p] /\ nx[p] = before(p)
  <2>1. before(p) = ns[p].prev /\ ns[p].prev # Invalid
    BY <1>0, <1>2, PointerIs
  <2>2. ns[p].prev \in D /\ ns[p].prev < p
    BY <2>1 DEF Backward
  <2> QED
    BY <2>1, <2>2
<1>3. E(first)
  <2>1. Computes(D, D, base, step)
    BY DEF Computes
  <2>2. Computable(D, D, stop, nx, base, step)
    <3> HIDE DEF D, r, nx, stop, base, step
    <3>1. Walk(D, Memory, r, stop, nx)
      BY <1>1, <1>2 DEF Walk
    <3> QED
      BY <2>1, <3>1, WalkDefined
  <2>3. PICK f \in [D -> D] : \A p \in D : f[p] = IF p \in stop THEN base[p] ELSE step[p][f[nx[p]]]
    BY <2>2, Zenon DEF Computable
  <2>4. ASSUME NEW p \in D
        PROVE  f[p] = IF before(p) = Invalid \/ ~ns[before(p)].free THEN p ELSE f[before(p)]
    <3>1. CASE p \in stop
      BY <2>3, <3>1
    <3>2. CASE p \notin stop
      <4>1. f[nx[p]] \in D
        BY <1>2, <2>3, <3>2
      <4>2. f[p] = f[nx[p]]
        BY <2>3, <3>2, <4>1
      <4> QED
        BY <1>2, <3>2, <4>2
    <3> QED
      BY <3>1, <3>2
  <2>5. E(f)
    BY <2>3, <2>4
  <2> QED
    BY <2>5, Zenon
<1>5. MergeBackward(ns, o) = BackwardMerged(ns, o, first[o], bytes[o])
  BY Zenon DEF MergeBackward, BackwardMerged
<1> HIDE DEF first
<1>6. FirstFrom(ns, first)
  BY <1>3 DEF FirstFrom
<1>7. ASSUME NEW p \in D, p \notin stop0 PROVE p \notin stop
  BY <1>6, <1>7 DEF FirstFrom
<1>8. F(bytes)
  <2>1. Computes(D, Nat, base0, step0)
    <3>1. \A p \in D, v \in Nat : ns[p].size + NodeSize + v \in Nat
      BY <1>0, Sizes
    <3> QED
      BY <1>0, <3>1 DEF Computes
  <2>2. Computable(D, Nat, stop0, nx, base0, step0)
    <3> HIDE DEF D, r, nx, stop, stop0, base0, step0
    <3>1. Walk(D, Memory, r, stop0, nx)
      BY <1>1, <1>2, <1>7 DEF Walk
    <3> QED
      BY <2>1, <3>1, WalkDefined
  <2>3. PICK f \in [D -> Nat] : \A p \in D : f[p] = IF p \in stop0 THEN base0[p] ELSE step0[p][f[nx[p]]]
    BY <2>2, Zenon DEF Computable
  <2>4. ASSUME NEW p \in D
        PROVE  f[p] = IF first[p] = p THEN ns[p].size ELSE ns[p].size + NodeSize + f[before(p)]
    <3>1. CASE p \in stop0
      BY <2>3, <3>1
    <3>2. CASE p \notin stop0
      <4>1. f[nx[p]] \in Nat /\ nx[p] = before(p)
        BY <1>2, <1>7, <2>3, <3>2
      <4>2. step0[p][f[nx[p]]] = ns[p].size + NodeSize + f[nx[p]]
        BY <4>1
      <4>3. f[p] = ns[p].size + NodeSize + f[nx[p]]
        BY <2>3, <3>2, <4>2
      <4> QED
        BY <3>2, <4>1, <4>3
    <3> QED
      BY <3>1, <3>2
  <2>5. F(f)
    BY <2>3, <2>4
  <2> QED
    BY <2>5, Zenon
<1> HIDE DEF bytes
<1>9. BytesFrom(ns, first, bytes)
  BY <1>8 DEF BytesFrom
<1> QED
  BY <1>5, <1>6, <1>9

-----------------------------------------------------------------------------
(* The initial state and allocation                                        *)

LEMMA InitHolds == Init => IndInv
<1> SUFFICES ASSUME Init PROVE IndInv
  OBVIOUS
<1> DEFINE n0 == Node(Memory - NodeSize, Invalid, Invalid, TRUE)
<1>1. n0 \in Record /\ n0 # None /\ n0.next = Invalid /\ n0.prev = Invalid /\ n0.size = Memory - NodeSize
      /\ n0.free
  <2>1. Memory - NodeSize \in Nat
    BY Sizes
  <2>2. n0 \in Record
    BY <2>1 DEF Node, Record
  <2>3. n0.next = Invalid /\ n0.prev = Invalid /\ n0.size = Memory - NodeSize /\ n0.free
    BY DEF Node
  <2> QED
    BY <2>2, <2>3, Sizes
<1> HIDE DEF n0
<1>2. nodes = [o \in Offsets |-> IF o = 0 THEN n0 ELSE None] /\ live = [d \in DataOffsets |-> None]
  BY DEF Init, n0
<1>3. TypeOK
  BY <1>1, <1>2 DEF TypeOK
<1>4. nodes[0] = n0 /\ H = {0}
  BY <1>1, <1>2, Sizes DEF H, Headers
<1>5. Links /\ Merged
  BY <1>1, <1>4, Sizes DEF Links, Merged, EndOf, Following
<1>6. Clients
  <2>1. \A d \in DataOffsets : live[d] = None /\ ~(d - NodeSize \in H /\ ~nodes[d - NodeSize].free)
    BY <1>1, <1>2, <1>4
  <2> QED
    BY <2>1 DEF Clients
<1> QED
  BY <1>3, <1>5, <1>6 DEF IndInv

\* An allocation that uses all of node o.
LEMMA WholeKeeps ==
  ASSUME IndInv, NEW o \in H, NEW n \in Requests, nodes[o].size >= n,
         nodes' = [nodes EXCEPT ![o].free = FALSE], live' = [live EXCEPT ![o + NodeSize] = n]
  PROVE  IndInv'
<1>1. TypeOK /\ Links /\ Merged /\ Clients
  BY DEF IndInv
<1>2. o \in Offsets /\ o \in Nat /\ nodes[o] \in Record /\ nodes[o].size \in Nat /\ EndOf(o) <= Memory
      /\ EndOf(o) = o + NodeSize + nodes[o].size
  BY <1>1, HeaderFacts
<1>3. /\ nodes' \in [Offsets -> Record \cup {None}] /\ nodes'[o] \in Record
      /\ nodes'[o].size = nodes[o].size /\ nodes'[o].next = nodes[o].next
      /\ nodes'[o].prev = nodes[o].prev /\ nodes'[o].free = FALSE
      /\ \A p \in Offsets \ {o} : nodes'[p] = nodes[p]
  BY <1>1, <1>2 DEF TypeOK, Record
<1>4. H' = H
  BY <1>2, <1>3, Sizes DEF H, Headers
<1>5. \A h \in H : /\ nodes'[h].size = nodes[h].size /\ nodes'[h].next = nodes[h].next
                   /\ nodes'[h].prev = nodes[h].prev /\ (h # o => nodes'[h].free = nodes[h].free)
                   /\ EndOf(h)' = EndOf(h) /\ Following(h)' = Following(h)
  BY <1>3 DEF H, Headers, EndOf, Following
<1>6. o + NodeSize \in DataOffsets
  BY <1>2, Sizes DEF DataOffsets
<1>7. TypeOK'
  BY <1>1, <1>3, <1>6 DEF TypeOK
<1>8. Links'
  <2>1. 0 \in H /\ nodes'[0].prev = Invalid
    BY <1>1, <1>5 DEF Links
  <2>2. ASSUME NEW h \in H
        PROVE  /\ EndOf(h)' = Following(h)' /\ EndOf(h)' <= Memory
               /\ nodes'[h].next # Invalid => /\ nodes'[h].next \in H
                                              /\ nodes'[nodes'[h].next].prev = h
               /\ h # 0 => nodes'[h].prev \in H /\ nodes'[nodes'[h].prev].next = h
    <3>1. /\ nodes[h].next # Invalid => nodes[h].next \in H /\ nodes[nodes[h].next].prev = h
          /\ h # 0 => nodes[h].prev \in H /\ nodes[nodes[h].prev].next = h
          /\ EndOf(h) = Following(h) /\ EndOf(h) <= Memory
      BY <1>1 DEF Links
    <3>2. nodes'[h].next # Invalid => nodes'[h].next \in H /\ nodes'[nodes'[h].next].prev = h
      BY <1>5, <3>1
    <3>3. h # 0 => nodes'[h].prev \in H /\ nodes'[nodes'[h].prev].next = h
      BY <1>5, <3>1
    <3> QED
      BY <1>5, <3>1, <3>2, <3>3
  <2>3. \A x, h \in H : x < h => EndOf(x)' <= h
    BY <1>1, <1>5 DEF Links
  <2> QED
    BY <1>4, <2>1, <2>2, <2>3 DEF Links
<1>9. Merged'
  BY <1>1, <1>3, <1>4, <1>5 DEF Merged, Links
<1>10. Clients'
  <2> SUFFICES ASSUME NEW d \in DataOffsets
               PROVE  /\ live'[d] # None <=> d - NodeSize \in H /\ ~nodes'[d - NodeSize].free
                      /\ live'[d] # None => nodes'[d - NodeSize].size >= live'[d]
    BY <1>4 DEF Clients
  <2>1. CASE d = o + NodeSize
    <3>1. d - NodeSize = o /\ live'[d] = n /\ n # None
      BY <1>1, <1>2, <1>6, <2>1, Sizes, NoneAssumption DEF TypeOK
    <3> QED
      BY <1>3, <3>1
  <2>2. CASE d # o + NodeSize
    <3>1. d - NodeSize # o /\ live'[d] = live[d]
      BY <1>1, <1>2, <2>2, Sizes DEF TypeOK, DataOffsets
    <3> QED
      BY <1>1, <1>5, <3>1 DEF Clients
  <2> QED
    BY <2>1, <2>2
<1> QED
  BY <1>7, <1>8, <1>9, <1>10 DEF IndInv

LEMMA NodeIs ==
  ASSUME NEW k, NEW x, NEW y, NEW b
  PROVE  /\ Node(k, x, y, b).size = k /\ Node(k, x, y, b).next = x
         /\ Node(k, x, y, b).prev = y /\ Node(k, x, y, b).free = b
         /\ k \in Nat /\ x \in Offsets \cup {Invalid} /\ y \in Offsets \cup {Invalid} /\ b \in BOOLEAN =>
              Node(k, x, y, b) \in Record
BY DEF Node, Record

\* Splitting node o: what Take makes of the records.
LEMMA SplitEffect ==
  ASSUME TypeOK, Links, NEW o \in H, NEW bytes \in Nat, nodes[o].size - bytes > NodeSize
  PROVE  LET new == o + NodeSize + bytes
             after == nodes[o].next
             ns == Take(o, bytes)
         IN  /\ new \in Offsets /\ new \notin H /\ ns \in [Offsets -> Record \cup {None}]
             /\ ns[o] = Node(bytes, new, nodes[o].prev, FALSE)
             /\ ns[new] = Node(nodes[o].size - bytes - NodeSize, after, o, TRUE)
             /\ after # Invalid => ns[after] = Node(nodes[after].size, nodes[after].next, new, nodes[after].free)
             /\ \A p \in Offsets : p \notin {o, new, after} => ns[p] = nodes[p]
<1> DEFINE new == o + NodeSize + bytes
           after == nodes[o].next
           rest == nodes[o].size - bytes - NodeSize
           N == Node(rest, after, o, TRUE)
           taken == [nodes EXCEPT ![o].free = FALSE]
           ns1 == [taken EXCEPT ![o].next = new]
           ns2 == [ns1 EXCEPT ![new] = N]
           ns3 == IF after = Invalid THEN ns2 ELSE [ns2 EXCEPT ![after].prev = new]
           ns4 == [ns3 EXCEPT ![o].size = bytes]
<1>1. Take(o, bytes) = ns4
  <2>1. taken[o].next = after
    BY HeaderFacts DEF TypeOK, Record
  <2> DEFINE L(x) == [taken EXCEPT ![o].next = new, ![new] = Node(rest, x, o, TRUE)]
             I(x) == IF x = Invalid THEN L(x) ELSE [L(x) EXCEPT ![x].prev = new]
  <2>2. InsertNode(taken, o, new, rest) = I(taken[o].next)
    BY DEF InsertNode
  <2>3. Take(o, bytes) = [InsertNode(taken, o, new, rest) EXCEPT ![o].size = bytes]
    BY DEF Take
  <2>4. L(after) = ns2
    OBVIOUS
  <2>5. I(after) = ns3
    BY <2>4
  <2> HIDE DEF I, taken, after, new, rest
  <2>6. InsertNode(taken, o, new, rest) = I(after)
    BY <2>1, <2>2
  <2> QED
    BY <2>3, <2>5, <2>6
<1>2. /\ o \in Offsets /\ o \in Nat /\ nodes[o] \in Record /\ nodes[o].size \in Nat
      /\ EndOf(o) = o + NodeSize + nodes[o].size /\ EndOf(o) <= Memory
      /\ after \in Offsets \cup {Invalid} /\ nodes[o].prev \in Offsets \cup {Invalid}
  BY HeaderFacts DEF Record
<1>3. rest \in Nat /\ new \in Offsets /\ new > o /\ new < EndOf(o)
  BY <1>2, Sizes DEF Offsets
<1>4. new \notin H
  <2>1. new \in H => EndOf(o) <= new
    BY <1>2, <1>3 DEF Links
  <2> QED
    BY <1>2, <1>3, <2>1, Sizes
<1>5. after # Invalid => /\ after \in H /\ after \in Offsets /\ after # o /\ after # new
                         /\ nodes[after] \in Record
  <2>1. after # Invalid => after \in H /\ after > o
    BY HeaderFacts
  <2>2. after # Invalid => after \in Offsets /\ after \in Nat /\ nodes[after] \in Record
    BY <2>1, HeaderFacts
  <2> QED
    BY <1>2, <1>4, <2>1, <2>2
<1> HIDE DEF new, after, rest
<1>6. taken = [nodes EXCEPT ![o] = Node(nodes[o].size, after, nodes[o].prev, FALSE)]
  <2>1. [nodes[o] EXCEPT !.free = FALSE] = Node(nodes[o].size, after, nodes[o].prev, FALSE)
    <3>1. \A b \in BOOLEAN : [nodes[o] EXCEPT !.free = b] = Node(nodes[o].size, nodes[o].next, nodes[o].prev, b)
      BY <1>2 DEF Record, Node
    <3> QED
      BY <3>1, Zenon DEF after
  <2> QED
    BY <2>1
<1> DEFINE r1 == Node(nodes[o].size, after, nodes[o].prev, FALSE)
           r2 == Node(nodes[o].size, new, nodes[o].prev, FALSE)
           r4 == Node(bytes, new, nodes[o].prev, FALSE)
<1>7. r1 \in Record /\ r2 \in Record /\ r4 \in Record /\ N \in Record
  BY <1>2, <1>3, NodeIs
<1>7a. r1.size = nodes[o].size /\ r1.prev = nodes[o].prev /\ r1.free = FALSE
  BY DEF Node
<1>7b. r2.next = new /\ r2.prev = nodes[o].prev /\ r2.free = FALSE
  BY DEF Node
<1> HIDE DEF taken, r1, r2, r4, N
<1>8. taken \in [Offsets -> Record \cup {None}] /\ taken[o] = r1 /\ \A p \in Offsets \ {o} : taken[p] = nodes[p]
  BY <1>2, <1>6, <1>7 DEF TypeOK, r1
<1>9. ns1 = [taken EXCEPT ![o] = r2]
  <2>1. [r1 EXCEPT !.next = new] = Node(r1.size, new, r1.prev, r1.free)
    BY <1>7 DEF Record, Node
  <2> QED
    BY <1>7a, <1>8, <2>1 DEF r2
<1> HIDE DEF ns1
<1>10. ns1 \in [Offsets -> Record \cup {None}] /\ ns1[o] = r2 /\ \A p \in Offsets \ {o} : ns1[p] = nodes[p]
  BY <1>2, <1>7, <1>8, <1>9
<1>11. /\ ns2 \in [Offsets -> Record \cup {None}] /\ ns2[o] = r2 /\ ns2[new] = N
       /\ \A p \in Offsets \ {o, new} : ns2[p] = nodes[p]
  BY <1>2, <1>3, <1>4, <1>7, <1>10
<1> HIDE DEF ns2
<1> DEFINE ra == Node(nodes[after].size, nodes[after].next, new, nodes[after].free)
<1>12. /\ ns3 \in [Offsets -> Record \cup {None}] /\ ns3[o] = r2 /\ ns3[new] = N
       /\ after # Invalid => ns3[after] = ra
       /\ \A p \in Offsets : p \notin {o, new, after} => ns3[p] = nodes[p]
  <2>1. CASE after = Invalid
    BY <1>11, <2>1
  <2>2. CASE after # Invalid
    <3>1. ns2[after] = nodes[after]
      BY <1>5, <1>11, <2>2
    <3>2. ns3 = [ns2 EXCEPT ![after] = ra]
      <4>1. [nodes[after] EXCEPT !.prev = new] = ra
        BY <1>5, <2>2 DEF Record, Node
      <4> HIDE DEF ra
      <4> QED
        BY <2>2, <3>1, <4>1
    <3>3. ra \in Record
      <4>1. nodes[after].size \in Nat /\ nodes[after].next \in Offsets \cup {Invalid} /\ nodes[after].free \in BOOLEAN
        BY <1>5, <2>2 DEF Record
      <4> QED
        BY <1>3, <4>1, NodeIs
    <3> HIDE DEF ra, ns3
    <3> QED
      BY <1>2, <1>3, <1>5, <1>11, <2>2, <3>2, <3>3
  <2> QED
    BY <2>1, <2>2
<1> HIDE DEF ns3
<1>13. ns4 = [ns3 EXCEPT ![o] = r4]
  <2>1. [r2 EXCEPT !.size = bytes] = Node(bytes, r2.next, r2.prev, r2.free)
    BY <1>7 DEF Record, Node
  <2> QED
    BY <1>7b, <1>12, <2>1 DEF r4
<1> HIDE DEF ns4
<1>14. /\ ns4 \in [Offsets -> Record \cup {None}] /\ ns4[o] = r4 /\ ns4[new] = N
       /\ after # Invalid => ns4[after] = ra
       /\ \A p \in Offsets : p \notin {o, new, after} => ns4[p] = nodes[p]
  BY <1>2, <1>3, <1>4, <1>5, <1>7, <1>12, <1>13
<1> QED
  BY <1>1, <1>3, <1>4, <1>14 DEF new, after, rest, N, r4

\* An allocation that splits node o.
LEMMA SplitKeeps ==
  ASSUME IndInv, NEW o \in H, nodes[o].free, NEW bytes \in Nat, nodes[o].size - bytes > NodeSize,
         NEW n \in Requests, bytes >= n,
         nodes' = Take(o, bytes), live' = [live EXCEPT ![o + NodeSize] = n]
  PROVE  IndInv'
<1> DEFINE new == o + NodeSize + bytes
           after == nodes[o].next
<1>1. TypeOK /\ Links /\ Merged /\ Clients
  BY DEF IndInv
<1>2. /\ o \in Offsets /\ o \in Nat /\ o < Memory /\ nodes[o] \in Record /\ nodes[o].size \in Nat
      /\ EndOf(o) = o + NodeSize + nodes[o].size /\ EndOf(o) <= Memory
      /\ after = Invalid => EndOf(o) = Memory
      /\ after # Invalid => after \in H /\ after = EndOf(o) /\ after > o /\ nodes[after].prev = o
  BY <1>1, HeaderFacts
<1>3. /\ new \in Offsets /\ new \notin H /\ nodes' \in [Offsets -> Record \cup {None}]
      /\ nodes'[o] = Node(bytes, new, nodes[o].prev, FALSE)
      /\ nodes'[new] = Node(nodes[o].size - bytes - NodeSize, after, o, TRUE)
      /\ after # Invalid => nodes'[after] = Node(nodes[after].size, nodes[after].next, new, nodes[after].free)
      /\ \A p \in Offsets : p \notin {o, new, after} => nodes'[p] = nodes[p]
  BY <1>1, SplitEffect
<1>4. new \in Nat /\ o < new /\ new < EndOf(o) /\ new # 0 /\ EndOf(o) \in Nat
  BY <1>2, Sizes
<1>5. /\ nodes'[o].size = bytes /\ nodes'[o].next = new /\ nodes'[o].prev = nodes[o].prev
      /\ nodes'[o].free = FALSE
  BY <1>3 DEF Node
<1>6. /\ nodes'[new].size = nodes[o].size - bytes - NodeSize /\ nodes'[new].next = after
      /\ nodes'[new].prev = o /\ nodes'[new].free = TRUE
  BY <1>3 DEF Node
<1> HIDE DEF new, after
<1>7. ASSUME NEW h \in H, h # o
      PROVE  /\ nodes'[h].size = nodes[h].size /\ nodes'[h].next = nodes[h].next
             /\ nodes'[h].free = nodes[h].free
             /\ h # after => nodes'[h].prev = nodes[h].prev
             /\ h = after => nodes'[h].prev = new
             /\ EndOf(h)' = EndOf(h) /\ Following(h)' = Following(h)
             /\ h \in Nat /\ h # new
  <2>1. h \in Offsets /\ h \in Nat /\ h # new /\ h # Invalid
    BY <1>1, <1>3, HeaderFacts, Sizes
  <2>2. CASE h = after
    BY <1>3, <2>1, <2>2 DEF Node, EndOf, Following
  <2>3. CASE h # after
    <3>1. nodes'[h] = nodes[h]
      BY <1>3, <1>7, <2>1, <2>3
    <3> QED
      BY <2>1, <2>3, <3>1 DEF EndOf, Following
  <2> QED
    BY <2>2, <2>3
<1>8. H' = H \cup {new}
  <2>1. \A p \in Offsets : nodes'[p] # None <=> p \in H \cup {new}
    <3> SUFFICES ASSUME NEW p \in Offsets PROVE nodes'[p] # None <=> p \in H \cup {new}
      OBVIOUS
    <3>1. CASE p \in {o, new}
      <4>1. nodes'[p] \in Record
        <5>1. nodes[o].prev \in Offsets \cup {Invalid} /\ after \in Offsets \cup {Invalid}
          BY <1>2 DEF Record, after
        <5>2. nodes[o].size - bytes - NodeSize \in Nat
          BY <1>2, Sizes
        <5>3. Node(bytes, new, nodes[o].prev, FALSE) \in Record
          BY <1>3, <5>1 DEF Node, Record
        <5>4. Node(nodes[o].size - bytes - NodeSize, after, o, TRUE) \in Record
          BY <1>2, <5>1, <5>2 DEF Node, Record
        <5> QED
          BY <1>3, <3>1, <5>3, <5>4
      <4> QED
        BY <3>1, <4>1, Sizes
    <3>2. CASE p = after
      <4>1. after \in H /\ nodes[after] \in Record
        BY <1>1, <1>2, <3>2, HeaderFacts, Sizes DEF after
      <4>2. Node(nodes[after].size, nodes[after].next, new, nodes[after].free) \in Record
        BY <1>3, <4>1 DEF Node, Record
      <4>3. after # Invalid
        BY <3>2, Sizes
      <4> QED
        BY <1>3, <3>2, <4>1, <4>2, <4>3, Sizes
    <3>3. CASE p \notin {o, new, after}
      BY <1>3, <3>3 DEF H, Headers
    <3> QED
      BY <3>1, <3>2, <3>3
  <2>2. H \subseteq Offsets
    BY DEF H, Headers
  <2>3. H' = {p \in Offsets : nodes'[p] # None}
    BY DEF H, Headers
  <2> QED
    BY <1>3, <2>1, <2>2, <2>3
<1>9. EndOf(o)' = new /\ Following(o)' = new /\ EndOf(new)' = EndOf(o) /\ Following(new)' = EndOf(o)
  <2>1. EndOf(o)' = o + NodeSize + bytes
    BY <1>5 DEF EndOf
  <2>2. EndOf(new)' = new + NodeSize + (nodes[o].size - bytes - NodeSize)
    BY <1>6 DEF EndOf
  <2>3. new # Invalid
    BY <1>4, Sizes
  <2>4. Following(o)' = new /\ Following(new)' = IF after = Invalid THEN Memory ELSE after
    BY <1>5, <1>6, <2>3 DEF Following
  <2>5. EndOf(new)' = EndOf(o)
    BY <1>2, <2>2, Sizes DEF new
  <2> QED
    BY <1>2, <2>1, <2>4, <2>5 DEF new, after
<1>10. o + NodeSize \in DataOffsets
  BY <1>2, Sizes DEF DataOffsets
<1>11. TypeOK'
  BY <1>1, <1>3, <1>10 DEF TypeOK
<1>12. Links'
  <2>1. 0 \in H /\ nodes'[0].prev = Invalid
    <3>1. 0 \in H /\ nodes[0].prev = Invalid
      BY <1>1 DEF Links
    <3>2. 0 # after
      BY <1>2, Sizes DEF after
    <3> QED
      BY <1>5, <1>7, <3>1, <3>2
  <2>2. ASSUME NEW h \in H \cup {new}
        PROVE  /\ EndOf(h)' = Following(h)' /\ EndOf(h)' <= Memory
               /\ nodes'[h].next # Invalid => /\ nodes'[h].next \in H \cup {new}
                                              /\ nodes'[nodes'[h].next].prev = h
               /\ h # 0 => nodes'[h].prev \in H \cup {new} /\ nodes'[nodes'[h].prev].next = h
    <3>1. CASE h = o
      <4>1. o # 0 => nodes[o].prev \in H /\ nodes[nodes[o].prev].next = o
        BY <1>1 DEF Links
      <4>2. o # 0 => nodes[o].prev # o
        BY <1>1, <1>2, <4>1, HeaderFacts, Sizes
      <4>3. o # 0 => nodes'[nodes[o].prev].next = o
        BY <1>7, <4>1, <4>2
      <4>4. EndOf(o)' = Following(o)' /\ EndOf(o)' <= Memory
        BY <1>2, <1>4, <1>9, Sizes
      <4> QED
        BY <1>5, <1>6, <3>1, <4>1, <4>3, <4>4
    <3>2. CASE h = new
      <4>1. after # Invalid => after \in H /\ nodes'[after].prev = new
        <5>1. after # Invalid => after \in H /\ after # o
          BY <1>2 DEF after
        <5> QED
          BY <1>7, <5>1
      <4> QED
        BY <1>2, <1>4, <1>5, <1>6, <1>9, <3>2, <4>1
    <3>3. CASE h \in H /\ h # o
      <4>1. /\ EndOf(h) = Following(h) /\ EndOf(h) <= Memory
            /\ nodes[h].next # Invalid => nodes[h].next \in H /\ nodes[nodes[h].next].prev = h
            /\ h # 0 => nodes[h].prev \in H /\ nodes[nodes[h].prev].next = h
        BY <1>1, <3>3 DEF Links
      <4>2. /\ nodes'[h].next = nodes[h].next /\ EndOf(h)' = EndOf(h) /\ Following(h)' = Following(h)
            /\ h # after => nodes'[h].prev = nodes[h].prev
            /\ h = after => nodes'[h].prev = new
        BY <1>7, <3>3
      <4>3. nodes[h].next # Invalid => nodes'[nodes[h].next].prev = h
        <5> SUFFICES ASSUME nodes[h].next # Invalid PROVE nodes'[nodes[h].next].prev = h
          OBVIOUS
        <5>1. CASE nodes[h].next = o
          BY <1>5, <4>1, <5>1
        <5>2. CASE nodes[h].next # o
          <6>1. nodes[h].next # after
            BY <1>2, <3>3, <4>1 DEF after
          <6> QED
            BY <1>7, <4>1, <5>2, <6>1
        <5> QED
          BY <5>1, <5>2
      <4>4. h # after /\ h # 0 => nodes'[nodes[h].prev].next = h
        <5> SUFFICES ASSUME h # after, h # 0 PROVE nodes'[nodes[h].prev].next = h
          OBVIOUS
        <5>1. nodes[h].prev \in H /\ nodes[h].prev # o
          BY <4>1 DEF after
        <5> QED
          BY <1>7, <4>1, <5>1
      <4>5. h = after => nodes'[h].prev \in H \cup {new} /\ nodes'[nodes'[h].prev].next = h
        BY <1>6, <4>2
      <4> QED
        BY <4>1, <4>2, <4>3, <4>4, <4>5
    <3> QED
      BY <3>1, <3>2, <3>3
  <2>3. ASSUME NEW x \in H \cup {new}, NEW y \in H \cup {new}, x < y PROVE EndOf(x)' <= y
    <3>0. \A a, b \in H : a < b => EndOf(a) <= b
      BY <1>1 DEF Links
    <3>1. \A a \in H : a \in Nat /\ EndOf(a) \in Nat
      <4>1. \A a \in H : a \in Nat /\ nodes[a].size \in Nat /\ EndOf(a) = a + NodeSize + nodes[a].size
        BY <1>1, HeaderFacts
      <4> QED
        BY <4>1, Sizes
    <3>2. CASE x = o
      <4>1. y # new => EndOf(o) <= y /\ y \in Nat
        BY <2>3, <3>0, <3>1, <3>2
      <4> QED
        BY <1>4, <1>9, <3>2, <4>1
    <3>3. CASE x = new
      <4>1. y \in H /\ y \in Nat
        BY <1>4, <2>3, <3>1, <3>3
      <4>2. o < y
        BY <1>2, <1>4, <2>3, <3>3, <4>1
      <4> QED
        BY <1>9, <3>0, <3>3, <4>1, <4>2
    <3>4. CASE x \in H /\ x # o
      <4>1. EndOf(x)' = EndOf(x) /\ x \in Nat
        BY <1>7, <3>4
      <4>2. CASE y \in H
        BY <2>3, <3>0, <3>4, <4>1, <4>2
      <4>3. CASE y = new
        <5>1. ~(o < x)
          <6>1. o < x => EndOf(o) <= x
            BY <3>0, <3>4
          <6> QED
            BY <1>4, <2>3, <4>1, <4>3, <6>1
        <5>2. x < o
          BY <1>2, <3>4, <4>1, <5>1
        <5>3. EndOf(x) <= o
          BY <3>0, <3>4, <5>2
        <5> QED
          BY <1>2, <1>4, <3>1, <3>4, <4>1, <4>3, <5>3
      <4> QED
        BY <4>2, <4>3
    <3> QED
      BY <3>2, <3>3, <3>4
  <2> QED
    BY <1>8, <2>1, <2>2, <2>3 DEF Links
<1>13. Merged'
  <2> SUFFICES ASSUME NEW h \in H \cup {new}, nodes'[h].free, nodes'[h].next # Invalid
               PROVE  ~nodes'[nodes'[h].next].free
    BY <1>8 DEF Merged
  <2>1. CASE h = new
    <3>1. after \in H /\ after # o /\ nodes'[h].next = after
      BY <1>2, <1>6, <2>1 DEF after
    <3>2. ~nodes[after].free
      BY <1>1, <1>6, <2>1 DEF Merged, after
    <3> QED
      BY <1>7, <3>1, <3>2
  <2>2. CASE h \in H
    <3>1. h # o
      BY <1>5
    <3>2. nodes'[h].next = nodes[h].next /\ nodes[h].free /\ nodes[h].next \in H
      BY <1>1, <1>7, <2>2, <3>1 DEF Links
    <3>3. ~nodes[nodes[h].next].free
      BY <1>1, <2>2, <3>2 DEF Merged
    <3> QED
      BY <1>5, <1>7, <3>2, <3>3
  <2> QED
    BY <2>1, <2>2
<1>14. Clients'
  <2> SUFFICES ASSUME NEW d \in DataOffsets
               PROVE  /\ live'[d] # None <=> d - NodeSize \in H \cup {new} /\ ~nodes'[d - NodeSize].free
                      /\ live'[d] # None => nodes'[d - NodeSize].size >= live'[d]
    BY <1>8 DEF Clients
  <2>1. CASE d = o + NodeSize
    <3>1. d - NodeSize = o /\ live'[d] = n /\ n # None
      BY <1>1, <1>2, <1>10, <2>1, Sizes, NoneAssumption DEF TypeOK
    <3> QED
      BY <1>5, <3>1
  <2>2. CASE d # o + NodeSize
    <3>1. d - NodeSize # o /\ live'[d] = live[d]
      BY <1>1, <1>2, <2>2, Sizes DEF TypeOK, DataOffsets
    <3>2. live[d] # None <=> d - NodeSize \in H /\ ~nodes[d - NodeSize].free
      BY <1>1 DEF Clients
    <3>3. live[d] # None => nodes[d - NodeSize].size >= live[d]
      BY <1>1 DEF Clients
    <3>4. d - NodeSize \in H => /\ nodes'[d - NodeSize].free = nodes[d - NodeSize].free
                                /\ nodes'[d - NodeSize].size = nodes[d - NodeSize].size
      BY <1>7, <3>1
    <3>5. d - NodeSize = new => d - NodeSize \notin H /\ nodes'[d - NodeSize].free
      BY <1>3, <1>6
    <3> QED
      BY <3>1, <3>2, <3>3, <3>4, <3>5
  <2> QED
    BY <2>1, <2>2
<1> QED
  BY <1>11, <1>12, <1>13, <1>14 DEF IndInv

LEMMA AllocateKeeps ==
  ASSUME IndInv, NEW bytes \in Nat, NEW n \in Requests, bytes >= n, AllocateFromList(bytes, n)
  PROVE  IndInv'
<1> DEFINE o == FirstFit(bytes)
<1>1. TypeOK /\ Links
  BY DEF IndInv
<1>2. o # Invalid /\ nodes' = Take(o, bytes) /\ live' = [live EXCEPT ![o + NodeSize] = n]
  BY DEF AllocateFromList
<1>3. o \in H /\ nodes[o].free /\ nodes[o].size >= bytes
  BY <1>1, <1>2, FirstFitFits
<1> HIDE DEF o
<1>4. CASE nodes[o].size - bytes > NodeSize
  BY <1>2, <1>3, <1>4, SplitKeeps
<1>5. CASE ~(nodes[o].size - bytes > NodeSize)
  <2>1. nodes' = [nodes EXCEPT ![o].free = FALSE]
    BY <1>2, <1>5 DEF Take
  <2>2. nodes[o].size \in Nat /\ n \in Nat
    BY <1>1, <1>3, HeaderFacts, RequestsAssumption
  <2>3. nodes[o].size >= n
    BY <1>3, <2>2
  <2> QED
    BY <1>2, <1>3, <2>1, <2>3, WholeKeeps
<1> QED
  BY <1>4, <1>5

\* Rounding up leaves room for what was asked for.
LEMMA AlignUp == \A n \in Nat : align_up(n) \in Nat /\ align_up(n) >= n
<1> SUFFICES ASSUME NEW n \in Nat PROVE align_up(n) \in Nat /\ align_up(n) >= n
  OBVIOUS
<1> DEFINE A == Alignment
           m == n + A - 1
           q == m \div A
           r == m % A
<1>1. A \in Nat /\ A > 0 /\ m \in Nat
  BY SizesAssumption
<1>2. q \in Nat /\ r \in Nat /\ r < A /\ m = A * q + r
  <2> HIDE DEF m, A
  <2> QED
    BY <1>1
<1> HIDE DEF q, r
<1>3. q * A = A * q /\ q * A \in Nat
  BY <1>1, <1>2
<1>4. align_up(n) = q * A
  BY DEF align_up, q
<1> HIDE DEF A
<1> QED
  BY <1>1, <1>2, <1>3, <1>4

-----------------------------------------------------------------------------
(* Deallocation                                                            *)

\* Node b grows to size z and is linked with x.
Grown(ns, b, z, x) ==
  LET merged == [ns EXCEPT ![b].size = z, ![b].next = x]
  IN  IF x = Invalid THEN merged ELSE [merged EXCEPT ![x].prev = b]

Growable(ns, b, z, x) ==
  /\ ns \in [Offsets -> Record \cup {None}] /\ b \in Offsets /\ ns[b] \in Record
  /\ z \in Nat /\ x \in Offsets \cup {Invalid}
  /\ x # Invalid => x # b /\ ns[x] \in Record

HasGrown(ns, b, z, x, res) ==
  /\ res \in [Offsets -> Record \cup {None}]
  /\ res[b] = Node(z, x, ns[b].prev, ns[b].free)
  /\ x # Invalid => res[x] = Node(ns[x].size, ns[x].next, b, ns[x].free)
  /\ \A p \in Offsets : p \notin {b, x} => res[p] = ns[p]

LEMMA GrownIs ==
  ASSUME NEW ns, NEW b, NEW z, NEW x, Growable(ns, b, z, x)
  PROVE  HasGrown(ns, b, z, x, Grown(ns, b, z, x))
<1> DEFINE rb == Node(z, x, ns[b].prev, ns[b].free)
           merged == [ns EXCEPT ![b].size = z, ![b].next = x]
           rx == Node(ns[x].size, ns[x].next, b, ns[x].free)
<1> USE DEF Growable
<1>1. rb \in Record
  BY DEF Record, Node
<1>2. [[ns[b] EXCEPT !.size = z] EXCEPT !.next = x] = rb
  <2>1. [ns[b] EXCEPT !.size = z] = Node(z, ns[b].next, ns[b].prev, ns[b].free)
    BY DEF Record, Node
  <2>2. [Node(z, ns[b].next, ns[b].prev, ns[b].free) EXCEPT !.next = x] = rb
    BY DEF Node
  <2> QED
    BY <2>1, <2>2
<1> HIDE DEF rb
<1>3. merged \in [Offsets -> Record \cup {None}] /\ merged[b] = rb
      /\ \A p \in Offsets : p # b => merged[p] = ns[p]
  BY <1>1, <1>2
<1> HIDE DEF merged
<1>4. CASE x = Invalid
  <2>1. b # Invalid
    BY Sizes
  <2>2. Grown(ns, b, z, x) = merged
    BY <1>4 DEF Grown, merged
  <2> QED
    BY <1>3, <1>4, <2>1, <2>2 DEF rb, HasGrown
<1>5. CASE x # Invalid
  <2>1. x \in Offsets /\ x # b /\ ns[x] \in Record
    BY <1>5
  <2>2. rx \in Record
    BY <2>1 DEF Record, Node
  <2>3. [ns[x] EXCEPT !.prev = b] = rx
    BY <2>1 DEF Record, Node
  <2> HIDE DEF rx
  <2>4. Grown(ns, b, z, x) = [merged EXCEPT ![x].prev = b]
    BY <1>5 DEF Grown, merged
  <2>5. Grown(ns, b, z, x) = [merged EXCEPT ![x] = rx]
    BY <1>3, <2>1, <2>3, <2>4
  <2> QED
    BY <1>3, <1>5, <2>1, <2>2, <2>5 DEF rb, rx, HasGrown
<1> QED
  BY <1>4, <1>5

\* What freeing node o and merging forward makes of the list: o takes in what
\* is free up to x, or up to the end of the memory.
SwallowsForward(o, z, x, ns) ==
  /\ ns \in [Offsets -> Record \cup {None}] /\ z \in Nat /\ x \in H \cup {Invalid}
  /\ o + NodeSize + z = IF x = Invalid THEN Memory ELSE x
  /\ ns[o] = Node(z, x, nodes[o].prev, TRUE)
  /\ x # Invalid => /\ x > o /\ ~nodes[x].free
                    /\ ns[x] = Node(nodes[x].size, nodes[x].next, o, FALSE)
  /\ \A p \in Offsets : p \notin {o, x} => ns[p] = nodes[p]
  /\ \A h \in H : h > o /\ (x = Invalid \/ h < x) => nodes[h].free /\ nodes[h].next = x

LEMMA ForwardEffect ==
  ASSUME IndInv, NEW o \in H
  PROVE  \E z, x : SwallowsForward(o, z, x, MergeForward([nodes EXCEPT ![o].free = TRUE], o))
<1> DEFINE freed == [nodes EXCEPT ![o].free = TRUE]
           s == nodes[o].next
           m == MergeForward(freed, o)
<1>1. TypeOK /\ Links /\ Merged
  BY DEF IndInv
<1>2. /\ o \in Offsets /\ o \in Nat /\ o < Memory /\ nodes[o] \in Record /\ nodes[o].size \in Nat
      /\ EndOf(o) = o + NodeSize + nodes[o].size
      /\ s = Invalid => EndOf(o) = Memory
      /\ s # Invalid => s \in H /\ s = EndOf(o) /\ s > o
  BY <1>1, HeaderFacts
<1>3. freed \in [Offsets -> Record \cup {None}]
      /\ freed[o] = Node(nodes[o].size, s, nodes[o].prev, TRUE)
      /\ \A p \in Offsets : p # o => freed[p] = nodes[p]
  <2>1. \A b \in BOOLEAN : [nodes[o] EXCEPT !.free = b] = Node(nodes[o].size, nodes[o].next, nodes[o].prev, b)
    BY <1>2 DEF Record, Node
  <2>2. [nodes[o] EXCEPT !.free = TRUE] = Node(nodes[o].size, s, nodes[o].prev, TRUE)
    BY <2>1, Zenon
  <2>3. Node(nodes[o].size, s, nodes[o].prev, TRUE) \in Record
    BY <1>2 DEF Record, Node
  <2> QED
    BY <1>1, <1>2, <2>2, <2>3 DEF TypeOK
<1>4. freed[o] \in Record /\ freed[o].size = nodes[o].size /\ freed[o].next = s
      /\ freed[o].prev = nodes[o].prev /\ freed[o].free = TRUE
  BY <1>2, <1>3 DEF Record, Node
<1> HIDE DEF freed
<1>5. Headers(freed) = H
  BY <1>2, <1>3, <1>4, Sizes DEF H, Headers
<1>6. \A h \in H : freed[h].next = nodes[h].next /\ freed[h].size = nodes[h].size
  BY <1>3, <1>4 DEF H, Headers
<1>7. Forward(freed)
  BY <1>1, <1>5, <1>6, HeaderFacts DEF Forward
<1>8. PICK busy, bytes : /\ BusyFrom(freed, busy) /\ FreeFrom(freed, bytes)
                         /\ m = ForwardMerged(freed, o, busy[Pointer(freed[o].next)],
                                              bytes[Pointer(freed[o].next)])
  BY <1>3, <1>7, MergeForwardIs
<1> HIDE DEF m
<1>9. \A h \in H : h \in Nat /\ h \in Offsets /\ h < Memory /\ (h > o => h >= EndOf(o))
  <2>1. \A h \in H : h \in Nat /\ h \in Offsets /\ h < Memory
    BY <1>1, HeaderFacts
  <2>2. \A h \in H : o < h => EndOf(o) <= h
    BY <1>1 DEF Links
  <2>3. EndOf(o) \in Nat
    BY <1>2, Sizes
  <2> QED
    BY <1>2, <2>1, <2>2, <2>3
<1>10. CASE s = Invalid
  <2>1. m = freed
    BY <1>4, <1>8, <1>10 DEF ForwardMerged
  <2>2. \A h \in H : ~(h > o)
    BY <1>2, <1>9, <1>10, Sizes
  <2>3. o + NodeSize + nodes[o].size = Memory
    BY <1>2, <1>10
  <2>4. SwallowsForward(o, nodes[o].size, Invalid, m)
    BY <1>2, <1>3, <1>10, <2>1, <2>2, <2>3 DEF SwallowsForward
  <2> QED
    BY <2>4 DEF m, freed
<1>11. CASE s # Invalid
  <2>1. /\ s \in H /\ s = EndOf(o) /\ s > o /\ s \in Offsets /\ Pointer(s) = s /\ s # o
        /\ freed[s] = nodes[s] /\ nodes[s] \in Record
    <3>1. s \in H /\ s = EndOf(o) /\ s > o
      BY <1>2, <1>11
    <3>2. s \in Offsets /\ s \in Nat /\ nodes[s] \in Record
      BY <1>1, <3>1, HeaderFacts
    <3>3. s # o
      BY <1>2, <3>1, <3>2
    <3> QED
      BY <1>3, <3>1, <3>2, <3>3, PointerIs
  <2>2. m = Grown(freed, o, nodes[o].size + bytes[s], busy[s])
    BY <1>4, <1>8, <1>11, <2>1 DEF ForwardMerged, Grown
  <2>3. CASE ~nodes[s].free
    <3>1. busy[s] = s /\ bytes[s] = 0
      BY <1>5, <1>8, <2>1, <2>3 DEF BusyFrom, FreeFrom
    <3>2. m = Grown(freed, o, nodes[o].size, s)
      BY <1>2, <2>2, <3>1
    <3>3. /\ m \in [Offsets -> Record \cup {None}]
          /\ m[o] = Node(nodes[o].size, s, freed[o].prev, freed[o].free)
          /\ m[s] = Node(freed[s].size, freed[s].next, o, freed[s].free)
          /\ \A p \in Offsets : p \notin {o, s} => m[p] = freed[p]
      <4>1. Growable(freed, o, nodes[o].size, s)
        BY <1>2, <1>3, <1>4, <2>1 DEF Growable
      <4>2. HasGrown(freed, o, nodes[o].size, s, m)
        BY <3>2, <4>1, GrownIs
      <4> QED
        BY <1>11, <4>2 DEF HasGrown
    <3>4. ASSUME NEW h \in H PROVE ~(h > o /\ h < s)
      <4>1. h \in Nat /\ (h > o => h >= s) /\ s \in Nat
        BY <1>9, <2>1
      <4> HIDE DEF s
      <4> QED
        BY <4>1
    <3>5. nodes[s].free = FALSE
      BY <2>1, <2>3 DEF Record
    <3>6. m[s] = Node(nodes[s].size, nodes[s].next, o, FALSE)
      BY <2>1, <3>3, <3>5
    <3>7. m[o] = Node(nodes[o].size, s, nodes[o].prev, TRUE)
      BY <1>4, <3>3
    <3>8. \A p \in Offsets : p \notin {o, s} => m[p] = nodes[p]
      BY <1>3, <3>3
    <3>9. o + NodeSize + nodes[o].size = s
      BY <1>2, <2>1
    <3>10. SwallowsForward(o, nodes[o].size, s, m)
      BY <1>2, <1>11, <2>1, <2>3, <3>3, <3>4, <3>6, <3>7, <3>8, <3>9 DEF SwallowsForward
    <3> QED
      BY <3>10 DEF m, freed
  <2>4. CASE nodes[s].free
    <3> DEFINE t == nodes[s].next
               z == nodes[o].size + (nodes[s].size + NodeSize)
    <3>1. /\ EndOf(s) = s + NodeSize + nodes[s].size /\ nodes[s].size \in Nat /\ s \in Nat
          /\ t = Invalid => EndOf(s) = Memory
          /\ t # Invalid => t \in H /\ t = EndOf(s) /\ t > s
      BY <1>1, <2>1, HeaderFacts
    <3>2. t # Invalid => ~nodes[t].free /\ t \in Nat /\ t \in Offsets /\ nodes[t] \in Record
                         /\ t # o /\ t # s /\ t > o /\ freed[t] = nodes[t]
      <4>1. t # Invalid => ~nodes[t].free
        BY <1>1, <2>1, <2>4 DEF Merged
      <4>2. t # Invalid => t \in Nat /\ t \in Offsets /\ nodes[t] \in Record
        BY <1>1, <3>1, HeaderFacts
      <4>3. t # Invalid => t # o /\ t # s /\ t > o
        BY <1>2, <2>1, <3>1, <4>2
      <4> QED
        BY <1>3, <4>1, <4>2, <4>3
    <3>3. t \in H \cup {Invalid} /\ Pointer(t) = t /\ t \in Offsets \cup {Invalid}
      <4>1. t \in H \cup {Invalid} /\ t \in Offsets \cup {Invalid}
        BY <3>1, <3>2
      <4> QED
        BY <4>1, PointerIs
    <3> HIDE DEF t
    <3>4. s # Invalid /\ freed[s].free /\ freed[s].next = t /\ freed[s].size = nodes[s].size
      BY <1>11, <2>1, <2>4 DEF t
    <3>5. t = Invalid \/ ~freed[t].free
      BY <3>2
    <3>6. busy[t] = t /\ bytes[t] = 0
      BY <1>5, <1>8, <3>3, <3>5 DEF BusyFrom, FreeFrom
    <3>7. busy[s] = busy[Pointer(t)] /\ bytes[s] = nodes[s].size + NodeSize + bytes[Pointer(t)]
      BY <1>5, <1>8, <2>1, <3>4 DEF BusyFrom, FreeFrom
    <3>8. busy[s] = t /\ bytes[s] = nodes[s].size + NodeSize
      BY <3>1, <3>3, <3>6, <3>7, Sizes
    <3>9. z \in Nat /\ m = Grown(freed, o, z, t)
      BY <1>2, <2>2, <3>1, <3>8, Sizes
    <3>10. o + NodeSize + z = IF t = Invalid THEN Memory ELSE t
      BY <1>2, <2>1, <3>1, Sizes DEF t
    <3> HIDE DEF z
    <3>11. /\ m \in [Offsets -> Record \cup {None}]
           /\ m[o] = Node(z, t, freed[o].prev, freed[o].free)
           /\ t # Invalid => m[t] = Node(freed[t].size, freed[t].next, o, freed[t].free)
           /\ \A p \in Offsets : p \notin {o, t} => m[p] = freed[p]
      <4>1. Growable(freed, o, z, t)
        BY <1>2, <1>3, <1>4, <3>2, <3>3, <3>9 DEF Growable
      <4>2. HasGrown(freed, o, z, t, m)
        BY <3>9, <4>1, GrownIs
      <4> QED
        BY <4>2 DEF HasGrown
    <3>12. t # Invalid => m[t] = Node(nodes[t].size, nodes[t].next, o, FALSE)
      <4>1. t # Invalid => nodes[t].free = FALSE
        BY <3>2 DEF Record
      <4> QED
        BY <3>2, <3>11, <4>1
    <3>13. m[o] = Node(z, t, nodes[o].prev, TRUE)
      BY <1>4, <3>11
    <3>14. \A p \in Offsets : p \notin {o, t} => m[p] = nodes[p]
      BY <1>3, <3>11
    <3>15. ASSUME NEW h \in H, h > o, t = Invalid \/ h < t PROVE nodes[h].free /\ nodes[h].next = t
      <4>1. h \in Nat /\ h >= s /\ h < Memory
        BY <1>9, <2>1, <3>15
      <4>2. h > s => EndOf(s) <= h
        <5>1. h > s => s < h
          BY <3>1, <4>1
        <5> QED
          BY <1>1, <2>1, <5>1 DEF Links
      <4>3. h = s
        BY <3>1, <3>15, <4>1, <4>2, <3>2, Sizes DEF t
      <4> QED
        BY <2>4, <4>3 DEF t
    <3>16. SwallowsForward(o, z, t, m)
      BY <3>2, <3>3, <3>9, <3>10, <3>11, <3>12, <3>13, <3>14, <3>15 DEF SwallowsForward
    <3> QED
      BY <3>16 DEF m, freed
  <2> QED
    BY <2>3, <2>4
<1> QED
  BY <1>10, <1>11

\* The headers stay what they were when records are replaced by records.
LEMMA GrownHeaders ==
  ASSUME NEW ns, NEW b, NEW z, NEW x, Growable(ns, b, z, x), NEW res, HasGrown(ns, b, z, x, res)
  PROVE  Headers(res) = Headers(ns)
<1>1. Node(z, x, ns[b].prev, ns[b].free) \in Record
  BY DEF Growable, Record, Node
<1>2. x # Invalid => Node(ns[x].size, ns[x].next, b, ns[x].free) \in Record
  BY DEF Growable, Record, Node
<1>3. \A p \in Offsets : res[p] # None <=> ns[p] # None
  BY <1>1, <1>2, Sizes DEF Growable, HasGrown
<1> QED
  BY <1>3 DEF Headers

LEMMA SwallowsHeaders ==
  ASSUME IndInv, NEW o \in H, NEW z, NEW x, NEW ns, SwallowsForward(o, z, x, ns)
  PROVE  Headers(ns) = H
<1>1. TypeOK /\ Links
  BY DEF IndInv
<1>2. nodes[o] \in Record /\ o \in Offsets /\ (x # Invalid => x \in H /\ nodes[x] \in Record)
  BY <1>1, HeaderFacts DEF SwallowsForward
<1>3. x \in Offsets \cup {Invalid} /\ z \in Nat
  BY <1>2 DEF SwallowsForward, H, Headers
<1>4. Node(z, x, nodes[o].prev, TRUE) \in Record
  BY <1>2, <1>3 DEF Node, Record
<1>5. x # Invalid => Node(nodes[x].size, nodes[x].next, o, FALSE) \in Record
  BY <1>2, <1>3 DEF Node, Record
<1>6. \A p \in Offsets : ns[p] # None <=> nodes[p] # None
  BY <1>2, <1>4, <1>5, Sizes DEF SwallowsForward
<1> QED
  BY <1>6 DEF H, Headers

\* What deallocate makes of the list before the headers between b and x are
\* forgotten: b, which is node o or the free node before it, reaches up to x.
Absorbs(o, b, z, x, ns) ==
  /\ b \in H /\ b <= o /\ z \in Nat /\ x \in H \cup {Invalid}
  /\ ns \in [Offsets -> Record \cup {None}] /\ Headers(ns) = H
  /\ b + NodeSize + z = IF x = Invalid THEN Memory ELSE x
  /\ ns[b] = Node(z, x, nodes[b].prev, TRUE)
  /\ x # Invalid => /\ x > o /\ ~nodes[x].free
                    /\ ns[x] = Node(nodes[x].size, nodes[x].next, b, FALSE)
  /\ \A p \in H : p < b \/ (x # Invalid /\ p > x) => ns[p] = nodes[p]
  /\ \A p \in H : p >= b /\ (x = Invalid \/ p < x) => ns[p].next = x /\ (p # o => nodes[p].free)
  /\ b # 0 => ~nodes[nodes[b].prev].free

LEMMA AbsorbsItself ==
  ASSUME IndInv, NEW o \in H, NEW z, NEW x, NEW ns, SwallowsForward(o, z, x, ns),
         o # 0 => ~nodes[nodes[o].prev].free
  PROVE  Absorbs(o, o, z, x, ns)
<1>1. TypeOK /\ Links
  BY DEF IndInv
<1>2. \A h \in H : h \in Nat /\ h \in Offsets
  BY <1>1, HeaderFacts
<1>3. x # Invalid => x \in H /\ x \in Nat /\ x > o
  BY <1>2 DEF SwallowsForward
<1>4. \A p \in H : p < o \/ (x # Invalid /\ p > x) => ns[p] = nodes[p]
  <2>1. \A p \in H : p < o \/ (x # Invalid /\ p > x) => p \notin {o, x}
    BY <1>2, <1>3, Sizes
  <2> QED
    BY <1>2, <2>1 DEF SwallowsForward
<1>5. ASSUME NEW p \in H, p >= o, x = Invalid \/ p < x PROVE ns[p].next = x /\ (p # o => nodes[p].free)
  <2>1. CASE p = o
    <3>1. ns[o] = Node(z, x, nodes[o].prev, TRUE)
      BY DEF SwallowsForward
    <3> QED
      BY <2>1, <3>1 DEF Node
  <2>2. CASE p # o
    <3>1. p > o /\ p \notin {o, x}
      BY <1>2, <1>3, <1>5, <2>2, Sizes
    <3>2. nodes[p].free /\ nodes[p].next = x
      BY <1>5, <3>1 DEF SwallowsForward
    <3>3. ns[p] = nodes[p]
      BY <1>2, <3>1 DEF SwallowsForward
    <3> QED
      BY <3>2, <3>3
  <2> QED
    BY <2>1, <2>2
<1>6. Headers(ns) = H /\ o <= o
  BY <1>2, SwallowsHeaders
<1> QED
  BY <1>4, <1>5, <1>6 DEF Absorbs, SwallowsForward

LEMMA BackwardEffect ==
  ASSUME IndInv, NEW o \in H, NEW z, NEW x, NEW ns, SwallowsForward(o, z, x, ns)
  PROVE  \E b, y : Absorbs(o, b, y, x, MergeBackward(ns, o))
<1> DEFINE q == nodes[o].prev
           m == MergeBackward(ns, o)
<1>1. TypeOK /\ Links /\ Merged
  BY DEF IndInv
<1>2. \A h \in H : h \in Nat /\ h \in Offsets /\ nodes[h] \in Record /\ nodes[h].size \in Nat
  BY <1>1, HeaderFacts
<1>3. \A h \in H : nodes[h].prev # Invalid =>
        /\ nodes[h].prev \in H /\ nodes[nodes[h].prev].next = h /\ nodes[h].prev < h
        /\ EndOf(nodes[h].prev) = h /\ h # 0
  <2> SUFFICES ASSUME NEW h \in H, nodes[h].prev # Invalid
               PROVE  /\ nodes[h].prev \in H /\ nodes[nodes[h].prev].next = h /\ nodes[h].prev < h
                      /\ EndOf(nodes[h].prev) = h /\ h # 0
    OBVIOUS
  <2>1. h # 0 /\ nodes[h].prev \in H /\ nodes[nodes[h].prev].next = h
    BY <1>1 DEF Links
  <2>2. h # Invalid /\ h \in Nat /\ nodes[h].prev \in Nat
    BY <1>2, <2>1, Sizes
  <2>3. EndOf(nodes[h].prev) = h /\ h > nodes[h].prev
    BY <1>1, <2>1, <2>2, HeaderFacts
  <2> QED
    BY <2>1, <2>2, <2>3
<1>4. /\ ns \in [Offsets -> Record \cup {None}] /\ z \in Nat /\ x \in H \cup {Invalid}
      /\ x \in Offsets \cup {Invalid} /\ Pointer(x) = x /\ (x # Invalid => x > o /\ x \in Nat)
      /\ o + NodeSize + z = IF x = Invalid THEN Memory ELSE x
  <2>1. /\ ns \in [Offsets -> Record \cup {None}] /\ z \in Nat /\ x \in H \cup {Invalid}
        /\ (x # Invalid => x > o) /\ o + NodeSize + z = IF x = Invalid THEN Memory ELSE x
    BY DEF SwallowsForward
  <2>2. x \in Offsets \cup {Invalid} /\ (x # Invalid => x \in Nat)
    BY <1>2, <2>1
  <2> QED
    BY <2>1, <2>2, PointerIs
<1>5. ns[o].size = z /\ ns[o].next = x /\ ns[o].prev = q /\ ns[o].free = TRUE
      /\ ns[o] = Node(z, x, q, TRUE)
  <2>1. ns[o] = Node(z, x, q, TRUE)
    BY DEF SwallowsForward
  <2> QED
    BY <2>1 DEF Node
<1>6. x # Invalid => /\ ns[x] = Node(nodes[x].size, nodes[x].next, o, FALSE)
                     /\ ns[x].size = nodes[x].size /\ ns[x].next = nodes[x].next
                     /\ ns[x].prev = o /\ ns[x].free = FALSE
  <2>1. x # Invalid => ns[x] = Node(nodes[x].size, nodes[x].next, o, FALSE)
    BY DEF SwallowsForward
  <2> QED
    BY <2>1 DEF Node
<1>7. \A p \in Offsets : p \notin {o, x} => ns[p] = nodes[p]
  BY DEF SwallowsForward
<1>8. Headers(ns) = H
  BY SwallowsHeaders
<1>9. Backward(ns)
  <2>1. ASSUME NEW h \in H, ns[h].prev # Invalid PROVE ns[h].prev \in H /\ ns[h].prev < h
    <3>1. CASE h = x
      BY <1>2, <1>4, <1>6, <3>1, Sizes
    <3>2. CASE h # x
      <4>1. ns[h].prev = nodes[h].prev
        BY <1>2, <1>5, <1>7, <3>2
      <4> QED
        BY <1>3, <2>1, <4>1
    <3> QED
      BY <3>1, <3>2
  <2> QED
    BY <1>8, <2>1 DEF Backward
<1>10. PICK first, bytes : /\ FirstFrom(ns, first) /\ BytesFrom(ns, first, bytes)
                           /\ m = BackwardMerged(ns, o, first[o], bytes[o])
  BY <1>4, <1>9, MergeBackwardIs
<1> HIDE DEF m
<1>11. CASE q = Invalid
  <2>1. m = ns
    BY <1>5, <1>10, <1>11 DEF BackwardMerged
  <2>2. o = 0
    <3>1. o # 0 => q \in H
      BY <1>1 DEF Links
    <3> QED
      BY <1>2, <1>11, <3>1, Sizes
  <2>3. Absorbs(o, o, z, x, m)
    BY <2>1, <2>2, AbsorbsItself
  <2> QED
    BY <2>3 DEF m
<1>12. CASE q # Invalid
  <2>1. /\ q \in H /\ nodes[q].next = o /\ q < o /\ EndOf(q) = o /\ o # 0
    BY <1>3, <1>12
  <2>2. /\ q \in Nat /\ q \in Offsets /\ nodes[q] \in Record /\ nodes[q].size \in Nat
        /\ o \in Nat /\ o \in Offsets
    BY <1>2, <2>1
  <2>3. q \notin {o, x} /\ ns[q] = nodes[q] /\ Pointer(q) = q
    <3>1. q \notin {o, x}
      BY <1>4, <2>1, <2>2, Sizes
    <3> QED
      BY <1>7, <2>2, <3>1, PointerIs
  <2> DEFINE b == first[o]
  <2>4. m = Grown(ns, b, bytes[o], x)
    BY <1>4, <1>5, <1>10, <1>12 DEF BackwardMerged, Grown
  <2>5. CASE ~nodes[q].free
    <3>1. first[o] = o /\ bytes[o] = z
      <4>1. first[o] = o
        BY <1>5, <1>8, <1>10, <2>3, <2>5 DEF FirstFrom
      <4> QED
        BY <1>5, <1>8, <1>10, <4>1 DEF BytesFrom
    <3>2. Growable(ns, o, z, x)
      <4>1. ns[o] \in Record /\ (x # Invalid => ns[x] \in Record /\ x # o)
        <5>1. \A h \in H : ns[h] \in Record
          BY <1>2, <1>4, <1>8, Sizes DEF Headers
        <5> QED
          BY <1>4, <2>2, <5>1
      <4> QED
        BY <1>4, <2>2, <4>1 DEF Growable
    <3>3. HasGrown(ns, o, z, x, m)
      BY <2>4, <3>1, <3>2, GrownIs
    <3>4. /\ m \in [Offsets -> Record \cup {None}] /\ m[o] = Node(z, x, q, TRUE)
          /\ x # Invalid => m[x] = Node(nodes[x].size, nodes[x].next, o, FALSE)
          /\ \A p \in Offsets : p \notin {o, x} => m[p] = nodes[p]
      BY <1>5, <1>6, <1>7, <3>3, ZenonT(40) DEF HasGrown
    <3>5. SwallowsForward(o, z, x, m)
      BY <3>4 DEF SwallowsForward
    <3>6. Absorbs(o, o, z, x, m)
      BY <2>5, <3>5, AbsorbsItself
    <3> QED
      BY <3>6 DEF m
  <2>6. CASE nodes[q].free
    <3> DEFINE c == nodes[q].prev
               y == z + NodeSize + nodes[q].size
    <3>1. c # Invalid => c \in H /\ nodes[c].next = q /\ c < q /\ q # 0
      BY <1>3, <2>1
    <3>2. c # Invalid => ~nodes[c].free
      <4>1. q # Invalid
        BY <1>12
      <4> QED
        BY <1>1, <2>6, <3>1, <4>1 DEF Merged
    <3>3. c # Invalid => c \in Offsets /\ c \in Nat /\ c \notin {o, x} /\ ns[c] = nodes[c]
      <4>1. c # Invalid => c \in Offsets /\ c \in Nat
        BY <1>2, <3>1
      <4>2. c # Invalid => c \notin {o, x}
        BY <1>4, <2>1, <2>2, <3>1, <4>1, Sizes
      <4> QED
        BY <1>7, <4>1, <4>2
    <3>4. c \in Offsets \cup {Invalid} /\ Pointer(c) = c
      <4>1. c \in Offsets \cup {Invalid}
        BY <3>3
      <4> QED
        BY <4>1, PointerIs
    <3> HIDE DEF c
    <3>5. ns[q].prev = c /\ ns[q].size = nodes[q].size /\ ns[q].free
      BY <2>3, <2>6 DEF c
    <3>6. first[q] = q
      BY <1>8, <1>10, <2>1, <3>2, <3>3, <3>4, <3>5 DEF FirstFrom
    <3>7. first[o] = q
      BY <1>5, <1>8, <1>10, <1>12, <2>3, <3>5, <3>6 DEF FirstFrom
    <3>8. bytes[q] = nodes[q].size
      BY <1>8, <1>10, <2>1, <3>5, <3>6 DEF BytesFrom
    <3>9. bytes[o] = y
      <4>1. first[o] # o
        BY <2>3, <3>7
      <4>2. bytes[o] = ns[o].size + NodeSize + bytes[Pointer(ns[o].prev)]
        BY <1>8, <1>10, <4>1, Zenon DEF BytesFrom
      <4> QED
        BY <1>5, <2>3, <3>8, <4>2
    <3>10. y \in Nat /\ q + NodeSize + y = o + NodeSize + z
      <4>1. o = q + NodeSize + nodes[q].size
        BY <2>1 DEF EndOf
      <4> QED
        BY <1>4, <2>2, <4>1, Sizes
    <3> HIDE DEF y
    <3>11. Growable(ns, q, y, x)
      <4>1. ns[q] \in Record /\ (x # Invalid => ns[x] \in Record /\ x # q)
        <5>1. \A h \in H : ns[h] \in Record
          BY <1>2, <1>4, <1>8, Sizes DEF Headers
        <5> QED
          BY <1>4, <2>1, <2>3, <5>1
      <4> QED
        BY <1>4, <2>2, <3>10, <4>1 DEF Growable
    <3>12. HasGrown(ns, q, y, x, m)
      BY <2>4, <3>7, <3>9, <3>11, GrownIs
    <3>13. /\ m \in [Offsets -> Record \cup {None}] /\ m[q] = Node(y, x, c, TRUE)
           /\ x # Invalid => m[x] = Node(nodes[x].size, nodes[x].next, q, FALSE)
           /\ \A p \in Offsets : p \notin {q, x} => m[p] = ns[p]
      <4>1. ns[q].free = TRUE
        BY <2>2, <2>3, <2>6 DEF Record
      <4> QED
        BY <1>6, <3>5, <3>12, <4>1 DEF HasGrown
    <3>14. Headers(m) = H
      BY <1>8, <3>11, <3>12, GrownHeaders
    <3>15. \A p \in H : p < q \/ (x # Invalid /\ p > x) => m[p] = nodes[p]
      <4>1. \A p \in H : p < q \/ (x # Invalid /\ p > x) => p \notin {q, o, x}
        BY <1>2, <1>4, <2>1, <2>2, Sizes
      <4> QED
        BY <1>2, <1>7, <3>13, <4>1
    <3>16. ASSUME NEW p \in H, p >= q, x = Invalid \/ p < x
           PROVE  m[p].next = x /\ (p # o => nodes[p].free)
      <4>1. p \in Nat /\ p \in Offsets /\ p # x
        BY <1>2, <1>4, <3>16, Sizes
      <4>2. CASE p = q
        BY <2>6, <3>13, <4>2 DEF Node
      <4>3. CASE p = o
        BY <1>5, <2>3, <3>13, <4>1, <4>3
      <4>4. CASE p # q /\ p # o
        <5>1. q < p
          BY <2>2, <3>16, <4>1, <4>4
        <5>2. EndOf(q) <= p
          BY <1>1, <2>1, <5>1 DEF Links
        <5>3. p > o
          BY <2>1, <2>2, <4>1, <4>4, <5>2
        <5>4. nodes[p].free /\ nodes[p].next = x
          BY <3>16, <5>3 DEF SwallowsForward
        <5> QED
          BY <1>7, <3>13, <4>1, <4>4, <5>4
      <4> QED
        BY <4>2, <4>3, <4>4
    <3>17. q # 0 => ~nodes[nodes[q].prev].free
      <4>1. q # 0 => nodes[q].prev \in H
        BY <1>1, <2>1 DEF Links
      <4>2. q # 0 => c # Invalid
        BY <1>2, <4>1, Sizes DEF c
      <4> QED
        BY <3>2, <4>2 DEF c
    <3>18. x # Invalid => x > o /\ ~nodes[x].free
      BY DEF SwallowsForward
    <3>19. q <= o /\ q + NodeSize + y = IF x = Invalid THEN Memory ELSE x
      BY <1>4, <2>1, <2>2, <3>10
    <3>20. Absorbs(o, q, y, x, m)
      BY <1>4, <2>1, <3>10, <3>13, <3>14, <3>15, <3>16, <3>17, <3>18, <3>19 DEF Absorbs, c
    <3> QED
      BY <3>20 DEF m
  <2> QED
    BY <2>5, <2>6
<1> QED
  BY <1>11, <1>12

\* The list after deallocate consists of the headers up to b and from x on.
LEMMA AbsorbsList ==
  ASSUME IndInv, NEW o \in H, NEW b, NEW z, NEW x, NEW ns, Absorbs(o, b, z, x, ns)
  PROVE  ListOf(ns) = {h \in H : h <= b \/ (x # Invalid /\ h >= x)}
<1> DEFINE C == {h \in H : h <= b \/ (x # Invalid /\ h >= x)}
<1>1. TypeOK /\ Links
  BY DEF IndInv
<1>2. \A h \in H : h \in Nat /\ h \in Offsets /\ h < Memory /\ EndOf(h) \in Nat
  <2>1. \A h \in H : h \in Nat /\ h \in Offsets /\ h < Memory /\ nodes[h].size \in Nat
                     /\ EndOf(h) = h + NodeSize + nodes[h].size
    BY <1>1, HeaderFacts
  <2> QED
    BY <2>1, Sizes
<1>3. b \in H /\ b \in Nat /\ b <= o /\ o \in Nat /\ (x # Invalid => x \in H /\ x \in Nat /\ x > o /\ x > b)
  <2>1. b \in H /\ b <= o /\ x \in H \cup {Invalid} /\ (x # Invalid => x > o)
    BY DEF Absorbs
  <2> QED
    BY <1>2, <2>1
<1>4. ns \in [Offsets -> Record \cup {None}] /\ Headers(ns) = H
  BY DEF Absorbs
<1>5. 0 \in C /\ C \in SUBSET H
  BY <1>1, <1>3 DEF Links
<1>6. \A h \in H : h < b \/ (x # Invalid /\ h >= x) => ns[h].next = nodes[h].next
  <2>1. x # Invalid => ns[x].next = nodes[x].next
    BY DEF Absorbs, Node
  <2>2. \A h \in H : h < b \/ (x # Invalid /\ h > x) => ns[h] = nodes[h]
    BY DEF Absorbs
  <2> QED
    BY <1>2, <1>3, <2>1, <2>2
<1>7. \A h \in H : h >= b /\ (x = Invalid \/ h < x) => ns[h].next = x
  BY DEF Absorbs
<1>8. \A h, c \in H : h < c => EndOf(h) <= c
  BY <1>1 DEF Links
<1>9. \A h \in H : h < b \/ (x # Invalid /\ h >= x) \/ (h >= b /\ (x = Invalid \/ h < x))
  BY <1>2, <1>3
<1>10. ASSUME NEW h \in H, ns[h].next = Invalid, NEW c \in C PROVE c <= h
  <2>1. c \in H /\ c \in Nat /\ (c <= b \/ (x # Invalid /\ c >= x)) /\ c < Memory /\ h \in Nat
    BY <1>2
  <2>2. CASE h < b \/ (x # Invalid /\ h >= x)
    <3>1. EndOf(h) = Memory
      BY <1>1, <1>6, <1>10, <2>2, HeaderFacts
    <3> QED
      BY <1>8, <2>1, <3>1, Sizes
  <2>3. CASE h >= b /\ (x = Invalid \/ h < x)
    <3>1. x = Invalid
      BY <1>7, <1>10, <2>3
    <3> QED
      BY <1>3, <2>1, <2>3, <3>1
  <2> QED
    BY <1>9, <2>2, <2>3
<1>11. ASSUME NEW h \in H, ns[h].next # Invalid
       PROVE  ns[h].next \in C /\ ns[h].next > h /\ \A c \in C : c > h => c >= ns[h].next
  <2>1. \A c \in C : c \in H /\ c \in Nat /\ (c <= b \/ (x # Invalid /\ c >= x))
    BY <1>2
  <2>2. h \in Nat
    BY <1>2
  <2>3. CASE h < b \/ (x # Invalid /\ h >= x)
    <3>1. ns[h].next \in H /\ ns[h].next = EndOf(h) /\ ns[h].next > h /\ ns[h].next \in Nat
      BY <1>1, <1>2, <1>6, <1>11, <2>3, HeaderFacts
    <3>2. \A c \in C : c > h => c >= ns[h].next
      BY <1>8, <2>1, <2>2, <3>1
    <3>3. h < b => ns[h].next <= b
      BY <1>3, <1>8, <3>1
    <3>4. ns[h].next <= b \/ (x # Invalid /\ ns[h].next >= x)
      <4> DEFINE k == ns[h].next
      <4>1. k \in Nat /\ k > h /\ (h < b => k <= b)
        BY <3>1, <3>3
      <4> HIDE DEF k
      <4>2. k <= b \/ (x # Invalid /\ k >= x)
        BY <1>3, <2>2, <2>3, <4>1
      <4> QED
        BY <4>2 DEF k
    <3>5. ns[h].next \in C
      BY <3>1, <3>4
    <3> QED
      BY <3>1, <3>2, <3>5, Zenon
  <2>4. CASE h >= b /\ (x = Invalid \/ h < x)
    <3>1. ns[h].next = x /\ x # Invalid
      BY <1>7, <1>11, <2>4
    <3>2. x \in C /\ x > h
      BY <1>3, <2>2, <2>4, <3>1
    <3>3. \A c \in C : c > h => c >= x
      BY <1>3, <2>1, <2>2, <2>4
    <3> QED
      BY <3>1, <3>2, <3>3
  <2> QED
    BY <1>9, <2>3, <2>4
<1> HIDE DEF C
<1>12. ListOf(ns) = C
  BY <1>4, <1>5, <1>10, <1>11, ListOfChain
<1> QED
  BY <1>12 DEF C

LEMMA ForgetKeeps ==
  ASSUME IndInv, NEW o \in H, NEW b, NEW z, NEW x, NEW ns, Absorbs(o, b, z, x, ns),
         nodes' = [p \in Offsets |-> IF p \in ListOf(ns) THEN ns[p] ELSE None],
         live' = [live EXCEPT ![o + NodeSize] = None]
  PROVE  IndInv'
<1> DEFINE C == {h \in H : h <= b \/ (x # Invalid /\ h >= x)}
<1>1. TypeOK /\ Links /\ Merged /\ Clients
  BY DEF IndInv
<1>2. \A h \in H : h \in Nat /\ h \in Offsets /\ h < Memory /\ EndOf(h) \in Nat /\ EndOf(h) > h
  <2>1. \A h \in H : h \in Nat /\ h \in Offsets /\ h < Memory /\ nodes[h].size \in Nat
                     /\ EndOf(h) = h + NodeSize + nodes[h].size
    BY <1>1, HeaderFacts
  <2> QED
    BY <2>1, Sizes
<1>3. b \in H /\ b \in Nat /\ b <= o /\ o \in Nat /\ (x # Invalid => x \in H /\ x \in Nat /\ x > o /\ x > b)
  <2>1. b \in H /\ b <= o /\ x \in H \cup {Invalid} /\ (x # Invalid => x > o)
    BY DEF Absorbs
  <2> QED
    BY <1>2, <2>1
<1>4. /\ ns \in [Offsets -> Record \cup {None}] /\ Headers(ns) = H /\ z \in Nat
      /\ b + NodeSize + z = IF x = Invalid THEN Memory ELSE x
      /\ x # Invalid => ~nodes[x].free
  BY DEF Absorbs
<1>5. ListOf(ns) = C
  BY AbsorbsList
<1>6. \A c \in C : c \in H /\ c \in Nat /\ (c <= b \/ (x # Invalid /\ c >= x))
  BY <1>2
<1>7. /\ b \in C /\ 0 \in C /\ (x # Invalid => x \in C)
      /\ \A h \in H : h < b \/ (x # Invalid /\ h >= x) => h \in C
  BY <1>1, <1>2, <1>3 DEF Links
<1>8. \A h \in H : h \notin C => h > b /\ (x = Invalid \/ h < x)
  BY <1>2, <1>3
<1> HIDE DEF C
<1>9. nodes' \in [Offsets -> Record \cup {None}] /\ \A p \in Offsets : nodes'[p] = IF p \in C THEN ns[p] ELSE None
  BY <1>4, <1>5
<1>10. H' = C
  <2>1. \A p \in C : p \in Offsets /\ ns[p] # None
    BY <1>4, <1>6 DEF Headers
  <2>2. \A p \in Offsets : nodes'[p] # None <=> p \in C
    BY <1>9, <2>1
  <2>3. H' = {p \in Offsets : nodes'[p] # None}
    BY DEF H, Headers
  <2> QED
    BY <2>1, <2>2, <2>3
<1>11. \A p \in C : nodes'[p] = ns[p]
  BY <1>2, <1>6, <1>9
<1>12. /\ nodes'[b].size = z /\ nodes'[b].next = x /\ nodes'[b].prev = nodes[b].prev
       /\ nodes'[b].free = TRUE
  <2>1. nodes'[b] = Node(z, x, nodes[b].prev, TRUE)
    BY <1>7, <1>11 DEF Absorbs
  <2> QED
    BY <2>1 DEF Node
<1>13. ASSUME NEW h \in C, h # b
       PROVE  /\ nodes'[h].size = nodes[h].size /\ nodes'[h].next = nodes[h].next
              /\ nodes'[h].free = nodes[h].free
              /\ h # x => nodes'[h].prev = nodes[h].prev
              /\ h = x => nodes'[h].prev = b
              /\ EndOf(h)' = EndOf(h) /\ Following(h)' = Following(h)
              /\ h \in H /\ h \in Nat /\ (h < b \/ (x # Invalid /\ h >= x))
  <2>1. h \in H /\ h \in Nat /\ (h < b \/ (x # Invalid /\ h >= x))
    BY <1>3, <1>6, <1>13
  <2>2. CASE h = x
    <3>1. x # Invalid
      BY <2>1, <2>2, Sizes
    <3>2. /\ ns[x].size = nodes[x].size /\ ns[x].next = nodes[x].next
          /\ ns[x].prev = b /\ ns[x].free = FALSE
      <4>1. ns[x] = Node(nodes[x].size, nodes[x].next, b, FALSE)
        BY <3>1 DEF Absorbs
      <4> QED
        BY <4>1 DEF Node
    <3>3. nodes[x].free = FALSE
      <4>1. nodes[x] \in Record
        BY <1>1, <1>3, <3>1, HeaderFacts
      <4> QED
        BY <1>4, <3>1, <4>1 DEF Record
    <3>4. /\ nodes'[h].size = nodes[h].size /\ nodes'[h].next = nodes[h].next
          /\ nodes'[h].free = nodes[h].free /\ nodes'[h].prev = b
      <4>1. nodes'[h] = ns[x]
        BY <1>11, <2>2
      <4> QED
        BY <2>2, <3>2, <3>3, <4>1
    <3> QED
      BY <2>1, <2>2, <3>4 DEF EndOf, Following
  <2>3. CASE h # x
    <3>1. h < b \/ (x # Invalid /\ h > x)
      BY <1>3, <2>1, <2>3
    <3>2. nodes'[h] = nodes[h]
      BY <1>11, <2>1, <3>1 DEF Absorbs
    <3> QED
      BY <2>1, <2>3, <3>2 DEF EndOf, Following
  <2> QED
    BY <2>2, <2>3
<1>14. EndOf(b)' = Following(b)' /\ EndOf(b)' <= Memory /\ (x # Invalid => EndOf(b)' = x)
  <2>1. EndOf(b)' = b + NodeSize + z /\ Following(b)' = IF x = Invalid THEN Memory ELSE x
    BY <1>12 DEF EndOf, Following
  <2>2. x # Invalid => x < Memory
    BY <1>2, <1>3
  <2>3. EndOf(b)' = Following(b)'
    BY <1>4, <2>1
  <2>4. x # Invalid => Following(b)' = x /\ x <= Memory
    BY <1>3, <2>1, <2>2, Sizes
  <2>5. x = Invalid => Following(b)' = Memory /\ Memory <= Memory
    BY <2>1, Sizes
  <2> QED
    BY <2>3, <2>4, <2>5
<1>15. \A u, v \in H : u < v => EndOf(u) <= v
  BY <1>1 DEF Links
<1>16. o + NodeSize \in DataOffsets
  <2>1. EndOf(o) <= Memory /\ nodes[o].size \in Nat /\ EndOf(o) = o + NodeSize + nodes[o].size
    BY <1>1, HeaderFacts
  <2> QED
    BY <1>3, <2>1, Sizes DEF DataOffsets
<1>17. TypeOK'
  BY <1>1, <1>9, <1>16 DEF TypeOK
<1>18. Links'
  <2>1. nodes'[0].prev = Invalid
    <3>1. nodes[0].prev = Invalid
      BY <1>1 DEF Links
    <3>2. 0 # x
      BY <1>3, Sizes
    <3> QED
      BY <1>7, <1>12, <1>13, <3>1, <3>2
  <2>2. ASSUME NEW h \in C
        PROVE  /\ EndOf(h)' = Following(h)' /\ EndOf(h)' <= Memory
               /\ nodes'[h].next # Invalid => nodes'[h].next \in C /\ nodes'[nodes'[h].next].prev = h
               /\ h # 0 => nodes'[h].prev \in C /\ nodes'[nodes'[h].prev].next = h
    <3>0. h \in H /\ h \in Nat
      BY <1>6
    <3>1. /\ EndOf(h) = Following(h) /\ EndOf(h) <= Memory
          /\ nodes[h].next # Invalid => /\ nodes[h].next \in H /\ nodes[nodes[h].next].prev = h
                                        /\ nodes[h].next = EndOf(h) /\ nodes[h].next > h
          /\ h # 0 => nodes[h].prev \in H /\ nodes[nodes[h].prev].next = h
      BY <1>1, <3>0, HeaderFacts DEF Links
    <3>2. h # 0 => EndOf(nodes[h].prev) = h /\ nodes[h].prev < h /\ nodes[h].prev \in Nat
      <4>1. h # Invalid
        BY <3>0, Sizes
      <4>2. h # 0 => EndOf(nodes[h].prev) = h /\ h > nodes[h].prev
        BY <1>1, <3>1, <4>1, HeaderFacts
      <4> QED
        BY <1>2, <3>0, <3>1, <4>2
    <3>3. CASE h = b
      <4>1. x # Invalid => x \in C /\ nodes'[x].prev = b
        BY <1>3, <1>7, <1>13
      <4>2. b # 0 => nodes[b].prev \in C /\ nodes'[nodes[b].prev].next = b
        <5> SUFFICES ASSUME b # 0 PROVE nodes[b].prev \in C /\ nodes'[nodes[b].prev].next = b
          OBVIOUS
        <5>1. nodes[b].prev \in C /\ nodes[b].prev # b
          BY <1>3, <1>7, <3>1, <3>2, <3>3
        <5> QED
          BY <1>13, <3>1, <3>3, <5>1
      <4> QED
        BY <1>12, <1>14, <3>3, <4>1, <4>2
    <3>4. CASE h # b
      <4>1. /\ nodes'[h].next = nodes[h].next
            /\ h # x => nodes'[h].prev = nodes[h].prev
            /\ h = x => nodes'[h].prev = b
            /\ EndOf(h)' = EndOf(h) /\ Following(h)' = Following(h)
            /\ (h < b \/ (x # Invalid /\ h >= x))
        BY <1>13, <3>4
      <4>2. nodes[h].next # Invalid => nodes[h].next \in C /\ nodes'[nodes[h].next].prev = h
        <5> SUFFICES ASSUME nodes[h].next # Invalid
                     PROVE  nodes[h].next \in C /\ nodes'[nodes[h].next].prev = h
          OBVIOUS
        <5> DEFINE k == nodes[h].next
        <5>1. k \in H /\ nodes[k].prev = h /\ k = EndOf(h) /\ k > h /\ k \in Nat
          BY <1>2, <3>1
        <5> HIDE DEF k
        <5>2. h < b => k <= b
          BY <1>3, <1>15, <3>0, <5>1
        <5>3. k # x /\ (k <= b \/ (x # Invalid /\ k >= x))
          BY <1>3, <3>0, <4>1, <5>1, <5>2, Sizes
        <5>4. k \in C
          BY <1>3, <1>7, <5>1, <5>3
        <5>5. nodes'[k].prev = h
          BY <1>12, <1>13, <5>1, <5>3, <5>4
        <5> QED
          BY <5>4, <5>5 DEF k
      <4>3. h # 0 /\ h # x => nodes[h].prev \in C /\ nodes'[nodes[h].prev].next = h
        <5> SUFFICES ASSUME h # 0, h # x
                     PROVE  nodes[h].prev \in C /\ nodes'[nodes[h].prev].next = h
          OBVIOUS
        <5> DEFINE k == nodes[h].prev
        <5>1. k \in H /\ nodes[k].next = h /\ EndOf(k) = h /\ k < h /\ k \in Nat
          BY <3>1, <3>2
        <5> HIDE DEF k
        <5>2. x # Invalid /\ h >= x => k >= x
          <6>1. x # Invalid /\ k < x => h <= x
            BY <1>3, <1>15, <5>1
          <6> QED
            BY <1>3, <3>0, <5>1, <6>1
        <5>3. k < b \/ (x # Invalid /\ k >= x)
          BY <1>3, <3>0, <4>1, <5>1, <5>2
        <5>4. k \in C /\ k # b
          BY <1>3, <1>7, <5>1, <5>3
        <5> QED
          BY <1>13, <5>1, <5>4 DEF k
      <4>4. h = x => nodes'[h].prev \in C /\ nodes'[nodes'[h].prev].next = h
        BY <1>7, <1>12, <4>1
      <4> QED
        BY <3>1, <4>1, <4>2, <4>3, <4>4
    <3> QED
      BY <3>3, <3>4
  <2>3. ASSUME NEW u \in C, NEW v \in C, u < v PROVE EndOf(u)' <= v
    <3>0. u \in H /\ v \in H /\ u \in Nat /\ v \in Nat /\ (v <= b \/ (x # Invalid /\ v >= x))
      BY <1>6
    <3>1. CASE u = b
      <4>1. x # Invalid /\ v >= x
        BY <1>3, <2>3, <3>0, <3>1
      <4> QED
        BY <1>14, <3>1, <4>1
    <3>2. CASE u # b
      BY <1>13, <1>15, <2>3, <3>0, <3>2
    <3> QED
      BY <3>1, <3>2
  <2> QED
    BY <1>7, <1>10, <2>1, <2>2, <2>3 DEF Links
<1>19. Merged'
  <2> SUFFICES ASSUME NEW h \in C, nodes'[h].free, nodes'[h].next # Invalid
               PROVE  ~nodes'[nodes'[h].next].free
    BY <1>10 DEF Merged
  <2>1. CASE h = b
    BY <1>3, <1>4, <1>7, <1>12, <1>13, <2>1
  <2>2. CASE h # b
    <3>1. h \in H /\ nodes[h].free /\ nodes'[h].next = nodes[h].next /\ h \in Nat
      BY <1>13, <2>2
    <3>2. nodes[h].next \in H /\ ~nodes[nodes[h].next].free /\ nodes[nodes[h].next].prev = h
      BY <1>1, <3>1 DEF Merged, Links
    <3>3. nodes[h].next \in C
      BY <1>10, <1>18, <3>1 DEF Links
    <3>4. nodes[h].next # b
      <4>1. b # 0 => ~nodes[nodes[b].prev].free
        BY DEF Absorbs
      <4>2. nodes[h].next > h
        BY <1>1, <3>1, HeaderFacts
      <4>3. nodes[h].next # 0
        BY <3>1, <4>2
      <4> QED
        BY <3>1, <3>2, <4>1, <4>3
    <3> QED
      BY <1>13, <3>1, <3>2, <3>3, <3>4
  <2> QED
    BY <2>1, <2>2
<1>20. Clients'
  <2> SUFFICES ASSUME NEW d \in DataOffsets
               PROVE  /\ live'[d] # None <=> d - NodeSize \in C /\ ~nodes'[d - NodeSize].free
                      /\ live'[d] # None => nodes'[d - NodeSize].size >= live'[d]
    BY <1>10 DEF Clients
  <2> DEFINE p == d - NodeSize
  <2>1. CASE d = o + NodeSize
    <3>1. p = o /\ live'[d] = None
      BY <1>1, <1>3, <1>16, <2>1, Sizes DEF TypeOK
    <3>2. o \in C => o = b
      BY <1>3, <1>6
    <3> QED
      BY <1>12, <3>1, <3>2
  <2>2. CASE d # o + NodeSize
    <3>1. p # o /\ live'[d] = live[d]
      BY <1>1, <1>3, <2>2, Sizes DEF TypeOK, DataOffsets
    <3>2. /\ live[d] # None <=> p \in H /\ ~nodes[p].free
          /\ live[d] # None => nodes[p].size >= live[d]
      BY <1>1 DEF Clients
    <3> HIDE DEF p
    <3>3. p \in H /\ (p \notin C \/ p = b) => nodes[p].free
      <4>1. \A h \in H : h >= b /\ (x = Invalid \/ h < x) /\ h # o => nodes[h].free
        BY DEF Absorbs
      <4>2. p \in H /\ (p \notin C \/ p = b) => p >= b /\ (x = Invalid \/ p < x)
        BY <1>2, <1>3, <1>8
      <4> QED
        BY <3>1, <4>1, <4>2
    <3>4. p \in C => p \in H
      BY <1>6
    <3>5. p \in C /\ p # b => nodes'[p].free = nodes[p].free /\ nodes'[p].size = nodes[p].size
      BY <1>13
    <3>6. p = b => nodes'[p].free
      BY <1>12
    <3>7. /\ live'[d] # None <=> p \in C /\ ~nodes'[p].free
          /\ live'[d] # None => nodes'[p].size >= live'[d]
      BY <3>1, <3>2, <3>3, <3>4, <3>5, <3>6
    <3> QED
      BY <3>7 DEF p
  <2> QED
    BY <2>1, <2>2
<1> QED
  BY <1>17, <1>18, <1>19, <1>20 DEF IndInv

LEMMA DeallocateKeeps ==
  ASSUME IndInv, NEW d \in DataOffsets, Deallocate(d)
  PROVE  IndInv'
<1> DEFINE o == d - NodeSize
           freed == [nodes EXCEPT ![o].free = TRUE]
           m1 == MergeForward(freed, o)
           m2 == MergeBackward(m1, o)
<1>1. o \in H
  BY DEF Deallocate, IndInv, Clients
<1>2. o + NodeSize = d
  BY Sizes DEF DataOffsets
<1>3. /\ nodes' = [p \in Offsets |-> IF p \in ListOf(m2) THEN m2[p] ELSE None]
      /\ live' = [live EXCEPT ![d] = None]
  BY DEF Deallocate
<1>4. \E z, x : SwallowsForward(o, z, x, m1)
  <2> HIDE DEF o
  <2> QED
    BY <1>1, ForwardEffect
<1> HIDE DEF o, m1
<1>5. PICK z, x : SwallowsForward(o, z, x, m1)
  BY <1>4
<1>6. \E b, y : Absorbs(o, b, y, x, m2)
  BY <1>1, <1>5, BackwardEffect
<1> HIDE DEF m2
<1>7. PICK b, y : Absorbs(o, b, y, x, m2)
  BY <1>6
<1>8. live' = [live EXCEPT ![o + NodeSize] = None]
  BY <1>2, <1>3
<1> QED
  BY <1>1, <1>3, <1>7, <1>8, ForgetKeeps

-----------------------------------------------------------------------------
(* The theorems                                                            *)

LEMMA NextHolds == IndInv /\ [Next]_vars => IndInv'
<1> SUFFICES ASSUME IndInv, [Next]_vars PROVE IndInv'
  OBVIOUS
<1>1. ASSUME NEW n \in Requests, AllocateAtLeast(n) PROVE IndInv'
  <2>1. align_up(n) \in Nat /\ align_up(n) >= n
    BY RequestsAssumption, AlignUp
  <2> QED
    BY <1>1, <2>1, AllocateKeeps DEF AllocateAtLeast
<1>2. ASSUME NEW n \in Requests, Allocate(n) PROVE IndInv'
  <2>1. n \in Nat /\ n >= n
    BY RequestsAssumption
  <2> QED
    BY <1>2, <2>1, AllocateKeeps DEF Allocate
<1>3. ASSUME NEW d \in DataOffsets, Deallocate(d) PROVE IndInv'
  BY <1>3, DeallocateKeeps
<1>4. CASE UNCHANGED vars
  BY <1>4 DEF vars, IndInv, TypeOK, Links, Merged, Clients, H, Headers, Following, EndOf
<1> QED
  BY <1>1, <1>2, <1>3, <1>4 DEF Next

\* However allocations split and deallocations merge the nodes, the headers
\* in memory are exactly the list, in the order of their addresses and linked
\* both ways, no two neighbours are free, and the clients' data are the nodes
\* in use.
THEOREM Invariance == Spec => []IndInv
BY InitHolds, NextHolds, PTL DEF Spec

\* The nodes of the list tile the memory after any allocations and
\* deallocations: no byte is lost and none belongs to two nodes.
THEOREM TilingHolds == Spec => []Tiling
<1>1. IndInv => Tiling
  <2> SUFFICES ASSUME TypeOK, Links PROVE Tiling
    BY DEF IndInv
  <2>1. List = H
    BY ListIsHeaders
  <2> QED
    BY <2>1 DEF Tiling, Links, Following
<1> QED
  BY <1>1, Invariance, PTL

\* _m_insert_node and the merges keep the backward links the mirror of the
\* forward ones, and deallocate leaves no two free neighbours.
THEOREM ListWellFormedHolds == Spec => []ListWellFormed
<1>1. IndInv => ListWellFormed
  <2> SUFFICES ASSUME TypeOK, Links, Merged PROVE ListWellFormed
    BY DEF IndInv
  <2>1. List = H
    BY ListIsHeaders
  <2> QED
    BY <2>1 DEF ListWellFormed, Links, Merged
<1> QED
  BY <1>1, Invariance, PTL

\* What a client holds stays a node in use of the list, as large as it asked
\* for, until the client itself gives it back: no split or merge of others
\* takes a byte of it.
THEOREM ClientsKeepDataHolds == Spec => []ClientsKeepData
<1>1. IndInv => ClientsKeepData
  <2> SUFFICES ASSUME TypeOK, Links, Clients PROVE ClientsKeepData
    BY DEF IndInv
  <2>1. List = H
    BY ListIsHeaders
  <2>2. ASSUME NEW o \in H PROVE o + NodeSize \in DataOffsets /\ (o + NodeSize) - NodeSize = o
    <3>1. o \in Nat /\ nodes[o].size \in Nat /\ EndOf(o) = o + NodeSize + nodes[o].size /\ EndOf(o) <= Memory
      BY HeaderFacts
    <3> QED
      BY <3>1, Sizes DEF DataOffsets
  <2>3. \A o \in H : ~nodes[o].free => live[o + NodeSize] # None
    BY <2>2 DEF Clients
  <2>4. {o \in H : ~nodes[o].free} \subseteq {d - NodeSize : d \in {x \in DataOffsets : live[x] # None}}
    BY <2>2, <2>3
  <2>5. {d - NodeSize : d \in {x \in DataOffsets : live[x] # None}} \subseteq {o \in H : ~nodes[o].free}
    BY DEF Clients
  <2>6. \A d \in DataOffsets : live[d] # None => nodes[d - NodeSize].size >= live[d]
    BY DEF Clients
  <2> QED
    BY <2>1, <2>4, <2>5, <2>6 DEF ClientsKeepData
<1> QED
  BY <1>1, Invariance, PTL
=============================================================================
