------------------------------- MODULE Vector -------------------------------
(***************************************************************************)
(* ipcpp::vector of stl/vector.h over an allocator that rounds requests up *)
(* to Align bytes.  A vector is its three offsets, counted from the start  *)
(* of its storage, and the cells of the storage; ref is what std::vector   *)
(* would hold after the same calls.  Sizes are in bytes where the code     *)
(* compares offsets and in elements where it compares sizes.  Calls that   *)
(* throw before they change anything are no steps.                         *)
(***************************************************************************)
EXTENDS Integers, Sequences

CONSTANTS
  Values,      \* what elements can hold
  ElemSizes,   \* sizeof(value_type), in the unit of Align
  Align,       \* alignment of the allocator
  Slack,       \* bytes a block may have beyond what was asked for
  MaxSize,     \* max_size() of the allocator, in elements
  MaxLen,      \* bound: elements of vector 1 and of vector 2
  MaxArg,      \* bound: elements given to one call
  MaxBlock     \* bound: elements a block can hold

Unbuilt == "raw"              \* memory in which nothing is constructed
Cells == 0 .. MaxBlock
Vecs == {1, 2}
Args == UNION {[1 .. k -> Values] : k \in 0 .. MaxArg}

VARIABLES
  es,        \* sizeof(value_type)
  vec,       \* the two vectors
  ref,       \* what std::vector would hold
  deviated,  \* a call did something else than std::vector's
  overrun    \* an element was constructed outside of its storage

vars == <<es, vec, ref, deviated, overrun>>

-----------------------------------------------------------------------------
(* Storage                                                                 *)

\* vector_data(): all three offsets are -1.
Null == [n |-> 0, eos |-> -1, cells |-> [c \in Cells |-> Unbuilt]]

align_up(bytes) == ((bytes + Align - 1) \div Align) * Align

\* _m_allocate and _m_create_storage: the block has slack bytes to spare.
CreateStorage(n, slack) ==
  IF n = 0 THEN Null ELSE [Null EXCEPT !.eos = align_up(n * es) + slack]

Finish(v) == IF v.eos < 0 THEN -1 ELSE v.n * es
Capacity(v) == IF v.eos < 0 THEN 0 ELSE v.eos \div es

\* data(), begin(), end() and operator[]: the elements as they are read.
Contents(v) == [i \in 1 .. v.n |-> v.cells[i - 1]]

\* operator==
Equal(v, w) == v.n = w.n /\ \A i \in 1 .. v.n : v.cells[i - 1] = w.cells[i - 1]

\* _m_construct_at, element after element, from cell c on.
ConstructAt(v, c, s) ==
  [v EXCEPT !.cells = [d \in Cells |->
     IF d - c + 1 \in 1 .. Len(s) THEN s[d - c + 1] ELSE @[d]]]

\* _m_destroy of the cells first .. last - 1.
Destroy(v, first, last) ==
  [v EXCEPT !.cells = [d \in Cells |-> IF d \in first .. last - 1 THEN Unbuilt ELSE @[d]]]

\* _m_default_, _m_fill_, _m_copy_ and _m_move_initialize: built from the
\* first cell on, and the finish moves on from where it is.
Initialize(v, s) == [ConstructAt(v, 0, s) EXCEPT !.n = @ + Len(s)]

\* _m_check_length: whether it returns, and what.
LengthAllowed(v, n) == MaxSize - v.n >= n
CheckLength(v, n) ==
  LET len == v.n + (IF v.n > n THEN v.n ELSE n)
  IN  IF len > MaxSize THEN MaxSize ELSE len

\* Moving the elements to a block for n: _m_realloc_copy, and the first half
\* of _m_realloc_append, _m_realloc_append_n and _m_uninitialized_realloc_n.
Realloc(v, n, slack) == Initialize(CreateStorage(n, slack), Contents(v))

\* Mutant: overlapping elements are moved front to back.
MoveFrontToBack(v, first, last, dst) ==
  IF dst = first \/ first >= last THEN v
  ELSE LET step == IF dst > first THEN dst - first ELSE 1
       IN  ConstructAt(v, dst, [i \in 1 .. last - first |-> v.cells[first + ((i - 1) % step)]])

\* _m_move_to: the elements first .. last - 1 to dst.  In the first branch
\* dst_it stays where it is: each element overwrites the one before.
MoveTo(v, first, last, dst) ==
  IF dst = first \/ first >= last THEN v
  ELSE IF dst < first \/ dst > last + 1 THEN ConstructAt(v, dst, <<v.cells[last - 1]>>)
  ELSE ConstructAt(v, dst, [i \in 1 .. last - first |-> v.cells[first + i - 1]])

\* Whether that branch loses an element.
MoveLoses(first, last, dst) == (dst < first \/ dst > last + 1) /\ last - first > 1

-----------------------------------------------------------------------------
(* Results.  The history ends with the first call that deviates; what is   *)
(* left behind the finish is never read again and counts as raw.           *)

Fits(v) == v.n * es <= v.eos \/ v.n = 0

Result(a, v, r, wrong) ==
  /\ Len(r) <= MaxLen[a] /\ v.n <= MaxLen[a] /\ Capacity(v) <= MaxBlock
  /\ vec' = [vec EXCEPT ![a] = Destroy(v, v.n, MaxBlock + 1)]
  /\ ref' = [ref EXCEPT ![a] = r]
  /\ deviated' = wrong
  /\ overrun' = ~Fits(v)
  /\ UNCHANGED es

Init ==
  /\ es \in ElemSizes
  /\ vec = [a \in Vecs |-> Null] /\ ref = [a \in Vecs |-> <<>>]
  /\ deviated = FALSE /\ overrun = FALSE

\* A vector is destroyed and another one constructed in its place, from a
\* size, a value, a range, a list or another vector.
Construct(a, s) ==
  \E slack \in Slack : Result(a, Initialize(CreateStorage(Len(s), slack), s), s, FALSE)

\* vector(vector&&), in place of a.
MoveConstruct(a, b) ==
  /\ ref[b] # <<>> /\ vec[b].n <= MaxLen[a]
  /\ vec' = [vec EXCEPT ![a] = vec[b], ![b] = Null]
  /\ ref' = [ref EXCEPT ![a] = ref[b], ![b] = <<>>]
  /\ UNCHANGED <<es, deviated, overrun>>

\* swap(), and operator=(vector&&), which swaps as well.
Swap ==
  /\ \A a \in Vecs : vec[3 - a].n <= MaxLen[a]
  /\ vec' = [a \in Vecs |-> vec[3 - a]] /\ ref' = [a \in Vecs |-> ref[3 - a]]
  /\ UNCHANGED <<es, deviated, overrun>>

\* The three assign(): if the capacity does, the finish is not set back before
\* the new elements are counted.
Assign(a, s) ==
  LET v == Destroy(vec[a], 0, vec[a].n)
  IN  IF Len(s) > Capacity(v)
        THEN \/ \E slack \in Slack : Result(a, Initialize(CreateStorage(Len(s), slack), s), s, FALSE)
             \/ Result(a, v, s, TRUE)   \* bad_alloc: the old block is gone already
        ELSE Result(a, Initialize(v, s), s, v.n > 0)

\* operator=(const vector&) does the same.
CopyAssign(a, b) == Assign(a, Contents(vec[b]))

\* operator=(initializer_list) sets it back.
AssignList(a, s) ==
  LET v == Destroy(vec[a], 0, vec[a].n)
  IN  /\ Len(s) <= Capacity(v)
      /\ Result(a, Initialize([v EXCEPT !.n = 0], s), s, FALSE)

-----------------------------------------------------------------------------
(* Capacity and modifiers                                                  *)

Reserve(a, n) ==
  /\ n > Capacity(vec[a]) /\ n <= MaxSize
  /\ \E slack \in Slack : Result(a, Realloc(vec[a], n, slack), ref[a], FALSE)

ShrinkToFit(a) ==
  /\ Capacity(vec[a]) # vec[a].n
  /\ \E slack \in Slack : Result(a, Realloc(vec[a], vec[a].n, slack), ref[a], FALSE)

Clear(a) == Result(a, [Destroy(vec[a], 0, vec[a].n) EXCEPT !.n = 0], <<>>, FALSE)

\* push_back and emplace_back: the room is tested with != on the offsets.
PushBack(a, x) ==
  LET v == vec[a]
      r == Append(ref[a], x)
      added(w) == [ConstructAt(w, w.n, <<x>>) EXCEPT !.n = @ + 1]
  IN  \/ Finish(v) # v.eos /\ Result(a, added(v), r, FALSE)
      \/ /\ Finish(v) = v.eos /\ LengthAllowed(v, 1)
         /\ \E slack \in Slack : Result(a, added(Realloc(v, CheckLength(v, 1), slack)), r, FALSE)

PopBack(a) ==
  LET v == vec[a]
  IN  /\ v.n > 0
      /\ Result(a, [Destroy(v, v.n - 1, v.n) EXCEPT !.n = @ - 1],
                SubSeq(ref[a], 1, v.n - 1), FALSE)

Opened(a, pos, s) == SubSeq(ref[a], 1, pos) \o s \o SubSeq(ref[a], pos + 1, Len(ref[a]))

\* Mutant: room for one element too few makes do.
InsertOneShort(a, pos, s) ==
  LET filled(w) == [ConstructAt(MoveTo(w, pos, w.n, pos + Len(s)), pos, s)
                      EXCEPT !.n = @ + Len(s)]
      v == vec[a]
  IN  /\ Capacity(v) >= v.n + Len(s) - 1
      /\ Result(a, filled(v), Opened(a, pos, s), MoveLoses(pos, v.n, pos + Len(s)))

\* insert(pos, count, value), and with it insert(pos, value) and emplace.
Insert(a, pos, s) ==
  LET v == vec[a]
      wrong == MoveLoses(pos, v.n, pos + Len(s))
      filled(w) == [ConstructAt(MoveTo(w, pos, w.n, pos + Len(s)), pos, s)
                      EXCEPT !.n = @ + Len(s)]
  IN  \/ Capacity(v) >= v.n + Len(s) /\ Result(a, filled(v), Opened(a, pos, s), wrong)
      \/ /\ Capacity(v) < v.n + Len(s) /\ LengthAllowed(v, Len(s))
         /\ \E slack \in Slack :
              Result(a, filled(Realloc(v, CheckLength(v, Len(s)), slack)),
                     Opened(a, pos, s), wrong)

\* insert(pos, first, last): as above, but after a reallocation pos still
\* points into the old block.  If that lies behind the new one no element is
\* moved; if it lies before, everything between the two is overwritten.
InsertRange(a, pos, s) ==
  LET v == vec[a]
      moved == [ConstructAt(MoveTo(v, pos, v.n, pos + Len(s)), pos, s) EXCEPT !.n = @ + Len(s)]
      stale(slack) == [ConstructAt(Realloc(v, CheckLength(v, Len(s)), slack), pos, s)
                         EXCEPT !.n = @ + Len(s)]
  IN  \/ /\ Capacity(v) >= v.n + Len(s)
         /\ Result(a, moved, Opened(a, pos, s), MoveLoses(pos, v.n, pos + Len(s)))
      \/ /\ Capacity(v) < v.n + Len(s) /\ LengthAllowed(v, Len(s))
         /\ \E slack \in Slack, behind \in BOOLEAN :
              Result(a, stale(slack), Opened(a, pos, s), pos < v.n \/ ~behind)

Cut(a, first, last) == SubSeq(ref[a], 1, first) \o SubSeq(ref[a], last + 1, Len(ref[a]))

\* erase of one element
Erase(a, pos) ==
  LET v == vec[a]
      rest == IF pos + 1 = v.n THEN Destroy(v, pos, v.n) ELSE MoveTo(v, pos + 1, v.n, pos)
  IN  Result(a, [rest EXCEPT !.n = @ - 1], Cut(a, pos, pos + 1), MoveLoses(pos + 1, v.n, pos))

\* erase of a range; one that is empty or turned round changes nothing.
EraseRange(a, first, last) ==
  LET v == vec[a]
  IN  /\ last > first
      /\ Result(a, [MoveTo(v, last, v.n, first) EXCEPT !.n = @ - (last - first)],
                Cut(a, first, last), MoveLoses(last, v.n, first))

\* Both resize(): fewer elements, more in the same storage, or in another.
Resize(a, count, x) ==
  LET v == vec[a]
      new == [i \in 1 .. count - v.n |-> x]
      filled(w) == [ConstructAt(w, w.n, new) EXCEPT !.n = count]
  IN  \/ /\ count < v.n
         /\ Result(a, [Destroy(v, count, v.n) EXCEPT !.n = count],
                   SubSeq(ref[a], 1, count), FALSE)
      \/ /\ count > v.n /\ count <= Capacity(v)
         /\ Result(a, filled(v), ref[a] \o new, FALSE)
      \/ /\ count > v.n /\ count > Capacity(v) /\ LengthAllowed(v, count)
         /\ \E slack \in Slack :
              Result(a, filled(Realloc(v, CheckLength(v, count), slack)), ref[a] \o new, FALSE)

Next ==
  /\ ~deviated /\ ~overrun
  /\ \/ Swap
     \/ \E a \in Vecs :
          \/ MoveConstruct(a, 3 - a) \/ ShrinkToFit(a) \/ Clear(a) \/ PopBack(a)
          \/ CopyAssign(a, 3 - a)
          \/ \E s \in Args : Construct(a, s) \/ Assign(a, s) \/ AssignList(a, s)
          \/ \E x \in Values : PushBack(a, x)
          \/ \E n \in 0 .. MaxLen[a] :
               Reserve(a, n) \/ \E x \in Values : Resize(a, n, x)
          \/ \E pos \in 0 .. vec[a].n : \E s \in Args :
               \/ InsertRange(a, pos, s)
               \/ (\A i \in 1 .. Len(s) : s[i] = s[1]) /\ Insert(a, pos, s)
          \/ \E pos \in 0 .. vec[a].n - 1 :
               Erase(a, pos) \/ \E last \in 0 .. vec[a].n : EraseRange(a, pos, last)

Spec == Init /\ [][Next]_vars

-----------------------------------------------------------------------------
(* Properties                                                              *)

\* Whatever the sequence of calls, a vector holds what std::vector would, and
\* operator== says so, as the tests of vector.h expect; except after the calls
\* that deviate: moves of two or more elements to the front or far to the
\* back, assignments over elements that fit, assignments that run out of
\* memory, and ranges inserted with a reallocation.
ActsAsStdVector ==
  ~deviated /\ ~overrun =>
    /\ \A a \in Vecs : Contents(vec[a]) = ref[a]
    /\ Equal(vec[1], vec[2]) <=> ref[1] = ref[2]

\* No element is ever constructed outside of the storage, if the size of an
\* element divides the allocator's alignment and what blocks have to spare:
\* push_back's test for equality then meets the end.  Otherwise it may step
\* over it.
StaysInStorage ==
  overrun /\ ~deviated => Align % es # 0 \/ \E slack \in Slack : slack % es # 0

-----------------------------------------------------------------------------
(* What the tests of the code expect and the code does not do              *)

\* vector_test.cpp, erase_iterator: an element erased from the middle leaves
\* the others, in their order.
EraseKeepsTheRest ==
  [][\A a \in Vecs : \A pos \in 0 .. vec[a].n - 1 :
       Erase(a, pos) => Contents(vec'[a]) = Cut(a, pos, pos + 1)]_vars
=============================================================================
