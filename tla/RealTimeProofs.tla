--------------------------- MODULE RealTimeProofs ---------------------------
(***************************************************************************)
(* IndInv is an inductive invariant of RealTime for every number of        *)
(* publishers, subscribers and slots; the properties follow from it.       *)
(***************************************************************************)
EXTENDS RealTime, FiniteSetTheorems, TLAPS

-----------------------------------------------------------------------------
(* Names of accesses                                                       *)

\* The four kinds of Access objects are distinct members of Accesses.
LEMMA AccessNames ==
  /\ \A p \in Pubs : New(p) \in Accesses /\ Prev(p) \in Accesses
  /\ \A s \in Subs : Fetch(s) \in Accesses
  /\ \A s \in Subs, w \in Wrappers : Wrap(s, w) \in Accesses
  /\ \A p, q \in Pubs : New(p) # Prev(q)
  /\ \A p, q \in Pubs : p # q => New(p) # New(q) /\ Prev(p) # Prev(q)
  /\ \A p \in Pubs, s \in Subs : New(p) # Fetch(s) /\ Prev(p) # Fetch(s)
  /\ \A p \in Pubs, s \in Subs, w \in Wrappers :
       New(p) # Wrap(s, w) /\ Prev(p) # Wrap(s, w)
  /\ \A s, t \in Subs : s # t => Fetch(s) # Fetch(t)
  /\ \A s, t \in Subs, w \in Wrappers : Fetch(s) # Wrap(t, w)
  /\ \A s, t \in Subs, v, w \in Wrappers :
       s # t \/ v # w => Wrap(s, v) # Wrap(t, w)
BY PubsAssumption, WrappersAssumption
   DEF Accesses, New, Prev, Fetch, Wrap

\* Only finitely many Access objects exist at once.
LEMMA AccessesFinite == IsFiniteSet(Accesses)
<1>1. IsFiniteSet({"new", "prev"}) /\ IsFiniteSet({"fetch"})
  <2>1. {"new", "prev"} = {"new"} \cup {"prev"}
    OBVIOUS
  <2>2. IsFiniteSet({"new"}) /\ IsFiniteSet({"prev"}) /\ IsFiniteSet({"fetch"})
    BY FS_Singleton
  <2> QED
    BY <2>1, <2>2, FS_Union, ZenonT(40)
<1>2. IsFiniteSet({"fetch"} \cup Wrappers)
  BY <1>1, FS_Union, WrappersAssumption
<1>3. IsFiniteSet(Pubs \X {"new", "prev"})
  BY <1>1, FS_Product, PubsAssumption
<1>4. IsFiniteSet(Subs \X ({"fetch"} \cup Wrappers))
  BY <1>2, FS_Product, PubsAssumption
<1> QED
  BY <1>3, <1>4, FS_Union DEF Accesses

\* The holders of a slot can be counted.
LEMMA HoldersFinite ==
  \A x : IsFiniteSet(Holders(x)) /\ Cardinality(Holders(x)) \in Nat
BY AccessesFinite, FS_Subset, FS_CardinalityType DEF Holders

\* A slot with a live access has a positive counter.
LEMMA HeldIsCounted ==
  ASSUME TypeOK, RefCountExact, SlotsKnown, NEW a \in Accesses, st[a] = "held"
  PROVE  at[a] \in Slots /\ ref[at[a]] > 0
<1>1. at[a] \in Slots /\ a \in Holders(at[a])
  BY DEF SlotsKnown, Holders
<1>2. Cardinality(Holders(at[a])) # 0
  BY <1>1, HoldersFinite, FS_EmptySet
<1> QED
  BY <1>1, <1>2, HoldersFinite DEF RefCountExact

-----------------------------------------------------------------------------
(* What the operations on accesses do to the counters                      *)

\* acquire_unsafe counts the access it creates.
LEMMA AcquireCounts ==
  ASSUME TypeOK, RefCountExact, NEW a \in Accesses, NEW x \in Slots,
         st[a] = "free", AcquireUnsafe(a, x)
  PROVE  RefCountExact'
<1> SUFFICES ASSUME NEW y \in Slots
             PROVE  ref'[y] = Cardinality(Holders(y)')
  BY DEF RefCountExact
<1>1. CASE y = x
  <2>1. Holders(y)' = Holders(y) \cup {a} /\ a \notin Holders(y)
    BY <1>1 DEF Holders, AcquireUnsafe, TypeOK
  <2>2. Cardinality(Holders(y)') = Cardinality(Holders(y)) + 1
    BY <2>1, HoldersFinite, FS_AddElement
  <2> QED
    BY <2>2, <1>1 DEF RefCountExact, AcquireUnsafe, TypeOK
<1>2. CASE y # x
  <2>1. Holders(y)' = Holders(y)
    BY <1>2 DEF Holders, AcquireUnsafe, TypeOK
  <2> QED
    BY <2>1, <1>2 DEF RefCountExact, AcquireUnsafe, TypeOK
<1> QED
  BY <1>1, <1>2

\* release takes exactly one access out of the count.
LEMMA ReleaseCounts ==
  ASSUME TypeOK, RefCountExact, SlotsKnown, NEW a \in Accesses, ReleaseAccess(a)
  PROVE  RefCountExact' /\ ref' \in [Slots -> Nat]
<1>1. at[a] \in Slots /\ ref[at[a]] > 0 /\ st[a] = "held"
  BY HeldIsCounted DEF ReleaseAccess
<1>2. ref' \in [Slots -> Nat]
  BY <1>1 DEF ReleaseAccess, TypeOK
<1>3. ASSUME NEW y \in Slots
      PROVE  ref'[y] = Cardinality(Holders(y)')
  <2>1. CASE y = at[a]
    <3>1. Holders(y)' = Holders(y) \ {a} /\ a \in Holders(y)
      BY <1>1, <2>1 DEF Holders, ReleaseAccess, TypeOK
    <3>2. Cardinality(Holders(y)') = Cardinality(Holders(y)) - 1
      BY <3>1, HoldersFinite, FS_RemoveElement
    <3> QED
      BY <3>2, <2>1 DEF RefCountExact, ReleaseAccess, TypeOK
  <2>2. CASE y # at[a]
    <3>1. Holders(y)' = Holders(y)
      BY <1>1, <2>2 DEF Holders, ReleaseAccess, TypeOK
    <3> QED
      BY <3>1, <2>2, <1>1 DEF RefCountExact, ReleaseAccess, TypeOK
  <2> QED
    BY <2>1, <2>2
<1> QED
  BY <1>2, <1>3 DEF RefCountExact

\* Moving a live access neither creates nor drops a reference.
LEMMA MoveCounts ==
  ASSUME TypeOK, RefCountExact, NEW from \in Accesses, NEW to \in Accesses,
         from # to, st[from] = "held", st[to] # "held",
         MoveAccess(from, to), UNCHANGED ref
  PROVE  RefCountExact'
<1> SUFFICES ASSUME NEW y \in Slots
             PROVE  ref'[y] = Cardinality(Holders(y)')
  BY DEF RefCountExact
<1>1. CASE y = at[from]
  <2> DEFINE Rest == Holders(y) \ {from}
  <2>1. Holders(y)' = Rest \cup {to} /\ to \notin Rest /\ from \in Holders(y)
    BY <1>1 DEF Holders, MoveAccess, TypeOK
  <2>2. IsFiniteSet(Rest) /\ Cardinality(Rest) = Cardinality(Holders(y)) - 1
    BY <2>1, HoldersFinite, FS_RemoveElement
  <2>3. Cardinality(Holders(y)') = Cardinality(Rest) + 1
    BY <2>1, <2>2, FS_AddElement
  <2> QED
    BY <2>2, <2>3, HoldersFinite DEF RefCountExact
<1>2. CASE y # at[from]
  <2>1. Holders(y)' = Holders(y)
    BY <1>2, NoneAssumption DEF Holders, MoveAccess, TypeOK
  <2> QED
    BY <2>1 DEF RefCountExact
<1> QED
  BY <1>1, <1>2

\* A step that keeps every live access where it is keeps the count.
LEMMA SameHoldersCounts ==
  ASSUME RefCountExact, UNCHANGED ref,
         \A b \in Accesses : /\ st'[b] = "held" <=> st[b] = "held"
                             /\ st[b] = "held" => at'[b] = at[b]
  PROVE  RefCountExact'
<1>1. \A y \in Slots : Holders(y)' = Holders(y)
  BY DEF Holders
<1> QED
  BY <1>1 DEF RefCountExact

\* A step that hands out no acquire and returns none keeps the balance.
LEMMA SameBalance ==
  ASSUME AcquiresBalance, UNCHANGED avail,
         \A s \in Subs : /\ spc'[s] = "unclaim" <=> spc[s] = "unclaim"
                         /\ spc'[s] = "closed" => spc[s] = "closed",
         \A s \in Subs, w \in Wrappers :
           st'[Wrap(s, w)] = "free" <=> st[Wrap(s, w)] = "free"
  PROVE  AcquiresBalance'
<1>1. \A s \in Subs : LiveWrappers(s)' = LiveWrappers(s)
  BY DEF LiveWrappers
<1> QED
  BY <1>1 DEF AcquiresBalance

\* A step that leaves ids, counters and accesses alone loses no slot as long
\* as publishers stay with the slot they announce.
LEMMA SameSlots ==
  ASSUME NoLeakedSlot, UNCHANGED <<mid, ref, at, st, todo>>,
         \A p \in Pubs, x \in Slots : Announcing(p, x) => Announcing(p, x)'
  PROVE  NoLeakedSlot'
BY DEF NoLeakedSlot

-----------------------------------------------------------------------------
(* Publisher steps                                                         *)

\* Constructing a publisher disturbs no message.
LEMMA PubOpenInv == ASSUME IndInv, NEW p \in Pubs, PubOpen(p) PROVE IndInv'
<1> USE DEF IndInv
<1>1. TypeOK'
  <2>1. 0 \in 0 .. PoolSize - 1
    BY SizesAssumption
  <2>2. local' \in [Entries -> 0 .. PoolSize - 1]
    BY <2>1 DEF PubOpen, TypeOK
  <2>3. owner' \in [Entries -> Pubs \cup {None}] /\ entry' \in [Pubs -> Entries]
    BY DEF PubOpen, TypeOK
  <2>4. ppc' \in [Pubs -> PubPoints]
    BY DEF PubOpen, TypeOK, PubPoints
  <2> QED
    BY <2>2, <2>3, <2>4 DEF PubOpen, TypeOK, slotVars, subVars, accVars
<1>2. SlotsKnown'
  BY DEF PubOpen, SlotsKnown, TypeOK, slotVars, subVars, accVars
<1>3. AccessControl'
  BY DEF PubOpen, AccessControl, TypeOK, slotVars, subVars, accVars
<1>4. RefCountExact'
  BY SameHoldersCounts DEF PubOpen, slotVars, accVars
<1>5. NoLeakedSlot'
  BY SameSlots DEF PubOpen, Announcing, TypeOK, slotVars, accVars
<1>6. AcquiresBalance'
  BY SameBalance DEF PubOpen, subVars, accVars
<1> QED
  BY <1>1, <1>2, <1>3, <1>4, <1>5, <1>6

\* Calling publish() disturbs no message.
LEMMA PubBeginInv == ASSUME IndInv, NEW p \in Pubs, PubBegin(p) PROVE IndInv'
<1> USE DEF IndInv
<1>1. TypeOK'
  BY DEF PubBegin, TypeOK, PubPoints, slotVars, headerVars, subVars, accVars
<1>2. SlotsKnown'
  BY DEF PubBegin, SlotsKnown, TypeOK, slotVars, headerVars, subVars, accVars
<1>3. AccessControl'
  BY DEF PubBegin, AccessControl, TypeOK, slotVars, headerVars, subVars, accVars
<1>4. RefCountExact'
  BY SameHoldersCounts DEF PubBegin, slotVars, accVars
<1>5. NoLeakedSlot'
  BY SameSlots DEF PubBegin, Announcing, TypeOK, slotVars, accVars
<1>6. AcquiresBalance'
  BY SameBalance DEF PubBegin, subVars, accVars
<1> QED
  BY <1>1, <1>2, <1>3, <1>4, <1>5, <1>6

\* A round of the search picks only a slot that nobody needs to reset.
LEMMA PubScanInv == ASSUME IndInv, NEW p \in Pubs, PubScan(p) PROVE IndInv'
<1> USE DEF IndInv
<1> DEFINE e == entry[p]
<1> DEFINE x == <<e, local[e]>>
<1>0. x \in Slots /\ e \in Entries /\ local[e] \in 0 .. PoolSize - 1
  BY DEF TypeOK, Slots
<1>1. TypeOK'
  <2>1. (local[e] + 1) % PoolSize \in 0 .. PoolSize - 1
    BY <1>0, SizesAssumption
  <2>2. local' \in [Entries -> 0 .. PoolSize - 1]
    BY <2>1, <1>0 DEF PubScan, TypeOK
  <2>3. pslot' \in [Pubs -> Slots \cup {None}] /\ ptodo' \in [Pubs -> SUBSET Stores]
        /\ ppc' \in [Pubs -> PubPoints]
    BY <1>0 DEF PubScan, TypeOK, PubPoints
  <2> QED
    BY <2>2, <2>3 DEF PubScan, TypeOK, slotVars, subVars, accVars
<1>2. SlotsKnown'
  BY <1>0 DEF PubScan, SlotsKnown, TypeOK, slotVars, subVars, accVars
<1>3. AccessControl'
  BY DEF PubScan, AccessControl, TypeOK, slotVars, subVars, accVars
<1>4. RefCountExact'
  BY SameHoldersCounts DEF PubScan, slotVars, accVars
<1>5. NoLeakedSlot'
  BY SameSlots DEF PubScan, Announcing, TypeOK, slotVars, accVars
<1>6. AcquiresBalance'
  BY SameBalance DEF PubScan, subVars, accVars
<1> QED
  BY <1>1, <1>2, <1>3, <1>4, <1>5, <1>6

\* A store of emplace goes to the slot the publisher announces.
LEMMA PubEmplaceInv ==
  ASSUME IndInv, NEW p \in Pubs, NEW f \in Stores, PubEmplace(p, f)
  PROVE  IndInv'
<1> USE DEF IndInv
<1>0. pslot[p] \in Slots /\ ppc[p] = "emplace" /\ f \in {"value", "id"}
  BY DEF PubEmplace, SlotsKnown, Stores
<1>1. TypeOK'
  BY <1>0 DEF PubEmplace, TypeOK, PubPoints, headerVars, subVars, accVars
<1>2. SlotsKnown'
  BY DEF PubEmplace, SlotsKnown, TypeOK, headerVars, subVars, accVars
<1>3. AccessControl'
  BY DEF PubEmplace, AccessControl, TypeOK, subVars, accVars
<1>4. RefCountExact'
  BY SameHoldersCounts DEF PubEmplace, accVars
<1>5. NoLeakedSlot'
  <2> SUFFICES ASSUME NEW x \in Slots, mid'[x] # None
               PROVE  NoLeakedSlot!(x)!2'
    BY DEF NoLeakedSlot
  <2>1. \A q \in Pubs, y \in Slots : Announcing(q, y) => Announcing(q, y)'
    BY DEF PubEmplace, Announcing, TypeOK
  <2>2. Announcing(p, pslot[p])'
    BY <1>0 DEF PubEmplace, Announcing, TypeOK
  <2>3. x # pslot[p] => mid[x] # None
    BY <1>0 DEF PubEmplace, TypeOK
  <2> QED
    BY <2>1, <2>2, <2>3 DEF NoLeakedSlot, PubEmplace, accVars
<1>6. AcquiresBalance'
  BY SameBalance DEF PubEmplace, subVars, accVars
<1> QED
  BY <1>1, <1>2, <1>3, <1>4, <1>5, <1>6

\* Storing latest_published_idx makes the index valid before it is needed.
LEMMA PubLatestInv == ASSUME IndInv, NEW p \in Pubs, PubLatest(p) PROVE IndInv'
<1> USE DEF IndInv
<1>0. pslot[p] \in Slots
  BY DEF PubLatest, SlotsKnown
<1>1. TypeOK'
  BY <1>0 DEF PubLatest, TypeOK, PubPoints, slotVars, subVars, accVars
<1>2. SlotsKnown'
  BY <1>0 DEF PubLatest, SlotsKnown, TypeOK, slotVars, subVars, accVars
<1>3. AccessControl'
  BY DEF PubLatest, AccessControl, TypeOK, slotVars, subVars, accVars
<1>4. RefCountExact'
  BY SameHoldersCounts DEF PubLatest, slotVars, accVars
<1>5. NoLeakedSlot'
  BY SameSlots DEF PubLatest, Announcing, TypeOK, slotVars, accVars
<1>6. AcquiresBalance'
  BY SameBalance DEF PubLatest, subVars, accVars
<1> QED
  BY <1>1, <1>2, <1>3, <1>4, <1>5, <1>6

\* Incrementing next_message_id happens only after the index is valid.
LEMMA PubNotifyInv == ASSUME IndInv, NEW p \in Pubs, PubNotify(p) PROVE IndInv'
<1> USE DEF IndInv
<1>1. TypeOK'
  BY DEF PubNotify, TypeOK, PubPoints, slotVars, subVars, accVars
<1>2. SlotsKnown'
  BY DEF PubNotify, SlotsKnown, TypeOK, slotVars, subVars, accVars
<1>3. AccessControl'
  BY DEF PubNotify, AccessControl, TypeOK, slotVars, subVars, accVars
<1>4. RefCountExact'
  BY SameHoldersCounts DEF PubNotify, slotVars, accVars
<1>5. NoLeakedSlot'
  BY SameSlots DEF PubNotify, Announcing, TypeOK, slotVars, accVars
<1>6. AcquiresBalance'
  BY SameBalance DEF PubNotify, subVars, accVars
<1> QED
  BY <1>1, <1>2, <1>3, <1>4, <1>5, <1>6

\* The publisher's own reference keeps the announced slot accounted for.
LEMMA PubAcquireInv == ASSUME IndInv, NEW p \in Pubs, PubAcquire(p) PROVE IndInv'
<1> USE DEF IndInv
<1>0. pslot[p] \in Slots /\ New(p) \in Accesses /\ st[New(p)] = "free"
      /\ AcquireUnsafe(New(p), pslot[p]) /\ ref[pslot[p]] \in Nat
  BY AccessNames DEF PubAcquire, SlotsKnown, AccessControl, TypeOK
<1>1. TypeOK'
  BY <1>0 DEF PubAcquire, AcquireUnsafe, TypeOK, PubPoints, headerVars, subVars
<1>2. SlotsKnown'
  BY <1>0 DEF PubAcquire, AcquireUnsafe, SlotsKnown, TypeOK, headerVars, subVars
<1>3. AccessControl'
  BY <1>0, AccessNames DEF PubAcquire, AcquireUnsafe, AccessControl, TypeOK, subVars
<1>4. RefCountExact'
  BY <1>0, AcquireCounts
<1>5. NoLeakedSlot'
  <2> SUFFICES ASSUME NEW x \in Slots, mid'[x] # None
               PROVE  NoLeakedSlot!(x)!2'
    BY DEF NoLeakedSlot
  <2>1. mid[x] # None /\ (ref[x] > 0 => ref'[x] > 0) /\ ref'[pslot[p]] > 0
    BY <1>0 DEF AcquireUnsafe, TypeOK
  <2>2. \A q \in Pubs : q # p /\ Announcing(q, x) => Announcing(q, x)'
    BY DEF PubAcquire, Announcing, TypeOK
  <2>3. Announcing(p, x) => x = pslot[p]
    BY DEF Announcing
  <2>4. \A a \in Accesses : st[a] = "reset" => st'[a] = "reset" /\ at'[a] = at[a]
                                               /\ todo'[a] = todo[a]
    BY <1>0 DEF AcquireUnsafe, TypeOK
  <2> QED
    BY <2>1, <2>2, <2>3, <2>4 DEF NoLeakedSlot
<1>6. AcquiresBalance'
  BY <1>0, AccessNames, SameBalance DEF PubAcquire, AcquireUnsafe, TypeOK, subVars
<1> QED
  BY <1>1, <1>2, <1>3, <1>4, <1>5, <1>6

\* What release() does to slots, whoever calls it: the access that takes the
\* counter to zero owes the reset.
LEMMA ReleaseInv ==
  ASSUME IndInv, NEW a \in Accesses, ReleaseAccess(a),
         UNCHANGED <<headerVars, pubVars, subVars>>
  PROVE  /\ TypeOK' /\ SlotsKnown' /\ RefCountExact' /\ NoLeakedSlot'
         /\ AcquiresBalance'
<1> USE DEF IndInv
<1>0. at[a] \in Slots /\ ref[at[a]] > 0 /\ st[a] = "held" /\ ref[at[a]] \in Nat
  BY HeldIsCounted DEF ReleaseAccess, TypeOK
<1>1. RefCountExact' /\ ref' \in [Slots -> Nat]
  BY ReleaseCounts
<1>2. TypeOK'
  BY <1>1 DEF ReleaseAccess, TypeOK, headerVars, pubVars, subVars
<1>3. SlotsKnown'
  BY <1>0 DEF ReleaseAccess, SlotsKnown, TypeOK, headerVars, pubVars, subVars
<1>4. NoLeakedSlot'
  <2> SUFFICES ASSUME NEW x \in Slots, mid'[x] # None
               PROVE  NoLeakedSlot!(x)!2'
    BY DEF NoLeakedSlot
  <2>1. mid[x] # None
    BY DEF ReleaseAccess
  <2>2. \A q \in Pubs : Announcing(q, x) => Announcing(q, x)'
    BY DEF pubVars, Announcing
  <2>3. \A b \in Accesses : st[b] = "reset" => st'[b] = "reset" /\ at'[b] = at[b]
                                               /\ todo'[b] = todo[b]
    BY <1>0 DEF ReleaseAccess, TypeOK
  <2>4. CASE x = at[a] /\ ref[x] = 1
    <3>1. st'[a] = "reset" /\ at'[a] = x /\ "id" \in todo'[a]
      BY <2>4 DEF ReleaseAccess, TypeOK, Stores
    <3> QED
      BY <3>1
  <2>5. CASE ~(x = at[a] /\ ref[x] = 1)
    <3>1. ref[x] > 0 => ref'[x] > 0
      BY <2>5, <1>0 DEF ReleaseAccess, TypeOK
    <3> QED
      BY <3>1, <2>1, <2>2, <2>3 DEF NoLeakedSlot
  <2> QED
    BY <2>4, <2>5
<1>5. AcquiresBalance'
  BY <1>0, SameBalance, AccessNames DEF ReleaseAccess, TypeOK, subVars
<1> QED
  BY <1>1, <1>2, <1>3, <1>4, <1>5

\* The publisher releases the message it published before.
LEMMA PubReleasePrevInv ==
  ASSUME IndInv, NEW p \in Pubs, PubReleasePrev(p) PROVE IndInv'
<1> USE DEF IndInv
<1>0. ReleaseAccess(Prev(p)) /\ Prev(p) \in Accesses
  BY AccessNames DEF PubReleasePrev
<1>1. /\ TypeOK' /\ SlotsKnown' /\ RefCountExact' /\ NoLeakedSlot'
      /\ AcquiresBalance'
  BY <1>0, ReleaseInv DEF PubReleasePrev
<1>2. AccessControl'
  <2>1. \A b \in Accesses \ {Prev(p)} : st'[b] = st[b]
    BY <1>0 DEF ReleaseAccess, TypeOK
  <2>2. ppc[p] \in {"swap", "closing"} /\ UNCHANGED <<ppc, spc>>
    BY DEF PubReleasePrev, pubVars, subVars
  <2> QED
    BY <2>1, <2>2, AccessNames DEF AccessControl
<1> QED
  BY <1>1, <1>2

\* A store of reset(), by whichever access owes it.
LEMMA ResetStoreInv ==
  ASSUME IndInv, NEW a \in Accesses, NEW f \in Stores, ResetStore(a, f)
  PROVE  IndInv'
<1> USE DEF IndInv
<1>0. at[a] \in Slots /\ st[a] = "reset" /\ f \in {"value", "id"}
  BY DEF ResetStore, SlotsKnown, Stores
<1>1. TypeOK'
  BY <1>0 DEF ResetStore, TypeOK, headerVars, pubVars, subVars
<1>2. SlotsKnown'
  BY <1>0 DEF ResetStore, SlotsKnown, TypeOK, headerVars, pubVars, subVars
<1>3. AccessControl'
  BY <1>0, AccessNames DEF ResetStore, AccessControl, TypeOK, pubVars, subVars
<1>4. RefCountExact'
  BY <1>0, SameHoldersCounts DEF ResetStore, TypeOK
<1>5. NoLeakedSlot'
  <2> SUFFICES ASSUME NEW x \in Slots, mid'[x] # None
               PROVE  NoLeakedSlot!(x)!2'
    BY DEF NoLeakedSlot
  <2>1. mid[x] # None /\ (f = "id" => x # at[a])
    BY <1>0 DEF ResetStore, TypeOK
  <2>2. \A q \in Pubs : Announcing(q, x) => Announcing(q, x)'
    BY DEF ResetStore, pubVars, Announcing
  <2>3. \A b \in Accesses : st[b] = "reset" /\ at[b] = x /\ "id" \in todo[b]
          => st'[b] = "reset" /\ at'[b] = x /\ "id" \in todo'[b]
    BY <2>1, <1>0 DEF ResetStore, TypeOK
  <2> QED
    BY <2>1, <2>2, <2>3 DEF NoLeakedSlot, ResetStore
<1>6. AcquiresBalance'
  BY <1>0, SameBalance, AccessNames DEF ResetStore, TypeOK, subVars
<1> QED
  BY <1>1, <1>2, <1>3, <1>4, <1>5, <1>6

\* The new message becomes _prev_published_message.
LEMMA PubSwapInv == ASSUME IndInv, NEW p \in Pubs, PubSwap(p) PROVE IndInv'
<1> USE DEF IndInv
<1>0. /\ New(p) \in Accesses /\ Prev(p) \in Accesses /\ New(p) # Prev(p)
      /\ st[New(p)] = "held" /\ st[Prev(p)] \in {"free", "done"}
      /\ MoveAccess(New(p), Prev(p)) /\ at[New(p)] \in Slots
  BY AccessNames DEF PubSwap, AccessControl, SlotsKnown
<1>1. TypeOK'
  BY <1>0 DEF PubSwap, MoveAccess, TypeOK, PubPoints, slotVars, headerVars, subVars
<1>2. SlotsKnown'
  BY <1>0 DEF PubSwap, MoveAccess, SlotsKnown, TypeOK, slotVars, headerVars, subVars
<1>3. AccessControl'
  BY <1>0, AccessNames DEF PubSwap, MoveAccess, AccessControl, TypeOK, subVars
<1>4. RefCountExact'
  BY <1>0, MoveCounts DEF PubSwap, slotVars
<1>5. NoLeakedSlot'
  <2>1. \A q \in Pubs, x \in Slots : Announcing(q, x) => Announcing(q, x)'
    BY DEF PubSwap, Announcing, TypeOK
  <2>2. \A b \in Accesses : st[b] = "reset"
          => st'[b] = "reset" /\ at'[b] = at[b] /\ todo'[b] = todo[b]
    BY <1>0 DEF MoveAccess, TypeOK
  <2> QED
    BY <2>1, <2>2 DEF NoLeakedSlot, PubSwap, slotVars
<1>6. AcquiresBalance'
  BY <1>0, SameBalance, AccessNames DEF PubSwap, MoveAccess, TypeOK, subVars
<1> QED
  BY <1>1, <1>2, <1>3, <1>4, <1>5, <1>6

\* The destructor frees the entry lock first.
LEMMA PubCloseInv == ASSUME IndInv, NEW p \in Pubs, PubClose(p) PROVE IndInv'
<1> USE DEF IndInv
<1>1. TypeOK'
  BY DEF PubClose, TypeOK, PubPoints, slotVars, subVars, accVars
<1>2. SlotsKnown'
  BY DEF PubClose, SlotsKnown, TypeOK, slotVars, subVars, accVars
<1>3. AccessControl'
  BY DEF PubClose, AccessControl, TypeOK, slotVars, subVars, accVars
<1>4. RefCountExact'
  BY SameHoldersCounts DEF PubClose, slotVars, accVars
<1>5. NoLeakedSlot'
  BY SameSlots DEF PubClose, Announcing, TypeOK, slotVars, accVars
<1>6. AcquiresBalance'
  BY SameBalance DEF PubClose, subVars, accVars
<1> QED
  BY <1>1, <1>2, <1>3, <1>4, <1>5, <1>6

\* ClearAccess on an access that holds nothing changes no count and no slot.
LEMMA ClearFacts ==
  ASSUME TypeOK, RefCountExact, NEW a \in Accesses, st[a] \in {"free", "done"},
         ClearAccess(a), UNCHANGED slotVars
  PROVE  /\ RefCountExact'
         /\ at' \in [Accesses -> Slots \cup {None}]
         /\ st' \in [Accesses -> {"free", "held", "reset", "done"}]
         /\ \A b \in Accesses : st'[b] \in {"held", "reset"} \/ st[b] \in {"held", "reset"}
              => st'[b] = st[b] /\ at'[b] = at[b] /\ todo'[b] = todo[b]
<1>1. /\ at' \in [Accesses -> Slots \cup {None}]
      /\ st' \in [Accesses -> {"free", "held", "reset", "done"}]
      /\ \A b \in Accesses : st'[b] \in {"held", "reset"} \/ st[b] \in {"held", "reset"}
           => st'[b] = st[b] /\ at'[b] = at[b] /\ todo'[b] = todo[b]
  BY DEF ClearAccess, TypeOK
<1>2. RefCountExact'
  BY <1>1, SameHoldersCounts DEF slotVars, TypeOK
<1> QED
  BY <1>1, <1>2

\* The destructor of a publisher ends.
LEMMA PubClosedInv == ASSUME IndInv, NEW p \in Pubs, PubClosed(p) PROVE IndInv'
<1> USE DEF IndInv
<1>0. /\ Prev(p) \in Accesses /\ st[Prev(p)] \in {"free", "done"}
      /\ ClearAccess(Prev(p)) /\ UNCHANGED slotVars
  BY AccessNames DEF PubClosed
<1>1. TypeOK'
  BY <1>0, ClearFacts
     DEF PubClosed, ClearAccess, TypeOK, PubPoints, slotVars, headerVars, subVars
<1>2. SlotsKnown'
  BY <1>0, ClearFacts DEF PubClosed, SlotsKnown, TypeOK, headerVars, subVars
<1>3. AccessControl'
  BY <1>0, AccessNames DEF PubClosed, ClearAccess, AccessControl, TypeOK, subVars
<1>4. RefCountExact'
  BY <1>0, ClearFacts
<1>5. NoLeakedSlot'
  <2>1. \A q \in Pubs, x \in Slots : Announcing(q, x) => Announcing(q, x)'
    BY DEF PubClosed, Announcing, TypeOK
  <2> QED
    BY <2>1, <1>0, ClearFacts DEF NoLeakedSlot, slotVars
<1>6. AcquiresBalance'
  BY <1>0, SameBalance, AccessNames DEF PubClosed, ClearAccess, TypeOK, subVars
<1> QED
  BY <1>1, <1>2, <1>3, <1>4, <1>5, <1>6

-----------------------------------------------------------------------------
(* Wrappers                                                                *)

\* The wrappers of a subscriber can be counted.
LEMMA LiveFinite ==
  \A s : IsFiniteSet(LiveWrappers(s)) /\ Cardinality(LiveWrappers(s)) \in Nat
BY WrappersAssumption, FS_Subset, FS_CardinalityType DEF LiveWrappers

-----------------------------------------------------------------------------
(* Subscriber steps                                                        *)

\* No wrapper exists while the acquires are complete.
LEMMA SubOpenInv == ASSUME IndInv, NEW s \in Subs, SubOpen(s) PROVE IndInv'
<1> USE DEF IndInv
<1>1. TypeOK'
  BY SizesAssumption DEF SubOpen, TypeOK, SubPoints, slotVars, headerVars, pubVars, accVars
<1>2. SlotsKnown'
  BY DEF SubOpen, SlotsKnown, TypeOK, slotVars, headerVars, pubVars, accVars
<1>3. AccessControl'
  BY DEF SubOpen, AccessControl, TypeOK, slotVars, headerVars, pubVars, accVars
<1>4. RefCountExact'
  BY SameHoldersCounts DEF SubOpen, slotVars, accVars
<1>5. NoLeakedSlot'
  BY SameSlots DEF SubOpen, Announcing, slotVars, accVars, pubVars
<1>6. AcquiresBalance'
  <2>1. avail[s] = MaxAcquires
    BY DEF SubOpen, AcquiresBalance
  <2>2. UNCHANGED avail
    BY <2>1 DEF SubOpen, TypeOK
  <2> QED
    BY <2>2, SameBalance DEF SubOpen, TypeOK, accVars
<1> QED
  BY <1>1, <1>2, <1>3, <1>4, <1>5, <1>6

\* fetch_message sees news only after an index was stored.
LEMMA FetchLoadIdInv == ASSUME IndInv, NEW s \in Subs, FetchLoadId(s) PROVE IndInv'
<1> USE DEF IndInv
<1>1. TypeOK'
  BY DEF FetchLoadId, TypeOK, SubPoints, slotVars, headerVars, pubVars, accVars
<1>2. SlotsKnown'
  <2>1. latest \in Slots
    BY DEF FetchLoadId, SlotsKnown, TypeOK
  <2> QED
    BY <2>1 DEF FetchLoadId, SlotsKnown, TypeOK, slotVars, headerVars, pubVars, accVars
<1>3. AccessControl'
  BY DEF FetchLoadId, AccessControl, TypeOK, slotVars, headerVars, pubVars, accVars
<1>4. RefCountExact'
  BY SameHoldersCounts DEF FetchLoadId, slotVars, accVars
<1>5. NoLeakedSlot'
  BY SameSlots DEF FetchLoadId, Announcing, slotVars, accVars, pubVars
<1>6. AcquiresBalance'
  BY SameBalance DEF FetchLoadId, TypeOK, accVars
<1> QED
  BY <1>1, <1>2, <1>3, <1>4, <1>5, <1>6

\* The index fetch_message loads names a slot.
LEMMA FetchLoadIdxInv == ASSUME IndInv, NEW s \in Subs, FetchLoadIdx(s) PROVE IndInv'
<1> USE DEF IndInv
<1>1. TypeOK'
  BY DEF FetchLoadIdx, TypeOK, SubPoints, slotVars, headerVars, pubVars, accVars
<1>2. SlotsKnown'
  BY DEF FetchLoadIdx, SlotsKnown, TypeOK, slotVars, headerVars, pubVars, accVars
<1>3. AccessControl'
  BY DEF FetchLoadIdx, AccessControl, TypeOK, slotVars, headerVars, pubVars, accVars
<1>4. RefCountExact'
  BY SameHoldersCounts DEF FetchLoadIdx, slotVars, accVars
<1>5. NoLeakedSlot'
  BY SameSlots DEF FetchLoadIdx, Announcing, slotVars, accVars, pubVars
<1>6. AcquiresBalance'
  BY SameBalance DEF FetchLoadIdx, TypeOK, accVars
<1> QED
  BY <1>1, <1>2, <1>3, <1>4, <1>5, <1>6

\* fetch_message's unchecked acquire is counted like any other.
LEMMA FetchAcquireInv == ASSUME IndInv, NEW s \in Subs, FetchAcquire(s) PROVE IndInv'
<1> USE DEF IndInv
<1>0. sIdx[s] \in Slots /\ Fetch(s) \in Accesses /\ st[Fetch(s)] = "free"
      /\ AcquireUnsafe(Fetch(s), sIdx[s]) /\ ref[sIdx[s]] \in Nat
  BY AccessNames DEF FetchAcquire, SlotsKnown, AccessControl, TypeOK
<1>1. TypeOK'
  BY <1>0 DEF FetchAcquire, AcquireUnsafe, TypeOK, SubPoints, headerVars, pubVars
<1>2. SlotsKnown'
  BY <1>0 DEF FetchAcquire, AcquireUnsafe, SlotsKnown, TypeOK, headerVars, pubVars
<1>3. AccessControl'
  BY <1>0, AccessNames DEF FetchAcquire, AcquireUnsafe, AccessControl, TypeOK, pubVars
<1>4. RefCountExact'
  BY <1>0, AcquireCounts
<1>5. NoLeakedSlot'
  <2>1. \A x \in Slots : ref[x] > 0 => ref'[x] > 0
    BY <1>0 DEF AcquireUnsafe, TypeOK
  <2>2. \A q \in Pubs, x \in Slots : Announcing(q, x) => Announcing(q, x)'
    BY DEF FetchAcquire, pubVars, Announcing
  <2>3. \A a \in Accesses : st[a] = "reset" => st'[a] = "reset" /\ at'[a] = at[a]
                                               /\ todo'[a] = todo[a]
    BY <1>0 DEF AcquireUnsafe, TypeOK
  <2> QED
    BY <2>1, <2>2, <2>3, <1>0 DEF NoLeakedSlot, AcquireUnsafe
<1>6. AcquiresBalance'
  BY <1>0, AccessNames, SameBalance DEF FetchAcquire, AcquireUnsafe, TypeOK
<1> QED
  BY <1>1, <1>2, <1>3, <1>4, <1>5, <1>6

\* Looking at the value changes only the subscriber's own cursor.
LEMMA FetchCheckInv == ASSUME IndInv, NEW s \in Subs, FetchCheck(s) PROVE IndInv'
<1> USE DEF IndInv
<1>1. TypeOK'
  BY DEF FetchCheck, TypeOK, SubPoints, slotVars, headerVars, pubVars, accVars
<1>2. SlotsKnown'
  BY DEF FetchCheck, SlotsKnown, TypeOK, slotVars, headerVars, pubVars, accVars
<1>3. AccessControl'
  BY DEF FetchCheck, AccessControl, TypeOK, slotVars, headerVars, pubVars, accVars
<1>4. RefCountExact'
  BY SameHoldersCounts DEF FetchCheck, slotVars, accVars
<1>5. NoLeakedSlot'
  BY SameSlots DEF FetchCheck, Announcing, slotVars, accVars, pubVars
<1>6. AcquiresBalance'
  BY SameBalance DEF FetchCheck, TypeOK, accVars
<1> QED
  BY <1>1, <1>2, <1>3, <1>4, <1>5, <1>6

\* An acquire is handed out only when one is left; a wrapper takes over the
\* access of fetch_message.
LEMMA FetchClaimInv == ASSUME IndInv, NEW s \in Subs, FetchClaim(s) PROVE IndInv'
<1> USE DEF IndInv
<1>0. Fetch(s) \in Accesses /\ st[Fetch(s)] = "held" /\ at[Fetch(s)] \in Slots
      /\ spc[s] = "claim" /\ avail[s] \in Int
  BY AccessNames DEF FetchClaim, AccessControl, SlotsKnown, TypeOK
<1>1. CASE avail[s] <= 0
  <2>1. TypeOK'
    BY <1>0, <1>1 DEF FetchClaim, TypeOK, SubPoints, slotVars, headerVars, pubVars, accVars
  <2>2. SlotsKnown'
    BY <1>0, <1>1 DEF FetchClaim, SlotsKnown, TypeOK, slotVars, headerVars, pubVars, accVars
  <2>3. AccessControl'
    BY <1>0, <1>1 DEF FetchClaim, AccessControl, TypeOK, pubVars, accVars
  <2>4. RefCountExact'
    BY <1>1, SameHoldersCounts DEF FetchClaim, slotVars, accVars
  <2>5. NoLeakedSlot'
    BY <1>1, SameSlots DEF FetchClaim, Announcing, slotVars, accVars, pubVars
  <2>6. AcquiresBalance'
    <3>1. \A t \in Subs : LiveWrappers(t)' = LiveWrappers(t)
      BY <1>1 DEF FetchClaim, LiveWrappers, accVars
    <3>2. avail' = [avail EXCEPT ![s] = avail[s] - 1] /\ spc' = [spc EXCEPT ![s] = "unclaim"]
      BY <1>1 DEF FetchClaim
    <3>3. Cardinality(LiveWrappers(s)) + avail[s] = MaxAcquires /\ avail[s] = 0
      BY <1>0, <1>1, LiveFinite, SizesAssumption DEF AcquiresBalance
    <3>4. ASSUME NEW t \in Subs
          PROVE  AcquiresBalance!(t)'
      <4>1. CASE t = s
        BY <4>1, <3>1, <3>2, <3>3, <1>0, LiveFinite, SizesAssumption DEF TypeOK
      <4>2. CASE t # s
        BY <4>2, <3>1, <3>2 DEF AcquiresBalance, TypeOK
      <4> QED
        BY <4>1, <4>2
    <3> QED
      BY <3>4 DEF AcquiresBalance
  <2> QED
    BY <2>1, <2>2, <2>3, <2>4, <2>5, <2>6
<1>2. CASE avail[s] > 0
  <2>0. PICK w \in Wrappers : st[Wrap(s, w)] = "free" /\ MoveAccess(Fetch(s), Wrap(s, w))
    BY <1>0, <1>2 DEF FetchClaim
  <2>w. Wrap(s, w) \in Accesses /\ Wrap(s, w) # Fetch(s)
    BY AccessNames
  <2>e. /\ EndFetch(s) /\ avail' = [avail EXCEPT ![s] = avail[s] - 1]
        /\ UNCHANGED <<slotVars, headerVars, pubVars, sNext>>
    BY <1>0, <1>2 DEF FetchClaim
  <2>1. TypeOK'
    BY <1>0, <2>0, <2>w, <2>e
       DEF MoveAccess, EndFetch, TypeOK, SubPoints, slotVars, headerVars, pubVars
  <2>2. SlotsKnown'
    BY <1>0, <2>0, <2>w, <2>e
       DEF MoveAccess, EndFetch, SlotsKnown, TypeOK, headerVars, pubVars
  <2>3. AccessControl'
    <3>1. \A b \in Accesses \ {Fetch(s), Wrap(s, w)} : st'[b] = st[b]
      BY <2>0, <2>w DEF MoveAccess, TypeOK
    <3>2. st'[Fetch(s)] = "free"
      BY <2>0, <2>w, <1>0 DEF MoveAccess, TypeOK
    <3> QED
      BY <3>1, <3>2, <2>e, AccessNames DEF EndFetch, AccessControl, TypeOK, pubVars
  <2>4. RefCountExact'
    BY <1>0, <2>0, <2>w, <2>e, MoveCounts DEF slotVars
  <2>5. NoLeakedSlot'
    <3>1. \A q \in Pubs, x \in Slots : Announcing(q, x) => Announcing(q, x)'
      BY <2>e DEF pubVars, Announcing
    <3>2. \A b \in Accesses : st[b] = "reset"
            => st'[b] = "reset" /\ at'[b] = at[b] /\ todo'[b] = todo[b]
      BY <1>0, <2>0, <2>w DEF MoveAccess, TypeOK
    <3> QED
      BY <3>1, <3>2, <2>e DEF NoLeakedSlot, slotVars
  <2>6. AcquiresBalance'
    <3>1. \A t \in Subs : t # s => LiveWrappers(t)' = LiveWrappers(t)
      BY <2>0, AccessNames DEF LiveWrappers, MoveAccess, TypeOK
    <3>2. LiveWrappers(s)' = LiveWrappers(s) \cup {w} /\ w \notin LiveWrappers(s)
      BY <2>0, <2>w, <1>0, AccessNames DEF LiveWrappers, MoveAccess, TypeOK
    <3>3. Cardinality(LiveWrappers(s)') = Cardinality(LiveWrappers(s)) + 1
      BY <3>2, LiveFinite, FS_AddElement
    <3>4. Cardinality(LiveWrappers(s)) + avail[s] = MaxAcquires
      BY <1>0, LiveFinite, SizesAssumption DEF AcquiresBalance
    <3>5. ASSUME NEW t \in Subs
          PROVE  AcquiresBalance!(t)'
      <4>1. CASE t = s
        <5>1. spc'[s] = "idle" /\ avail'[s] = avail[s] - 1
          BY <2>e DEF EndFetch, TypeOK
        <5>2. Cardinality(LiveWrappers(s)') + avail'[s] = MaxAcquires
          BY <5>1, <3>3, <3>4, <1>0, LiveFinite, SizesAssumption
        <5>3. avail'[s] >= 0 /\ avail'[s] \in Int
          BY <5>1, <1>0, <1>2
        <5>4. Cardinality(LiveWrappers(s)') \in Nat
          BY <3>3, LiveFinite
        <5> QED
          BY <4>1, <5>1, <5>2, <5>3, <5>4, SizesAssumption
      <4>2. CASE t # s
        BY <4>2, <3>1, <2>e DEF AcquiresBalance, EndFetch, TypeOK
      <4> QED
        BY <4>1, <4>2
    <3> QED
      BY <3>5 DEF AcquiresBalance
  <2> QED
    BY <2>1, <2>2, <2>3, <2>4, <2>5, <2>6
<1> QED
  BY <1>0, <1>1, <1>2

\* A refused fetch gives the borrowed acquire back.
LEMMA FetchUnclaimInv == ASSUME IndInv, NEW s \in Subs, FetchUnclaim(s) PROVE IndInv'
<1> USE DEF IndInv
<1>1. TypeOK'
  BY DEF FetchUnclaim, TypeOK, SubPoints, slotVars, headerVars, pubVars, accVars
<1>2. SlotsKnown'
  BY DEF FetchUnclaim, SlotsKnown, TypeOK, slotVars, headerVars, pubVars, accVars
<1>3. AccessControl'
  BY DEF FetchUnclaim, AccessControl, TypeOK, slotVars, headerVars, pubVars, accVars
<1>4. RefCountExact'
  BY SameHoldersCounts DEF FetchUnclaim, slotVars, accVars
<1>5. NoLeakedSlot'
  BY SameSlots DEF FetchUnclaim, Announcing, slotVars, accVars, pubVars
<1>6. AcquiresBalance'
  <2>1. \A t \in Subs : LiveWrappers(t)' = LiveWrappers(t)
    BY DEF FetchUnclaim, LiveWrappers, accVars
  <2>2. Cardinality(LiveWrappers(s)) + avail[s] + 1 = MaxAcquires /\ avail[s] + 1 >= 0
    BY DEF FetchUnclaim, AcquiresBalance
  <2>3. ASSUME NEW t \in Subs
        PROVE  AcquiresBalance!(t)'
    <3>1. CASE t = s
      BY <3>1, <2>1, <2>2, LiveFinite, SizesAssumption DEF FetchUnclaim, TypeOK
    <3>2. CASE t # s
      BY <3>2, <2>1 DEF FetchUnclaim, AcquiresBalance, TypeOK
    <3> QED
      BY <3>1, <3>2
  <2> QED
    BY <2>3 DEF AcquiresBalance
<1> QED
  BY <1>1, <1>2, <1>3, <1>4, <1>5, <1>6

\* An error return of fetch_message releases its access.
LEMMA FetchDropInv == ASSUME IndInv, NEW s \in Subs, FetchDrop(s) PROVE IndInv'
<1> USE DEF IndInv
<1>0. ReleaseAccess(Fetch(s)) /\ Fetch(s) \in Accesses /\ spc[s] = "drop"
  BY AccessNames DEF FetchDrop
<1>1. /\ TypeOK' /\ SlotsKnown' /\ RefCountExact' /\ NoLeakedSlot'
      /\ AcquiresBalance'
  BY <1>0, ReleaseInv DEF FetchDrop
<1>2. AccessControl'
  <2>1. \A b \in Accesses \ {Fetch(s)} : st'[b] = st[b]
    BY <1>0 DEF ReleaseAccess, TypeOK
  <2>2. st'[Fetch(s)] # "free"
    BY <1>0 DEF ReleaseAccess, TypeOK
  <2>3. UNCHANGED <<ppc, spc>>
    BY DEF FetchDrop, pubVars, subVars
  <2> QED
    BY <2>1, <2>2, <2>3, <1>0, AccessNames DEF AccessControl
<1> QED
  BY <1>1, <1>2

\* fetch_message returns without a message.
LEMMA FetchReturnInv == ASSUME IndInv, NEW s \in Subs, FetchReturn(s) PROVE IndInv'
<1> USE DEF IndInv
<1>0. /\ Fetch(s) \in Accesses /\ st[Fetch(s)] = "done" /\ spc[s] = "drop"
      /\ ClearAccess(Fetch(s)) /\ UNCHANGED slotVars /\ EndFetch(s)
  BY AccessNames DEF FetchReturn
<1>1. TypeOK'
  BY <1>0, ClearFacts
     DEF FetchReturn, EndFetch, ClearAccess, TypeOK, SubPoints, slotVars, headerVars, pubVars
<1>2. SlotsKnown'
  BY <1>0, ClearFacts DEF FetchReturn, EndFetch, SlotsKnown, TypeOK, headerVars, pubVars
<1>3. AccessControl'
  <2>1. \A b \in Accesses \ {Fetch(s)} : st'[b] = st[b]
    BY <1>0 DEF ClearAccess, TypeOK
  <2>2. st'[Fetch(s)] = "free"
    BY <1>0 DEF ClearAccess, TypeOK
  <2> QED
    BY <2>1, <2>2, <1>0, AccessNames DEF FetchReturn, EndFetch, AccessControl, TypeOK, pubVars
<1>4. RefCountExact'
  BY <1>0, ClearFacts
<1>5. NoLeakedSlot'
  <2>1. \A q \in Pubs, x \in Slots : Announcing(q, x) => Announcing(q, x)'
    BY DEF FetchReturn, Announcing, pubVars
  <2> QED
    BY <2>1, <1>0, ClearFacts DEF NoLeakedSlot, slotVars
<1>6. AcquiresBalance'
  <2>1. \A t \in Subs, w \in Wrappers : st'[Wrap(t, w)] = st[Wrap(t, w)]
    BY <1>0, AccessNames DEF ClearAccess, TypeOK
  <2> QED
    BY <2>1, <1>0, SameBalance DEF FetchReturn, EndFetch, TypeOK
<1> QED
  BY <1>1, <1>2, <1>3, <1>4, <1>5, <1>6

\* A wrapper's destructor releases its access; the acquire stays taken.
LEMMA WrapperReleaseInv ==
  ASSUME IndInv, NEW s \in Subs, NEW w \in Wrappers, WrapperRelease(s, w)
  PROVE  IndInv'
<1> USE DEF IndInv
<1>0. ReleaseAccess(Wrap(s, w)) /\ Wrap(s, w) \in Accesses
  BY AccessNames DEF WrapperRelease
<1>1. /\ TypeOK' /\ SlotsKnown' /\ RefCountExact' /\ NoLeakedSlot'
      /\ AcquiresBalance'
  BY <1>0, ReleaseInv DEF WrapperRelease
<1>2. AccessControl'
  <2>1. \A b \in Accesses \ {Wrap(s, w)} : st'[b] = st[b]
    BY <1>0 DEF ReleaseAccess, TypeOK
  <2>2. UNCHANGED <<ppc, spc>>
    BY DEF WrapperRelease, pubVars, subVars
  <2> QED
    BY <2>1, <2>2, AccessNames DEF AccessControl
<1> QED
  BY <1>1, <1>2

\* A wrapper's destructor gives back exactly one acquire.
LEMMA WrapperReturnInv ==
  ASSUME IndInv, NEW s \in Subs, NEW w \in Wrappers, WrapperReturn(s, w)
  PROVE  IndInv'
<1> USE DEF IndInv
<1>0. /\ Wrap(s, w) \in Accesses /\ st[Wrap(s, w)] = "done"
      /\ ClearAccess(Wrap(s, w)) /\ UNCHANGED slotVars
      /\ avail' = [avail EXCEPT ![s] = avail[s] + 1] /\ avail[s] \in Int
  BY AccessNames DEF WrapperReturn, TypeOK
<1>1. TypeOK'
  BY <1>0, ClearFacts
     DEF WrapperReturn, ClearAccess, TypeOK, slotVars, headerVars, pubVars
<1>2. SlotsKnown'
  BY <1>0, ClearFacts DEF WrapperReturn, SlotsKnown, TypeOK, headerVars, pubVars
<1>3. AccessControl'
  <2>1. \A b \in Accesses \ {Wrap(s, w)} : st'[b] = st[b]
    BY <1>0 DEF ClearAccess, TypeOK
  <2> QED
    BY <2>1, AccessNames DEF WrapperReturn, AccessControl, pubVars
<1>4. RefCountExact'
  BY <1>0, ClearFacts
<1>5. NoLeakedSlot'
  <2>1. \A q \in Pubs, x \in Slots : Announcing(q, x) => Announcing(q, x)'
    BY DEF WrapperReturn, Announcing, pubVars
  <2> QED
    BY <2>1, <1>0, ClearFacts DEF NoLeakedSlot, slotVars
<1>6. AcquiresBalance'
  <2>1. \A t \in Subs : t # s => LiveWrappers(t)' = LiveWrappers(t)
    BY <1>0, AccessNames DEF LiveWrappers, ClearAccess, TypeOK
  <2>2. LiveWrappers(s)' = LiveWrappers(s) \ {w} /\ w \in LiveWrappers(s)
    BY <1>0, AccessNames DEF LiveWrappers, ClearAccess, TypeOK
  <2>3. Cardinality(LiveWrappers(s)') = Cardinality(LiveWrappers(s)) - 1
    BY <2>2, LiveFinite, FS_RemoveElement
  <2>4. Cardinality(LiveWrappers(s)) > 0
    BY <2>2, LiveFinite, FS_EmptySet
  <2>5. spc[s] # "closed"
    BY <2>4, LiveFinite, SizesAssumption DEF AcquiresBalance
  <2> QED
    BY <2>1, <2>3, <2>5, <1>0, LiveFinite DEF WrapperReturn, AcquiresBalance, TypeOK
<1> QED
  BY <1>1, <1>2, <1>3, <1>4, <1>5, <1>6

\* A subscriber without wrappers has all its acquires.
LEMMA SubCloseInv == ASSUME IndInv, NEW s \in Subs, SubClose(s) PROVE IndInv'
<1> USE DEF IndInv
<1>1. TypeOK'
  BY DEF SubClose, TypeOK, SubPoints, slotVars, headerVars, pubVars, accVars
<1>2. SlotsKnown'
  BY DEF SubClose, SlotsKnown, TypeOK, slotVars, headerVars, pubVars, accVars
<1>3. AccessControl'
  BY DEF SubClose, AccessControl, TypeOK, slotVars, headerVars, pubVars, accVars
<1>4. RefCountExact'
  BY SameHoldersCounts DEF SubClose, slotVars, accVars
<1>5. NoLeakedSlot'
  BY SameSlots DEF SubClose, Announcing, slotVars, accVars, pubVars
<1>6. AcquiresBalance'
  <2>1. \A t \in Subs : LiveWrappers(t)' = LiveWrappers(t)
    BY DEF SubClose, LiveWrappers, accVars
  <2>2. LiveWrappers(s) = {}
    BY DEF SubClose, LiveWrappers
  <2>3. avail[s] = MaxAcquires
    <3>1. Cardinality(LiveWrappers(s)) = 0
      BY <2>2, FS_EmptySet
    <3>2. Cardinality(LiveWrappers(s)) + avail[s] + 0 = MaxAcquires
      BY DEF SubClose, AcquiresBalance
    <3> QED
      BY <3>1, <3>2, SizesAssumption DEF TypeOK
  <2> QED
    BY <2>1, <2>3 DEF SubClose, AcquiresBalance, TypeOK
<1> QED
  BY <1>1, <1>2, <1>3, <1>4, <1>5, <1>6

-----------------------------------------------------------------------------
(* The theorems                                                            *)

\* The initial state satisfies the invariant.
LEMMA InitInv == Init => IndInv
<1> SUFFICES ASSUME Init PROVE IndInv
  OBVIOUS
<1>1. TypeOK
  BY SizesAssumption DEF Init, TypeOK, PubPoints, SubPoints, Entries
<1>2. SlotsKnown
  BY DEF Init, SlotsKnown
<1>3. AccessControl
  BY AccessNames DEF Init, AccessControl
<1>4. RefCountExact
  <2>1. \A x \in Slots : Holders(x) = {}
    BY DEF Init, Holders
  <2> QED
    BY <2>1, FS_EmptySet DEF Init, RefCountExact
<1>5. NoLeakedSlot
  BY DEF Init, NoLeakedSlot
<1>6. AcquiresBalance
  <2>1. \A s \in Subs : LiveWrappers(s) = {}
    BY AccessNames DEF Init, LiveWrappers
  <2>2. \A s \in Subs : Cardinality(LiveWrappers(s)) = 0
    BY <2>1, FS_EmptySet
  <2> QED
    BY <2>2, SizesAssumption DEF Init, AcquiresBalance
<1> QED
  BY <1>1, <1>2, <1>3, <1>4, <1>5, <1>6 DEF IndInv

\* Every step keeps the invariant.
LEMMA NextInv == IndInv /\ [Next]_vars => IndInv'
<1> SUFFICES ASSUME IndInv, [Next]_vars PROVE IndInv'
  OBVIOUS
<1>1. ASSUME NEW p \in Pubs, PubOpen(p) \/ PubBegin(p) \/ PubStep(p) \/ PubClose(p)
      PROVE  IndInv'
  BY <1>1, AccessNames, PubOpenInv, PubBeginInv, PubCloseInv, PubScanInv,
     PubLatestInv, PubNotifyInv, PubAcquireInv, PubReleasePrevInv, PubSwapInv,
     PubClosedInv, PubEmplaceInv, ResetStoreInv
     DEF PubStep
<1>2. ASSUME NEW s \in Subs,
             SubOpen(s) \/ FetchLoadId(s) \/ FetchStep(s) \/ SubClose(s)
      PROVE  IndInv'
  BY <1>2, AccessNames, SubOpenInv, FetchLoadIdInv, SubCloseInv, FetchLoadIdxInv,
     FetchAcquireInv, FetchCheckInv, FetchClaimInv, FetchUnclaimInv,
     FetchDropInv, FetchReturnInv, ResetStoreInv
     DEF FetchStep
<1>3. ASSUME NEW s \in Subs, NEW w \in Wrappers,
             WrapperRelease(s, w) \/ WrapperStep(s, w)
      PROVE  IndInv'
  BY <1>3, AccessNames, WrapperReleaseInv, WrapperReturnInv, ResetStoreInv
     DEF WrapperStep
<1>4. CASE UNCHANGED vars
  <2> USE <1>4 DEF vars, IndInv
  <2>1. TypeOK' /\ SlotsKnown' /\ AccessControl'
    BY DEF TypeOK, SlotsKnown, AccessControl
  <2>2. RefCountExact'
    BY SameHoldersCounts
  <2>3. NoLeakedSlot'
    BY SameSlots DEF Announcing
  <2>4. AcquiresBalance'
    BY SameBalance
  <2> QED
    BY <2>1, <2>2, <2>3, <2>4
<1> QED
  BY <1>1, <1>2, <1>3, <1>4 DEF Next, Session

\* The limit on concurrent acquires follows from the balance: wrappers that
\* hold a message are among those that owe an acquire.
LEMMA BalanceGivesLimit ==
  IndInv => /\ \A s \in Subs : Cardinality(LiveWrappers(s)) <= MaxAcquires
            /\ AcquireLimit
<1> SUFFICES ASSUME IndInv, NEW s \in Subs
             PROVE  /\ Cardinality(LiveWrappers(s)) <= MaxAcquires
                    /\ Cardinality(HoldingWrappers(s)) <= MaxAcquires
  BY DEF AcquireLimit
<1>1. Cardinality(LiveWrappers(s)) <= MaxAcquires
  BY LiveFinite, SizesAssumption DEF IndInv, AcquiresBalance, TypeOK
<1>2. HoldingWrappers(s) \subseteq LiveWrappers(s)
  BY DEF HoldingWrappers, LiveWrappers
<1>3. /\ Cardinality(HoldingWrappers(s)) <= Cardinality(LiveWrappers(s))
      /\ Cardinality(HoldingWrappers(s)) \in Nat
  BY <1>2, LiveFinite, FS_Subset, FS_CardinalityType
<1> QED
  BY <1>1, <1>3, LiveFinite, SizesAssumption

\* All of the invariant holds in every reachable state, for any number of
\* publishers, subscribers, slots and messages.
THEOREM Invariance == Spec => []IndInv
BY InitInv, NextInv, PTL DEF Spec

\* Counters keep their types: no unsigned counter underflows.
THEOREM TypeCorrect == Spec => []TypeOK
<1>1. IndInv => TypeOK
  BY DEF IndInv
<1> QED
  BY <1>1, Invariance, PTL

\* Reference counters are exact under every interleaving.
THEOREM ReferencesCounted == Spec => []RefCountExact
<1>1. IndInv => RefCountExact
  BY DEF IndInv
<1> QED
  BY <1>1, Invariance, PTL

\* No slot of the pool is ever lost to the publisher.
THEOREM SlotsNotLeaked == Spec => []NoLeakedSlot
<1>1. IndInv => NoLeakedSlot
  BY DEF IndInv
<1> QED
  BY <1>1, Invariance, PTL

\* A subscriber never holds more messages than max_concurrent_acquires.
THEOREM AcquiresLimited == Spec => []AcquireLimit
BY BalanceGivesLimit, Invariance, PTL

-----------------------------------------------------------------------------
(* Entries and their pools                                                 *)

\* An open publisher holds the lock of its entry, everything it publishes or
\* keeps lies in the pool of that entry, and a destroyed one keeps nothing.
Owned ==
  \A p \in Pubs :
    /\ ppc[p] \notin {"closed", "closing"} => owner[entry[p]] = p
    /\ ppc[p] = "closed" => st[Prev(p)] = "free"
    /\ ppc[p] \in {"emplace", "latest", "notify", "acquire"} => pslot[p][1] = entry[p]
    /\ st[New(p)] = "held" => at[New(p)][1] = entry[p]
    /\ st[Prev(p)] = "held" => at[Prev(p)][1] = entry[p]

Open == {t \in Subs : spc[t] # "closed"}
SubsLimited == Cardinality(Open) <= MaxSubs

SubStep(s) ==
  \/ SubOpen(s) \/ FetchLoadId(s) \/ FetchStep(s) \/ SubClose(s)
  \/ \E w \in Wrappers : WrapperRelease(s, w) \/ WrapperStep(s, w)

\* Subscribers leave the publishers, their accesses and the header alone.
LEMMA SubFrame ==
  ASSUME IndInv, NEW s \in Subs, SubStep(s)
  PROVE  /\ UNCHANGED <<headerVars, pubVars>>
         /\ \A p \in Pubs : /\ st'[New(p)] = st[New(p)] /\ at'[New(p)] = at[New(p)]
                            /\ st'[Prev(p)] = st[Prev(p)] /\ at'[Prev(p)] = at[Prev(p)]
<1> USE AccessNames DEF IndInv, TypeOK, accVars
<1>1. CASE SubOpen(s) \/ SubClose(s) \/ FetchLoadId(s) \/ FetchLoadIdx(s) \/ FetchCheck(s)
           \/ FetchUnclaim(s)
  BY <1>1 DEF SubOpen, SubClose, FetchLoadId, FetchLoadIdx, FetchCheck, FetchUnclaim
<1>2. CASE FetchAcquire(s)
  BY <1>2 DEF FetchAcquire, AcquireUnsafe
<1>3. CASE FetchClaim(s)
  BY <1>3 DEF FetchClaim, MoveAccess
<1>4. CASE FetchDrop(s)
  BY <1>4 DEF FetchDrop, ReleaseAccess
<1>5. CASE FetchReturn(s)
  BY <1>5 DEF FetchReturn, ClearAccess
<1>6. ASSUME NEW w \in Wrappers, WrapperRelease(s, w)
      PROVE  /\ UNCHANGED <<headerVars, pubVars>>
             /\ \A p \in Pubs : /\ st'[New(p)] = st[New(p)] /\ at'[New(p)] = at[New(p)]
                                /\ st'[Prev(p)] = st[Prev(p)] /\ at'[Prev(p)] = at[Prev(p)]
  BY <1>6 DEF WrapperRelease, ReleaseAccess
<1>7. ASSUME NEW w \in Wrappers, WrapperReturn(s, w)
      PROVE  /\ UNCHANGED <<headerVars, pubVars>>
             /\ \A p \in Pubs : /\ st'[New(p)] = st[New(p)] /\ at'[New(p)] = at[New(p)]
                                /\ st'[Prev(p)] = st[Prev(p)] /\ at'[Prev(p)] = at[Prev(p)]
  BY <1>7 DEF WrapperReturn, ClearAccess
<1>8. ASSUME NEW a \in Accesses, NEW f \in Stores, ResetStore(a, f),
             \A p \in Pubs : a # New(p) /\ a # Prev(p)
      PROVE  /\ UNCHANGED <<headerVars, pubVars>>
             /\ \A p \in Pubs : /\ st'[New(p)] = st[New(p)] /\ at'[New(p)] = at[New(p)]
                                /\ st'[Prev(p)] = st[Prev(p)] /\ at'[Prev(p)] = at[Prev(p)]
  BY <1>8 DEF ResetStore
<1>9. \A f \in Stores : ResetStore(Fetch(s), f) =>
        /\ UNCHANGED <<headerVars, pubVars>>
        /\ \A p \in Pubs : /\ st'[New(p)] = st[New(p)] /\ at'[New(p)] = at[New(p)]
                           /\ st'[Prev(p)] = st[Prev(p)] /\ at'[Prev(p)] = at[Prev(p)]
  BY <1>8
<1>10. \A w \in Wrappers, f \in Stores : ResetStore(Wrap(s, w), f) =>
        /\ UNCHANGED <<headerVars, pubVars>>
        /\ \A p \in Pubs : /\ st'[New(p)] = st[New(p)] /\ at'[New(p)] = at[New(p)]
                           /\ st'[Prev(p)] = st[Prev(p)] /\ at'[Prev(p)] = at[Prev(p)]
  BY <1>8
<1> QED
  BY <1>1, <1>2, <1>3, <1>4, <1>5, <1>6, <1>7, <1>9, <1>10 DEF SubStep, FetchStep, WrapperStep

LEMMA OwnedSub == ASSUME IndInv, Owned, NEW s \in Subs, SubStep(s) PROVE Owned'
BY SubFrame DEF Owned, headerVars, pubVars

LEMMA OwnedPub ==
  ASSUME IndInv, Owned, NEW p \in Pubs,
         PubOpen(p) \/ PubBegin(p) \/ PubStep(p) \/ PubClose(p)
  PROVE  Owned'
<1> USE AccessNames DEF IndInv, TypeOK, Owned, headerVars, pubVars, accVars
<1>1. CASE PubOpen(p)
  <2>1. st[Prev(p)] = "free" /\ st[New(p)] = "free"
    BY <1>1 DEF PubOpen, AccessControl
  <2>2. PICK e \in Entries : /\ owner[e] = None /\ owner' = [owner EXCEPT ![e] = p]
                             /\ entry' = [entry EXCEPT ![p] = e]
    BY <1>1 DEF PubOpen
  <2>3. \A q \in Pubs : ppc[q] \notin {"closed", "closing"} => entry[q] # e
    BY <2>2, NoneAssumption
  <2> QED BY <1>1, <2>1, <2>2, <2>3 DEF PubOpen
<1>2. CASE PubBegin(p)
  BY <1>2 DEF PubBegin
<1>3. CASE PubScan(p)
  BY <1>3 DEF PubScan
<1>4. ASSUME NEW f \in Stores, PubEmplace(p, f) PROVE Owned'
  BY <1>4 DEF PubEmplace
<1>5. CASE PubLatest(p)
  BY <1>5 DEF PubLatest
<1>6. CASE PubNotify(p)
  BY <1>6 DEF PubNotify
<1>7. CASE PubAcquire(p)
  BY <1>7 DEF PubAcquire, AcquireUnsafe
<1>8. CASE PubReleasePrev(p)
  BY <1>8 DEF PubReleasePrev, ReleaseAccess
<1>9. CASE PubSwap(p)
  BY <1>9 DEF PubSwap, MoveAccess
<1>10. CASE PubClose(p)
  BY <1>10 DEF PubClose
<1>11. CASE PubClosed(p)
  BY <1>11 DEF PubClosed, ClearAccess
<1>12. ASSUME NEW f \in Stores, ResetStore(Prev(p), f) PROVE Owned'
  BY <1>12 DEF ResetStore
<1> QED
  BY <1>1, <1>2, <1>3, <1>4, <1>5, <1>6, <1>7, <1>8, <1>9, <1>10, <1>11, <1>12 DEF PubStep

\* max_subscribers bounds the subscribers that are open.
LEMMA LimitedSub ==
  ASSUME IndInv, SubsLimited, NEW s \in Subs, SubStep(s) PROVE SubsLimited'
<1>1. IsFiniteSet(Open) /\ Cardinality(Open) \in Nat
  BY PubsAssumption, FS_Subset, FS_CardinalityType DEF Open
<1>2. CASE SubOpen(s)
  <2>1. Open' = Open \cup {s} /\ Cardinality(Open) < MaxSubs
    BY <1>2 DEF SubOpen, Open, IndInv, TypeOK
  <2>2. Cardinality(Open \cup {s}) = Cardinality(Open)
         \/ Cardinality(Open \cup {s}) = Cardinality(Open) + 1
    BY <1>1, FS_AddElement
  <2> QED
    BY <1>1, <2>1, <2>2, SizesAssumption DEF SubsLimited
<1>3. CASE ~SubOpen(s)
  <2>1. /\ \A t \in Subs \ {s} : spc'[t] = spc[t]
        /\ spc'[s] # "closed" => spc[s] # "closed"
    <3> USE DEF IndInv, TypeOK, subVars, EndFetch
    <3>1. CASE SubClose(s) \/ FetchLoadId(s) \/ FetchLoadIdx(s) \/ FetchAcquire(s)
               \/ FetchCheck(s) \/ FetchUnclaim(s)
      BY <3>1 DEF SubClose, FetchLoadId, FetchLoadIdx, FetchAcquire, FetchCheck, FetchUnclaim
    <3>2. CASE FetchClaim(s) \/ FetchDrop(s) \/ FetchReturn(s)
      BY <3>2 DEF FetchClaim, FetchDrop, FetchReturn
    <3>3. ASSUME NEW w \in Wrappers, WrapperRelease(s, w) \/ WrapperReturn(s, w)
          PROVE  spc' = spc
      BY <3>3 DEF WrapperRelease, WrapperReturn
    <3>4. ASSUME NEW a \in Accesses, NEW f \in Stores, ResetStore(a, f) PROVE spc' = spc
      BY <3>4 DEF ResetStore
    <3> QED
      BY <1>3, <3>1, <3>2, <3>3, <3>4, AccessNames DEF SubStep, FetchStep, WrapperStep
  <2>2. Open' \subseteq Open
    BY <2>1 DEF Open
  <2>3. Cardinality(Open') <= Cardinality(Open) /\ Cardinality(Open') \in Nat
    BY <1>1, <2>2, FS_Subset, FS_CardinalityType
  <2> QED
    BY <1>1, <2>3, SizesAssumption DEF SubsLimited
<1> QED
  BY <1>2, <1>3

LEMMA LimitedPub ==
  ASSUME SubsLimited, NEW p \in Pubs, PubOpen(p) \/ PubBegin(p) \/ PubStep(p) \/ PubClose(p)
  PROVE  SubsLimited'
<1>1. spc' = spc
  BY DEF PubStep, PubOpen, PubBegin, PubScan, PubEmplace, PubLatest, PubNotify, PubAcquire,
     PubReleasePrev, PubSwap, PubClose, PubClosed, ResetStore, subVars
<1> QED
  BY <1>1 DEF SubsLimited, Open

\* Publishers keep to the pool of the entry they have locked, and no more
\* than max_subscribers subscribers are open at once.
THEOREM EntriesOwned == Spec => [](Owned /\ SubsLimited)
<1>1. Init => Owned /\ SubsLimited
  <2> SUFFICES ASSUME Init PROVE Owned /\ SubsLimited
    OBVIOUS
  <2>1. Open = {}
    BY DEF Init, Open
  <2>2. SubsLimited
    BY <2>1, FS_EmptySet, SizesAssumption DEF SubsLimited
  <2>3. Owned
    BY AccessNames DEF Init, Owned
  <2> QED
    BY <2>2, <2>3
<1>2. IndInv /\ Owned /\ SubsLimited /\ [Next]_vars => (Owned /\ SubsLimited)'
  <2> SUFFICES ASSUME IndInv, Owned, SubsLimited, [Next]_vars PROVE Owned' /\ SubsLimited'
    OBVIOUS
  <2>1. ASSUME NEW p \in Pubs, PubOpen(p) \/ PubBegin(p) \/ PubStep(p) \/ PubClose(p)
        PROVE  Owned' /\ SubsLimited'
    BY <2>1, OwnedPub, LimitedPub
  <2>2. ASSUME NEW s \in Subs, SubStep(s) PROVE Owned' /\ SubsLimited'
    BY <2>2, OwnedSub, LimitedSub
  <2>3. CASE UNCHANGED vars
    BY <2>3 DEF vars, Owned, SubsLimited, Open
  <2> QED
    BY <2>1, <2>2, <2>3 DEF Next, Session, SubStep
<1> QED
  BY <1>1, <1>2, Invariance, PTL DEF Spec

-----------------------------------------------------------------------------
(* The size of a pool                                                      *)

\* The members of a set with at most n members can be numbered 1 to n.
LEMMA Ranking ==
  ASSUME NEW S, IsFiniteSet(S), NEW n \in Nat, Cardinality(S) <= n
  PROVE  \E g \in [S -> 1 .. n] : \A x, y \in S : g[x] = g[y] => x = y
<1>1. PICK m \in Nat : ExistsBijection(1 .. m, S)
  BY FS_NatBijection
<1>2. m <= n
  BY <1>1, FS_CountingElements
<1>3. PICK b \in Bijection(1 .. m, S) : TRUE
  BY <1>1 DEF ExistsBijection
<1>4. \A x \in S : \E k \in 1 .. m : b[k] = x
  BY <1>3 DEF Bijection, Surjection
<1> DEFINE g == [x \in S |-> CHOOSE k \in 1 .. m : b[k] = x]
<1>5. \A x \in S : g[x] \in 1 .. m /\ b[g[x]] = x
  BY <1>4
<1>6. g \in [S -> 1 .. n]
  BY <1>2, <1>5
<1> HIDE DEF g
<1>7. \A x, y \in S : g[x] = g[y] => x = y
  BY <1>5
<1> QED
  BY <1>6, <1>7

\* Subscribers together keep at most max_subscribers * max_concurrent_acquires
\* messages: a wrapper is known by the number of its subscriber and its own.
HeldWrappers == {a \in Subs \X Wrappers : st[a] = "held"}

LEMMA WrappersBounded ==
  ASSUME IndInv, SubsLimited
  PROVE  IsFiniteSet(HeldWrappers) /\ Cardinality(HeldWrappers) <= MaxSubs * MaxAcquires
<1>1. /\ IsFiniteSet(Open) /\ Cardinality(Open) <= MaxSubs
      /\ IsFiniteSet(Subs) /\ IsFiniteSet(Wrappers)
  BY PubsAssumption, WrappersAssumption, FS_Subset DEF Open, SubsLimited
<1>2. IsFiniteSet(HeldWrappers)
  <2>1. IsFiniteSet(Subs \X Wrappers)
    BY <1>1, FS_Product
  <2> QED
    BY <2>1, FS_Subset DEF HeldWrappers
<1>3. \A s \in Subs : Cardinality(LiveWrappers(s)) <= MaxAcquires /\ IsFiniteSet(LiveWrappers(s))
  BY BalanceGivesLimit, LiveFinite
<1>4. ASSUME NEW a \in HeldWrappers
      PROVE  a[1] \in Open /\ a[2] \in LiveWrappers(a[1]) /\ a = <<a[1], a[2]>>
  <2>1. a[1] \in Subs /\ a[2] \in Wrappers /\ a = <<a[1], a[2]>> /\ st[a] = "held"
    BY DEF HeldWrappers
  <2>2. a[2] \in LiveWrappers(a[1])
    BY <2>1 DEF LiveWrappers, Wrap
  <2>3. Cardinality(LiveWrappers(a[1])) # 0
    BY <2>2, LiveFinite, FS_EmptySet
  <2>4. spc[a[1]] # "closed"
    BY <2>1, <2>3, LiveFinite, SizesAssumption DEF IndInv, AcquiresBalance
  <2> QED
    BY <2>1, <2>2, <2>4 DEF Open
<1>5. PICK num \in [Open -> 1 .. MaxSubs] : \A s, t \in Open : num[s] = num[t] => s = t
  BY <1>1, Ranking, SizesAssumption
<1> DEFINE IsRank(g, s) == /\ g \in [LiveWrappers(s) -> 1 .. MaxAcquires]
                           /\ \A v, w \in LiveWrappers(s) : g[v] = g[w] => v = w
           rank == [s \in Subs |-> CHOOSE g : IsRank(g, s)]
<1>6. \A s \in Subs : IsRank(rank[s], s)
  <2> SUFFICES ASSUME NEW s \in Subs PROVE IsRank(rank[s], s)
    OBVIOUS
  <2>1. \E g : IsRank(g, s)
    BY <1>3, Ranking, SizesAssumption
  <2>2. IsRank(CHOOSE g : IsRank(g, s), s)
    BY <2>1
  <2> QED
    BY <2>2
<1> HIDE DEF rank
<1> DEFINE Places == (1 .. MaxSubs) \X (1 .. MaxAcquires)
           place == [a \in HeldWrappers |-> <<num[a[1]], rank[a[1]][a[2]]>>]
<1>7. ASSUME NEW a \in HeldWrappers PROVE place[a] \in Places
  <2>1. num[a[1]] \in 1 .. MaxSubs /\ a[1] \in Subs
    BY <1>4, <1>5 DEF Open
  <2>2. rank[a[1]][a[2]] \in 1 .. MaxAcquires
    BY <1>4, <1>6, <2>1
  <2> QED
    BY <2>1, <2>2
<1>8. ASSUME NEW a \in HeldWrappers, NEW b \in HeldWrappers, place[a] = place[b] PROVE a = b
  <2>1. num[a[1]] = num[b[1]] /\ rank[a[1]][a[2]] = rank[b[1]][b[2]]
    BY <1>8
  <2>2. a[1] = b[1] /\ a[1] \in Subs
    BY <1>4, <1>5, <2>1 DEF Open
  <2>3. a[2] = b[2]
    BY <1>4, <1>6, <2>1, <2>2
  <2> QED
    BY <1>4, <2>2, <2>3
<1>9. IsFiniteSet(Places) /\ Cardinality(Places) = MaxSubs * MaxAcquires
  <2>1. /\ IsFiniteSet(1 .. MaxSubs) /\ Cardinality(1 .. MaxSubs) = MaxSubs
        /\ IsFiniteSet(1 .. MaxAcquires) /\ Cardinality(1 .. MaxAcquires) = MaxAcquires
    BY FS_Interval, SizesAssumption
  <2>2. /\ IsFiniteSet(Places)
        /\ Cardinality(Places) = Cardinality(1 .. MaxSubs) * Cardinality(1 .. MaxAcquires)
    BY <2>1, FS_Product, Zenon
  <2> QED
    BY <2>1, <2>2
<1>10. place \in [HeldWrappers -> Places]
  BY <1>7
<1> HIDE DEF place, Places
<1>11. ~(Cardinality(Places) < Cardinality(HeldWrappers))
  BY <1>2, <1>8, <1>9, <1>10, FS_PigeonHole
<1>12. Cardinality(HeldWrappers) \in Nat /\ Cardinality(Places) \in Nat
  BY <1>2, <1>9, FS_CardinalityType
<1> QED
  BY <1>2, <1>9, <1>11, <1>12

\* While all other calls have returned, a publisher that searches has nothing
\* in its pool but its previous message and what subscribers keep.
LEMMA KeptInPool ==
  ASSUME IndInv, Owned, Quiet, NEW p \in Pubs, ppc[p] = "scan",
         NEW a \in Accesses, st[a] = "held", at[a][1] = entry[p]
  PROVE  a \in {Prev(p)} \cup HeldWrappers
<1>1. ASSUME NEW q \in Pubs, a = New(q) PROVE FALSE
  BY <1>1 DEF IndInv, AccessControl, Quiet
<1>2. ASSUME NEW q \in Pubs, a = Prev(q) PROVE q = p
  <2>1. ppc[q] # "closed" /\ at[a][1] = entry[q]
    BY <1>2 DEF Owned
  <2>2. owner[entry[q]] = q /\ owner[entry[p]] = p
    BY <2>1 DEF Owned, Quiet
  <2> QED
    BY <2>1, <2>2
<1>3. ASSUME NEW s \in Subs, a = Fetch(s) PROVE FALSE
  BY <1>3 DEF IndInv, AccessControl, Quiet
<1>4. \/ \E q \in Pubs : a = New(q) \/ a = Prev(q)
      \/ \E s \in Subs : a = Fetch(s)
      \/ a \in Subs \X Wrappers
  BY DEF Accesses, New, Prev, Fetch
<1> QED
  BY <1>1, <1>2, <1>3, <1>4 DEF HeldWrappers

\* per_publisher_pool_size reserves max_subscribers * max_concurrent_acquires
\* slots and two more, rounded up: whatever subscribers keep, a publisher that
\* searches while no other call is under way has a slot to find.
THEOREM PoolSufficesHolds ==
  ASSUME PoolSize >= MaxSubs * MaxAcquires + 2
  PROVE  Spec => []PoolSuffices
<1>1. IndInv /\ Owned /\ SubsLimited => PoolSuffices
  <2> SUFFICES ASSUME IndInv, Owned, SubsLimited, NEW p \in Pubs, Quiet, ppc[p] = "scan",
                      \A i \in 0 .. PoolSize - 1 : mid[<<entry[p], i>>] # None
               PROVE  FALSE
    BY DEF PoolSuffices
  <2> DEFINE I == 0 .. PoolSize - 1
             K == {Prev(p)} \cup HeldWrappers
             Keeps(a, i) == st[a] = "held" /\ at[a] = <<entry[p], i>>
             keeper == [i \in I |-> CHOOSE a \in Accesses : Keeps(a, i)]
  <2>1. \A i \in I : \E a \in Accesses : Keeps(a, i)
    <3> SUFFICES ASSUME NEW i \in I PROVE Holders(<<entry[p], i>>) # {}
      BY DEF Holders
    <3>1. <<entry[p], i>> \in Slots
      BY DEF IndInv, TypeOK, Slots
    <3>2. ref[<<entry[p], i>>] > 0
      BY <3>1 DEF IndInv, NoLeakedSlot, Announcing, Quiet
    <3>3. Cardinality(Holders(<<entry[p], i>>)) > 0
      BY <3>1, <3>2 DEF IndInv, RefCountExact
    <3>4. Cardinality({}) = 0
      BY FS_EmptySet
    <3> QED
      BY <3>3, <3>4
  <2>2. \A i \in I : keeper[i] \in Accesses /\ Keeps(keeper[i], i)
    BY <2>1
  <2>3. keeper \in [I -> K]
    <3>1. \A i \in I : keeper[i] \in K
      BY <2>2, KeptInPool
    <3> QED
      BY <3>1
  <2> HIDE DEF keeper
  <2>4. \A i, j \in I : keeper[i] = keeper[j] => i = j
    BY <2>2
  <2>5. IsFiniteSet(I) /\ Cardinality(I) = PoolSize
    BY FS_Interval, SizesAssumption
  <2>6. IsFiniteSet(K) /\ Cardinality(K) <= MaxSubs * MaxAcquires + 1
    <3>1. IsFiniteSet(HeldWrappers) /\ Cardinality(HeldWrappers) <= MaxSubs * MaxAcquires
      BY WrappersBounded
    <3>2. Cardinality(HeldWrappers) \in Nat
      BY <3>1, FS_CardinalityType
    <3>3. MaxSubs * MaxAcquires \in Nat
      BY SizesAssumption
    <3>4. K = HeldWrappers \cup {Prev(p)}
      OBVIOUS
    <3>5. IsFiniteSet(K) /\ (Cardinality(K) = Cardinality(HeldWrappers)
                             \/ Cardinality(K) = Cardinality(HeldWrappers) + 1)
      BY <3>1, <3>4, FS_AddElement
    <3> QED
      BY <3>1, <3>2, <3>3, <3>5
  <2> HIDE DEF I, K
  <2>7. ~(Cardinality(K) < Cardinality(I))
    BY <2>3, <2>4, <2>5, <2>6, FS_PigeonHole
  <2>8. MaxSubs * MaxAcquires \in Nat /\ Cardinality(K) \in Nat /\ PoolSize \in Nat
    BY <2>6, SizesAssumption, FS_CardinalityType
  <2> QED
    BY <2>5, <2>6, <2>7, <2>8
<1> QED
  BY <1>1, Invariance, EntriesOwned, PTL

-----------------------------------------------------------------------------
(* Freshness, with one entry for publishers                                *)

Publishing == {"scan", "emplace", "latest", "notify"}

\* Messages are announced in the order of their numbers: the one being
\* published is the next to be announced.
Numbered ==
  /\ \A p \in Pubs : ppc[p] \in Publishing => pmsg[p] = nextId + 1 /\ sent = nextId + 1
  /\ (\A p \in Pubs : ppc[p] \notin Publishing) => sent = nextId

\* Slot x is empty or has message n or a later one.
Fresh(x, n) == val[x] = None \/ val[x] >= n

\* Whoever leads to a slot leads to a message at least as new as announced.
LatestFresh ==
  /\ latest # None => Fresh(latest, nextId)
  /\ \A p \in Pubs :
       /\ ppc[p] = "emplace" /\ "value" \notin ptodo[p] => Fresh(pslot[p], nextId + 1)
       /\ ppc[p] \in {"latest", "notify"} => Fresh(pslot[p], nextId + 1)
       /\ ppc[p] = "notify" => latest = pslot[p]
FetchFresh == \A s \in Subs : spc[s] \in {"acquire", "check"} => Fresh(sIdx[s], sId[s])
FreshInv == Numbered /\ LatestFresh /\ FetchFresh

\* With a single entry only one publisher is open.
LEMMA OnePublisher ==
  ASSUME MaxPubs = 1, TypeOK, Owned, NEW p \in Pubs, NEW q \in Pubs,
         ppc[p] \notin {"closed", "closing"}, ppc[q] \notin {"closed", "closing"}
  PROVE  p = q
<1>1. Entries = {0}
  BY DEF Entries
<1>2. entry[p] = entry[q]
  BY <1>1 DEF TypeOK
<1> QED
  BY <1>2 DEF Owned

\* Steps that leave the numbers alone and at most empty a slot.
LEMMA FreshSame ==
  ASSUME TypeOK, SlotsKnown, FreshInv, UNCHANGED <<latest, nextId, pslot, pmsg, ptodo, sent, ppc, sId, sIdx>>,
         \A x \in Slots : val'[x] = val[x] \/ val'[x] = None,
         \A s \in Subs : spc'[s] \in {"acquire", "check"} => spc[s] \in {"acquire", "check"}
  PROVE  FreshInv'
<1>1. Numbered'
  BY DEF FreshInv, Numbered
<1>2. LatestFresh'
  BY DEF FreshInv, LatestFresh, Fresh, TypeOK, SlotsKnown
<1>3. FetchFresh'
  BY DEF FreshInv, FetchFresh, Fresh, TypeOK, SlotsKnown
<1> QED
  BY <1>1, <1>2, <1>3 DEF FreshInv

LEMMA FreshReset ==
  ASSUME IndInv, FreshInv, NEW a \in Accesses, NEW f \in Stores, ResetStore(a, f)
  PROVE  FreshInv'
<1>1. TypeOK /\ SlotsKnown /\ at[a] \in Slots
  BY DEF IndInv, SlotsKnown, ResetStore
<1>2. \A x \in Slots : val'[x] = val[x] \/ val'[x] = None
  BY <1>1 DEF ResetStore, TypeOK
<1> QED
  BY <1>1, <1>2, FreshSame DEF ResetStore, headerVars, pubVars, subVars

LEMMA FreshPub ==
  ASSUME MaxPubs = 1, IndInv, Owned, FreshInv, NEW p \in Pubs,
         PubOpen(p) \/ PubBegin(p) \/ PubStep(p) \/ PubClose(p)
  PROVE  FreshInv'
<1>1. TypeOK /\ \A q \in Pubs \ {p} : ppc[p] \notin {"closed", "closing"} =>
                                        ppc[q] \in {"closed", "closing"}
  BY OnePublisher DEF IndInv
<1> USE <1>1 DEF TypeOK, FreshInv, Numbered, Publishing
<1>2. CASE PubOpen(p) \/ PubClose(p) \/ PubReleasePrev(p) \/ PubSwap(p) \/ PubClosed(p)
  <2> USE DEF PubOpen, PubClose, PubReleasePrev, PubSwap, PubClosed, ReleaseAccess,
              slotVars, headerVars, pubVars, subVars
  <2>1. Numbered'
    BY <1>2
  <2>2. LatestFresh'
    BY <1>2 DEF LatestFresh, Fresh
  <2>3. FetchFresh'
    BY <1>2 DEF FetchFresh, Fresh
  <2> QED
    BY <2>1, <2>2, <2>3
<1>3. CASE PubBegin(p)
  <2> USE DEF PubBegin, slotVars, headerVars, subVars
  <2>1. Numbered'
    BY <1>3
  <2>2. LatestFresh'
    BY <1>3 DEF LatestFresh, Fresh
  <2>3. FetchFresh'
    BY <1>3 DEF FetchFresh, Fresh
  <2> QED
    BY <2>1, <2>2, <2>3
<1>4. CASE PubScan(p)
  <2> USE DEF PubScan, slotVars, subVars
  <2>1. Numbered'
    BY <1>4
  <2>2. LatestFresh'
    BY <1>4 DEF LatestFresh, Fresh, Stores
  <2>3. FetchFresh'
    BY <1>4 DEF FetchFresh, Fresh
  <2> QED
    BY <2>1, <2>2, <2>3
<1>5. ASSUME NEW f \in Stores, PubEmplace(p, f) PROVE FreshInv'
  <2>1. /\ ppc[p] = "emplace" /\ pslot[p] \in Slots /\ pmsg[p] = nextId + 1
        /\ UNCHANGED <<latest, nextId, pslot, pmsg, sent, spc, sId, sIdx>>
        /\ ppc' = [ppc EXCEPT ![p] = IF ptodo[p] = {f} THEN "latest" ELSE "emplace"]
        /\ ptodo' = [ptodo EXCEPT ![p] = ptodo[p] \ {f}]
    BY <1>5 DEF PubEmplace, IndInv, SlotsKnown, headerVars, subVars
  <2>2. Numbered'
    BY <2>1
  <2>3. CASE f = "value"
    <3>1. val' = [val EXCEPT ![pslot[p]] = nextId + 1]
      BY <1>5, <2>1, <2>3 DEF PubEmplace
    <3>2. \A x \in Slots : val'[x] = val[x] \/ val'[x] = nextId + 1
      BY <2>1, <3>1
    <3>3. val'[pslot[p]] = nextId + 1
      BY <2>1, <3>1
    <3>4. LatestFresh'
      BY <2>1, <3>2, <3>3 DEF LatestFresh, Fresh, IndInv, SlotsKnown
    <3>5. FetchFresh'
      BY <2>1, <3>2 DEF FetchFresh, Fresh, IndInv, SlotsKnown
    <3> QED
      BY <2>2, <3>4, <3>5
  <2>4. CASE f = "id"
    <3>1. val' = val
      BY <1>5, <2>4 DEF PubEmplace
    <3>2. LatestFresh'
      BY <2>1, <2>4, <3>1 DEF LatestFresh, Fresh
    <3>3. FetchFresh'
      BY <2>1, <3>1 DEF FetchFresh, Fresh
    <3> QED
      BY <2>2, <3>2, <3>3
  <2> QED
    BY <2>3, <2>4 DEF Stores
<1>6. CASE PubLatest(p)
  <2> USE DEF PubLatest, slotVars, subVars
  <2>1. Numbered'
    BY <1>6
  <2>2. LatestFresh'
    BY <1>6 DEF LatestFresh, Fresh
  <2>3. FetchFresh'
    BY <1>6 DEF FetchFresh, Fresh
  <2> QED
    BY <2>1, <2>2, <2>3
<1>7. CASE PubNotify(p)
  <2> USE DEF PubNotify, slotVars, subVars
  <2>1. Numbered'
    BY <1>7
  <2>2. LatestFresh'
    BY <1>7 DEF LatestFresh, Fresh
  <2>3. FetchFresh'
    BY <1>7 DEF FetchFresh, Fresh
  <2> QED
    BY <2>1, <2>2, <2>3
<1>8. CASE PubAcquire(p)
  <2> USE DEF PubAcquire, AcquireUnsafe, headerVars, subVars
  <2>1. Numbered'
    BY <1>8
  <2>2. LatestFresh'
    BY <1>8 DEF LatestFresh, Fresh
  <2>3. FetchFresh'
    BY <1>8 DEF FetchFresh, Fresh
  <2> QED
    BY <2>1, <2>2, <2>3
<1>9. \A f \in Stores : ResetStore(Prev(p), f) => FreshInv'
  BY FreshReset, AccessNames
<1> QED
  BY <1>2, <1>3, <1>4, <1>5, <1>6, <1>7, <1>8, <1>9 DEF PubStep

LEMMA FreshSub ==
  ASSUME IndInv, FreshInv, NEW s \in Subs, SubStep(s) PROVE FreshInv'
<1>1. TypeOK /\ SlotsKnown /\ UNCHANGED <<headerVars, pubVars>>
  BY SubFrame DEF IndInv
<1>2. Numbered'
  BY <1>1 DEF FreshInv, Numbered, headerVars, pubVars
<1>3. ASSUME val' = val, FetchFresh' PROVE FreshInv'
  <2>1. LatestFresh'
    BY <1>1, <1>3 DEF FreshInv, LatestFresh, Fresh, headerVars, pubVars
  <2> QED
    BY <1>2, <1>3, <2>1 DEF FreshInv
<1> USE <1>1 DEF TypeOK, FreshInv, FetchFresh, Fresh, slotVars, subVars, EndFetch
<1>4. CASE SubOpen(s) \/ SubClose(s) \/ FetchLoadId(s) \/ FetchCheck(s) \/ FetchUnclaim(s)
  BY <1>3, <1>4 DEF SubOpen, SubClose, FetchLoadId, FetchCheck, FetchUnclaim
<1>5. CASE FetchLoadIdx(s)
  <2>1. latest \in Slots /\ Fresh(latest, nextId) /\ sId[s] <= nextId
    BY <1>5, NoneAssumption DEF FetchLoadIdx, LatestFresh, SlotsKnown
  <2>2. val' = val /\ sId' = sId /\ sIdx' = [sIdx EXCEPT ![s] = latest]
        /\ spc' = [spc EXCEPT ![s] = "acquire"]
    BY <1>5 DEF FetchLoadIdx
  <2>3. FetchFresh'
    BY <2>1, <2>2
  <2> QED
    BY <1>3, <2>2, <2>3
<1>6. CASE FetchAcquire(s)
  BY <1>3, <1>6 DEF FetchAcquire, AcquireUnsafe
<1>7. CASE FetchClaim(s)
  BY <1>3, <1>7 DEF FetchClaim
<1>8. CASE FetchDrop(s) \/ FetchReturn(s)
  BY <1>3, <1>8 DEF FetchDrop, FetchReturn, ReleaseAccess
<1>9. ASSUME NEW w \in Wrappers, WrapperRelease(s, w) \/ WrapperReturn(s, w) PROVE FreshInv'
  BY <1>3, <1>9 DEF WrapperRelease, WrapperReturn, ReleaseAccess
<1>10. \A f \in Stores : /\ ResetStore(Fetch(s), f) => FreshInv'
                         /\ \A w \in Wrappers : ResetStore(Wrap(s, w), f) => FreshInv'
  BY FreshReset, AccessNames
<1> QED
  BY <1>4, <1>5, <1>6, <1>7, <1>8, <1>9, <1>10 DEF SubStep, FetchStep, WrapperStep

\* fetch_message loads the running id before the index: with one entry for
\* publishers, what it delivers is never older than the announcement it saw,
\* although publishers take turns and slots are reset and reused meanwhile.
THEOREM FetchIsFreshHolds ==
  ASSUME MaxPubs = 1
  PROVE  Spec => FetchIsFresh
<1> DEFINE Delivers == \A s \in Subs : spc[s] = "check" /\ spc'[s] = "claim"
                         => val[sIdx[s]] >= sId[s]
<1>1. Init => FreshInv
  BY DEF Init, FreshInv, Numbered, Publishing, LatestFresh, FetchFresh
<1>2. IndInv /\ Owned /\ FreshInv /\ [Next]_vars => FreshInv'
  <2> SUFFICES ASSUME IndInv, Owned, FreshInv, [Next]_vars PROVE FreshInv'
    OBVIOUS
  <2>1. CASE UNCHANGED vars
    BY <2>1, FreshSame DEF vars, IndInv
  <2>2. ASSUME NEW p \in Pubs, PubOpen(p) \/ PubBegin(p) \/ PubStep(p) \/ PubClose(p)
        PROVE  FreshInv'
    BY <2>2, FreshPub
  <2> QED
    BY <2>1, <2>2, FreshSub DEF Next, Session, SubStep
<1>3. IndInv /\ FreshInv /\ [Next]_vars => [Delivers]_vars
  <2> SUFFICES ASSUME IndInv, FreshInv, Next, NEW s \in Subs,
                      spc[s] = "check", spc'[s] = "claim"
               PROVE  val[sIdx[s]] >= sId[s]
    OBVIOUS
  <2>1. Fresh(sIdx[s], sId[s])
    BY DEF FreshInv, FetchFresh
  <2>2. val[sIdx[s]] # None
    <3>1. \A p \in Pubs : ~(PubOpen(p) \/ PubBegin(p) \/ PubStep(p) \/ PubClose(p))
      BY DEF PubStep, PubOpen, PubBegin, PubScan, PubEmplace, PubLatest, PubNotify,
         PubAcquire, PubReleasePrev, PubSwap, PubClose, PubClosed, ResetStore, subVars
    <3>2. PICK t \in Subs : SubStep(t)
      BY <3>1 DEF Next, Session, SubStep
    <3>3. FetchCheck(t)
      <4> USE <3>2 DEF IndInv, TypeOK, subVars, EndFetch
      <4>1. ~(SubOpen(t) \/ SubClose(t) \/ FetchLoadId(t) \/ FetchLoadIdx(t) \/ FetchAcquire(t)
              \/ FetchClaim(t) \/ FetchUnclaim(t) \/ FetchDrop(t) \/ FetchReturn(t))
        BY DEF SubOpen, SubClose, FetchLoadId, FetchLoadIdx, FetchAcquire, FetchClaim,
               FetchUnclaim, FetchDrop, FetchReturn
      <4>2. \A w \in Wrappers : ~(WrapperRelease(t, w) \/ WrapperReturn(t, w))
        BY DEF WrapperRelease, WrapperReturn
      <4>3. \A a \in Accesses, f \in Stores : ~ResetStore(a, f)
        BY DEF ResetStore
      <4> QED
        BY <4>1, <4>2, <4>3, AccessNames DEF SubStep, FetchStep, WrapperStep
    <3> QED
      BY <3>3 DEF FetchCheck, IndInv, TypeOK
  <2> QED
    BY <2>1, <2>2 DEF Fresh
<1>4. Spec => [][Delivers]_vars
  BY <1>1, <1>2, <1>3, Invariance, EntriesOwned, PTL DEF Spec
<1> QED
  BY <1>4 DEF FetchIsFresh
=============================================================================
