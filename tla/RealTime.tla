------------------------------ MODULE RealTime ------------------------------
(***************************************************************************)
(* The real-time publish/subscribe protocol of                             *)
(* publish_subscribe/real_time: publishers write messages into pools of    *)
(* shared-memory slots, subscribers fetch the latest one, and a reference  *)
(* counter per slot decides when the slot is reset for reuse.              *)
(*                                                                         *)
(* Granularity: one action per access to shared memory.  A step of one     *)
(* process that touches only its own variables is merged with the shared   *)
(* access next to it.  Atomics are taken to be sequentially consistent;    *)
(* the plain (non-atomic) stores of Message::emplace and Access::reset may *)
(* reach memory in either order.                                           *)
(***************************************************************************)
EXTENDS Integers, FiniteSets

CONSTANTS
  Pubs,         \* processes that construct a RealTimePublisher on the topic
  Subs,         \* processes that construct a RealTimeSubscriber on the topic
  Wrappers,     \* names for the MessageWrappers of one subscriber
  MaxPubs,      \* Options::max_publishers
  MaxSubs,      \* Options::max_subscribers
  MaxAcquires,  \* Options::max_concurrent_acquires
  PoolSize,     \* per_publisher_pool_size(options)
  MaxMessages,  \* bound: publish() calls in a behaviour
  None          \* null pointer, empty optional, invalid_id_v, max()

ASSUME PubsAssumption == IsFiniteSet(Pubs) /\ IsFiniteSet(Subs)
                         /\ Pubs \cap Subs = {}
ASSUME WrappersAssumption ==
  IsFiniteSet(Wrappers) /\ {"new", "prev", "fetch"} \cap Wrappers = {}
ASSUME SizesAssumption ==
  /\ MaxPubs \in Nat \ {0} /\ MaxSubs \in Nat \ {0}
  /\ MaxAcquires \in Nat \ {0} /\ PoolSize \in Nat \ {0} /\ MaxMessages \in Nat
ASSUME WrappersEnough == MaxAcquires < Cardinality(Wrappers)

Entries == 0 .. MaxPubs - 1

\* A slot is named by the publisher entry whose pool holds it and its index
\* in that pool; the code's flat index is entry * PoolSize + idx.
Slots == Entries \X (0 .. PoolSize - 1)

ASSUME NoneAssumption == None \notin Slots /\ None \notin Nat
                         /\ None \notin Entries /\ None \notin Pubs

\* Every object of class Message::Access that can exist: the temporary and
\* _prev_published_message of a publisher, the local of fetch_message and
\* the one inside each MessageWrapper of a subscriber.
New(p) == <<p, "new">>
Prev(p) == <<p, "prev">>
Fetch(s) == <<s, "fetch">>
Wrap(s, w) == <<s, w>>
Accesses == (Pubs \X {"new", "prev"}) \cup (Subs \X ({"fetch"} \cup Wrappers))

\* The two plain stores of Message::emplace and of Access::reset.
Stores == {"value", "id"}

VARIABLES
  ref,       \* slot -> _active_reference_counter
  val,       \* slot -> _opt_value: number of the message, or None
  mid,       \* slot -> _message_id: the slot itself, or None (invalid_id_v)
  latest,    \* latest_published_idx
  nextId,    \* next_message_id, counted from its initial value max() as 0
  local,     \* entry -> next_local_message_id, modulo PoolSize
  owner,     \* entry -> publisher that holds the entry lock, or None
  entry,     \* publisher -> _entry_idx
  ppc,       \* publisher -> control point
  pslot,     \* publisher -> slot being published
  pmsg,      \* publisher -> number of the message being published
  ptodo,     \* publisher -> stores of emplace not yet in memory
  spc,       \* subscriber -> control point
  sNext,     \* subscriber -> _next_message_id
  sId,       \* subscriber -> message_id loaded by fetch_message
  sIdx,      \* subscriber -> message_idx loaded by fetch_message
  avail,     \* subscriber -> _available_acquires
  at,        \* access -> _message (the slot it points to)
  st,        \* access -> "free", "held", "reset" or "done"
  todo,      \* access -> stores of reset not yet in memory
  sent       \* number of publish() calls begun (names the messages)

slotVars == <<ref, val, mid>>
headerVars == <<latest, nextId, local, owner>>
pubVars == <<entry, ppc, pslot, pmsg, ptodo, sent>>
subVars == <<spc, sNext, sId, sIdx, avail>>
accVars == <<at, st, todo>>
vars == <<ref, val, mid, latest, nextId, local, owner, entry, ppc, pslot,
          pmsg, ptodo, spc, sNext, sId, sIdx, avail, at, st, todo, sent>>

Init ==
  /\ ref = [x \in Slots |-> 0]
  /\ val = [x \in Slots |-> None]
  /\ mid = [x \in Slots |-> None]
  /\ latest = None
  /\ nextId = 0
  /\ local = [e \in Entries |-> 0]
  /\ owner = [e \in Entries |-> None]
  /\ entry = [p \in Pubs |-> 0]
  /\ ppc = [p \in Pubs |-> "closed"]
  /\ pslot = [p \in Pubs |-> None]
  /\ pmsg = [p \in Pubs |-> 0]
  /\ ptodo = [p \in Pubs |-> {}]
  /\ spc = [s \in Subs |-> "closed"]
  /\ sNext = [s \in Subs |-> 0]
  /\ sId = [s \in Subs |-> 0]
  /\ sIdx = [s \in Subs |-> None]
  /\ avail = [s \in Subs |-> MaxAcquires]
  /\ at = [a \in Accesses |-> None]
  /\ st = [a \in Accesses |-> "free"]
  /\ todo = [a \in Accesses |-> {}]
  /\ sent = 0

-----------------------------------------------------------------------------
(* Message::Access                                                         *)

\* Mutant: the access is handed out uncounted.
AcquireUncounted(a, x) ==
  /\ at' = [at EXCEPT ![a] = x]
  /\ st' = [st EXCEPT ![a] = "held"]
  /\ UNCHANGED <<ref, val, mid, todo>>

\* acquire_unsafe: count first, no check, then point at the slot.
AcquireUnsafe(a, x) ==
  /\ ref' = [ref EXCEPT ![x] = @ + 1]
  /\ at' = [at EXCEPT ![a] = x]
  /\ st' = [st EXCEPT ![a] = "held"]
  /\ UNCHANGED <<val, mid, todo>>

\* Mutant: the old value that fetch_sub returns is taken for the new one.
ReleaseComparesNew(a) ==
  /\ st[a] = "held"
  /\ ref' = [ref EXCEPT ![at[a]] = @ - 1]
  /\ IF ref[at[a]] = 0
       THEN /\ st' = [st EXCEPT ![a] = "reset"]
            /\ todo' = [todo EXCEPT ![a] = Stores]
       ELSE /\ st' = [st EXCEPT ![a] = "done"]
            /\ UNCHANGED todo
  /\ UNCHANGED <<val, mid, at>>

\* release: fetch_sub; whoever takes the counter from 1 to 0 owes a reset.
ReleaseAccess(a) ==
  /\ st[a] = "held"
  /\ ref' = [ref EXCEPT ![at[a]] = @ - 1]
  /\ IF ref[at[a]] = 1
       THEN /\ st' = [st EXCEPT ![a] = "reset"]
            /\ todo' = [todo EXCEPT ![a] = Stores]
       ELSE /\ st' = [st EXCEPT ![a] = "done"]
            /\ UNCHANGED todo
  /\ UNCHANGED <<val, mid, at>>

\* Mutant: reset destroys the value and leaves the id valid.
ResetKeepsId(a, f) ==
  /\ st[a] = "reset"
  /\ f \in todo[a]
  /\ val' = IF f = "value" THEN [val EXCEPT ![at[a]] = None] ELSE val
  /\ todo' = [todo EXCEPT ![a] = @ \ {f}]
  /\ st' = [st EXCEPT ![a] = IF todo[a] = {f} THEN "done" ELSE "reset"]
  /\ UNCHANGED <<mid, ref, at, headerVars, pubVars, subVars>>

\* reset: _opt_value.reset() and _message_id = invalid_id_v, plain stores
\* made after the counter reached 0 and not atomic with it.
ResetStore(a, f) ==
  /\ st[a] = "reset"
  /\ f \in todo[a]
  /\ IF f = "value"
       THEN val' = [val EXCEPT ![at[a]] = None] /\ UNCHANGED mid
       ELSE mid' = [mid EXCEPT ![at[a]] = None] /\ UNCHANGED val
  /\ todo' = [todo EXCEPT ![a] = @ \ {f}]
  /\ st' = [st EXCEPT ![a] = IF todo[a] = {f} THEN "done" ELSE "reset"]
  /\ UNCHANGED <<ref, at, headerVars, pubVars, subVars>>

\* Mutant: the moved-from access keeps its pointer.
MoveCopies(from, to) ==
  /\ at' = [at EXCEPT ![to] = at[from]]
  /\ st' = [st EXCEPT ![to] = st[from]]
  /\ UNCHANGED todo

\* The move constructor and the move assignment into a null Access.
MoveAccess(from, to) ==
  /\ at' = [at EXCEPT ![to] = at[from], ![from] = None]
  /\ st' = [st EXCEPT ![to] = st[from], ![from] = "free"]
  /\ UNCHANGED todo

ClearAccess(a) ==
  /\ at' = [at EXCEPT ![a] = None]
  /\ st' = [st EXCEPT ![a] = "free"]
  /\ UNCHANGED todo

-----------------------------------------------------------------------------
(* RealTimePublisher                                                       *)

\* create: any entry whose lock is free when try_lock reaches it; the
\* constructor then constructs the entry header anew.
PubOpen(p) ==
  /\ ppc[p] = "closed"
  /\ \E e \in Entries :
       /\ owner[e] = None
       /\ owner' = [owner EXCEPT ![e] = p]
       /\ local' = [local EXCEPT ![e] = 0]
       /\ entry' = [entry EXCEPT ![p] = e]
  /\ ppc' = [ppc EXCEPT ![p] = "idle"]
  /\ UNCHANGED <<slotVars, latest, nextId, pslot, pmsg, ptodo, sent, subVars,
                 accVars>>

\* A call of publish().
PubBegin(p) ==
  /\ ppc[p] = "idle"
  /\ sent < MaxMessages
  /\ sent' = sent + 1
  /\ pmsg' = [pmsg EXCEPT ![p] = sent + 1]
  /\ ppc' = [ppc EXCEPT ![p] = "scan"]
  /\ UNCHANGED <<slotVars, headerVars, entry, pslot, ptodo, subVars, accVars>>

\* One round of the search loop: only the id of the slot is looked at.
PubScan(p) ==
  LET e == entry[p]
      x == <<e, local[e]>>
  IN  /\ ppc[p] = "scan"
      /\ local' = [local EXCEPT ![e] = (@ + 1) % PoolSize]
      /\ IF mid[x] = None
           THEN /\ pslot' = [pslot EXCEPT ![p] = x]
                /\ ptodo' = [ptodo EXCEPT ![p] = Stores]
                /\ ppc' = [ppc EXCEPT ![p] = "emplace"]
           ELSE UNCHANGED <<pslot, ptodo, ppc>>
      /\ UNCHANGED <<slotVars, latest, nextId, owner, entry, pmsg, sent, subVars,
                     accVars>>

\* Message::emplace, one plain store at a time.
PubEmplace(p, f) ==
  /\ ppc[p] = "emplace"
  /\ f \in ptodo[p]
  /\ IF f = "value"
       THEN val' = [val EXCEPT ![pslot[p]] = pmsg[p]] /\ UNCHANGED mid
       ELSE mid' = [mid EXCEPT ![pslot[p]] = pslot[p]] /\ UNCHANGED val
  /\ ptodo' = [ptodo EXCEPT ![p] = @ \ {f}]
  /\ ppc' = [ppc EXCEPT ![p] = IF ptodo[p] = {f} THEN "latest" ELSE "emplace"]
  /\ UNCHANGED <<ref, headerVars, entry, pslot, pmsg, sent, subVars, accVars>>

\* _m_notify_subscribers, first the index, then the running id.
PubLatest(p) ==
  /\ ppc[p] = "latest"
  /\ latest' = pslot[p]
  /\ ppc' = [ppc EXCEPT ![p] = "notify"]
  /\ UNCHANGED <<slotVars, nextId, local, owner, entry, pslot, pmsg, ptodo,
                 sent, subVars, accVars>>

PubNotify(p) ==
  /\ ppc[p] = "notify"
  /\ nextId' = nextId + 1
  /\ ppc' = [ppc EXCEPT ![p] = "acquire"]
  /\ UNCHANGED <<slotVars, latest, local, owner, entry, pslot, pmsg, ptodo,
                 sent, subVars, accVars>>

\* message->acquire_unsafe() of the message just announced.
PubAcquire(p) ==
  /\ ppc[p] = "acquire"
  /\ AcquireUnsafe(New(p), pslot[p])
  /\ ppc' = [ppc EXCEPT ![p] = "swap"]
  /\ pslot' = [pslot EXCEPT ![p] = None]
  /\ pmsg' = [pmsg EXCEPT ![p] = 0]
  /\ UNCHANGED <<headerVars, entry, ptodo, sent, subVars>>

\* _prev_published_message = std::move(...), or its destructor: release ...
PubReleasePrev(p) ==
  /\ ppc[p] \in {"swap", "closing"}
  /\ ReleaseAccess(Prev(p))
  /\ UNCHANGED <<headerVars, pubVars, subVars>>

\* Mutant: the move assignment does not release what it overwrites.
SwapWithoutRelease(p) ==
  /\ ppc[p] = "swap"
  /\ MoveAccess(New(p), Prev(p))
  /\ ppc' = [ppc EXCEPT ![p] = "idle"]
  /\ UNCHANGED <<slotVars, headerVars, entry, pslot, pmsg, ptodo, sent,
                 subVars>>

\* ... then take over the new access; publish() returns.
PubSwap(p) ==
  /\ ppc[p] = "swap"
  /\ st[Prev(p)] \in {"free", "done"}
  /\ MoveAccess(New(p), Prev(p))
  /\ ppc' = [ppc EXCEPT ![p] = "idle"]
  /\ UNCHANGED <<slotVars, headerVars, entry, pslot, pmsg, ptodo, sent,
                 subVars>>

\* The destructor: members die in reverse order, so the entry lock goes
\* first and _prev_published_message is released after it.
PubClose(p) ==
  /\ ppc[p] = "idle"
  /\ owner' = [owner EXCEPT ![entry[p]] = None]
  /\ ppc' = [ppc EXCEPT ![p] = "closing"]
  /\ UNCHANGED <<slotVars, latest, nextId, local, entry, pslot, pmsg, ptodo,
                 sent, subVars, accVars>>

PubClosed(p) ==
  /\ ppc[p] = "closing"
  /\ st[Prev(p)] \in {"free", "done"}
  /\ ClearAccess(Prev(p))
  /\ ppc' = [ppc EXCEPT ![p] = "closed"]
  /\ UNCHANGED <<slotVars, headerVars, entry, pslot, pmsg, ptodo, sent,
                 subVars>>

-----------------------------------------------------------------------------
(* RealTimeSubscriber                                                      *)

\* create: one of max_subscribers entry locks must be free.
SubOpen(s) ==
  /\ spc[s] = "closed"
  /\ Cardinality({t \in Subs : spc[t] # "closed"}) < MaxSubs
  /\ sNext' = [sNext EXCEPT ![s] = nextId]
  /\ avail' = [avail EXCEPT ![s] = MaxAcquires]
  /\ spc' = [spc EXCEPT ![s] = "idle"]
  /\ UNCHANGED <<slotVars, headerVars, pubVars, sId, sIdx, accVars>>

\* fetch_message: without news it returns no_message_available at once.
FetchLoadId(s) ==
  /\ spc[s] = "idle"
  /\ nextId # sNext[s]
  /\ sId' = [sId EXCEPT ![s] = nextId]
  /\ spc' = [spc EXCEPT ![s] = "loadIdx"]
  /\ UNCHANGED <<slotVars, headerVars, pubVars, sNext, sIdx, avail, accVars>>

FetchLoadIdx(s) ==
  /\ spc[s] = "loadIdx"
  /\ sIdx' = [sIdx EXCEPT ![s] = latest]
  /\ spc' = [spc EXCEPT ![s] = "acquire"]
  /\ UNCHANGED <<slotVars, headerVars, pubVars, sNext, sId, avail, accVars>>

\* Mutant: the id is loaded again once the slot is chosen.
AcquireReloadsId(s) ==
  /\ spc[s] = "acquire"
  /\ AcquireUnsafe(Fetch(s), sIdx[s])
  /\ sId' = [sId EXCEPT ![s] = nextId]
  /\ spc' = [spc EXCEPT ![s] = "check"]
  /\ UNCHANGED <<headerVars, pubVars, sNext, sIdx, avail>>

FetchAcquire(s) ==
  /\ spc[s] = "acquire"
  /\ AcquireUnsafe(Fetch(s), sIdx[s])
  /\ spc' = [spc EXCEPT ![s] = "check"]
  /\ UNCHANGED <<headerVars, pubVars, sNext, sId, sIdx, avail>>

\* if (access): the message counts as seen before the limit is looked at.
FetchCheck(s) ==
  /\ spc[s] = "check"
  /\ IF val[sIdx[s]] # None
       THEN /\ sNext' = [sNext EXCEPT ![s] = sId[s]]
            /\ spc' = [spc EXCEPT ![s] = "claim"]
       ELSE /\ spc' = [spc EXCEPT ![s] = "drop"]
            /\ UNCHANGED sNext
  /\ UNCHANGED <<slotVars, headerVars, pubVars, sId, sIdx, avail, accVars>>

\* fetch_message returns; its locals are gone.
EndFetch(s) ==
  /\ spc' = [spc EXCEPT ![s] = "idle"]
  /\ sId' = [sId EXCEPT ![s] = 0]
  /\ sIdx' = [sIdx EXCEPT ![s] = None]

\* Mutant: the limit is compared off by one.
ClaimOneMore(s) ==
  /\ spc[s] = "claim"
  /\ avail' = [avail EXCEPT ![s] = @ - 1]
  /\ IF avail[s] < 0
       THEN /\ spc' = [spc EXCEPT ![s] = "unclaim"]
            /\ UNCHANGED <<sId, sIdx, accVars>>
       ELSE /\ \E w \in Wrappers :
                 /\ st[Wrap(s, w)] = "free"
                 /\ MoveAccess(Fetch(s), Wrap(s, w))
            /\ EndFetch(s)
  /\ UNCHANGED <<slotVars, headerVars, pubVars, sNext>>

\* available_acquires.fetch_sub: either the limit is reached, or a
\* MessageWrapper takes the access and fetch_message returns it.
FetchClaim(s) ==
  /\ spc[s] = "claim"
  /\ avail' = [avail EXCEPT ![s] = @ - 1]
  /\ IF avail[s] <= 0
       THEN /\ spc' = [spc EXCEPT ![s] = "unclaim"]
            /\ UNCHANGED <<sId, sIdx, accVars>>
       ELSE /\ \E w \in Wrappers :
                 /\ st[Wrap(s, w)] = "free"
                 /\ MoveAccess(Fetch(s), Wrap(s, w))
            /\ EndFetch(s)
  /\ UNCHANGED <<slotVars, headerVars, pubVars, sNext>>

FetchUnclaim(s) ==
  /\ spc[s] = "unclaim"
  /\ avail' = [avail EXCEPT ![s] = @ + 1]
  /\ spc' = [spc EXCEPT ![s] = "drop"]
  /\ UNCHANGED <<slotVars, headerVars, pubVars, sNext, sId, sIdx, accVars>>

\* The error returns run the destructor of the local access.
FetchDrop(s) ==
  /\ spc[s] = "drop"
  /\ ReleaseAccess(Fetch(s))
  /\ UNCHANGED <<headerVars, pubVars, subVars>>

FetchReturn(s) ==
  /\ spc[s] = "drop"
  /\ st[Fetch(s)] = "done"
  /\ ClearAccess(Fetch(s))
  /\ EndFetch(s)
  /\ UNCHANGED <<slotVars, headerVars, pubVars, sNext, avail>>

\* ~MessageWrapper, at any time and on any thread: release the access ...
WrapperRelease(s, w) ==
  /\ ReleaseAccess(Wrap(s, w))
  /\ UNCHANGED <<headerVars, pubVars, subVars>>

\* ... then give the acquire back.
WrapperReturn(s, w) ==
  /\ st[Wrap(s, w)] = "done"
  /\ ClearAccess(Wrap(s, w))
  /\ avail' = [avail EXCEPT ![s] = @ + 1]
  /\ UNCHANGED <<slotVars, headerVars, pubVars, spc, sNext, sId, sIdx>>

\* The subscriber is destroyed; wrappers point into it, so none may be left.
SubClose(s) ==
  /\ spc[s] = "idle"
  /\ \A w \in Wrappers : st[Wrap(s, w)] = "free"
  /\ spc' = [spc EXCEPT ![s] = "closed"]
  /\ UNCHANGED <<slotVars, headerVars, pubVars, sNext, sId, sIdx, avail,
                 accVars>>

\* MessageWrapper::operator=(MessageWrapper&& other) on a live wrapper u,
\* after cleanup() has released u's access: cleanup gives the acquire back,
\* u takes other's access, and the swap leaves other with a counter to
\* increment again when it is destroyed.
WrapperMoveAssign(s, u, other) ==
  /\ u # other
  /\ st[Wrap(s, u)] = "done"
  /\ st[Wrap(s, other)] = "held"
  /\ avail' = [avail EXCEPT ![s] = @ + 1]
  /\ at' = [at EXCEPT ![Wrap(s, u)] = at[Wrap(s, other)],
                      ![Wrap(s, other)] = None]
  /\ st' = [st EXCEPT ![Wrap(s, u)] = "held", ![Wrap(s, other)] = "done"]
  /\ UNCHANGED <<todo, slotVars, headerVars, pubVars, spc, sNext, sId, sIdx>>

-----------------------------------------------------------------------------

\* What the code of publisher p does by itself once publish() or the
\* destructor has been called.
PubStep(p) ==
  \/ PubScan(p) \/ PubLatest(p) \/ PubNotify(p) \/ PubAcquire(p)
  \/ PubReleasePrev(p) \/ PubSwap(p) \/ PubClosed(p)
  \/ \E f \in Stores : PubEmplace(p, f) \/ ResetStore(Prev(p), f)

\* What fetch_message does by itself once it has seen a new id.
FetchStep(s) ==
  \/ FetchLoadIdx(s) \/ FetchAcquire(s) \/ FetchCheck(s) \/ FetchClaim(s)
  \/ FetchUnclaim(s) \/ FetchDrop(s) \/ FetchReturn(s)
  \/ \E f \in Stores : ResetStore(Fetch(s), f)

\* The rest of a MessageWrapper's destructor once it has begun.
WrapperStep(s, w) ==
  \/ WrapperReturn(s, w)
  \/ \E f \in Stores : ResetStore(Wrap(s, w), f)

\* Everything but the destruction of publishers and subscribers.
Session ==
  \/ \E p \in Pubs : PubOpen(p) \/ PubBegin(p) \/ PubStep(p)
  \/ \E s \in Subs : SubOpen(s) \/ FetchLoadId(s) \/ FetchStep(s)
  \/ \E s \in Subs, w \in Wrappers : WrapperRelease(s, w) \/ WrapperStep(s, w)

Next ==
  \/ Session
  \/ \E p \in Pubs : PubClose(p)
  \/ \E s \in Subs : SubClose(s)

Spec == Init /\ [][Next]_vars

\* Calls that have begun run to their end; nobody has to call anything, and
\* a MessageWrapper may be kept for ever.
Fairness ==
  /\ \A p \in Pubs : WF_vars(PubStep(p))
  /\ \A s \in Subs : WF_vars(FetchStep(s))
  /\ \A s \in Subs, w \in Wrappers : WF_vars(WrapperStep(s, w))

\* Publishers and subscribers that live on, as long as the bound allows.
SessionSpec == Init /\ [][Session]_vars
FairSession == SessionSpec /\ Fairness

\* Clients that also move-assign over live MessageWrappers.
SpecMoveAssign ==
  Init /\ [][Next \/ \E s \in Subs, u, other \in Wrappers :
                       WrapperMoveAssign(s, u, other)]_vars

-----------------------------------------------------------------------------
(* Properties                                                              *)

PubPoints == {"closed", "idle", "scan", "emplace", "latest", "notify",
              "acquire", "swap", "closing"}
SubPoints == {"closed", "idle", "loadIdx", "acquire", "check", "claim",
              "unclaim", "drop"}

\* Every variable has its type: counters are natural numbers (no unsigned
\* counter of the code ever goes below zero), accesses point at slots.
TypeOK ==
  /\ ref \in [Slots -> Nat]
  /\ val \in [Slots -> Nat \cup {None}]
  /\ mid \in [Slots -> Slots \cup {None}]
  /\ latest \in Slots \cup {None}
  /\ nextId \in Nat
  /\ local \in [Entries -> 0 .. PoolSize - 1]
  /\ owner \in [Entries -> Pubs \cup {None}]
  /\ entry \in [Pubs -> Entries]
  /\ ppc \in [Pubs -> PubPoints]
  /\ pslot \in [Pubs -> Slots \cup {None}]
  /\ pmsg \in [Pubs -> Nat]
  /\ ptodo \in [Pubs -> SUBSET Stores]
  /\ spc \in [Subs -> SubPoints]
  /\ sNext \in [Subs -> Nat]
  /\ sId \in [Subs -> Nat]
  /\ sIdx \in [Subs -> Slots \cup {None}]
  /\ avail \in [Subs -> Int]
  /\ at \in [Accesses -> Slots \cup {None}]
  /\ st \in [Accesses -> {"free", "held", "reset", "done"}]
  /\ todo \in [Accesses -> SUBSET Stores]
  /\ sent \in Nat

\* The accesses that count for slot x.
Holders(x) == {a \in Accesses : st[a] = "held" /\ at[a] = x}

\* Message::_active_reference_counter is exactly the number of live Access
\* objects that point at the message: no interleaving of acquire_unsafe,
\* release, moves and the publisher's swap loses or doubles a reference, so
\* the unsigned counter never underflows.
RefCountExact == \A x \in Slots : ref[x] = Cardinality(Holders(x))

Announcing(p, x) ==
  pslot[p] = x /\ ppc[p] \in {"emplace", "latest", "notify", "acquire"}

\* No slot is lost: a slot with a valid id, which publish() will never pick
\* again, is being published, is referenced, or will be reset by the access
\* that took its counter to zero.
NoLeakedSlot ==
  \A x \in Slots : mid[x] # None =>
    \/ \E p \in Pubs : Announcing(p, x)
    \/ ref[x] > 0
    \/ \E a \in Accesses : st[a] = "reset" /\ at[a] = x /\ "id" \in todo[a]

\* The messages subscriber s holds: wrappers whose access counts for a slot.
\* A wrapper that released or gave away its access holds nothing.
HoldingWrappers(s) == {w \in Wrappers : st[Wrap(s, w)] = "held"}

\* max_concurrent_acquires is kept although fetch_message and the
\* destructors of MessageWrappers change _available_acquires concurrently:
\* a subscriber never holds more than that many messages at once.
AcquireLimit == \A s \in Subs : Cardinality(HoldingWrappers(s)) <= MaxAcquires

\* A fetch that saw n announcements delivers message n or a later one, never
\* an older one that is still in its slot (one publisher at a time): the
\* index is stored before the id is incremented, and slots only ever hold
\* newer messages than before.
FetchIsFresh ==
  [][\A s \in Subs : spc[s] = "check" /\ spc'[s] = "claim"
       => val[sIdx[s]] >= sId[s]]_vars

\* No call is under way except searches for a free slot.
Quiet ==
  /\ \A p \in Pubs : ppc[p] \in {"closed", "idle", "scan"}
  /\ \A s \in Subs : spc[s] \in {"closed", "idle"}
  /\ \A a \in Accesses : st[a] \in {"free", "held"}

\* The pool of per_publisher_pool_size = ceil(m * k + 2) slots is large
\* enough: a publisher that searches while all other calls have returned
\* finds a slot with an invalid id, however many messages subscribers keep.
PoolSuffices ==
  \A p \in Pubs : Quiet /\ ppc[p] = "scan"
    => \E i \in 0 .. PoolSize - 1 : mid[<<entry[p], i>>] = None

\* publish() finds a free slot and returns even when every subscriber keeps
\* all the wrappers it may have: the pool of m*k+2 slots (rounded up) is
\* large enough, in-flight fetches and pending resets included.
PublishReturns ==
  \A p \in Pubs : ppc[p] = "scan" ~> ppc[p] = "idle"

-----------------------------------------------------------------------------
(* The inductive invariant behind RefCountExact, NoLeakedSlot and           *)
(* AcquireLimit                                                             *)

\* Slots that a control point is about to use exist: nextId # sNext tells
\* fetch_message that latest_published_idx is no longer max().
SlotsKnown ==
  /\ nextId > 0 => latest \in Slots
  /\ \A p \in Pubs :
       /\ ppc[p] = "notify" => latest \in Slots
       /\ ppc[p] \in {"emplace", "latest", "notify", "acquire"} => pslot[p] \in Slots
  /\ \A s \in Subs :
       /\ sNext[s] <= nextId /\ sId[s] <= nextId
       /\ spc[s] = "loadIdx" => latest \in Slots
       /\ spc[s] \in {"acquire", "check", "claim", "unclaim", "drop"}
            => sIdx[s] \in Slots
  /\ \A a \in Accesses : st[a] \in {"held", "reset"} => at[a] \in Slots

\* Which state each access is in at each control point of its process.
AccessControl ==
  /\ \A p \in Pubs :
       /\ st[New(p)] = IF ppc[p] = "swap" THEN "held" ELSE "free"
       /\ ppc[p] \notin {"swap", "closing"} => st[Prev(p)] \in {"free", "held"}
  /\ \A s \in Subs :
       /\ spc[s] \in {"check", "claim", "unclaim"} => st[Fetch(s)] = "held"
       /\ spc[s] = "drop" => st[Fetch(s)] # "free"
       /\ spc[s] \in {"closed", "idle", "loadIdx", "acquire"} => st[Fetch(s)] = "free"

\* Wrappers that still have to give their acquire back: the ones that hold a
\* message and the ones in the middle of their destructor.
LiveWrappers(s) == {w \in Wrappers : st[Wrap(s, w)] # "free"}

\* Acquires handed out and acquires left add up to max_concurrent_acquires;
\* only a refused fetch borrows one for a moment, and a destroyed subscriber
\* left no wrapper behind.
AcquiresBalance ==
  \A s \in Subs :
    LET borrowed == IF spc[s] = "unclaim" THEN 1 ELSE 0
    IN  /\ avail[s] + borrowed >= 0
        /\ Cardinality(LiveWrappers(s)) + avail[s] + borrowed = MaxAcquires
        /\ spc[s] = "closed" => avail[s] = MaxAcquires

\* The inductive invariant, as a whole.
IndInv ==
  /\ TypeOK /\ SlotsKnown /\ AccessControl
  /\ RefCountExact /\ NoLeakedSlot /\ AcquiresBalance

-----------------------------------------------------------------------------
(* What comments of the code promise and the code does not do              *)

\* real_time_publisher.h: _prev_published_message is "book keeping to avoid
\* immediate destruction"; options.h: the latest message is available to all
\* subscribers.  So a publisher that has returned from publish() holds a
\* message, not an empty slot.
LatestAvailable ==
  \A p \in Pubs : ppc[p] = "idle" /\ st[Prev(p)] = "held"
    => val[at[Prev(p)]] # None
=============================================================================
