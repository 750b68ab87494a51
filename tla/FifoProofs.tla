----------------------------- MODULE FifoProofs -----------------------------
(***************************************************************************)
(* The sequence mode for any number of subscribers, any queue size and any *)
(* number of messages: the references of a message cover the readers let   *)
(* in, a callback has a message, and nobody changes it meanwhile.          *)
(***************************************************************************)
EXTENDS Fifo, FiniteSetTheorems, TLAPS

Writes == {"count", "emplace", "release"}
CountedAt == {"limit", "lock", "callback", "reset", "unlock", "uncount"}
ExpectsAt == {"checkValue", "count"} \cup CountedAt

\* The subscribers that have counted themselves on slot q, and those that are
\* or will be let in if the references stay as they are.
Counted(q) == {s \in Subs : SlotOf(sMsg[s]) = q /\ spc[s] \in CountedAt}
Claims(q) ==
  Admitted(q) \cup {s \in Subs : SlotOf(sMsg[s]) = q /\ spc[s] = "limit"
                                   /\ sOld[s] < remaining[q]}
Joined == {s \in Subs : spc[s] # "out"}

TypeOK ==
  /\ val \in [Slots -> Nat \cup {None}] /\ mid \in [Slots -> Nat \cup {None}]
  /\ remaining \in [Slots -> Nat] /\ active \in [Slots -> Nat]
  /\ writing \in [Slots -> BOOLEAN]
  /\ next \in Nat /\ numSubs \in Nat
  /\ ppc \in {"idle", "notify"} \cup Writes /\ ptodo \subseteq {"value", "id"}
  /\ spc \in [Subs -> {"out", "joining", "idle", "checkId"} \cup ExpectsAt]
  /\ sNext \in [Subs -> Nat] /\ sMsg \in [Subs -> Nat] /\ sOld \in [Subs -> Nat]

\* A slot is locked for writing while the publisher is in it, and nobody
\* reads there.
WritersExclude ==
  \A q \in Slots : /\ writing[q] <=> q = SlotOf(next) /\ ppc \in Writes
                   /\ writing[q] => Readers(q) = {}

\* num_subscribers counts the subscribers, _active_reference_counter at least
\* those under way, and the references cover all that are let in or will be.
SubsCounted == numSubs = Cardinality(Joined)
ActiveCovers == \A q \in Slots : Cardinality(Counted(q)) <= active[q]
ClaimsCovered == \A q \in Slots : Cardinality(Claims(q)) <= remaining[q]

\* The publisher's stores: the numbers in a slot are its own, none is newer
\* than the message being published, and the value is that number or gone.
IdsKnown ==
  \A q \in Slots : mid[q] # None =>
    /\ SlotOf(mid[q]) = q
    /\ mid[q] < next \/ (mid[q] = next /\ ppc \in {"emplace", "release", "notify"})
StoresDone ==
  LET q == SlotOf(next)
  IN  /\ ppc = "emplace" => /\ "value" \notin ptodo => val[q] = next
                            /\ "id" \notin ptodo => mid[q] = next
      /\ ppc = "release" => val[q] = next /\ mid[q] = next
      /\ ppc = "notify" => mid[q] = next
ValuesKnown ==
  \A q \in Slots : val[q] \in {None, mid[q]} \/ (ppc = "emplace" /\ q = SlotOf(next))

\* A message with references left is not reset; whoever resets gave the last
\* one back.
KeptWhileReferenced ==
  \A q \in Slots : remaining[q] > 0 /\ ~writing[q] => val[q] # None
ResetIsLast == \A s \in Subs : spc[s] = "reset" => remaining[SlotOf(sMsg[s])] = 0

\* A number that was compared is not undercut later.
NeverOlder ==
  \A s \in Subs : spc[s] \in ExpectsAt =>
    LET m == mid[SlotOf(sMsg[s])] IN m \in Nat /\ m >= sMsg[s]

Counts == SubsCounted /\ ActiveCovers /\ ClaimsCovered
Stored == IdsKnown /\ StoresDone /\ ValuesKnown
Kept == KeptWhileReferenced /\ ResetIsLast /\ NeverOlder
IndInv == TypeOK /\ WritersExclude /\ Counts /\ Stored /\ Kept

-----------------------------------------------------------------------------
(* Facts about slots and about counting subscribers                        *)

\* Every message has a slot.
LEMMA SlotOfType == \A n \in Nat : SlotOf(n) \in Slots
<1>1. QueueSize \in Nat /\ QueueSize > 0
  BY QueueAssumption
<1>2. ASSUME NEW n \in Nat PROVE n % QueueSize \in 0 .. QueueSize - 1
  BY <1>1
<1> QED BY <1>2 DEF SlotOf, Slots

\* A subset of a set of subscribers has at most as many members ...
LEMMA Fewer ==
  ASSUME NEW S \in SUBSET Subs, NEW T \in SUBSET S
  PROVE  Cardinality(T) <= Cardinality(S) /\ Cardinality(T) \in Nat /\ Cardinality(S) \in Nat
<1>1. IsFiniteSet(S)
  BY SubsAssumption, FS_Subset
<1> QED BY <1>1, FS_Subset, FS_CardinalityType

\* ... a set with one more possible member at most one more ...
LEMMA OneMore ==
  ASSUME NEW S \in SUBSET Subs, NEW s \in Subs, NEW T \in SUBSET (S \cup {s})
  PROVE  Cardinality(T) <= Cardinality(S) + 1
<1>1. IsFiniteSet(S)
  BY SubsAssumption, FS_Subset
<1>2. Cardinality(S) \in Nat
  BY <1>1, FS_CardinalityType
<1>3. IsFiniteSet(S \cup {s}) /\ (Cardinality(S \cup {s}) = Cardinality(S)
                                  \/ Cardinality(S \cup {s}) = Cardinality(S) + 1)
  BY <1>1, FS_AddElement
<1>4. Cardinality(T) <= Cardinality(S \cup {s}) /\ Cardinality(T) \in Nat
  BY <1>3, FS_Subset, FS_CardinalityType
<1> QED BY <1>2, <1>3, <1>4

\* ... and one that has lost a member at least one less.
LEMMA OneLess ==
  ASSUME NEW S \in SUBSET Subs, NEW s \in S, NEW T \in SUBSET (S \ {s})
  PROVE  Cardinality(T) <= Cardinality(S) - 1 /\ Cardinality(S) > 0
<1>1. IsFiniteSet(S)
  BY SubsAssumption, FS_Subset
<1>2. Cardinality(S \ {s}) = Cardinality(S) - 1 /\ IsFiniteSet(S \ {s})
  BY <1>1, FS_RemoveElement
<1> QED BY <1>1, <1>2, FS_Subset, FS_CardinalityType

\* The sets that are counted consist of subscribers.
LEMMA SetsOfSubs ==
  \A q \in Slots : /\ Counted(q) \in SUBSET Subs /\ Claims(q) \in SUBSET Subs
                   /\ Admitted(q) \subseteq Claims(q) /\ Claims(q) \subseteq Counted(q)
                   /\ Claims(q) \subseteq Joined /\ Joined \in SUBSET Subs
  BY DEF Counted, Claims, Admitted, Joined, CountedAt

\* Whoever is let in has a reference, and is counted as active.
LEMMA AdmittedHasReference ==
  ASSUME IndInv, NEW s \in Subs, spc[s] \in {"lock", "callback"}
  PROVE  remaining[SlotOf(sMsg[s])] > 0
<1> DEFINE q == SlotOf(sMsg[s])
<1>1. q \in Slots /\ s \in Claims(q)
  BY SlotOfType DEF IndInv, TypeOK, Claims, Admitted
<1>2. Cardinality(Claims(q)) > 0 /\ Cardinality(Claims(q)) <= remaining[q]
  BY <1>1, SetsOfSubs, OneLess, ZenonT(40) DEF IndInv, Counts, ClaimsCovered
<1> QED BY <1>1, <1>2, SetsOfSubs, Fewer DEF IndInv, TypeOK

LEMMA CountedIsActive ==
  ASSUME IndInv, NEW s \in Subs, spc[s] \in CountedAt
  PROVE  active[SlotOf(sMsg[s])] > 0
<1> DEFINE q == SlotOf(sMsg[s])
<1>1. q \in Slots /\ s \in Counted(q)
  BY SlotOfType DEF IndInv, TypeOK, Counted
<1>2. Cardinality(Counted(q)) > 0 /\ Cardinality(Counted(q)) <= active[q]
  BY <1>1, SetsOfSubs, OneLess, ZenonT(40) DEF IndInv, Counts, ActiveCovers
<1> QED BY <1>1, <1>2, SetsOfSubs, Fewer DEF IndInv, TypeOK

\* Nobody writes a slot in which a subscriber reads.
LEMMA ReaderExcludesWriter ==
  ASSUME IndInv, NEW s \in Subs, spc[s] \in {"callback", "reset", "unlock"}
  PROVE  ~writing[SlotOf(sMsg[s])]
  BY SlotOfType DEF IndInv, TypeOK, WritersExclude, Readers

-----------------------------------------------------------------------------
(* The initial state                                                       *)

LEMMA InitHolds == Init => IndInv
<1> SUFFICES ASSUME Init PROVE IndInv
  OBVIOUS
<1>1. \A q \in Slots : Claims(q) = {} /\ Counted(q) = {} /\ Readers(q) = {}
  BY DEF Init, Claims, Counted, Admitted, Readers, CountedAt
<1>2. Joined = {}
  BY DEF Init, Joined
<1>3. TypeOK
  BY DEF Init, TypeOK, Writes, ExpectsAt
<1>4. WritersExclude
  BY <1>1 DEF Init, WritersExclude, Writes
<1>5. Counts
  BY <1>1, <1>2, FS_EmptySet DEF Init, Counts, SubsCounted, ActiveCovers, ClaimsCovered
<1>6. Stored
  BY DEF Init, Stored, IdsKnown, StoresDone, ValuesKnown
<1>7. Kept
  BY DEF Init, Kept, KeptWhileReferenced, ResetIsLast, NeverOlder, ExpectsAt, CountedAt
<1> QED BY <1>3, <1>4, <1>5, <1>6, <1>7 DEF IndInv

-----------------------------------------------------------------------------
(* Types                                                                   *)

SubStep(s) ==
  \/ Subscribe(s) \/ SubscribeNext(s) \/ Cancel(s) \/ Receive(s)
  \/ ReceiveCheckId(s) \/ ConsumeCheckValue(s) \/ ConsumeCount(s)
  \/ ConsumeLimit(s) \/ ConsumeLock(s)
  \/ AccessRelease(s) \/ AccessReset(s) \/ AccessUnlock(s) \/ AccessUncount(s)

LEMMA TypePublish == ASSUME IndInv, Publish PROVE TypeOK'
<1>1. SlotOf(next) \in Slots
  BY SlotOfType DEF IndInv, TypeOK
<1> USE DEF IndInv, TypeOK, Writes, subVars, msgVars
<1>2. CASE PubWritable
  BY <1>1, <1>2 DEF PubWritable
<1>3. CASE PubCount
  BY <1>1, <1>3 DEF PubCount
<1>4. ASSUME NEW f \in {"value", "id"}, PubEmplace(f) PROVE TypeOK'
  BY <1>1, <1>4 DEF PubEmplace
<1>5. CASE PubRelease
  BY <1>1, <1>5 DEF PubRelease
<1>6. CASE PubNotify
  BY <1>6 DEF PubNotify
<1> QED BY <1>2, <1>3, <1>4, <1>5, <1>6 DEF Publish

LEMMA TypeSub == ASSUME IndInv, NEW s \in Subs, SubStep(s) PROVE TypeOK'
<1>1. SlotOf(sMsg[s]) \in Slots
  BY SlotOfType DEF IndInv, TypeOK
<1> USE DEF IndInv, TypeOK, ExpectsAt, CountedAt, msgVars, pubVars, Goto, Return
<1>2. CASE Subscribe(s)
  BY <1>2 DEF Subscribe
<1>3. CASE SubscribeNext(s)
  BY <1>3 DEF SubscribeNext
<1>4. CASE Cancel(s)
  <2>1. s \in Joined
    BY <1>4 DEF Cancel, Joined
  <2>2. numSubs > 0
    BY <2>1, OneLess DEF Counts, SubsCounted, Joined
  <2> QED BY <1>4, <2>2 DEF Cancel
<1>5. CASE Receive(s)
  BY <1>5 DEF Receive
<1>6. CASE ReceiveCheckId(s)
  BY <1>6 DEF ReceiveCheckId
<1>7. CASE ConsumeCheckValue(s)
  BY <1>7 DEF ConsumeCheckValue
<1>8. CASE ConsumeCount(s)
  BY <1>1, <1>8 DEF ConsumeCount
<1>9. CASE ConsumeLimit(s)
  BY <1>9 DEF ConsumeLimit
<1>10. CASE ConsumeLock(s)
  BY <1>10 DEF ConsumeLock
<1>11. CASE AccessRelease(s)
  BY <1>1, <1>11, AdmittedHasReference DEF AccessRelease
<1>12. CASE AccessReset(s)
  BY <1>1, <1>12 DEF AccessReset
<1>13. CASE AccessUnlock(s)
  BY <1>13 DEF AccessUnlock
<1>14. CASE AccessUncount(s)
  BY <1>1, <1>14, CountedIsActive DEF AccessUncount
<1> QED BY <1>2, <1>3, <1>4, <1>5, <1>6, <1>7, <1>8, <1>9, <1>10, <1>11, <1>12, <1>13, <1>14 DEF SubStep

-----------------------------------------------------------------------------
(* Locks                                                                   *)

\* What a step of subscriber s leaves alone: the publisher, and the other
\* subscribers' locals.
LEMMA SubFrame ==
  ASSUME TypeOK, NEW s \in Subs, SubStep(s)
  PROVE  /\ UNCHANGED <<writing, next, ppc, ptodo, mid>>
         /\ \A t \in Subs \ {s} : spc'[t] = spc[t] /\ sMsg'[t] = sMsg[t] /\ sOld'[t] = sOld[t]
<1> USE DEF TypeOK, msgVars, pubVars, Goto, Return
<1>1. CASE Subscribe(s) \/ SubscribeNext(s) \/ Cancel(s) \/ Receive(s)
  BY <1>1 DEF Subscribe, SubscribeNext, Cancel, Receive
<1>2. CASE ReceiveCheckId(s) \/ ConsumeCheckValue(s) \/ ConsumeCount(s)
  BY <1>2 DEF ReceiveCheckId, ConsumeCheckValue, ConsumeCount
<1>3. CASE ConsumeLimit(s) \/ ConsumeLock(s)
  BY <1>3 DEF ConsumeLimit, ConsumeLock
<1>4. CASE AccessRelease(s) \/ AccessReset(s) \/ AccessUnlock(s) \/ AccessUncount(s)
  BY <1>4 DEF AccessRelease, AccessReset, AccessUnlock, AccessUncount
<1> QED BY <1>1, <1>2, <1>3, <1>4 DEF SubStep

\* A subscriber begins to read only by locking a slot that is not written.
LEMMA BeginsToRead ==
  ASSUME TypeOK, NEW s \in Subs, SubStep(s), spc'[s] \in {"callback", "reset", "unlock"}
  PROVE  /\ sMsg'[s] = sMsg[s]
         /\ ~writing[SlotOf(sMsg[s])] \/ spc[s] \in {"callback", "reset", "unlock"}
<1> USE DEF TypeOK, msgVars, pubVars, Goto, Return
<1>1. CASE Subscribe(s) \/ SubscribeNext(s) \/ Cancel(s) \/ Receive(s)
  BY <1>1 DEF Subscribe, SubscribeNext, Cancel, Receive
<1>2. CASE ReceiveCheckId(s) \/ ConsumeCheckValue(s) \/ ConsumeCount(s)
  BY <1>2 DEF ReceiveCheckId, ConsumeCheckValue, ConsumeCount
<1>3. CASE ConsumeLimit(s) \/ ConsumeLock(s)
  BY <1>3 DEF ConsumeLimit, ConsumeLock
<1>4. CASE AccessRelease(s) \/ AccessReset(s) \/ AccessUnlock(s) \/ AccessUncount(s)
  BY <1>4 DEF AccessRelease, AccessReset, AccessUnlock, AccessUncount
<1> QED BY <1>1, <1>2, <1>3, <1>4 DEF SubStep

LEMMA LocksSub == ASSUME IndInv, NEW s \in Subs, SubStep(s) PROVE WritersExclude'
<1> SUFFICES ASSUME NEW q \in Slots
             PROVE  /\ writing'[q] <=> q = SlotOf(next') /\ ppc' \in Writes
                    /\ writing'[q] => Readers(q)' = {}
  BY DEF WritersExclude
<1>1. /\ UNCHANGED <<writing, next, ppc>>
      /\ \A t \in Subs \ {s} : spc'[t] = spc[t] /\ sMsg'[t] = sMsg[t]
  BY SubFrame DEF IndInv
<1>2. writing[q] <=> q = SlotOf(next) /\ ppc \in Writes
  BY DEF IndInv, WritersExclude
<1>3. ASSUME writing'[q], NEW t \in Readers(q)' PROVE FALSE
  <2>1. writing[q] /\ Readers(q) = {}
    BY <1>1, <1>3 DEF IndInv, WritersExclude
  <2>2. t \in Subs /\ SlotOf(sMsg'[t]) = q /\ spc'[t] \in {"callback", "reset", "unlock"}
    BY <1>3 DEF Readers
  <2>3. CASE t # s
    BY <1>1, <2>1, <2>2, <2>3 DEF Readers
  <2>4. CASE t = s
    BY <2>1, <2>2, <2>4, BeginsToRead DEF Readers, IndInv
  <2> QED BY <2>3, <2>4
<1> QED BY <1>1, <1>2, <1>3

\* The publisher's steps do not change what subscribers are doing.
LEMMA PubFrame ==
  ASSUME Publish PROVE UNCHANGED <<active, numSubs, spc, sMsg, sOld>>
  BY DEF Publish, PubWritable, PubCount, PubEmplace, PubRelease, PubNotify, subVars, msgVars

LEMMA LocksPublish == ASSUME IndInv, Publish PROVE WritersExclude'
<1>1. SlotOf(next) \in Slots /\ \A q \in Slots : Readers(q)' = Readers(q)
  BY SlotOfType, PubFrame DEF IndInv, TypeOK, Readers
<1> USE <1>1 DEF IndInv, TypeOK, WritersExclude, Writes, msgVars
<1>2. CASE PubWritable
  BY <1>2 DEF PubWritable
<1>3. CASE PubCount
  BY <1>3 DEF PubCount
<1>4. ASSUME NEW f \in {"value", "id"}, PubEmplace(f) PROVE WritersExclude'
  BY <1>4 DEF PubEmplace
<1>5. CASE PubRelease
  BY <1>5 DEF PubRelease
<1>6. CASE PubNotify
  BY <1>6 DEF PubNotify
<1> QED BY <1>2, <1>3, <1>4, <1>5, <1>6 DEF Publish

-----------------------------------------------------------------------------
(* Counters                                                                *)

\* All steps but the one that counts an access: nobody enters the counted
\* region, and whoever is let in had passed the comparison before.
LEMMA SubMoves ==
  ASSUME TypeOK, NEW s \in Subs, SubStep(s), ~ConsumeCount(s)
  PROVE  /\ active' = active \/ AccessUncount(s)
         /\ remaining' = remaining \/ AccessRelease(s)
         /\ spc'[s] \in CountedAt => spc[s] \in CountedAt /\ sMsg'[s] = sMsg[s]
         /\ spc'[s] # "limit"
         /\ spc'[s] \in {"lock", "callback"} =>
              \/ spc[s] \in {"lock", "callback"}
              \/ spc[s] = "limit" /\ sOld[s] < remaining[SlotOf(sMsg[s])]
<1> USE DEF TypeOK, msgVars, pubVars, Goto, Return, CountedAt
<1>1. CASE Subscribe(s) \/ SubscribeNext(s) \/ Cancel(s) \/ Receive(s)
  BY <1>1 DEF Subscribe, SubscribeNext, Cancel, Receive
<1>2. CASE ReceiveCheckId(s) \/ ConsumeCheckValue(s)
  BY <1>2 DEF ReceiveCheckId, ConsumeCheckValue
<1>3. CASE ConsumeLimit(s) \/ ConsumeLock(s)
  BY <1>3 DEF ConsumeLimit, ConsumeLock
<1>4. CASE AccessRelease(s) \/ AccessReset(s) \/ AccessUnlock(s) \/ AccessUncount(s)
  BY <1>4 DEF AccessRelease, AccessReset, AccessUnlock, AccessUncount
<1> QED BY <1>1, <1>2, <1>3, <1>4 DEF SubStep

LEMMA ActiveSub == ASSUME IndInv, NEW s \in Subs, SubStep(s) PROVE ActiveCovers'
<1> SUFFICES ASSUME NEW q \in Slots PROVE Cardinality(Counted(q)') <= active'[q]
  BY DEF ActiveCovers
<1> DEFINE r == SlotOf(sMsg[s])
<1>1. r \in Slots /\ TypeOK /\ active[q] \in Nat
  BY SlotOfType DEF IndInv, TypeOK
<1>2. \A t \in Subs \ {s} : t \in Counted(q)' <=> t \in Counted(q)
  BY <1>1, SubFrame DEF Counted
<1>3. Cardinality(Counted(q)) <= active[q] /\ Counted(q) \in SUBSET Subs
       /\ Counted(q)' \in SUBSET Subs
  BY DEF IndInv, Counts, ActiveCovers, Counted
<1>4. CASE ConsumeCount(s)
  <2>1. active' = [active EXCEPT ![r] = @ + 1] /\ sMsg' = sMsg
    BY <1>4 DEF ConsumeCount
  <2>2. CASE q = r
    <3>1. Counted(q)' \subseteq Counted(q) \cup {s}
      BY <1>2, <1>3
    <3>2. Cardinality(Counted(q)') <= Cardinality(Counted(q)) + 1
      BY <1>3, <3>1, OneMore
    <3> HIDE DEF r
    <3> QED BY <1>1, <1>3, <2>1, <2>2, <3>1, <3>2, Fewer DEF TypeOK
  <2>3. CASE q # r
    <3>1. Counted(q)' \subseteq Counted(q)
      BY <1>2, <1>3, <2>1, <2>3 DEF Counted
    <3>2. active'[q] = active[q]
      BY <1>1, <2>1, <2>3 DEF TypeOK
    <3> QED BY <1>1, <1>3, <3>1, <3>2, Fewer
  <2> QED BY <2>2, <2>3
<1>5. CASE AccessUncount(s)
  <2>1. active' = [active EXCEPT ![r] = @ - 1] /\ spc'[s] = "idle" /\ spc[s] = "uncount"
    BY <1>1, <1>5 DEF AccessUncount, Return, Goto, TypeOK
  <2>2. Counted(q)' \subseteq Counted(q) \ {s}
    BY <1>2, <1>3, <2>1 DEF Counted, CountedAt
  <2>3. CASE q = r
    <3>1. s \in Counted(q)
      BY <2>1, <2>3 DEF Counted, CountedAt
    <3>2. Cardinality(Counted(q)') <= Cardinality(Counted(q)) - 1
      BY <1>3, <2>2, <3>1, OneLess
    <3>3. Cardinality(Counted(q)) \in Nat /\ Cardinality(Counted(q)') \in Nat
      BY <1>3, <2>2, Fewer
    <3>4. active'[q] = active[q] - 1
      BY <1>1, <2>1, <2>3 DEF TypeOK
    <3> QED BY <1>1, <1>3, <3>2, <3>3, <3>4
  <2>4. CASE q # r
    <3>1. active'[q] = active[q]
      BY <1>1, <2>1, <2>4 DEF TypeOK
    <3> QED BY <1>1, <1>3, <2>2, <3>1, Fewer
  <2> QED BY <2>3, <2>4
<1>6. CASE ~ConsumeCount(s) /\ ~AccessUncount(s)
  <2>1. active' = active
    BY <1>1, <1>6, SubMoves
  <2>2. s \in Counted(q)' => s \in Counted(q)
    BY <1>1, <1>6, SubMoves DEF Counted
  <2>3. Counted(q)' \subseteq Counted(q)
    BY <1>2, <1>3, <2>2
  <2> QED BY <1>1, <1>3, <2>1, <2>3, Fewer
<1> QED BY <1>4, <1>5, <1>6

LEMMA ClaimsSub == ASSUME IndInv, NEW s \in Subs, SubStep(s) PROVE ClaimsCovered'
<1> SUFFICES ASSUME NEW q \in Slots PROVE Cardinality(Claims(q)') <= remaining'[q]
  BY DEF ClaimsCovered
<1> DEFINE r == SlotOf(sMsg[s])
<1>1. r \in Slots /\ TypeOK /\ remaining[q] \in Nat /\ active[q] \in Nat
  BY SlotOfType DEF IndInv, TypeOK
<1>2. /\ Cardinality(Claims(q)) <= remaining[q] /\ Cardinality(Counted(q)) <= active[q]
      /\ Claims(q) \in SUBSET Counted(q) /\ Counted(q) \in SUBSET Subs
      /\ Claims(q) \in SUBSET Subs /\ Claims(q)' \in SUBSET Subs
  BY SetsOfSubs DEF IndInv, Counts, ActiveCovers, ClaimsCovered, Claims, Admitted
<1>3. ASSUME remaining'[q] <= remaining[q], remaining'[q] \in Nat
      PROVE  \A t \in Subs \ {s} : t \in Claims(q)' => t \in Claims(q)
  BY <1>1, <1>3, SubFrame DEF Claims, Admitted, TypeOK
<1>4. CASE ConsumeCount(s)
  <2>1. /\ remaining' = remaining /\ sMsg' = sMsg
        /\ spc'[s] = "limit" /\ sOld'[s] = active[r]
    BY <1>1, <1>4 DEF ConsumeCount, Goto, TypeOK
  <2>2. Claims(q)' \subseteq Claims(q) \cup {s}
    BY <1>1, <1>2, <1>3, <2>1
  <2>3. CASE s \notin Claims(q)'
    <3>1. Claims(q)' \subseteq Claims(q)
      BY <2>2, <2>3
    <3> QED BY <1>1, <1>2, <2>1, <3>1, Fewer
  <2>4. CASE s \in Claims(q)'
    <3>1. q = r /\ active[q] < remaining[q]
      BY <2>1, <2>4 DEF Claims, Admitted
    <3>2. Cardinality(Claims(q)') <= Cardinality(Claims(q)) + 1
      BY <1>2, <2>2, OneMore
    <3>3. Cardinality(Claims(q)) <= Cardinality(Counted(q)) /\ Cardinality(Claims(q)) \in Nat
           /\ Cardinality(Counted(q)) \in Nat
      BY <1>2, Fewer
    <3>4. Cardinality(Claims(q)') \in Nat
      BY <1>2, Fewer
    <3> QED BY <1>1, <1>2, <2>1, <3>1, <3>2, <3>3, <3>4
  <2> QED BY <2>3, <2>4
<1>5. CASE AccessRelease(s)
  <2>1. /\ remaining' = [remaining EXCEPT ![r] = @ - 1]
        /\ spc[s] = "callback" /\ spc'[s] \in {"reset", "unlock"}
    BY <1>1, <1>5 DEF AccessRelease, Goto, TypeOK
  <2>2. remaining[r] > 0
    BY <2>1, AdmittedHasReference
  <2>3. s \notin Claims(q)'
    BY <2>1 DEF Claims, Admitted
  <2>4. CASE q = r
    <3>1. remaining'[q] = remaining[q] - 1 /\ remaining'[q] \in Nat
      BY <1>1, <2>1, <2>2, <2>4 DEF TypeOK
    <3>2. s \in Claims(q)
      BY <2>1, <2>4 DEF Claims, Admitted
    <3>3. Claims(q)' \subseteq Claims(q) \ {s}
      BY <1>1, <1>2, <1>3, <2>3, <3>1
    <3>4. Cardinality(Claims(q)') <= Cardinality(Claims(q)) - 1
      BY <1>2, <3>2, <3>3, OneLess
    <3>5. Cardinality(Claims(q)') \in Nat /\ Cardinality(Claims(q)) \in Nat
      BY <1>2, Fewer
    <3> QED BY <1>1, <1>2, <3>1, <3>4, <3>5
  <2>5. CASE q # r
    <3>1. remaining'[q] = remaining[q]
      BY <1>1, <2>1, <2>5 DEF TypeOK
    <3>2. Claims(q)' \subseteq Claims(q)
      BY <1>1, <1>2, <1>3, <2>3, <3>1
    <3> QED BY <1>1, <1>2, <3>1, <3>2, Fewer
  <2> QED BY <2>4, <2>5
<1>6. CASE ~ConsumeCount(s) /\ ~AccessRelease(s)
  <2>1. remaining' = remaining
    BY <1>1, <1>6, SubMoves
  <2>2. s \in Claims(q)' => s \in Claims(q)
    BY <1>1, <1>6, <2>1, SubMoves DEF Claims, Admitted, CountedAt
  <2>3. Claims(q)' \subseteq Claims(q)
    BY <1>1, <1>2, <1>3, <2>1, <2>2
  <2> QED BY <1>1, <1>2, <2>1, <2>3, Fewer
<1> QED BY <1>4, <1>5, <1>6

LEMMA JoinedSub == ASSUME IndInv, NEW s \in Subs, SubStep(s) PROVE SubsCounted'
<1>1. /\ TypeOK /\ numSubs = Cardinality(Joined) /\ IsFiniteSet(Joined)
      /\ \A t \in Subs \ {s} : spc'[t] = spc[t]
  BY SubFrame, SubsAssumption, FS_Subset DEF IndInv, Counts, SubsCounted, Joined
<1>2. CASE Subscribe(s)
  <2>1. Joined' = Joined \cup {s} /\ s \notin Joined /\ numSubs' = numSubs + 1
    BY <1>1, <1>2 DEF Subscribe, Goto, Joined, TypeOK
  <2>2. Cardinality(Joined \cup {s}) = Cardinality(Joined) + 1
    BY <1>1, <2>1, FS_AddElement
  <2> QED BY <1>1, <2>1, <2>2 DEF SubsCounted
<1>3. CASE Cancel(s)
  <2>1. Joined' = Joined \ {s} /\ s \in Joined /\ numSubs' = numSubs - 1
    BY <1>1, <1>3 DEF Cancel, Goto, Joined, TypeOK
  <2>2. Cardinality(Joined \ {s}) = Cardinality(Joined) - 1
    BY <1>1, <2>1, FS_RemoveElement
  <2> QED BY <1>1, <2>1, <2>2 DEF SubsCounted
<1>4. CASE ~Subscribe(s) /\ ~Cancel(s)
  <2> USE <1>1 DEF TypeOK, Goto, Return
  <2>1. spc[s] # "out" /\ spc'[s] # "out" /\ numSubs' = numSubs
    <3>1. CASE SubscribeNext(s) \/ Receive(s)
      BY <3>1 DEF SubscribeNext, Receive
    <3>2. CASE ReceiveCheckId(s) \/ ConsumeCheckValue(s) \/ ConsumeCount(s)
      BY <3>2 DEF ReceiveCheckId, ConsumeCheckValue, ConsumeCount
    <3>3. CASE ConsumeLimit(s) \/ ConsumeLock(s)
      BY <3>3 DEF ConsumeLimit, ConsumeLock
    <3>4. CASE AccessRelease(s) \/ AccessReset(s) \/ AccessUnlock(s) \/ AccessUncount(s)
      BY <3>4 DEF AccessRelease, AccessReset, AccessUnlock, AccessUncount
    <3> QED BY <1>4, <3>1, <3>2, <3>3, <3>4 DEF SubStep
  <2>2. Joined' = Joined
    BY <2>1 DEF Joined
  <2> QED BY <2>1, <2>2 DEF SubsCounted
<1> QED BY <1>2, <1>3, <1>4

\* The publisher only sets the references of a slot, to the number of
\* subscribers, of which those let in are a part.
LEMMA CountsPublish == ASSUME IndInv, Publish PROVE Counts'
<1>1. /\ UNCHANGED <<active, numSubs, spc, sMsg, sOld>> /\ SlotOf(next) \in Slots
      /\ TypeOK
  BY PubFrame, SlotOfType DEF IndInv, TypeOK
<1>2. SubsCounted' /\ ActiveCovers'
  BY <1>1 DEF IndInv, Counts, SubsCounted, ActiveCovers, Joined, Counted
<1>3. ClaimsCovered'
  <2> SUFFICES ASSUME NEW q \in Slots PROVE Cardinality(Claims(q)') <= remaining'[q]
    BY DEF ClaimsCovered
  <2>1. CASE remaining'[q] = remaining[q]
    <3>1. Claims(q)' = Claims(q)
      BY <1>1, <2>1 DEF Claims, Admitted
    <3> QED BY <2>1, <3>1 DEF IndInv, Counts, ClaimsCovered
  <2>2. CASE remaining'[q] # remaining[q]
    <3>1. PubCount
      BY <2>2 DEF Publish, PubWritable, PubEmplace, PubRelease, PubNotify, msgVars
    <3>2. remaining'[q] = numSubs
      BY <1>1, <2>2, <3>1 DEF PubCount, TypeOK
    <3>3. Claims(q)' \subseteq Joined /\ Joined \in SUBSET Subs
      BY <1>1 DEF Claims, Admitted, Joined
    <3> QED BY <3>2, <3>3, Fewer DEF IndInv, Counts, SubsCounted
  <2> QED BY <2>1, <2>2
<1> QED BY <1>2, <1>3 DEF Counts

-----------------------------------------------------------------------------
(* What is stored                                                          *)

\* A subscriber changes a value only by resetting it, a number never.
LEMMA ValuesSub ==
  ASSUME TypeOK, NEW s \in Subs, SubStep(s)
  PROVE  val' = val \/ (AccessReset(s) /\ val' = [val EXCEPT ![SlotOf(sMsg[s])] = None])
  BY DEF SubStep, Subscribe, SubscribeNext, Cancel, Receive, ReceiveCheckId,
         ConsumeCheckValue, ConsumeCount, ConsumeLimit, ConsumeLock, AccessRelease,
         AccessReset, AccessUnlock, AccessUncount, msgVars

LEMMA StoredSub == ASSUME IndInv, NEW s \in Subs, SubStep(s) PROVE Stored'
<1>1. /\ UNCHANGED <<writing, next, ppc, ptodo, mid>> /\ TypeOK
      /\ SlotOf(next) \in Slots /\ SlotOf(sMsg[s]) \in Slots
  BY SubFrame, SlotOfType DEF IndInv, TypeOK
<1>2. CASE val' = val
  BY <1>1, <1>2 DEF IndInv, Stored, IdsKnown, StoresDone, ValuesKnown
<1>3. CASE AccessReset(s) /\ val' = [val EXCEPT ![SlotOf(sMsg[s])] = None]
  <2>1. ~writing[SlotOf(sMsg[s])]
    BY <1>3, ReaderExcludesWriter DEF AccessReset
  <2>2. ppc \in {"emplace", "release"} => val'[SlotOf(next)] = val[SlotOf(next)]
    BY <1>1, <1>3, <2>1 DEF IndInv, WritersExclude, Writes, TypeOK
  <2>3. IdsKnown' /\ StoresDone'
    BY <1>1, <2>2 DEF IndInv, Stored, IdsKnown, StoresDone
  <2>4. ValuesKnown'
    BY <1>1, <1>3 DEF IndInv, Stored, ValuesKnown, TypeOK
  <2> QED BY <2>3, <2>4 DEF Stored
<1> QED BY <1>1, <1>2, <1>3, ValuesSub

LEMMA StoredPublish == ASSUME IndInv, Publish PROVE Stored'
<1>1. SlotOf(next) \in Slots /\ TypeOK /\ Stored
  BY SlotOfType DEF IndInv, TypeOK
<1> USE <1>1 DEF TypeOK, Stored, IdsKnown, StoresDone, ValuesKnown, msgVars, Writes
<1>2. CASE PubWritable
  BY <1>2 DEF PubWritable
<1>3. CASE PubCount
  BY <1>3 DEF PubCount
<1>4. ASSUME NEW f \in {"value", "id"}, PubEmplace(f) PROVE Stored'
  <2>1. CASE f = "value"
    <3>1. /\ ppc = "emplace" /\ val' = [val EXCEPT ![SlotOf(next)] = next]
          /\ ptodo' = ptodo \ {"value"} /\ UNCHANGED <<mid, next>>
          /\ ppc' = IF ptodo = {"value"} THEN "release" ELSE "emplace"
      BY <1>4, <2>1 DEF PubEmplace
    <3> QED BY <3>1
  <2>2. CASE f = "id"
    <3>1. /\ ppc = "emplace" /\ mid' = [mid EXCEPT ![SlotOf(next)] = next]
          /\ ptodo' = ptodo \ {"id"} /\ UNCHANGED <<val, next>>
          /\ ppc' = IF ptodo = {"id"} THEN "release" ELSE "emplace"
      BY <1>4, <2>2 DEF PubEmplace
    <3> QED BY <3>1
  <2> QED BY <2>1, <2>2
<1>5. CASE PubRelease
  BY <1>5 DEF PubRelease
<1>6. CASE PubNotify
  BY <1>6 DEF PubNotify
<1> QED BY <1>2, <1>3, <1>4, <1>5, <1>6 DEF Publish

LEMMA KeptSub == ASSUME IndInv, NEW s \in Subs, SubStep(s) PROVE Kept'
<1> DEFINE r == SlotOf(sMsg[s])
<1>1. /\ UNCHANGED <<writing, mid>> /\ TypeOK /\ Kept /\ r \in Slots
      /\ \A t \in Subs \ {s} : spc'[t] = spc[t] /\ sMsg'[t] = sMsg[t]
      /\ \A t \in Subs : SlotOf(sMsg[t]) \in Slots
  BY SubFrame, SlotOfType DEF IndInv, TypeOK
<1>2. \/ remaining' = remaining
      \/ AccessRelease(s) /\ remaining' = [remaining EXCEPT ![r] = @ - 1]
  BY <1>1, SubMoves DEF AccessRelease, ConsumeCount
<1>3. KeptWhileReferenced'
  <2> SUFFICES ASSUME NEW q \in Slots, remaining'[q] > 0, ~writing'[q] PROVE val'[q] # None
    BY DEF KeptWhileReferenced
  <2>1. remaining[q] > 0
    BY <1>1, <1>2 DEF TypeOK
  <2>2. val[q] # None
    BY <1>1, <2>1 DEF Kept, KeptWhileReferenced
  <2>3. CASE AccessReset(s) /\ val' = [val EXCEPT ![r] = None]
    <3>1. remaining[r] = 0
      BY <1>1, <2>3 DEF AccessReset, Kept, ResetIsLast
    <3> QED BY <1>1, <2>1, <2>2, <2>3, <3>1 DEF TypeOK
  <2> QED BY <1>1, <2>2, <2>3, ValuesSub
<1>4. ResetIsLast'
  <2> SUFFICES ASSUME NEW t \in Subs, spc'[t] = "reset" PROVE remaining'[SlotOf(sMsg'[t])] = 0
    BY DEF ResetIsLast
  <2>1. CASE AccessRelease(s)
    <3>1. /\ spc[s] = "callback" /\ sMsg' = sMsg /\ remaining' = [remaining EXCEPT ![r] = @ - 1]
          /\ spc'[s] = IF remaining[r] = 1 THEN "reset" ELSE "unlock"
      BY <1>1, <2>1 DEF AccessRelease, Goto, TypeOK
    <3>2. remaining[r] > 0
      BY <3>1, AdmittedHasReference
    <3>3. CASE t = s
      BY <1>1, <3>1, <3>3 DEF TypeOK
    <3>4. CASE t # s
      BY <1>1, <3>1, <3>2, <3>4 DEF TypeOK, Kept, ResetIsLast
    <3> QED BY <3>3, <3>4
  <2>2. CASE ~AccessRelease(s)
    <3>1. t # s
      BY <1>1, <2>2 DEF SubStep, Subscribe, SubscribeNext, Cancel, Receive, ReceiveCheckId,
         ConsumeCheckValue, ConsumeCount, ConsumeLimit, ConsumeLock,
         AccessReset, AccessUnlock, AccessUncount, Goto, Return, TypeOK
    <3> QED BY <1>1, <1>2, <2>2, <3>1 DEF Kept, ResetIsLast
  <2> QED BY <2>1, <2>2
<1>5. NeverOlder'
  <2> SUFFICES ASSUME NEW t \in Subs, spc'[t] \in ExpectsAt
               PROVE  LET m == mid[SlotOf(sMsg'[t])] IN m \in Nat /\ m >= sMsg'[t]
    BY <1>1 DEF NeverOlder
  <2>1. CASE t # s
    BY <1>1, <2>1 DEF Kept, NeverOlder
  <2>2. CASE t = s /\ ReceiveCheckId(s)
    BY <1>1, <2>2 DEF ReceiveCheckId, Goto, Return, TypeOK, ExpectsAt, CountedAt
  <2>3. CASE t = s /\ ~ReceiveCheckId(s)
    <3>1. spc[s] \in ExpectsAt /\ sMsg'[s] = sMsg[s]
      <4> USE <1>1, <2>3 DEF TypeOK, Goto, Return, ExpectsAt, CountedAt
      <4>1. CASE Subscribe(s) \/ SubscribeNext(s) \/ Cancel(s) \/ Receive(s)
        BY <4>1 DEF Subscribe, SubscribeNext, Cancel, Receive
      <4>2. CASE ConsumeCheckValue(s) \/ ConsumeCount(s)
        BY <4>2 DEF ConsumeCheckValue, ConsumeCount
      <4>3. CASE ConsumeLimit(s) \/ ConsumeLock(s)
        BY <4>3 DEF ConsumeLimit, ConsumeLock
      <4>4. CASE AccessRelease(s) \/ AccessReset(s) \/ AccessUnlock(s) \/ AccessUncount(s)
        BY <4>4 DEF AccessRelease, AccessReset, AccessUnlock, AccessUncount
      <4> QED BY <4>1, <4>2, <4>3, <4>4 DEF SubStep
    <3> QED BY <1>1, <2>3, <3>1 DEF Kept, NeverOlder
  <2> QED BY <2>1, <2>2, <2>3
<1> QED BY <1>3, <1>4, <1>5 DEF Kept

LEMMA KeptPublish == ASSUME IndInv, Publish PROVE Kept'
<1> DEFINE p == SlotOf(next)
<1>1. /\ UNCHANGED <<spc, sMsg>> /\ TypeOK /\ Kept /\ p \in Slots
      /\ \A t \in Subs : SlotOf(sMsg[t]) \in Slots
      /\ next # None
  BY PubFrame, SlotOfType, NoneAssumption DEF IndInv, TypeOK
<1>2. \A q \in Slots : writing[q] <=> q = p /\ ppc \in Writes
  BY DEF IndInv, WritersExclude
<1>3. KeptWhileReferenced'
  <2> USE <1>1, <1>2 DEF Kept, KeptWhileReferenced, TypeOK, Writes, msgVars
  <2>1. CASE PubWritable
    BY <2>1 DEF PubWritable
  <2>2. CASE PubCount
    BY <2>2 DEF PubCount
  <2>3. ASSUME NEW f \in {"value", "id"}, PubEmplace(f) PROVE KeptWhileReferenced'
    BY <2>3 DEF PubEmplace
  <2>4. CASE PubRelease
    BY <2>4 DEF PubRelease, IndInv, Stored, StoresDone
  <2>5. CASE PubNotify
    BY <2>5 DEF PubNotify
  <2> QED BY <2>1, <2>2, <2>3, <2>4, <2>5 DEF Publish
<1>4. ResetIsLast'
  <2> SUFFICES ASSUME NEW t \in Subs, spc[t] = "reset" PROVE remaining'[SlotOf(sMsg[t])] = 0
    BY <1>1 DEF ResetIsLast
  <2>1. remaining[SlotOf(sMsg[t])] = 0 /\ ~writing[SlotOf(sMsg[t])]
    BY <1>1, ReaderExcludesWriter DEF Kept, ResetIsLast
  <2>2. CASE PubCount
    <3>1. SlotOf(sMsg[t]) # p
      BY <1>1, <1>2, <2>1, <2>2 DEF PubCount, Writes
    <3> QED BY <1>1, <2>1, <2>2, <3>1 DEF PubCount, TypeOK
  <2>3. CASE ~PubCount
    BY <2>1, <2>3 DEF Publish, PubWritable, PubEmplace, PubRelease, PubNotify, msgVars
  <2> QED BY <2>2, <2>3
<1>5. NeverOlder'
  <2>1. mid' = mid \/ (ppc = "emplace" /\ mid' = [mid EXCEPT ![p] = next])
    BY DEF Publish, PubWritable, PubCount, PubEmplace, PubRelease, PubNotify, msgVars
  <2> SUFFICES ASSUME NEW t \in Subs, spc[t] \in ExpectsAt
               PROVE  LET m == mid'[SlotOf(sMsg[t])] IN m \in Nat /\ m >= sMsg[t]
    BY <1>1 DEF NeverOlder
  <2>2. LET m == mid[SlotOf(sMsg[t])] IN m \in Nat /\ m >= sMsg[t] /\ m <= next
    BY <1>1, NoneAssumption DEF Kept, NeverOlder, IndInv, Stored, IdsKnown, TypeOK
  <2> QED BY <1>1, <2>1, <2>2 DEF TypeOK
<1> QED BY <1>3, <1>4, <1>5 DEF Kept

-----------------------------------------------------------------------------
(* Theorems                                                                *)

\* Every step of the publisher and of the subscribers preserves the
\* invariant: the locks of the messages exclude, the counters cover whom they
\* count, the stores of emplace are in order, and values stay while referenced.
THEOREM Invariance == Spec => []IndInv
<1>1. IndInv /\ [Next]_vars => IndInv'
  <2> SUFFICES ASSUME IndInv, [Next]_vars PROVE IndInv'
    OBVIOUS
  <2>1. CASE Publish
    BY <2>1, TypePublish, LocksPublish, CountsPublish, StoredPublish, KeptPublish DEF IndInv
  <2>2. ASSUME NEW s \in Subs, SubStep(s) PROVE IndInv'
    BY <2>2, TypeSub, LocksSub, ActiveSub, ClaimsSub, JoinedSub, StoredSub, KeptSub
       DEF IndInv, Counts
  <2>3. CASE UNCHANGED vars
    BY <2>3 DEF vars, IndInv, TypeOK, WritersExclude, Readers, Counts, SubsCounted, Joined,
       ActiveCovers, Counted, ClaimsCovered, Claims, Admitted, Stored, IdsKnown, StoresDone,
       ValuesKnown, Kept, KeptWhileReferenced, ResetIsLast, NeverOlder
  <2> QED BY <2>1, <2>2, <2>3 DEF Next, SubStep
<1> QED BY <1>1, InitHolds, PTL DEF Spec

\* Never more readers are let in by consume than the message has references
\* left, however many subscribers join, cancel and overtake one another.
THEOREM ReferencesCoverHolds == Spec => []ReferencesCover
<1>1. IndInv => ReferencesCover
  <2> SUFFICES ASSUME IndInv, NEW q \in Slots PROVE Cardinality(Admitted(q)) <= remaining[q]
    BY DEF ReferencesCover
  <2>1. Cardinality(Claims(q)) <= remaining[q] /\ remaining[q] \in Nat
    BY DEF IndInv, Counts, ClaimsCovered, TypeOK
  <2>2. Cardinality(Admitted(q)) <= Cardinality(Claims(q)) /\ Cardinality(Admitted(q)) \in Nat
         /\ Cardinality(Claims(q)) \in Nat
    BY SetsOfSubs, Fewer
  <2> QED BY <2>1, <2>2
<1> QED BY <1>1, Invariance, PTL

\* A message on which a callback runs is there and is the number in its slot.
LEMMA CallbackHasMessage ==
  ASSUME IndInv, NEW s \in Subs, spc[s] = "callback"
  PROVE  LET q == SlotOf(sMsg[s])
         IN  /\ q \in Slots /\ remaining[q] > 0 /\ ~writing[q]
             /\ val[q] # None /\ val[q] = mid[q]
<1> DEFINE q == SlotOf(sMsg[s])
<1>1. q \in Slots /\ remaining[q] > 0 /\ ~writing[q]
  BY SlotOfType, AdmittedHasReference, ReaderExcludesWriter DEF IndInv, TypeOK
<1>2. val[q] # None
  BY <1>1 DEF IndInv, Kept, KeptWhileReferenced
<1>3. val[q] = mid[q]
  BY <1>1, <1>2 DEF IndInv, Stored, ValuesKnown, WritersExclude, Writes
<1> QED BY <1>1, <1>2, <1>3

\* The callback of receive never runs on an empty message, and what it reads
\* is the expected message or one that took its slot later.
THEOREM ReadsAMessageHolds == Spec => []ReadsAMessage
<1>1. IndInv => ReadsAMessage
  <2> SUFFICES ASSUME IndInv, NEW s \in Subs, spc[s] = "callback"
               PROVE  LET v == val[SlotOf(sMsg[s])]
                      IN  v # None /\ v >= sMsg[s] /\ SlotOf(v) = SlotOf(sMsg[s])
    BY DEF ReadsAMessage
  <2> DEFINE q == SlotOf(sMsg[s])
  <2>1. q \in Slots /\ val[q] # None /\ val[q] = mid[q]
    BY CallbackHasMessage
  <2>2. mid[q] >= sMsg[s]
    BY DEF IndInv, Kept, NeverOlder, ExpectsAt, CountedAt
  <2>3. SlotOf(mid[q]) = q
    BY <2>1 DEF IndInv, Stored, IdsKnown
  <2> QED BY <2>1, <2>2, <2>3
<1> QED BY <1>1, Invariance, PTL

\* No step of the publisher and no reset by another reader touches value or
\* number of a message while a callback runs on it.
THEOREM StableWhileReadHolds == Spec => StableWhileRead
<1> DEFINE Stable == \A s \in Subs : spc[s] = "callback" =>
                       UNCHANGED <<val[SlotOf(sMsg[s])], mid[SlotOf(sMsg[s])]>>
<1>1. IndInv /\ [Next]_vars => [Stable]_vars
  <2> SUFFICES ASSUME IndInv, Next, NEW s \in Subs, spc[s] = "callback"
               PROVE  UNCHANGED <<val[SlotOf(sMsg[s])], mid[SlotOf(sMsg[s])]>>
    OBVIOUS
  <2>1. PICK q \in Slots : q = SlotOf(sMsg[s])
    BY SlotOfType DEF IndInv, TypeOK
  <2>2. remaining[q] > 0 /\ ~writing[q] /\ TypeOK /\ SlotOf(next) \in Slots
    BY <2>1, CallbackHasMessage, SlotOfType DEF IndInv, TypeOK
  <2>3. CASE Publish
    <3>1. sMsg' = sMsg
      BY <2>3, PubFrame
    <3>2. \/ UNCHANGED <<val, mid>>
          \/ ppc = "emplace" /\ val' = [val EXCEPT ![SlotOf(next)] = next] /\ mid' = mid
          \/ ppc = "emplace" /\ mid' = [mid EXCEPT ![SlotOf(next)] = next] /\ val' = val
      BY <2>3 DEF Publish, PubWritable, PubCount, PubEmplace, PubRelease, PubNotify, msgVars
    <3>3. ppc = "emplace" => q # SlotOf(next)
      BY <2>2 DEF IndInv, WritersExclude, Writes
    <3>4. val'[q] = val[q] /\ mid'[q] = mid[q]
      BY <2>2, <3>2, <3>3 DEF TypeOK
    <3> QED BY <2>1, <3>1, <3>4
  <2>4. ASSUME NEW t \in Subs, SubStep(t)
        PROVE  UNCHANGED <<val[SlotOf(sMsg[s])], mid[SlotOf(sMsg[s])]>>
    <3>1. mid' = mid /\ (t # s => sMsg'[s] = sMsg[s])
      BY <2>2, <2>4, SubFrame
    <3>2. t = s => AccessRelease(s)
      BY <2>4 DEF SubStep, Subscribe, SubscribeNext, Cancel, Receive, ReceiveCheckId,
         ConsumeCheckValue, ConsumeCount, ConsumeLimit, ConsumeLock, AccessReset,
         AccessUnlock, AccessUncount
    <3>3. sMsg'[s] = sMsg[s]
      BY <3>1, <3>2 DEF AccessRelease
    <3>4. val'[q] = val[q]
      <4>1. CASE AccessReset(t) /\ val' = [val EXCEPT ![SlotOf(sMsg[t])] = None]
        <5>1. remaining[SlotOf(sMsg[t])] = 0
          BY <4>1 DEF AccessReset, IndInv, Kept, ResetIsLast
        <5> QED BY <2>2, <4>1, <5>1 DEF TypeOK
      <4> QED BY <2>2, <2>4, <4>1, ValuesSub
    <3> QED BY <2>1, <3>1, <3>3, <3>4
  <2> QED BY <2>3, <2>4 DEF Next, SubStep
<1>2. Spec => [][Stable]_vars
  BY <1>1, Invariance, PTL DEF Spec
<1> QED BY <1>2 DEF StableWhileRead
=============================================================================
