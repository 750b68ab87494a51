-------------------------------- MODULE Fifo --------------------------------
(***************************************************************************)
(* The sequence mode of publish_subscribe/fifo_seq: one publisher writes   *)
(* messages round-robin into a shared-memory queue, every subscriber reads *)
(* them by their number, and each message counts the references still to   *)
(* be consumed.                                                            *)
(*                                                                         *)
(* One action per access to shared memory.  The shared_mutex of a message  *)
(* is taken as the reader/writer lock it implements (SharedMutex), whose   *)
(* tries may also fail for want of a quiet moment between other readers.   *)
(* The numbers of messages stand for their contents.                       *)
(***************************************************************************)
EXTENDS Integers, FiniteSets

CONSTANTS
  Subs,          \* processes that construct a Subscriber on the topic
  QueueSize,     \* size of the queue, a power of two
  MaxMessages,   \* bound: messages published in a behaviour
  MaxCancels,    \* bound: subscriptions cancelled in a behaviour
  None           \* empty optional; the id max() of an unused message

ASSUME SubsAssumption == IsFiniteSet(Subs)
ASSUME QueueAssumption ==
  QueueSize \in Nat \ {0} /\ MaxMessages \in Nat /\ MaxCancels \in Nat
ASSUME NoneAssumption == None \notin Nat

Slots == 0 .. QueueSize - 1

\* shm_message_queue::operator[]: message_id & (size - 1).
SlotOf(id) == id % QueueSize

VARIABLES
  val,        \* slot -> _opt_value: number of the message, or None
  mid,        \* slot -> _message_id
  remaining,  \* slot -> _remaining_references
  active,     \* slot -> _active_reference_counter
  writing,    \* slot -> _mutex is locked exclusively
  next,       \* header: message_id.next
  numSubs,    \* header: num_subscribers
  ppc,        \* control point of the publisher
  ptodo,      \* plain stores of emplace not yet in memory
  spc,        \* subscriber -> control point
  sNext,      \* subscriber -> _next_message_id
  sMsg,       \* subscriber -> msg_id of receive
  sOld,       \* subscriber -> what its fetch_add in consume returned
  cancels     \* cancellations so far

msgVars == <<val, mid, remaining, active, writing>>
pubVars == <<next, ppc, ptodo>>
subVars == <<numSubs, spc, sNext, sMsg, sOld, cancels>>
vars == <<val, mid, remaining, active, writing, next, numSubs, ppc, ptodo, spc,
          sNext, sMsg, sOld, cancels>>

\* The queue as init_at leaves it.
Init ==
  /\ val = [q \in Slots |-> None]
  /\ mid = [q \in Slots |-> None]
  /\ remaining = [q \in Slots |-> 0]
  /\ active = [q \in Slots |-> 0]
  /\ writing = [q \in Slots |-> FALSE]
  /\ next = 0
  /\ numSubs = 0
  /\ ppc = "idle"
  /\ ptodo = {}
  /\ spc = [s \in Subs |-> "out"]
  /\ sNext = [s \in Subs |-> 0]
  /\ sMsg = [s \in Subs |-> 0]
  /\ sOld = [s \in Subs |-> 0]
  /\ cancels = 0

\* The subscribers that have been let in by consume and have not given their
\* reference back, and those that hold the message's lock shared.
Admitted(q) == {s \in Subs : SlotOf(sMsg[s]) = q /\ spc[s] \in {"lock", "callback"}}
Readers(q) ==
  {s \in Subs : SlotOf(sMsg[s]) = q /\ spc[s] \in {"callback", "reset", "unlock"}}

-----------------------------------------------------------------------------
(* Publisher                                                               *)

\* Mutant: the writer does not wait for readers.
WritableWhileRead ==
  /\ ppc = "idle" /\ next < MaxMessages
  /\ ~writing[SlotOf(next)]
  /\ writing' = [writing EXCEPT ![SlotOf(next)] = TRUE]
  /\ ppc' = "count"
  /\ UNCHANGED <<val, mid, remaining, active, next, ptodo, subVars>>

\* _m_publish: request_writable on the next slot, whatever it holds; without
\* the lock publish() fails and changes nothing.
PubWritable ==
  /\ ppc = "idle" /\ next < MaxMessages
  /\ ~writing[SlotOf(next)] /\ Readers(SlotOf(next)) = {}
  /\ writing' = [writing EXCEPT ![SlotOf(next)] = TRUE]
  /\ ppc' = "count"
  /\ UNCHANGED <<val, mid, remaining, active, next, ptodo, subVars>>

\* emplace: the references are stored first ...
PubCount ==
  /\ ppc = "count"
  /\ remaining' = [remaining EXCEPT ![SlotOf(next)] = numSubs]
  /\ ptodo' = {"value", "id"}
  /\ ppc' = "emplace"
  /\ UNCHANGED <<val, mid, active, writing, next, subVars>>

\* ... then value and id, plain stores in either order.
PubEmplace(f) ==
  /\ ppc = "emplace" /\ f \in ptodo
  /\ IF f = "value"
       THEN val' = [val EXCEPT ![SlotOf(next)] = next] /\ UNCHANGED mid
       ELSE mid' = [mid EXCEPT ![SlotOf(next)] = next] /\ UNCHANGED val
  /\ ptodo' = ptodo \ {f}
  /\ ppc' = IF ptodo = {f} THEN "release" ELSE "emplace"
  /\ UNCHANGED <<remaining, active, writing, next, subVars>>

\* The write access is gone before the subscribers hear of the message.
PubRelease ==
  /\ ppc = "release"
  /\ writing' = [writing EXCEPT ![SlotOf(next)] = FALSE]
  /\ ppc' = "notify"
  /\ UNCHANGED <<val, mid, remaining, active, next, ptodo, subVars>>

PubNotify ==
  /\ ppc = "notify"
  /\ next' = next + 1
  /\ ppc' = "idle"
  /\ UNCHANGED <<msgVars, ptodo, subVars>>

-----------------------------------------------------------------------------
(* Subscriber                                                              *)

Goto(s, point) == spc' = [spc EXCEPT ![s] = point]

\* receive returns; its locals are gone.
Return(s) ==
  /\ Goto(s, "idle")
  /\ sMsg' = [sMsg EXCEPT ![s] = 0]
  /\ sOld' = [sOld EXCEPT ![s] = 0]

\* subscribe: the subscriber is counted before it looks where to begin.
Subscribe(s) ==
  /\ spc[s] = "out"
  /\ numSubs' = numSubs + 1
  /\ Goto(s, "joining")
  /\ UNCHANGED <<msgVars, pubVars, sNext, sMsg, sOld, cancels>>

SubscribeNext(s) ==
  /\ spc[s] = "joining"
  /\ sNext' = [sNext EXCEPT ![s] = next]
  /\ Goto(s, "idle")
  /\ UNCHANGED <<msgVars, pubVars, numSubs, sMsg, sOld, cancels>>

\* cancel_subscription: references of unread messages stay as they are.
Cancel(s) ==
  /\ spc[s] = "idle" /\ cancels < MaxCancels
  /\ numSubs' = numSubs - 1
  /\ cancels' = cancels + 1
  /\ Goto(s, "out")
  /\ UNCHANGED <<msgVars, pubVars, sNext, sMsg, sOld>>

\* receive, once _m_wait_for_data sees another number than the expected one.
Receive(s) ==
  /\ spc[s] = "idle" /\ next # sNext[s]
  /\ sMsg' = [sMsg EXCEPT ![s] = sNext[s]]
  /\ sNext' = [sNext EXCEPT ![s] = @ + 1]
  /\ Goto(s, "checkId")
  /\ UNCHANGED <<msgVars, pubVars, numSubs, sOld, cancels>>

\* The number in the slot is compared with the expected one, unlocked.
ReceiveCheckId(s) ==
  /\ spc[s] = "checkId"
  /\ IF mid[SlotOf(sMsg[s])] = sMsg[s]
       THEN Goto(s, "checkValue") /\ UNCHANGED <<sMsg, sOld>>
       ELSE Return(s)
  /\ UNCHANGED <<msgVars, pubVars, numSubs, sNext, cancels>>

\* consume: is there a value (unlocked) ...
ConsumeCheckValue(s) ==
  /\ spc[s] = "checkValue"
  /\ IF val[SlotOf(sMsg[s])] # None
       THEN Goto(s, "count") /\ UNCHANGED <<sMsg, sOld>>
       ELSE Return(s)
  /\ UNCHANGED <<msgVars, pubVars, numSubs, sNext, cancels>>

\* ... count the access ...
ConsumeCount(s) ==
  /\ spc[s] = "count"
  /\ sOld' = [sOld EXCEPT ![s] = active[SlotOf(sMsg[s])]]
  /\ active' = [active EXCEPT ![SlotOf(sMsg[s])] = @ + 1]
  /\ Goto(s, "limit")
  /\ UNCHANGED <<val, mid, remaining, writing, pubVars, numSubs, sNext, sMsg, cancels>>

\* Mutant: one access too many is let in.
LimitOffByOne(s) ==
  /\ spc[s] = "limit"
  /\ IF sOld[s] <= remaining[SlotOf(sMsg[s])]
       THEN Goto(s, "lock") /\ UNCHANGED <<sMsg, sOld>>
       ELSE Return(s)
  /\ UNCHANGED <<msgVars, pubVars, numSubs, sNext, cancels>>

\* ... compare with the references left; a refused access stays counted ...
ConsumeLimit(s) ==
  /\ spc[s] = "limit"
  /\ IF sOld[s] < remaining[SlotOf(sMsg[s])]
       THEN Goto(s, "lock") /\ UNCHANGED <<sMsg, sOld>>
       ELSE Return(s)
  /\ UNCHANGED <<msgVars, pubVars, numSubs, sNext, cancels>>

\* ... and lock the message, on whose value the callback then runs, unless
\* the publisher is writing it or other readers change the mutex in every
\* round of the try; the access stays counted then too.
ConsumeLock(s) ==
  /\ spc[s] = "lock"
  /\ \/ /\ ~writing[SlotOf(sMsg[s])]
        /\ Goto(s, "callback") /\ UNCHANGED <<sMsg, sOld>>
     \/ /\ writing[SlotOf(sMsg[s])] \/ Subs # {s}
        /\ Return(s)
  /\ UNCHANGED <<msgVars, pubVars, numSubs, sNext, cancels>>

\* ~Access<READ>: the last reference resets the value under the shared lock.
AccessRelease(s) ==
  LET q == SlotOf(sMsg[s])
  IN  /\ spc[s] = "callback"
      /\ remaining' = [remaining EXCEPT ![q] = @ - 1]
      /\ Goto(s, IF remaining[q] = 1 THEN "reset" ELSE "unlock")
      /\ UNCHANGED <<val, mid, active, writing, pubVars, numSubs, sNext, sMsg,
                     sOld, cancels>>

AccessReset(s) ==
  /\ spc[s] = "reset"
  /\ val' = [val EXCEPT ![SlotOf(sMsg[s])] = None]
  /\ Goto(s, "unlock")
  /\ UNCHANGED <<mid, remaining, active, writing, pubVars, numSubs, sNext, sMsg,
                 sOld, cancels>>

AccessUnlock(s) ==
  /\ spc[s] = "unlock"
  /\ Goto(s, "uncount")
  /\ UNCHANGED <<msgVars, pubVars, numSubs, sNext, sMsg, sOld, cancels>>

AccessUncount(s) ==
  /\ spc[s] = "uncount"
  /\ active' = [active EXCEPT ![SlotOf(sMsg[s])] = @ - 1]
  /\ Return(s)
  /\ UNCHANGED <<val, mid, remaining, writing, pubVars, numSubs, sNext, cancels>>

-----------------------------------------------------------------------------

Publish ==
  PubWritable \/ PubCount \/ PubRelease \/ PubNotify
    \/ \E f \in {"value", "id"} : PubEmplace(f)

Next ==
  \/ Publish
  \/ \E s \in Subs :
       \/ Subscribe(s) \/ SubscribeNext(s) \/ Cancel(s) \/ Receive(s)
       \/ ReceiveCheckId(s) \/ ConsumeCheckValue(s) \/ ConsumeCount(s)
       \/ ConsumeLimit(s) \/ ConsumeLock(s)
       \/ AccessRelease(s) \/ AccessReset(s) \/ AccessUnlock(s) \/ AccessUncount(s)

Spec == Init /\ [][Next]_vars

-----------------------------------------------------------------------------
(* Properties                                                              *)

\* While a callback runs on a message, nobody resets or overwrites it:
\* neither the publisher nor another reader that gives back what it takes
\* for the last reference (the case the comment in consume is about).
StableWhileRead ==
  [][\A s \in Subs : spc[s] = "callback" =>
       UNCHANGED <<val[SlotOf(sMsg[s])], mid[SlotOf(sMsg[s])]>>]_vars

\* A callback always has a message, the expected one or one that overwrote
\* it since the number was compared, never an older one.
ReadsAMessage ==
  \A s \in Subs : spc[s] = "callback" =>
    LET v == val[SlotOf(sMsg[s])]
    IN  v # None /\ v >= sMsg[s] /\ SlotOf(v) = SlotOf(sMsg[s])

\* References left cover the readers let in: whoever is admitted can give a
\* reference back, so the last one to do so is the only one that resets.
ReferencesCover == \A q \in Slots : Cardinality(Admitted(q)) <= remaining[q]
=============================================================================
