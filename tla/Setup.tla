------------------------------- MODULE Setup --------------------------------
(***************************************************************************)
(* How publishers and subscribers of one real-time topic find and          *)
(* initialise their shared memory: ShmRegistry (topic.cpp), creation and   *)
(* unlinking of the shared memory file, init_at and read_at of the message *)
(* buffer, and the locks of publisher and subscriber entries.              *)
(*                                                                         *)
(* Clients are the RealTimePublisher and RealTimeSubscriber objects, each  *)
(* in a process.  open_shm and create_shm each hold the global file lock   *)
(* throughout, so each is one step; between the two the lock is free.      *)
(* Processes exit or crash at any time.  Publishers agree on the options.  *)
(***************************************************************************)
EXTENDS Naturals, FiniteSets

CONSTANTS
  Pubs, Subs,    \* clients
  Procs,         \* processes
  Home,          \* client -> the process it lives in
  MaxPubs,       \* Options::max_publishers
  MaxSubs,       \* Options::max_subscribers
  MaxObjects,    \* bound: shared memory objects in a behaviour
  MaxEnds,       \* bound: exits and crashes in a behaviour
  Weak,          \* compare_exchange_weak may fail spuriously
  None           \* no object, no process

ASSUME ClientsAssumption == Pubs \cap Subs = {} /\ IsFiniteSet(Pubs \cup Subs)
ASSUME HomeAssumption == Home \in [Pubs \cup Subs -> Procs] /\ None \notin Procs
ASSUME BoundsAssumption ==
  /\ MaxPubs \in Nat \ {0} /\ MaxSubs \in Nat \ {0}
  /\ MaxObjects \in Nat /\ MaxEnds \in Nat /\ None \notin Nat
ASSUME WeakAssumption == Weak \in BOOLEAN

Clients == Pubs \cup Subs
Objects == 1 .. MaxObjects

\* The entry locks, files named <topic>_publisher_entry_<idx> and
\* <topic>_subscriber_entry_<idx>.
Limit(c) == IF c \in Pubs THEN MaxPubs ELSE MaxSubs
Entry(c, idx) == <<IF c \in Pubs THEN "publisher" ELSE "subscriber", idx>>
EntryLocks == ({"publisher"} \X (0 .. MaxPubs - 1))
              \cup ({"subscriber"} \X (0 .. MaxSubs - 1))

VARIABLES
  name,      \* object the file name stands for, or None
  count,     \* objects created so far
  creator,   \* object -> process that unlinks the name at its end, or None
  istate,    \* object -> initialization_state
  built,     \* object -> entries and messages have been constructed
  registry,  \* process -> object in _shm_registry, or None
  lock,      \* entry lock -> process that holds it, or None
  pc,        \* client -> control point of create()
  idx,       \* client -> entry it tries or owns
  late,      \* history: a timeout has come during an initialisation
  ends       \* exits and crashes so far

shmVars == <<name, count, creator, registry>>
bufVars == <<istate, built>>
vars == <<name, count, creator, istate, built, registry, lock, pc, idx, late, ends>>

Init ==
  /\ name = None
  /\ count = 0
  /\ creator = [o \in Objects |-> None]
  /\ istate = [o \in Objects |-> "uninitialized"]
  /\ built = [o \in Objects |-> FALSE]
  /\ registry = [p \in Procs |-> None]
  /\ lock = [e \in EntryLocks |-> None]
  /\ pc = [c \in Clients |-> "idle"]
  /\ idx = [c \in Clients |-> 0]
  /\ late = FALSE
  /\ ends = 0

Goto(c, point) == pc' = [pc EXCEPT ![c] = point]
Object(c) == registry[Home[c]]

\* Outcomes of create(), and a client that is not in a call of it.
Failed == {"failed", "full"}
Resting == {"idle", "up"} \cup Failed

-----------------------------------------------------------------------------
(* ShmRegistry::get_shm_entry                                              *)

\* _mutex: at most one client of a process is between open and create.
RegistryFree(c) == \A d \in Clients : Home[d] = Home[c] => pc[d] # "create"

\* open_shm: the registry of the process, or else the name.
OpenShm(c) ==
  /\ pc[c] \in Resting \ {"up"}
  /\ RegistryFree(c)
  /\ IF registry[Home[c]] # None
       THEN Goto(c, "read") /\ UNCHANGED registry
       ELSE IF name # None
              THEN /\ registry' = [registry EXCEPT ![Home[c]] = name]
                   /\ Goto(c, "read")
              ELSE Goto(c, "create") /\ UNCHANGED registry
  /\ UNCHANGED <<name, count, creator, bufVars, lock, idx, late, ends>>

\* create_shm by a publisher: whatever has the name by now loses it.
CreateShm(c) ==
  /\ pc[c] = "create"
  /\ c \in Pubs
  /\ count < MaxObjects
  /\ count' = count + 1
  /\ name' = count + 1
  /\ creator' = [creator EXCEPT ![count + 1] = Home[c]]
  /\ registry' = [registry EXCEPT ![Home[c]] = count + 1]
  /\ Goto(c, "read")
  /\ UNCHANGED <<bufVars, lock, idx, late, ends>>

\* create_shm by a subscriber, which asks for 0 bytes: the name is unlinked,
\* an empty file takes it, mmap refuses to map 0 bytes, and the destructor
\* of the file unlinks the name again.
CreateNothing(c) ==
  /\ pc[c] = "create"
  /\ c \in Subs
  /\ name' = None
  /\ Goto(c, "failed")
  /\ UNCHANGED <<count, creator, registry, bufVars, lock, idx, late, ends>>

-----------------------------------------------------------------------------
(* RealTimeMessageBuffer::read_at and init_at                              *)

Initialising(o) ==
  {c \in Clients : Object(c) = o /\ pc[c] \in {"construct", "cas", "body", "finish"}}

StartEntry(c) ==
  /\ Goto(c, "entry")
  /\ idx' = [idx EXCEPT ![c] = 0]

\* The wait of read_at ends well ...
ReadInitialized(c) ==
  /\ pc[c] = "read"
  /\ istate[Object(c)] = "initialized"
  /\ StartEntry(c)
  /\ UNCHANGED <<shmVars, bufVars, lock, late, ends>>

\* Mutant: the time is looked at before the state.
TimeoutIgnoresState(c) ==
  /\ pc[c] = "read"
  /\ late' = (late \/ Initialising(Object(c)) # {})
  /\ Goto(c, IF c \in Pubs THEN "construct" ELSE "failed")
  /\ UNCHANGED <<shmVars, bufVars, lock, idx, ends>>

\* Mutant: a publisher keeps waiting while an initialisation seems under way.
TimeoutOnlyUninitialized(c) ==
  /\ pc[c] = "read"
  /\ istate[Object(c)] = "uninitialized"
  /\ late' = (late \/ Initialising(Object(c)) # {})
  /\ Goto(c, IF c \in Pubs THEN "construct" ELSE "failed")
  /\ UNCHANGED <<shmVars, bufVars, lock, idx, ends>>

\* ... or after the timeout: a publisher goes on to init_at, a subscriber's
\* create fails.
ReadTimeout(c) ==
  /\ pc[c] = "read"
  /\ istate[Object(c)] # "initialized"
  /\ late' = (late \/ Initialising(Object(c)) # {})
  /\ Goto(c, IF c \in Pubs THEN "construct" ELSE "failed")
  /\ UNCHANGED <<shmVars, bufVars, lock, idx, ends>>

\* Mutant: the header that is there is kept.
ConstructKeepsState(c) ==
  /\ pc[c] = "construct"
  /\ Goto(c, "cas")
  /\ UNCHANGED <<shmVars, bufVars, lock, idx, late, ends>>

\* construct_at of the header, the state included, before any check of it.
InitConstruct(c) ==
  /\ pc[c] = "construct"
  /\ istate' = [istate EXCEPT ![Object(c)] = "uninitialized"]
  /\ Goto(c, "cas")
  /\ UNCHANGED <<shmVars, built, lock, idx, late, ends>>

\* A compare-and-swap of initialization_state.
Cas(c, from, to, next) ==
  \/ /\ istate[Object(c)] = from
     /\ istate' = [istate EXCEPT ![Object(c)] = to]
     /\ Goto(c, next)
  \/ /\ istate[Object(c)] # from \/ Weak
     /\ Goto(c, "failed")
     /\ UNCHANGED istate

InitCas(c) ==
  /\ pc[c] = "cas"
  /\ Cas(c, "uninitialized", "in_initialization", "body")
  /\ UNCHANGED <<shmVars, built, lock, idx, late, ends>>

\* Mutant: the state says initialized before the messages are constructed.
BodyAfterState(c) ==
  /\ pc[c] = "body"
  /\ istate' = [istate EXCEPT ![Object(c)] = "initialized"]
  /\ Goto(c, "finish")
  /\ UNCHANGED <<shmVars, built, lock, idx, late, ends>>

\* construct_at of every publisher entry, subscriber entry and message.
InitBody(c) ==
  /\ pc[c] = "body"
  /\ built' = [built EXCEPT ![Object(c)] = TRUE]
  /\ Goto(c, "finish")
  /\ UNCHANGED <<shmVars, istate, lock, idx, late, ends>>

InitFinish(c) ==
  /\ pc[c] = "finish"
  /\ Cas(c, "in_initialization", "initialized", "entry")
  /\ idx' = [idx EXCEPT ![c] = 0]
  /\ UNCHANGED <<shmVars, built, lock, late, ends>>

-----------------------------------------------------------------------------
(* get_new_publisher_entry, get_new_subscriber_entry_idx                   *)

\* One try_lock of the search: fcntl grants a lock that the same process
\* holds already.  After a round without success the search ends at once,
\* since start - now wraps around and exceeds any timeout.
TryEntry(c) ==
  LET e == Entry(c, idx[c])
  IN  /\ pc[c] = "entry"
      /\ IF lock[e] \in {None, Home[c]}
           THEN /\ lock' = [lock EXCEPT ![e] = Home[c]]
                /\ Goto(c, "up")
                /\ UNCHANGED idx
           ELSE /\ UNCHANGED lock
                /\ IF idx[c] + 1 = Limit(c)
                     THEN Goto(c, "full") /\ UNCHANGED idx
                     ELSE idx' = [idx EXCEPT ![c] = @ + 1] /\ UNCHANGED pc
      /\ UNCHANGED <<shmVars, bufVars, late, ends>>

\* The client is destroyed; closing the file drops the lock of the process,
\* also when another client of it relies on the lock.
Close(c) ==
  /\ pc[c] = "up"
  /\ lock' = [lock EXCEPT ![Entry(c, idx[c])] = IF @ = Home[c] THEN None ELSE @]
  /\ Goto(c, "idle")
  /\ UNCHANGED <<shmVars, bufVars, idx, late, ends>>

-----------------------------------------------------------------------------
(* The end of a process                                                    *)

Gone(p) ==
  /\ ends < MaxEnds
  /\ ends' = ends + 1
  /\ registry' = [registry EXCEPT ![p] = None]
  /\ lock' = [e \in EntryLocks |-> IF lock[e] = p THEN None ELSE lock[e]]
  /\ pc' = [c \in Clients |-> IF Home[c] = p THEN "idle" ELSE pc[c]]
  /\ creator' = [o \in Objects |-> IF creator[o] = p THEN None ELSE creator[o]]
  /\ UNCHANGED <<count, bufVars, idx, late>>

\* exit: the static registry is destroyed, and with it the file of each
\* object this process created, which unlinks the name.
Exit(p) ==
  /\ \A c \in Clients : Home[c] = p => pc[c] \in Resting
  /\ registry[p] # None
  /\ name' = IF \E o \in Objects : creator[o] = p THEN None ELSE name
  /\ Gone(p)

\* A crash at any point; the kernel drops the locks and nothing else.
Crash(p) ==
  /\ registry[p] # None \/ \E c \in Clients : Home[c] = p /\ pc[c] = "create"
  /\ Gone(p)
  /\ UNCHANGED name

-----------------------------------------------------------------------------

\* The part of create() that runs by itself once it has been called.
Step(c) ==
  \/ CreateShm(c) \/ CreateNothing(c) \/ ReadInitialized(c) \/ ReadTimeout(c)
  \/ InitConstruct(c) \/ InitCas(c) \/ InitBody(c) \/ InitFinish(c) \/ TryEntry(c)

Next ==
  \/ \E c \in Clients : OpenShm(c) \/ Step(c) \/ Close(c)
  \/ \E p \in Procs : Exit(p) \/ Crash(p)

Spec == Init /\ [][Next]_vars

\* A call of create() that has begun goes on; time passes, so a wait ends.
FairSpec == Spec /\ \A c \in Clients : WF_vars(Step(c))

-----------------------------------------------------------------------------
(* Properties                                                              *)

\* Every variable has its type, and a call past get_shm_entry has a mapping.
TypeOK ==
  /\ name \in Objects \cup {None}
  /\ count \in 0 .. MaxObjects
  /\ creator \in [Objects -> Procs \cup {None}]
  /\ istate \in [Objects -> {"uninitialized", "in_initialization", "initialized"}]
  /\ built \in [Objects -> BOOLEAN]
  /\ registry \in [Procs -> Objects \cup {None}]
  /\ lock \in [EntryLocks -> Procs \cup {None}]
  /\ pc \in [Clients -> Resting \cup {"create", "read", "construct", "cas",
                                      "body", "finish", "entry"}]
  /\ idx \in [Clients -> Nat]
  /\ \A c \in Clients : /\ Entry(c, idx[c]) \in EntryLocks
                        /\ pc[c] \in {"idle", "create", "failed"} \/ Object(c) # None
  /\ late \in BOOLEAN
  /\ ends \in 0 .. MaxEnds

\* Whoever got through read_at or init_at works on constructed messages,
\* however initialisers race, time out or crash half-way: the state says
\* "initialized" only after the process that says so constructed them.
ReadyIsBuilt ==
  \A c \in Clients : pc[c] \in {"entry", "up"} => built[Object(c)]

\* A publisher that joins never takes an initialised buffer back from the
\* processes that use it, as long as no timeout of read_at comes while
\* another publisher is initialising.
StaysInitialized ==
  [][~late => \A o \in Objects :
       istate[o] = "initialized" => istate'[o] = "initialized"]_vars

\* A publisher's create() recovers from an initialiser that crashed at any
\* point: under the same condition it fails only for want of an entry.
CreateRecovers == ~late /\ ~Weak => \A c \in Pubs : pc[c] # "failed"

\* create() returns, also next to a buffer whose initialiser died: the
\* timeout of read_at ends the wait.  (A publisher stopped by the bound on
\* objects aside.)
CreateReturns ==
  \A c \in Clients : pc[c] \notin Resting
    ~> (pc[c] \in Resting \/ (pc[c] = "create" /\ count = MaxObjects))

-----------------------------------------------------------------------------
(* The inductive invariant behind them                                      *)

\* The mutex of the registry: a process creates once, for lack of a mapping.
OneCreator ==
  \A c, d \in Clients : pc[c] = "create" =>
    /\ Object(c) = None
    /\ Home[c] = Home[d] /\ pc[d] = "create" => c = d

\* Messages are constructed before anyone says so.
BuiltFirst ==
  /\ \A o \in Objects : istate[o] = "initialized" => built[o]
  /\ \A c \in Clients : pc[c] = "finish" => built[Object(c)]

\* An object has one initialiser at a time, which finds the state as it left
\* it, as long as no timeout comes during an initialisation.
OneInitialiser ==
  ~late => \A c \in Clients : c \in Initialising(Object(c)) =>
    /\ Initialising(Object(c)) = {c}
    /\ pc[c] = "construct" => istate[Object(c)] # "initialized"
    /\ pc[c] = "cas" => istate[Object(c)] = "uninitialized"
    /\ pc[c] \in {"body", "finish"} => istate[Object(c)] = "in_initialization"

\* The inductive invariant, as a whole.
IndInv ==
  /\ TypeOK /\ OneCreator /\ BuiltFirst
  /\ ReadyIsBuilt /\ OneInitialiser /\ CreateRecovers

-----------------------------------------------------------------------------
(* What comments of the code promise and the code does not do              *)

\* topic.h: "processes that use the name topic name share the same shared
\* memory and sockets".
SameMemory ==
  \A p, q \in Procs : registry[p] # None /\ registry[q] # None
    => registry[p] = registry[q]
=============================================================================
