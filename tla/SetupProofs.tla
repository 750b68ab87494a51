----------------------------- MODULE SetupProofs ----------------------------
(***************************************************************************)
(* Proofs about Setup, for every number of clients, processes and objects: *)
(* nobody works on messages that were never constructed, and, unless a     *)
(* timeout of read_at has come during an initialisation, an initialised    *)
(* buffer stays so and a publisher recovers from a crashed initialiser.    *)
(***************************************************************************)
EXTENDS Setup, TLAPS

\* The assumptions the steps below need, together.
USE ClientsAssumption, HomeAssumption, BoundsAssumption, WeakAssumption

\* The invariant holds before anyone has called create().
LEMMA InitInv == Init => IndInv
<1> SUFFICES ASSUME Init PROVE IndInv
  OBVIOUS
<1> USE DEF Init, Clients, Object
<1>1. TypeOK
  <2>1. late \in BOOLEAN
    OBVIOUS
  <2>2. \A c \in Clients : Entry(c, idx[c]) \in EntryLocks /\ pc[c] = "idle"
    BY DEF Entry, EntryLocks
  <2>3. built \in [Objects -> BOOLEAN]
    OBVIOUS
  <2>. QED
    BY <2>1, <2>2, <2>3 DEF TypeOK, Resting, Failed, Objects
<1>2. OneCreator /\ BuiltFirst /\ ReadyIsBuilt
  BY DEF OneCreator, BuiltFirst, ReadyIsBuilt
<1>3. OneInitialiser /\ CreateRecovers
  BY DEF OneInitialiser, CreateRecovers, Initialising
<1>. QED
  BY <1>1, <1>2, <1>3 DEF IndInv

\* A new entry search begins at the first entry, which exists.
LEMMA FirstEntry == \A c \in Clients : Entry(c, 0) \in EntryLocks
BY DEF Clients, Entry, EntryLocks

\* open_shm changes at most the mapping of a process that had none.
LEMMA OpenShmInv == ASSUME IndInv, NEW c \in Clients, OpenShm(c) PROVE IndInv'
<1> USE DEF IndInv, OpenShm, RegistryFree, shmVars, bufVars, Goto, Object, Resting, Failed
<1>1. TypeOK'
  <2>1. registry' \in [Procs -> Objects \cup {None}]
    BY DEF TypeOK, Clients
  <2>2. pc' \in [Clients -> Resting \cup {"create", "read", "construct", "cas",
                                         "body", "finish", "entry"}]
    BY DEF TypeOK
  <2>3. ASSUME NEW d \in Clients
        PROVE  pc'[d] \in {"idle", "create", "failed"} \/ registry'[Home[d]] # None
    <3>1. registry' \in {registry, [registry EXCEPT ![Home[c]] = name]}
      OBVIOUS
    <3>2. registry'[Home[d]] # None \/ registry'[Home[d]] = registry[Home[d]]
      BY <3>1 DEF TypeOK, Clients
    <3>3. pc'[c] = "read" => registry'[Home[c]] # None
      BY DEF TypeOK, Clients
    <3>4. pc'[c] \in {"read", "create"} /\ (d # c => pc'[d] = pc[d])
      BY DEF TypeOK
    <3>. QED
      BY <3>2, <3>3, <3>4 DEF TypeOK
  <2>. QED
    BY <2>1, <2>2, <2>3 DEF TypeOK
<1>2. OneCreator'
  BY <1>1 DEF OneCreator, TypeOK, Clients
<1>3. BuiltFirst' /\ ReadyIsBuilt'
  BY <1>1 DEF BuiltFirst, ReadyIsBuilt, OneCreator, TypeOK, Clients
<1>4. OneInitialiser'
  BY <1>1 DEF OneInitialiser, Initialising, OneCreator, TypeOK, Clients
<1>5. CreateRecovers'
  BY <1>1 DEF CreateRecovers, OneInitialiser, Initialising, TypeOK, Clients
<1>. QED
  BY <1>1, <1>2, <1>3, <1>4, <1>5

\* create_shm gives a process that had no mapping a new object.
LEMMA CreateShmInv == ASSUME IndInv, NEW c \in Clients, CreateShm(c) PROVE IndInv'
<1> USE DEF IndInv, CreateShm, bufVars, Goto, Object, Resting, Failed
<1>1. TypeOK'
  BY FirstEntry DEF TypeOK, Clients, Objects, EntryLocks, Entry, Limit
<1>2. OneCreator'
  BY <1>1 DEF OneCreator, TypeOK, Clients
<1>3. BuiltFirst' /\ ReadyIsBuilt'
  BY <1>1 DEF BuiltFirst, ReadyIsBuilt, OneCreator, TypeOK, Clients
<1>4. OneInitialiser'
  BY <1>1 DEF OneInitialiser, Initialising, OneCreator, TypeOK, Clients
<1>5. CreateRecovers'
  BY <1>1 DEF CreateRecovers, OneInitialiser, Initialising, TypeOK, Clients
<1>. QED
  BY <1>1, <1>2, <1>3, <1>4, <1>5

\* A subscriber's create_shm changes no mapping.
LEMMA CreateNothingInv == ASSUME IndInv, NEW c \in Clients, CreateNothing(c) PROVE IndInv'
<1> USE DEF IndInv, CreateNothing, bufVars, Goto, Object, Resting, Failed
<1>1. TypeOK'
  BY FirstEntry DEF TypeOK, Clients, Objects, EntryLocks, Entry, Limit
<1>2. OneCreator'
  BY <1>1 DEF OneCreator, TypeOK, Clients
<1>3. BuiltFirst' /\ ReadyIsBuilt'
  BY <1>1 DEF BuiltFirst, ReadyIsBuilt, OneCreator, TypeOK, Clients
<1>4. OneInitialiser'
  BY <1>1 DEF OneInitialiser, Initialising, OneCreator, TypeOK, Clients
<1>5. CreateRecovers'
  BY <1>1 DEF CreateRecovers, OneInitialiser, Initialising, TypeOK, Clients
<1>. QED
  BY <1>1, <1>2, <1>3, <1>4, <1>5

\* read_at succeeds next to constructed messages only.
LEMMA ReadInitializedInv == ASSUME IndInv, NEW c \in Clients, ReadInitialized(c) PROVE IndInv'
<1> USE DEF IndInv, ReadInitialized, StartEntry, shmVars, bufVars, Goto, Object, Resting, Failed
<1>1. TypeOK'
  BY FirstEntry DEF TypeOK, Clients, Objects, EntryLocks, Entry, Limit
<1>2. OneCreator'
  BY <1>1 DEF OneCreator, TypeOK, Clients
<1>3. BuiltFirst' /\ ReadyIsBuilt'
  BY <1>1 DEF BuiltFirst, ReadyIsBuilt, OneCreator, TypeOK, Clients
<1>4. OneInitialiser'
  BY <1>1 DEF OneInitialiser, Initialising, OneCreator, TypeOK, Clients
<1>5. CreateRecovers'
  BY <1>1 DEF CreateRecovers, OneInitialiser, Initialising, TypeOK, Clients
<1>. QED
  BY <1>1, <1>2, <1>3, <1>4, <1>5

\* The timeout of read_at admits one initialiser if none is at work.
LEMMA ReadTimeoutInv == ASSUME IndInv, NEW c \in Clients, ReadTimeout(c) PROVE IndInv'
<1> USE DEF IndInv, ReadTimeout, shmVars, bufVars, Goto, Object, Resting, Failed
<1>1. TypeOK'
  BY FirstEntry DEF TypeOK, Clients, Objects, EntryLocks, Entry, Limit
<1>2. OneCreator'
  BY <1>1 DEF OneCreator, TypeOK, Clients
<1>3. BuiltFirst' /\ ReadyIsBuilt'
  BY <1>1 DEF BuiltFirst, ReadyIsBuilt, OneCreator, TypeOK, Clients
<1>4. OneInitialiser'
  <2> SUFFICES ASSUME ~late' PROVE OneInitialiser'
    BY DEF OneInitialiser
  <2>1. ~late /\ Initialising(Object(c)) = {}
    OBVIOUS
  <2>. QED
    BY <1>1, <2>1 DEF OneInitialiser, Initialising, TypeOK, Clients
<1>5. CreateRecovers'
  BY <1>1 DEF CreateRecovers, OneInitialiser, Initialising, TypeOK, Clients
<1>. QED
  BY <1>1, <1>2, <1>3, <1>4, <1>5

\* construct_at hits no initialised header unless a timeout raced it.
LEMMA InitConstructInv == ASSUME IndInv, NEW c \in Clients, InitConstruct(c) PROVE IndInv'
<1> USE DEF IndInv, InitConstruct, shmVars, Goto, Object, Resting, Failed
<1>1. TypeOK'
  BY FirstEntry DEF TypeOK, Clients, Objects, EntryLocks, Entry, Limit
<1>2. OneCreator'
  BY <1>1 DEF OneCreator, TypeOK, Clients
<1>3. BuiltFirst' /\ ReadyIsBuilt'
  BY <1>1 DEF BuiltFirst, ReadyIsBuilt, OneCreator, TypeOK, Clients
<1>4. OneInitialiser'
  BY <1>1 DEF OneInitialiser, Initialising, OneCreator, TypeOK, Clients
<1>5. CreateRecovers'
  BY <1>1 DEF CreateRecovers, OneInitialiser, Initialising, TypeOK, Clients
<1>. QED
  BY <1>1, <1>2, <1>3, <1>4, <1>5

\* The first compare-and-swap finds what construct_at left.
LEMMA InitCasInv == ASSUME IndInv, NEW c \in Clients, InitCas(c) PROVE IndInv'
<1> USE DEF IndInv, InitCas, Cas, shmVars, Goto, Object, Resting, Failed
<1>1. TypeOK'
  BY FirstEntry DEF TypeOK, Clients, Objects, EntryLocks, Entry, Limit
<1>2. OneCreator'
  BY <1>1 DEF OneCreator, TypeOK, Clients
<1>3. BuiltFirst' /\ ReadyIsBuilt'
  BY <1>1 DEF BuiltFirst, ReadyIsBuilt, OneCreator, TypeOK, Clients
<1>4. OneInitialiser'
  BY <1>1 DEF OneInitialiser, Initialising, OneCreator, TypeOK, Clients
<1>5. CreateRecovers'
  BY <1>1 DEF CreateRecovers, OneInitialiser, Initialising, TypeOK, Clients
<1>. QED
  BY <1>1, <1>2, <1>3, <1>4, <1>5

\* Constructing the messages touches nothing else.
LEMMA InitBodyInv == ASSUME IndInv, NEW c \in Clients, InitBody(c) PROVE IndInv'
<1> USE DEF IndInv, InitBody, shmVars, Goto, Object, Resting, Failed
<1>1. TypeOK'
  BY FirstEntry DEF TypeOK, Clients, Objects, EntryLocks, Entry, Limit
<1>2. OneCreator'
  BY <1>1 DEF OneCreator, TypeOK, Clients
<1>3. BuiltFirst' /\ ReadyIsBuilt'
  BY <1>1 DEF BuiltFirst, ReadyIsBuilt, OneCreator, TypeOK, Clients
<1>4. OneInitialiser'
  BY <1>1 DEF OneInitialiser, Initialising, OneCreator, TypeOK, Clients
<1>5. CreateRecovers'
  BY <1>1 DEF CreateRecovers, OneInitialiser, Initialising, TypeOK, Clients
<1>. QED
  BY <1>1, <1>2, <1>3, <1>4, <1>5

\* The second compare-and-swap finds what the first one left.
LEMMA InitFinishInv == ASSUME IndInv, NEW c \in Clients, InitFinish(c) PROVE IndInv'
<1> USE DEF IndInv, InitFinish, Cas, shmVars, Goto, Object, Resting, Failed
<1>1. TypeOK'
  BY FirstEntry DEF TypeOK, Clients, Objects, EntryLocks, Entry, Limit
<1>2. OneCreator'
  BY <1>1 DEF OneCreator, TypeOK, Clients
<1>3. BuiltFirst' /\ ReadyIsBuilt'
  BY <1>1 DEF BuiltFirst, ReadyIsBuilt, OneCreator, TypeOK, Clients
<1>4. OneInitialiser'
  BY <1>1 DEF OneInitialiser, Initialising, OneCreator, TypeOK, Clients
<1>5. CreateRecovers'
  BY <1>1 DEF CreateRecovers, OneInitialiser, Initialising, TypeOK, Clients
<1>. QED
  BY <1>1, <1>2, <1>3, <1>4, <1>5

\* The search for an entry leaves the buffer alone.
LEMMA TryEntryInv == ASSUME IndInv, NEW c \in Clients, TryEntry(c) PROVE IndInv'
<1> USE DEF IndInv, TryEntry, shmVars, bufVars, Goto, Object, Resting, Failed
<1>1. TypeOK'
  <2>1. lock' \in [EntryLocks -> Procs \cup {None}]
    BY DEF TypeOK, Clients
  <2>2. ASSUME idx[c] + 1 # Limit(c) PROVE Entry(c, idx[c] + 1) \in EntryLocks
    BY <2>2 DEF TypeOK, Clients, Entry, EntryLocks, Limit
  <2>3. ASSUME NEW d \in Clients PROVE Entry(d, idx'[d]) \in EntryLocks
    BY <2>2, <2>3 DEF TypeOK
  <2>4. idx' \in [Clients -> Nat]
    BY DEF TypeOK
  <2>5. pc' \in [Clients -> Resting \cup {"create", "read", "construct", "cas",
                                         "body", "finish", "entry"}]
    BY DEF TypeOK
  <2>6. ASSUME NEW d \in Clients
        PROVE  pc'[d] \in {"idle", "create", "failed"} \/ registry'[Home[d]] # None
    BY DEF TypeOK
  <2>. QED
    BY <2>1, <2>3, <2>4, <2>5, <2>6 DEF TypeOK
<1>2. OneCreator'
  BY <1>1 DEF OneCreator, TypeOK, Clients
<1>3. BuiltFirst' /\ ReadyIsBuilt'
  BY <1>1 DEF BuiltFirst, ReadyIsBuilt, OneCreator, TypeOK, Clients
<1>4. OneInitialiser'
  BY <1>1 DEF OneInitialiser, Initialising, OneCreator, TypeOK, Clients
<1>5. CreateRecovers'
  BY <1>1 DEF CreateRecovers, OneInitialiser, Initialising, TypeOK, Clients
<1>. QED
  BY <1>1, <1>2, <1>3, <1>4, <1>5

\* A destructor drops its entry lock only.
LEMMA CloseInv == ASSUME IndInv, NEW c \in Clients, Close(c) PROVE IndInv'
<1> USE DEF IndInv, Close, shmVars, bufVars, Goto, Object, Resting, Failed
<1>1. TypeOK'
  BY FirstEntry DEF TypeOK, Clients, Objects, EntryLocks, Entry, Limit
<1>2. OneCreator'
  BY <1>1 DEF OneCreator, TypeOK, Clients
<1>3. BuiltFirst' /\ ReadyIsBuilt'
  BY <1>1 DEF BuiltFirst, ReadyIsBuilt, OneCreator, TypeOK, Clients
<1>4. OneInitialiser'
  BY <1>1 DEF OneInitialiser, Initialising, OneCreator, TypeOK, Clients
<1>5. CreateRecovers'
  BY <1>1 DEF CreateRecovers, OneInitialiser, Initialising, TypeOK, Clients
<1>. QED
  BY <1>1, <1>2, <1>3, <1>4, <1>5

\* The end of a process takes its clients out of every call.
LEMMA GoneInv ==
  ASSUME IndInv, NEW p \in Procs, Gone(p), name' \in {name, None} PROVE IndInv'
<1> USE DEF IndInv, Gone, bufVars, Object, Resting, Failed
<1>1. TypeOK'
  BY DEF TypeOK, Clients, Objects, EntryLocks, Entry
<1>2. OneCreator'
  BY <1>1 DEF OneCreator, TypeOK, Clients
<1>3. BuiltFirst' /\ ReadyIsBuilt'
  BY <1>1 DEF BuiltFirst, ReadyIsBuilt, TypeOK, Clients
<1>4. OneInitialiser'
  BY <1>1 DEF OneInitialiser, Initialising, TypeOK, Clients
<1>5. CreateRecovers'
  BY <1>1 DEF CreateRecovers, TypeOK, Clients
<1>. QED
  BY <1>1, <1>2, <1>3, <1>4, <1>5

\* Every step keeps the invariant.
LEMMA StepInv == IndInv /\ [Next]_vars => IndInv'
<1> SUFFICES ASSUME IndInv, [Next]_vars PROVE IndInv'
  OBVIOUS
<1>1. ASSUME NEW c \in Clients, OpenShm(c) \/ Step(c) \/ Close(c) PROVE IndInv'
  BY <1>1, OpenShmInv, CreateShmInv, CreateNothingInv, ReadInitializedInv,
     ReadTimeoutInv, InitConstructInv, InitCasInv, InitBodyInv, InitFinishInv,
     TryEntryInv, CloseInv DEF Step
<1>2. ASSUME NEW p \in Procs, Exit(p) \/ Crash(p) PROVE IndInv'
  BY <1>2, GoneInv DEF Exit, Crash
<1>3. CASE UNCHANGED vars
  BY <1>3 DEF vars, IndInv, TypeOK, OneCreator, BuiltFirst, ReadyIsBuilt,
     OneInitialiser, CreateRecovers, Initialising, Object
<1>. QED
  BY <1>1, <1>2, <1>3 DEF Next

\* The inductive invariant holds in every reachable state of create(), exit
\* and crash, for any number of clients and processes.
THEOREM Invariance == Spec => []IndInv
BY InitInv, StepInv, PTL DEF Spec

\* Nobody who got through read_at or init_at works on messages that were
\* never constructed, whatever initialisers race, time out or crash.
THEOREM NobodyReadsRawMemory == Spec => []ReadyIsBuilt
<1>1. IndInv => ReadyIsBuilt
  BY DEF IndInv
<1>. QED
  BY <1>1, Invariance, PTL

\* Unless a timeout of read_at has come during an initialisation, a
\* publisher's create() recovers from every crashed initialiser.
THEOREM PublishersRecover == Spec => []CreateRecovers
<1>1. IndInv => CreateRecovers
  BY DEF IndInv
<1>. QED
  BY <1>1, Invariance, PTL

\* Under the same condition init_at never takes an initialised buffer away
\* from the processes that use it.
THEOREM BuffersStay == Spec => StaysInitialized
<1> DEFINE Stays == ~late => \A o \in Objects :
                      istate[o] = "initialized" => istate'[o] = "initialized"
<1>1. IndInv /\ [Next]_vars => [Stays]_vars
  <2> SUFFICES ASSUME IndInv, Next, ~late, NEW o \in Objects,
                      istate[o] = "initialized"
               PROVE  istate'[o] = "initialized"
    OBVIOUS
  <2> USE DEF IndInv, Object
  <2>1. ASSUME NEW c \in Clients, InitConstruct(c) PROVE istate'[o] = "initialized"
    BY <2>1 DEF InitConstruct, OneInitialiser, Initialising, TypeOK
  <2>2. ASSUME NEW c \in Clients, InitCas(c) PROVE istate'[o] = "initialized"
    BY <2>2 DEF InitCas, Cas, OneInitialiser, Initialising, TypeOK
  <2>3. ASSUME NEW c \in Clients, InitFinish(c) PROVE istate'[o] = "initialized"
    BY <2>3 DEF InitFinish, Cas, OneInitialiser, Initialising, TypeOK
  <2>4. ASSUME UNCHANGED istate PROVE istate'[o] = "initialized"
    BY <2>4
  <2>. QED
    BY <2>1, <2>2, <2>3, <2>4 DEF Next, Step, OpenShm, CreateShm, CreateNothing,
       ReadInitialized, ReadTimeout, InitBody, TryEntry, Close, Exit, Crash, Gone,
       bufVars
<1>2. [][Stays]_vars => StaysInitialized
  BY DEF StaysInitialized
<1>. QED
  BY <1>1, <1>2, Invariance, PTL DEF Spec
=============================================================================
