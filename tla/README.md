# A TLA+ model of ipcpp

ipcpp is a C++ library for communication between processes through shared
memory: publish/subscribe in two modes, with the locks, the allocator and the
containers they rest on.  This directory models its core, model-checks it with
TLC on small instances, and proves the most important results with TLAPS for
every size.  `PROJECT.json` maps each definition to the source lines it models
and lists runs, findings, hazards and theorems.

## 1. The system

### Components, their state and operations

| Component | State | Operations | Interacts with | Hard because |
|---|---|---|---|---|
| Real-time pub/sub (`publish_subscribe/real_time`) | slots (value, id, reference counter), latest index, running id, per-publisher local id, acquire budget of each subscriber | `publish`, `fetch_message`, `await_message`, construction and destruction of `Access` and `MessageWrapper`, `create` | processes share the slots without a lock | lock-free reference counting; index loaded before use; reset not atomic with the count |
| Set-up (`topic.*`, `shared_memory_file`, `init_at`/`read_at`, entry locks) | file name, mapped objects, registry of each process, initialisation state, fcntl locks | `get_shm_entry`, `create`, destructors, exit | everything above it | open-then-create, timeouts, crashes of initialisers |
| `shared_mutex` | one word | exclusive, shared and bounded try locks | FIFO messages | load, then compare-and-swap |
| `shared_futex` | one word, kernel wait queue | exclusive and shared locks | – | lost wake-ups |
| FIFO pub/sub (`publish_subscribe/fifo_seq`) | ring of messages with remaining and active counts and a `shared_mutex`, next id, number of subscribers | `publish`, `receive`, `subscribe`, `cancel_subscription` | publisher and subscribers share the ring | admission by two counters, last reader resets under a shared lock |
| `pool_allocator` | list of nodes in the memory it manages, mutex | allocate (three forms), deallocate, statistics | containers in shared memory | splitting and merging in any order |
| `numeric` | – | rounding to powers of two | sizes of pools and queues | word boundaries |
| Domain socket events (`event/domain_socket_*`) | sets of observers and paused observers, two thread flags, sockets | notify, accept, reject, shutdown, move; subscribe, pause, resume, cancel, receive | FIFO pub/sub (earlier version) | three threads share descriptors; replies and notifications share a stream; observers disappear |
| Mapping (`shm/mapped_memory`, `shm/shared_memory_file`) | descriptor, mapped region, who created the file | create, open, move, release, destroy | set-up | ownership across moves; several system calls, each of which may fail |
| Process locks (`utils/file_lock.h`, `utils/ip_lock.h`) | descriptor; the kernel's lock of the process | lock, shared lock, try, unlock, close | set-up, registry | the lock belongs to the process, not to the object |
| `vector`, fixed-size string | offsets or size, storage | those of the standard containers | allocator | moves inside the storage, growth, limits |
| `FixedSizeQueue`, `FixedSizeStack` | ring or array in shared memory, indices, full flag, mutex | create, push, pop, front, back, empty | pipes (unfinished) | full and empty look alike; check-then-act |
| Other containers (`shm/`) | list, ring buffer, queue, chunk allocator | usual | allocator | not modelled |
| Shared memory events (`event/shm_atomic_*`) | one counter | notify, receive | set-up | not modelled |
| Pipes, services, logging, I/O, Windows | – | stubs or wrappers | – | not modelled |

### What makes each of them correct

* Real-time: a slot's counter counts its accesses; a slot is never lost; a fetch
  never delivers something older than it was told of; a subscriber never exceeds
  its budget; `publish` always finds a slot.
* Set-up: all processes of a topic work on one memory, which is constructed before
  it is used and initialised once; crashes do not block others.
* Locks: a reader/writer lock; no sleeper is forgotten.
* FIFO: a message does not change under a callback; counters never underflow;
  every subscriber gets every message.
* Allocator: nodes tile the memory; clients keep what they were given.
* Domain socket events: every descriptor has one place and is closed once; receive()
  delivers whole notifications in order; cancelling returns; observers that come and go
  do not end the notifier.
* Mapping and process locks: a descriptor, a page or a lock belongs to one owner, stays
  while its owner lives, and is given back.
* Containers: they act as the standard ones, or an abstract deque, do.

The hazards, with the line where each one bites, are in `PROJECT.json`.

## 2. Modules

| Module | Models | Proofs | Instance for TLC |
|---|---|---|---|
| `RealTime` | `real_time_message.h`, `real_time_publisher.h`, `real_time_subscriber.h` | `RealTimeProofs` | `MCRealTime` |
| `Setup` | `topic.cpp`, `linux/shared_memory_file.cpp`, `init_at`/`read_at` of `real_time_memory_layout.h`, the entry search, `ip_lock.h` | `SetupProofs` | `MCSetup` |
| `RWLock` | abstract reader/writer lock (what both locks promise) | – | – |
| `SharedMutex` | `shared_mutex` of `mutex.h` | `SharedMutexProofs` | `MCStructures` |
| `SharedFutex` | `shared_futex` of `mutex.h` | `SharedFutexProofs` | `MCSharedFutex` |
| `Fifo` | `fifo_message.h`, `fifo_message_queue.h`, `_m_publish`, `Subscriber` | `FifoProofs` | `MCFifo` |
| `SocketEvents` | `domain_socket_notifier.h`, `domain_socket_observer.h`, `observer.h` | `SocketEventsProofs` | `MCSocketEvents` |
| `PoolAllocator` | `stl/allocator.h` | `PoolAllocatorProofs` | `MCStructures` |
| `Numeric` | `utils/numeric.h` | – | `MCStructures`; `MCRealTime` uses it to tie `PoolSize` to `per_publisher_pool_size` |
| `Vector` | `stl/vector.h` | `StructuresProofs` | `MCStructures`, `MCVector` |
| `FixedString` | `stl/fixed_size/basic_string.h` | `StructuresProofs` | `MCStructures` |
| `Mapping` | `mapped_memory.cpp`, `shared_memory_file.cpp` and their `linux/` parts | `StructuresProofs` | `MCStructures` |
| `FileLock` | `file_lock.h`, `ip_lock.h` | `StructuresProofs` | `MCStructures` |
| `BoundedDeque` | abstract bounded double-ended queue (what queue and stack promise) | – | – |
| `FixedSizeQueue`, `FixedSizeStack` | `fixed_size_queue.h`, `fixed_size_stack.h` | `StructuresProofs` | `MCStructures` |
| `Structures` | the instances of the blocks from `Vector` on, their parameters' assumptions and their properties | `StructuresProofs` | `MCStructures` |

`Structures` instantiates the blocks that share nothing with one another; `MCStructures`
runs them together with the allocator, the roundings and `SharedMutex`.  Its variable `which` says which
of them moves in a behaviour, so the state space is the union of theirs, not the product.

Operators whose comment begins with *Mutant* are plausible bugs; the entries
`mutants` of `PROJECT.json` put each in place of the definition that follows it, and
TLC then finds the named property violated.

### RealTime

A slot is `<<entry, index>>`; `ref`, `val` and `mid` are `_active_reference_counter`,
`_opt_value` and `_message_id`.  Every `Access` object that can exist is named
(`New`, `Prev` of a publisher; `Fetch` and wrappers of a subscriber) and is *free*
(null), *held*, *reset* (it took the counter to 0 and has stores of `reset()` left)
or *done*.  Each atomic operation of `publish` and `fetch_message` is an action of its
own.  Atomics are sequentially consistent; the plain stores of `emplace` and `reset`
become visible in either order.  Message ids count from 0 instead of `max()`.
Wrappers do not outlive their subscriber, since they point into it.  Move
assignment over a live wrapper is only in `SpecMoveAssign`, where it refutes
`AcquireLimit`, which counts the wrappers that have an access: one that was moved from
still has to give an acquire back and holds no message.  An entry has one owner at a time, which holds between processes;
inside one process it does not (section 5).

### Setup

Clients are publisher and subscriber objects, `Home` gives their processes.  Objects are
the shared memory files created over time, `name` the one that can be opened now.
`OpenShm` and `CreateShm` are one step each because the global file lock is held
throughout each – and two steps because it is not held in between.  `ReadTimeout` may
happen whenever the buffer is not initialised.  The history variable `late` records
whether one ever came while another publisher was initialising, which does not happen
if an initialisation takes less time than lies between two timeouts; some properties
hold only until then.  `Exit` runs the destructors (a creator unlinks the
name, whatever it names by now), `Crash` does not.

### RWLock, SharedMutex, SharedFutex

`RWLock` has sets of readers and writers.  Both implementations are shown to refine it
with `readers` and `writers` mapped to the threads at those control points.  `Weak`
says whether `compare_exchange_weak` may fail spuriously.  In `SharedMutex`, `changes`
is a history variable: the changes other threads made to the word during a
`try_lock_shared(retries)`.  In `SharedFutex`, `FutexWait`, the wakers and `Interrupted`
model the kernel: a wait returns at once if the word has changed, and may return for no
reason.

### Fifo

The code of the shared memory variant as it stands, with the call of
`_m_handle_backpressure` commented out.  `consume` is split at each atomic operation; the
left operand of `fetch_add(1) >= _remaining_references` is evaluated first.  Reader
locks on a message are the readers at the control points that hold them.
`try_lock_shared` may fail against a writer, and among several subscribers also without
one: `SharedMutex` shows that each failed round is paid for by a change of the word, but the
retries passed are counted in the references of the message, read without the lock, and
more subscribers than that may come and go.  The headers name types that no longer exist in the repository and are
not built at present.

### PoolAllocator

`nodes` maps offsets to the node headers on the list, `live` data offsets to what clients
asked for (`DataOffsets`, one more than there are offsets of headers: the data of an empty
last node begin at the end of the memory).  The walks along the list are recursive
functions on `Headers`, the offsets that hold a node.  Operations are complete steps, as under the mutex of the pool; `allocate()`
does not take that mutex, and what it does between the steps of others is not modelled.
It differs from the other allocations also in not rounding the size up, so offsets are
multiples of the alignment in neither the code nor the model.

### Numeric

The functions on words of `Width` bits.  A shift by the full width is undefined in C++;
`Shl` returns every outcome the hardware may give.

### SocketEvents

A connection is a pair of streams: `up` carries requests, `down` cells.  A response is one
cell and a notification several, so a read that asks for the wrong kind takes a part of
the other, as it does with bytes.  `fds` are the descriptors of the notifier's process;
`accept` hands out the lowest free one, so a number is used again as soon as it is closed.
`subT` and `reqT` are the control points of the two threads, `main` that of the owner's.
A notification holds the write lock of the observers from its first `send` to its last and
waits in it for room in a socket's buffer; the request thread takes one `recv` at a time.
Writing to a closed connection without `MSG_NOSIGNAL` ends the process that writes.
`garbled` (a read for a reply took a notification), `overtaken` (a response was sent after
a notification), `lost` (paused observers a move forgets) and `crashed` are history
variables, in which the properties name the cases they except.  The branches for
`_subscription_paused` are left out, as nothing sets it.  The observer's header does not
compile at present (it uses `response.info` of a `bool`); the model takes the response for
the `bool` that the notifier sends.  The flag of the subscription thread is looked at
before `accept` and after a response, so a connection made after it was cleared may still be
accepted.

### Vector and FixedString

Both carry `ref`, what the standard container would hold after the same calls, beside
the state of the code.  A call that is known to do something else (section 5) sets
`deviated`, one that writes behind the storage sets `overrun`, and the behaviour ends
there; everything before and all other calls are compared.  `Vector` counts offsets in
bytes where the code does, with the rounding of the allocator, as `push_back` compares
offsets; sizes of elements are 2 and 3 for an alignment of 4.  A block has `Slack` bytes to
spare when the allocator hands out a whole node because the rest of it would be too small
for another.  `StaysInStorage` therefore asks for an element size that divides the slack as
well as the alignment; an attempt to prove it for the alignment alone fails at `push_back`
in such a block.

Two overloads of the string are not modelled: the constructor from two iterators
(`basic_string.h:46`), which does not compile, and `find` of a character (491), which returns
a pointer as an index.  `ConstructText` also stands for the constructor that fills the string
with one character (39).

### Mapping

Objects of one process, its descriptors and its pages.  A destructor's `munmap` and
`close` calls are taken one at a time, so that other threads map and open in between; so
are those for an object that `open` or `create` gives up halfway.  Every system call may
fail: `CreateFails` (`shm_open`, after the old name is gone), `SizeFails` (`ftruncate` in
`create`, `fstat` in `open`; the descriptor is lost), `MapFails` (no access, or no mapping)
and `RemapFails` (the second or third `mmap` of a double mapping).
`stale` marks a descriptor number that a move assignment has closed and handed on.

### FileLock

`kernel` is the lock that the kernel keeps for a process, `held` what the owner of an
object was told; `undermined` are objects whose lock another object of their process has
since changed.

### FixedSizeQueue and FixedSizeStack

Calls are atomic, as each holds the mutex; a consumer makes three of them.
`disturbed` records that somebody else came in between.  `fixed_size_queue.h` names
`SharedMutex`, `UniqueLock` and `SharedLock`, which are defined nowhere in the repository, so
that the header does not compile; the model takes them for a reader/writer lock.  The
constructors write the header, mutex included, without holding anything.  `Create` runs
between two calls; beside a call it is a data race and not modelled.

Both are shown to implement `BoundedDeque` of their capacity: the queue with its contents
read from `head` to `tail`, but for the pop of a queue that is empty, which goes round; the
stack up to the first push when it is full, which writes behind its elements.  The behaviour
of the stack ends there (`overrun`), and the run `stack_limit` shows that it gets there.

## 3. Runs

| Run | Shows | Bounds and why they are enough |
|---|---|---|
| `rt_protocol` | counters exact, no slot lost, fetches fresh, with every order of opening and closing | two publishers for one entry, so that one still releases its last message while the other already publishes in the same slots; a subscriber whose fetch lies between any two steps of theirs; three messages, so the first is replaced and its slot reset |
| `rt_publish_returns` | budget kept, pool suffices, `publish` returns | five messages in `ceil(1*1+2)` = 4 slots: the search wraps round past a message that is kept for ever |
| `futex` | refinement of `RWLock`, exact word, no lost wake-up | four threads: a holder, one that wakes, two asleep |
| `fifo` | callbacks have a message that stays, references cover readers | three subscribers, so that two race while a third gives back; two slots and three messages, so a slot is overwritten while subscribers are inside; one cancellation |
| `setup` | messages constructed before use, recovery, one initialisation, `create` returns | two publishers in different processes, a subscriber that shares one, three objects (one per creation after an end), two ends or crashes, timeouts at any moment |
| `socket_events` | descriptors accounted for, notifications whole and in order, cancelling returns, the notifier survives | one observer object with two connections, since a second `subscribe()` leaves the first open and a crashed or destroyed observer is replaced; two notifications, so that order matters; two requests (pause and resume, pause and cancel); notifications of three cells and a buffer of six, so that a stream holds two notifications, or a response and a notification, and a send after a response and a notification blocks; one of reject, shutdown and move between two accepts |
| `structures`: allocator | list correct, clients keep data | room for several nodes, requests of zero, odd and even size: splits with and without remainder, merges on both sides |
| `structures`: roundings | roundings, masked ids | every 8-bit value, across overflow |
| `structures`: vector | acts as `std::vector`, stays in its storage | two vectors of up to four and one elements; element sizes that do and do not divide the alignment; blocks larger than asked for |
| `structures`: string | acts as `std::basic_string`, `find` and `compare` agree | two strings of at most three characters over two characters, arguments of up to two |
| `structures`: mapping | resources owned, nothing leaked | two objects, two descriptors, two pages, two files: a number or a page is used again as soon as it is free, also by the object that takes the place of one destroyed while the other still has its number |
| `structures`: locks | processes exclude each other | two processes with two objects each |
| `structures`: `shared_mutex` | refinement of `RWLock`, exact word, accounting of `try_lock_shared` | three threads – a caller, one that makes it fail, one that holds – and two retries |
| `structures`: queue, stack | refine `BoundedDeque`, consumers pop what they read | three slots, two values, two consumers: every wrap-around and both ends |

Runs that are expected to find a violation state what a comment or a doc says and show
what the code does instead:

| Run | Statement | What happens |
|---|---|---|
| `rt_latest_destroyed` | the previous message is kept "to avoid immediate destruction" | fetched and released between notification and the publisher's own access |
| `rt_move_assign` | the acquire limit | two messages may be held; move assignment over one of two wrappers gives its acquire back, the destructor of the moved-from wrapper gives one back again, and the subscriber then holds a third message (three wrappers, four messages) |
| `setup_split` | same topic, same memory | open and create are two critical sections |
| `stack_limit` | `capacity` is the "max number of elements stored" | a push on a full stack writes behind its elements |
| `vector_erase` | a unit test: erasing leaves the other elements in order | the loop that moves elements down never advances its destination |

### Deadlock and fairness

Deadlock checking is off where the bound on messages, objects or ends lets the system
stop, and on elsewhere.  Fairness is weak fairness of a call that has begun: a thread that
runs code goes on running it.  Nobody has to call anything, keep calling, or release a
message.  In `Setup`, weak fairness of a call includes the timeout
of `read_at`: time passes.  In `SocketEvents` the notifier's threads run and an observer's
call that has begun goes on when it can; observers need not read, so a notification may
wait for ever in a full buffer, which `CancelReturns` excepts.

## 4. Proofs

All results hold for every value of the constants that satisfies the named `ASSUME`s:
sizes are natural numbers, sets of processes are finite, and `None` is none of the values
it stands beside.  Two theorems have a hypothesis of their own, named below.

* **RealTimeProofs.** `IndInv` = `TypeOK` ∧ `SlotsKnown` ∧ `AccessControl` ∧
  `RefCountExact` ∧ `NoLeakedSlot` ∧ `AcquiresBalance`.  `RefCountExact` alone is not
  inductive: that a release never takes a counter below zero needs the held access to
  point at an existing slot (`SlotsKnown`), and that a move overwrites nothing needs to
  know which accesses are free at which point (`AccessControl`).  `AcquireLimit` follows
  from `AcquiresBalance`: handed out plus left plus borrowed is the limit, where wrappers
  that have released and not yet given back count as handed out (`LiveWrappers`).
  - `PoolSufficesHolds` has the hypothesis `PoolSize >= MaxSubs * MaxAcquires + 2`, which
    is what `per_publisher_pool_size` computes before it rounds up (`MCRealTime` asserts
    the equation with the rounding).  `EntriesOwned` adds that a publisher keeps to the
    pool of the entry it has locked and that at most `MaxSubs` subscribers are open; then
    the slots in use inject into the wrappers held plus the previous message, which are
    fewer than the slots.
  - `FetchIsFreshHolds` has the hypothesis `MaxPubs = 1`, one entry for publishers, which
    any number of publishers take in turn.  Its invariant, `FreshInv`, says that messages are announced in the
    order of their numbers and that every slot somebody is led to is empty or holds a
    message at least as new as announced.
* **SharedMutexProofs, SharedFutexProofs.** The word is exact, by counting readers; from it
  every step maps to a step of `RWLock` or a stutter.  For the futex, `NoStrandedSleeper`
  rests on `WaitersSawLock` and on: while anybody sleeps beside a free lock, somebody is
  about to wake him.
* **SetupProofs.** `BuiltFirst` gives `ReadyIsBuilt` without any assumption on time.
  `OneInitialiser` (until a timeout is `late`) gives `CreateRecovers` and
  `StaysInitialized`; `OneCreator` is needed because creating changes the mapping of every
  client of the process.
* **FifoProofs.** `IndInv` = `TypeOK` ∧ `WritersExclude` ∧ `Counts` ∧ `Stored` ∧ `Kept`.
  `ReferencesCover` is a statement about cardinalities of sets of subscribers at control
  points; a step moves one subscriber, so each action adds or removes at most one member.
  `ReadsAMessage` needs `KeptWhileReferenced` (references left mean a value is there),
  which needs that the last reader resets when none are left (`ResetIsLast`).
  `StableWhileRead` is an action property: it follows from `WritersExclude`, since only
  the publisher with the write lock and the last reader change a slot.
* **SocketEventsProofs.** `IndInv` = `TypeOK` ∧ `Sockets` ∧ `Threads` ∧ `Accounted` ∧
  `Waiting` ∧ `NotifierSurvives`.  `Accounted` restates `DescriptorsAccounted` pairwise;
  it is inductive only with `Threads` (the subscription thread runs only while it is wanted
  or waited for, notifications go to descriptors in the set) and `Sockets` (an open descriptor
  leads to an open connection).  `NotifierSurvives` needs `Waiting`: as long as nobody
  crashed or was overtaken, the observer of a connection that is not answered yet waits for
  the response with nothing in either stream.
  - `InOrderHolds` is an action property and rests on a second invariant, `Streams`: what
    is under way to an observer is `Whole`, that is cut into whole notifications with
    rising numbers, after the response if that is still to be read, and none is later than
    `Bound`, the current notification once it has been sent there.  A connection where a
    read for a reply took a notification is `garbled` and out of its scope, as it is out of
    `InOrder`'s.  `WholeAppend`, `WholeRest` and `WholeFirst` say what a send and a read do
    to such a stream.  The response is appended only where the observer still waits for it;
    if a notification came first, that observer's next read garbles the stream.
* **PoolAllocatorProofs.** `IndInv` = `TypeOK` ∧ `Links` ∧ `Merged` ∧ `Clients`, about all
  headers in memory rather than the list that `Tiling`, `ListWellFormed` and
  `ClientsKeepData` speak of; `ListIsHeaders` shows that they are the same.  The operations
  walk along the list, as recursive functions.  Every walk goes to higher, or to lower,
  offsets, so `WalkDefined` constructs the function that a walk computes and `WalkUnique`
  says that it is the only one: both from the least header where they could fail, as every
  set of naturals has a least member.  From them `FirstFitFits`, `MergeForwardIs` and
  `MergeBackwardIs` say what the searches and merges compute.  `SplitEffect`,
  `ForwardEffect` and `BackwardEffect` give the records after an operation, and
  `WholeKeeps`, `SplitKeeps` and `ForgetKeeps` the invariant.  `Merged` is used inside the
  merges: at most one node on each side is swallowed.
* **StructuresProofs**, a section for each block of `Structures`.
  - *Locks.* `ExcludesProcesses` speaks of what owners were told, so it needs
    `BeliefsTrue` (the kernel keeps it for their process, unless they are undermined),
    `ClosedHoldsNothing` (only open objects can be undermined) and `KernelExcludes`.
  - *Stack and queue.* Both refine `BoundedDeque`, step by step.  For the stack the bounds
    of the index are enough, up to the push that overruns.  For the queue, `FullMeansEqual` ties the flag to the indices,
    and `SlotOf` replaces the code's modulus by a comparison: `ContentsPush` and the like
    say what adding or removing at either end does to the contents, wherever they wrap
    round.  `SeenIsThere` keeps what an undisturbed consumer has read in the queue between
    its calls and gives `PopsWhatWasRead`.
  - *Mapping.* `MapInv` says of every object, also of one whose destructor is half done
    (`Held`, `DestructorsInOrder`), that its pages and its descriptor are its own
    (`PagesOwned`, `FdsOwned`), until one of the two double releases has hit somebody
    (`Damaged`).  `ResourcesOwned` is about living objects only and is not inductive, as a
    second `munmap` may come later.  `NothingLeaks` is inductive beside it; `ObjectFacts`
    and `NewObject` serve the operations that build an object, complete or to be taken down
    at once.
  - *String.* `StringInv`: until a call deviates, the array holds the text and a terminator
    behind it, both within `N` + 1 characters.  One lemma for each helper (`WriteIs`,
    `TerminatedIs`, `ChunkIs`, ...) says what it leaves where; each operation follows by
    composing them.  For `SearchesAgree`, `FindLoopFinds` shows that `find`, a recursive
    function, returns the first occurrence from each position on: if it failed anywhere it
    would fail at a position that is nearest to the end, as the naturals are well-founded
    (`LeastExists`), and one round of the loop (`FindRound`) refutes that.
  - *Vector.* `VectorInv`: until a call deviates or overruns, the cells of a vector hold
    what its reference does, in order (`Reads`), its elements fit its block, and
    (`EndsEven`) the block ends where an element does if the element size divides alignment
    and slack.  The last part is what `StaysInStorage` needs: `push_back` compares for
    equality, and an end that is a multiple of the element size cannot be stepped over.  The
    *Reads* lemmas (`InitializeReads`, `ReallocReads`, `AppendReads`, `InsertReads`,
    `EraseReads`, `TruncateReads`) say what building, moving and destroying cells does, with
    `MoveLoses` excluded.

Only model-checked: liveness (`PublishReturns`, `NoSleepForEver`, `CreateReturns`,
`CancelReturns`), which the proof system does not do, and `Numeric` (`RoundingCorrect`,
`MaskWalksRound`), whose bit operations the prover cannot reach.  Every other property of a
passing run is stated by a theorem.

## 5. Divergences seen while modelling

Besides the five that runs show (findings in `PROJECT.json`), reading the code for the
model turned up these.  They follow from a line or two and no run is spent on them.

* `real_time_subscriber.h:139` calls `acquire_unsafe` on a slot that may have been reset
  since its index was loaded; `real_time_message.h:106` asks to be "ABSOLUTELY sure" that
  the message is valid.  The check afterwards (140) does not make up for that: a releaser that
  took the counter from 1 to 0 still owes its two stores (`real_time_message.h:52`), and a
  fetch that takes its access, 0 to 1, and passes the check before them is left with a slot
  that is emptied under it, which the next `publish()` then picks.  `FetchIsFresh` is about
  the moment of the check, `RefCountExact` counts such an access, and no property here says
  that a message stays as it is while a wrapper holds it: in this code it need not.
* `real_time_subscriber.h:141` marks a message as seen before the acquire limit is looked
  at.  A refused message is lost, and `await_message` goes on blocking after acquires were
  released, unlike its comment (line 168) says.
* `fifo_message.h:103`: `consume` compares its old active count with the references left at
  the time of the comparison.  If another reader finishes in between, a subscriber
  entitled to the message is refused; lines 105 to 111 return without taking the active
  count back, so later messages in the slot are refused too.
* `mutex.h:166` describes `_flag` with readers and writers exchanged.
* `fifo_publisher.h:312` overwrites messages not yet read; `options.h:21` says that all
  messages are published to all subscribers.
* `stl/allocator.h:176`: `allocate` does not take the mutex that line 317 asserts to be
  locked, and does not round up as line 166 says.  `max_size` (line 219) forgets the
  pool's header.
* `numeric.h:70`: no power of two is at most 0.
* `real_time_memory_layout.h:149`: `init_at` constructs the header, initialisation state
  included, before the compare-and-swap that is to keep a second initialiser out (comment
  in line 79).
* `ip_lock.h:155`: fcntl locks belong to the process, so two publishers of one process get
  the same entry and the same slots.
* `ipcpp.h:31`: `initialize_runtime` constructs the allocator also in a memory that another
  process already uses.
* `domain_socket_notifier.h`: the observer is in the set before it has its response (208),
  so that a notification may come first and be read as the response; the comment in
  lines 32 and 33 speaks of a queue.  A move (51) forgets the paused observers;
  `reject_subscriptions` (138) stops the request thread although paused observers may
  want to resume; `shutdown` (104) leaves the observers' sockets open; `max_observers` limits
  only the backlog.
* `domain_socket_observer.h`: nothing answers `cancel_subscription` (95), which ends with
  `UNKNOWN` when the notifier closes, keeps its socket, and stays subscribed; a timeout of
  `receive` stays on the socket; nobody sets `_subscription_paused`; requests are sent
  without `MSG_NOSIGNAL`.
* `vector.h`: copy assignment (100) and `assign` (135) leave `_m_finish` where it was if the new
  elements fit; `assign` that runs out of memory keeps offsets of storage it gave back
  (108); `insert(pos, first, last)` uses `pos` after a reallocation (269); `push_back` (324) steps
  over the end if the size of an element does not divide the block; `resize` (505) checks
  the new size as if it were added to the old one.
* `fixed_size/basic_string.h`: `push_back` (364) and `operator=(const value_type*)` (125) check no
  limit; `assign(str, pos, count)` takes over the whole size (180); `insert` with a position in
  the other string ignores it (341, also without a count: 340 inserts all of the string); `basic_string(other, pos)` copies nothing (88);
  `assign(first, last)` never ends (215); `substr` is a stub.
* `fixed_size_queue.h`: `pop_front` and `pop_back` of an empty queue go round (143, 152);
  `_items` begins `sizeof(Header)` elements, not bytes, behind the header (236); the reference
  counters are counted up and never read, unlike lines 69 and 70 say.
  `create` (82) asks for less memory than that takes.  `fixed_size_stack.h` has the same
  stepping (191, 200).
* `shared_memory_file.cpp:41`: move assignment closes its descriptor and then swaps its
  number into the other object, which closes it again.  `linux/mapped_memory.cpp:82` unmaps
  a region a second time, which another thread may have mapped by then.
  `linux/shared_memory_file.cpp` leaks the descriptor if the file cannot be sized (50), and
  in `open` if `fstat` fails (70); `create` has unlinked the old name when `shm_open` fails (46).
* `real_time_publisher.h:38`: `start - timestamp()` wraps around, so the search for an
  entry gives up after one round.

## 6. Not modelled

* weak memory orders beyond the free order of plain stores;
* recovery of references held by crashed processes (the code has none);
* publishers with differing options; the FIFO set-up; `initialize_runtime`;
* races of `pool_allocator::allocate`, which takes no lock;
* `mutex` (a test-and-set lock) and `futex` (unused; see the hazards);
* shared memory events: a counter that `receive` waits on to change; list, ring buffer,
  queue and chunk allocator of `shm/`; `reference_counted`: next in the plan;
* destruction of elements in `Vector` and memory orders inside the queue, which is always
  locked;
* pipes, services, logging, I/O, Windows variants.

## 7. Plan

1. Done: `RealTime`, locks, `Fifo`, `PoolAllocator`, `Numeric`, `Setup`, and proofs for
   `RealTime`, both locks and `Setup`.
2. Done: domain socket events, vector, fixed-size string, queue and stack, mapping and
   process locks, the latter with proofs.
3. Done: proofs of `PoolSuffices`, `FetchIsFresh`, all of `Fifo`, `DescriptorsAccounted`,
   `NotifierSurvives`, `InOrder` and the pool allocator.
4. Done: proofs of all blocks of `Structures`: locks, queue, stack, mapping, string, vector.
5. Later: shared memory events, the containers of `shm/`; `initialize_runtime` over `Setup` and
   `PoolAllocator`; FIFO set-up; differing options; the races of `allocate()`.
