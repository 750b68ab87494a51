------------------------------ MODULE Mapping -------------------------------
(***************************************************************************)
(* shared_memory_file and MappedMemory (shm/shared_memory_file.cpp,        *)
(* shm/mapped_memory.cpp and their linux parts) inside one process: whose  *)
(* descriptors and pages they are when objects are moved, released and     *)
(* destroyed, on several threads.  A file is one page; a DOUBLE mapping    *)
(* shows it twice, side by side.  A destructor takes its munmap and close  *)
(* calls one at a time, every other operation is one step.                 *)
(***************************************************************************)
EXTENDS Integers, Sequences

CONSTANTS
  Objects,     \* MappedMemory objects
  MaxFd,       \* descriptors are 1 .. MaxFd; the lowest free one is used
  MaxPage,     \* pages are 1 .. MaxPage; mmap picks any that are free
  MaxFiles,    \* bound: files ever created
  None         \* no object, no file

Fds == 1 .. MaxFd
Pages == 1 .. MaxPage

VARIABLES
  obj,       \* the objects: MappedMemory with its shared_memory_file
  unmaps,    \* munmap calls a destructor has left, or None
  fds,       \* descriptor -> open file
  pages,     \* page -> file mapped there, or Anonymous
  name,      \* the file the one path leads to
  files,     \* files created so far
  leaked     \* descriptors and pages given up on purpose or by an error path

vars == <<obj, unmaps, fds, pages, name, files, leaked>>

\* What a page shows that is only reserved for a DOUBLE mapping.
Anonymous == 0

Exists(o) == obj[o] # None
Live(o) == Exists(o) /\ unmaps[o] = None

\* _mapped_region, number of pages, DOUBLE?, _native_handle, the file it is
\* for, _was_created; stale: the descriptor has been closed already; hit:
\* somebody else closed or unmapped what is this object's.
Object(region, n, double, fd, file, created) ==
  [region |-> region, n |-> n, double |-> double, fd |-> fd, file |-> file,
   created |-> created, stale |-> FALSE, hit |-> FALSE]

\* What is left after a move: no mapping, no descriptor.
Husk(v) == Object(0, 0, v.double, 0, None, FALSE)

Region(v) == v.region .. v.region + v.n - 1

Init ==
  /\ obj = [o \in Objects |-> None] /\ unmaps = [o \in Objects |-> None]
  /\ fds = [d \in Fds |-> None] /\ pages = [p \in Pages |-> None]
  /\ name = None /\ files = 0 /\ leaked = {}

-----------------------------------------------------------------------------
(* create() and open()                                                     *)

FreeFd(fd) == fds[fd] = None /\ \A d \in Fds : fds[d] = None => fd <= d

\* _map_memory: the kernel takes any n free pages.
FreeRegion(p, n) == \A q \in p .. p + n - 1 : q \in Pages /\ pages[q] = None

\* shared_memory_file::create: whatever has the name loses it.
CreateFile(fd) ==
  /\ files < MaxFiles /\ FreeFd(fd)
  /\ files' = files + 1 /\ name' = files + 1
  /\ fds' = [fds EXCEPT ![fd] = files + 1]

\* shared_memory_file::open
OpenFile(fd) ==
  /\ name # None /\ FreeFd(fd)
  /\ fds' = [fds EXCEPT ![fd] = name]
  /\ UNCHANGED <<files, name>>

\* MappedMemory::create and open: the file, then all of the mapping.
Establish(o, created, double) ==
  \E fd \in Fds, p \in Pages :
    LET n == IF double THEN 2 ELSE 1
    IN  /\ ~Exists(o) /\ FreeRegion(p, n)
        /\ IF created THEN CreateFile(fd) ELSE OpenFile(fd)
        /\ obj' = [obj EXCEPT ![o] = Object(p, n, double, fd, name', created)]
        /\ pages' = [q \in Pages |-> IF q \in p .. p + n - 1 THEN name' ELSE pages[q]]
        /\ UNCHANGED <<unmaps, leaked>>

\* shm_open fails in create(), which has unlinked the old name by then.
CreateFails == name' = None /\ UNCHANGED <<obj, unmaps, fds, pages, files, leaked>>

\* ftruncate fails in create(), or fstat in open(): both return before they
\* have stored the descriptor, and nobody closes it.
SizeFails(created) ==
  \E fd \in Fds :
    /\ IF created THEN CreateFile(fd) ELSE OpenFile(fd)
    /\ leaked' = leaked \cup {<<"fd", fd>>}
    /\ UNCHANGED <<obj, unmaps, pages>>

-----------------------------------------------------------------------------
(* Failed mappings, moves, release() and destruction                       *)

\* Mutant: a DOUBLE mapping is unmapped as if it were a SINGLE one.
CallsFirstHalf(v) == IF v.n = 0 THEN <<>> ELSE <<{v.region}>>

\* The munmap calls of ~MappedMemory.
Calls(v) ==
  IF v.n = 0 THEN <<>>
  ELSE IF v.double THEN <<{v.region}, {v.region + 1}, Region(v)>>
  ELSE <<Region(v)>>

\* open() may not write, or the first mapping fails: the object under
\* construction has its file only, and is destroyed.
MapFails(o, created, double) ==
  \E fd \in Fds :
    /\ ~Exists(o)
    /\ IF created THEN CreateFile(fd) ELSE OpenFile(fd)
    /\ obj' = [obj EXCEPT ![o] = Object(0, 0, double, fd, name', created)]
    /\ unmaps' = [unmaps EXCEPT ![o] = Calls(obj'[o])]
    /\ UNCHANGED <<pages, leaked>>

\* The pages of a DOUBLE mapping have been reserved, and the file cannot be
\* mapped over the first or over the second: the object is destroyed, and
\* its munmap calls are those of one that is complete.
RemapFails(o, created) ==
  \E fd \in Fds, p \in Pages, first \in BOOLEAN :
    /\ ~Exists(o) /\ FreeRegion(p, 2)
    /\ IF created THEN CreateFile(fd) ELSE OpenFile(fd)
    /\ obj' = [obj EXCEPT ![o] = Object(p, 2, TRUE, fd, name', created)]
    /\ unmaps' = [unmaps EXCEPT ![o] = Calls(obj'[o])]
    /\ pages' = [pages EXCEPT ![p] = IF first THEN name' ELSE Anonymous, ![p + 1] = Anonymous]
    /\ UNCHANGED leaked

\* Mutant: the source keeps its mapping.
MoveCopies(o, p) ==
  /\ Live(p) /\ ~Exists(o)
  /\ obj' = [obj EXCEPT ![o] = obj[p], ![p].fd = 0]
  /\ UNCHANGED <<unmaps, fds, pages, name, files, leaked>>

\* Move construction: everything is swapped with an object that is empty.
MoveConstruct(o, p) ==
  /\ Live(p) /\ ~Exists(o)
  /\ obj' = [obj EXCEPT ![o] = obj[p], ![p] = Husk(obj[p])]
  /\ UNCHANGED <<unmaps, fds, pages, name, files, leaked>>

Closed(fd) == [d \in Fds |-> IF d = fd THEN None ELSE fds[d]]

\* Closing a descriptor that is stale takes it away from its new owner.
AfterClose(by) ==
  [q \in Objects |->
     IF Exists(q) /\ q # by /\ obj[by].stale /\ obj[q].fd = obj[by].fd /\ ~obj[q].stale
       THEN [obj[q] EXCEPT !.hit = TRUE] ELSE obj[q]]

\* Move assignment: o closes its file and unlinks it, then everything is
\* swapped: p is left with a descriptor that is closed, and without a path.
MoveAssign(o, p) ==
  LET rest == AfterClose(o)
  IN  /\ Live(o) /\ Live(p) /\ o # p /\ obj[o].double = obj[p].double
      /\ fds' = Closed(obj[o].fd)
      /\ name' = IF obj[o].created THEN None ELSE name
      /\ obj' = [rest EXCEPT ![o] = rest[p],
                   ![p] = [obj[o] EXCEPT !.stale = obj[o].fd # 0, !.created = FALSE]]
      /\ UNCHANGED <<unmaps, pages, files, leaked>>

\* release(): the pages stay mapped, and nobody knows of them.
Release(o) ==
  /\ Live(o) /\ obj[o].n > 0
  /\ leaked' = leaked \cup {<<"page", q>> : q \in Region(obj[o])}
  /\ obj' = [obj EXCEPT ![o].region = 0, ![o].n = 0]
  /\ UNCHANGED <<unmaps, fds, pages, name, files>>

Destroy(o) ==
  /\ Live(o)
  /\ unmaps' = [unmaps EXCEPT ![o] = Calls(obj[o])]
  /\ UNCHANGED <<obj, fds, pages, name, files, leaked>>

\* Whether the next munmap frees pages that were freed before and may be
\* somebody else's by now: the last one of a DOUBLE mapping does.
FreesAgain(o) == obj[o].double /\ Len(unmaps[o]) = 1

AfterMunmap(by, region) ==
  [q \in Objects |->
     IF Exists(q) /\ q # by /\ FreesAgain(by) /\ obj[q].n > 0 /\ Region(obj[q]) \cap region # {}
       THEN [obj[q] EXCEPT !.hit = TRUE] ELSE obj[q]]

Munmap(o) ==
  /\ Exists(o) /\ unmaps[o] \notin {None, <<>>}
  /\ pages' = [q \in Pages |-> IF q \in Head(unmaps[o]) THEN None ELSE pages[q]]
  /\ unmaps' = [unmaps EXCEPT ![o] = Tail(@)]
  /\ obj' = [AfterMunmap(o, Head(unmaps[o])) EXCEPT ![o].n = IF Len(unmaps[o]) = 1 THEN 0 ELSE @]
  /\ UNCHANGED <<fds, name, files, leaked>>

\* ~shared_memory_file: close and, by the one that created it, unlink.
CloseFile(o) ==
  /\ Exists(o) /\ unmaps[o] = <<>>
  /\ fds' = Closed(obj[o].fd)
  /\ name' = IF obj[o].created THEN None ELSE name
  /\ obj' = [AfterClose(o) EXCEPT ![o] = None]
  /\ unmaps' = [unmaps EXCEPT ![o] = None]
  /\ UNCHANGED <<pages, files, leaked>>

\* The history ends when somebody has been hit.
Damaged == \E o \in Objects : Exists(o) /\ obj[o].hit

Next ==
  /\ ~Damaged
  /\ \/ CreateFails
     \/ \E created \in BOOLEAN : SizeFails(created)
     \/ \E o \in Objects :
          \/ \E created, double \in BOOLEAN :
               Establish(o, created, double) \/ MapFails(o, created, double)
          \/ \E created \in BOOLEAN : RemapFails(o, created)
          \/ Release(o) \/ Destroy(o) \/ Munmap(o) \/ CloseFile(o)
          \/ \E p \in Objects : MoveConstruct(o, p) \/ MoveAssign(o, p)

Spec == Init /\ [][Next]_vars

-----------------------------------------------------------------------------
(* Properties                                                              *)

\* As long as an object lives, all of its pages show its file and its
\* descriptor is open on it, whatever other objects are moved or destroyed;
\* only two things can take them away: the second close() of a descriptor
\* that a move assignment left behind, and the last munmap of a DOUBLE
\* mapping in a race with another thread's mmap.
ResourcesOwned ==
  ~Damaged => \A o \in Objects : Live(o) =>
    /\ obj[o].n > 0 => \A q \in Region(obj[o]) : pages[q] = obj[o].file
    /\ obj[o].fd # 0 /\ ~obj[o].stale => fds[obj[o].fd] = obj[o].file

\* RAII: a page or a descriptor is some object's, also when a mapping fails
\* halfway, unless it was release()d, create() could not set the size of its
\* file or open() could not find it out.
NothingLeaks ==
  /\ \A q \in Pages : pages[q] # None =>
       <<"page", q>> \in leaked \/ \E o \in Objects : Exists(o) /\ obj[o].n > 0 /\ q \in Region(obj[o])
  /\ \A d \in Fds : fds[d] # None =>
       <<"fd", d>> \in leaked \/ \E o \in Objects : Exists(o) /\ obj[o].fd = d
=============================================================================
