------------------------------ MODULE FileLock ------------------------------
(***************************************************************************)
(* file_lock of utils/file_lock.h with its guards, and InterProcessLock of *)
(* utils/ip_lock.h, on Linux: both are a descriptor of a file in /tmp and  *)
(* fcntl record locks over all of it.  Such a lock belongs to the process: *)
(* every object of a process speaks for the same lock, and closing any of  *)
(* their descriptors drops it.  held is what an object's owner was told.   *)
(***************************************************************************)
EXTENDS Integers, FiniteSets

CONSTANTS
  Procs,     \* processes
  Slots      \* objects a process may have for the one file

Locks == Procs \X Slots
Proc(o) == o[1]

VARIABLES
  open,        \* objects that exist (with fd_ # -1)
  held,        \* object -> "none", "shared" or "exclusive", as its owner believes
  kernel,      \* process -> the lock the kernel keeps for it
  undermined   \* objects whose lock another object of the process has changed

vars == <<open, held, kernel, undermined>>

Init ==
  /\ open = {} /\ undermined = {}
  /\ held = [o \in Locks |-> "none"]
  /\ kernel = [p \in Procs |-> "none"]

\* external: whether the kernel grants p a lock, whatever p has already.
Grants(p, type) ==
  \A q \in Procs \ {p} :
    kernel[q] = "none" \/ (type = "shared" /\ kernel[q] = "shared")

\* external: p's one lock becomes type; other objects of p that believe in
\* another one are wrong from now on.
SetKernel(p, type, by) ==
  /\ kernel' = [kernel EXCEPT ![p] = type]
  /\ undermined' = {o \in (undermined \ {by}) \cup (open \ {by}) :
                      o \in undermined \/ (Proc(o) = p /\ held[o] \notin {"none", type})}

\* file_lock(name), Impl(name)
Open(o) ==
  /\ o \notin open
  /\ open' = open \cup {o}
  /\ UNCHANGED <<held, kernel, undermined>>

\* Mutant: an exclusive lock is asked for with F_RDLCK.
LockAsksToRead(o, type) ==
  /\ o \in open /\ Grants(Proc(o), "shared")
  /\ held' = [held EXCEPT ![o] = type]
  /\ SetKernel(Proc(o), "shared", o)
  /\ UNCHANGED open

\* lock(), lock_shared(), which wait, and the try_ versions when they succeed.
\* A request replaces what the process has.
Lock(o, type) ==
  /\ o \in open /\ Grants(Proc(o), type)
  /\ held' = [held EXCEPT ![o] = type]
  /\ SetKernel(Proc(o), type, o)
  /\ UNCHANGED open

\* try_lock(), try_lock_shared() when they fail: what o had it still has.
TryFails(o, type) ==
  /\ o \in open /\ ~Grants(Proc(o), type)
  /\ UNCHANGED vars

\* unlock(), unlock_shared()
Unlock(o) ==
  /\ o \in open
  /\ held' = [held EXCEPT ![o] = "none"]
  /\ SetKernel(Proc(o), "none", o)
  /\ UNCHANGED open

\* The guards unique_file_lock and shared_file_lock, and the owners of a
\* file_lock: the guards pass every call on to the object they refer to.
Guarded(o) ==
  \/ \E type \in {"shared", "exclusive"} : Lock(o, type) \/ TryFails(o, type)
  \/ Unlock(o)

\* InterProcessLock knows only exclusive locks.
ProcessLocked(o) ==
  Lock(o, "exclusive") \/ TryFails(o, "exclusive") \/ Unlock(o)

\* ~file_lock(), ~Impl(): close() drops all locks of the process.
Close(o) ==
  /\ o \in open
  /\ open' = open \ {o}
  /\ held' = [held EXCEPT ![o] = "none"]
  /\ SetKernel(Proc(o), "none", o)

\* Impl(Impl&&): the descriptor goes to another object, nothing is closed.
Move(o, p) ==
  /\ o \in open /\ p \notin open /\ Proc(o) = Proc(p)
  /\ open' = (open \ {o}) \cup {p}
  /\ held' = [held EXCEPT ![p] = held[o], ![o] = "none"]
  /\ undermined' = IF o \in undermined THEN (undermined \ {o}) \cup {p} ELSE undermined
  /\ UNCHANGED kernel

\* A process ends, with or without destructors.
Exit(p) ==
  /\ open' = {o \in open : Proc(o) # p}
  /\ held' = [o \in Locks |-> IF Proc(o) = p THEN "none" ELSE held[o]]
  /\ kernel' = [kernel EXCEPT ![p] = "none"]
  /\ undermined' = {o \in undermined : Proc(o) # p}

Next ==
  \/ \E o \in Locks :
       \/ Open(o) \/ Guarded(o) \/ ProcessLocked(o) \/ Close(o)
       \/ \E p \in Locks : Move(o, p)
  \/ \E p \in Procs : Exit(p)

Spec == Init /\ [][Next]_vars

-----------------------------------------------------------------------------
(* Properties                                                              *)

Conflict(s, t) == "none" \notin {s, t} /\ "exclusive" \in {s, t}

\* Two processes never both hold the lock if one of them holds it for
\* writing, unless another object of one of the processes has unlocked,
\* converted or closed the file in the meantime.
ExcludesProcesses ==
  \A o, p \in Locks : Proc(o) # Proc(p) /\ Conflict(held[o], held[p])
    => {o, p} \cap undermined # {}
=============================================================================
