---------------------------- MODULE SharedMemory ----------------------------
(***************************************************************************)
(* MDDSharedMemory.h: processes that construct an object for one memoryID, *)
(* read and write the memory under a named semaphore and destroy the       *)
(* object, on Linux (POSIX) or on Windows.  A process may end at any point *)
(* without its destructor, by a crash or an error, and start again.        *)
(*                                                                         *)
(* A byte of the memory is the process that wrote it, Nobody since it was  *)
(* created; memcpy goes byte by byte.  On Windows all handles are handles  *)
(* to what has the name at the time: the kernel frees both together.       *)
(***************************************************************************)
EXTENDS Integers

CONSTANTS
  Processes,   \* with one object each
  Cleanup,     \* those whose object unlinks the names in its destructor
  Sizes,       \* values of bufSize
  Memories,    \* shared memory objects of the kernel
  Semaphores,  \* and its semaphores
  Platforms,   \* "linux", "windows"
  None, Nobody

ASSUME SharedMemoryAssumption ==
  /\ Cleanup \subseteq Processes
  /\ Sizes \subseteq Nat \ {0}
  /\ None \notin Memories \cup Semaphores
  /\ Nobody \notin Processes
  /\ Platforms \subseteq {"linux", "windows"}

VARIABLES
  platform,
  shmname, semname,    \* what the two names are bound to
  value,               \* of each semaphore
  size, data,          \* of each memory
  smb,                 \* of each process: its object
  pc, todo,            \* its control point, and what it wants the semaphore for
  at, buffer,          \* bytes memcpy is done with, and where a read copies them to
  keptShm, keptSem,    \* Windows: processes with a second handle nobody closes
  lost, mixed, crashed \* history: semaphores whose holder ended, memories that were used
                       \* under different semaphores, whether a process crashed

kernel == <<shmname, semname, value, size, data>>
process == <<smb, pc, todo, at, buffer>>
kept == <<keptShm, keptSem>>
history == <<lost, mixed, crashed>>
vars == <<platform, kernel, process, kept, history>>

Bytes == UNION {1 .. n : n \in Sizes}
Blank == [k \in Bytes |-> Nobody]
Objects == [shm : Memories \cup {None}, sem : Semaphores \cup {None}, size : Sizes \cup {0}]
NoObject == [shm |-> None, sem |-> None, size |-> 0]
Tasks == {"open", "read", "write"}
\* Control points at which the semaphore is held
Inside == {"open", "create", "truncate", "read", "write", "post"}
Points == Inside \cup {"off", "wait", "idle", "unlinkShm", "unlinkSem",
                       "map", "closeSem", "closed"}

TypeOK ==
  /\ platform \in Platforms
  /\ shmname \in Memories \cup {None} /\ semname \in Semaphores \cup {None}
  /\ value \in [Semaphores -> 0 .. 1]
  /\ size \in [Memories -> Sizes \cup {0}] /\ data \in [Memories -> [Bytes -> Processes \cup {Nobody}]]
  /\ smb \in [Processes -> Objects]
  /\ pc \in [Processes -> Points] /\ todo \in [Processes -> Tasks \cup {"none"}]
  /\ at \in [Processes -> Nat] /\ buffer \in [Processes -> [Bytes -> Processes \cup {Nobody}]]
  /\ keptShm \subseteq Processes /\ keptSem \subseteq Processes
  /\ lost \subseteq Semaphores /\ mixed \subseteq Memories /\ crashed \in BOOLEAN

Init ==
  /\ platform \in Platforms
  /\ shmname = None /\ semname = None
  /\ value = [s \in Semaphores |-> 0]
  /\ size = [m \in Memories |-> 0] /\ data = [m \in Memories |-> Blank]
  /\ smb = [p \in Processes |-> NoObject]
  /\ pc = [p \in Processes |-> "off"] /\ todo = [p \in Processes |-> "none"]
  /\ at = [p \in Processes |-> 0] /\ buffer = [p \in Processes |-> Blank]
  /\ keptShm = {} /\ keptSem = {}
  /\ lost = {} /\ mixed = {} /\ crashed = FALSE

Linux == platform = "linux"
Windows == platform = "windows"
Goto(p, point) == pc' = [pc EXCEPT ![p] = point]
Holds(p, s) == smb[p].sem = s /\ pc[p] \in Inside
Waiting(s) == {p \in Processes : smb[p].sem = s /\ pc[p] = "wait"}

\* A semaphore or memory nobody refers to; their number bounds how many there are at once.
FreeSemaphores == Semaphores \ ({semname} \cup {smb[p].sem : p \in Processes})
FreeMemories == Memories \ ({shmname} \cup {smb[p].shm : p \in Processes})

----------------------------------------------------------------------------
(* What both platforms have: naming, the semaphore, reads and writes. *)

\* sem_open(O_CREAT) and CreateSemaphore: the semaphore of the name, or a new free one.
NameSemaphore(p, n) ==
  \/ /\ semname # None
     /\ smb' = [smb EXCEPT ![p] = [NoObject EXCEPT !.sem = semname, !.size = n]]
     /\ UNCHANGED <<semname, value, lost>>
  \/ /\ semname = None
     /\ FreeSemaphores # {}
     /\ semname' = CHOOSE s \in FreeSemaphores : TRUE
     /\ value' = [value EXCEPT ![semname'] = 1]
     /\ lost' = lost \ {semname'}
     /\ smb' = [smb EXCEPT ![p] = [NoObject EXCEPT !.sem = semname', !.size = n]]

\* p gets memory m: it is mixed when others use it under another semaphore.
Attach(p, m) ==
  /\ smb' = [smb EXCEPT ![p].shm = m]
  /\ mixed' = IF \E q \in Processes \ {p} : smb[q].shm = m /\ smb[q].sem # smb[p].sem
              THEN mixed \cup {m} ELSE mixed

\* A new memory of n bytes
AttachNew(p, n) ==
  /\ FreeMemories # {}
  /\ shmname' = CHOOSE m \in FreeMemories : TRUE
  /\ size' = [size EXCEPT ![shmname'] = n]
  /\ data' = [data EXCEPT ![shmname'] = Blank]
  /\ smb' = [smb EXCEPT ![p].shm = shmname']
  /\ mixed' = mixed \ {shmname'}

\* MDD_SharedMemoryRead, ReadP, Write and WriteP
Begin(p, task) ==
  /\ pc[p] = "idle" /\ task \in {"read", "write"}
  /\ Goto(p, "wait")
  /\ todo' = [todo EXCEPT ![p] = task]
  /\ UNCHANGED <<platform, kernel, smb, at, buffer, kept, history>>

AcquireUnguarded(p) ==
  /\ pc[p] = "wait"
  /\ value' = [value EXCEPT ![smb[p].sem] = @ - 1]
  /\ Goto(p, todo[p])
  /\ UNCHANGED <<platform, shmname, semname, size, data, smb, todo, at, buffer, kept, history>>

\* sem_wait; on Windows, WaitForSingleObject in a loop
Acquire(p) ==
  /\ pc[p] = "wait" /\ value[smb[p].sem] > 0
  /\ AcquireUnguarded(p)

\* One byte of memcpy
Next1(p) == at[p] + 1
Copy(p) ==
  /\ pc[p] \in {"read", "write"}
  /\ Next1(p) <= size[smb[p].shm]
  /\ IF pc[p] = "read"
     THEN /\ buffer' = [buffer EXCEPT ![p][Next1(p)] = data[smb[p].shm][Next1(p)]]
          /\ UNCHANGED data
     ELSE /\ data' = [data EXCEPT ![smb[p].shm][Next1(p)] = p]
          /\ UNCHANGED buffer
  /\ at' = [at EXCEPT ![p] = Next1(p)]
  /\ IF Next1(p) = smb[p].size THEN Goto(p, "post") ELSE UNCHANGED pc
  /\ UNCHANGED <<platform, shmname, semname, value, size, smb, todo, kept, history>>

PostUnlessRead(p) ==
  /\ pc[p] = "post"
  /\ value' = [value EXCEPT ![smb[p].sem] = IF todo[p] = "read" THEN @ ELSE @ + 1]
  /\ Goto(p, "idle")
  /\ todo' = [todo EXCEPT ![p] = "none"]
  /\ at' = [at EXCEPT ![p] = 0]
  /\ buffer' = [buffer EXCEPT ![p] = Blank]
  /\ UNCHANGED <<platform, shmname, semname, size, data, smb, kept, history>>

\* sem_post, ReleaseSemaphore
Post(p) ==
  /\ pc[p] = "post"
  /\ value' = [value EXCEPT ![smb[p].sem] = @ + 1]
  /\ Goto(p, "idle")
  /\ todo' = [todo EXCEPT ![p] = "none"]
  /\ at' = [at EXCEPT ![p] = 0]
  /\ buffer' = [buffer EXCEPT ![p] = Blank]
  /\ UNCHANGED <<platform, shmname, semname, size, data, smb, kept, history>>

\* The process ends: its object and its handles are gone, on Windows with them a name
\* without a handle; a semaphore it holds stays as it is.
End(p, point) ==
  /\ smb' = [smb EXCEPT ![p] = NoObject]
  /\ Goto(p, point)
  /\ todo' = [todo EXCEPT ![p] = "none"]
  /\ at' = [at EXCEPT ![p] = 0]
  /\ buffer' = [buffer EXCEPT ![p] = Blank]
  /\ keptShm' = keptShm \ {p} /\ keptSem' = keptSem \ {p}

(* The kernel frees a memory or semaphore nobody refers to any more. *)
Reclaim(ended) ==
  LET memories == {shmname'} \cup {smb'[p].shm : p \in Processes}
      semaphores == {semname'} \cup {smb'[p].sem : p \in Processes}
  IN  /\ size' = [m \in Memories |-> IF m \in memories THEN size[m] ELSE 0]
      /\ data' = [m \in Memories |-> IF m \in memories THEN data[m] ELSE Blank]
      /\ value' = [s \in Semaphores |-> IF s \in semaphores THEN value[s] ELSE 0]
      /\ mixed' = mixed \cap memories
      /\ lost' = (lost \cup ended) \cap semaphores

Users(ks, object, field) == ks \cup {p \in Processes : object[p][field] # None}
ReleaseNames ==
  /\ shmname' = IF Windows /\ Users(keptShm', smb', "shm") = {} THEN None ELSE shmname
  /\ semname' = IF Windows /\ Users(keptSem', smb', "sem") = {} THEN None ELSE semname

\* The process crashes or an error of the library ends it, at any point; it also does when
\* memcpy leaves memory that another constructor has made smaller.
Crash(p) ==
  /\ pc[p] # "off"
  /\ End(p, "off")
  /\ ReleaseNames
  /\ crashed' = TRUE
  /\ Reclaim(IF pc[p] \in Inside THEN {smb[p].sem} ELSE {})
  /\ UNCHANGED platform

----------------------------------------------------------------------------
(* Linux *)

\* MDD_SharedMemoryConstructor: sem_open
SemOpen(p, n) ==
  /\ Linux /\ pc[p] = "off"
  /\ NameSemaphore(p, n)
  /\ Goto(p, "wait")
  /\ todo' = [todo EXCEPT ![p] = "open"]
  /\ UNCHANGED <<platform, shmname, size, data, at, buffer, kept, mixed, crashed>>

\* shm_open(O_RDWR)
ShmOpen(p) ==
  /\ pc[p] = "open"
  /\ IF shmname # None
     THEN Attach(p, shmname) /\ Goto(p, "truncate")
     ELSE Goto(p, "create") /\ UNCHANGED <<smb, mixed>>
  /\ UNCHANGED <<platform, kernel, todo, at, buffer, kept, lost, crashed>>

\* shm_open(O_CREAT | O_RDWR | O_TRUNC)
ShmCreate(p) ==
  /\ pc[p] = "create"
  /\ \/ shmname = None /\ AttachNew(p, 0)
     \/ /\ shmname # None
        /\ Attach(p, shmname)
        /\ size' = [size EXCEPT ![shmname] = 0]
        /\ data' = [data EXCEPT ![shmname] = Blank]
        /\ UNCHANGED shmname
  /\ Goto(p, "truncate")
  /\ UNCHANGED <<platform, semname, value, todo, at, buffer, kept, lost, crashed>>

\* ftruncate and mmap: bytes that are cut off come back as zero.
Truncate(p) ==
  /\ pc[p] = "truncate"
  /\ LET m == smb[p].shm
         n == smb[p].size
     IN  /\ size' = [size EXCEPT ![m] = n]
         /\ data' = [data EXCEPT ![m] = [k \in Bytes |-> IF k <= n THEN data[m][k] ELSE Nobody]]
  /\ Goto(p, "post")
  /\ UNCHANGED <<platform, shmname, semname, value, smb, todo, at, buffer, kept, history>>

\* MDD_SharedMemoryDestructor: munmap, close, sem_close
Destroy(p) ==
  /\ Linux /\ pc[p] = "idle"
  /\ End(p, IF p \in Cleanup THEN "unlinkShm" ELSE "off")
  /\ UNCHANGED <<platform, shmname, semname, crashed>>
  /\ Reclaim({})

ShmUnlink(p) ==
  /\ pc[p] = "unlinkShm"
  /\ shmname' = None
  /\ Goto(p, "unlinkSem")
  /\ UNCHANGED <<platform, semname, smb, todo, at, buffer, kept, crashed>>
  /\ Reclaim({})

KeepSemaphore(p) ==
  /\ pc[p] = "unlinkSem"
  /\ Goto(p, "off")
  /\ UNCHANGED <<platform, kernel, smb, todo, at, buffer, kept, history>>

SemUnlink(p) ==
  /\ pc[p] = "unlinkSem"
  /\ semname' = None
  /\ Goto(p, "off")
  /\ UNCHANGED <<platform, shmname, smb, todo, at, buffer, kept, crashed>>
  /\ Reclaim({})

----------------------------------------------------------------------------
(* Windows *)

\* CreateSemaphore, and OpenSemaphore when there is one: a second handle, which is
\* stored where the handle of the mapping goes next.
WinSemaphore(p, n) ==
  /\ Windows /\ pc[p] \in {"off", "closed"}
  /\ NameSemaphore(p, n)
  /\ keptSem' = IF semname # None THEN keptSem \cup {p} ELSE keptSem
  /\ Goto(p, "map")
  /\ UNCHANGED <<platform, shmname, size, data, todo, at, buffer, keptShm, mixed, crashed>>

\* CreateFileMapping, and OpenFileMapping in its place when there is one.
WinMap(p) ==
  /\ pc[p] = "map"
  /\ \/ shmname = None /\ AttachNew(p, smb[p].size) /\ UNCHANGED keptShm
     \/ /\ shmname # None
        /\ smb[p].size <= size[shmname]
        /\ Attach(p, shmname)
        /\ keptShm' = keptShm \cup {p}
        /\ UNCHANGED <<shmname, size, data>>
  /\ Goto(p, "idle")
  /\ UNCHANGED <<platform, semname, value, todo, at, buffer, keptSem, lost, crashed>>

\* UnmapViewOfFile and CloseHandle of the mapping
WinUnmap(p) ==
  /\ Windows /\ pc[p] = "idle"
  /\ smb' = [smb EXCEPT ![p].shm = None]
  /\ UNCHANGED kept
  /\ ReleaseNames
  /\ Reclaim({})
  /\ Goto(p, "closeSem")
  /\ UNCHANGED <<platform, todo, at, buffer, crashed>>

\* CloseHandle of the semaphore
WinClose(p) ==
  /\ pc[p] = "closeSem"
  /\ smb' = [smb EXCEPT ![p] = NoObject]
  /\ UNCHANGED kept
  /\ ReleaseNames
  /\ Reclaim({})
  /\ Goto(p, "closed")
  /\ UNCHANGED <<platform, todo, at, buffer, crashed>>

\* The process ends, and with it the handles it kept.
WinExit(p) ==
  /\ pc[p] = "closed"
  /\ End(p, "off")
  /\ ReleaseNames
  /\ Reclaim({})
  /\ UNCHANGED <<platform, crashed>>

----------------------------------------------------------------------------

Work(p) == Acquire(p) \/ Copy(p) \/ Post(p) \/ ShmOpen(p) \/ ShmCreate(p) \/ Truncate(p)

Next ==
  \E p \in Processes :
    \/ \E n \in Sizes : SemOpen(p, n) \/ WinSemaphore(p, n)
    \/ \E task \in Tasks : Begin(p, task)
    \/ Work(p)
    \/ Destroy(p) \/ ShmUnlink(p) \/ SemUnlink(p)
    \/ WinMap(p) \/ WinUnmap(p) \/ WinClose(p) \/ WinExit(p)
    \/ Crash(p)

WorkUnder(s) == \E p \in Processes : smb[p].sem = s /\ Work(p)

\* Of the processes that use a semaphore one is always scheduled, which of those that wait
\* for it sem_wait does not say; nobody has to begin a call or to crash.
Spec == Init /\ [][Next]_vars /\ \A s \in Semaphores : WF_vars(WorkUnder(s))

----------------------------------------------------------------------------
(* Properties *)

\* What a read has copied is what the memory still holds, and what a write has written is
\* still its own: "Lock the semaphore", "Access to the shared memory area", "Release the
\* semaphore lock" (308-313) make reads and writes atomic, whoever crashes, starts again or
\* unlinks.  Memory that came under two semaphores is left out.
Undisturbed ==
  \A p \in Processes :
    (pc[p] \in {"read", "write", "post"} /\ smb[p].shm \notin mixed) =>
      \A k \in 1 .. at[p] :
        data[smb[p].shm][k] = IF todo[p] = "read" THEN buffer[p][k] ELSE p

\* Only one process at a time accesses the memory (289-294, 308-313, 323-328).
ExclusiveAccess ==
  \A p, q \in Processes :
    (p # q /\ smb[p].shm = smb[q].shm) =>
      ~(pc[p] \in {"read", "write"} /\ pc[q] \in {"read", "write"})

\* Processes that wait for a semaphore are not forgotten: one of them gets it, unless a
\* process ended while it held it ("this may lock forever!", 185).
LockIsPassedOn ==
  \A s \in Semaphores :
    (Waiting(s) # {} /\ s \notin lost) ~>
      (\E p \in Processes : Holds(p, s)) \/ Waiting(s) = {} \/ s \in lost

\* When every process has ended through its destructor, neither name is left behind,
\* although each unlinks whatever has the names when it ends (250-278).  Windows frees the
\* names even after a crash.
CleanedUp ==
  (\A p \in Processes : pc[p] = "off") =>
    \/ shmname = None /\ semname = None
    \/ Linux /\ (crashed \/ Cleanup # Processes)
=============================================================================
