------------------------- MODULE SharedMemoryProofs -------------------------
(***************************************************************************)
(* Theorems about SharedMemory, for all processes, sizes of the memory,    *)
(* and numbers of kernel objects: reads and writes are atomic, and the     *)
(* destructors leave no name behind.                                       *)
(***************************************************************************)
EXTENDS SharedMemory, TLAPS

Own == {"map", "wait", "idle"} \cup Inside
Mapped == {"idle", "truncate", "read", "write", "post"}

\* What a control point says of the object of its process.
PointInv ==
  \A p \in Processes :
    /\ pc[p] \in {"off", "closed", "unlinkShm", "unlinkSem"} => smb[p] = NoObject
    /\ pc[p] \in Own => smb[p].sem # None
    /\ pc[p] \in Mapped => smb[p].shm # None
    /\ pc[p] = "wait" => todo[p] \in Tasks /\ (todo[p] # "open" => smb[p].shm # None)
    /\ pc[p] \in {"read", "write"} => todo[p] = pc[p]
    /\ pc[p] \in {"open", "create", "truncate"} => todo[p] = "open"
    /\ (pc[p] \notin {"read", "write", "post"} \/ todo[p] = "open") => at[p] = 0

\* A semaphore is at 0 while a process holds it, and only one does.
LockInv ==
  /\ \A p \in Processes : pc[p] \in Inside => value[smb[p].sem] = 0
  /\ \A p, q \in Processes :
       (p # q /\ pc[p] \in Inside /\ pc[q] \in Inside) => smb[p].sem # smb[q].sem

\* Processes that share a memory which is not mixed share their semaphore.
MixedInv ==
  \A p, q \in Processes :
    (smb[p].shm # None /\ smb[p].shm = smb[q].shm /\ smb[p].shm \notin mixed) =>
      smb[p].sem = smb[q].sem

\* Control points belong to one platform.
PlatformInv ==
  \A p \in Processes :
    /\ pc[p] \in {"open", "create", "truncate", "unlinkShm", "unlinkSem"} => Linux
    /\ pc[p] = "wait" /\ todo[p] = "open" => Linux
    /\ pc[p] \in {"map", "closeSem", "closed"} => Windows

\* On Windows a bound name has a handle; on Linux, with cleanup and no crash, a process
\* that will unlink it.
NameInv ==
  /\ \A p \in Processes : pc[p] = "off" => p \notin keptShm \cup keptSem
  /\ Linux => keptShm = {} /\ keptSem = {}
  /\ Windows =>
       /\ shmname # None => \E p \in Processes : p \in keptShm \/ smb[p].shm # None
       /\ semname # None => \E p \in Processes : p \in keptSem \/ smb[p].sem # None
  /\ (Linux /\ ~crashed /\ Cleanup = Processes) =>
       /\ shmname # None => \E p \in Processes : smb[p].shm # None \/ pc[p] = "unlinkShm"
       /\ semname # None => \E p \in Processes : pc[p] # "off"

IInv ==
  /\ TypeOK /\ PointInv /\ LockInv /\ MixedInv /\ PlatformInv /\ NameInv
  /\ Undisturbed /\ CleanedUp

\* One step of process p.
Step(p) ==
  \/ \E n \in Sizes : SemOpen(p, n) \/ WinSemaphore(p, n)
  \/ \E task \in Tasks : Begin(p, task)
  \/ Acquire(p) \/ Copy(p) \/ Post(p) \/ ShmOpen(p) \/ ShmCreate(p) \/ Truncate(p)
  \/ Destroy(p) \/ ShmUnlink(p) \/ SemUnlink(p)
  \/ WinMap(p) \/ WinUnmap(p) \/ WinClose(p) \/ WinExit(p)
  \/ Crash(p)

USE SharedMemoryAssumption

----------------------------------------------------------------------------
(* What the parts of the actions do *)

\* The places of the bytes
LEMMA BytesOf == Bytes \subseteq Nat /\ \A n \in Sizes : 1 .. n \subseteq Bytes
  BY DEF Bytes

\* A function keeps its type when it gets a value of its range.
LEMMA Updated ==
  ASSUME NEW S, NEW T, NEW f \in [S -> T], NEW x, NEW t \in T
  PROVE  [f EXCEPT ![x] = t] \in [S -> T]
  OBVIOUS

LEMMA NextIsStep == Next => \E p \in Processes : Step(p)
  BY DEF Next, Step, Work

\* The semaphore a process gets is one it may have, and a new one has no user.
LEMMA Named ==
  ASSUME TypeOK, NEW p \in Processes, NEW n \in Sizes, NameSemaphore(p, n)
  PROVE  /\ semname' \in Semaphores /\ semname' # None
         /\ smb' = [smb EXCEPT ![p] = [shm |-> None, sem |-> semname', size |-> n]]
         /\ \/ semname' = semname /\ value' = value /\ lost' = lost
            \/ /\ semname = None
               /\ \A q \in Processes : smb[q].sem # semname'
               /\ value' = [value EXCEPT ![semname'] = 1]
               /\ lost' = lost \ {semname'}
<1>1. CASE semname # None
  BY <1>1 DEF NameSemaphore, TypeOK, NoObject
<1>2. CASE semname = None
  <2>1. semname' \in FreeSemaphores
    BY <1>2 DEF NameSemaphore
  <2>2. QED
    BY <1>2, <2>1 DEF NameSemaphore, FreeSemaphores, NoObject
<1>3. QED
  BY <1>1, <1>2

\* A new memory has no user and is not the one that has the name.
LEMMA NewMemory ==
  ASSUME TypeOK, NEW p \in Processes, NEW n, AttachNew(p, n)
  PROVE  /\ shmname' \in Memories /\ shmname' # None
         /\ \A q \in Processes : smb[q].shm # shmname'
         /\ size' = [size EXCEPT ![shmname'] = n]
         /\ data' = [data EXCEPT ![shmname'] = Blank]
         /\ smb' = [smb EXCEPT ![p].shm = shmname']
         /\ mixed' = mixed \ {shmname'}
<1>1. shmname' \in FreeMemories
  BY DEF AttachNew
<1>2. QED
  BY <1>1 DEF AttachNew, FreeMemories

\* A field of one object is changed.
LEMMA NewField ==
  ASSUME TypeOK, NEW p \in Processes, NEW m \in Memories \cup {None},
         smb' = [smb EXCEPT ![p].shm = m]
  PROVE  /\ smb' \in [Processes -> Objects]
         /\ smb'[p].shm = m /\ smb'[p].sem = smb[p].sem /\ smb'[p].size = smb[p].size
         /\ \A q \in Processes : q # p => smb'[q] = smb[q]
         /\ \A q \in Processes : smb'[q].sem = smb[q].sem
<1>1. smb[p] \in Objects
  BY DEF TypeOK
<1>2. [smb[p] EXCEPT !.shm = m] = [shm |-> m, sem |-> smb[p].sem, size |-> smb[p].size]
  BY <1>1 DEF Objects
<1>3. smb' = [smb EXCEPT ![p] = [smb[p] EXCEPT !.shm = m]]
  OBVIOUS
<1>4. QED
  BY <1>1, <1>2, <1>3 DEF TypeOK, Objects

\* What the kernel reclaims nobody refers to; the rest stays as it is.
LEMMA Reclaimed ==
  ASSUME TypeOK, NEW ended, ended \subseteq Semaphores, smb' \in [Processes -> Objects],
         Reclaim(ended)
  PROVE  /\ value' \in [Semaphores -> 0 .. 1]
         /\ size' \in [Memories -> Sizes \cup {0}]
         /\ data' \in [Memories -> [Bytes -> Processes \cup {Nobody}]]
         /\ lost' \subseteq Semaphores /\ mixed' \subseteq Memories
         /\ \A q \in Processes :
              /\ smb'[q].sem # None => value'[smb'[q].sem] = value[smb'[q].sem]
              /\ smb'[q].shm # None => /\ data'[smb'[q].shm] = data[smb'[q].shm]
                                       /\ size'[smb'[q].shm] = size[smb'[q].shm]
                                       /\ smb'[q].shm \in mixed' <=> smb'[q].shm \in mixed
<1>1. Blank \in [Bytes -> Processes \cup {Nobody}]
  BY DEF Blank
<1>2. \A q \in Processes : /\ smb'[q].sem \in Semaphores \cup {None}
                           /\ smb'[q].shm \in Memories \cup {None}
  BY DEF Objects
<1>3. /\ value' \in [Semaphores -> 0 .. 1]
      /\ size' \in [Memories -> Sizes \cup {0}]
      /\ lost' \subseteq Semaphores /\ mixed' \subseteq Memories
  BY DEF Reclaim, TypeOK
<1>4. data' \in [Memories -> [Bytes -> Processes \cup {Nobody}]]
  BY <1>1 DEF Reclaim, TypeOK
<1>5. \A q \in Processes : smb'[q].sem # None => value'[smb'[q].sem] = value[smb'[q].sem]
  BY <1>2 DEF Reclaim
<1>6. \A q \in Processes : smb'[q].shm # None =>
                             /\ data'[smb'[q].shm] = data[smb'[q].shm]
                             /\ size'[smb'[q].shm] = size[smb'[q].shm]
                             /\ smb'[q].shm \in mixed' <=> smb'[q].shm \in mixed
  BY <1>2 DEF Reclaim
<1>7. QED
  BY <1>3, <1>4, <1>5, <1>6

\* An object that ends
LEMMA EndedObject ==
  ASSUME TypeOK, NEW p \in Processes, NEW point \in Points, End(p, point)
  PROVE  /\ smb' = [smb EXCEPT ![p] = NoObject] /\ smb' \in [Processes -> Objects]
         /\ pc' = [pc EXCEPT ![p] = point] /\ pc' \in [Processes -> Points]
         /\ todo' \in [Processes -> Tasks \cup {"none"}]
         /\ at' = [at EXCEPT ![p] = 0] /\ at' \in [Processes -> Nat]
         /\ buffer' \in [Processes -> [Bytes -> Processes \cup {Nobody}]]
         /\ \A q \in Processes : q # p => todo'[q] = todo[q] /\ buffer'[q] = buffer[q]
         /\ keptShm' = keptShm \ {p} /\ keptSem' = keptSem \ {p}
<1>1. NoObject \in Objects /\ Blank \in [Bytes -> Processes \cup {Nobody}]
  BY DEF NoObject, Objects, Blank
<1>2. QED
  BY <1>1 DEF End, Goto, TypeOK

\* The names keep their type when the kernel frees them.
LEMMA NamesKept ==
  ASSUME TypeOK, ReleaseNames
  PROVE  shmname' \in {shmname, None} /\ semname' \in {semname, None}
  BY DEF ReleaseNames

----------------------------------------------------------------------------

LEMMA TypeStep == ASSUME IInv, NEW p \in Processes, Step(p) PROVE TypeOK'
<1>0. NoObject \in Objects /\ Blank \in [Bytes -> Processes \cup {Nobody}]
  BY DEF NoObject, Objects, Blank
<1>p. /\ TypeOK /\ PointInv
      /\ smb[p].sem \in Semaphores \cup {None} /\ smb[p].shm \in Memories \cup {None}
      /\ smb[p].size \in Sizes \cup {0}
  BY DEF IInv, TypeOK, Objects
<1> USE DEF Goto, kernel, kept, history
<1>s. ASSUME NEW n \in Sizes, NameSemaphore(p, n)
      PROVE  /\ smb' \in [Processes -> Objects] /\ semname' \in Semaphores
             /\ value' \in [Semaphores -> 0 .. 1] /\ lost' \subseteq Semaphores
  <2>1. [shm |-> None, sem |-> semname', size |-> n] \in Objects
    BY <1>p, <1>s, Named DEF Objects
  <2>2. /\ smb' = [smb EXCEPT ![p] = [shm |-> None, sem |-> semname', size |-> n]]
        /\ semname' \in Semaphores
        /\ value' = value \/ value' = [value EXCEPT ![semname'] = 1]
        /\ lost' = lost \/ lost' = lost \ {semname'}
    BY <1>p, <1>s, Named
  <2>3. QED
    BY <1>p, <2>1, <2>2 DEF TypeOK
<1>1. ASSUME NEW n \in Sizes, SemOpen(p, n) PROVE TypeOK'
  <2>1. pc' \in [Processes -> Points] /\ todo' \in [Processes -> Tasks \cup {"none"}]
    BY <1>1, <1>p DEF SemOpen, TypeOK, Points, Tasks
  <2>2. NameSemaphore(p, n)
    BY <1>1 DEF SemOpen
  <2>3. QED
    BY <1>1, <1>p, <1>s, <2>1, <2>2 DEF SemOpen, TypeOK
<1>2. ASSUME NEW n \in Sizes, WinSemaphore(p, n) PROVE TypeOK'
  <2>1. pc' \in [Processes -> Points] /\ keptSem' \subseteq Processes
    BY <1>2, <1>p DEF WinSemaphore, TypeOK, Points
  <2>2. NameSemaphore(p, n)
    BY <1>2 DEF WinSemaphore
  <2>3. QED
    BY <1>2, <1>p, <1>s, <2>1, <2>2 DEF WinSemaphore, TypeOK
<1>3. ASSUME NEW task \in Tasks, Begin(p, task) PROVE TypeOK'
  BY <1>3, <1>p DEF Begin, TypeOK, Points, Tasks
<1>4. ASSUME Acquire(p) PROVE TypeOK'
  <2>1. pc' \in [Processes -> Points]
    BY <1>4, <1>p DEF Acquire, AcquireUnguarded, TypeOK, PointInv, Points, Inside, Tasks
  <2>2. value' \in [Semaphores -> 0 .. 1]
    BY <1>4, <1>p DEF Acquire, AcquireUnguarded, TypeOK, PointInv, Own
  <2>3. QED
    BY <1>4, <1>p, <2>1, <2>2 DEF Acquire, AcquireUnguarded, TypeOK
<1>5. ASSUME Copy(p) PROVE TypeOK'
  <2>1. pc' \in [Processes -> Points] /\ at' \in [Processes -> Nat]
    BY <1>5, <1>p DEF Copy, Next1, TypeOK, Points, Inside
  <2>2. /\ smb[p].shm \in Memories
        /\ Next1(p) \in Bytes
    <3>1. smb[p].shm \in Memories /\ size[smb[p].shm] \in Sizes \cup {0}
      BY <1>5, <1>p DEF Copy, PointInv, Mapped, TypeOK
    <3>2. Next1(p) \in Nat \ {0} /\ Next1(p) <= size[smb[p].shm]
      BY <1>5, <1>p DEF Copy, Next1, TypeOK
    <3>3. size[smb[p].shm] \in Sizes
      BY <3>1, <3>2
    <3>4. QED
      <4>1. Next1(p) \in 1 .. size[smb[p].shm]
        BY <3>2, <3>3
      <4>2. QED
        BY <3>1, <3>3, <4>1, BytesOf
  <2>c. data[smb[p].shm][Next1(p)] \in Processes \cup {Nobody}
    BY <1>p, <2>2 DEF TypeOK
  <2>3. buffer' \in [Processes -> [Bytes -> Processes \cup {Nobody}]]
    <3> DEFINE k == Next1(p)
               b == data[smb[p].shm][k]
    <3>1. buffer' = buffer \/ buffer' = [buffer EXCEPT ![p] = [buffer[p] EXCEPT ![k] = b]]
      BY <1>5 DEF Copy
    <3>2. k \in Bytes /\ b \in Processes \cup {Nobody}
      BY <2>2, <2>c
    <3> HIDE DEF k, b
    <3>3. buffer[p] \in [Bytes -> Processes \cup {Nobody}]
      BY <1>p DEF TypeOK
    <3>4. [buffer[p] EXCEPT ![k] = b] \in [Bytes -> Processes \cup {Nobody}]
      BY <3>2, <3>3
    <3>5. buffer \in [Processes -> [Bytes -> Processes \cup {Nobody}]]
      BY <1>p DEF TypeOK
    <3>6. QED
      BY <3>1, <3>4, <3>5, Updated
  <2>4. data' \in [Memories -> [Bytes -> Processes \cup {Nobody}]]
    <3> DEFINE k == Next1(p)
               m == smb[p].shm
    <3>1. data' = data \/ data' = [data EXCEPT ![m] = [data[m] EXCEPT ![k] = p]]
      BY <1>5 DEF Copy
    <3>2. k \in Bytes /\ m \in Memories
      BY <2>2
    <3> HIDE DEF k, m
    <3>3. data[m] \in [Bytes -> Processes \cup {Nobody}]
      BY <1>p, <3>2 DEF TypeOK
    <3>4. [data[m] EXCEPT ![k] = p] \in [Bytes -> Processes \cup {Nobody}]
      BY <3>2, <3>3
    <3>5. data \in [Memories -> [Bytes -> Processes \cup {Nobody}]]
      BY <1>p DEF TypeOK
    <3>6. QED
      BY <3>1, <3>4, <3>5, Updated
  <2>5. QED
    BY <1>5, <1>p, <2>1, <2>3, <2>4 DEF Copy, TypeOK
<1>6. ASSUME Post(p) PROVE TypeOK'
  <2>1. value' \in [Semaphores -> 0 .. 1]
    <3>1. smb[p].sem \in Semaphores /\ value[smb[p].sem] = 0
      BY <1>6, <1>p DEF Post, PointInv, IInv, LockInv, Own, Inside
    <3>2. QED
      BY <1>6, <1>p, <3>1 DEF Post, TypeOK
  <2>2. /\ pc' \in [Processes -> Points] /\ todo' \in [Processes -> Tasks \cup {"none"}]
        /\ at' \in [Processes -> Nat]
        /\ buffer' \in [Processes -> [Bytes -> Processes \cup {Nobody}]]
    BY <1>6, <1>p, <1>0 DEF Post, TypeOK, Points
  <2>3. QED
    BY <1>6, <1>p, <2>1, <2>2 DEF Post, TypeOK
<1>7. ASSUME ShmOpen(p) PROVE TypeOK'
  <2>1. pc' \in [Processes -> Points]
    <3>1. pc' = [pc EXCEPT ![p] = "truncate"] \/ pc' = [pc EXCEPT ![p] = "create"]
      BY <1>7 DEF ShmOpen
    <3>2. pc \in [Processes -> Points] /\ "truncate" \in Points /\ "create" \in Points
      BY <1>p DEF TypeOK, Points, Inside
    <3>3. QED
      BY <3>1, <3>2
  <2>2. smb' \in [Processes -> Objects] /\ mixed' \subseteq Memories
    <3>1. shmname # None => shmname \in Memories
      BY <1>p DEF TypeOK
    <3>2. \/ /\ shmname # None /\ smb' = [smb EXCEPT ![p].shm = shmname]
             /\ mixed' = mixed \/ mixed' = mixed \cup {shmname}
          \/ smb' = smb /\ mixed' = mixed
      BY <1>7 DEF ShmOpen, Attach
    <3>3. mixed \subseteq Memories /\ smb \in [Processes -> Objects]
      BY <1>p DEF TypeOK
    <3>4. QED
      BY <1>p, <3>1, <3>2, <3>3, NewField
  <2>3. QED
    BY <1>7, <1>p, <2>1, <2>2 DEF ShmOpen, TypeOK
<1>m. ASSUME NEW n \in Sizes \cup {0}, AttachNew(p, n)
      PROVE  /\ smb' \in [Processes -> Objects] /\ mixed' \subseteq Memories
             /\ shmname' \in Memories
             /\ size' \in [Memories -> Sizes \cup {0}]
             /\ data' \in [Memories -> [Bytes -> Processes \cup {Nobody}]]
  <2>1. /\ shmname' \in Memories
        /\ size' = [size EXCEPT ![shmname'] = n] /\ data' = [data EXCEPT ![shmname'] = Blank]
        /\ smb' = [smb EXCEPT ![p].shm = shmname']
        /\ mixed' = mixed \ {shmname'}
    BY <1>m, <1>p, NewMemory
  <2>2. smb' \in [Processes -> Objects]
    BY <2>1, <1>p, NewField
  <2>3. QED
    BY <1>0, <1>p, <2>1, <2>2 DEF TypeOK
<1>8. ASSUME ShmCreate(p) PROVE TypeOK'
  <2>1. pc' \in [Processes -> Points]
    BY <1>8, <1>p DEF ShmCreate, TypeOK, Points, Inside
  <2>2. /\ smb' \in [Processes -> Objects] /\ mixed' \subseteq Memories
        /\ shmname' \in Memories
        /\ size' \in [Memories -> Sizes \cup {0}]
        /\ data' \in [Memories -> [Bytes -> Processes \cup {Nobody}]]
    <3>1. CASE shmname = None
      BY <1>8, <1>m, <3>1 DEF ShmCreate
    <3>2. CASE shmname # None
      <4>1. /\ Attach(p, shmname) /\ shmname' = shmname
            /\ size' = [size EXCEPT ![shmname] = 0] /\ data' = [data EXCEPT ![shmname] = Blank]
        BY <1>8, <3>2 DEF ShmCreate
      <4>2. smb' \in [Processes -> Objects] /\ mixed' \subseteq Memories
        <5>1. shmname \in Memories /\ mixed \subseteq Memories
          BY <1>p, <3>2 DEF TypeOK
        <5>2. /\ smb' = [smb EXCEPT ![p].shm = shmname]
              /\ mixed' = mixed \/ mixed' = mixed \cup {shmname}
          BY <4>1 DEF Attach
        <5>3. QED
          BY <1>p, <5>1, <5>2, NewField
      <4>3. QED
        BY <1>0, <1>p, <3>2, <4>1, <4>2 DEF TypeOK
    <3>3. QED
      BY <3>1, <3>2
  <2>3. QED
    BY <1>8, <1>p, <2>1, <2>2 DEF ShmCreate, TypeOK
<1>9. ASSUME Truncate(p) PROVE TypeOK'
  <2>1. pc' \in [Processes -> Points]
    BY <1>9, <1>p DEF Truncate, TypeOK, Points, Inside
  <2>2. smb[p].shm \in Memories
    BY <1>9, <1>p DEF Truncate, PointInv, Mapped
  <2>3. [k \in Bytes |-> IF k <= smb[p].size THEN data[smb[p].shm][k] ELSE Nobody]
          \in [Bytes -> Processes \cup {Nobody}]
    BY <1>p, <2>2 DEF TypeOK
  <2>4. size' \in [Memories -> Sizes \cup {0}]
    BY <1>9, <1>p DEF Truncate, TypeOK
  <2>5. data' \in [Memories -> [Bytes -> Processes \cup {Nobody}]]
    BY <1>9, <1>p, <2>3 DEF Truncate, TypeOK
  <2>6. QED
    BY <1>9, <1>p, <2>1, <2>4, <2>5 DEF Truncate, TypeOK
<1>r. ASSUME NEW ended, ended \subseteq Semaphores, smb' \in [Processes -> Objects],
             Reclaim(ended)
      PROVE  /\ value' \in [Semaphores -> 0 .. 1]
             /\ size' \in [Memories -> Sizes \cup {0}]
             /\ data' \in [Memories -> [Bytes -> Processes \cup {Nobody}]]
             /\ lost' \subseteq Semaphores /\ mixed' \subseteq Memories
  BY <1>r, <1>p, Reclaimed
<1>e. ASSUME NEW point \in Points, End(p, point)
      PROVE  /\ smb' \in [Processes -> Objects] /\ pc' \in [Processes -> Points]
             /\ todo' \in [Processes -> Tasks \cup {"none"}]
             /\ at' \in [Processes -> Nat]
             /\ buffer' \in [Processes -> [Bytes -> Processes \cup {Nobody}]]
             /\ keptShm' \subseteq Processes /\ keptSem' \subseteq Processes
  BY <1>e, <1>p, EndedObject DEF TypeOK
<1>10. ASSUME Destroy(p) PROVE TypeOK'
  <2>1. PICK point \in Points : End(p, point)
    BY <1>10 DEF Destroy, Points
  <2>2. QED
    BY <1>10, <1>p, <1>e, <1>r, <2>1 DEF Destroy, TypeOK
<1>11. ASSUME ShmUnlink(p) PROVE TypeOK'
  <2>1. smb' \in [Processes -> Objects] /\ pc' \in [Processes -> Points]
    BY <1>11, <1>p DEF ShmUnlink, TypeOK, Points
  <2>2. QED
    BY <1>11, <1>p, <1>r, <2>1 DEF ShmUnlink, TypeOK
<1>12. ASSUME SemUnlink(p) PROVE TypeOK'
  <2>1. smb' \in [Processes -> Objects] /\ pc' \in [Processes -> Points]
    BY <1>12, <1>p DEF SemUnlink, TypeOK, Points
  <2>2. QED
    BY <1>12, <1>p, <1>r, <2>1 DEF SemUnlink, TypeOK
<1>13. ASSUME WinMap(p) PROVE TypeOK'
  <2>1. pc' \in [Processes -> Points] /\ keptShm' \subseteq Processes
    BY <1>13, <1>p DEF WinMap, TypeOK, Points
  <2>2. /\ smb' \in [Processes -> Objects] /\ mixed' \subseteq Memories
        /\ shmname' \in Memories
        /\ size' \in [Memories -> Sizes \cup {0}]
        /\ data' \in [Memories -> [Bytes -> Processes \cup {Nobody}]]
    <3>1. CASE shmname = None
      BY <1>13, <1>p, <1>m, <3>1 DEF WinMap
    <3>2. CASE shmname # None
      BY <1>13, <1>p, <3>2, NewField DEF WinMap, Attach, TypeOK
    <3>3. QED
      BY <3>1, <3>2
  <2>3. QED
    BY <1>13, <1>p, <2>1, <2>2 DEF WinMap, TypeOK
<1>14. ASSUME WinUnmap(p) PROVE TypeOK'
  <2>1. smb' \in [Processes -> Objects] /\ pc' \in [Processes -> Points]
    BY <1>14, <1>p, NewField DEF WinUnmap, TypeOK, Points
  <2>2. /\ value' \in [Semaphores -> 0 .. 1]
        /\ size' \in [Memories -> Sizes \cup {0}]
        /\ data' \in [Memories -> [Bytes -> Processes \cup {Nobody}]]
        /\ lost' \subseteq Semaphores /\ mixed' \subseteq Memories
    BY <1>14, <1>r, <2>1 DEF WinUnmap
  <2>3. shmname' \in Memories \cup {None} /\ semname' \in Semaphores \cup {None}
    BY <1>14, <1>p, NamesKept DEF WinUnmap, TypeOK
  <2>4. QED
    BY <1>14, <1>p, <2>1, <2>2, <2>3 DEF WinUnmap, TypeOK
<1>15. ASSUME WinClose(p) PROVE TypeOK'
  <2>1. smb' \in [Processes -> Objects] /\ pc' \in [Processes -> Points]
    BY <1>15, <1>p, <1>0 DEF WinClose, TypeOK, Points
  <2>2. /\ value' \in [Semaphores -> 0 .. 1]
        /\ size' \in [Memories -> Sizes \cup {0}]
        /\ data' \in [Memories -> [Bytes -> Processes \cup {Nobody}]]
        /\ lost' \subseteq Semaphores /\ mixed' \subseteq Memories
    BY <1>15, <1>r, <2>1 DEF WinClose
  <2>3. shmname' \in Memories \cup {None} /\ semname' \in Semaphores \cup {None}
    BY <1>15, <1>p, NamesKept DEF WinClose, TypeOK
  <2>4. QED
    BY <1>15, <1>p, <2>1, <2>2, <2>3 DEF WinClose, TypeOK
<1>16. ASSUME WinExit(p) PROVE TypeOK'
  <2>1. End(p, "off") /\ "off" \in Points
    BY <1>16 DEF WinExit, Points
  <2>2. shmname' \in Memories \cup {None} /\ semname' \in Semaphores \cup {None}
    BY <1>16, <1>p, NamesKept DEF WinExit, TypeOK
  <2>3. QED
    BY <1>16, <1>p, <1>e, <1>r, <2>1, <2>2 DEF WinExit, TypeOK
<1>17. ASSUME Crash(p) PROVE TypeOK'
  <2>1. End(p, "off") /\ "off" \in Points
    BY <1>17 DEF Crash, Points
  <2>2. shmname' \in Memories \cup {None} /\ semname' \in Semaphores \cup {None}
    BY <1>17, <1>p, NamesKept DEF Crash, TypeOK
  <2>3. (IF pc[p] \in Inside THEN {smb[p].sem} ELSE {}) \subseteq Semaphores
    BY <1>p DEF PointInv, Own
  <2>4. QED
    BY <1>17, <1>p, <1>e, <1>r, <2>1, <2>2, <2>3 DEF Crash, TypeOK
<1>18. QED
  BY <1>1, <1>2, <1>3, <1>4, <1>5, <1>6, <1>7, <1>8, <1>9, <1>10, <1>11, <1>12, <1>13,
     <1>14, <1>15, <1>16, <1>17 DEF Step

\* A step leaves the other processes alone.
LEMMA OthersStay ==
  ASSUME IInv, NEW p \in Processes, Step(p), NEW q \in Processes, q # p
  PROVE  /\ smb'[q] = smb[q] /\ pc'[q] = pc[q] /\ todo'[q] = todo[q]
         /\ at'[q] = at[q] /\ buffer'[q] = buffer[q]
<1> USE DEF Goto
<1>1. TypeOK
  BY DEF IInv
<1>2. ASSUME NEW n \in Sizes, SemOpen(p, n) \/ WinSemaphore(p, n)
      PROVE  /\ smb'[q] = smb[q] /\ pc'[q] = pc[q] /\ todo'[q] = todo[q]
             /\ at'[q] = at[q] /\ buffer'[q] = buffer[q]
  BY <1>1, <1>2 DEF SemOpen, WinSemaphore, NameSemaphore, TypeOK
<1>3. ASSUME (\E task \in Tasks : Begin(p, task)) \/ Acquire(p) \/ Copy(p) \/ Post(p)
               \/ Truncate(p)
      PROVE  /\ smb'[q] = smb[q] /\ pc'[q] = pc[q] /\ todo'[q] = todo[q]
             /\ at'[q] = at[q] /\ buffer'[q] = buffer[q]
  BY <1>1, <1>3 DEF Begin, Acquire, AcquireUnguarded, Copy, Post, Truncate, TypeOK
<1>4. ASSUME ShmOpen(p) \/ ShmCreate(p) \/ WinMap(p)
      PROVE  /\ smb'[q] = smb[q] /\ pc'[q] = pc[q] /\ todo'[q] = todo[q]
             /\ at'[q] = at[q] /\ buffer'[q] = buffer[q]
  BY <1>1, <1>4 DEF ShmOpen, ShmCreate, WinMap, Attach, AttachNew, TypeOK
<1>5. ASSUME Destroy(p) \/ WinExit(p) \/ Crash(p)
      PROVE  /\ smb'[q] = smb[q] /\ pc'[q] = pc[q] /\ todo'[q] = todo[q]
             /\ at'[q] = at[q] /\ buffer'[q] = buffer[q]
  BY <1>1, <1>5 DEF Destroy, WinExit, Crash, End, TypeOK
<1>6. ASSUME ShmUnlink(p) \/ SemUnlink(p) \/ WinUnmap(p) \/ WinClose(p)
      PROVE  /\ smb'[q] = smb[q] /\ pc'[q] = pc[q] /\ todo'[q] = todo[q]
             /\ at'[q] = at[q] /\ buffer'[q] = buffer[q]
  BY <1>1, <1>6 DEF ShmUnlink, SemUnlink, WinUnmap, WinClose, TypeOK
<1>7. QED
  BY <1>2, <1>3, <1>4, <1>5, <1>6 DEF Step

\* Where a process is and what it has after each of its steps
LEMMA OwnStep ==
  ASSUME IInv, NEW p \in Processes
  PROVE  /\ \A n \in Sizes : SemOpen(p, n) =>
              /\ pc'[p] = "wait" /\ todo'[p] = "open" /\ at'[p] = at[p]
              /\ smb'[p].shm = None /\ smb'[p].sem = semname' /\ semname' # None
         /\ \A n \in Sizes : WinSemaphore(p, n) =>
              /\ pc'[p] = "map" /\ todo'[p] = todo[p] /\ at'[p] = at[p]
              /\ smb'[p].shm = None /\ smb'[p].sem = semname' /\ semname' # None
         /\ \A task \in Tasks : Begin(p, task) =>
              pc'[p] = "wait" /\ todo'[p] = task /\ at'[p] = at[p] /\ smb'[p] = smb[p]
         /\ Acquire(p) =>
              pc'[p] = todo[p] /\ todo'[p] = todo[p] /\ at'[p] = at[p] /\ smb'[p] = smb[p]
         /\ Copy(p) => /\ pc'[p] \in {pc[p], "post"} /\ todo'[p] = todo[p]
                       /\ at'[p] = at[p] + 1 /\ smb'[p] = smb[p]
         /\ Post(p) => pc'[p] = "idle" /\ at'[p] = 0 /\ smb'[p] = smb[p]
         /\ Truncate(p) =>
              pc'[p] = "post" /\ todo'[p] = todo[p] /\ at'[p] = at[p] /\ smb'[p] = smb[p]
<1> USE DEF Goto
<1>1. TypeOK
  BY DEF IInv
<1>2. ASSUME NEW n \in Sizes, SemOpen(p, n)
      PROVE  /\ pc'[p] = "wait" /\ todo'[p] = "open" /\ at'[p] = at[p]
             /\ smb'[p].shm = None /\ smb'[p].sem = semname' /\ semname' # None
  <2>1. /\ smb' = [smb EXCEPT ![p] = [shm |-> None, sem |-> semname', size |-> n]]
        /\ semname' # None
    BY <1>1, <1>2, Named DEF SemOpen
  <2>2. QED
    BY <1>1, <1>2, <2>1 DEF SemOpen, TypeOK
<1>3. ASSUME NEW n \in Sizes, WinSemaphore(p, n)
      PROVE  /\ pc'[p] = "map" /\ todo'[p] = todo[p] /\ at'[p] = at[p]
             /\ smb'[p].shm = None /\ smb'[p].sem = semname' /\ semname' # None
  <2>1. /\ smb' = [smb EXCEPT ![p] = [shm |-> None, sem |-> semname', size |-> n]]
        /\ semname' # None
    BY <1>1, <1>3, Named DEF WinSemaphore
  <2>2. QED
    BY <1>1, <1>3, <2>1 DEF WinSemaphore, TypeOK
<1>4. ASSUME NEW task \in Tasks, Begin(p, task)
      PROVE pc'[p] = "wait" /\ todo'[p] = task /\ at'[p] = at[p] /\ smb'[p] = smb[p]
  BY <1>1, <1>4 DEF Begin, TypeOK
<1>5. ASSUME Acquire(p)
      PROVE  pc'[p] = todo[p] /\ todo'[p] = todo[p] /\ at'[p] = at[p] /\ smb'[p] = smb[p]
  BY <1>1, <1>5 DEF Acquire, AcquireUnguarded, TypeOK
<1>6. ASSUME Copy(p) PROVE /\ pc'[p] \in {pc[p], "post"} /\ todo'[p] = todo[p]
                           /\ at'[p] = at[p] + 1 /\ smb'[p] = smb[p]
  BY <1>1, <1>6 DEF Copy, Next1, TypeOK
<1>7. ASSUME Post(p) PROVE pc'[p] = "idle" /\ at'[p] = 0 /\ smb'[p] = smb[p]
  BY <1>1, <1>7 DEF Post, TypeOK
<1>8. ASSUME Truncate(p)
      PROVE pc'[p] = "post" /\ todo'[p] = todo[p] /\ at'[p] = at[p] /\ smb'[p] = smb[p]
  BY <1>1, <1>8 DEF Truncate, TypeOK
<1>9. QED
  BY <1>2, <1>3, <1>4, <1>5, <1>6, <1>7, <1>8

LEMMA OwnStepAttach ==
  ASSUME IInv, NEW p \in Processes
  PROVE  /\ ShmOpen(p) => /\ pc'[p] \in {"truncate", "create"} /\ todo'[p] = todo[p]
                          /\ at'[p] = at[p] /\ smb'[p].sem = smb[p].sem
                          /\ pc'[p] = "truncate" => smb'[p].shm = shmname /\ shmname # None
                          /\ pc'[p] = "create" => shmname = None /\ smb'[p] = smb[p]
         /\ ShmCreate(p) => /\ pc'[p] = "truncate" /\ todo'[p] = todo[p] /\ at'[p] = at[p]
                            /\ smb'[p].sem = smb[p].sem
                            /\ smb'[p].shm = shmname' /\ shmname' # None
         /\ WinMap(p) => /\ pc'[p] = "idle" /\ todo'[p] = todo[p] /\ at'[p] = at[p]
                         /\ smb'[p].sem = smb[p].sem
                         /\ smb'[p].shm = shmname' /\ shmname' # None
<1> USE DEF Goto
<1>1. TypeOK
  BY DEF IInv
<1>2. ASSUME ShmOpen(p)
      PROVE  /\ pc'[p] \in {"truncate", "create"} /\ todo'[p] = todo[p]
             /\ at'[p] = at[p] /\ smb'[p].sem = smb[p].sem
             /\ pc'[p] = "truncate" => smb'[p].shm = shmname /\ shmname # None
             /\ pc'[p] = "create" => shmname = None /\ smb'[p] = smb[p]
  <2>1. CASE shmname # None
    <3>1. smb' = [smb EXCEPT ![p].shm = shmname] /\ shmname \in Memories
      BY <1>1, <1>2, <2>1 DEF ShmOpen, Attach, TypeOK
    <3>2. smb'[p].shm = shmname /\ smb'[p].sem = smb[p].sem
      BY <1>1, <3>1, NewField
    <3>3. QED
      BY <1>1, <1>2, <2>1, <3>2 DEF ShmOpen, TypeOK
  <2>2. CASE shmname = None
    BY <1>1, <1>2, <2>2 DEF ShmOpen, TypeOK
  <2>3. QED
    BY <2>1, <2>2
<1>3. ASSUME ShmCreate(p)
      PROVE  /\ pc'[p] = "truncate" /\ todo'[p] = todo[p] /\ at'[p] = at[p]
             /\ smb'[p].sem = smb[p].sem
             /\ smb'[p].shm = shmname' /\ shmname' # None
  <2>1. smb' = [smb EXCEPT ![p].shm = shmname'] /\ shmname' \in Memories
    BY <1>1, <1>3, NewMemory DEF ShmCreate, Attach, TypeOK
  <2>2. smb'[p].shm = shmname' /\ smb'[p].sem = smb[p].sem
    BY <1>1, <2>1, NewField
  <2>3. QED
    BY <1>1, <1>3, <2>1, <2>2 DEF ShmCreate, TypeOK
<1>4. ASSUME WinMap(p)
      PROVE  /\ pc'[p] = "idle" /\ todo'[p] = todo[p] /\ at'[p] = at[p]
             /\ smb'[p].sem = smb[p].sem
             /\ smb'[p].shm = shmname' /\ shmname' # None
  <2>1. smb' = [smb EXCEPT ![p].shm = shmname'] /\ shmname' \in Memories
    BY <1>1, <1>4, NewMemory DEF WinMap, Attach, TypeOK
  <2>2. smb'[p].shm = shmname' /\ smb'[p].sem = smb[p].sem
    BY <1>1, <2>1, NewField
  <2>3. QED
    BY <1>1, <1>4, <2>1, <2>2 DEF WinMap, TypeOK
<1>5. QED
  BY <1>2, <1>3, <1>4

LEMMA OwnStepEnd ==
  ASSUME IInv, NEW p \in Processes
  PROVE  /\ Destroy(p) => /\ pc'[p] = IF p \in Cleanup THEN "unlinkShm" ELSE "off"
                          /\ smb'[p] = NoObject /\ at'[p] = 0
         /\ WinExit(p) \/ Crash(p) => pc'[p] = "off" /\ smb'[p] = NoObject /\ at'[p] = 0
         /\ ShmUnlink(p) => pc'[p] = "unlinkSem" /\ smb'[p] = smb[p] /\ at'[p] = at[p]
         /\ SemUnlink(p) => pc'[p] = "off" /\ smb'[p] = smb[p] /\ at'[p] = at[p]
         /\ WinUnmap(p) => /\ pc'[p] = "closeSem" /\ at'[p] = at[p]
                           /\ smb'[p].shm = None /\ smb'[p].sem = smb[p].sem
         /\ WinClose(p) => pc'[p] = "closed" /\ smb'[p] = NoObject /\ at'[p] = at[p]
<1> USE DEF Goto
<1>1. TypeOK
  BY DEF IInv
<1>2. /\ Destroy(p) => /\ pc'[p] = IF p \in Cleanup THEN "unlinkShm" ELSE "off"
                       /\ smb'[p] = NoObject /\ at'[p] = 0
      /\ WinExit(p) \/ Crash(p) => pc'[p] = "off" /\ smb'[p] = NoObject /\ at'[p] = 0
  BY <1>1 DEF Destroy, WinExit, Crash, End, TypeOK
<1>3. /\ ShmUnlink(p) => pc'[p] = "unlinkSem" /\ smb'[p] = smb[p] /\ at'[p] = at[p]
      /\ SemUnlink(p) => pc'[p] = "off" /\ smb'[p] = smb[p] /\ at'[p] = at[p]
      /\ WinClose(p) => pc'[p] = "closed" /\ smb'[p] = NoObject /\ at'[p] = at[p]
  BY <1>1 DEF ShmUnlink, SemUnlink, WinClose, TypeOK
<1>4. ASSUME WinUnmap(p)
      PROVE  /\ pc'[p] = "closeSem" /\ at'[p] = at[p]
             /\ smb'[p].shm = None /\ smb'[p].sem = smb[p].sem
  <2>1. smb'[p].shm = None /\ smb'[p].sem = smb[p].sem
    BY <1>1, <1>4, NewField DEF WinUnmap
  <2>2. QED
    BY <1>1, <1>4, <2>1 DEF WinUnmap, TypeOK
<1>5. QED
  BY <1>2, <1>3, <1>4

----------------------------------------------------------------------------

LEMMA PointStep == ASSUME IInv, NEW p \in Processes, Step(p) PROVE PointInv'
<1>1. /\ pc[p] \in {"off", "closed", "unlinkShm", "unlinkSem"} => smb[p] = NoObject
      /\ pc[p] \in Own => smb[p].sem # None
      /\ pc[p] \in Mapped => smb[p].shm # None
      /\ pc[p] = "wait" => todo[p] \in Tasks /\ (todo[p] # "open" => smb[p].shm # None)
      /\ pc[p] \in {"read", "write"} => todo[p] = pc[p]
      /\ pc[p] \in {"open", "create", "truncate"} => todo[p] = "open"
      /\ (pc[p] \notin {"read", "write", "post"} \/ todo[p] = "open") => at[p] = 0
  BY DEF IInv, PointInv
<1> DEFINE At(q) ==
      /\ pc[q] \in {"off", "closed", "unlinkShm", "unlinkSem"} => smb[q] = NoObject
      /\ pc[q] \in Own => smb[q].sem # None
      /\ pc[q] \in Mapped => smb[q].shm # None
      /\ pc[q] = "wait" => todo[q] \in Tasks /\ (todo[q] # "open" => smb[q].shm # None)
      /\ pc[q] \in {"read", "write"} => todo[q] = pc[q]
      /\ pc[q] \in {"open", "create", "truncate"} => todo[q] = "open"
      /\ (pc[q] \notin {"read", "write", "post"} \/ todo[q] = "open") => at[q] = 0
<1>2. ASSUME NEW q \in Processes, q # p PROVE At(q)'
  BY <1>2, OthersStay DEF IInv, PointInv
<1>3. At(p)'
  <2> USE DEF Own, Mapped, Inside, Tasks
  <2>1. ASSUME NEW n \in Sizes, SemOpen(p, n) PROVE At(p)'
    BY <1>1, <2>1, OwnStep DEF SemOpen
  <2>2. ASSUME NEW n \in Sizes, WinSemaphore(p, n) PROVE At(p)'
    BY <1>1, <2>2, OwnStep DEF WinSemaphore
  <2>3. ASSUME NEW task \in Tasks, Begin(p, task) PROVE At(p)'
    BY <1>1, <2>3, OwnStep DEF Begin
  <2>4. ASSUME Acquire(p) PROVE At(p)'
    BY <1>1, <2>4, OwnStep DEF Acquire, AcquireUnguarded
  <2>5. ASSUME Copy(p) PROVE At(p)'
    BY <1>1, <2>5, OwnStep DEF Copy
  <2>6. ASSUME Post(p) PROVE At(p)'
    BY <1>1, <2>6, OwnStep DEF Post
  <2>7. ASSUME Truncate(p) PROVE At(p)'
    BY <1>1, <2>7, OwnStep DEF Truncate
  <2>8. ASSUME ShmOpen(p) PROVE At(p)'
    BY <1>1, <2>8, OwnStepAttach DEF ShmOpen
  <2>9. ASSUME ShmCreate(p) PROVE At(p)'
    BY <1>1, <2>9, OwnStepAttach DEF ShmCreate
  <2>10. ASSUME WinMap(p) PROVE At(p)'
    BY <1>1, <2>10, OwnStepAttach DEF WinMap
  <2>11. ASSUME Destroy(p) \/ WinExit(p) \/ Crash(p) PROVE At(p)'
    BY <1>1, <2>11, OwnStepEnd
  <2>12. ASSUME ShmUnlink(p) \/ SemUnlink(p) PROVE At(p)'
    BY <1>1, <2>12, OwnStepEnd DEF ShmUnlink, SemUnlink
  <2>13. ASSUME WinUnmap(p) \/ WinClose(p) PROVE At(p)'
    BY <1>1, <2>13, OwnStepEnd DEF WinUnmap, WinClose
  <2>14. QED
    BY <2>1, <2>2, <2>3, <2>4, <2>5, <2>6, <2>7, <2>8, <2>9, <2>10, <2>11, <2>12, <2>13
       DEF Step
<1>4. QED
  BY <1>2, <1>3 DEF PointInv

LEMMA PlatformStep == ASSUME IInv, NEW p \in Processes, Step(p) PROVE PlatformInv'
<1> USE DEF Linux, Windows
<1>1. /\ pc[p] \in {"open", "create", "truncate", "unlinkShm", "unlinkSem"} => Linux
      /\ pc[p] = "wait" /\ todo[p] = "open" => Linux
      /\ pc[p] \in {"map", "closeSem", "closed"} => Windows
  BY DEF IInv, PlatformInv
<1>2. platform' = platform
  BY DEF Step, SemOpen, WinSemaphore, Begin, Acquire, AcquireUnguarded, Copy, Post, ShmOpen,
     ShmCreate, Truncate, Destroy, ShmUnlink, SemUnlink, WinMap, WinUnmap, WinClose, WinExit,
     Crash
<1> DEFINE At(q) ==
      /\ pc[q] \in {"open", "create", "truncate", "unlinkShm", "unlinkSem"} => Linux
      /\ pc[q] = "wait" /\ todo[q] = "open" => Linux
      /\ pc[q] \in {"map", "closeSem", "closed"} => Windows
<1>3. ASSUME NEW q \in Processes, q # p PROVE At(q)'
  BY <1>2, <1>3, OthersStay DEF IInv, PlatformInv
<1>4. At(p)'
  <2> USE <1>1, <1>2
  <2>1. ASSUME NEW n \in Sizes, SemOpen(p, n) PROVE At(p)'
    BY <2>1, OwnStep DEF SemOpen
  <2>2. ASSUME NEW n \in Sizes, WinSemaphore(p, n) PROVE At(p)'
    BY <2>2, OwnStep DEF WinSemaphore
  <2>3. ASSUME NEW task \in Tasks, Begin(p, task) PROVE At(p)'
    BY <2>3, OwnStep DEF Begin
  <2>4. ASSUME Acquire(p) PROVE At(p)'
    <3>1. todo[p] \in Tasks
      BY <2>4 DEF IInv, PointInv, Acquire, AcquireUnguarded
    <3>2. QED
      BY <2>4, <3>1, OwnStep DEF Acquire, AcquireUnguarded, Tasks
  <2>5. ASSUME Copy(p) \/ Post(p) \/ Truncate(p) PROVE At(p)'
    BY <2>5, OwnStep DEF Copy
  <2>6. ASSUME ShmOpen(p) \/ ShmCreate(p) \/ WinMap(p) PROVE At(p)'
    BY <2>6, OwnStepAttach DEF ShmOpen, ShmCreate
  <2>7. ASSUME Destroy(p) \/ WinExit(p) \/ Crash(p) PROVE At(p)'
    BY <2>7, OwnStepEnd DEF Destroy
  <2>8. ASSUME ShmUnlink(p) \/ SemUnlink(p) PROVE At(p)'
    BY <2>8, OwnStepEnd DEF ShmUnlink
  <2>9. ASSUME WinUnmap(p) \/ WinClose(p) PROVE At(p)'
    BY <2>9, OwnStepEnd DEF WinUnmap, WinClose
  <2>10. QED
    BY <2>1, <2>2, <2>3, <2>4, <2>5, <2>6, <2>7, <2>8, <2>9 DEF Step
<1>5. QED
  BY <1>3, <1>4 DEF PlatformInv

\* A process at a control point with the semaphore keeps it, one that was not at any
\* such point only gets there by Acquire; and the value of its semaphore is untouched.
LEMMA LockStep == ASSUME IInv, NEW p \in Processes, Step(p) PROVE LockInv'
<1>1. TypeOK /\ PointInv /\ LockInv
  BY DEF IInv
<1>2. \A q \in Processes : pc[q] \in Inside => smb[q].sem \in Semaphores
  BY <1>1 DEF TypeOK, PointInv, Objects, Own
<1>o. \A q \in Processes : q # p => smb'[q] = smb[q] /\ pc'[q] = pc[q]
  BY OthersStay
\* p is outside afterwards, and the others find the value of their semaphores untouched
<1>a. ASSUME pc'[p] \notin Inside,
             \A q \in Processes \ {p} : pc[q] \in Inside => value'[smb[q].sem] = value[smb[q].sem]
      PROVE  LockInv'
  BY <1>1, <1>a, <1>o DEF LockInv
\* p was inside before, and all semaphores have the value they had
<1>b. ASSUME pc[p] \in Inside, smb'[p].sem = smb[p].sem, value' = value
      PROVE  LockInv'
  BY <1>1, <1>b, <1>o DEF LockInv
<1>r. ASSUME NEW ended, ended \subseteq Semaphores, smb' \in [Processes -> Objects], Reclaim(ended)
      PROVE  \A q \in Processes \ {p} :
               pc[q] \in Inside => value'[smb[q].sem] = value[smb[q].sem]
  <2>1. \A q \in Processes : smb'[q].sem # None => value'[smb'[q].sem] = value[smb'[q].sem]
    BY <1>r, <1>1, Reclaimed
  <2>2. QED
    BY <2>1, <1>o, <1>1 DEF PointInv, Own
<1>t. smb' \in [Processes -> Objects]
  BY TypeStep DEF TypeOK
<1> USE DEF kernel
<1>3. ASSUME NEW n \in Sizes, SemOpen(p, n) \/ WinSemaphore(p, n) PROVE LockInv'
  <2>1. pc'[p] \notin Inside
    BY <1>3, OwnStep DEF Inside
  <2>2. \A q \in Processes \ {p} : pc[q] \in Inside => value'[smb[q].sem] = value[smb[q].sem]
    <3>1. \/ value' = value
          \/ /\ \A q \in Processes : smb[q].sem # semname'
             /\ value' = [value EXCEPT ![semname'] = 1]
      BY <1>1, <1>3, Named DEF SemOpen, WinSemaphore
    <3>2. QED
      BY <1>1, <1>2, <3>1 DEF TypeOK
  <2>3. QED
    BY <1>a, <2>1, <2>2
<1>4. ASSUME NEW task \in Tasks, Begin(p, task) PROVE LockInv'
  <2>1. pc'[p] \notin Inside
    BY <1>4, OwnStep DEF Inside
  <2>2. QED
    BY <1>4, <1>a, <2>1 DEF Begin
<1>5. ASSUME Acquire(p) PROVE LockInv'
  <2>1. /\ smb[p].sem \in Semaphores /\ value[smb[p].sem] = 1
        /\ value' = [value EXCEPT ![smb[p].sem] = 0]
        /\ smb'[p] = smb[p]
    <3>1. smb[p].sem \in Semaphores /\ value[smb[p].sem] \in 0 .. 1
      BY <1>1, <1>5 DEF Acquire, PointInv, TypeOK, Objects, Own
    <3>2. value[smb[p].sem] = 1
      BY <3>1, <1>5 DEF Acquire
    <3>3. value' = [value EXCEPT ![smb[p].sem] = value[smb[p].sem] - 1] /\ smb'[p] = smb[p]
      BY <1>5, OwnStep DEF Acquire, AcquireUnguarded
    <3>4. QED
      BY <3>1, <3>2, <3>3
  <2>2. \A q \in Processes : pc[q] \in Inside => smb[q].sem # smb[p].sem
    BY <1>1, <2>1 DEF LockInv
  <2>3. value'[smb[p].sem] = 0
    BY <1>1, <2>1 DEF TypeOK
  <2>4. \A q \in Processes : pc[q] \in Inside => value'[smb[q].sem] = value[smb[q].sem]
    BY <1>1, <1>2, <2>1, <2>2 DEF TypeOK
  <2>5. \A q \in Processes : q # p /\ pc'[q] \in Inside =>
          smb'[q].sem # smb'[p].sem /\ value'[smb'[q].sem] = 0
    BY <1>1, <1>o, <2>1, <2>2, <2>4 DEF LockInv
  <2>6. \A q, r \in Processes : (q # r /\ q # p /\ r # p /\ pc'[q] \in Inside /\ pc'[r] \in Inside)
          => smb'[q].sem # smb'[r].sem
    BY <1>1, <1>o DEF LockInv
  <2>7. QED
    BY <2>1, <2>3, <2>5, <2>6 DEF LockInv
<1>6. ASSUME Copy(p) \/ Truncate(p) PROVE LockInv'
  <2>1. pc[p] \in Inside
    BY <1>6 DEF Copy, Truncate, Inside
  <2>2. QED
    BY <1>6, <1>b, <2>1, OwnStep DEF Copy, Truncate
<1>7. ASSUME ShmOpen(p) \/ ShmCreate(p) PROVE LockInv'
  <2>1. pc[p] \in Inside
    BY <1>7 DEF ShmOpen, ShmCreate, Inside
  <2>2. QED
    BY <1>7, <1>b, <2>1, OwnStepAttach DEF ShmOpen, ShmCreate
<1>8. ASSUME Post(p) PROVE LockInv'
  <2>1. pc[p] \in Inside /\ pc'[p] \notin Inside
    BY <1>8, OwnStep DEF Post, Inside
  <2>2. \A q \in Processes \ {p} : pc[q] \in Inside => smb[q].sem # smb[p].sem
    BY <1>1, <2>1 DEF LockInv
  <2>3. \A q \in Processes \ {p} : pc[q] \in Inside => value'[smb[q].sem] = value[smb[q].sem]
    BY <1>8, <1>1, <1>2, <2>2 DEF Post, TypeOK
  <2>4. QED
    BY <1>a, <2>1, <2>3
<1>9. ASSUME WinMap(p) PROVE LockInv'
  <2>1. pc'[p] \notin Inside
    BY <1>9, OwnStepAttach DEF Inside
  <2>2. QED
    BY <1>9, <1>a, <2>1 DEF WinMap
<1>10. ASSUME Destroy(p) \/ WinExit(p) \/ ShmUnlink(p) \/ SemUnlink(p) \/ WinUnmap(p) \/ WinClose(p)
       PROVE  LockInv'
  <2>1. pc'[p] \notin Inside
    BY <1>10, OwnStepEnd DEF Inside
  <2>2. Reclaim({})
    BY <1>10 DEF Destroy, WinExit, ShmUnlink, SemUnlink, WinUnmap, WinClose
  <2>3. QED
    BY <1>a, <1>r, <1>t, <2>1, <2>2
<1>11. ASSUME Crash(p) PROVE LockInv'
  <2>1. pc'[p] \notin Inside
    BY <1>11, OwnStepEnd DEF Inside
  <2>2. (IF pc[p] \in Inside THEN {smb[p].sem} ELSE {}) \subseteq Semaphores
    BY <1>2
  <2>3. QED
    BY <1>11, <1>a, <1>r, <1>t, <2>1, <2>2 DEF Crash
<1>12. QED
  BY <1>3, <1>4, <1>5, <1>6, <1>7, <1>8, <1>9, <1>10, <1>11 DEF Step

\* What a step leaves of the facts about memories in use: who is mixed stays mixed, and
\* the same semaphore is used for what is not.
LEMMA MixedStep == ASSUME IInv, NEW p \in Processes, Step(p) PROVE MixedInv'
<1>1. TypeOK /\ PointInv /\ MixedInv
  BY DEF IInv
<1>o. \A q \in Processes : q # p => smb'[q] = smb[q]
  BY OthersStay
<1>t. smb' \in [Processes -> Objects]
  BY TypeStep DEF TypeOK
\* p has no memory afterwards, or the one it had, and the others are as mixed as before
<1>a. ASSUME smb'[p].shm \in {None, smb[p].shm}, smb'[p].shm # None => smb'[p].sem = smb[p].sem,
             \A q \in Processes : smb'[q].shm # None =>
               (smb'[q].shm \in mixed => smb'[q].shm \in mixed')
      PROVE  MixedInv'
  BY <1>1, <1>a, <1>o DEF MixedInv
<1>b. ASSUME smb' = smb, mixed' = mixed PROVE MixedInv'
  BY <1>1, <1>b DEF MixedInv
<1>c. ASSUME Attach(p, shmname), shmname # None PROVE MixedInv'
  <2>1. shmname \in Memories
    BY <1>1, <1>c DEF TypeOK
  <2>2. smb'[p].shm = shmname /\ smb'[p].sem = smb[p].sem
    BY <1>1, <1>c, <2>1, NewField DEF Attach
  <2>3. \A q \in Processes :
          (q # p /\ smb[q].shm = shmname /\ shmname \notin mixed') => smb[q].sem = smb[p].sem
    BY <1>c DEF Attach
  <2>4. mixed \subseteq mixed'
    BY <1>c DEF Attach
  <2>5. QED
    BY <1>1, <1>o, <2>2, <2>3, <2>4 DEF MixedInv
<1>d. ASSUME NEW n, AttachNew(p, n) PROVE MixedInv'
  <2>1. /\ shmname' \in Memories /\ smb' = [smb EXCEPT ![p].shm = shmname']
        /\ \A q \in Processes : smb[q].shm # shmname'
        /\ mixed' = mixed \ {shmname'}
    BY <1>1, <1>d, NewMemory
  <2>2. smb'[p].shm = shmname'
    BY <1>1, <2>1, NewField
  <2>3. QED
    BY <1>1, <1>o, <2>1, <2>2 DEF MixedInv
<1>r. ASSUME NEW ended, ended \subseteq Semaphores, Reclaim(ended)
      PROVE  \A q \in Processes : smb'[q].shm # None =>
               (smb'[q].shm \in mixed => smb'[q].shm \in mixed')
  BY <1>r, <1>1, <1>t, Reclaimed
<1> USE DEF kernel, kept, history
<1>3. ASSUME NEW n \in Sizes, SemOpen(p, n) \/ WinSemaphore(p, n) PROVE MixedInv'
  <2>1. smb'[p].shm = None
    BY <1>3, OwnStep
  <2>2. mixed' = mixed
    BY <1>3 DEF SemOpen, WinSemaphore
  <2>3. QED
    BY <1>a, <2>1, <2>2
<1>4. ASSUME (\E task \in Tasks : Begin(p, task)) \/ Acquire(p) \/ Copy(p) \/ Post(p) \/ Truncate(p)
      PROVE  MixedInv'
  BY <1>4, <1>b DEF Begin, Acquire, AcquireUnguarded, Copy, Post, Truncate
<1>5. ASSUME ShmOpen(p) PROVE MixedInv'
  BY <1>5, <1>b, <1>c DEF ShmOpen
<1>6. ASSUME ShmCreate(p) PROVE MixedInv'
  BY <1>6, <1>c, <1>d DEF ShmCreate
<1>7. ASSUME WinMap(p) PROVE MixedInv'
  BY <1>7, <1>c, <1>d DEF WinMap
<1>8. ASSUME Destroy(p) \/ WinExit(p) \/ ShmUnlink(p) \/ SemUnlink(p) \/ WinUnmap(p) \/ WinClose(p)
      PROVE  MixedInv'
  <2>1. /\ smb'[p].shm \in {None, smb[p].shm}
        /\ smb'[p].shm # None => smb'[p].sem = smb[p].sem
    BY <1>8, OwnStepEnd DEF NoObject
  <2>2. Reclaim({})
    BY <1>8 DEF Destroy, WinExit, ShmUnlink, SemUnlink, WinUnmap, WinClose
  <2>3. QED
    BY <1>a, <1>r, <2>1, <2>2
<1>9. ASSUME Crash(p) PROVE MixedInv'
  <2>1. smb'[p].shm = None
    BY <1>9, OwnStepEnd DEF NoObject
  <2>2. (IF pc[p] \in Inside THEN {smb[p].sem} ELSE {}) \subseteq Semaphores
    BY <1>1 DEF TypeOK, PointInv, Objects, Own
  <2>3. QED
    BY <1>9, <1>a, <1>r, <2>1, <2>2 DEF Crash
<1>10. QED
  BY <1>3, <1>4, <1>5, <1>6, <1>7, <1>8, <1>9 DEF Step

\* Two processes that share a memory which is not mixed are not both inside.
LEMMA OneInside ==
  ASSUME IInv, NEW p \in Processes, NEW q \in Processes, p # q,
         pc[p] \in Inside, pc[q] \in Inside,
         smb[p].shm # None, smb[p].shm = smb[q].shm
  PROVE  smb[p].shm \in mixed
  BY DEF IInv, MixedInv, LockInv

\* A process that copies works on a byte of its memory.
LEMMA CopyPlace ==
  ASSUME IInv, NEW p \in Processes, Copy(p)
  PROVE  smb[p].shm \in Memories /\ Next1(p) \in Bytes /\ Next1(p) = at[p] + 1 /\ at[p] \in Nat
<1>1. smb[p].shm \in Memories /\ size[smb[p].shm] \in Sizes \cup {0}
  BY DEF Copy, IInv, PointInv, Mapped, TypeOK, Objects
<1>2. Next1(p) \in Nat \ {0} /\ Next1(p) <= size[smb[p].shm] /\ Next1(p) = at[p] + 1 /\ at[p] \in Nat
  BY DEF Copy, Next1, IInv, TypeOK
<1>3. size[smb[p].shm] \in Sizes /\ size[smb[p].shm] \in Nat
  <2> DEFINE n == size[smb[p].shm]
             k == Next1(p)
  <2>1. n \in Sizes \cup {0} /\ k \in Nat \ {0} /\ k <= n
    BY <1>1, <1>2
  <2> HIDE DEF n, k
  <2>2. \A x \in Sizes : x \in Nat
    OBVIOUS
  <2>3. n # 0
    BY <2>1
  <2>4. n \in Sizes /\ n \in Nat
    BY <2>1, <2>2, <2>3
  <2>5. QED
    BY <2>4 DEF n
<1>4. Next1(p) \in 1 .. size[smb[p].shm]
  BY <1>2, <1>3
<1>5. QED
  BY <1>1, <1>2, <1>3, <1>4, BytesOf

\* Nobody touches what another process is working on, and a process copies byte for byte.
LEMMA UndisturbedStep == ASSUME IInv, NEW p \in Processes, Step(p) PROVE Undisturbed'
<1>1. TypeOK /\ PointInv /\ LockInv /\ MixedInv /\ Undisturbed
  BY DEF IInv
<1>o. \A q \in Processes : q # p =>
        smb'[q] = smb[q] /\ pc'[q] = pc[q] /\ todo'[q] = todo[q] /\ at'[q] = at[q]
        /\ buffer'[q] = buffer[q]
  BY OthersStay
<1>t. smb' \in [Processes -> Objects] /\ at' \in [Processes -> Nat]
  BY TypeStep DEF TypeOK
<1> DEFINE Working(q) == pc[q] \in {"read", "write", "post"} /\ smb[q].shm \notin mixed
           Fine(q) == \A k \in 1 .. at[q] :
                        data[smb[q].shm][k] = IF todo[q] = "read" THEN buffer[q][k] ELSE q
<1>w. \A q \in Processes : Working(q) => smb[q].shm \in Memories /\ pc[q] \in Inside
  BY <1>1 DEF PointInv, TypeOK, Objects, Mapped, Inside
\* The memories of the others stay as they are, and p is not at work with a byte copied.
<1>a. ASSUME \A q \in Processes \ {p} :
               Working(q)' => Working(q) /\ data'[smb[q].shm] = data[smb[q].shm],
             Working(p)' => at'[p] = 0
      PROVE  Undisturbed'
  <2>1. ASSUME NEW q \in Processes, q # p, Working(q)' PROVE Fine(q)'
    BY <1>1, <1>o, <1>a, <2>1 DEF Undisturbed
  <2>2. ASSUME Working(p)' PROVE Fine(p)'
    <3>1. 1 .. at'[p] = {}
      BY <1>a, <2>2
    <3>2. QED
      BY <3>1
  <2>3. QED
    BY <2>1, <2>2 DEF Undisturbed
<1>b. ASSUME data' = data, mixed' = mixed
      PROVE  \A q \in Processes \ {p} :
               Working(q)' => Working(q) /\ data'[smb[q].shm] = data[smb[q].shm]
  BY <1>b, <1>o
\* p is inside with memory m, which alone changes
<1>c. ASSUME pc[p] \in Inside, NEW m, smb'[p].shm = m, m # None, smb'[p].sem = smb[p].sem,
             \A q \in Processes \ {p} : smb[q].shm = m /\ smb[q].sem # smb[p].sem => m \in mixed',
             mixed \subseteq mixed',
             \A n \in Memories : n # m => data'[n] = data[n]
      PROVE  \A q \in Processes \ {p} :
               Working(q)' => Working(q) /\ data'[smb[q].shm] = data[smb[q].shm]
  <2> SUFFICES ASSUME NEW q \in Processes \ {p}, Working(q)'
               PROVE  Working(q) /\ data'[smb[q].shm] = data[smb[q].shm]
    OBVIOUS
  <2>1. Working(q)
    BY <1>o, <1>c
  <2>2. smb[q].shm # m
    BY <1>1, <1>c, <1>o, <1>w, <2>1 DEF LockInv
  <2>3. QED
    BY <1>c, <1>w, <2>1, <2>2
<1>r. ASSUME NEW ended, ended \subseteq Semaphores, Reclaim(ended)
      PROVE  \A q \in Processes \ {p} :
               Working(q)' => Working(q) /\ data'[smb[q].shm] = data[smb[q].shm]
  <2>1. \A q \in Processes : smb'[q].shm # None => /\ data'[smb'[q].shm] = data[smb'[q].shm]
                                                   /\ smb'[q].shm \in mixed' <=> smb'[q].shm \in mixed
    BY <1>r, <1>1, <1>t, Reclaimed
  <2>2. \A q \in Processes : pc[q] \in {"read", "write", "post"} => smb[q].shm # None
    BY <1>1 DEF PointInv, Mapped
  <2>3. QED
    BY <1>o, <2>1, <2>2
<1>d. ASSUME NEW n, AttachNew(p, n)
      PROVE  \A q \in Processes \ {p} :
               Working(q)' => Working(q) /\ data'[smb[q].shm] = data[smb[q].shm]
  <2>1. /\ \A q \in Processes : smb[q].shm # shmname'
        /\ data' = [data EXCEPT ![shmname'] = Blank]
        /\ mixed' = mixed \ {shmname'}
    BY <1>1, <1>d, NewMemory
  <2>2. \A q \in Processes \ {p} : Working(q)' => Working(q)
    BY <1>o, <2>1
  <2>3. QED
    BY <1>1, <1>w, <2>1, <2>2 DEF TypeOK
<1> USE DEF kernel, kept, history
<1>3. ASSUME NEW n \in Sizes, SemOpen(p, n) \/ WinSemaphore(p, n) PROVE Undisturbed'
  <2>1. pc'[p] \in {"wait", "map"}
    BY <1>3, OwnStep
  <2>2. data' = data /\ mixed' = mixed
    BY <1>3 DEF SemOpen, WinSemaphore
  <2>3. QED
    BY <1>a, <1>b, <2>1, <2>2
<1>4. ASSUME (\E task \in Tasks : Begin(p, task)) \/ Post(p) PROVE Undisturbed'
  <2>1. pc'[p] \in {"wait", "idle"}
    BY <1>4, OwnStep
  <2>2. data' = data /\ mixed' = mixed
    BY <1>4 DEF Begin, Post
  <2>3. QED
    BY <1>a, <1>b, <2>1, <2>2
<1>5. ASSUME Acquire(p) PROVE Undisturbed'
  <2>1. at'[p] = 0
    BY <1>1, <1>5, OwnStep DEF PointInv, Acquire, AcquireUnguarded
  <2>2. data' = data /\ mixed' = mixed
    BY <1>5 DEF Acquire, AcquireUnguarded
  <2>3. QED
    BY <1>a, <1>b, <2>1, <2>2
<1>6. ASSUME Copy(p) PROVE Undisturbed'
  <2> DEFINE m == smb[p].shm
             k == at[p] + 1
  <2>1. /\ m \in Memories /\ m # None /\ k \in Bytes /\ at[p] \in Nat /\ pc[p] \in Inside
        /\ smb' = smb /\ mixed' = mixed /\ todo' = todo /\ at'[p] = k
        /\ pc[p] = todo[p]
    BY <1>6, <1>1, CopyPlace, OwnStep DEF Copy, Inside, PointInv
  <2>2. \/ /\ todo[p] = "read" /\ data' = data
           /\ buffer' = [buffer EXCEPT ![p][k] = data[m][k]]
        \/ /\ todo[p] = "write" /\ buffer' = buffer
           /\ data' = [data EXCEPT ![m][k] = p]
    BY <1>6, <2>1 DEF Copy, Next1
  <2>3. \A n \in Memories : n # m => data'[n] = data[n]
    BY <1>1, <2>2 DEF TypeOK
  <2>4. \A q \in Processes \ {p} : smb[q].shm = m /\ smb[q].sem # smb[p].sem => m \in mixed'
    BY <1>1, <2>1 DEF MixedInv
  <2>5. ASSUME NEW q \in Processes, q # p, Working(q)' PROVE Fine(q)'
    <3>1. Working(q) /\ data'[smb[q].shm] = data[smb[q].shm]
      BY <1>c, <2>1, <2>3, <2>4, <2>5
    <3>2. QED
      BY <1>1, <1>o, <2>5, <3>1 DEF Undisturbed
  <2>6. ASSUME Working(p)' PROVE Fine(p)'
    <3>1. Working(p)
      BY <1>6, <2>1, <2>6 DEF Copy
    <3>2. \A j \in 1 .. at[p] : data[m][j] = IF todo[p] = "read" THEN buffer[p][j] ELSE p
      BY <1>1, <3>1 DEF Undisturbed
    <3>3. /\ \A j \in 1 .. at[p] : data'[m][j] = IF todo[p] = "read" THEN buffer'[p][j] ELSE p
          /\ data'[m][k] = IF todo[p] = "read" THEN buffer'[p][k] ELSE p
      <4>1. /\ m \in DOMAIN data /\ k \in DOMAIN data[m]
            /\ p \in DOMAIN buffer /\ k \in DOMAIN buffer[p]
        BY <1>1, <2>1 DEF TypeOK
      <4>2. CASE todo[p] = "read"
        <5>1. /\ data' = data /\ buffer'[p] = [buffer[p] EXCEPT ![k] = data[m][k]]
          BY <2>2, <4>1, <4>2
        <5>2. \A j \in 1 .. at[p] : j # k
          BY <2>1
        <5>3. QED
          BY <3>2, <4>1, <4>2, <5>1, <5>2
      <4>3. CASE todo[p] = "write"
        <5>1. /\ data'[m] = [data[m] EXCEPT ![k] = p]
          BY <2>2, <4>1, <4>3
        <5>2. \A j \in 1 .. at[p] : j # k
          BY <2>1
        <5>3. QED
          BY <3>2, <4>1, <4>3, <5>1, <5>2
      <4>4. QED
        BY <2>2, <4>2, <4>3
    <3>4. \A j \in 1 .. at'[p] : j \in 1 .. at[p] \/ j = k
      BY <2>1
    <3>5. QED
      BY <2>1, <3>3, <3>4
  <2>7. QED
    BY <2>5, <2>6 DEF Undisturbed
<1>7. ASSUME ShmOpen(p) PROVE Undisturbed'
  <2>1. pc'[p] \in {"truncate", "create"}
    BY <1>7, OwnStepAttach
  <2>2. data' = data /\ mixed \subseteq mixed'
    BY <1>7 DEF ShmOpen, Attach
  <2>3. QED
    BY <1>a, <1>o, <2>1, <2>2
<1>8. ASSUME ShmCreate(p) PROVE Undisturbed'
  <2>1. pc'[p] = "truncate" /\ smb'[p].sem = smb[p].sem
    BY <1>8, OwnStepAttach
  <2>2. CASE AttachNew(p, 0)
    BY <1>a, <1>d, <2>1, <2>2
  <2>3. CASE shmname # None
    <3>1. shmname \in Memories /\ pc[p] \in Inside
      BY <1>1, <1>8, <2>3 DEF TypeOK, ShmCreate, Inside
    <3>2. /\ smb'[p].shm = shmname /\ mixed \subseteq mixed'
          /\ \A q \in Processes \ {p} :
               smb[q].shm = shmname /\ smb[q].sem # smb[p].sem => shmname \in mixed'
      BY <1>1, <1>8, <2>3, <3>1, NewField DEF ShmCreate, Attach
    <3>3. \A n \in Memories : n # shmname => data'[n] = data[n]
      BY <1>1, <1>8, <2>3 DEF ShmCreate, TypeOK
    <3>4. QED
      BY <1>a, <1>c, <2>1, <2>3, <3>1, <3>2, <3>3
  <2>4. QED
    BY <1>8, <2>2, <2>3 DEF ShmCreate
<1>9. ASSUME Truncate(p) PROVE Undisturbed'
  <2>1. at'[p] = 0 /\ smb' = smb /\ mixed' = mixed /\ pc[p] \in Inside /\ smb[p].shm # None
    BY <1>1, <1>9, OwnStep DEF PointInv, Truncate, Inside, Mapped
  <2>2. \A n \in Memories : n # smb[p].shm => data'[n] = data[n]
    BY <1>1, <1>9 DEF Truncate, TypeOK
  <2>3. \A q \in Processes \ {p} :
          smb[q].shm = smb[p].shm /\ smb[q].sem # smb[p].sem => smb[p].shm \in mixed'
    BY <1>1, <2>1 DEF MixedInv
  <2>4. QED
    BY <1>a, <1>c, <2>1, <2>2, <2>3
<1>10. ASSUME WinMap(p) PROVE Undisturbed'
  <2>1. pc'[p] = "idle"
    BY <1>10, OwnStepAttach
  <2>2. CASE shmname = None
    BY <1>10, <1>a, <1>d, <2>1, <2>2 DEF WinMap
  <2>3. CASE shmname # None
    <3>1. data' = data /\ mixed \subseteq mixed'
      BY <1>10, <2>3 DEF WinMap, Attach
    <3>2. QED
      BY <1>a, <1>o, <2>1, <3>1
  <2>4. QED
    BY <2>2, <2>3
<1>11. ASSUME Destroy(p) \/ WinExit(p) \/ ShmUnlink(p) \/ SemUnlink(p) \/ WinUnmap(p) \/ WinClose(p)
       PROVE  Undisturbed'
  <2>1. pc'[p] \notin {"read", "write", "post"}
    BY <1>11, OwnStepEnd
  <2>2. Reclaim({})
    BY <1>11 DEF Destroy, WinExit, ShmUnlink, SemUnlink, WinUnmap, WinClose
  <2>3. QED
    BY <1>a, <1>r, <2>1, <2>2
<1>12. ASSUME Crash(p) PROVE Undisturbed'
  <2>1. pc'[p] = "off"
    BY <1>12, OwnStepEnd
  <2>2. (IF pc[p] \in Inside THEN {smb[p].sem} ELSE {}) \subseteq Semaphores
    BY <1>1 DEF TypeOK, PointInv, Objects, Own
  <2>3. QED
    BY <1>12, <1>a, <1>r, <2>1, <2>2 DEF Crash
<1>13. QED
  BY <1>3, <1>4, <1>5, <1>6, <1>7, <1>8, <1>9, <1>10, <1>11, <1>12 DEF Step

\* Who a step takes a name's last handle or last cleaner from frees the name with it.
LEMMA NameStep == ASSUME IInv, NEW p \in Processes, Step(p) PROVE NameInv'
<1>1. TypeOK /\ PointInv /\ PlatformInv /\ NameInv
  BY DEF IInv
<1>o. \A q \in Processes : q # p => smb'[q] = smb[q] /\ pc'[q] = pc[q]
  BY OthersStay
<1> USE DEF kernel, kept, history, Goto
<1>d. ~(Linux /\ Windows)
  BY DEF Linux, Windows
\* A step on Linux that does not end the process and binds no name of its own
<1>a. ASSUME Linux, platform' = platform, kept' = kept, pc'[p] # "off", crashed' = crashed,
             shmname' \in {shmname, None}
               \/ smb'[p].shm # None,
             semname' \in {semname, None} \/ pc'[p] # "off",
             (shmname' = shmname /\ (smb[p].shm # None \/ pc[p] = "unlinkShm")) =>
               \/ smb'[p].shm # None \/ pc'[p] = "unlinkShm"
               \/ shmname' = None \/ Cleanup # Processes
      PROVE  NameInv'
  <2>1. Linux' /\ ~Windows'
    BY <1>a, <1>d DEF Linux, Windows
  <2>2. keptShm' = {} /\ keptSem' = {}
    BY <1>1, <1>a DEF NameInv
  <2>3. ASSUME ~crashed', Cleanup = Processes, shmname' # None
        PROVE  \E q \in Processes : smb'[q].shm # None \/ pc'[q] = "unlinkShm"
    <3>1. CASE smb'[p].shm # None
      BY <3>1
    <3>2. CASE shmname' = shmname /\ smb'[p].shm = None
      <4>1. PICK q \in Processes : smb[q].shm # None \/ pc[q] = "unlinkShm"
        BY <1>1, <1>a, <2>3, <3>2 DEF NameInv
      <4>2. QED
        BY <1>a, <1>o, <2>3, <3>2, <4>1
    <3>3. QED
      BY <1>a, <2>3, <3>1, <3>2
  <2>4. \A q \in Processes : q \notin keptShm' \cup keptSem'
    BY <2>2
  <2>5. QED
    BY <1>a, <2>1, <2>2, <2>3, <2>4 DEF NameInv
\* A step on Windows after which the names have handles, if they are bound
<1>b. ASSUME Windows, platform' = platform,
             pc'[p] = "off" => p \notin keptShm' \cup keptSem',
             \A q \in Processes \ {p} : q \in keptShm' \cup keptSem' => q \in keptShm \cup keptSem,
             shmname' # None => \E q \in Processes : q \in keptShm' \/ smb'[q].shm # None,
             semname' # None => \E q \in Processes : q \in keptSem' \/ smb'[q].sem # None
      PROVE  NameInv'
  <2>1. Windows' /\ ~Linux'
    BY <1>b, <1>d DEF Linux, Windows
  <2>2. \A q \in Processes : pc'[q] = "off" => q \notin keptShm' \cup keptSem'
    BY <1>1, <1>b, <1>o DEF NameInv
  <2>3. QED
    BY <1>b, <2>1, <2>2 DEF NameInv
\* A step that changes neither names nor objects nor ends the process
<1>c. ASSUME platform' = platform, kept' = kept, smb' = smb, shmname' = shmname,
             semname' = semname, crashed' = crashed, pc'[p] # "off", pc[p] # "off",
             pc[p] # "unlinkShm"
      PROVE  NameInv'
  <2>1. (Linux' <=> Linux) /\ (Windows' <=> Windows)
    BY <1>c DEF Linux, Windows
  <2>2. \A q \in Processes : (pc'[q] = "off" <=> pc[q] = "off")
                              /\ (pc[q] = "unlinkShm" => pc'[q] = "unlinkShm")
    BY <1>c, <1>o
  <2>3. QED
    BY <1>1, <1>c, <2>1, <2>2 DEF NameInv
<1>3. ASSUME NEW n \in Sizes, SemOpen(p, n) PROVE NameInv'
  <2>1. pc'[p] = "wait" /\ smb[p].shm = None /\ pc[p] = "off"
    <3>1. pc[p] = "off" /\ smb[p] = NoObject
      BY <1>1, <1>3 DEF SemOpen, PointInv
    <3>2. smb[p].shm = None
      BY <3>1 DEF NoObject
    <3>3. QED
      BY <1>3, <3>1, <3>2, OwnStep
  <2>2. QED
    BY <1>3, <1>a, <2>1 DEF SemOpen
<1>4. ASSUME NEW n \in Sizes, WinSemaphore(p, n) PROVE NameInv'
  <2>1. /\ pc'[p] = "map" /\ smb'[p].sem # None /\ smb[p].shm = None
    <3>1. smb[p] = NoObject
      BY <1>1, <1>4 DEF WinSemaphore, PointInv
    <3>2. smb[p].shm = None
      BY <3>1 DEF NoObject
    <3>3. pc'[p] = "map" /\ smb'[p].sem = semname' /\ semname' # None
      BY <1>4, OwnStep
    <3>4. QED
      BY <3>2, <3>3
  <2>2. shmname' # None => \E q \in Processes : q \in keptShm' \/ smb'[q].shm # None
    BY <1>1, <1>4, <1>o, <2>1 DEF WinSemaphore, NameInv
  <2>3. QED
    BY <1>4, <1>b, <2>1, <2>2 DEF WinSemaphore
<1>5. ASSUME NEW task \in Tasks, Begin(p, task) PROVE NameInv'
  BY <1>5, <1>c, OwnStep DEF Begin
<1>6. ASSUME Acquire(p) PROVE NameInv'
  <2>1. pc'[p] # "off" /\ smb' = smb
    BY <1>1, <1>6, OwnStep DEF PointInv, Acquire, AcquireUnguarded, Tasks
  <2>2. QED
    BY <1>6, <1>c, <2>1 DEF Acquire, AcquireUnguarded
<1>7. ASSUME Copy(p) PROVE NameInv'
  BY <1>7, <1>c, OwnStep DEF Copy
<1>8. ASSUME Post(p) PROVE NameInv'
  BY <1>8, <1>c, OwnStep DEF Post
<1>9. ASSUME Truncate(p) PROVE NameInv'
  BY <1>9, <1>c, OwnStep DEF Truncate
<1>10. ASSUME ShmOpen(p) PROVE NameInv'
  <2>1. Linux
    BY <1>1, <1>10 DEF PlatformInv, ShmOpen
  <2>2. /\ pc'[p] \in {"truncate", "create"}
        /\ pc'[p] = "truncate" => smb'[p].shm # None
        /\ pc'[p] = "create" => shmname = None
    BY <1>10, OwnStepAttach
  <2>3. QED
    BY <1>10, <1>a, <2>1, <2>2 DEF ShmOpen
<1>11. ASSUME ShmCreate(p) PROVE NameInv'
  <2>1. Linux
    BY <1>1, <1>11 DEF PlatformInv, ShmCreate
  <2>2. QED
    BY <1>11, <1>a, <2>1, OwnStepAttach DEF ShmCreate
<1>12. ASSUME WinMap(p) PROVE NameInv'
  <2>1. Windows
    BY <1>1, <1>12 DEF PlatformInv, WinMap
  <2>2. pc'[p] = "idle" /\ smb'[p].shm # None /\ smb'[p].sem = smb[p].sem
    BY <1>12, OwnStepAttach
  <2>3. semname' # None => \E q \in Processes : q \in keptSem' \/ smb'[q].sem # None
    BY <1>1, <1>12, <1>o, <2>1, <2>2 DEF WinMap, NameInv
  <2>4. \A q \in Processes \ {p} : q \in keptShm' => q \in keptShm
    BY <1>12 DEF WinMap
  <2>5. QED
    BY <1>12, <1>b, <2>1, <2>2, <2>3, <2>4 DEF WinMap
<1>13. ASSUME Destroy(p) PROVE NameInv'
  <2>1. CASE pc'[p] = "off"
    <3>1. Linux' /\ ~Windows' /\ Cleanup # Processes
      BY <1>13, <1>d, <2>1, OwnStepEnd DEF Destroy, Linux, Windows
    <3>2. keptShm' = {} /\ keptSem' = {}
      BY <1>1, <1>13 DEF Destroy, End, NameInv
    <3>3. QED
      BY <3>1, <3>2 DEF NameInv
  <2>2. CASE pc'[p] # "off"
    <3>1. pc'[p] = "unlinkShm"
      BY <1>13, <2>2, OwnStepEnd
    <3>2. kept' = kept
      BY <1>1, <1>13 DEF Destroy, End, NameInv
    <3>3. QED
      BY <1>13, <1>a, <3>1, <3>2 DEF Destroy
  <2>3. QED
    BY <2>1, <2>2
<1>14. ASSUME ShmUnlink(p) PROVE NameInv'
  <2>1. Linux
    BY <1>1, <1>14 DEF PlatformInv, ShmUnlink
  <2>2. QED
    BY <1>14, <1>a, <2>1, OwnStepEnd DEF ShmUnlink
<1>15. ASSUME SemUnlink(p) PROVE NameInv'
  <2>1. Linux' /\ ~Windows' /\ Linux
    BY <1>1, <1>15, <1>d DEF PlatformInv, SemUnlink, Linux, Windows
  <2>2. keptShm' = {} /\ keptSem' = {} /\ semname' = None /\ shmname' = shmname
        /\ crashed' = crashed
    BY <1>1, <1>15, <2>1 DEF SemUnlink, NameInv
  <2>3. smb[p].shm = None /\ pc[p] = "unlinkSem"
    BY <1>1, <1>15 DEF SemUnlink, PointInv, NoObject
  <2>4. (~crashed /\ Cleanup = Processes /\ shmname # None) =>
          \E q \in Processes : smb'[q].shm # None \/ pc'[q] = "unlinkShm"
    BY <1>1, <1>o, <2>1, <2>3 DEF NameInv
  <2>5. QED
    BY <2>1, <2>2, <2>4 DEF NameInv
\* What ends on Windows releases the names it has the last handle of.
<1>e. ASSUME Windows, ReleaseNames
      PROVE  /\ shmname' # None => \E q \in Processes : q \in keptShm' \/ smb'[q].shm # None
             /\ semname' # None => \E q \in Processes : q \in keptSem' \/ smb'[q].sem # None
  <2>1. keptShm' \subseteq Processes /\ keptSem' \subseteq Processes
    BY TypeStep DEF TypeOK
  <2>2. QED
    BY <1>e, <2>1 DEF ReleaseNames, Users
<1>16. ASSUME WinUnmap(p) PROVE NameInv'
  <2>1. Windows /\ ReleaseNames /\ kept' = kept /\ platform' = platform /\ pc'[p] # "off"
    BY <1>16, OwnStepEnd DEF WinUnmap
  <2>2. QED
    BY <1>b, <1>e, <2>1
<1>17. ASSUME WinClose(p) PROVE NameInv'
  <2>1. Windows /\ ReleaseNames /\ kept' = kept /\ platform' = platform /\ pc'[p] # "off"
    BY <1>1, <1>17, OwnStepEnd DEF WinClose, PlatformInv
  <2>2. QED
    BY <1>b, <1>e, <2>1
<1>18. ASSUME WinExit(p) PROVE NameInv'
  <2>1. Windows /\ ReleaseNames /\ platform' = platform
        /\ keptShm' = keptShm \ {p} /\ keptSem' = keptSem \ {p}
    BY <1>1, <1>18 DEF WinExit, PlatformInv, End
  <2>2. QED
    BY <1>b, <1>e, <2>1
<1>19. ASSUME Crash(p) PROVE NameInv'
  <2>1. ReleaseNames /\ platform' = platform /\ crashed'
        /\ keptShm' = keptShm \ {p} /\ keptSem' = keptSem \ {p}
    BY <1>19 DEF Crash, End
  <2>2. CASE Windows
    BY <1>b, <1>e, <2>1, <2>2
  <2>3. CASE ~Windows
    <3>1. ~Windows' /\ (Linux' <=> Linux)
      BY <2>1, <2>3 DEF Linux, Windows
    <3>2. \A q \in Processes : pc'[q] = "off" => q \notin keptShm' \cup keptSem'
      BY <1>1, <1>o, <2>1 DEF NameInv
    <3>3. QED
      BY <1>1, <2>1, <3>1, <3>2 DEF NameInv
  <2>4. QED
    BY <2>2, <2>3
<1>20. QED
  BY <1>3, <1>4, <1>5, <1>6, <1>7, <1>8, <1>9, <1>10, <1>11, <1>12, <1>13, <1>14, <1>15,
     <1>16, <1>17, <1>18, <1>19 DEF Step

\* Without a process there is no handle and nobody to clean up.
LEMMA CleanWhenOff == TypeOK /\ PointInv /\ NameInv => CleanedUp
<1> SUFFICES ASSUME TypeOK, PointInv, NameInv, \A p \in Processes : pc[p] = "off"
             PROVE  \/ shmname = None /\ semname = None
                    \/ Linux /\ (crashed \/ Cleanup # Processes)
  BY DEF CleanedUp
<1>1. \A p \in Processes : smb[p].shm = None /\ smb[p].sem = None
                           /\ p \notin keptShm \cup keptSem
  <2>1. \A p \in Processes : smb[p] = NoObject /\ p \notin keptShm \cup keptSem
    BY DEF PointInv, NameInv
  <2>2. NoObject.shm = None /\ NoObject.sem = None
    BY DEF NoObject
  <2>3. QED
    BY <2>1, <2>2
<1>2. Linux \/ Windows
  BY DEF TypeOK, Linux, Windows
<1>3. CASE Windows
  BY <1>1, <1>3 DEF NameInv
<1>4. CASE Linux /\ ~crashed /\ Cleanup = Processes
  <2>1. \A p \in Processes : pc[p] # "unlinkShm"
    OBVIOUS
  <2>2. QED
    BY <1>1, <1>4, <2>1 DEF NameInv
<1>5. QED
  BY <1>2, <1>3, <1>4

----------------------------------------------------------------------------

\* The invariant holds at first.
LEMMA InitIInv == Init => IInv
<1> SUFFICES ASSUME Init PROVE IInv
  OBVIOUS
<1>1. TypeOK
  <2>1. NoObject \in Objects /\ Blank \in [Bytes -> Processes \cup {Nobody}]
    BY DEF NoObject, Objects, Blank
  <2>2. "off" \in Points /\ "none" \in Tasks \cup {"none"}
    BY DEF Points
  <2>3. /\ platform \in Platforms
        /\ shmname \in Memories \cup {None} /\ semname \in Semaphores \cup {None}
        /\ value \in [Semaphores -> 0 .. 1] /\ size \in [Memories -> Sizes \cup {0}]
    BY DEF Init
  <2>4. data \in [Memories -> [Bytes -> Processes \cup {Nobody}]]
    BY <2>1 DEF Init
  <2>5. /\ smb \in [Processes -> Objects]
        /\ pc \in [Processes -> Points] /\ todo \in [Processes -> Tasks \cup {"none"}]
        /\ at \in [Processes -> Nat]
    BY <2>1, <2>2 DEF Init
  <2>6. buffer \in [Processes -> [Bytes -> Processes \cup {Nobody}]]
    BY <2>1 DEF Init
  <2>7. /\ keptShm \subseteq Processes /\ keptSem \subseteq Processes
        /\ lost \subseteq Semaphores /\ mixed \subseteq Memories /\ crashed \in BOOLEAN
    BY DEF Init
  <2>8. QED
    BY <2>3, <2>4, <2>5, <2>6, <2>7 DEF TypeOK
<1>2. \A p \in Processes : smb[p] = NoObject /\ pc[p] = "off" /\ at[p] = 0
  BY DEF Init
<1>3. PointInv
  BY <1>2 DEF PointInv, Own, Mapped, Inside
<1>4. LockInv /\ PlatformInv
  BY <1>2 DEF LockInv, PlatformInv, Inside
<1>5. MixedInv
  BY <1>2 DEF MixedInv, NoObject
<1>6. NameInv
  BY DEF Init, NameInv
<1>7. Undisturbed
  BY <1>2 DEF Undisturbed
<1>8. QED
  BY <1>1, <1>3, <1>4, <1>5, <1>6, <1>7, CleanWhenOff DEF IInv

\* It is inductive.
LEMMA IInvStep == IInv /\ [Next]_vars => IInv'
<1> SUFFICES ASSUME IInv, [Next]_vars PROVE IInv'
  OBVIOUS
<1>1. CASE Next
  <2>1. PICK p \in Processes : Step(p)
    BY <1>1, NextIsStep
  <2>2. TypeOK' /\ PointInv' /\ LockInv' /\ MixedInv' /\ PlatformInv' /\ NameInv' /\ Undisturbed'
    BY <2>1, TypeStep, PointStep, LockStep, MixedStep, PlatformStep, NameStep, UndisturbedStep
  <2>3. CleanedUp'
    BY <2>2, CleanWhenOff, PTL
  <2>4. QED
    BY <2>2, <2>3 DEF IInv
<1>2. CASE UNCHANGED vars
  BY <1>2 DEF vars, kernel, process, kept, history, IInv, TypeOK, PointInv, LockInv, MixedInv,
     PlatformInv, NameInv, Undisturbed, CleanedUp, Linux, Windows
<1>3. QED
  BY <1>1, <1>2

LEMMA Invariance == Spec => []IInv
  BY InitIInv, IInvStep, PTL DEF Spec

----------------------------------------------------------------------------

\* Every variable keeps its type, for all processes, sizes and numbers of kernel objects;
\* in particular no semaphore is posted beyond 1.
THEOREM TypeCorrect == Spec => []TypeOK
  BY Invariance, PTL DEF IInv

\* Reads and writes of memory under one semaphore are atomic, whoever crashes, starts
\* again or unlinks the names (MDDSharedMemory.h, 308-313).
THEOREM AccessIsAtomic == Spec => []Undisturbed
  BY Invariance, PTL DEF IInv

\* The destructors of all processes leave neither name behind (250-278).
THEOREM NamesAreCleanedUp == Spec => []CleanedUp
  BY Invariance, PTL DEF IInv

\* Two processes at work in one memory have come to it under different semaphores.
THEOREM ExclusiveUnlessMixed ==
  Spec => [](\A p, q \in Processes :
               (/\ p # q /\ smb[p].shm = smb[q].shm
                /\ pc[p] \in {"read", "write"} /\ pc[q] \in {"read", "write"})
                 => smb[p].shm \in mixed)
<1>1. IInv => \A p, q \in Processes :
               (/\ p # q /\ smb[p].shm = smb[q].shm
                /\ pc[p] \in {"read", "write"} /\ pc[q] \in {"read", "write"})
                 => smb[p].shm \in mixed
  <2> SUFFICES ASSUME IInv, NEW p \in Processes, NEW q \in Processes, p # q,
                      smb[p].shm = smb[q].shm,
                      pc[p] \in {"read", "write"}, pc[q] \in {"read", "write"}
               PROVE  smb[p].shm \in mixed
    OBVIOUS
  <2>1. smb[p].shm # None
    BY DEF IInv, PointInv, Mapped
  <2>2. QED
    BY <2>1, OneInside DEF Inside
<1>2. QED
  BY <1>1, Invariance, PTL
=============================================================================
