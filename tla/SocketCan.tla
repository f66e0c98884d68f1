------------------------------ MODULE SocketCan ------------------------------
(***************************************************************************)
(* MDDSocketCAN.h with MDDMapIntpVoid.h: one CAN socket, used by the       *)
(* simulation thread (constructor, define, write, read, destructor) and by *)
(* MDD_socketCANRxThread, which stores every frame with a known identifier *)
(* in the slot of the map that was defined for it.                         *)
(*                                                                         *)
(* A frame is a number, in the order of arrival, with an identifier and a  *)
(* length; a byte of a slot is the number of the frame that wrote it, 0    *)
(* since calloc.  What lies behind a slot is not modelled: a frame or a    *)
(* read that is longer than its slot ends the behaviour ("behind").        *)
(***************************************************************************)
EXTENDS Integers, Sequences

CONSTANTS
  Ids,          \* CAN identifiers
  Dlcs,         \* lengths of frames, slots and reads, in bytes
  MaxFrames,    \* bound: frames that arrive in a behaviour
  QueueSize     \* bound: frames the kernel holds for the socket

ASSUME CanAssumption ==
  /\ Dlcs \subseteq Nat
  /\ MaxFrames \in Nat
  /\ QueueSize \in Nat

VARIABLES
  \* the object MDDSocketCAN: the map from identifiers to slots, its mutex
  mDDMap, mapMutex, runReceive,
  \* the kernel's queue, the number of frames that arrived
  skt, arrived,
  \* the receiving thread and its rxframe; the simulation thread and its call
  rx, rxframe, sim, call,
  \* bytes a read has copied, and what the last read returned
  copied, result,
  \* history: frames stored in the slot that is defined now
  stored

object == <<mDDMap, mapMutex, runReceive>>
world == <<skt, arrived>>
vars == <<object, world, rx, rxframe, sim, call, copied, result, stored>>

Nobody == "nobody"
Places == UNION {1 .. d : d \in Dlcs}
Blank == [k \in Places |-> 0]
Frames == [n : 1 .. MaxFrames, id : Ids, dlc : Dlcs]
Contents == [Places -> 0 .. MaxFrames]
Slots == [dlc : Dlcs, data : Contents]
Idle == [op |-> "none"]
Calls == [op : {"define", "read"}, id : Ids, dlc : Dlcs]
NoResult == [op |-> "none", bytes |-> Blank, seen |-> {}]

RxPoints == {"none", "test", "poll", "read", "lock", "store", "failed", "done"}
SimPoints == {"new", "idle", "lock", "locked", "unlock", "join", "free",
              "destroyed", "error", "behind"}

TypeOK ==
  /\ DOMAIN mDDMap \subseteq Ids
  /\ \A id \in DOMAIN mDDMap : mDDMap[id] \in Slots
  /\ mapMutex \in {Nobody, "rx", "sim"}
  /\ runReceive \in BOOLEAN
  /\ skt \in Seq(Frames)
  /\ arrived \in 0 .. MaxFrames
  /\ rx \in RxPoints
  /\ rxframe \in Frames \cup {Idle}
  /\ sim \in SimPoints
  /\ call \in Calls \cup {Idle}
  /\ copied \in Contents
  /\ result \in {NoResult}
        \cup [op : {"read"}, id : Ids, dlc : Dlcs, bytes : Contents, seen : SUBSET Frames]
  /\ stored \subseteq Frames

Init ==
  /\ mDDMap = [id \in {} |-> Blank]
  /\ mapMutex = Nobody
  /\ runReceive = FALSE
  /\ skt = <<>>
  /\ arrived = 0
  /\ rx = "none"
  /\ rxframe = Idle
  /\ sim = "new"
  /\ call = Idle
  /\ copied = Blank
  /\ result = NoResult
  /\ stored = {}

Running == sim \notin {"error", "behind"}

----------------------------------------------------------------------------
(* The CAN bus: any frame may arrive, a full queue drops it. *)

Arrive(id, dlc) ==
  /\ Running
  /\ sim \notin {"new", "destroyed"}
  /\ arrived < MaxFrames
  /\ Len(skt) < QueueSize
  /\ arrived' = arrived + 1
  /\ skt' = Append(skt, [n |-> arrived + 1, id |-> id, dlc |-> dlc])
  /\ UNCHANGED <<object, rx, rxframe, sim, call, copied, result, stored>>

----------------------------------------------------------------------------
(* MDD_socketCANRxThread *)

RxTest ==
  /\ Running /\ rx = "test"
  /\ rx' = IF runReceive THEN "poll" ELSE "done"
  /\ UNCHANGED <<object, world, rxframe, sim, call, copied, result, stored>>

\* poll waits 100 ms for a frame.
RxPoll ==
  /\ Running /\ rx = "poll"
  /\ rx' = IF skt = <<>> THEN "test" ELSE "read"
  /\ UNCHANGED <<object, world, rxframe, sim, call, copied, result, stored>>

\* The frame is read into a variable of the thread, without the mutex.
RxRead ==
  /\ Running /\ rx = "read"
  /\ skt # <<>>
  /\ rxframe' = Head(skt)
  /\ skt' = Tail(skt)
  /\ rx' = "lock"
  /\ UNCHANGED <<object, arrived, sim, call, copied, result, stored>>

\* poll or read fails, or the interface was disconnected (POLLHUP).
RxFails ==
  /\ Running /\ rx \in {"poll", "read"}
  /\ rx' = "failed"
  /\ UNCHANGED <<object, world, rxframe, sim, call, copied, result, stored>>

RxLockUnguarded ==
  /\ Running /\ rx = "lock"
  /\ mapMutex' = "rx"
  /\ rx' = "store"
  /\ UNCHANGED <<mDDMap, runReceive, world, rxframe, sim, call, copied, result, stored>>

RxLock ==
  /\ mapMutex = Nobody
  /\ RxLockUnguarded

\* MDD_mapIntpVoidCount, MDD_mapIntpVoidLookup
Known(id) == id \in DOMAIN mDDMap

\* memcpy of a frame over the bytes of a slot
Overwrite(slot, f) ==
  [slot EXCEPT !.data = [k \in Places |-> IF k <= f.dlc THEN f.n ELSE slot.data[k]]]

RxStoreUnknownStops ==
  /\ Running /\ rx = "store"
  /\ Known(rxframe.id) => rxframe.dlc <= mDDMap[rxframe.id].dlc
  /\ IF Known(rxframe.id)
     THEN /\ mDDMap' = [mDDMap EXCEPT ![rxframe.id] = Overwrite(@, rxframe)]
          /\ stored' = stored \cup {rxframe}
     ELSE UNCHANGED <<mDDMap, stored>>
  /\ mapMutex' = Nobody
  /\ rx' = IF Known(rxframe.id) THEN "test" ELSE "done"
  /\ rxframe' = Idle
  /\ UNCHANGED <<runReceive, world, sim, call, copied, result>>

\* A frame nobody defined is ignored.
RxStore ==
  /\ Running /\ rx = "store"
  /\ Known(rxframe.id) => rxframe.dlc <= mDDMap[rxframe.id].dlc
  /\ IF Known(rxframe.id)
     THEN /\ mDDMap' = [mDDMap EXCEPT ![rxframe.id] = Overwrite(@, rxframe)]
          /\ stored' = stored \cup {rxframe}
     ELSE UNCHANGED <<mDDMap, stored>>
  /\ mapMutex' = Nobody
  /\ rx' = "test"
  /\ rxframe' = Idle
  /\ UNCHANGED <<runReceive, world, sim, call, copied, result>>

\* The frame is longer than the slot.
RxStoreBehind ==
  /\ Running /\ rx = "store"
  /\ Known(rxframe.id) /\ rxframe.dlc > mDDMap[rxframe.id].dlc
  /\ sim' = "behind"
  /\ UNCHANGED <<object, world, rx, rxframe, call, copied, result, stored>>

\* ModelicaFormatError in the receiving thread ends the simulation.
RxError ==
  /\ Running /\ rx = "failed"
  /\ sim' = "error"
  /\ UNCHANGED <<object, world, rx, rxframe, call, copied, result, stored>>

Rx == RxTest \/ RxPoll \/ RxRead \/ RxLock \/ RxStore \/ RxStoreBehind \/ RxError

----------------------------------------------------------------------------
(* The simulation thread *)

\* MDD_socketCANConstructor: an empty map, and the thread.
Construct ==
  /\ sim = "new"
  /\ runReceive' = TRUE
  /\ rx' = "test"
  /\ sim' = "idle"
  /\ UNCHANGED <<mDDMap, mapMutex, world, rxframe, call, copied, result, stored>>

\* socket, ioctl, bind, mutex_init or pthread_create fails.
ConstructFails ==
  /\ sim = "new"
  /\ sim' = "error"
  /\ UNCHANGED <<object, world, rx, rxframe, call, copied, result, stored>>

\* MDD_socketCANDefineObject and MDD_socketCANReadP take the mutex.
Begin(c) ==
  /\ sim = "idle"
  /\ call' = c
  /\ result' = NoResult
  /\ sim' = "lock"
  /\ UNCHANGED <<object, world, rx, rxframe, copied, stored>>

Lock ==
  /\ sim = "lock"
  /\ mapMutex = Nobody
  /\ mapMutex' = "sim"
  /\ sim' = "locked"
  /\ UNCHANGED <<mDDMap, runReceive, world, rx, rxframe, call, copied, result, stored>>

\* MDD_mapIntpVoidInsert: a new slot, also in place of one defined before.
NewSlot == [dlc |-> call.dlc, data |-> Blank]

Define ==
  /\ sim = "locked" /\ call.op = "define"
  /\ mDDMap' = [id \in DOMAIN mDDMap \cup {call.id} |->
                  IF id = call.id THEN NewSlot ELSE mDDMap[id]]
  /\ stored' = {f \in stored : f.id # call.id}
  /\ mapMutex' = Nobody
  /\ sim' = "idle"
  /\ call' = Idle
  /\ UNCHANGED <<runReceive, world, rx, rxframe, copied, result>>

\* MDD_socketCANRead, MDD_socketCANReadP: the lookup and the copy.
Copy ==
  /\ sim = "locked" /\ call.op = "read"
  /\ Known(call.id) /\ call.dlc <= mDDMap[call.id].dlc
  /\ copied' = mDDMap[call.id].data
  /\ sim' = "unlock"
  /\ UNCHANGED <<object, world, rx, rxframe, call, result, stored>>

\* The lookup of an identifier nobody defined raises an error with the mutex held.
LookupFails ==
  /\ sim = "locked" /\ call.op = "read"
  /\ ~Known(call.id)
  /\ sim' = "error"
  /\ UNCHANGED <<object, world, rx, rxframe, call, copied, result, stored>>

\* The read is longer than the slot.
CopyBehind ==
  /\ sim = "locked" /\ call.op = "read"
  /\ Known(call.id) /\ call.dlc > mDDMap[call.id].dlc
  /\ sim' = "behind"
  /\ UNCHANGED <<object, world, rx, rxframe, call, copied, result, stored>>

Unlock ==
  /\ sim = "unlock"
  /\ mapMutex' = Nobody
  /\ result' = [op |-> "read", id |-> call.id, dlc |-> call.dlc,
                bytes |-> copied, seen |-> stored]
  /\ copied' = Blank
  /\ call' = Idle
  /\ sim' = "idle"
  /\ UNCHANGED <<mDDMap, runReceive, world, rx, rxframe, stored>>

\* write() of MDD_socketCANWrite changes nothing here unless it fails; or the packager
\* of a MDD_socketCANReadP is too small, which is an error after the mutex is released.
CallFails ==
  /\ sim = "idle"
  /\ sim' = "error"
  /\ UNCHANGED <<object, world, rx, rxframe, call, copied, result, stored>>

DestroyForgetsFlag ==
  /\ sim = "idle"
  /\ sim' = IF runReceive THEN "join" ELSE "free"
  /\ UNCHANGED <<object, world, rx, rxframe, call, copied, result, stored>>

\* MDD_socketCANDestructor
Destroy ==
  /\ sim = "idle"
  /\ runReceive' = FALSE
  /\ sim' = IF runReceive THEN "join" ELSE "free"
  /\ UNCHANGED <<mDDMap, mapMutex, world, rx, rxframe, call, copied, result, stored>>

Join ==
  /\ sim = "join"
  /\ rx = "done"
  /\ sim' = "free"
  /\ UNCHANGED <<object, world, rx, rxframe, call, copied, result, stored>>

\* mutex_destroy, close, and every slot and the map are freed.
Free ==
  /\ sim = "free"
  /\ mDDMap' = [id \in {} |-> Blank]
  /\ skt' = <<>>
  /\ stored' = {}
  /\ sim' = "destroyed"
  /\ UNCHANGED <<mapMutex, runReceive, arrived, rx, rxframe, call, copied, result>>

Ended ==
  /\ sim \in {"destroyed", "error", "behind"}
  /\ UNCHANGED vars

Within == Lock \/ Define \/ Copy \/ LookupFails \/ CopyBehind \/ Unlock \/ Join \/ Free

Next ==
  \/ \E id \in Ids, dlc \in Dlcs : Arrive(id, dlc)
  \/ Rx \/ RxFails
  \/ Construct \/ ConstructFails
  \/ \E c \in Calls : Begin(c)
  \/ Destroy
  \/ Within \/ CallFails
  \/ Ended

\* Both threads are scheduled; the bus, failures and the beginning of calls are not
\* assumed.
Spec == Init /\ [][Next]_vars /\ WF_vars(Rx) /\ WF_vars(Within)

----------------------------------------------------------------------------
(* Properties *)

\* Byte b at place k is the one of the latest frame of id that reaches k, if any.
Reaches(f, id, k) == f.id = id /\ f.dlc >= k
IsLatest(b, id, k, frames) ==
  \/ b = 0 /\ \A f \in frames : ~Reaches(f, id, k)
  \/ \E f \in frames :
       /\ f.n = b /\ Reaches(f, id, k)
       /\ \A g \in frames : Reaches(g, id, k) => g.n <= f.n

\* A read returns the payload of the latest frame of its identifier that was stored
\* since the identifier was defined, behind it what longer frames before left: no byte of
\* another identifier, none torn from two frames.  "pointer to the up-to-date payload
\* data" (265): the thread stores (352-359) and the read copies (273-276) under
\* one mutex.
ReadIsLatest ==
  result.op = "read" =>
    \A k \in 1 .. result.dlc : IsLatest(result.bytes[k], result.id, k, result.seen)

\* A define, a read and the destructor end: none waits for ever for the mutex or for the
\* receiving thread, which polls with a time-out (326).
CallsReturn == sim \in {"lock", "join"} ~> sim \in {"idle", "destroyed", "error", "behind"}

\* While the simulation is between two calls, every frame that waits is taken from the
\* socket, known or not (353-355): reads find the latest frame and not the oldest.
FramesDrained == <>[](sim = "idle" /\ runReceive) => <>[](skt = <<>> /\ rx \in {"test", "poll"})

----------------------------------------------------------------------------
(* The inductive invariant behind ReadIsLatest. *)

\* Who holds the mutex is where its control point says.
MutexInv ==
  /\ mapMutex = "rx" <=> rx = "store"
  /\ sim \in {"locked", "unlock"} => mapMutex = "sim"

\* The receiving thread and the simulation hold what their control points need.
ControlInv ==
  /\ sim = "new" => rx = "none"
  /\ sim \in {"idle", "lock", "locked", "unlock"} => runReceive
  /\ sim = "free" => rx = "done"
  /\ rx \in {"lock", "store"} => rxframe \in Frames
  /\ sim \in {"lock", "locked", "unlock"} => call \in Calls
  /\ sim = "unlock" => call.op = "read" /\ Known(call.id)
                       /\ copied = mDDMap[call.id].data

\* Frames are stored in the order of arrival.
OrderInv ==
  /\ \A i \in 1 .. Len(skt) : skt[i].n = arrived - Len(skt) + i
  /\ \A f \in stored : f.n <= arrived - Len(skt)
  /\ rx \in {"lock", "store"} => rxframe.n = arrived - Len(skt) /\ \A f \in stored : f.n < rxframe.n

\* Every slot holds the latest frame of its identifier.
SlotInv ==
  /\ \A f \in stored : f.id \in DOMAIN mDDMap
  /\ \A id \in DOMAIN mDDMap : \A k \in Places : IsLatest(mDDMap[id].data[k], id, k, stored)

IInv == TypeOK /\ MutexInv /\ ControlInv /\ OrderInv /\ SlotInv /\ ReadIsLatest
=============================================================================
