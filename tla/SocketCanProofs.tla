--------------------------- MODULE SocketCanProofs ---------------------------
(***************************************************************************)
(* For every set of identifiers and of lengths and any number of frames:   *)
(* a read of a CAN frame returns the latest payload of its identifier.     *)
(***************************************************************************)
EXTENDS SocketCan, TLAPS

USE CanAssumption DEF RxPoints, SimPoints, Nobody, Running

\* A byte of a slot has a positive number, and every byte of a frame or read has a place.
LEMMA PlacesOf ==
  /\ Places \subseteq Nat
  /\ \A d \in Dlcs : 1 .. d \subseteq Places
  BY DEF Places

\* Frames have the types of their fields.
LEMMA FrameType ==
  ASSUME NEW f \in Frames
  PROVE  f.n \in 1 .. MaxFrames /\ f.id \in Ids /\ f.dlc \in Dlcs /\ f.dlc \in Nat
  BY DEF Frames

\* A frame is written over a slot: the slot keeps its type and its length.
LEMMA OverwriteType ==
  ASSUME NEW slot \in Slots, NEW f \in Frames
  PROVE  /\ Overwrite(slot, f) \in Slots
         /\ Overwrite(slot, f).dlc = slot.dlc
         /\ \A k \in Places : Overwrite(slot, f).data[k] =
                                IF k <= f.dlc THEN f.n ELSE slot.data[k]
<1>1. slot.dlc \in Dlcs /\ slot.data \in Contents
  BY DEF Slots
<1> DEFINE d == [k \in Places |-> IF k <= f.dlc THEN f.n ELSE slot.data[k]]
<1>2. d \in Contents
  BY <1>1, FrameType DEF Contents
<1>3. Overwrite(slot, f) = [dlc |-> slot.dlc, data |-> d]
  BY DEF Overwrite, Slots
<1>4. \A k \in Places : d[k] = IF k <= f.dlc THEN f.n ELSE slot.data[k]
  OBVIOUS
<1> HIDE DEF d
<1>5. QED
  BY <1>1, <1>2, <1>3, <1>4 DEF Slots

\* A frame of an identifier comes later than all others that were stored: it is the latest
\* as far as it reaches, and behind that the latest is who it was.
LEMMA LatestAfterStore ==
  ASSUME NEW frames, NEW f \in Frames, frames \subseteq Frames,
         \A g \in frames : g.n < f.n,
         NEW id, NEW k \in Places, NEW b, IsLatest(b, id, k, frames)
  PROVE  /\ (f.id = id /\ k <= f.dlc) => IsLatest(f.n, id, k, frames \cup {f})
         /\ ~(f.id = id /\ k <= f.dlc) => IsLatest(b, id, k, frames \cup {f})
<1>1. k \in Nat /\ f.n \in Nat /\ f.dlc \in Nat
  BY PlacesOf, FrameType
<1>2. \A g \in frames : g.n \in Nat /\ g.n <= f.n
  BY <1>1, FrameType
<1>3. ASSUME f.id = id, k <= f.dlc PROVE IsLatest(f.n, id, k, frames \cup {f})
  BY <1>1, <1>2, <1>3 DEF IsLatest, Reaches
<1>4. ASSUME ~(f.id = id /\ k <= f.dlc) PROVE IsLatest(b, id, k, frames \cup {f})
  <2>1. ~Reaches(f, id, k)
    BY <1>1, <1>4 DEF Reaches
  <2>2. QED
    BY <2>1 DEF IsLatest
<1>5. QED
  BY <1>3, <1>4

\* What is left when the frames of one identifier are forgotten has the latest frames of
\* every other.
LEMMA LatestOfOthers ==
  ASSUME NEW frames, NEW id, NEW other, id # other, NEW k, NEW b, IsLatest(b, id, k, frames)
  PROVE  IsLatest(b, id, k, {f \in frames : f.id # other})
  BY DEF IsLatest, Reaches

----------------------------------------------------------------------------
(* Types *)

\* Every step keeps the types.
LEMMA TypeStep == TypeOK /\ ControlInv /\ [Next]_vars => TypeOK'
<1> SUFFICES ASSUME TypeOK, ControlInv, [Next]_vars PROVE TypeOK'
  OBVIOUS
<1> USE DEF TypeOK, object, world
<1>1. ASSUME NEW id \in Ids, NEW dlc \in Dlcs, Arrive(id, dlc) PROVE TypeOK'
  <2>1. [n |-> arrived + 1, id |-> id, dlc |-> dlc] \in Frames
    BY <1>1 DEF Arrive, Frames
  <2>2. skt' \in Seq(Frames) /\ arrived' \in 0 .. MaxFrames
    BY <1>1, <2>1 DEF Arrive
  <2>3. QED
    BY <1>1, <2>2 DEF Arrive
<1>2. CASE RxTest
  BY <1>2 DEF RxTest
<1>3. CASE RxPoll
  BY <1>3 DEF RxPoll
<1>4. CASE RxRead
  <2>1. Head(skt) \in Frames /\ Tail(skt) \in Seq(Frames)
    BY <1>4 DEF RxRead
  <2>2. QED
    BY <1>4, <2>1 DEF RxRead
<1>5. CASE RxFails
  BY <1>5 DEF RxFails
<1>6. CASE RxLock
  BY <1>6 DEF RxLock, RxLockUnguarded
<1>7. CASE RxStore
  <2>1. rxframe \in Frames
    BY <1>7 DEF RxStore, ControlInv
  <2>2. /\ DOMAIN mDDMap' \subseteq Ids
        /\ \A id \in DOMAIN mDDMap' : mDDMap'[id] \in Slots
        /\ stored' \subseteq Frames
    <3>1. CASE Known(rxframe.id)
      <4>1. mDDMap' = [mDDMap EXCEPT ![rxframe.id] = Overwrite(mDDMap[rxframe.id], rxframe)]
        BY <1>7, <3>1 DEF RxStore
      <4>2. Overwrite(mDDMap[rxframe.id], rxframe) \in Slots
        BY <2>1, <3>1, OverwriteType DEF Known
      <4>3. QED
        BY <1>7, <2>1, <3>1, <4>1, <4>2 DEF RxStore, Known
    <3>2. CASE ~Known(rxframe.id)
      BY <1>7, <3>2 DEF RxStore
    <3>3. QED
      BY <3>1, <3>2
  <2>3. QED
    BY <1>7, <2>2 DEF RxStore
<1>8. CASE RxStoreBehind
  BY <1>8 DEF RxStoreBehind
<1>9. CASE RxError
  BY <1>9 DEF RxError
<1>10. CASE Construct
  BY <1>10 DEF Construct
<1>11. CASE ConstructFails
  BY <1>11 DEF ConstructFails
<1>12. ASSUME NEW c \in Calls, Begin(c) PROVE TypeOK'
  BY <1>12 DEF Begin
<1>13. CASE Lock
  BY <1>13 DEF Lock
<1>14. CASE Define
  <2>1. call.id \in Ids /\ call.dlc \in Dlcs
    BY <1>14 DEF Define, ControlInv, Calls
  <2>2. NewSlot \in Slots
    BY <2>1 DEF NewSlot, Slots, Blank, Contents
  <2>3. /\ DOMAIN mDDMap' \subseteq Ids
        /\ \A id \in DOMAIN mDDMap' : mDDMap'[id] \in Slots
        /\ stored' \subseteq Frames
    BY <1>14, <2>1, <2>2 DEF Define
  <2>4. QED
    BY <1>14, <2>3 DEF Define
<1>15. CASE Copy
  <2>1. mDDMap[call.id].data \in Contents
    BY <1>15 DEF Copy, Known, Slots
  <2>2. QED
    BY <1>15, <2>1 DEF Copy
<1>16. CASE LookupFails
  BY <1>16 DEF LookupFails
<1>17. CASE CopyBehind
  BY <1>17 DEF CopyBehind
<1>18. CASE Unlock
  <2>1. call \in Calls
    BY <1>18 DEF Unlock, ControlInv
  <2>2. Blank \in Contents
    BY DEF Blank, Contents
  <2>3. result' \in [op : {"read"}, id : Ids, dlc : Dlcs, bytes : Contents, seen : SUBSET Frames]
    BY <1>18, <2>1 DEF Unlock, Calls
  <2>4. QED
    BY <1>18, <2>2, <2>3 DEF Unlock
<1>19. CASE CallFails
  BY <1>19 DEF CallFails
<1>20. CASE Destroy
  BY <1>20 DEF Destroy
<1>21. CASE Join
  BY <1>21 DEF Join
<1>22. CASE Free
  BY <1>22 DEF Free
<1>23. CASE UNCHANGED vars
  BY <1>23 DEF vars
<1>24. QED
  BY <1>1, <1>2, <1>3, <1>4, <1>5, <1>6, <1>7, <1>8, <1>9, <1>10, <1>11, <1>12, <1>13, <1>14,
     <1>15, <1>16, <1>17, <1>18, <1>19, <1>20, <1>21, <1>22, <1>23
     DEF Next, Rx, Within, Ended

----------------------------------------------------------------------------
(* The inductive invariant *)

\* Every step keeps the mutex with who holds it, and control where it says.
LEMMA ControlStep ==
  TypeOK /\ MutexInv /\ ControlInv /\ [Next]_vars => MutexInv' /\ ControlInv'
<1> SUFFICES ASSUME TypeOK, MutexInv, ControlInv, [Next]_vars PROVE MutexInv' /\ ControlInv'
  OBVIOUS
<1> USE DEF MutexInv, ControlInv, object, world
<1>1. ASSUME NEW id \in Ids, NEW dlc \in Dlcs, Arrive(id, dlc) PROVE MutexInv' /\ ControlInv'
  BY <1>1 DEF Arrive, Known
<1>2. CASE RxTest
  BY <1>2 DEF RxTest, Known
<1>3. CASE RxPoll
  BY <1>3 DEF RxPoll, Known
<1>4. CASE RxRead
  <2>1. Head(skt) \in Frames
    BY <1>4 DEF RxRead, TypeOK
  <2>2. QED
    BY <1>4, <2>1 DEF RxRead, Known
<1>5. CASE RxFails
  BY <1>5 DEF RxFails, Known
<1>6. CASE RxLock
  BY <1>6 DEF RxLock, RxLockUnguarded, Known
<1>7. CASE RxStore
  <2>1. sim \notin {"locked", "unlock"}
    BY <1>7 DEF RxStore
  <2>2. QED
    BY <1>7, <2>1 DEF RxStore
<1>8. CASE RxStoreBehind
  BY <1>8 DEF RxStoreBehind, Known
<1>9. CASE RxError
  BY <1>9 DEF RxError, Known
<1>10. CASE Construct
  BY <1>10 DEF Construct
<1>11. CASE ConstructFails
  BY <1>11 DEF ConstructFails
<1>12. ASSUME NEW c \in Calls, Begin(c) PROVE MutexInv' /\ ControlInv'
  BY <1>12 DEF Begin
<1>13. CASE Lock
  BY <1>13 DEF Lock
<1>14. CASE Define
  BY <1>14 DEF Define
<1>15. CASE Copy
  BY <1>15 DEF Copy, Known
<1>16. CASE LookupFails
  BY <1>16 DEF LookupFails
<1>17. CASE CopyBehind
  BY <1>17 DEF CopyBehind
<1>18. CASE Unlock
  BY <1>18 DEF Unlock
<1>19. CASE CallFails
  BY <1>19 DEF CallFails
<1>20. CASE Destroy
  BY <1>20 DEF Destroy
<1>21. CASE Join
  BY <1>21 DEF Join
<1>22. CASE Free
  BY <1>22 DEF Free
<1>23. CASE UNCHANGED vars
  BY <1>23 DEF vars, Known
<1>24. QED
  BY <1>1, <1>2, <1>3, <1>4, <1>5, <1>6, <1>7, <1>8, <1>9, <1>10, <1>11, <1>12, <1>13, <1>14,
     <1>15, <1>16, <1>17, <1>18, <1>19, <1>20, <1>21, <1>22, <1>23
     DEF Next, Rx, Within, Ended

\* Every step keeps the frames in the order of arrival.
LEMMA OrderStep ==
  TypeOK /\ ControlInv /\ OrderInv /\ [Next]_vars => OrderInv'
<1> SUFFICES ASSUME TypeOK, ControlInv, OrderInv, [Next]_vars PROVE OrderInv'
  OBVIOUS
<1> USE DEF OrderInv, object, world
<1>0. /\ Len(skt) \in Nat /\ arrived \in Nat
      /\ \A f \in stored : f.n \in Nat
  BY FrameType DEF TypeOK
<1>1. ASSUME NEW id \in Ids, NEW dlc \in Dlcs, Arrive(id, dlc) PROVE OrderInv'
  <2>1. Len(skt') = Len(skt) + 1 /\ arrived' = arrived + 1
    BY <1>1 DEF Arrive, TypeOK
  <2>2. \A i \in 1 .. Len(skt') : skt'[i] =
          IF i <= Len(skt) THEN skt[i] ELSE [n |-> arrived + 1, id |-> id, dlc |-> dlc]
    BY <1>0, <1>1 DEF Arrive, TypeOK
  <2>3. ASSUME NEW i \in 1 .. Len(skt') PROVE skt'[i].n = arrived' - Len(skt') + i
    <3>1. CASE i <= Len(skt)
      <4>1. skt'[i] = skt[i] /\ i \in 1 .. Len(skt)
        BY <1>0, <2>1, <2>2, <3>1
      <4>2. skt[i].n = arrived - Len(skt) + i
        BY <4>1
      <4>3. QED
        BY <1>0, <2>1, <4>1, <4>2
    <3>2. CASE i > Len(skt)
      <4>1. skt'[i].n = arrived + 1 /\ i = Len(skt) + 1
        BY <1>0, <2>1, <2>2, <3>2
      <4>2. QED
        BY <1>0, <2>1, <4>1
    <3>3. QED
      BY <1>0, <2>1, <3>1, <3>2
  <2>4. arrived' - Len(skt') = arrived - Len(skt)
    BY <1>0, <2>1
  <2>5. QED
    BY <1>1, <2>3, <2>4 DEF Arrive
<1>2. CASE RxTest
  BY <1>2 DEF RxTest
<1>3. CASE RxPoll
  BY <1>3 DEF RxPoll
<1>4. CASE RxRead
  <2>1. skt # <<>> /\ Len(skt') = Len(skt) - 1 /\ arrived' = arrived /\ Len(skt) > 0
    BY <1>4 DEF RxRead, TypeOK
  <2>2. \A i \in 1 .. Len(skt') : skt'[i] = skt[i + 1]
    BY <1>4 DEF RxRead, TypeOK
  <2>3. rxframe' = skt[1]
    BY <1>4 DEF RxRead, TypeOK
  <2>4. rxframe'.n = arrived' - Len(skt')
    BY <1>0, <2>1, <2>3
  <2>5. ASSUME NEW i \in 1 .. Len(skt') PROVE skt'[i].n = arrived' - Len(skt') + i
    <3>1. skt'[i] = skt[i + 1] /\ i + 1 \in 1 .. Len(skt)
      BY <1>0, <2>1, <2>2
    <3>2. skt[i + 1].n = arrived - Len(skt) + (i + 1)
      BY <3>1
    <3>3. QED
      BY <1>0, <2>1, <3>1, <3>2
  <2>6. \A f \in stored : f.n <= arrived' - Len(skt') /\ f.n < rxframe'.n
    BY <1>0, <2>1, <2>4
  <2>7. stored' = stored
    BY <1>4 DEF RxRead
  <2>8. QED
    BY <2>4, <2>5, <2>6, <2>7
<1>5. CASE RxFails
  BY <1>5 DEF RxFails
<1>6. CASE RxLock
  BY <1>6 DEF RxLock, RxLockUnguarded
<1>7. CASE RxStore
  <2>1. rxframe.n = arrived - Len(skt) /\ rxframe.n \in Nat
    BY <1>0, <1>7, FrameType DEF RxStore, ControlInv
  <2>2. stored' \subseteq stored \cup {rxframe}
    BY <1>7 DEF RxStore
  <2>3. skt' = skt /\ arrived' = arrived /\ rx' = "test"
    BY <1>7 DEF RxStore
  <2>4. \A f \in stored' : f.n <= arrived - Len(skt)
    BY <2>1, <2>2
  <2>5. QED
    BY <2>3, <2>4
<1>8. CASE RxStoreBehind
  BY <1>8 DEF RxStoreBehind
<1>9. CASE RxError
  BY <1>9 DEF RxError
<1>10. CASE Construct
  BY <1>10 DEF Construct
<1>11. CASE ConstructFails
  BY <1>11 DEF ConstructFails
<1>12. ASSUME NEW c \in Calls, Begin(c) PROVE OrderInv'
  BY <1>12 DEF Begin
<1>13. CASE Lock
  BY <1>13 DEF Lock
<1>14. CASE Define
  <2>1. stored' \subseteq stored
    BY <1>14 DEF Define
  <2>2. QED
    BY <1>14, <2>1 DEF Define
<1>15. CASE Copy
  BY <1>15 DEF Copy
<1>16. CASE LookupFails
  BY <1>16 DEF LookupFails
<1>17. CASE CopyBehind
  BY <1>17 DEF CopyBehind
<1>18. CASE Unlock
  BY <1>18 DEF Unlock
<1>19. CASE CallFails
  BY <1>19 DEF CallFails
<1>20. CASE Destroy
  BY <1>20 DEF Destroy
<1>21. CASE Join
  BY <1>21 DEF Join
<1>22. CASE Free
  <2>1. skt' = <<>> /\ stored' = {} /\ rx' = "done"
    BY <1>22 DEF Free, ControlInv
  <2>2. QED
    BY <2>1
<1>23. CASE UNCHANGED vars
  BY <1>23 DEF vars
<1>24. QED
  BY <1>1, <1>2, <1>3, <1>4, <1>5, <1>6, <1>7, <1>8, <1>9, <1>10, <1>11, <1>12, <1>13, <1>14,
     <1>15, <1>16, <1>17, <1>18, <1>19, <1>20, <1>21, <1>22, <1>23
     DEF Next, Rx, Within, Ended

\* Every step leaves every slot with the latest frame of its identifier: only a frame that
\* is stored, a definition and the destructor change a slot.
LEMMA SlotStep ==
  TypeOK /\ ControlInv /\ OrderInv /\ SlotInv /\ [Next]_vars => SlotInv'
<1> SUFFICES ASSUME TypeOK, ControlInv, OrderInv, SlotInv, [Next]_vars PROVE SlotInv'
  OBVIOUS
<1>1. CASE RxStore
  <2>1. rxframe \in Frames /\ \A f \in stored : f.n < rxframe.n
    BY <1>1 DEF RxStore, ControlInv, OrderInv
  <2>2. CASE Known(rxframe.id)
    <3>1. mDDMap' = [mDDMap EXCEPT ![rxframe.id] = Overwrite(mDDMap[rxframe.id], rxframe)]
      BY <1>1, <2>2 DEF RxStore
    <3>2. stored' = stored \cup {rxframe} /\ DOMAIN mDDMap' = DOMAIN mDDMap
      BY <1>1, <2>2, <3>1 DEF RxStore
    <3>3. mDDMap[rxframe.id] \in Slots /\ stored \subseteq Frames
      BY <2>2 DEF Known, TypeOK
    <3>4. ASSUME NEW id \in DOMAIN mDDMap, NEW k \in Places
          PROVE  IsLatest(mDDMap'[id].data[k], id, k, stored')
      <4>1. IsLatest(mDDMap[id].data[k], id, k, stored)
        BY DEF SlotInv
      <4>2. CASE id = rxframe.id
        <5>1. mDDMap'[id].data[k] = IF k <= rxframe.dlc THEN rxframe.n ELSE mDDMap[id].data[k]
          BY <2>1, <3>1, <3>3, <4>2, OverwriteType
        <5>2. QED
          BY <2>1, <3>2, <3>3, <4>1, <4>2, <5>1, LatestAfterStore
      <4>3. CASE id # rxframe.id
        <5>1. mDDMap'[id] = mDDMap[id]
          BY <3>1, <4>3
        <5>2. QED
          BY <2>1, <3>2, <3>3, <4>1, <4>3, <5>1, LatestAfterStore
      <4>4. QED
        BY <4>2, <4>3
    <3>5. QED
      BY <2>2, <3>2, <3>4 DEF SlotInv, Known
  <2>3. CASE ~Known(rxframe.id)
    BY <1>1, <2>3 DEF RxStore, SlotInv
  <2>4. QED
    BY <2>2, <2>3
<1>2. CASE Define
  <2>1. \A f \in stored' : f \in stored /\ f.id # call.id
    BY <1>2 DEF Define
  <2>2. DOMAIN mDDMap' = DOMAIN mDDMap \cup {call.id}
    BY <1>2 DEF Define
  <2>3. ASSUME NEW id \in DOMAIN mDDMap', NEW k \in Places
        PROVE  IsLatest(mDDMap'[id].data[k], id, k, stored')
    <3>1. CASE id = call.id
      <4>1. mDDMap'[id].data[k] = 0
        BY <1>2, <2>2, <3>1 DEF Define, NewSlot, Blank
      <4>2. QED
        BY <2>1, <3>1, <4>1 DEF IsLatest, Reaches
    <3>2. CASE id # call.id
      <4>1. mDDMap'[id] = mDDMap[id] /\ id \in DOMAIN mDDMap
        BY <1>2, <2>2, <3>2 DEF Define
      <4>2. IsLatest(mDDMap[id].data[k], id, k, stored)
        BY <4>1 DEF SlotInv
      <4>3. stored' = {f \in stored : f.id # call.id}
        BY <1>2 DEF Define
      <4>4. IsLatest(mDDMap[id].data[k], id, k, {f \in stored : f.id # call.id})
        BY <3>2, <4>2, LatestOfOthers
      <4>5. QED
        BY <4>1, <4>3, <4>4
    <3>3. QED
      BY <3>1, <3>2
  <2>4. \A f \in stored' : f.id \in DOMAIN mDDMap'
    BY <2>1, <2>2 DEF SlotInv
  <2>5. QED
    BY <2>3, <2>4 DEF SlotInv
<1>3. CASE Free
  BY <1>3 DEF Free, SlotInv
<1>4. CASE UNCHANGED <<mDDMap, stored>>
  BY <1>4 DEF SlotInv
<1>5. QED
  BY <1>1, <1>2, <1>3, <1>4
     DEF Next, Rx, Within, Ended, vars, object, world, Arrive, RxTest, RxPoll, RxRead, RxFails,
         RxLock, RxLockUnguarded, RxStoreBehind, RxError, Construct, ConstructFails, Begin, Lock,
         Copy, LookupFails, CopyBehind, Unlock, CallFails, Destroy, Join

\* A result is made by Unlock, from a slot that holds the latest frame.
LEMMA ReadStep ==
  TypeOK /\ ControlInv /\ SlotInv /\ ReadIsLatest /\ [Next]_vars => ReadIsLatest'
<1> SUFFICES ASSUME TypeOK, ControlInv, SlotInv, ReadIsLatest, [Next]_vars PROVE ReadIsLatest'
  OBVIOUS
<1>1. CASE Unlock
  <2>1. call.op = "read" /\ call.id \in DOMAIN mDDMap /\ copied = mDDMap[call.id].data
    BY <1>1 DEF Unlock, ControlInv, Known
  <2>2. 1 .. call.dlc \subseteq Places
    BY <1>1, PlacesOf DEF Unlock, ControlInv, Calls
  <2>3. \A k \in 1 .. call.dlc : IsLatest(copied[k], call.id, k, stored)
    BY <2>1, <2>2 DEF SlotInv
  <2>4. result' = [op |-> "read", id |-> call.id, dlc |-> call.dlc, bytes |-> copied, seen |-> stored]
    BY <1>1 DEF Unlock
  <2>5. QED
    BY <2>3, <2>4 DEF ReadIsLatest
<1>2. CASE result' = result
  BY <1>2 DEF ReadIsLatest
<1>3. CASE result' = NoResult
  BY <1>3 DEF ReadIsLatest, NoResult
<1>4. QED
  BY <1>1, <1>2, <1>3
     DEF Next, Rx, Within, Ended, vars, object, world, Arrive, RxTest, RxPoll, RxRead, RxFails,
         RxLock, RxLockUnguarded, RxStore, RxStoreBehind, RxError, Construct, ConstructFails, Begin,
         Lock, Define, Copy, LookupFails, CopyBehind, CallFails, Destroy, Join, Free

\* The driver begins with an empty map and no thread.
LEMMA InitIInv == Init => IInv
<1> SUFFICES ASSUME Init PROVE IInv
  OBVIOUS
<1> USE DEF Init
<1>1. TypeOK
  <2>1. Blank \in Contents
    BY DEF Blank, Contents
  <2>2. /\ DOMAIN mDDMap \subseteq Ids
        /\ \A id \in DOMAIN mDDMap : mDDMap[id] \in Slots
    OBVIOUS
  <2>3. skt \in Seq(Frames)
    OBVIOUS
  <2>4. arrived \in 0 .. MaxFrames
    BY CanAssumption
  <2>5. /\ mapMutex \in {Nobody, "rx", "sim"}
        /\ runReceive \in BOOLEAN
        /\ rx \in RxPoints
        /\ sim \in SimPoints
    BY DEF RxPoints, SimPoints
  <2>6. rxframe \in Frames \cup {Idle} /\ call \in Calls \cup {Idle}
    OBVIOUS
  <2>7. /\ copied \in Contents
        /\ result \in {NoResult}
              \cup [op : {"read"}, id : Ids, dlc : Dlcs, bytes : Contents, seen : SUBSET Frames]
        /\ stored \subseteq Frames
    BY <2>1
  <2>8. QED
    BY <2>2, <2>3, <2>4, <2>5, <2>6, <2>7 DEF TypeOK
<1>2. MutexInv /\ ControlInv /\ OrderInv /\ SlotInv
  BY DEF MutexInv, ControlInv, OrderInv, SlotInv
<1>3. ReadIsLatest
  BY DEF ReadIsLatest, NoResult
<1>4. QED
  BY <1>1, <1>2, <1>3 DEF IInv

\* The invariant is inductive.
LEMMA IInvStep == IInv /\ [Next]_vars => IInv'
  BY TypeStep, ControlStep, OrderStep, SlotStep, ReadStep DEF IInv

\* It holds throughout.
LEMMA Invariance == Spec => []IInv
  BY InitIInv, IInvStep, PTL DEF Spec

----------------------------------------------------------------------------

\* Every variable keeps its type, for all identifiers, lengths and numbers of frames.
THEOREM TypeCorrect == Spec => []TypeOK
  BY Invariance, PTL DEF IInv

\* A read returns the payload of the latest frame of its identifier that was stored since
\* the identifier was defined, untorn, however many frames arrive and whenever
\* (MDDSocketCAN.h, 265-305, 352-359).
THEOREM ReadsAreLatest == Spec => []ReadIsLatest
  BY Invariance, PTL DEF IInv

\* The thread and the calls never hold the mutex at once (207-214, 298-305, 352-361).
THEOREM MutualExclusion == Spec => [](~(rx = "store" /\ sim \in {"locked", "unlock"}))
<1>1. IInv => ~(rx = "store" /\ sim \in {"locked", "unlock"})
  BY DEF IInv, MutexInv
<1>2. QED
  BY <1>1, Invariance, PTL
=============================================================================
