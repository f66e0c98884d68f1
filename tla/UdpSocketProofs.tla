--------------------------- MODULE UdpSocketProofs ---------------------------
(***************************************************************************)
(* For every size of the buffer, every number of datagrams and every set   *)
(* of peers: a read returns the latest datagram undamaged, every datagram  *)
(* lost is counted, and the destructor frees nothing that is in use.       *)
(***************************************************************************)
EXTENDS UdpSocket, TLAPS

USE UdpAssumption DEF RxPoints, SimPoints, Calls, Nobody, Running

\* The queue of the kernel starts empty, and Free empties it.
LEMMA EmptyQueue == <<>> \in Seq(Datagrams)
  OBVIOUS

\* Receiving a datagram keeps the types of what recvfrom writes.
LEMMA ReceiveType ==
  ASSUME TypeOK, messageMutex' \in {Nobody, "rx", "sim"},
         NEW d \in Datagrams, Receive(d),
         Tail(kernelQueue) \in Seq(Datagrams),
         UNCHANGED <<useReceiveThread, nRecvbufOverwrites, runReceive, delivered>>
  PROVE  ObjectType' /\ HistoryType' /\ kernelQueue' \in Seq(Datagrams)
<1>1. d.id \in 1 .. MaxDatagrams /\ d.len \in Nat /\ d.from \in Peers
  BY DEF Datagrams
<1>2. DEFINE n == IF d.len > MessageLength THEN MessageLength ELSE d.len
<1>3. n \in 0 .. MessageLength
  BY <1>1
<1>4. /\ nReceivedBytes' = n
      /\ msgInternal' = [i \in Bytes |-> IF i <= n THEN d.id ELSE msgInternal[i]]
      /\ sa' = d.from
      /\ latest' = IF n > 0 THEN d.id ELSE latest
      /\ received' = IF n > 0 THEN received + 1 ELSE received
  BY DEF Receive
<1> HIDE DEF n
<1>5. msgInternal' \in [Bytes -> 0 .. MaxDatagrams]
  BY <1>1, <1>4 DEF TypeOK, ObjectType
<1>6. ObjectType'
  BY <1>1, <1>3, <1>4, <1>5 DEF TypeOK, ObjectType
<1>7. HistoryType'
  BY <1>1, <1>3, <1>4 DEF TypeOK, HistoryType
<1>8. QED
  BY <1>6, <1>7 DEF Receive

\* Every step keeps the types.
LEMMA TypeStep == TypeOK /\ [Next]_vars => TypeOK'
<1> SUFFICES ASSUME TypeOK, [Next]_vars PROVE TypeOK'
  OBVIOUS
<1> USE DEF TypeOK, ObjectType, WorldType, ControlType, ResultType, HistoryType,
            object, world, history
<1>1. ASSUME NEW len \in 0 .. MessageLength + 1, NEW from \in Peers,
             Arrive(len, from)
      PROVE  TypeOK'
  <2>1. kernelQueue' \in Seq(Datagrams)
    <3>1. [id |-> arrived + 1, len |-> len, from |-> from] \in Datagrams
      BY <1>1 DEF Arrive, Datagrams
    <3>2. QED
      BY <1>1, <3>1 DEF Arrive
  <2>2. arrived' \in 0 .. MaxDatagrams
    BY <1>1 DEF Arrive
  <2>3. QED
    BY <1>1, <2>1, <2>2 DEF Arrive
<1>2. CASE RxTest
  BY <1>2 DEF RxTest
<1>3. CASE RxPoll
  BY <1>3 DEF RxPoll
<1>4. CASE RxLock
  BY <1>4 DEF RxLock, RxLockUnguarded
<1>5. CASE RxCount
  BY <1>5 DEF RxCount
<1>6. CASE RxRecv
  <2>1. Head(kernelQueue) \in Datagrams /\ Tail(kernelQueue) \in Seq(Datagrams)
    BY <1>6 DEF RxRecv
  <2>2. ObjectType' /\ HistoryType' /\ kernelQueue' \in Seq(Datagrams)
    BY <1>6, <2>1, ReceiveType DEF RxRecv
  <2>3. QED
    BY <1>6, <2>2 DEF RxRecv
<1>7. CASE RxError
  BY <1>7 DEF RxError
<1>8. CASE RxPollFails
  BY <1>8 DEF RxPollFails
<1>9. CASE RxRecvFails
  BY <1>9 DEF RxRecvFails
<1>10. ASSUME NEW port \in {0, 1}, NEW threaded \in BOOLEAN,
             Construct(port, threaded)
      PROVE  TypeOK'
  BY <1>10 DEF Construct
<1>11. CASE ConstructFails
  BY <1>11 DEF ConstructFails
<1>12. ASSUME NEW c \in Calls \ {"none"},
             Begin(c)
      PROVE  TypeOK'
  BY <1>12 DEF Begin
<1>13. ASSUME NEW to \in Peers,
             Send(to)
      PROVE  TypeOK'
  BY <1>13 DEF Send
<1>14. CASE Destroy
  <2>1. ObjectType'
    BY <1>14 DEF Destroy
  <2>2. sim' \in SimPoints
    BY <1>14 DEF Destroy
  <2>3. QED
    BY <1>14, <2>1, <2>2 DEF Destroy
<1>15. CASE BlockingReceive
  <2>1. Head(kernelQueue) \in Datagrams /\ Tail(kernelQueue) \in Seq(Datagrams)
    BY <1>15 DEF BlockingReceive
  <2>2. ObjectType' /\ HistoryType' /\ kernelQueue' \in Seq(Datagrams)
    BY <1>15, <2>1, ReceiveType DEF BlockingReceive
  <2>3. QED
    BY <1>15, <2>2 DEF BlockingReceive
<1>16. CASE Lock
  BY <1>16 DEF Lock
<1>17. CASE Copy
  BY <1>17 DEF Copy, Fits
<1>18. CASE Take
  <2>1. ObjectType' /\ HistoryType'
    BY <1>18 DEF Take
  <2>2. Report \in [n : -1 .. MessageLength, id : 0 .. MaxDatagrams, lost : Nat,
                   bytes : [Bytes -> 0 .. MaxDatagrams]]
    BY DEF Report
  <2>3. ResultType'
    BY <1>18, <2>2 DEF Take
  <2>4. QED
    BY <1>18, <2>1, <2>3 DEF Take
<1>19. CASE SendTo
  BY <1>19 DEF SendTo
<1>20. CASE Join
  BY <1>20 DEF Join
<1>21. CASE Free
  <2>1. kernelQueue' \in Seq(Datagrams) /\ listening' \in BOOLEAN
    BY <1>21, EmptyQueue DEF Free
  <2>2. QED
    BY <1>21, <2>1 DEF Free
<1>22. CASE BlockingReceiveFails
  BY <1>22 DEF BlockingReceiveFails
<1>23. CASE SendFails
  BY <1>23 DEF SendFails
<1>24. CASE Ended
  BY <1>24 DEF Ended, vars
<1>25. CASE UNCHANGED vars
  BY <1>25 DEF vars
<1>26. QED
  BY <1>1, <1>2, <1>3, <1>4, <1>5, <1>6, <1>7, <1>8, <1>9, <1>10, <1>11, <1>12, <1>13,
     <1>14, <1>15, <1>16, <1>17, <1>18, <1>19, <1>20, <1>21, <1>22, <1>23, <1>24,
     <1>25
  DEF Next, Rx, Within

\* The types hold before the constructor.
LEMMA TypeInit == Init => TypeOK
<1> SUFFICES ASSUME Init PROVE TypeOK
  OBVIOUS
<1> DEFINE zeroes == [i \in Bytes |-> 0]
<1>z. zeroes \in [Bytes -> 0 .. MaxDatagrams]
  OBVIOUS
<1>i. msgInternal = zeroes /\ package = zeroes
  BY DEF Init
<1> HIDE DEF zeroes
<1>b. useReceiveThread \in BOOLEAN /\ runReceive \in BOOLEAN /\ listening \in BOOLEAN
  BY DEF Init
<1>n. /\ nReceivedBytes \in -1 .. MessageLength /\ nRecvbufOverwrites \in Nat
      /\ arrived \in 0 .. MaxDatagrams
  BY DEF Init
<1>m. messageMutex \in {Nobody, "rx", "sim"} /\ sa \in Peers \cup {Nobody}
  BY DEF Init
<1>1. ObjectType
  BY <1>z, <1>i, <1>b, <1>n, <1>m DEF ObjectType
<1>2. kernelQueue \in Seq(Datagrams) /\ packageSize \in PackageSizes
  BY EmptyQueue DEF Init
<1>5. WorldType
  BY <1>z, <1>i, <1>b, <1>n, <1>2 DEF WorldType
<1>3. ControlType /\ HistoryType
  BY DEF Init, ControlType, HistoryType
<1>4. ResultType
  BY DEF Init, ResultType
<1>6. QED
  BY <1>1, <1>3, <1>4, <1>5 DEF TypeOK

\* Every variable of the driver keeps its type, whatever the number and length of
\* the datagrams and the size of the buffer.
THEOREM TypeCorrect == Spec => []TypeOK
  BY TypeInit, TypeStep, PTL DEF Spec

\* The mutex excludes the two threads, and the receiving thread lives exactly while
\* the object it uses does.
LEMMA ControlStep ==
  TypeOK /\ MutexInv /\ ThreadInv /\ [Next]_vars => MutexInv' /\ ThreadInv'
<1> SUFFICES ASSUME TypeOK, MutexInv, ThreadInv, [Next]_vars
             PROVE  MutexInv' /\ ThreadInv'
  OBVIOUS
<1> USE DEF MutexInv, ThreadInv, TypeOK, ControlType, ObjectType, object, world,
            history
<1>1. ASSUME NEW len \in 0 .. MessageLength + 1, NEW from \in Peers,
             Arrive(len, from)
      PROVE  MutexInv' /\ ThreadInv'
  BY <1>1 DEF Arrive, Datagrams
<1>2. CASE RxTest
  BY <1>2 DEF RxTest
<1>3. CASE RxPoll
  BY <1>3 DEF RxPoll
<1>4. CASE RxLock
  BY <1>4 DEF RxLock, RxLockUnguarded
<1>5. CASE RxCount
  BY <1>5 DEF RxCount
<1>6. CASE RxRecv
  BY <1>6 DEF RxRecv, Receive, Datagrams
<1>7. CASE RxError
  BY <1>7 DEF RxError
<1>8. CASE RxPollFails
  BY <1>8 DEF RxPollFails
<1>9. CASE RxRecvFails
  BY <1>9 DEF RxRecvFails
<1>10. ASSUME NEW port \in {0, 1}, NEW threaded \in BOOLEAN,
             Construct(port, threaded)
      PROVE  MutexInv' /\ ThreadInv'
  <2>1. CASE port # 0 /\ threaded
    <3>1. rx' = "test" /\ runReceive' = TRUE /\ useReceiveThread' = TRUE
      BY <1>10, <2>1 DEF Construct
    <3>2. QED
      BY <1>10, <3>1 DEF Construct
  <2>2. CASE ~(port # 0 /\ threaded)
    <3>1. rx' = "none" /\ runReceive' = FALSE
      BY <1>10, <2>2 DEF Construct
    <3>2. QED
      BY <1>10, <3>1 DEF Construct
  <2>3. QED
    BY <2>1, <2>2
<1>11. CASE ConstructFails
  BY <1>11 DEF ConstructFails
<1>12. ASSUME NEW c \in Calls \ {"none"},
             Begin(c)
      PROVE  MutexInv' /\ ThreadInv'
  BY <1>12 DEF Begin
<1>13. ASSUME NEW to \in Peers,
             Send(to)
      PROVE  MutexInv' /\ ThreadInv'
  BY <1>13 DEF Send
<1>14. CASE Destroy
  <2>1. CASE runReceive
    BY <1>14, <2>1 DEF Destroy
  <2>2. CASE ~runReceive
    <3>1. sim' = "free" /\ runReceive' = FALSE
      BY <1>14, <2>2 DEF Destroy
    <3>2. QED
      BY <1>14, <2>2, <3>1 DEF Destroy
  <2>3. QED
    BY <2>1, <2>2
<1>15. CASE BlockingReceive
  BY <1>15 DEF BlockingReceive, Receive, Datagrams
<1>16. CASE Lock
  BY <1>16 DEF Lock
<1>17. CASE Copy
  BY <1>17 DEF Copy, Fits
<1>18. CASE Take
  BY <1>18 DEF Take, Fits, Report
<1>19. CASE SendTo
  BY <1>19 DEF SendTo
<1>20. CASE Join
  BY <1>20 DEF Join
<1>21. CASE Free
  BY <1>21 DEF Free
<1>22. CASE BlockingReceiveFails
  BY <1>22 DEF BlockingReceiveFails
<1>23. CASE SendFails
  BY <1>23 DEF SendFails
<1>24. CASE Ended
  BY <1>24 DEF Ended, vars
<1>25. CASE UNCHANGED vars
  BY <1>25 DEF vars
<1>26. QED
  BY <1>1, <1>2, <1>3, <1>4, <1>5, <1>6, <1>7, <1>8, <1>9, <1>10, <1>11, <1>12, <1>13,
     <1>14, <1>15, <1>16, <1>17, <1>18, <1>19, <1>20, <1>21, <1>22, <1>23, <1>24,
     <1>25
  DEF Next, Rx, Within

\* A socket without a receiving thread leaves no data behind when a read returns.
LEMMA BlockingStep ==
  TypeOK /\ ThreadInv /\ BlockingInv /\ [Next]_vars => BlockingInv'
<1> SUFFICES ASSUME TypeOK, ThreadInv, BlockingInv, [Next]_vars
             PROVE  BlockingInv'
  OBVIOUS
<1> USE DEF BlockingInv, ThreadInv, TypeOK, ControlType, ObjectType, object, world,
            history
<1>1. ASSUME NEW len \in 0 .. MessageLength + 1, NEW from \in Peers,
             Arrive(len, from)
      PROVE  BlockingInv'
  BY <1>1 DEF Arrive, Datagrams
<1>2. CASE RxTest
  BY <1>2 DEF RxTest
<1>3. CASE RxPoll
  BY <1>3 DEF RxPoll
<1>4. CASE RxLock
  BY <1>4 DEF RxLock, RxLockUnguarded
<1>5. CASE RxCount
  BY <1>5 DEF RxCount
<1>6. CASE RxRecv
  BY <1>6 DEF RxRecv, Receive, Datagrams
<1>7. CASE RxError
  BY <1>7 DEF RxError
<1>8. CASE RxPollFails
  BY <1>8 DEF RxPollFails
<1>9. CASE RxRecvFails
  BY <1>9 DEF RxRecvFails
<1>10. ASSUME NEW port \in {0, 1}, NEW threaded \in BOOLEAN,
             Construct(port, threaded)
      PROVE  BlockingInv'
  BY <1>10 DEF Construct
<1>11. CASE ConstructFails
  BY <1>11 DEF ConstructFails
<1>12. ASSUME NEW c \in Calls \ {"none"},
             Begin(c)
      PROVE  BlockingInv'
  BY <1>12 DEF Begin
<1>13. ASSUME NEW to \in Peers,
             Send(to)
      PROVE  BlockingInv'
  BY <1>13 DEF Send
<1>14. CASE Destroy
  BY <1>14 DEF Destroy
<1>15. CASE BlockingReceive
  BY <1>15 DEF BlockingReceive, Receive, Datagrams
<1>16. CASE Lock
  BY <1>16 DEF Lock
<1>17. CASE Copy
  BY <1>17 DEF Copy, Fits
<1>18. CASE Take
  BY <1>18 DEF Take, Fits, Report
<1>19. CASE SendTo
  BY <1>19 DEF SendTo
<1>20. CASE Join
  BY <1>20 DEF Join
<1>21. CASE Free
  BY <1>21 DEF Free
<1>22. CASE BlockingReceiveFails
  BY <1>22 DEF BlockingReceiveFails
<1>23. CASE SendFails
  BY <1>23 DEF SendFails
<1>24. CASE Ended
  BY <1>24 DEF Ended, vars
<1>25. CASE UNCHANGED vars
  BY <1>25 DEF vars
<1>26. QED
  BY <1>1, <1>2, <1>3, <1>4, <1>5, <1>6, <1>7, <1>8, <1>9, <1>10, <1>11, <1>12, <1>13,
     <1>14, <1>15, <1>16, <1>17, <1>18, <1>19, <1>20, <1>21, <1>22, <1>23, <1>24,
     <1>25
  DEF Next, Rx, Within

\* After recvfrom the buffer starts with the datagram it received.
LEMMA ReceiveLatest ==
  ASSUME TypeOK, NEW d \in Datagrams, Receive(d)
  PROVE  \A i \in 1 .. nReceivedBytes' : msgInternal'[i] = latest'
<1>1. d.id \in 1 .. MaxDatagrams /\ d.len \in Nat
  BY DEF Datagrams
<1> DEFINE n == IF d.len > MessageLength THEN MessageLength ELSE d.len
<1>2. n \in 0 .. MessageLength
  BY <1>1
<1>3. /\ nReceivedBytes' = n
      /\ msgInternal' = [i \in Bytes |-> IF i <= n THEN d.id ELSE msgInternal[i]]
      /\ latest' = IF n > 0 THEN d.id ELSE latest
  BY DEF Receive
<1> HIDE DEF n
<1>4. \A i \in 1 .. n : i \in Bytes /\ i <= n /\ n > 0
  BY <1>2 DEF Bytes
<1>5. QED
  BY <1>2, <1>3, <1>4

\* Outside of recvfrom the buffer belongs to the latest datagram; a copy of it under
\* the mutex stays one until the counters are read.
LEMMA BufferStep ==
  TypeOK /\ MutexInv /\ ThreadInv /\ BufferInv /\ [Next]_vars => BufferInv'
<1> SUFFICES ASSUME TypeOK, MutexInv, ThreadInv, BufferInv, [Next]_vars
             PROVE  BufferInv'
  OBVIOUS
<1> USE DEF BufferInv, MutexInv, ThreadInv, Fits, TypeOK, ControlType, ObjectType,
            WorldType, object, world, history
<1>1. ASSUME NEW len \in 0 .. MessageLength + 1, NEW from \in Peers,
             Arrive(len, from)
      PROVE  BufferInv'
  BY <1>1 DEF Arrive, Datagrams
<1>2. CASE RxTest
  BY <1>2 DEF RxTest
<1>3. CASE RxPoll
  BY <1>3 DEF RxPoll
<1>4. CASE RxLock
  BY <1>4 DEF RxLock, RxLockUnguarded
<1>5. CASE RxCount
  BY <1>5 DEF RxCount
<1>6. CASE RxRecv
  <2>1. Head(kernelQueue) \in Datagrams
    BY <1>6 DEF RxRecv
  <2>2. \A i \in 1 .. nReceivedBytes' : msgInternal'[i] = latest'
    BY <1>6, <2>1, ReceiveLatest DEF RxRecv
  <2>3. sim' # "take"
    BY <1>6 DEF RxRecv
  <2>4. QED
    BY <2>2, <2>3
<1>7. CASE RxError
  BY <1>7 DEF RxError
<1>8. CASE RxPollFails
  BY <1>8 DEF RxPollFails
<1>9. CASE RxRecvFails
  BY <1>9 DEF RxRecvFails
<1>10. ASSUME NEW port \in {0, 1}, NEW threaded \in BOOLEAN,
             Construct(port, threaded)
      PROVE  BufferInv'
  BY <1>10 DEF Construct
<1>11. CASE ConstructFails
  BY <1>11 DEF ConstructFails
<1>12. ASSUME NEW c \in Calls \ {"none"},
             Begin(c)
      PROVE  BufferInv'
  BY <1>12 DEF Begin
<1>13. ASSUME NEW to \in Peers,
             Send(to)
      PROVE  BufferInv'
  BY <1>13 DEF Send
<1>14. CASE Destroy
  BY <1>14 DEF Destroy
<1>15. CASE BlockingReceive
  <2>1. Head(kernelQueue) \in Datagrams
    BY <1>15 DEF BlockingReceive
  <2>2. \A i \in 1 .. nReceivedBytes' : msgInternal'[i] = latest'
    BY <1>15, <2>1, ReceiveLatest DEF BlockingReceive
  <2>3. sim' # "take"
    BY <1>15 DEF BlockingReceive
  <2>4. QED
    BY <2>2, <2>3
<1>16. CASE Lock
  BY <1>16 DEF Lock
<1>17. CASE Copy
  BY <1>17 DEF Copy
<1>18. CASE Take
  BY <1>18 DEF Take, Report
<1>19. CASE SendTo
  BY <1>19 DEF SendTo
<1>20. CASE Join
  BY <1>20 DEF Join
<1>21. CASE Free
  BY <1>21 DEF Free
<1>22. CASE BlockingReceiveFails
  BY <1>22 DEF BlockingReceiveFails
<1>23. CASE SendFails
  BY <1>23 DEF SendFails
<1>24. CASE Ended
  BY <1>24 DEF Ended, vars
<1>25. CASE UNCHANGED vars
  BY <1>25 DEF vars
<1>26. QED
  BY <1>1, <1>2, <1>3, <1>4, <1>5, <1>6, <1>7, <1>8, <1>9, <1>10, <1>11, <1>12, <1>13,
     <1>14, <1>15, <1>16, <1>17, <1>18, <1>19, <1>20, <1>21, <1>22, <1>23, <1>24,
     <1>25
  DEF Next, Rx, Within

\* What the latest read returned stays the datagram it was.
LEMMA ReadStep ==
  IInv /\ [Next]_vars => ReadIsLatest'
<1> SUFFICES ASSUME IInv, [Next]_vars
             PROVE  ReadIsLatest'
  OBVIOUS
<1> USE DEF IInv, ReadIsLatest, BufferInv, ThreadInv, TypeOK, ControlType, ObjectType,
            ResultType, object, world, history
<1>1. ASSUME NEW len \in 0 .. MessageLength + 1, NEW from \in Peers,
             Arrive(len, from)
      PROVE  ReadIsLatest'
  BY <1>1 DEF Arrive, Datagrams
<1>2. CASE RxTest
  BY <1>2 DEF RxTest
<1>3. CASE RxPoll
  BY <1>3 DEF RxPoll
<1>4. CASE RxLock
  BY <1>4 DEF RxLock, RxLockUnguarded
<1>5. CASE RxCount
  BY <1>5 DEF RxCount
<1>6. CASE RxRecv
  BY <1>6 DEF RxRecv, Receive, Datagrams
<1>7. CASE RxError
  BY <1>7 DEF RxError
<1>8. CASE RxPollFails
  BY <1>8 DEF RxPollFails
<1>9. CASE RxRecvFails
  BY <1>9 DEF RxRecvFails
<1>10. ASSUME NEW port \in {0, 1}, NEW threaded \in BOOLEAN,
             Construct(port, threaded)
      PROVE  ReadIsLatest'
  BY <1>10 DEF Construct
<1>11. CASE ConstructFails
  BY <1>11 DEF ConstructFails
<1>12. ASSUME NEW c \in Calls \ {"none"},
             Begin(c)
      PROVE  ReadIsLatest'
  BY <1>12 DEF Begin
<1>13. ASSUME NEW to \in Peers,
             Send(to)
      PROVE  ReadIsLatest'
  BY <1>13 DEF Send
<1>14. CASE Destroy
  BY <1>14 DEF Destroy
<1>15. CASE BlockingReceive
  BY <1>15 DEF BlockingReceive, Receive, Datagrams
<1>16. CASE Lock
  BY <1>16 DEF Lock
<1>17. CASE Copy
  BY <1>17 DEF Copy, Fits
<1>18. CASE Take
  BY <1>18 DEF Take, Fits, Report
<1>19. CASE SendTo
  BY <1>19 DEF SendTo
<1>20. CASE Join
  BY <1>20 DEF Join
<1>21. CASE Free
  BY <1>21 DEF Free
<1>22. CASE BlockingReceiveFails
  BY <1>22 DEF BlockingReceiveFails
<1>23. CASE SendFails
  BY <1>23 DEF SendFails
<1>24. CASE Ended
  BY <1>24 DEF Ended, vars
<1>25. CASE UNCHANGED vars
  BY <1>25 DEF vars
<1>26. QED
  BY <1>1, <1>2, <1>3, <1>4, <1>5, <1>6, <1>7, <1>8, <1>9, <1>10, <1>11, <1>12, <1>13,
     <1>14, <1>15, <1>16, <1>17, <1>18, <1>19, <1>20, <1>21, <1>22, <1>23, <1>24,
     <1>25
  DEF Next, Rx, Within

\* Received, delivered, overwritten and waiting datagrams stay in balance.
LEMMA AccountStep ==
  IInv /\ [Next]_vars => OverwritesAccounted'
<1> SUFFICES ASSUME IInv, [Next]_vars
             PROVE  OverwritesAccounted'
  OBVIOUS
<1> USE DEF IInv, OverwritesAccounted, Waiting, BlockingInv, MutexInv, ThreadInv,
            TypeOK, ControlType, ObjectType, HistoryType, object, world, history
<1>1. ASSUME NEW len \in 0 .. MessageLength + 1, NEW from \in Peers,
             Arrive(len, from)
      PROVE  OverwritesAccounted'
  BY <1>1 DEF Arrive, Datagrams
<1>2. CASE RxTest
  BY <1>2 DEF RxTest
<1>3. CASE RxPoll
  BY <1>3 DEF RxPoll
<1>4. CASE RxLock
  BY <1>4 DEF RxLock, RxLockUnguarded
<1>5. CASE RxCount
  BY <1>5 DEF RxCount
<1>6. CASE RxRecv
  BY <1>6 DEF RxRecv, Receive, Datagrams
<1>7. CASE RxError
  BY <1>7 DEF RxError
<1>8. CASE RxPollFails
  BY <1>8 DEF RxPollFails
<1>9. CASE RxRecvFails
  BY <1>9 DEF RxRecvFails
<1>10. ASSUME NEW port \in {0, 1}, NEW threaded \in BOOLEAN,
             Construct(port, threaded)
      PROVE  OverwritesAccounted'
  BY <1>10 DEF Construct
<1>11. CASE ConstructFails
  BY <1>11 DEF ConstructFails
<1>12. ASSUME NEW c \in Calls \ {"none"},
             Begin(c)
      PROVE  OverwritesAccounted'
  BY <1>12 DEF Begin
<1>13. ASSUME NEW to \in Peers,
             Send(to)
      PROVE  OverwritesAccounted'
  BY <1>13 DEF Send
<1>14. CASE Destroy
  BY <1>14 DEF Destroy
<1>15. CASE BlockingReceive
  BY <1>15 DEF BlockingReceive, Receive, Datagrams
<1>16. CASE Lock
  BY <1>16 DEF Lock
<1>17. CASE Copy
  BY <1>17 DEF Copy, Fits
<1>18. CASE Take
  BY <1>18 DEF Take, Fits, Report
<1>19. CASE SendTo
  BY <1>19 DEF SendTo
<1>20. CASE Join
  BY <1>20 DEF Join
<1>21. CASE Free
  BY <1>21 DEF Free
<1>22. CASE BlockingReceiveFails
  BY <1>22 DEF BlockingReceiveFails
<1>23. CASE SendFails
  BY <1>23 DEF SendFails
<1>24. CASE Ended
  BY <1>24 DEF Ended, vars
<1>25. CASE UNCHANGED vars
  BY <1>25 DEF vars
<1>26. QED
  BY <1>1, <1>2, <1>3, <1>4, <1>5, <1>6, <1>7, <1>8, <1>9, <1>10, <1>11, <1>12, <1>13,
     <1>14, <1>15, <1>16, <1>17, <1>18, <1>19, <1>20, <1>21, <1>22, <1>23, <1>24,
     <1>25
  DEF Next, Rx, Within

\* The inductive invariant holds initially.
LEMMA InvariantInit == Init => IInv
<1> SUFFICES ASSUME Init PROVE IInv
  OBVIOUS
<1>1. TypeOK
  BY TypeInit
<1>2. MutexInv /\ ThreadInv /\ BlockingInv
  BY DEF Init, MutexInv, ThreadInv, BlockingInv
<1>3. 1 .. nReceivedBytes = {} /\ 1 .. result.n = {} /\ sim # "take"
  BY DEF Init
<1>4. OverwritesAccounted
  BY DEF Init, OverwritesAccounted, Waiting
<1>5. QED
  BY <1>1, <1>2, <1>3, <1>4 DEF IInv, BufferInv, ReadIsLatest

\* Every step of the driver and of its surroundings keeps the inductive invariant.
LEMMA InvariantStep == IInv /\ [Next]_vars => IInv'
<1> SUFFICES ASSUME IInv, [Next]_vars PROVE IInv'
  OBVIOUS
<1>1. TypeOK'
  BY TypeStep DEF IInv
<1>2. MutexInv' /\ ThreadInv'
  BY ControlStep DEF IInv
<1>3. BlockingInv' /\ BufferInv'
  BY BlockingStep, BufferStep DEF IInv
<1>4. ReadIsLatest' /\ OverwritesAccounted'
  BY ReadStep, AccountStep
<1>5. QED
  BY <1>1, <1>2, <1>3, <1>4 DEF IInv

\* The inductive invariant of the socket object holds in every state.
THEOREM Invariant == Spec => []IInv
  BY InvariantInit, InvariantStep, PTL DEF Spec

\* A read that succeeds returns the latest datagram undamaged.
THEOREM ReadsAreLatest == Spec => []ReadIsLatest
<1>1. IInv => ReadIsLatest
  BY DEF IInv
<1>2. QED
  BY <1>1, Invariant, PTL

\* No datagram is lost without being counted.
THEOREM EveryLossIsCounted == Spec => []OverwritesAccounted
<1>1. IInv => OverwritesAccounted
  BY DEF IInv
<1>2. QED
  BY <1>1, Invariant, PTL

\* The destructor frees nothing that a thread may still use.
THEOREM FreedObjectIsUnused == Spec => []NoUseAfterFree
<1>1. IInv => NoUseAfterFree
  BY DEF IInv, NoUseAfterFree, MutexInv, ThreadInv, TypeOK, ObjectType, ControlType
<1>2. QED
  BY <1>1, Invariant, PTL

----------------------------------------------------------------------------
(* The socket implements the mailbox                                       *)

\* Receiving the head of the queue keeps the order, and delivers a later datagram.
LEMMA ReceiveOrder ==
  ASSUME TypeOK, OrderInv, kernelQueue # <<>>, Receive(Head(kernelQueue)),
         arrived' = arrived
  PROVE  /\ OrderInv'
         /\ Head(kernelQueue).id > latest
         /\ Head(kernelQueue).id \in 1 .. MaxDatagrams
         /\ nReceivedBytes' \in Nat
         /\ latest' = IF nReceivedBytes' > 0 THEN Head(kernelQueue).id ELSE latest
<1> DEFINE d == Head(kernelQueue)
<1>1. /\ arrived \in Nat /\ latest \in Nat /\ Len(kernelQueue) \in Nat
      /\ Len(kernelQueue) > 0 /\ DOMAIN kernelQueue = 1 .. Len(kernelQueue)
      /\ d = kernelQueue[1] /\ d \in Datagrams
  BY UdpAssumption DEF TypeOK, WorldType, HistoryType
<1>2. /\ kernelQueue' = Tail(kernelQueue)
      /\ latest' = IF nReceivedBytes' > 0 THEN d.id ELSE latest
      /\ nReceivedBytes' = IF d.len > MessageLength THEN MessageLength ELSE d.len
  BY DEF Receive
<1>3. d.id \in 1 .. MaxDatagrams /\ d.len \in Nat
  BY <1>1 DEF Datagrams
<1>4. nReceivedBytes' \in Nat
  BY <1>2, <1>3, UdpAssumption
<1>5. d.id = arrived - Len(kernelQueue) + 1 /\ latest <= arrived - Len(kernelQueue)
  BY <1>1 DEF OrderInv
<1>6. /\ Len(kernelQueue') = Len(kernelQueue) - 1
      /\ \A j \in DOMAIN kernelQueue' : /\ j \in Nat /\ j + 1 \in DOMAIN kernelQueue
                                        /\ kernelQueue'[j] = kernelQueue[j + 1]
  BY <1>1, <1>2 DEF TypeOK, WorldType
<1> HIDE DEF d
<1>7. \A j \in DOMAIN kernelQueue' :
        kernelQueue'[j].id = arrived' - Len(kernelQueue') + j
  <2> SUFFICES ASSUME NEW j \in DOMAIN kernelQueue'
               PROVE  kernelQueue'[j].id = arrived' - Len(kernelQueue') + j
    OBVIOUS
  <2>1. kernelQueue'[j].id = arrived - Len(kernelQueue) + (j + 1)
    BY <1>6 DEF OrderInv
  <2>2. Len(kernelQueue') = Len(kernelQueue) - 1 /\ j \in Nat
    BY <1>6
  <2>3. QED  BY <1>1, <2>1, <2>2
<1>8. latest' <= arrived' - Len(kernelQueue')
  <2>1. Len(kernelQueue') = Len(kernelQueue) - 1 /\ arrived' = arrived
    BY <1>6
  <2>2. latest' = d.id \/ latest' = latest
    BY <1>2
  <2>3. QED  BY <1>1, <1>3, <1>5, <2>1, <2>2
<1>9. nReceivedBytes' > 0 => latest' > 0
  BY <1>2, <1>3
<1>10. d.id > latest
  BY <1>1, <1>3, <1>5
<1>11. QED  BY <1>2, <1>3, <1>4, <1>7, <1>8, <1>9, <1>10 DEF OrderInv, d

\* The order in the queue is kept by every step.
LEMMA OrderStep == IInv /\ OrderInv /\ [Next]_vars => OrderInv'
<1> SUFFICES ASSUME TypeOK, OrderInv, [Next]_vars  PROVE OrderInv'
  BY DEF IInv
<1> USE DEF object, world, history
<1>1. ASSUME NEW len \in 0 .. MessageLength + 1, NEW from \in Peers,
             Arrive(len, from)
      PROVE  OrderInv'
  <2>1. /\ arrived \in Nat /\ Len(kernelQueue) \in Nat
        /\ DOMAIN kernelQueue = 1 .. Len(kernelQueue)
    BY UdpAssumption DEF TypeOK, WorldType
  <2>2. /\ arrived' = arrived + 1 /\ latest' = latest /\ nReceivedBytes' = nReceivedBytes
        /\ kernelQueue' = Append(kernelQueue, [id |-> arrived + 1, len |-> len, from |-> from])
    BY <1>1 DEF Arrive
  <2>3. /\ Len(kernelQueue') = Len(kernelQueue) + 1
        /\ DOMAIN kernelQueue' = 1 .. Len(kernelQueue) + 1
        /\ \A j \in DOMAIN kernelQueue : kernelQueue'[j] = kernelQueue[j]
        /\ kernelQueue'[Len(kernelQueue) + 1].id = arrived + 1
    BY <1>1, <2>1, <2>2 DEF TypeOK, WorldType, Arrive, Datagrams
  <2>4. arrived' - Len(kernelQueue') = arrived - Len(kernelQueue)
    BY <2>1, <2>2, <2>3
  <2>5. arrived - Len(kernelQueue) + (Len(kernelQueue) + 1) = arrived + 1
    BY <2>1
  <2>6. \A j \in DOMAIN kernelQueue' : j \in DOMAIN kernelQueue \/ j = Len(kernelQueue) + 1
    BY <2>1, <2>3
  <2>7. QED  BY <2>2, <2>3, <2>4, <2>5, <2>6 DEF OrderInv
<1>2. CASE RxTest
  BY <1>2 DEF RxTest, OrderInv
<1>3. CASE RxPoll
  BY <1>3 DEF RxPoll, OrderInv
<1>4. CASE RxLock
  BY <1>4 DEF RxLock, RxLockUnguarded, OrderInv
<1>5. CASE RxCount
  BY <1>5 DEF RxCount, OrderInv
<1>6. CASE RxRecv
  BY <1>6, ReceiveOrder DEF RxRecv
<1>7. CASE RxError
  BY <1>7 DEF RxError, OrderInv
<1>8. CASE RxPollFails
  BY <1>8 DEF RxPollFails, OrderInv
<1>9. CASE RxRecvFails
  BY <1>9 DEF RxRecvFails, OrderInv
<1>10. ASSUME NEW port \in {0, 1}, NEW threaded \in BOOLEAN,
             Construct(port, threaded)
      PROVE  OrderInv'
  BY <1>10 DEF Construct, OrderInv
<1>11. CASE ConstructFails
  BY <1>11 DEF ConstructFails, OrderInv
<1>12. ASSUME NEW c \in Calls \ {"none"},
             Begin(c)
      PROVE  OrderInv'
  BY <1>12 DEF Begin, OrderInv
<1>13. ASSUME NEW to \in Peers,
             Send(to)
      PROVE  OrderInv'
  BY <1>13 DEF Send, OrderInv
<1>14. CASE Destroy
  BY <1>14 DEF Destroy, OrderInv
<1>15. CASE BlockingReceive
  BY <1>15, ReceiveOrder DEF BlockingReceive
<1>16. CASE Lock
  BY <1>16 DEF Lock, OrderInv
<1>17. CASE Copy
  BY <1>17 DEF Copy, OrderInv
<1>18. CASE Take
  BY <1>18 DEF Take, OrderInv
<1>19. CASE SendTo
  BY <1>19 DEF SendTo, OrderInv
<1>20. CASE Join
  BY <1>20 DEF Join, OrderInv
<1>21. CASE Free
  <2>1. /\ kernelQueue' = <<>> /\ arrived' = arrived /\ latest' = latest
        /\ nReceivedBytes' = nReceivedBytes
    BY <1>21 DEF Free
  <2>2. /\ arrived \in Nat /\ latest \in Nat /\ Len(kernelQueue) \in Nat
        /\ Len(<<>>) = 0 /\ DOMAIN <<>> = {}
    BY UdpAssumption DEF TypeOK, WorldType, HistoryType
  <2>3. latest <= arrived - Len(kernelQueue) /\ (nReceivedBytes > 0 => latest > 0)
    BY DEF OrderInv
  <2>4. latest' <= arrived' - Len(kernelQueue')
    BY <2>1, <2>2, <2>3
  <2>5. DOMAIN kernelQueue' = {}
    BY <2>1, <2>2
  <2>6. QED  BY <2>1, <2>3, <2>4, <2>5 DEF OrderInv
<1>22. CASE BlockingReceiveFails
  BY <1>22 DEF BlockingReceiveFails, OrderInv
<1>23. CASE SendFails
  BY <1>23 DEF SendFails, OrderInv
<1>24. CASE Ended
  BY <1>24 DEF Ended, vars, OrderInv
<1>25. CASE UNCHANGED vars
  BY <1>25 DEF vars, OrderInv
<1>26. QED
  BY <1>1, <1>2, <1>3, <1>4, <1>5, <1>6, <1>7, <1>8, <1>9, <1>10, <1>11,
     <1>12, <1>13, <1>14, <1>15, <1>16, <1>17, <1>18, <1>19, <1>20, <1>21,
     <1>22, <1>23, <1>24, <1>25
  DEF Next, Rx, Within

\* A step of the socket is a step of the mailbox or leaves it as it is.
LEMMA MailboxStep == IInv /\ OrderInv /\ [Next]_vars => [Mailbox!Next]_Mailbox!vars
<1> SUFFICES ASSUME IInv, OrderInv, [Next]_vars  PROVE [Mailbox!Next]_Mailbox!vars
  OBVIOUS
<1>0. nReceivedBytes \in Int /\ nRecvbufOverwrites \in Nat /\ latest \in Nat
  BY DEF IInv, TypeOK, ObjectType, HistoryType
<1> USE DEF object, world, history
<1>1. ASSUME NEW len \in 0 .. MessageLength + 1, NEW from \in Peers,
             Arrive(len, from)
      PROVE  [Mailbox!Next]_Mailbox!vars
  BY <1>1 DEF Arrive, Mailbox!vars
<1>2. CASE RxTest
  BY <1>2 DEF RxTest, Mailbox!vars
<1>3. CASE RxPoll
  BY <1>3 DEF RxPoll, Mailbox!vars
<1>4. CASE RxLock
  BY <1>4 DEF RxLock, RxLockUnguarded, Mailbox!vars
<1>5. CASE RxCount
  <2>1. nRecvbufOverwrites' - (IF rx' = "recv" /\ nReceivedBytes' > 0 THEN 1 ELSE 0)
          = nRecvbufOverwrites - (IF rx = "recv" /\ nReceivedBytes > 0 THEN 1 ELSE 0)
    BY <1>0, <1>5 DEF RxCount
  <2>2. QED  BY <1>5, <2>1 DEF RxCount, Mailbox!vars
<1>6. CASE RxRecv
  <2>1. /\ Head(kernelQueue).id > latest /\ Head(kernelQueue).id \in 1 .. MaxDatagrams
        /\ nReceivedBytes' \in Nat /\ rx = "recv" /\ rx' = "test"
        /\ latest' = IF nReceivedBytes' > 0 THEN Head(kernelQueue).id ELSE latest
        /\ nRecvbufOverwrites' = nRecvbufOverwrites /\ result' = result
    BY <1>6, ReceiveOrder DEF RxRecv, IInv
  <2>2. nReceivedBytes > 0 => latest # 0
    BY <1>0 DEF OrderInv
  <2>3. CASE nReceivedBytes' > 0
    <3>1. Mailbox!Put(Head(kernelQueue).id)
      BY <1>0, <2>1, <2>2, <2>3 DEF Mailbox!Put, Mailbox!Replaced, Mailbox!Empty
    <3>2. QED  BY <2>1, <3>1 DEF Mailbox!Next
  <2>4. CASE ~(nReceivedBytes' > 0) /\ nReceivedBytes > 0
    <3>1. Mailbox!Wipe
      BY <1>0, <2>1, <2>2, <2>4 DEF Mailbox!Wipe, Mailbox!Empty
    <3>2. QED  BY <3>1 DEF Mailbox!Next
  <2>5. CASE ~(nReceivedBytes' > 0) /\ ~(nReceivedBytes > 0)
    BY <1>0, <2>1, <2>5 DEF Mailbox!vars
  <2>6. QED  BY <2>3, <2>4, <2>5
<1>7. CASE RxError
  BY <1>7 DEF RxError, Mailbox!vars
<1>8. CASE RxPollFails
  BY <1>8 DEF RxPollFails, Mailbox!vars
<1>9. CASE RxRecvFails
  <2>1. /\ rx = "recv" /\ rx' = "failed" /\ nReceivedBytes' = -1 /\ latest' = latest
        /\ nRecvbufOverwrites' = nRecvbufOverwrites /\ result' = result
    BY <1>9 DEF RxRecvFails
  <2>2. nReceivedBytes > 0 => latest # 0
    BY <1>0 DEF OrderInv
  <2>3. CASE nReceivedBytes > 0
    <3>1. Mailbox!Wipe
      BY <1>0, <2>1, <2>2, <2>3 DEF Mailbox!Wipe, Mailbox!Empty
    <3>2. QED  BY <3>1 DEF Mailbox!Next
  <2>4. CASE ~(nReceivedBytes > 0)
    BY <1>0, <2>1, <2>4 DEF Mailbox!vars
  <2>5. QED  BY <2>3, <2>4
<1>10. ASSUME NEW port \in {0, 1}, NEW threaded \in BOOLEAN,
             Construct(port, threaded)
      PROVE  [Mailbox!Next]_Mailbox!vars
  <2>1. rx = "none" /\ rx' \in {"none", "test"}
    BY <1>10 DEF Construct, IInv, ThreadInv
  <2>2. QED  BY <1>10, <2>1 DEF Construct, Mailbox!vars
<1>11. CASE ConstructFails
  BY <1>11 DEF ConstructFails, Mailbox!vars
<1>12. ASSUME NEW c \in Calls \ {"none"},
             Begin(c)
      PROVE  [Mailbox!Next]_Mailbox!vars
  BY <1>12 DEF Begin, Mailbox!vars
<1>13. ASSUME NEW to \in Peers,
             Send(to)
      PROVE  [Mailbox!Next]_Mailbox!vars
  BY <1>13 DEF Send, Mailbox!vars
<1>14. CASE Destroy
  BY <1>14 DEF Destroy, Mailbox!vars
<1>15. CASE BlockingReceive
  <2>1. /\ Head(kernelQueue).id > latest /\ Head(kernelQueue).id \in 1 .. MaxDatagrams
        /\ nReceivedBytes' \in Nat /\ rx' = rx
        /\ latest' = IF nReceivedBytes' > 0 THEN Head(kernelQueue).id ELSE latest
        /\ nRecvbufOverwrites' = nRecvbufOverwrites /\ result' = result
    BY <1>15, ReceiveOrder DEF BlockingReceive, IInv
  <2>2. ~(nReceivedBytes > 0) /\ rx # "recv"
    BY <1>15 DEF BlockingReceive, IInv, BlockingInv, ThreadInv
  <2>3. CASE nReceivedBytes' > 0
    <3>1. Mailbox!Put(Head(kernelQueue).id)
      BY <1>0, <2>1, <2>2, <2>3 DEF Mailbox!Put, Mailbox!Replaced, Mailbox!Empty
    <3>2. QED  BY <2>1, <3>1 DEF Mailbox!Next
  <2>4. CASE ~(nReceivedBytes' > 0)
    BY <1>0, <2>1, <2>2, <2>4 DEF Mailbox!vars
  <2>5. QED  BY <2>3, <2>4
<1>16. CASE Lock
  BY <1>16 DEF Lock, Mailbox!vars
<1>17. CASE Copy
  BY <1>17 DEF Copy, Mailbox!vars
<1>18. CASE Take
  <2>1. rx # "recv" /\ rx' = rx
    BY <1>18 DEF Take, IInv, MutexInv
  <2>2. CASE call = "GetReceivedBytes"
    BY <1>18, <2>1, <2>2 DEF Take, Mailbox!vars
  <2>3. CASE call # "GetReceivedBytes"
    <3>1. /\ nReceivedBytes' = 0 /\ latest' = latest /\ result' = Report
          /\ nRecvbufOverwrites' = nRecvbufOverwrites
      BY <1>18, <2>3 DEF Take
    <3>2. Report.n = nReceivedBytes /\ Report.id = latest
      BY DEF Report
    <3>3. Mailbox!Take
      BY <1>0, <2>1, <3>1, <3>2 DEF Mailbox!Take, Mailbox!Empty
    <3>4. QED  BY <3>3 DEF Mailbox!Next
  <2>4. QED  BY <2>2, <2>3
<1>19. CASE SendTo
  BY <1>19 DEF SendTo, Mailbox!vars
<1>20. CASE Join
  BY <1>20 DEF Join, Mailbox!vars
<1>21. CASE Free
  BY <1>21 DEF Free, Mailbox!vars
<1>22. CASE BlockingReceiveFails
  <2>1. /\ nReceivedBytes' = -1 /\ latest' = latest /\ rx' = rx
        /\ nRecvbufOverwrites' = nRecvbufOverwrites /\ result' = result
    BY <1>22 DEF BlockingReceiveFails
  <2>2. ~(nReceivedBytes > 0) /\ rx # "recv"
    BY <1>22 DEF BlockingReceiveFails, IInv, BlockingInv, ThreadInv
  <2>3. QED  BY <1>0, <2>1, <2>2 DEF Mailbox!vars
<1>23. CASE SendFails
  BY <1>23 DEF SendFails, Mailbox!vars
<1>24. CASE Ended
  BY <1>24 DEF Ended, vars, Mailbox!vars
<1>25. CASE UNCHANGED vars
  BY <1>25 DEF vars, Mailbox!vars
<1>26. QED
  BY <1>1, <1>2, <1>3, <1>4, <1>5, <1>6, <1>7, <1>8, <1>9, <1>10, <1>11,
     <1>12, <1>13, <1>14, <1>15, <1>16, <1>17, <1>18, <1>19, <1>20, <1>21,
     <1>22, <1>23, <1>24, <1>25
  DEF Next, Rx, Within

\* The queue is empty and so is the mailbox before the constructor has run.
LEMMA MailboxInit == Init => OrderInv /\ Mailbox!Init
<1> SUFFICES ASSUME Init  PROVE OrderInv /\ Mailbox!Init
  OBVIOUS
<1>1. OrderInv
  BY UdpAssumption DEF Init, OrderInv
<1>2. Mailbox!Init
  BY DEF Init, Mailbox!Init, Mailbox!Empty
<1>3. QED  BY <1>1, <1>2

\* For every buffer size and number of datagrams, the socket is a mailbox for one message.
THEOREM Implementation == Spec => ImplementsMailbox
<1>1. Init => OrderInv /\ Mailbox!Init
  BY MailboxInit
<1>2. Spec => []OrderInv
  BY <1>1, OrderStep, Invariant, PTL DEF Spec
<1>3. QED
  BY <1>1, <1>2, MailboxStep, Invariant, PTL DEF Spec, ImplementsMailbox, Mailbox!Spec

=============================================================================
