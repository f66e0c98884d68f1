------------------------------ MODULE UdpSocket ------------------------------
(***************************************************************************)
(* The Linux half of MDDUDPSocket.h: one UDP socket object, used by the    *)
(* simulation thread (constructor, read, send, destructor) and, when it    *)
(* was created with useReceiveThread, by MDD_udpReceivingThread.           *)
(*                                                                         *)
(* A datagram is a number, in the order of arrival at the socket, with a   *)
(* length and a sender; a byte of a buffer is the number of the datagram   *)
(* that wrote it, 0 for a byte nobody wrote since calloc.                  *)
(* ModelicaError and ModelicaFormatError do not return: the simulation     *)
(* stops with the socket as it is.                                         *)
(***************************************************************************)
EXTENDS Integers, Sequences

CONSTANTS
  MessageLength,    \* bytes of the receive buffer: bufferSize of the constructor
  PackageSizes,     \* allocSize of the packager the message is read into
  MaxDatagrams,     \* bound: datagrams that arrive in a behaviour
  QueueSize,        \* bound: datagrams the kernel holds for the socket
  Peers             \* addresses: of senders of datagrams, and to send to

ASSUME UdpAssumption ==
  /\ MessageLength \in Nat
  /\ PackageSizes \subseteq Nat
  /\ MaxDatagrams \in Nat
  /\ QueueSize \in Nat

VARIABLES
  \* the object MDDUDPSocket_s
  useReceiveThread, msgInternal, nReceivedBytes, nRecvbufOverwrites,
  runReceive, messageMutex, sa,
  \* its surroundings: bound to a port?, the kernel's queue, the packager read into
  listening, kernelQueue, arrived, packageSize, package,
  \* control: the receiving thread, the simulation thread and its call
  rx, sim, call, target,
  \* what the last read returned, where the last send went
  result, sent,
  \* history: number of datagrams with data received, and of those read
  latest, received, delivered

object == <<useReceiveThread, msgInternal, nReceivedBytes, nRecvbufOverwrites,
            runReceive, messageMutex, sa>>
world == <<listening, kernelQueue, arrived, packageSize, package>>
history == <<latest, received, delivered>>
vars == <<object, world, rx, sim, call, target, result, sent, history>>

Nobody == "nobody"
Bytes == 1 .. MessageLength
Datagrams == [id : 1 .. MaxDatagrams, len : 0 .. MessageLength + 1, from : Peers]

(* Control points.  The receiving thread tests runReceive, polls, and for  *)
(* a readable socket takes the mutex, counts an overwrite and receives.    *)
RxPoints == {"none", "test", "poll", "lock", "count", "recv", "failed", "done"}
SimPoints == {"new", "idle", "receive", "lock", "copy", "take", "sendto",
              "join", "free", "destroyed", "error"}
Calls == {"none", "Read", "ReadP2", "GetReceivedBytes"}

ObjectType ==
  /\ useReceiveThread \in BOOLEAN
  /\ msgInternal \in [Bytes -> 0 .. MaxDatagrams]
  /\ nReceivedBytes \in -1 .. MessageLength
  /\ nRecvbufOverwrites \in Nat
  /\ runReceive \in BOOLEAN
  /\ messageMutex \in {Nobody, "rx", "sim"}
  /\ sa \in Peers \cup {Nobody}

WorldType ==
  /\ listening \in BOOLEAN
  /\ kernelQueue \in Seq(Datagrams)
  /\ arrived \in 0 .. MaxDatagrams
  /\ packageSize \in PackageSizes
  /\ package \in [Bytes -> 0 .. MaxDatagrams]

ControlType ==
  /\ rx \in RxPoints
  /\ sim \in SimPoints
  /\ call \in Calls
  /\ target \in Peers \cup {Nobody}

ResultType ==
  /\ result \in [n : -1 .. MessageLength, id : 0 .. MaxDatagrams, lost : Nat,
                 bytes : [Bytes -> 0 .. MaxDatagrams]]
  /\ sent \in [to : Peers \cup {Nobody}, went : Peers \cup {Nobody}]

HistoryType ==
  /\ latest \in 0 .. MaxDatagrams
  /\ received \in Nat
  /\ delivered \in Nat

TypeOK == ObjectType /\ WorldType /\ ControlType /\ ResultType /\ HistoryType

Init ==
  /\ useReceiveThread = FALSE
  /\ msgInternal = [i \in Bytes |-> 0]
  /\ nReceivedBytes = 0
  /\ nRecvbufOverwrites = 0
  /\ runReceive = FALSE
  /\ messageMutex = Nobody
  /\ sa = Nobody
  /\ listening = FALSE
  /\ kernelQueue = <<>>
  /\ arrived = 0
  /\ packageSize \in PackageSizes
  /\ package = [i \in Bytes |-> 0]
  /\ rx = "none"
  /\ sim = "new"
  /\ call = "none"
  /\ target = Nobody
  /\ result = [n |-> 0, id |-> 0, lost |-> 0, bytes |-> [i \in Bytes |-> 0]]
  /\ sent = [to |-> Nobody, went |-> Nobody]
  /\ latest = 0
  /\ received = 0
  /\ delivered = 0

Running == sim # "error"

----------------------------------------------------------------------------
(* The network: datagrams arrive while the socket exists, in any order and *)
(* with any loss relative to the sender; a full queue drops them.          *)

Arrive(len, from) ==
  /\ listening /\ Running
  /\ arrived < MaxDatagrams
  /\ Len(kernelQueue) < QueueSize
  /\ arrived' = arrived + 1
  /\ kernelQueue' = Append(kernelQueue, [id |-> arrived + 1, len |-> len, from |-> from])
  /\ UNCHANGED <<object, listening, packageSize, package, rx, sim, call, target,
                 result, sent, history>>

\* As if a long datagram were reported with its own length.
ReceiveUntruncated(d) ==
  /\ kernelQueue' = Tail(kernelQueue)
  /\ msgInternal' = [i \in Bytes |-> IF i <= d.len THEN d.id ELSE msgInternal[i]]
  /\ nReceivedBytes' = d.len
  /\ sa' = d.from
  /\ latest' = IF d.len > 0 THEN d.id ELSE latest
  /\ received' = IF d.len > 0 THEN received + 1 ELSE received

(* recvfrom(sock, msgInternal, messageLength, 0, &sa, ..) of datagram d:   *)
(* excess bytes are cut off, bytes behind a short datagram stay.           *)
Receive(d) ==
  LET n == IF d.len > MessageLength THEN MessageLength ELSE d.len
  IN  /\ kernelQueue' = Tail(kernelQueue)
      /\ msgInternal' = [i \in Bytes |-> IF i <= n THEN d.id ELSE msgInternal[i]]
      /\ nReceivedBytes' = n
      /\ sa' = d.from
      /\ latest' = IF n > 0 THEN d.id ELSE latest
      /\ received' = IF n > 0 THEN received + 1 ELSE received

----------------------------------------------------------------------------
(* MDD_udpReceivingThread *)

RxTest ==
  /\ Running /\ rx = "test"
  /\ rx' = IF runReceive THEN "poll" ELSE "done"
  /\ UNCHANGED <<object, world, sim, call, target, result, sent, history>>

RxPollUnlessFull ==
  /\ Running /\ rx = "poll"
  /\ rx' = IF kernelQueue = <<>> \/ nReceivedBytes > 0 THEN "test" ELSE "lock"
  /\ UNCHANGED <<object, world, sim, call, target, result, sent, history>>

(* poll with a timeout of 100 ms: 0 goes round the loop, 1 goes on to      *)
(* receive.                                                                *)
RxPoll ==
  /\ Running /\ rx = "poll"
  /\ rx' = IF kernelQueue = <<>> THEN "test" ELSE "lock"
  /\ UNCHANGED <<object, world, sim, call, target, result, sent, history>>

RxLockUnguarded ==
  /\ Running /\ rx = "lock"
  /\ messageMutex' = "rx"
  /\ rx' = "count"
  /\ UNCHANGED <<useReceiveThread, msgInternal, nReceivedBytes, nRecvbufOverwrites,
                 runReceive, sa, world, sim, call, target, result, sent, history>>

RxLock ==
  /\ messageMutex = Nobody
  /\ RxLockUnguarded

RxCountAlways ==
  /\ Running /\ rx = "count"
  /\ nRecvbufOverwrites' = nRecvbufOverwrites + 1
  /\ rx' = "recv"
  /\ UNCHANGED <<useReceiveThread, msgInternal, nReceivedBytes, runReceive,
                 messageMutex, sa, world, sim, call, target, result, sent, history>>

\* A message nobody read is about to be overwritten.
RxCount ==
  /\ Running /\ rx = "count"
  /\ nRecvbufOverwrites' = IF nReceivedBytes > 0 THEN nRecvbufOverwrites + 1
                                                 ELSE nRecvbufOverwrites
  /\ rx' = "recv"
  /\ UNCHANGED <<useReceiveThread, msgInternal, nReceivedBytes, runReceive,
                 messageMutex, sa, world, sim, call, target, result, sent, history>>

RxRecvKeepsMutex ==
  /\ Running /\ rx = "recv"
  /\ kernelQueue # <<>>
  /\ Receive(Head(kernelQueue))
  /\ rx' = IF nReceivedBytes' > 0 THEN "test" ELSE "done"
  /\ messageMutex' = IF nReceivedBytes' > 0 THEN Nobody ELSE messageMutex
  /\ UNCHANGED <<useReceiveThread, nRecvbufOverwrites, runReceive, listening, arrived,
                 packageSize, package, sim, call, target, result, sent, delivered>>

RxRecv ==
  /\ Running /\ rx = "recv"
  /\ kernelQueue # <<>>
  /\ Receive(Head(kernelQueue))
  /\ messageMutex' = Nobody
  /\ rx' = "test"
  /\ UNCHANGED <<useReceiveThread, nRecvbufOverwrites, runReceive, listening, arrived,
                 packageSize, package, sim, call, target, result, sent, delivered>>

\* recvfrom reports an error: the mutex is released before the error.
RxRecvFails ==
  /\ Running /\ rx = "recv"
  /\ nReceivedBytes' = -1
  /\ messageMutex' = Nobody
  /\ rx' = "failed"
  /\ UNCHANGED <<useReceiveThread, msgInternal, nRecvbufOverwrites, runReceive, sa,
                 world, sim, call, target, result, sent, history>>

RxPollFails ==
  /\ Running /\ rx = "poll"
  /\ rx' = "failed"
  /\ UNCHANGED <<object, world, sim, call, target, result, sent, history>>

\* ModelicaFormatError in the receiving thread ends the simulation.
RxError ==
  /\ Running /\ rx = "failed"
  /\ sim' = "error"
  /\ UNCHANGED <<object, world, rx, call, target, result, sent, history>>

Rx == RxTest \/ RxPoll \/ RxLock \/ RxCount \/ RxRecv \/ RxError

----------------------------------------------------------------------------
(* The simulation thread: MDD_udpConstructor *)

\* Port 0 makes a sending socket, which has no receiving thread.
Construct(port, threaded) ==
  /\ sim = "new"
  /\ useReceiveThread' = threaded
  /\ listening' = (port # 0)
  /\ runReceive' = (port # 0 /\ threaded)
  /\ rx' = IF port # 0 /\ threaded THEN "test" ELSE "none"
  /\ sim' = "idle"
  /\ UNCHANGED <<msgInternal, nReceivedBytes, nRecvbufOverwrites, messageMutex, sa,
                 kernelQueue, arrived, packageSize, package, call, target, result, sent, history>>

\* mutex_init, socket, bind or pthread_create fails.
ConstructFails ==
  /\ sim = "new"
  /\ sim' = "error"
  /\ UNCHANGED <<object, world, rx, call, target, result, sent, history>>

(* MDD_udpRead, MDD_udpReadP2 and MDD_udpGetReceivedBytes *)

Begin(c) ==
  /\ sim = "idle"
  /\ call' = c
  /\ sim' = IF useReceiveThread \/ c = "GetReceivedBytes" THEN "lock" ELSE "receive"
  /\ UNCHANGED <<object, world, rx, target, result, sent, history>>

\* MDD_udpBlockingReceive: the simulation waits for a datagram.
BlockingReceive ==
  /\ sim = "receive"
  /\ kernelQueue # <<>>
  /\ Receive(Head(kernelQueue))
  /\ sim' = "lock"
  /\ UNCHANGED <<useReceiveThread, nRecvbufOverwrites, runReceive, messageMutex,
                 listening, arrived, packageSize, package, rx, call, target, result, sent, delivered>>

BlockingReceiveFails ==
  /\ sim = "receive"
  /\ nReceivedBytes' = -1
  /\ sim' = "error"
  /\ UNCHANGED <<useReceiveThread, msgInternal, nRecvbufOverwrites, runReceive,
                 messageMutex, sa, world, rx, call, target, result, sent, history>>

Lock ==
  /\ sim = "lock"
  /\ messageMutex = Nobody
  /\ messageMutex' = "sim"
  /\ sim' = IF call = "GetReceivedBytes" THEN "take" ELSE "copy"
  /\ UNCHANGED <<useReceiveThread, msgInternal, nReceivedBytes, nRecvbufOverwrites,
                 runReceive, sa, world, rx, call, target, result, sent, history>>

(* The whole buffer is copied, whatever the length of the datagram: into a *)
(* string, or into the packager if it is large enough.                     *)
Fits == call = "ReadP2" => MessageLength <= packageSize

Copy ==
  /\ sim = "copy"
  /\ package' = IF Fits THEN msgInternal ELSE package
  /\ sim' = "take"
  /\ UNCHANGED <<object, listening, kernelQueue, arrived, packageSize, rx, call,
                 target, result, sent, history>>

Report == [n |-> nReceivedBytes, id |-> latest, lost |-> nRecvbufOverwrites,
           bytes |-> package]

TakeWithoutReset ==
  /\ sim = "take"
  /\ messageMutex' = Nobody
  /\ result' = IF call = "GetReceivedBytes" THEN result ELSE Report
  /\ delivered' = IF call # "GetReceivedBytes" /\ nReceivedBytes > 0
                  THEN delivered + 1 ELSE delivered
  /\ sim' = IF Fits THEN "idle" ELSE "error"
  /\ call' = "none"
  /\ UNCHANGED <<useReceiveThread, msgInternal, nReceivedBytes, nRecvbufOverwrites,
                 runReceive, sa, world, rx, target, sent, latest, received>>

(* The counters are read, the message is marked as read, and the mutex is  *)
(* released; a packager that is too small is reported after that.          *)
Take ==
  /\ sim = "take"
  /\ messageMutex' = Nobody
  /\ IF call = "GetReceivedBytes"
     THEN UNCHANGED <<nReceivedBytes, result, delivered>>
     ELSE /\ nReceivedBytes' = 0
          /\ result' = Report
          /\ delivered' = IF nReceivedBytes > 0 THEN delivered + 1 ELSE delivered
  /\ sim' = IF Fits THEN "idle" ELSE "error"
  /\ call' = "none"
  /\ UNCHANGED <<useReceiveThread, msgInternal, nRecvbufOverwrites, runReceive, sa,
                 world, rx, target, sent, latest, received>>

(* MDD_udpSend: the destination is written into the object, then used. *)

Send(to) ==
  /\ sim = "idle"
  /\ sa' = to
  /\ target' = to
  /\ sim' = "sendto"
  /\ UNCHANGED <<useReceiveThread, msgInternal, nReceivedBytes, nRecvbufOverwrites,
                 runReceive, messageMutex, world, rx, call, result, sent, history>>

SendTo ==
  /\ sim = "sendto"
  /\ sent' = [to |-> target, went |-> sa]
  /\ target' = Nobody
  /\ sim' = "idle"
  /\ UNCHANGED <<object, world, rx, call, result, history>>

\* The host is not found, or sendto fails.
SendFails ==
  /\ sim \in {"idle", "sendto"}
  /\ sim' = "error"
  /\ UNCHANGED <<object, world, rx, call, target, result, sent, history>>

(* MDD_udpDestructor *)

DestroyWithoutJoin ==
  /\ sim = "idle"
  /\ runReceive' = FALSE
  /\ sim' = "free"
  /\ UNCHANGED <<useReceiveThread, msgInternal, nReceivedBytes, nRecvbufOverwrites,
                 messageMutex, sa, world, rx, call, target, result, sent, history>>

DestroyForgetsFlag ==
  /\ sim = "idle"
  /\ sim' = IF runReceive THEN "join" ELSE "free"
  /\ UNCHANGED <<object, world, rx, call, target, result, sent, history>>

Destroy ==
  /\ sim = "idle"
  /\ runReceive' = FALSE
  /\ sim' = IF runReceive THEN "join" ELSE "free"
  /\ UNCHANGED <<useReceiveThread, msgInternal, nReceivedBytes, nRecvbufOverwrites,
                 messageMutex, sa, world, rx, call, target, result, sent, history>>

Join ==
  /\ sim = "join"
  /\ rx = "done"
  /\ sim' = "free"
  /\ UNCHANGED <<object, world, rx, call, target, result, sent, history>>

\* pthread_mutex_destroy, close, free.
Free ==
  /\ sim = "free"
  /\ sim' = "destroyed"
  /\ listening' = FALSE
  /\ kernelQueue' = <<>>
  /\ UNCHANGED <<object, arrived, packageSize, package, rx, call, target, result,
                 sent, history>>

\* The simulation has ended, with or without an error.
Ended ==
  /\ sim \in {"destroyed", "error"}
  /\ UNCHANGED vars

Within == BlockingReceive \/ Lock \/ Copy \/ Take \/ SendTo \/ Join \/ Free

Next ==
  \/ \E len \in 0 .. MessageLength + 1, from \in Peers : Arrive(len, from)
  \/ Rx \/ RxPollFails \/ RxRecvFails
  \/ \E port \in {0, 1}, threaded \in BOOLEAN : Construct(port, threaded)
  \/ ConstructFails
  \/ \E c \in Calls \ {"none"} : Begin(c)
  \/ \E to \in Peers : Send(to)
  \/ Destroy
  \/ Within \/ BlockingReceiveFails \/ SendFails
  \/ Ended

(* Both threads are scheduled: the receiving thread, because poll returns  *)
(* within 100 ms, and the simulation inside a call it has begun.  That a   *)
(* call begins, that a datagram arrives or that a call fails is not        *)
(* assumed.                                                                *)
Spec == Init /\ [][Next]_vars /\ WF_vars(Rx) /\ WF_vars(Within)

----------------------------------------------------------------------------
(* Properties *)

\* A read that reports n bytes returns the first n bytes of the latest datagram
\* that carried data, all of them and of no other datagram: the receiving thread
\* (recvfrom, lines 390-397) never runs between the copy and the counters of a
\* read (485-490).  A read whose packager is too small ends in an error instead.
ReadIsLatest ==
  Running => \A i \in 1 .. result.n : result.bytes[i] = result.id

\* No datagram with data is lost without a trace: each one received was read, was
\* counted in nRecvbufOverwrites (388), or waits in the buffer (nReceivedBytes > 0).
\* The counter runs ahead while the thread is between counting and receiving.
Waiting == IF nReceivedBytes > 0 /\ rx # "recv" THEN 1 ELSE 0
OverwritesAccounted == received = delivered + nRecvbufOverwrites + Waiting

\* MDD_udpDestructor frees the object only when the receiving thread is gone and
\* nobody holds the mutex it destroys (789-811).
NoUseAfterFree ==
  sim \in {"free", "destroyed"} => rx \in {"none", "done"} /\ messageMutex = Nobody

\* MDD_udpDestructor returns, unless the simulation stopped with an error: its join
\* waits for a thread that sees runReceive = 0 after one more poll of 100 ms.
DestructorReturns == sim = "join" ~> sim \in {"destroyed", "error"}

\* With a receiving thread, a read does not wait for data: it returns although
\* no datagram ever arrives.
ReadReturns == sim = "lock" ~> sim \in {"idle", "error"}

\* "do not block ... for incoming data (latest available data is used)" (349): the
\* receiving thread drains the socket without the help of reads.  The simulation is
\* between two calls here: the mutex need not be fair to the receiving thread.
QueueDrained == <>[](sim = "idle" /\ runReceive) => <>[](kernelQueue = <<>>)

\* MDD_udpSend sends to the address it was given (doc of ipAddress and port, 623-624).
SendGoesToTarget == sent.went = sent.to

----------------------------------------------------------------------------
(* The inductive invariant behind ReadIsLatest, OverwritesAccounted and    *)
(* NoUseAfterFree.                                                         *)

\* Who holds the mutex is where its control point says.
MutexInv ==
  /\ messageMutex = "rx" <=> rx \in {"count", "recv"}
  /\ sim \in {"copy", "take"} => messageMutex = "sim"
  /\ messageMutex = "sim" => sim \in {"copy", "take", "error"}

\* The life of the receiving thread: only with useReceiveThread, until runReceive = 0.
ThreadInv ==
  /\ sim = "new" => rx = "none" /\ ~runReceive /\ ~useReceiveThread /\ nReceivedBytes = 0
  /\ rx # "none" => useReceiveThread
  /\ rx \in {"none", "done"} => ~runReceive
  /\ sim \in {"idle", "receive", "lock", "copy", "take", "sendto"} /\ rx # "none" => runReceive
  /\ sim \in {"free", "destroyed"} => rx \in {"none", "done"}
  /\ sim \in {"lock", "copy", "take"} => call # "none"
  /\ sim = "copy" => call # "GetReceivedBytes"
  /\ sim = "receive" => ~useReceiveThread /\ call \in {"Read", "ReadP2"}
  /\ sim \in {"new", "idle", "sendto", "join", "free", "destroyed"} => call = "none"

\* Without the thread, data waits in the buffer only within the read that received it.
BlockingInv ==
  ~useReceiveThread /\ nReceivedBytes > 0 =>
    sim \in {"lock", "copy", "take"} /\ call \in {"Read", "ReadP2"}

\* The buffer holds the latest datagram, and so does the copy a read has made.
BufferInv ==
  /\ \A i \in 1 .. nReceivedBytes : msgInternal[i] = latest
  /\ sim = "take" /\ call \in {"Read", "ReadP2"} /\ Fits => package = msgInternal

IInv ==
  /\ TypeOK
  /\ MutexInv
  /\ ThreadInv
  /\ BlockingInv
  /\ BufferInv
  /\ ReadIsLatest
  /\ OverwritesAccounted

\* Datagrams wait in the order of arrival, behind the latest one received; needed for
\* ImplementsMailbox only.
OrderInv ==
  /\ \A j \in DOMAIN kernelQueue : kernelQueue[j].id = arrived - Len(kernelQueue) + j
  /\ latest <= arrived - Len(kernelQueue)
  /\ nReceivedBytes > 0 => latest > 0

----------------------------------------------------------------------------
(* The driver implements the mailbox.  A message that is about to be overwritten  *)
(* has been counted as lost and is still in the buffer.                           *)
Mailbox == INSTANCE LatestMessage WITH
  Messages <- 1 .. MaxDatagrams,
  slot <- IF nReceivedBytes > 0 THEN latest ELSE 0,
  latest <- latest,
  lost <- nRecvbufOverwrites - (IF rx = "recv" /\ nReceivedBytes > 0 THEN 1 ELSE 0),
  taken <- IF result.n > 0 THEN result.id ELSE 0

\* Seen through its read calls the socket is a one-message mailbox that returns the
\* latest message at most once, in the order of arrival.
ImplementsMailbox == Mailbox!Spec
=============================================================================
