----------------------------- MODULE UdpWindows -----------------------------
(***************************************************************************)
(* The Windows half of MDDUDPSocket.h: one UDP socket, its receiving       *)
(* thread, which ends at the first error, and the simulation thread.  A    *)
(* datagram is a number, in the order of arrival, and a length; one that   *)
(* is longer than the buffer makes recvfrom fail.                          *)
(***************************************************************************)
EXTENDS Integers, Sequences

CONSTANTS
  BufferSize,    \* bufferSize of the constructor
  Lengths,       \* lengths of datagrams
  MaxDatagrams   \* bound: datagrams that arrive

UdpWindowsAssumption ==
  BufferSize \in Nat /\ MaxDatagrams \in Nat /\ Lengths \subseteq Nat

VARIABLES
  queue, arrived,              \* the kernel's queue, datagrams so far
  useReceiveThread, open,      \* the socket is open
  receiveBuffer, nReceivedBytes, nRecvbufOverwrites, receiving, receiveLock,
  rx,                          \* the thread
  sim, result,                 \* the simulation thread, and what its reads return
  taken, delivered             \* history: datagrams with bytes, received and read

udp == <<receiveBuffer, nReceivedBytes, nRecvbufOverwrites, receiving, receiveLock>>
vars == <<queue, arrived, useReceiveThread, open, udp, rx, sim, result, taken, delivered>>

SOCKET_ERROR == -1
Nothing == [n |-> 0, length |-> 0]
Datagrams == [n : 0 .. MaxDatagrams, length : Lengths]
NoResult == [of |-> Nothing, bytes |-> 0, overwrites |-> 0]

TypeOK ==
  /\ queue \in Seq(Datagrams) /\ arrived \in 0 .. MaxDatagrams
  /\ useReceiveThread \in BOOLEAN /\ open \in BOOLEAN /\ receiving \in BOOLEAN
  /\ receiveBuffer \in Datagrams \cup {Nothing}
  /\ nReceivedBytes \in SOCKET_ERROR .. BufferSize
  /\ nRecvbufOverwrites \in 0 .. MaxDatagrams + 1
  /\ receiveLock \in {"none", "free", "rx", "sim", "deleted"}
  /\ rx \in {"none", "test", "poll", "lock", "receive", "done"}
  /\ sim \in {"new", "idle", "receive", "lock", "copy", "report", "join", "free",
              "destroyed", "error", "behind"}
  /\ result \in [of : Datagrams \cup {Nothing}, bytes : SOCKET_ERROR .. BufferSize,
                 overwrites : Nat]
  /\ taken \in 0 .. MaxDatagrams /\ delivered \in 0 .. taken

Init ==
  /\ queue = <<>> /\ arrived = 0
  /\ useReceiveThread \in BOOLEAN /\ open = FALSE
  /\ receiveBuffer = Nothing /\ nReceivedBytes = 0 /\ nRecvbufOverwrites = 0
  /\ receiving = FALSE /\ receiveLock = "none"
  /\ rx = "none" /\ sim = "new" /\ result = NoResult
  /\ taken = 0 /\ delivered = 0

Running == sim \notin {"error", "behind"}

Arrive(length) ==
  /\ Running /\ open /\ arrived < MaxDatagrams
  /\ arrived' = arrived + 1
  /\ queue' = Append(queue, [n |-> arrived + 1, length |-> length])
  /\ UNCHANGED <<useReceiveThread, open, udp, rx, sim, result, taken, delivered>>

\* recvfrom: the next datagram; one that does not fit is gone, and an error.
Receive ==
  /\ queue # <<>>
  /\ queue' = Tail(queue)
  /\ receiveBuffer' = Head(queue)
  /\ nReceivedBytes' = IF Head(queue).length <= BufferSize THEN Head(queue).length
                                                            ELSE SOCKET_ERROR
  /\ taken' = IF Head(queue).length \in 1 .. BufferSize THEN taken + 1 ELSE taken

\* The socket was closed, or the target of a send before could not be reached.
ReceiveFails ==
  /\ nReceivedBytes' = SOCKET_ERROR
  /\ UNCHANGED <<queue, receiveBuffer, taken>>

----------------------------------------------------------------------------
(* MDD_udpReceivingThread *)

RxTest ==
  /\ Running /\ rx = "test"
  /\ rx' = IF receiving THEN "poll" ELSE "done"
  /\ UNCHANGED <<queue, arrived, useReceiveThread, open, udp, sim, result, taken, delivered>>

\* WSAPoll waits 100 ms.  POLLHUP is reported and the thread goes on; an error ends it.
RxPoll ==
  /\ Running /\ rx = "poll"
  /\ rx' \in {"test", "done"} \cup (IF queue # <<>> \/ ~open THEN {"lock"} ELSE {})
  /\ UNCHANGED <<queue, arrived, useReceiveThread, open, udp, sim, result, taken, delivered>>

RxLock ==
  /\ Running /\ rx = "lock" /\ receiveLock = "free"
  /\ receiveLock' = "rx"
  /\ rx' = "receive"
  /\ UNCHANGED <<queue, arrived, useReceiveThread, open, receiveBuffer, nReceivedBytes,
                 nRecvbufOverwrites, receiving, sim, result, taken, delivered>>

\* The message in the buffer is counted if nobody has read it; the lock is given back before
\* an error ends the thread.
RxReceiveKeepsLock ==
  /\ Running /\ rx = "receive"
  /\ nRecvbufOverwrites' = nRecvbufOverwrites + (IF nReceivedBytes > 0 THEN 1 ELSE 0)
  /\ Receive \/ ReceiveFails
  /\ receiveLock' = IF nReceivedBytes' = SOCKET_ERROR THEN receiveLock ELSE "free"
  /\ rx' = IF nReceivedBytes' = SOCKET_ERROR THEN "done" ELSE "test"
  /\ UNCHANGED <<arrived, useReceiveThread, open, receiving, sim, result, delivered>>

RxReceive ==
  /\ Running /\ rx = "receive"
  /\ nRecvbufOverwrites' = nRecvbufOverwrites + (IF nReceivedBytes > 0 THEN 1 ELSE 0)
  /\ Receive \/ ReceiveFails
  /\ receiveLock' = "free"
  /\ rx' = IF nReceivedBytes' = SOCKET_ERROR THEN "done" ELSE "test"
  /\ UNCHANGED <<arrived, useReceiveThread, open, receiving, sim, result, delivered>>

----------------------------------------------------------------------------
(* The simulation thread *)

\* MDD_udpConstructor with a port
Construct ==
  /\ sim = "new" /\ sim' = "idle"
  /\ open' = TRUE /\ receiveLock' = "free"
  /\ receiving' = useReceiveThread
  /\ rx' = IF useReceiveThread THEN "test" ELSE "none"
  /\ UNCHANGED <<queue, arrived, useReceiveThread, receiveBuffer, nReceivedBytes,
                 nRecvbufOverwrites, result, taken, delivered>>

\* WSAStartup, socket, bind or CreateThread fails, or a sendto of MDD_udpSend.
Fails ==
  /\ sim \in {"new", "idle"} /\ sim' = "error"
  /\ UNCHANGED <<queue, arrived, useReceiveThread, open, udp, rx, result, taken, delivered>>

\* MDD_udpRead, MDD_udpReadP2: without a thread they receive themselves.
Begin ==
  /\ sim = "idle"
  /\ sim' = IF useReceiveThread THEN "lock" ELSE "receive"
  /\ result' = NoResult
  /\ UNCHANGED <<queue, arrived, useReceiveThread, open, udp, rx, taken, delivered>>

BlockingReceive ==
  /\ sim = "receive" /\ sim' = "lock"
  /\ Receive \/ ReceiveFails
  /\ UNCHANGED <<arrived, useReceiveThread, open, nRecvbufOverwrites, receiving, receiveLock,
                 rx, result, delivered>>

LockUnguarded ==
  /\ sim = "lock"
  /\ receiveLock' = "sim" /\ sim' = "copy"
  /\ UNCHANGED <<queue, arrived, useReceiveThread, open, receiveBuffer, nReceivedBytes,
                 nRecvbufOverwrites, receiving, rx, result, taken, delivered>>

Lock ==
  /\ sim = "lock" /\ receiveLock = "free"
  /\ receiveLock' = "sim" /\ sim' = "copy"
  /\ UNCHANGED <<queue, arrived, useReceiveThread, open, receiveBuffer, nReceivedBytes,
                 nRecvbufOverwrites, receiving, rx, result, taken, delivered>>

\* The bytes are copied; SOCKET_ERROR is no length: memcpy of Read takes it for one, the
\* packager of ReadP2 refuses it, as it does a message that is too long for it.
Copy ==
  /\ sim = "copy"
  /\ sim' \in IF nReceivedBytes = SOCKET_ERROR THEN {"behind", "error"} ELSE {"report", "error"}
  /\ result' = IF sim' = "report"
               THEN [result EXCEPT !.of = IF nReceivedBytes = 0 THEN Nothing ELSE receiveBuffer]
               ELSE NoResult
  /\ UNCHANGED <<queue, arrived, useReceiveThread, open, udp, rx, taken, delivered>>

\* The counts are reported and the message is marked as read.
Report ==
  /\ sim = "report" /\ sim' = "idle"
  /\ result' = [result EXCEPT !.bytes = nReceivedBytes, !.overwrites = nRecvbufOverwrites]
  /\ delivered' = IF nReceivedBytes > 0 THEN delivered + 1 ELSE delivered
  /\ nReceivedBytes' = 0
  /\ receiveLock' = "free"
  /\ UNCHANGED <<queue, arrived, useReceiveThread, open, receiveBuffer, nRecvbufOverwrites,
                 receiving, rx, taken>>

\* MDD_udpDestructor: shutdown and closesocket come before the wait for the thread.
Destroy ==
  /\ sim = "idle"
  /\ receiving' = FALSE /\ open' = FALSE /\ queue' = <<>>
  /\ result' = NoResult
  /\ sim' = IF useReceiveThread THEN "join" ELSE "free"
  /\ UNCHANGED <<arrived, useReceiveThread, receiveBuffer, nReceivedBytes,
                 nRecvbufOverwrites, receiveLock, rx, taken, delivered>>

\* The thread ends within a second, or is terminated wherever it is, with the lock if it has
\* it.
Join ==
  /\ sim = "join" /\ sim' = "free"
  /\ rx' = "done"
  /\ UNCHANGED <<queue, arrived, useReceiveThread, open, udp, result, taken, delivered>>

\* The lock is deleted with the thread, whoever has it, and the object is freed.
Free ==
  /\ sim = "free" /\ sim' = "destroyed"
  /\ receiveLock' = IF useReceiveThread THEN "deleted" ELSE receiveLock
  /\ UNCHANGED <<queue, arrived, useReceiveThread, open, receiveBuffer, nReceivedBytes,
                 nRecvbufOverwrites, receiving, rx, result, taken, delivered>>

Ended ==
  /\ sim \in {"destroyed", "error", "behind"}
  /\ UNCHANGED vars

Next ==
  \/ \E length \in Lengths : Arrive(length)
  \/ RxTest \/ RxPoll \/ RxLock \/ RxReceive
  \/ Construct \/ Fails \/ Begin \/ BlockingReceive \/ Lock \/ Copy \/ Report
  \/ Destroy \/ Join \/ Free \/ Ended

Spec == Init /\ [][Next]_vars

----------------------------------------------------------------------------
(* Properties *)

\* A read returns a datagram with its own length, and reports none when none is new
\* (293-297); every datagram received with bytes was read once, is counted in "Accumulated
\* number of times new data was received without having been read out" (58), or waits
\* in the buffer.
DatagramsAccounted ==
  /\ sim \in {"idle", "join"} => result.bytes = result.of.length
  /\ (receiveLock = "free" /\ Running) =>
       taken = delivered + nRecvbufOverwrites + (IF nReceivedBytes > 0 THEN 1 ELSE 0)

\* Nobody waits for a lock that does not come free: who waits finds it free, or with one that
\* is about to give it back, never with a thread that ended or was terminated with it, nor
\* deleted (92-109, 197-207).
LockComesFree ==
  /\ sim = "lock" => receiveLock = "free" \/ (receiveLock = "rx" /\ rx = "receive")
  /\ Running /\ rx = "lock" =>
       receiveLock = "free" \/ (receiveLock = "sim" /\ sim \in {"copy", "report"})
=============================================================================
