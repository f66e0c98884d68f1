------------------------ MODULE CommunicationProofs -------------------------
(***************************************************************************)
(* Proofs about the drivers that communicate, as MCDevices looks at them:  *)
(* the TCP/IP client, the UDP socket and the TCP/IP server on Windows, the *)
(* serial port, the Softing CAN interface, the MQTT client and the LCM     *)
(* channel, for any number of descriptors, slots, clients, messages and    *)
(* calls and any sizes of data and buffers.  Each has an inductive         *)
(* invariant; a step of the drivers is a step of it or leaves it alone.    *)
(***************************************************************************)
EXTENDS MCDevices, TLAPS, WellFoundedInduction, SequenceTheorems, FiniteSetTheorems

----------------------------------------------------------------------------
(* The TCP/IP client (TcpClient) *)

\* From the attempt to connect on, the socket is open; afterwards it is connected.
SocketKept ==
  /\ tcpPc \in {"idle", "addresses", "connect", "ready", "send"} => tcpObject
  /\ tcpPc \in {"connect", "ready", "send"} => sfd \in Descriptors /\ tcpOpen[sfd] = "client"
  /\ tcpPc \in {"ready", "send"} => sfd \in connected
  /\ tcpPc = "connect" => left > 0

\* The first n bytes of the data
Prefix(size) == [k \in 1 .. size |-> k]

\* A send has sent the bytes in front of those left; nothing else adds to what was sent.
StreamKept ==
  /\ tcpPc = "send" => left <= dataSize /\ stream = Prefix(dataSize - left)
  /\ tcpPc # "send" => stream = <<>> \/ stream = Prefix(dataSize)

TcpIInv == Tcp!TypeOK /\ SocketKept /\ StreamKept

\* Some descriptor is the lowest of those that are free.
LEMMA LowestIsFree ==
  ASSUME Tcp!ClientAssumption, Tcp!Free # {}
  PROVE  Tcp!Lowest \in Tcp!Free
<1>1. \E d \in Tcp!Free : \A e \in Tcp!Free : d <= e
  <2>1. Tcp!Free \subseteq Nat
    BY DEF Tcp!Free, Tcp!ClientAssumption
  <2>2. PICK d \in Tcp!Free : \A e \in Tcp!Free : <<e, d>> \notin OpToRel(<, Nat)
    BY <2>1, NatLessThanWellFounded, WFMin
  <2>3. \A e \in Tcp!Free : ~(e < d)
    BY <2>1, <2>2 DEF OpToRel
  <2>4. QED
    BY <2>1, <2>3
<1>2. QED
  BY <1>1 DEF Tcp!Lowest

\* What follows the first n bytes makes the first n + k bytes.
LEMMA PrefixGrows ==
  ASSUME NEW size \in Nat, NEW k \in Nat
  PROVE  Prefix(size) \o [j \in 1 .. k |-> size + j] = Prefix(size + k)
<1> DEFINE s == Prefix(size)
           t == [j \in 1 .. k |-> size + j]
<1>1. s \in Seq(Nat) /\ Len(s) = size /\ \A j \in 1 .. size : s[j] = j
  BY DEF Prefix
<1>2. t \in Seq(Nat) /\ Len(t) = k /\ \A j \in 1 .. k : t[j] = size + j
  OBVIOUS
<1> HIDE DEF s, t
<1>3. /\ s \o t \in Seq(Nat) /\ Len(s \o t) = size + k
      /\ \A j \in 1 .. size + k : (s \o t)[j] = IF j <= size THEN s[j] ELSE t[j - size]
  <2>1. /\ s \o t \in Seq(Nat) /\ Len(s \o t) = Len(s) + Len(t)
        /\ \A j \in 1 .. Len(s) + Len(t) : (s \o t)[j] = IF j <= Len(s) THEN s[j] ELSE t[j - Len(s)]
    BY <1>1, <1>2, ConcatProperties
  <2>2. QED
    BY <1>1, <1>2, <2>1
<1>4. \A j \in 1 .. size + k : (s \o t)[j] = j
  <2> SUFFICES ASSUME NEW j \in 1 .. size + k PROVE (s \o t)[j] = j
    OBVIOUS
  <2>1. CASE j <= size
    BY <1>1, <1>3, <2>1
  <2>2. CASE j > size
    <3>1. j - size \in 1 .. k /\ (s \o t)[j] = t[j - size]
      BY <1>3, <2>2
    <3>2. t[j - size] = size + (j - size)
      BY <1>2, <3>1
    <3>3. size + (j - size) = j
      OBVIOUS
    <3>4. QED
      BY <3>1, <3>2, <3>3
  <2>3. j <= size \/ j > size
    OBVIOUS
  <2>4. QED
    BY <2>1, <2>2, <2>3
<1>5. /\ Prefix(size + k) \in Seq(Nat) /\ Len(Prefix(size + k)) = size + k
      /\ \A j \in 1 .. size + k : Prefix(size + k)[j] = j
  BY DEF Prefix
<1>6. s \o t = Prefix(size + k)
  <2> DEFINE u == Prefix(size + k)
             v == s \o t
  <2>1. /\ u \in Seq(Nat) /\ Len(u) = size + k /\ \A j \in 1 .. size + k : u[j] = j
        /\ v \in Seq(Nat) /\ Len(v) = size + k /\ \A j \in 1 .. size + k : v[j] = j
    BY <1>3, <1>4, <1>5
  <2> HIDE DEF u, v
  <2>2. /\ Len(v) = Len(u)
        /\ \A j \in 1 .. Len(v) : v[j] = u[j]
    BY <2>1
  <2>3. v = u
    BY <2>1, <2>2, SeqEqual
  <2>4. QED
    BY <2>3 DEF u, v
<1>7. QED
  BY <1>6 DEF s, t

\* One write puts the next k bytes behind those sent.
LEMMA TcpWriteStep == ASSUME TcpIInv, NEW k \in Nat, Tcp!Write(k) PROVE TcpIInv'
<1>1. /\ tcpPc = "send" /\ k \in 1 .. left /\ left \in Nat /\ dataSize \in Nat /\ left <= dataSize
      /\ stream = Prefix(dataSize - left)
  BY DEF Tcp!Write, TcpIInv, Tcp!TypeOK, StreamKept
<1> DEFINE size == dataSize - left
<1>2. size \in Nat /\ k \in Nat /\ left - k \in Nat /\ left - k <= dataSize
      /\ dataSize - (left - k) = size + k
  BY <1>1
<1>3. stream' = stream \o [j \in 1 .. (size + k) - (size + 1) + 1 |-> size + 1 + j - 1]
  BY DEF Tcp!Write, Tcp!Transmit
<1>4. [j \in 1 .. (size + k) - (size + 1) + 1 |-> size + 1 + j - 1] = [j \in 1 .. k |-> size + j]
  BY <1>2
<1>5. stream' = Prefix(size + k)
  BY <1>1, <1>2, <1>3, <1>4, PrefixGrows
<1>6. stream' \in Seq(Nat)
  BY <1>2, <1>5 DEF Prefix
<1>7. /\ left' = left - k
      /\ UNCHANGED <<tcpPlatform, tcpOpen, connected, winsock, tcpObject, sfd, tcpPc, dataSize, calls>>
  BY DEF Tcp!Write
<1>8. Tcp!TypeOK'
  BY <1>2, <1>6, <1>7 DEF TcpIInv, Tcp!TypeOK
<1>9. SocketKept'
  BY <1>1, <1>7 DEF TcpIInv, SocketKept
<1>10. StreamKept'
  BY <1>1, <1>2, <1>5, <1>7 DEF StreamKept
<1>11. QED
  BY <1>8, <1>9, <1>10 DEF TcpIInv

\* The first byte of nothing, and the start of a send
LEMMA EmptyPrefix == Prefix(0) = <<>> /\ \A size \in Nat : size - size = 0
  BY DEF Prefix

\* Every step keeps the invariant.
LEMMA TcpIInvStep == ASSUME Tcp!ClientAssumption, TcpIInv, [Tcp!Next]_Tcp!vars PROVE TcpIInv'
<1>0. Tcp!TypeOK /\ SocketKept /\ StreamKept
  BY DEF TcpIInv
<1>l. Tcp!Free # {} => Tcp!Lowest \in Descriptors /\ Tcp!Lowest \in Tcp!Free /\ tcpOpen[Tcp!Lowest] = "no"
  BY LowestIsFree DEF Tcp!Free
<1>1. CASE Tcp!Others
  <2>1. \/ Tcp!Free # {} /\ tcpOpen' = [tcpOpen EXCEPT ![Tcp!Lowest] = "other"]
        \/ \E d \in Descriptors : tcpOpen[d] = "other" /\ tcpOpen' = [tcpOpen EXCEPT ![d] = "no"]
    BY <1>1 DEF Tcp!Others
  <2>2. tcpOpen' \in [Descriptors -> {"no", "client", "other"}]
    BY <1>0, <2>1 DEF Tcp!TypeOK
  <2>3. \A d \in Descriptors : tcpOpen[d] = "client" => tcpOpen'[d] = "client"
    BY <1>0, <1>l, <2>1 DEF Tcp!TypeOK
  <2>4. QED
    BY <1>0, <1>1, <2>2, <2>3 DEF Tcp!Others, TcpIInv, Tcp!TypeOK, SocketKept, StreamKept
<1>2. CASE Tcp!Construct
  <2>1. /\ tcpOpen' \in [Descriptors -> {"no", "client", "other"}]
        /\ sfd' \in Descriptors \cup {Tcp!None} /\ winsock' \in Int
    BY <1>0, <1>2, <1>l DEF Tcp!Construct, Tcp!TypeOK
  <2>2. QED
    BY <1>0, <1>2, <2>1 DEF Tcp!Construct, TcpIInv, Tcp!TypeOK, SocketKept, StreamKept
<1>3. CASE Tcp!ConstructFails
  BY <1>0, <1>3 DEF Tcp!ConstructFails, TcpIInv, Tcp!TypeOK, SocketKept, StreamKept
<1>4. ASSUME NEW size \in 1 .. Addresses, Tcp!Connect(size) PROVE TcpIInv'
  <2>1. size \in Nat
    BY DEF Tcp!ClientAssumption
  <2>2. QED
    BY <1>0, <1>4, <2>1 DEF Tcp!Connect, TcpIInv, Tcp!TypeOK, SocketKept, StreamKept
<1>5. CASE Tcp!ConnectFails
  <2>1. tcpPc \in {"idle", "addresses"} /\ Tcp!GiveUp
    BY <1>5 DEF Tcp!ConnectFails
  <2>2. /\ tcpPc' = "error" /\ left' = 0 /\ tcpObject' \in BOOLEAN /\ winsock' \in Int
        /\ UNCHANGED <<tcpPlatform, tcpOpen, connected, sfd, dataSize, stream, calls>>
    <3>1. tcpObject \in BOOLEAN /\ winsock \in Int
      BY <1>0 DEF Tcp!TypeOK
    <3>2. CASE Tcp!Linux
      BY <2>1, <3>1, <3>2 DEF Tcp!GiveUp
    <3>3. CASE ~Tcp!Linux
      <4>1. /\ tcpPc' = "error" /\ left' = 0 /\ tcpObject' = FALSE /\ winsock' = winsock - 1
            /\ UNCHANGED <<tcpPlatform, tcpOpen, connected, sfd, dataSize, stream, calls>>
        BY <2>1, <3>3 DEF Tcp!GiveUp
      <4>2. winsock - 1 \in Int
        BY <3>1
      <4>3. QED
        BY <4>1, <4>2
    <3>4. QED
      BY <3>2, <3>3
  <2>3. Tcp!TypeOK'
    BY <1>0, <2>2 DEF Tcp!TypeOK
  <2>4. QED
    BY <1>0, <2>1, <2>2, <2>3 DEF TcpIInv, SocketKept, StreamKept
<1>6. CASE Tcp!Socket
  <2>1. /\ tcpOpen' \in [Descriptors -> {"no", "client", "other"}]
        /\ sfd' \in Descriptors \cup {Tcp!None} /\ left' \in Nat
        /\ tcpPc' \in {"addresses", "connect"}
        /\ tcpPc' = "connect" => sfd' \in Descriptors /\ tcpOpen'[sfd'] = "client"
    BY <1>0, <1>6, <1>l DEF Tcp!Socket, Tcp!TypeOK
  <2>2. QED
    BY <1>0, <1>6, <2>1 DEF Tcp!Socket, TcpIInv, Tcp!TypeOK, SocketKept, StreamKept
<1>7. CASE Tcp!ConnectOne
  BY <1>0, <1>7 DEF Tcp!ConnectOne, TcpIInv, Tcp!TypeOK, SocketKept, StreamKept
<1>8. CASE Tcp!ConnectRefused
  <2>1. left - 1 \in Nat \/ left = 0
    BY <1>0 DEF Tcp!TypeOK
  <2>2. tcpPc = "connect" => left > 0
    BY <1>0 DEF SocketKept
  <2>3. QED
    BY <1>0, <1>8, <2>1, <2>2 DEF Tcp!ConnectRefused, TcpIInv, Tcp!TypeOK, SocketKept, StreamKept
<1>9. ASSUME NEW size \in DataSizes, Tcp!Send(size) PROVE TcpIInv'
  <2>1. size \in Nat /\ calls + 1 \in 0 .. MaxCalls
    BY <1>0, <1>9 DEF Tcp!ClientAssumption, Tcp!Send, Tcp!TypeOK
  <2>2. StreamKept'
    BY <1>9, <2>1, EmptyPrefix DEF Tcp!Send, StreamKept
  <2>3. QED
    BY <1>0, <1>9, <2>1, <2>2 DEF Tcp!Send, TcpIInv, Tcp!TypeOK, SocketKept
<1>10. ASSUME NEW k \in 1 .. dataSize, Tcp!Write(k) PROVE TcpIInv'
  BY <1>0, <1>10, TcpWriteStep DEF Tcp!TypeOK
<1>11. CASE Tcp!SendReturns
  <2>1. dataSize - left = dataSize
    BY <1>0, <1>11 DEF Tcp!SendReturns, Tcp!TypeOK
  <2>2. QED
    BY <1>0, <1>11, <2>1 DEF Tcp!SendReturns, TcpIInv, Tcp!TypeOK, SocketKept, StreamKept
<1>12. CASE Tcp!SendFails
  BY <1>0, <1>12 DEF Tcp!SendFails, TcpIInv, Tcp!TypeOK, SocketKept, StreamKept
<1>13. CASE Tcp!ReadFails
  BY <1>0, <1>13 DEF Tcp!ReadFails, TcpIInv, Tcp!TypeOK, SocketKept, StreamKept
<1>14. CASE Tcp!Destroy
  <2>1. tcpOpen' \in [Descriptors -> {"no", "client", "other"}] /\ winsock' \in Int
    BY <1>0, <1>14 DEF Tcp!Destroy, Tcp!TypeOK
  <2>2. QED
    BY <1>0, <1>14, <2>1 DEF Tcp!Destroy, TcpIInv, Tcp!TypeOK, SocketKept, StreamKept
<1>15. CASE Tcp!PackageTooSmall
  BY <1>0, <1>15 DEF Tcp!PackageTooSmall, TcpIInv, Tcp!TypeOK, SocketKept, StreamKept
<1>16. CASE UNCHANGED Tcp!vars
  BY <1>0, <1>16 DEF Tcp!vars, TcpIInv, Tcp!TypeOK, SocketKept, StreamKept
<1>17. QED
  BY <1>1, <1>2, <1>3, <1>4, <1>5, <1>6, <1>7, <1>8, <1>9, <1>10, <1>11, <1>12, <1>13,
     <1>14, <1>15, <1>16 DEF Tcp!Next, Tcp!Ended

\* The invariant holds in the initial states.
LEMMA InitTcpIInv == ASSUME Tcp!ClientAssumption, Tcp!Init PROVE TcpIInv
<1>1. Tcp!TypeOK
  <2>1. 0 \in 0 .. MaxCalls
    BY DEF Tcp!ClientAssumption
  <2>2. /\ tcpOpen \in [Descriptors -> {"no", "client", "other"}] /\ connected \subseteq Descriptors
        /\ winsock \in Int /\ left \in Nat /\ dataSize \in Nat /\ calls \in 0 .. MaxCalls
        /\ stream \in Seq(Nat)
    BY <2>1 DEF Tcp!Init
  <2>3. /\ tcpPlatform \in Platforms /\ tcpObject \in BOOLEAN /\ sfd \in Descriptors \cup {Tcp!None}
        /\ tcpPc \in {"new", "idle", "addresses", "connect", "ready", "send", "destroyed", "error"}
    BY DEF Tcp!Init
  <2>4. QED
    BY <2>2, <2>3 DEF Tcp!TypeOK
<1>2. QED
  BY <1>1 DEF Tcp!Init, TcpIInv, SocketKept, StreamKept

\* A step of the drivers is one of this driver, or leaves it alone.
LEMMA TcpSteps == ASSUME [DevicesNext]_DeviceVars PROVE [Tcp!Next]_Tcp!vars
  BY DEF DevicesNext, OthersRest, DeviceVars, TcpVars, Tcp!vars

\* In every state of the drivers its invariant holds.
LEMMA TcpInvariance == DevicesSpec => []TcpIInv
<1>1. DevicesInit => TcpIInv
  BY InitTcpIInv, DevicesAssumption DEF DevicesAssumption, DevicesInit
<1>2. TcpIInv /\ [DevicesNext]_DeviceVars => TcpIInv'
  <2> SUFFICES ASSUME TcpIInv, [DevicesNext]_DeviceVars PROVE TcpIInv'
    OBVIOUS
  <2>1. [Tcp!Next]_Tcp!vars
    BY TcpSteps
  <2>2. QED
    BY <2>1, TcpIInvStep, DevicesAssumption DEF DevicesAssumption
<1>3. QED
  BY <1>1, <1>2, PTL DEF DevicesSpec

\* Whatever addresses failed before and whatever descriptors the rest of the simulation
\* opens and closes, the client uses an open socket that it connected itself
\* (MDDTCPIPSocket.h, 81-120, 265-284).
THEOREM UsesItsConnection == DevicesSpec => []SocketIsConnected
<1>1. TcpIInv => SocketIsConnected
  BY DEF TcpIInv, SocketKept, SocketIsConnected, Tcp!SocketIsConnected
<1>2. QED
  BY <1>1, TcpInvariance, PTL

\* A send that returns has sent every byte once and in order, in however many pieces the
\* system takes them (MDDTCPIPSocket.h, 298-324).
THEOREM EverythingIsSent == DevicesSpec => []SendsEverything
<1>1. TcpIInv => SendsEverything
  BY DEF TcpIInv, StreamKept, SendsEverything, Tcp!SendsEverything, Prefix
<1>2. QED
  BY <1>1, TcpInvariance, PTL

----------------------------------------------------------------------------
(* The UDP socket on Windows (UdpWindows) *)

\* The lock is with the thread that is between taking and giving it back, and what is in the
\* buffer has the length that was received.
UdpLocked ==
  /\ udpRx = "receive" => receiveLock = "rx"
  /\ udpSim \in {"copy", "report"} => receiveLock = "sim"
  /\ nReceivedBytes > 0 => receiveBuffer.length = nReceivedBytes

\* A read finds its datagram or nothing in the buffer and reports that, no failed one; without
\* a thread there is nothing new in the buffer when it begins.
UdpReads ==
  /\ udpSim = "report" => /\ nReceivedBytes # Udp!SOCKET_ERROR
                          /\ udpResult.of.length = nReceivedBytes
  /\ udpSim = "receive" => nReceivedBytes = 0
  /\ ~useReceiveThread /\ udpSim = "idle" => nReceivedBytes = 0
  /\ udpSim = "receive" => ~useReceiveThread
  /\ udpSim = "join" => useReceiveThread
  /\ ~useReceiveThread => udpRx = "none"
  /\ udpSim = "new" => nReceivedBytes = 0 /\ udpResult = Udp!NoResult /\ udpRx = "none"
  /\ udpSim \in {"idle", "join"} => udpResult.bytes = udpResult.of.length

\* Of the datagrams that arrived, those that are not in the queue were received.
UdpCounted ==
  /\ taken = delivered + nRecvbufOverwrites + (IF nReceivedBytes > 0 THEN 1 ELSE 0)
  /\ taken + Len(queue) <= udpArrived

\* The lock is there from the constructor to the destructor, and who has it is about to give
\* it back, unless the simulation ended with it, or the thread was terminated with it.
UdpHolder ==
  /\ receiveLock = "none" => udpSim \in {"new", "error"} /\ udpRx = "none"
  /\ receiveLock = "rx" => udpRx = "receive" \/ udpSim \in {"free", "destroyed"}
  /\ receiveLock = "sim" => udpSim \in {"copy", "report"} \/ ~Udp!Running
  /\ receiveLock = "deleted" => udpSim = "destroyed"
  /\ udpSim \in {"free", "destroyed"} => udpRx \in {"none", "done"}

UdpIInv == Udp!TypeOK /\ UdpLocked /\ UdpReads /\ UdpCounted /\ UdpHolder

\* What a read returns
UdpResults == [of : Udp!Datagrams \cup {Udp!Nothing}, bytes : Udp!SOCKET_ERROR .. BufferSize, overwrites : Nat]

\* Before it has read anything, a read has read nothing.
LEMMA UdpNothing ==
  ASSUME Udp!UdpWindowsAssumption
  PROVE  /\ Udp!NoResult \in UdpResults /\ Udp!NoResult.bytes = Udp!NoResult.of.length
         /\ Udp!Nothing.length = 0
  BY DEF Udp!UdpWindowsAssumption, UdpResults, Udp!NoResult, Udp!Nothing, Udp!SOCKET_ERROR

\* The invariant holds in the initial states.
LEMMA InitUdpIInv ==
  ASSUME Udp!UdpWindowsAssumption, Udp!Init
  PROVE  UdpIInv
<1>1. Udp!TypeOK
  <2>1. /\ nReceivedBytes \in Udp!SOCKET_ERROR .. BufferSize /\ udpArrived \in 0 .. MaxDatagrams
        /\ nRecvbufOverwrites \in 0 .. MaxDatagrams + 1
        /\ taken \in 0 .. MaxDatagrams /\ delivered \in 0 .. taken
    BY DEF Udp!UdpWindowsAssumption, Udp!Init, Udp!SOCKET_ERROR
  <2>2. queue \in Seq(Udp!Datagrams)
    BY DEF Udp!Init
  <2>3. QED
    BY <2>1, <2>2, UdpNothing DEF Udp!Init, Udp!TypeOK, UdpResults
<1>2. UdpLocked /\ UdpReads /\ UdpCounted /\ UdpHolder
  BY UdpNothing DEF Udp!UdpWindowsAssumption, Udp!Init, UdpLocked, UdpReads, UdpCounted,
     UdpHolder, Udp!Running, Udp!SOCKET_ERROR
<1>3. QED
  BY <1>1, <1>2 DEF UdpIInv

\* What recvfrom leaves in the buffer is the head of the queue, with the length received.
LEMMA DatagramStep ==
  ASSUME Udp!UdpWindowsAssumption, UdpIInv, Udp!Receive \/ Udp!ReceiveFails
  PROVE  /\ queue' \in Seq(Udp!Datagrams)
         /\ receiveBuffer' \in Udp!Datagrams \cup {Udp!Nothing}
         /\ nReceivedBytes' \in Udp!SOCKET_ERROR .. BufferSize
         /\ nReceivedBytes' > 0 => receiveBuffer'.length = nReceivedBytes'
         /\ taken' = taken + (IF nReceivedBytes' > 0 THEN 1 ELSE 0)
         /\ taken' + Len(queue') <= udpArrived
<1> USE DEF Udp!SOCKET_ERROR
<1>1. /\ queue \in Seq(Udp!Datagrams) /\ taken \in Nat /\ udpArrived \in Nat /\ BufferSize \in Nat
      /\ receiveBuffer \in Udp!Datagrams \cup {Udp!Nothing} /\ Len(queue) \in Nat
      /\ taken + Len(queue) <= udpArrived
  BY DEF UdpIInv, Udp!TypeOK, UdpCounted, Udp!UdpWindowsAssumption
<1>2. CASE Udp!ReceiveFails
  BY <1>1, <1>2 DEF Udp!ReceiveFails
<1>3. CASE Udp!Receive
  <2>1. /\ queue # <<>> /\ queue' = Tail(queue) /\ receiveBuffer' = Head(queue)
        /\ nReceivedBytes' = IF Head(queue).length <= BufferSize THEN Head(queue).length
                                                                 ELSE Udp!SOCKET_ERROR
        /\ taken' = IF Head(queue).length \in 1 .. BufferSize THEN taken + 1 ELSE taken
    BY <1>3 DEF Udp!Receive
  <2>2. /\ Head(queue) \in Udp!Datagrams /\ Tail(queue) \in Seq(Udp!Datagrams)
        /\ Len(Tail(queue)) = Len(queue) - 1
    BY <1>1, <2>1, HeadTailProperties
  <2>3. Head(queue).length \in Nat
    BY <2>2 DEF Udp!Datagrams, Udp!UdpWindowsAssumption
  <2>4. Len(queue) > 0
    BY <1>1, <2>1, EmptySeq
  <2>5. QED
    BY <1>1, <2>1, <2>2, <2>3, <2>4
<1>4. QED
  BY <1>2, <1>3

\* Every step keeps the invariant.
LEMMA UdpIInvStep ==
  ASSUME Udp!UdpWindowsAssumption, UdpIInv, [Udp!Next]_Udp!vars
  PROVE  UdpIInv'
<1>1. ASSUME NEW len \in Lengths, Udp!Arrive(len) PROVE UdpIInv'
  <2>1. [n |-> udpArrived + 1, length |-> len] \in Udp!Datagrams
    BY <1>1 DEF UdpIInv, Udp!TypeOK, Udp!Arrive, Udp!Datagrams, Udp!UdpWindowsAssumption
  <2>2. queue' \in Seq(Udp!Datagrams) /\ Len(queue') = Len(queue) + 1 /\ Len(queue) \in Nat
    BY <1>1, <2>1, AppendProperties DEF UdpIInv, Udp!TypeOK, Udp!Arrive
  <2>3. QED
    BY <1>1, <2>2
    DEF UdpIInv, Udp!TypeOK, UdpLocked, UdpReads, UdpCounted, UdpHolder, Udp!Running, Udp!Arrive,
       Udp!udp, Udp!UdpWindowsAssumption
<1>2. CASE Udp!RxTest
  BY <1>2
  DEF UdpIInv, Udp!TypeOK, UdpLocked, UdpReads, UdpCounted, UdpHolder, Udp!RxTest,
      Udp!udp, Udp!vars, Udp!Running, Udp!UdpWindowsAssumption, Udp!SOCKET_ERROR, Udp!NoResult,
      Udp!Nothing
<1>3. CASE Udp!RxPoll
  BY <1>3
  DEF UdpIInv, Udp!TypeOK, UdpLocked, UdpReads, UdpCounted, UdpHolder, Udp!RxPoll,
      Udp!udp, Udp!vars, Udp!Running, Udp!UdpWindowsAssumption, Udp!SOCKET_ERROR, Udp!NoResult,
      Udp!Nothing
<1>4. CASE Udp!RxLock
  BY <1>4
  DEF UdpIInv, Udp!TypeOK, UdpLocked, UdpReads, UdpCounted, UdpHolder, Udp!RxLock,
      Udp!udp, Udp!vars, Udp!Running, Udp!UdpWindowsAssumption, Udp!SOCKET_ERROR, Udp!NoResult,
      Udp!Nothing
<1>5. CASE Udp!RxReceive
  <2>1. /\ receiveLock = "rx" /\ udpRx = "receive" /\ udpSim \notin {"copy", "report"}
    BY <1>5 DEF UdpIInv, UdpLocked, Udp!RxReceive
  <2>2. /\ queue' \in Seq(Udp!Datagrams)
        /\ receiveBuffer' \in Udp!Datagrams \cup {Udp!Nothing}
        /\ nReceivedBytes' \in Udp!SOCKET_ERROR .. BufferSize
        /\ nReceivedBytes' > 0 => receiveBuffer'.length = nReceivedBytes'
        /\ taken' = taken + (IF nReceivedBytes' > 0 THEN 1 ELSE 0)
        /\ taken' + Len(queue') <= udpArrived
    BY <1>5, DatagramStep DEF Udp!RxReceive
  <2>3. Len(queue') \in Nat
    BY <2>2
  <2>4. UdpCounted'
    BY <1>5, <2>2
    DEF UdpIInv, Udp!TypeOK, UdpCounted, Udp!RxReceive, Udp!UdpWindowsAssumption, Udp!SOCKET_ERROR
  <2>5. /\ taken' \in 0 .. MaxDatagrams /\ delivered' \in 0 .. taken'
        /\ nRecvbufOverwrites' \in 0 .. MaxDatagrams + 1
    BY <1>5, <2>2, <2>3, <2>4
    DEF UdpIInv, Udp!TypeOK, UdpCounted, Udp!RxReceive, Udp!UdpWindowsAssumption,
       Udp!SOCKET_ERROR
  <2>6. Udp!TypeOK'
    BY <1>5, <2>2, <2>5 DEF UdpIInv, Udp!TypeOK, Udp!RxReceive
  <2>7. UdpReads'
    <3>1. useReceiveThread
      BY <2>1 DEF UdpIInv, UdpReads
    <3>2. udpSim \notin {"receive", "new"}
      BY <2>1, <3>1 DEF UdpIInv, UdpReads
    <3>3. QED
      BY <1>5, <2>1, <3>1, <3>2 DEF UdpIInv, UdpReads, Udp!RxReceive
  <2>8. UdpLocked' /\ UdpHolder'
    BY <1>5, <2>1, <2>2
    DEF UdpIInv, Udp!TypeOK, UdpLocked, UdpReads, UdpHolder, Udp!Running, Udp!RxReceive
  <2>9. QED
    BY <2>4, <2>6, <2>7, <2>8 DEF UdpIInv
<1>6. CASE Udp!Construct
  <2>1. Udp!TypeOK'
    BY <1>6 DEF UdpIInv, Udp!TypeOK, UdpCounted, Udp!Construct, Udp!SOCKET_ERROR
  <2>2. UdpLocked'
    BY <1>6 DEF UdpIInv, Udp!TypeOK, UdpLocked, Udp!Construct, Udp!SOCKET_ERROR
  <2>3. UdpReads'
    BY <1>6, UdpNothing
    DEF UdpIInv, Udp!TypeOK, UdpLocked, UdpReads, Udp!Construct, Udp!SOCKET_ERROR
  <2>4. UdpCounted'
    BY <1>6 DEF UdpIInv, Udp!TypeOK, UdpReads, UdpCounted, Udp!Construct, Udp!SOCKET_ERROR
  <2>5. UdpHolder'
    BY <1>6
    DEF UdpIInv, Udp!TypeOK, UdpLocked, UdpReads, UdpHolder, Udp!Running, Udp!Construct,
        Udp!SOCKET_ERROR
  <2>6. QED
    BY <2>1, <2>2, <2>3, <2>4, <2>5 DEF UdpIInv
<1>7. CASE Udp!Fails
  BY <1>7
  DEF UdpIInv, Udp!TypeOK, UdpLocked, UdpReads, UdpCounted, UdpHolder, Udp!Fails,
      Udp!udp, Udp!vars, Udp!Running, Udp!UdpWindowsAssumption, Udp!SOCKET_ERROR, Udp!NoResult,
      Udp!Nothing
<1>8. CASE Udp!Begin
  BY <1>8
  DEF UdpIInv, Udp!TypeOK, UdpLocked, UdpReads, UdpCounted, UdpHolder, Udp!Begin,
      Udp!udp, Udp!vars, Udp!Running, Udp!UdpWindowsAssumption, Udp!SOCKET_ERROR, Udp!NoResult,
      Udp!Nothing
<1>9. CASE Udp!BlockingReceive
  BY SMTT(30), <1>9, DatagramStep
  DEF UdpIInv, Udp!TypeOK, UdpLocked, UdpReads, UdpCounted, UdpHolder,
      Udp!BlockingReceive, Udp!udp, Udp!vars, Udp!Running, Udp!UdpWindowsAssumption,
      Udp!SOCKET_ERROR, Udp!NoResult, Udp!Nothing
<1>10. CASE Udp!Lock
  BY <1>10
  DEF UdpIInv, Udp!TypeOK, UdpLocked, UdpReads, UdpCounted, UdpHolder, Udp!Lock,
      Udp!udp, Udp!vars, Udp!Running, Udp!UdpWindowsAssumption, Udp!SOCKET_ERROR, Udp!NoResult,
      Udp!Nothing
<1>11. CASE Udp!Copy
  <2>1. Udp!TypeOK'
    <3>1. udpResult' \in UdpResults
      <4>1. CASE udpSim' = "report"
        <5>1. udpResult \in UdpResults /\ receiveBuffer \in Udp!Datagrams \cup {Udp!Nothing}
          BY DEF UdpIInv, Udp!TypeOK, UdpResults
        <5>2. udpResult' = [udpResult EXCEPT !.of = IF nReceivedBytes = 0 THEN Udp!Nothing
                                                                        ELSE receiveBuffer]
          BY <1>11, <4>1 DEF Udp!Copy
        <5>3. QED
          BY <5>1, <5>2 DEF UdpResults
      <4>2. CASE udpSim' # "report"
        BY <1>11, <4>2, UdpNothing DEF Udp!Copy
      <4>3. QED
        BY <4>1, <4>2
    <3>2. QED
      BY <1>11, <3>1 DEF UdpIInv, Udp!TypeOK, Udp!Copy, Udp!udp, UdpResults
  <2>2. UdpLocked'
    BY <1>11 DEF UdpIInv, Udp!TypeOK, UdpLocked, Udp!Copy, Udp!udp, Udp!SOCKET_ERROR
  <2>3. UdpReads'
    BY <1>11, UdpNothing
    DEF UdpIInv, Udp!TypeOK, UdpLocked, UdpReads, Udp!Copy, Udp!udp, Udp!SOCKET_ERROR
  <2>4. UdpCounted'
    BY <1>11 DEF UdpIInv, Udp!TypeOK, UdpReads, UdpCounted, Udp!Copy, Udp!udp, Udp!SOCKET_ERROR
  <2>5. UdpHolder'
    BY <1>11
    DEF UdpIInv, Udp!TypeOK, UdpLocked, UdpReads, UdpHolder, Udp!Running, Udp!Copy, Udp!udp,
        Udp!SOCKET_ERROR
  <2>6. QED
    BY <2>1, <2>2, <2>3, <2>4, <2>5 DEF UdpIInv
<1>12. CASE Udp!Report
  <2>1. Udp!TypeOK'
    <3>1. udpResult' \in UdpResults
      <4>1. udpResult \in UdpResults
        BY DEF UdpIInv, Udp!TypeOK, UdpResults
      <4>2. nReceivedBytes \in Udp!SOCKET_ERROR .. BufferSize /\ nRecvbufOverwrites \in Nat
        BY DEF UdpIInv, Udp!TypeOK, Udp!UdpWindowsAssumption
      <4>3. QED
        BY <1>12, <4>1, <4>2 DEF Udp!Report, UdpResults
    <3>2. nReceivedBytes' \in Udp!SOCKET_ERROR .. BufferSize
      BY <1>12 DEF Udp!Report, Udp!UdpWindowsAssumption, Udp!SOCKET_ERROR
    <3>3. delivered' \in 0 .. taken
      <4>1. /\ taken \in Nat /\ delivered \in 0 .. taken /\ nRecvbufOverwrites \in Nat
            /\ taken = delivered + nRecvbufOverwrites + (IF nReceivedBytes > 0 THEN 1 ELSE 0)
        BY DEF UdpIInv, Udp!TypeOK, UdpCounted, Udp!UdpWindowsAssumption
      <4>2. QED
        BY <1>12, <4>1 DEF Udp!Report
    <3>4. QED
      BY <1>12, <3>1, <3>2, <3>3 DEF UdpIInv, Udp!TypeOK, Udp!Report, UdpResults
  <2>2. UdpLocked'
    BY <1>12 DEF UdpIInv, Udp!TypeOK, UdpLocked, Udp!Report, Udp!SOCKET_ERROR
  <2>3. UdpReads'
    BY <1>12, UdpNothing DEF UdpIInv, Udp!TypeOK, UdpLocked, UdpReads, Udp!Report, Udp!SOCKET_ERROR
  <2>4. UdpCounted'
    BY <1>12 DEF UdpIInv, Udp!TypeOK, UdpReads, UdpCounted, Udp!Report, Udp!SOCKET_ERROR
  <2>5. UdpHolder'
    BY <1>12
    DEF UdpIInv, Udp!TypeOK, UdpLocked, UdpReads, UdpHolder, Udp!Running, Udp!Report,
        Udp!SOCKET_ERROR
  <2>6. QED
    BY <2>1, <2>2, <2>3, <2>4, <2>5 DEF UdpIInv
<1>13. CASE Udp!Destroy
  <2>1. Udp!TypeOK'
    <3>1. queue' \in Seq(Udp!Datagrams)
      BY <1>13 DEF Udp!Destroy
    <3>2. QED
      BY <1>13, <3>1, UdpNothing DEF UdpIInv, Udp!TypeOK, Udp!Destroy, UdpResults
  <2>2. UdpLocked'
    BY <1>13 DEF UdpIInv, Udp!TypeOK, UdpLocked, Udp!Destroy, Udp!SOCKET_ERROR
  <2>3. UdpReads'
    BY <1>13, UdpNothing DEF UdpIInv, Udp!TypeOK, UdpLocked, UdpReads, Udp!Destroy, Udp!SOCKET_ERROR
  <2>4. UdpCounted'
    BY <1>13 DEF UdpIInv, Udp!TypeOK, UdpReads, UdpCounted, Udp!Destroy, Udp!SOCKET_ERROR
  <2>5. UdpHolder'
    BY <1>13
    DEF UdpIInv, Udp!TypeOK, UdpLocked, UdpReads, UdpHolder, Udp!Running, Udp!Destroy,
        Udp!SOCKET_ERROR
  <2>6. QED
    BY <2>1, <2>2, <2>3, <2>4, <2>5 DEF UdpIInv
<1>14. CASE Udp!Join
  <2>1. Udp!TypeOK'
    BY <1>14 DEF UdpIInv, Udp!TypeOK, UdpCounted, Udp!Join, Udp!udp, Udp!SOCKET_ERROR
  <2>2. UdpLocked'
    BY <1>14 DEF UdpIInv, Udp!TypeOK, UdpLocked, Udp!Join, Udp!udp, Udp!SOCKET_ERROR
  <2>3. UdpReads'
    BY <1>14, UdpNothing
    DEF UdpIInv, Udp!TypeOK, UdpLocked, UdpReads, Udp!Join, Udp!udp, Udp!SOCKET_ERROR
  <2>4. UdpCounted'
    BY <1>14 DEF UdpIInv, Udp!TypeOK, UdpReads, UdpCounted, Udp!Join, Udp!udp, Udp!SOCKET_ERROR
  <2>5. UdpHolder'
    BY <1>14
    DEF UdpIInv, Udp!TypeOK, UdpLocked, UdpReads, UdpHolder, Udp!Running, Udp!Join, Udp!udp,
        Udp!SOCKET_ERROR
  <2>6. QED
    BY <2>1, <2>2, <2>3, <2>4, <2>5 DEF UdpIInv
<1>15. CASE Udp!Free
  BY <1>15
  DEF UdpIInv, Udp!TypeOK, UdpLocked, UdpReads, UdpCounted, UdpHolder, Udp!Free,
      Udp!udp, Udp!vars, Udp!Running, Udp!UdpWindowsAssumption, Udp!SOCKET_ERROR, Udp!NoResult,
      Udp!Nothing
<1>16. CASE Udp!Ended
  BY <1>16
  DEF UdpIInv, Udp!TypeOK, UdpLocked, UdpReads, UdpCounted, UdpHolder, Udp!Ended,
      Udp!udp, Udp!vars, Udp!Running, Udp!UdpWindowsAssumption, Udp!SOCKET_ERROR, Udp!NoResult,
      Udp!Nothing
<1>17. CASE UNCHANGED Udp!vars
  BY <1>17
  DEF UdpIInv, Udp!TypeOK, UdpLocked, UdpReads, UdpCounted, UdpHolder, Udp!vars, Udp!udp, Udp!Running
<1>18. QED
  BY <1>1, <1>2, <1>3, <1>4, <1>5, <1>6, <1>7, <1>8, <1>9, <1>10, <1>11, <1>12, <1>13, <1>14,
     <1>15, <1>16, <1>17 DEF Udp!Next

\* Nobody waits for a lock that does not come free.
LEMMA UdpLockComesFree == ASSUME UdpIInv PROVE Udp!LockComesFree
  BY DEF UdpIInv, Udp!TypeOK, UdpHolder, Udp!LockComesFree, Udp!Running

\* A step of the drivers is one of this driver, or leaves it alone.
LEMMA UdpSteps == ASSUME [DevicesNext]_DeviceVars PROVE [Udp!Next]_Udp!vars
  BY DEF DevicesNext, OthersRest, DeviceVars, UdpVars, Udp!vars, Udp!udp

\* In every state of the drivers its invariant holds.
LEMMA UdpInvariance == DevicesSpec => []UdpIInv
<1>1. DevicesInit => UdpIInv
  BY InitUdpIInv, DevicesAssumption DEF DevicesAssumption, DevicesInit
<1>2. UdpIInv /\ [DevicesNext]_DeviceVars => UdpIInv'
  <2> SUFFICES ASSUME UdpIInv, [DevicesNext]_DeviceVars PROVE UdpIInv'
    OBVIOUS
  <2>1. [Udp!Next]_Udp!vars
    BY UdpSteps
  <2>2. QED
    BY <2>1, UdpIInvStep, DevicesAssumption DEF DevicesAssumption
<1>3. QED
  BY <1>1, <1>2, PTL DEF DevicesSpec

\* A read on Windows returns one datagram with its own length, or nothing, and every datagram
\* with bytes that the socket received was read once, is counted as overwritten, or waits in
\* the buffer, however the thread and the reads take turns (MDDUDPSocket.h, 58, 293-297).
THEOREM WindowsAccountsForDatagrams == DevicesSpec => []DatagramsAccounted
<1>1. UdpIInv => DatagramsAccounted
  BY DEF UdpIInv, UdpReads, UdpCounted, DatagramsAccounted, Udp!DatagramsAccounted
<1>2. QED
  BY <1>1, UdpInvariance, PTL

----------------------------------------------------------------------------
(* The TCP/IP server on Windows (TcpServerWindows) *)

\* A slot holds a client that was accepted, and no other slot does; the accepting thread has
\* an accepted client that is in no slot in its hand.
SlotsApart ==
  /\ \A s, t \in Server!Slots : clientSockets[s] = clientSockets[t] => s = t \/ clientSockets[s] = Invalid
  /\ \A s \in Server!Slots : clientSockets[s] # Invalid =>
       connection[clientSockets[s]] \in {"open", "gone", "closed"}
  /\ acc = "store" => /\ slots[i] \in Server!Accepted
                      /\ \A s \in Server!Slots : clientSockets[s] # slots[i]
  /\ serverSim # "destroyed" => \A c \in Server!Accepted :
       (acc = "store" /\ slots[i] = c) \/ \E s \in Server!Slots : clientSockets[s] = c

\* Clients wait once.
BacklogApart ==
  /\ \A j \in 1 .. Len(backlog) : connection[backlog[j]] = "waiting"
  /\ \A j, k \in 1 .. Len(backlog) : backlog[j] = backlog[k] => j = k

\* A slot that is free in the copy is free: the simulation only gives slots up.
CopyHolds ==
  /\ acc \in {"scan", "accept", "store"} =>
       \A s \in Server!Slots : s >= i /\ slots[s] = Invalid => clientSockets[s] = Invalid
  /\ acc \in {"accept", "store"} => i \in Server!Slots /\ clientSockets[i] = Invalid
  /\ acc = "accept" => slots[i] = Invalid

\* A call has the socket that is in its slot.
CallHolds ==
  /\ serverSim \in {"call", "drop"} => clientSockets[index] = clientSocket /\ clientSocket # Invalid
  /\ serverSim \in {"new", "idle"} => index = 1
  /\ serverSim = "new" => acc = "none"

\* The accepted clients the destructor no longer comes to
Missed == {c \in Server!Accepted :
             \A s \in Server!Slots : clientSockets[s] = c => serverSim # "close" \/ s < index}

\* While the destructor is at work, the accepting thread accepts at most one client.
OneMissed ==
  serverSim \in {"close", "join", "destroyed"} =>
    /\ ~runAcceptingThread
    /\ \A c, d \in Missed : c = d
    /\ acc = "accept" => Missed = {}
    /\ acc = "store" => Missed \subseteq {slots[i]}

ServerIInv ==
  Server!TypeOK /\ SlotsApart /\ BacklogApart /\ CopyHolds /\ CallHolds /\ OneMissed

\* The invariant holds in the initial states.
LEMMA InitServerIInv ==
  ASSUME Server!TcpWindowsAssumption, Server!Init
  PROVE  ServerIInv
<1>1. Server!TypeOK
  <2>1. backlog \in Seq(Clients)
    BY DEF Server!Init
  <2>2. i \in 1 .. maxClients + 1 /\ index \in Server!Slots
    BY DEF Server!Init, Server!TcpWindowsAssumption, Server!Slots
  <2>3. Server!NoClients \in [Server!Slots -> Clients \cup {Invalid}]
    BY DEF Server!NoClients
  <2>4. QED
    BY <2>1, <2>2, <2>3 DEF Server!Init, Server!TypeOK
<1>2. SlotsApart /\ CopyHolds /\ CallHolds /\ OneMissed
  BY
  DEF Server!TcpWindowsAssumption, Server!Init, SlotsApart, CopyHolds, CallHolds, OneMissed, Missed,
     Server!Accepted, Server!NoClients, Server!Slots
<1>3. BacklogApart
  BY DEF Server!Init, BacklogApart
<1>4. QED
  BY <1>1, <1>2, <1>3 DEF ServerIInv

\* Every step keeps the invariant.
LEMMA ServerIInvStep ==
  ASSUME Server!TcpWindowsAssumption, ServerIInv, [Server!Next]_Server!vars
  PROVE  ServerIInv'
<1> USE DEF Server!TcpWindowsAssumption
<1>1. ASSUME NEW c \in Clients, Server!ClientConnects(c) PROVE ServerIInv'
  <2>1. Server!TypeOK'
    BY <1>1
    DEF ServerIInv, Server!TypeOK, Server!ClientConnects, Server!server, Server!thread,
        Server!call, Server!Running
  <2>2. SlotsApart'
    BY <1>1
    DEF ServerIInv, Server!TypeOK, SlotsApart, Server!Accepted, CallHolds, CopyHolds, BacklogApart,
       Server!ClientConnects, Server!server, Server!thread, Server!call, Server!Running
  <2>3. BacklogApart'
    BY <1>1
    DEF ServerIInv, Server!TypeOK, SlotsApart, BacklogApart, Server!ClientConnects, Server!server,
        Server!thread,
       Server!call, Server!Running
  <2>4. CopyHolds'
    BY <1>1
    DEF ServerIInv, Server!TypeOK, SlotsApart, CopyHolds, Server!Slots, Server!ClientConnects,
        Server!server,
       Server!thread, Server!call, Server!Running
  <2>5. CallHolds'
    BY <1>1
    DEF ServerIInv, Server!TypeOK, CallHolds, CopyHolds, Server!ClientConnects, Server!server,
        Server!thread, Server!call,
       Server!Running
  <2>6. OneMissed'
    BY <1>1
    DEF ServerIInv, Server!TypeOK, OneMissed, Missed, Server!Accepted, CallHolds, SlotsApart,
       CopyHolds, Server!ClientConnects, Server!server, Server!thread, Server!call, Server!Running
  <2>7. QED
    BY <2>1, <2>2, <2>3, <2>4, <2>5, <2>6 DEF ServerIInv
<1>2. ASSUME NEW c \in Clients, Server!ClientLeaves(c) PROVE ServerIInv'
  <2>1. Server!TypeOK'
    BY <1>2
    DEF ServerIInv, Server!TypeOK, Server!ClientLeaves, Server!server, Server!thread, Server!call,
        Server!Running
  <2>2. SlotsApart'
    BY <1>2
    DEF ServerIInv, Server!TypeOK, SlotsApart, Server!Accepted, CallHolds, CopyHolds, BacklogApart,
       Server!ClientLeaves, Server!server, Server!thread, Server!call, Server!Running
  <2>3. BacklogApart'
    BY <1>2
    DEF ServerIInv, Server!TypeOK, SlotsApart, BacklogApart, Server!ClientLeaves, Server!server,
        Server!thread,
       Server!call, Server!Running
  <2>4. CopyHolds'
    BY <1>2
    DEF ServerIInv, Server!TypeOK, SlotsApart, CopyHolds, Server!Slots, Server!ClientLeaves,
        Server!server, Server!thread,
       Server!call, Server!Running
  <2>5. CallHolds'
    BY <1>2
    DEF ServerIInv, Server!TypeOK, CallHolds, CopyHolds, Server!ClientLeaves, Server!server,
        Server!thread, Server!call,
       Server!Running
  <2>6. OneMissed'
    BY <1>2
    DEF ServerIInv, Server!TypeOK, OneMissed, Missed, Server!Accepted, CallHolds, SlotsApart,
       CopyHolds, Server!ClientLeaves, Server!server, Server!thread, Server!call, Server!Running
  <2>7. QED
    BY <2>1, <2>2, <2>3, <2>4, <2>5, <2>6 DEF ServerIInv
<1>3. CASE Server!AccTest
  <2>1. Server!TypeOK'
    BY <1>3
    DEF ServerIInv, Server!TypeOK, Server!AccTest, Server!server, Server!call, Server!Running
  <2>2. SlotsApart'
    BY <1>3
    DEF ServerIInv, Server!TypeOK, SlotsApart, Server!Accepted, CallHolds, CopyHolds, BacklogApart,
       Server!AccTest, Server!server, Server!call, Server!Running
  <2>3. BacklogApart'
    BY <1>3
    DEF ServerIInv, Server!TypeOK, SlotsApart, BacklogApart, Server!AccTest, Server!server,
        Server!call, Server!Running
  <2>4. CopyHolds'
    BY <1>3
    DEF ServerIInv, Server!TypeOK, SlotsApart, CopyHolds, Server!Slots, Server!AccTest,
        Server!server, Server!call, Server!Running
  <2>5. CallHolds'
    BY <1>3
    DEF ServerIInv, Server!TypeOK, CallHolds, CopyHolds, Server!AccTest, Server!server,
        Server!call, Server!Running
  <2>6. OneMissed'
    BY <1>3
    DEF ServerIInv, Server!TypeOK, OneMissed, Missed, Server!Accepted, CallHolds, SlotsApart,
       CopyHolds, Server!AccTest, Server!server, Server!call, Server!Running
  <2>7. QED
    BY <2>1, <2>2, <2>3, <2>4, <2>5, <2>6 DEF ServerIInv
<1>4. CASE Server!AccCopy
  <2>1. Server!TypeOK'
    BY <1>4
    DEF ServerIInv, Server!TypeOK, Server!AccCopy, Server!server, Server!call, Server!Running
  <2>2. SlotsApart'
    BY <1>4
    DEF ServerIInv, Server!TypeOK, SlotsApart, Server!Accepted, CallHolds, CopyHolds, BacklogApart,
       Server!AccCopy, Server!server, Server!call, Server!Running
  <2>3. BacklogApart'
    BY <1>4
    DEF ServerIInv, Server!TypeOK, SlotsApart, BacklogApart, Server!AccCopy, Server!server,
        Server!call, Server!Running
  <2>4. CopyHolds'
    BY <1>4
    DEF ServerIInv, Server!TypeOK, SlotsApart, CopyHolds, Server!Slots, Server!AccCopy,
        Server!server, Server!call, Server!Running
  <2>5. CallHolds'
    BY <1>4
    DEF ServerIInv, Server!TypeOK, CallHolds, CopyHolds, Server!AccCopy, Server!server,
        Server!call, Server!Running
  <2>6. OneMissed'
    BY <1>4
    DEF ServerIInv, Server!TypeOK, OneMissed, Missed, Server!Accepted, CallHolds, SlotsApart,
       CopyHolds, Server!AccCopy, Server!server, Server!call, Server!Running
  <2>7. QED
    BY <2>1, <2>2, <2>3, <2>4, <2>5, <2>6 DEF ServerIInv
<1>5. CASE Server!AccScan
  <2>1. Server!TypeOK'
    BY <1>5
    DEF ServerIInv, Server!TypeOK, Server!NoClients, Server!AccScan, Server!server, Server!call,
        Server!Running
  <2>2. SlotsApart'
    BY <1>5
    DEF ServerIInv, Server!TypeOK, SlotsApart, Server!Accepted, Server!NoClients, CallHolds,
        CopyHolds,
       BacklogApart, Server!AccScan, Server!server, Server!call, Server!Running
  <2>3. BacklogApart'
    BY <1>5
    DEF ServerIInv, Server!TypeOK, SlotsApart, BacklogApart, Server!AccScan, Server!server,
        Server!call, Server!Running
  <2>4. CopyHolds'
    BY <1>5
    DEF ServerIInv, Server!TypeOK, SlotsApart, CopyHolds, Server!Slots, Server!AccScan,
        Server!server, Server!call, Server!Running
  <2>5. CallHolds'
    BY <1>5
    DEF ServerIInv, Server!TypeOK, CallHolds, CopyHolds, Server!AccScan, Server!server,
        Server!call, Server!Running
  <2>6. OneMissed'
    BY <1>5
    DEF ServerIInv, Server!TypeOK, OneMissed, Missed, Server!Accepted, CallHolds, SlotsApart,
       CopyHolds, Server!AccScan, Server!server, Server!call, Server!Running
  <2>7. QED
    BY <2>1, <2>2, <2>3, <2>4, <2>5, <2>6 DEF ServerIInv
<1>6. CASE Server!AccAccept
  <2>1. Server!TypeOK'
    <3>1. backlog \in Seq(Clients) /\ backlog # <<>>
      BY <1>6 DEF ServerIInv, Server!TypeOK, Server!AccAccept
    <3>2. Head(backlog) \in Clients /\ Tail(backlog) \in Seq(Clients)
      BY <3>1, HeadTailProperties
    <3>3. QED
      BY <1>6, <3>2 DEF ServerIInv, Server!TypeOK, Server!AccAccept, Server!server, Server!call
  <2>2. SlotsApart'
    BY SMTT(30), <1>6
    DEF ServerIInv, Server!TypeOK, SlotsApart, Server!Accepted, CallHolds, CopyHolds, BacklogApart,
       Server!AccAccept, Server!server, Server!call, Server!Running
  <2>3. BacklogApart'
    BY <1>6
    DEF ServerIInv, Server!TypeOK, SlotsApart, BacklogApart, Server!AccAccept, Server!server,
        Server!call, Server!Running
  <2>4. CopyHolds'
    BY <1>6
    DEF ServerIInv, Server!TypeOK, SlotsApart, CopyHolds, Server!Slots, Server!AccAccept,
        Server!server, Server!call,
       Server!Running
  <2>5. CallHolds'
    BY <1>6
    DEF ServerIInv, Server!TypeOK, CallHolds, CopyHolds, Server!AccAccept, Server!server,
        Server!call, Server!Running
  <2>6. OneMissed'
    BY <1>6
    DEF ServerIInv, Server!TypeOK, OneMissed, Missed, Server!Accepted, CallHolds, SlotsApart,
       CopyHolds, Server!AccAccept, Server!server, Server!call, Server!Running
  <2>7. QED
    BY <2>1, <2>2, <2>3, <2>4, <2>5, <2>6 DEF ServerIInv
<1>7. CASE Server!AccNobody
  <2>1. Server!TypeOK'
    BY <1>7
    DEF ServerIInv, Server!TypeOK, Server!AccNobody, Server!server, Server!call, Server!Running
  <2>2. SlotsApart'
    BY <1>7
    DEF ServerIInv, Server!TypeOK, SlotsApart, Server!Accepted, CallHolds, CopyHolds, BacklogApart,
       Server!AccNobody, Server!server, Server!call, Server!Running
  <2>3. BacklogApart'
    BY <1>7
    DEF ServerIInv, Server!TypeOK, SlotsApart, BacklogApart, Server!AccNobody, Server!server,
        Server!call, Server!Running
  <2>4. CopyHolds'
    BY <1>7
    DEF ServerIInv, Server!TypeOK, SlotsApart, CopyHolds, Server!Slots, Server!AccNobody,
        Server!server, Server!call,
       Server!Running
  <2>5. CallHolds'
    BY <1>7
    DEF ServerIInv, Server!TypeOK, CallHolds, CopyHolds, Server!AccNobody, Server!server,
        Server!call, Server!Running
  <2>6. OneMissed'
    BY <1>7
    DEF ServerIInv, Server!TypeOK, OneMissed, Missed, Server!Accepted, CallHolds, SlotsApart,
       CopyHolds, Server!AccNobody, Server!server, Server!call, Server!Running
  <2>7. QED
    BY <2>1, <2>2, <2>3, <2>4, <2>5, <2>6 DEF ServerIInv
<1>8. CASE Server!AccFails
  <2>1. Server!TypeOK'
    BY <1>8 DEF ServerIInv, Server!TypeOK, Server!AccFails, Server!call, Server!Running
  <2>2. SlotsApart'
    BY <1>8
    DEF ServerIInv, Server!TypeOK, SlotsApart, Server!Accepted, CallHolds, CopyHolds, BacklogApart,
       Server!AccFails, Server!call, Server!Running
  <2>3. BacklogApart'
    BY <1>8
    DEF ServerIInv, Server!TypeOK, SlotsApart, BacklogApart, Server!AccFails, Server!call,
        Server!Running
  <2>4. CopyHolds'
    BY <1>8
    DEF ServerIInv, Server!TypeOK, SlotsApart, CopyHolds, Server!Slots, Server!AccFails,
        Server!call, Server!Running
  <2>5. CallHolds'
    BY <1>8
    DEF ServerIInv, Server!TypeOK, CallHolds, CopyHolds, Server!AccFails, Server!call,
        Server!Running
  <2>6. OneMissed'
    BY <1>8
    DEF ServerIInv, Server!TypeOK, OneMissed, Missed, Server!Accepted, CallHolds, SlotsApart,
       CopyHolds, Server!AccFails, Server!call, Server!Running
  <2>7. QED
    BY <2>1, <2>2, <2>3, <2>4, <2>5, <2>6 DEF ServerIInv
<1>9. CASE Server!AccStore
  <2>1. Server!TypeOK'
    <3>1. i' \in 1 .. maxClients + 1
      BY <1>9 DEF ServerIInv, CopyHolds, Server!AccStore, Server!Slots
    <3>2. clientSockets' \in [Server!Slots -> Clients \cup {Invalid}]
      BY <1>9 DEF ServerIInv, Server!TypeOK, CopyHolds, Server!AccStore
    <3>3. QED
      BY <1>9, <3>1, <3>2 DEF ServerIInv, Server!TypeOK, Server!AccStore, Server!call
  <2>2. SlotsApart'
    BY <1>9
    DEF ServerIInv, Server!TypeOK, SlotsApart, Server!Accepted, CallHolds, CopyHolds, BacklogApart,
       Server!AccStore, Server!call, Server!Running
  <2>3. BacklogApart'
    BY <1>9
    DEF ServerIInv, Server!TypeOK, SlotsApart, BacklogApart, Server!AccStore, Server!call,
        Server!Running
  <2>4. CopyHolds'
    BY <1>9
    DEF ServerIInv, Server!TypeOK, SlotsApart, CopyHolds, Server!Slots, Server!AccStore,
        Server!call, Server!Running
  <2>5. CallHolds'
    BY <1>9
    DEF ServerIInv, Server!TypeOK, CallHolds, CopyHolds, Server!AccStore, Server!call,
        Server!Running
  <2>6. OneMissed'
    BY <1>9
    DEF ServerIInv, Server!TypeOK, OneMissed, Missed, Server!Accepted, CallHolds, SlotsApart,
       CopyHolds, Server!AccStore, Server!call, Server!Running
  <2>7. QED
    BY <2>1, <2>2, <2>3, <2>4, <2>5, <2>6 DEF ServerIInv
<1>10. CASE Server!Construct
  <2>1. Server!TypeOK'
    BY <1>10 DEF ServerIInv, Server!TypeOK, Server!Construct
  <2>2. SlotsApart'
    BY <1>10
    DEF ServerIInv, Server!TypeOK, SlotsApart, Server!Accepted, CallHolds, CopyHolds, BacklogApart,
       Server!Construct
  <2>3. BacklogApart'
    BY <1>10 DEF ServerIInv, Server!TypeOK, SlotsApart, BacklogApart, Server!Construct
  <2>4. CopyHolds'
    BY <1>10 DEF ServerIInv, Server!TypeOK, SlotsApart, CopyHolds, Server!Slots, Server!Construct
  <2>5. CallHolds'
    BY <1>10 DEF ServerIInv, Server!TypeOK, CallHolds, CopyHolds, Server!Construct
  <2>6. OneMissed'
    BY <1>10
    DEF ServerIInv, Server!TypeOK, OneMissed, Missed, Server!Accepted, CallHolds, SlotsApart,
       CopyHolds, Server!Construct
  <2>7. QED
    BY <2>1, <2>2, <2>3, <2>4, <2>5, <2>6 DEF ServerIInv
<1>11. CASE Server!ConstructFails
  <2>1. Server!TypeOK'
    BY <1>11 DEF ServerIInv, Server!TypeOK, Server!ConstructFails, Server!thread
  <2>2. SlotsApart'
    BY <1>11
    DEF ServerIInv, Server!TypeOK, SlotsApart, Server!Accepted, CallHolds, CopyHolds, BacklogApart,
       Server!ConstructFails, Server!thread
  <2>3. BacklogApart'
    BY <1>11
    DEF ServerIInv, Server!TypeOK, SlotsApart, BacklogApart, Server!ConstructFails, Server!thread
  <2>4. CopyHolds'
    BY <1>11
    DEF ServerIInv, Server!TypeOK, SlotsApart, CopyHolds, Server!Slots, Server!ConstructFails,
        Server!thread
  <2>5. CallHolds'
    BY <1>11
    DEF ServerIInv, Server!TypeOK, CallHolds, CopyHolds, Server!ConstructFails, Server!thread
  <2>6. OneMissed'
    BY <1>11
    DEF ServerIInv, Server!TypeOK, OneMissed, Missed, Server!Accepted, CallHolds, SlotsApart,
       CopyHolds, Server!ConstructFails, Server!thread
  <2>7. QED
    BY <2>1, <2>2, <2>3, <2>4, <2>5, <2>6 DEF ServerIInv
<1>12. ASSUME NEW s \in Server!Slots, Server!Begin(s) PROVE ServerIInv'
  <2>1. Server!TypeOK'
    BY <1>12 DEF ServerIInv, Server!TypeOK, Server!Begin, Server!server, Server!thread
  <2>2. SlotsApart'
    BY <1>12
    DEF ServerIInv, Server!TypeOK, SlotsApart, Server!Accepted, CallHolds, CopyHolds, BacklogApart,
       Server!Begin, Server!server, Server!thread
  <2>3. BacklogApart'
    BY <1>12
    DEF ServerIInv, Server!TypeOK, SlotsApart, BacklogApart, Server!Begin, Server!server,
        Server!thread
  <2>4. CopyHolds'
    BY <1>12
    DEF ServerIInv, Server!TypeOK, SlotsApart, CopyHolds, Server!Slots, Server!Begin,
        Server!server, Server!thread
  <2>5. CallHolds'
    BY <1>12
    DEF ServerIInv, Server!TypeOK, CallHolds, CopyHolds, Server!Begin, Server!server, Server!thread
  <2>6. OneMissed'
    BY <1>12
    DEF ServerIInv, Server!TypeOK, OneMissed, Missed, Server!Accepted, CallHolds, SlotsApart,
       CopyHolds, Server!Begin, Server!server, Server!thread
  <2>7. QED
    BY <2>1, <2>2, <2>3, <2>4, <2>5, <2>6 DEF ServerIInv
<1>13. CASE Server!Transfer
  <2>1. Server!TypeOK'
    BY <1>13
    DEF ServerIInv, Server!TypeOK, Server!Transfer, Server!Return, Server!server, Server!thread,
        Server!Slots
  <2>2. SlotsApart'
    BY <1>13
    DEF ServerIInv, Server!TypeOK, SlotsApart, Server!Accepted, CallHolds, CopyHolds, BacklogApart,
       Server!Transfer, Server!server, Server!thread, Server!Return
  <2>3. BacklogApart'
    BY <1>13
    DEF ServerIInv, Server!TypeOK, SlotsApart, BacklogApart, Server!Transfer, Server!server,
        Server!thread, Server!Return
  <2>4. CopyHolds'
    BY <1>13
    DEF ServerIInv, Server!TypeOK, SlotsApart, CopyHolds, Server!Slots, Server!Transfer,
        Server!server, Server!thread,
       Server!Return
  <2>5. CallHolds'
    BY <1>13
    DEF ServerIInv, Server!TypeOK, CallHolds, CopyHolds, Server!Transfer, Server!server,
        Server!thread, Server!Return
  <2>6. OneMissed'
    BY <1>13
    DEF ServerIInv, Server!TypeOK, OneMissed, Missed, Server!Accepted, CallHolds, SlotsApart,
       CopyHolds, Server!Transfer, Server!server, Server!thread, Server!Return
  <2>7. QED
    BY <2>1, <2>2, <2>3, <2>4, <2>5, <2>6 DEF ServerIInv
<1>14. CASE Server!TransferFails
  <2>1. Server!TypeOK'
    BY <1>14
    DEF ServerIInv, Server!TypeOK, Server!TransferFails, Server!Return, Server!server,
        Server!thread, Server!Slots
  <2>2. SlotsApart'
    BY <1>14
    DEF ServerIInv, Server!TypeOK, SlotsApart, Server!Accepted, CallHolds, CopyHolds, BacklogApart,
       Server!TransferFails, Server!server, Server!thread, Server!Return
  <2>3. BacklogApart'
    BY <1>14
    DEF ServerIInv, Server!TypeOK, SlotsApart, BacklogApart, Server!TransferFails, Server!server,
        Server!thread,
       Server!Return
  <2>4. CopyHolds'
    BY <1>14
    DEF ServerIInv, Server!TypeOK, SlotsApart, CopyHolds, Server!Slots, Server!TransferFails,
        Server!server,
       Server!thread, Server!Return
  <2>5. CallHolds'
    BY <1>14
    DEF ServerIInv, Server!TypeOK, CallHolds, CopyHolds, Server!TransferFails, Server!server,
        Server!thread, Server!Return
  <2>6. OneMissed'
    BY <1>14
    DEF ServerIInv, Server!TypeOK, OneMissed, Missed, Server!Accepted, CallHolds, SlotsApart,
       CopyHolds, Server!TransferFails, Server!server, Server!thread, Server!Return
  <2>7. QED
    BY <2>1, <2>2, <2>3, <2>4, <2>5, <2>6 DEF ServerIInv
<1>15. CASE Server!PeerGone
  <2>1. Server!TypeOK'
    BY <1>15 DEF ServerIInv, Server!TypeOK, Server!PeerGone, Server!server, Server!thread
  <2>2. SlotsApart'
    BY <1>15
    DEF ServerIInv, Server!TypeOK, SlotsApart, Server!Accepted, CallHolds, CopyHolds, BacklogApart,
       Server!PeerGone, Server!server, Server!thread
  <2>3. BacklogApart'
    BY <1>15
    DEF ServerIInv, Server!TypeOK, SlotsApart, BacklogApart, Server!PeerGone, Server!server,
        Server!thread
  <2>4. CopyHolds'
    BY <1>15
    DEF ServerIInv, Server!TypeOK, SlotsApart, CopyHolds, Server!Slots, Server!PeerGone,
        Server!server, Server!thread
  <2>5. CallHolds'
    BY <1>15
    DEF ServerIInv, Server!TypeOK, CallHolds, CopyHolds, Server!PeerGone, Server!server,
        Server!thread
  <2>6. OneMissed'
    BY <1>15
    DEF ServerIInv, Server!TypeOK, OneMissed, Missed, Server!Accepted, CallHolds, SlotsApart,
       CopyHolds, Server!PeerGone, Server!server, Server!thread
  <2>7. QED
    BY <2>1, <2>2, <2>3, <2>4, <2>5, <2>6 DEF ServerIInv
<1>16. CASE Server!Drop
  <2>1. Server!TypeOK'
    <3>1. /\ connection' \in [Clients -> {"none", "waiting", "open", "gone", "closed"}]
          /\ clientSockets' \in [Server!Slots -> Clients \cup {Invalid}]
      BY <1>16 DEF ServerIInv, Server!TypeOK, Server!Drop, Server!Closed
    <3>2. index' \in Server!Slots
      BY <1>16 DEF Server!Drop, Server!Slots, Server!TcpWindowsAssumption
    <3>3. QED
      BY <1>16, <3>1, <3>2 DEF ServerIInv, Server!TypeOK, Server!Drop, Server!thread
  <2>2. SlotsApart'
    BY <1>16
    DEF ServerIInv, Server!TypeOK, SlotsApart, Server!Accepted, CallHolds, CopyHolds, BacklogApart,
       Server!Drop, Server!thread, Server!Closed
  <2>3. BacklogApart'
    BY <1>16
    DEF ServerIInv, Server!TypeOK, SlotsApart, BacklogApart, Server!Drop, Server!thread,
        Server!Closed
  <2>4. CopyHolds'
    BY <1>16
    DEF ServerIInv, Server!TypeOK, SlotsApart, CopyHolds, Server!Slots, Server!Drop,
        Server!thread, Server!Closed
  <2>5. CallHolds'
    BY <1>16
    DEF ServerIInv, Server!TypeOK, CallHolds, CopyHolds, Server!Drop, Server!thread, Server!Closed
  <2>6. OneMissed'
    BY <1>16
    DEF ServerIInv, Server!TypeOK, OneMissed, Missed, Server!Accepted, CallHolds, SlotsApart,
       CopyHolds, Server!Drop, Server!thread, Server!Closed
  <2>7. QED
    BY <2>1, <2>2, <2>3, <2>4, <2>5, <2>6 DEF ServerIInv
<1>17. CASE Server!Destroy
  <2>1. Server!TypeOK'
    BY <1>17 DEF ServerIInv, Server!TypeOK, Server!Destroy, Server!thread
  <2>2. SlotsApart'
    BY <1>17
    DEF ServerIInv, Server!TypeOK, SlotsApart, Server!Accepted, CallHolds, CopyHolds, BacklogApart,
       Server!Destroy, Server!thread
  <2>3. BacklogApart'
    BY <1>17 DEF ServerIInv, Server!TypeOK, SlotsApart, BacklogApart, Server!Destroy, Server!thread
  <2>4. CopyHolds'
    BY <1>17
    DEF ServerIInv, Server!TypeOK, SlotsApart, CopyHolds, Server!Slots, Server!Destroy,
        Server!thread
  <2>5. CallHolds'
    BY <1>17 DEF ServerIInv, Server!TypeOK, CallHolds, CopyHolds, Server!Destroy, Server!thread
  <2>6. OneMissed'
    <3>1. \A c \in Missed' : acc = "store" /\ slots[i] = c
      <4> SUFFICES ASSUME NEW c \in Missed', ~(acc = "store" /\ slots[i] = c) PROVE FALSE
        OBVIOUS
      <4>1. c \in Server!Accepted /\ (\A s \in Server!Slots : clientSockets[s] = c => s < 1)
        BY <1>17 DEF ServerIInv, CallHolds, Missed, Server!Accepted, Server!Destroy
      <4>2. PICK s \in Server!Slots : clientSockets[s] = c
        BY <1>17, <4>1 DEF ServerIInv, SlotsApart, Server!Destroy
      <4>3. QED
        BY <4>1, <4>2 DEF Server!Slots
    <3>2. QED
      BY <1>17, <3>1 DEF OneMissed, Server!Destroy, Server!thread
  <2>7. QED
    BY <2>1, <2>2, <2>3, <2>4, <2>5, <2>6 DEF ServerIInv
<1>18. CASE Server!CloseSlot
  <2>1. Server!TypeOK'
    <3>1. index \in Server!Slots /\ connection \in [Clients -> {"none", "waiting", "open", "gone", "closed"}]
      BY DEF ServerIInv, Server!TypeOK
    <3>2. index' \in Server!Slots
      BY <1>18, <3>1 DEF Server!CloseSlot, Server!Slots
    <3>3. connection' \in [Clients -> {"none", "waiting", "open", "gone", "closed"}]
      BY <1>18, <3>1 DEF Server!CloseSlot, Server!Closed
    <3>4. serverSim' \in {"close", "join"} /\ listening' \in BOOLEAN
      BY <1>18 DEF ServerIInv, Server!TypeOK, Server!CloseSlot
    <3>5. QED
      BY <1>18, <3>2, <3>3, <3>4 DEF ServerIInv, Server!TypeOK, Server!CloseSlot, Server!thread
  <2>2. SlotsApart'
    BY <1>18
    DEF ServerIInv, Server!TypeOK, SlotsApart, Server!Accepted, CallHolds, CopyHolds, BacklogApart,
       Server!CloseSlot, Server!thread, Server!Closed
  <2>3. BacklogApart'
    BY <1>18
    DEF ServerIInv, Server!TypeOK, SlotsApart, BacklogApart, Server!CloseSlot, Server!thread,
        Server!Closed
  <2>4. CopyHolds'
    BY <1>18
    DEF ServerIInv, Server!TypeOK, SlotsApart, CopyHolds, Server!Slots, Server!CloseSlot,
        Server!thread, Server!Closed
  <2>5. CallHolds'
    BY <1>18
    DEF ServerIInv, Server!TypeOK, CallHolds, CopyHolds, Server!CloseSlot, Server!thread,
        Server!Closed
  <2>6. OneMissed'
    <3>1. index \in Server!Slots /\ connection \in [Clients -> {"none", "waiting", "open", "gone", "closed"}]
      BY DEF ServerIInv, Server!TypeOK
    <3>2. Missed' \subseteq Missed
      <4> SUFFICES ASSUME NEW c \in Missed' PROVE c \in Missed
        OBVIOUS
      <4>1. /\ c \in Clients /\ connection'[c] \in {"open", "gone"}
            /\ \A s \in Server!Slots : clientSockets[s] = c => serverSim' # "close" \/ s < index'
        BY <1>18 DEF Missed, Server!Accepted, Server!CloseSlot
      <4>2. c # clientSockets[index] /\ connection'[c] = connection[c]
        BY <1>18, <3>1, <4>1 DEF Server!CloseSlot, Server!Closed
      <4>3. ASSUME NEW s \in Server!Slots, clientSockets[s] = c PROVE s < index
        <5>1. CASE index < maxClients
          BY <1>18, <4>1, <4>2, <4>3, <5>1, <3>1 DEF Server!CloseSlot, Server!Slots
        <5>2. CASE ~(index < maxClients)
          BY <4>2, <4>3, <5>2, <3>1 DEF Server!Slots
        <5>3. QED
          BY <5>1, <5>2
      <4>4. QED
        BY <4>1, <4>2, <4>3 DEF Missed, Server!Accepted
    <3>3. OneMissed /\ serverSim = "close"
      BY <1>18 DEF ServerIInv, Server!CloseSlot
    <3>4. QED
      BY <1>18, <3>2, <3>3 DEF OneMissed, Server!CloseSlot, Server!thread
  <2>7. QED
    BY <2>1, <2>2, <2>3, <2>4, <2>5, <2>6 DEF ServerIInv
<1>19. CASE Server!Join
  <2>1. Server!TypeOK'
    BY <1>19 DEF ServerIInv, Server!TypeOK, Server!NoClients, Server!Join
  <2>2. SlotsApart'
    BY <1>19
    DEF ServerIInv, Server!TypeOK, SlotsApart, Server!Accepted, Server!NoClients, CallHolds,
        CopyHolds,
       BacklogApart, Server!Join
  <2>3. BacklogApart'
    BY <1>19 DEF ServerIInv, Server!TypeOK, SlotsApart, BacklogApart, Server!Join
  <2>4. CopyHolds'
    BY <1>19 DEF ServerIInv, Server!TypeOK, SlotsApart, CopyHolds, Server!Slots, Server!Join
  <2>5. CallHolds'
    BY <1>19 DEF ServerIInv, Server!TypeOK, CallHolds, CopyHolds, Server!Join
  <2>6. OneMissed'
    BY <1>19
    DEF ServerIInv, Server!TypeOK, OneMissed, Missed, Server!Accepted, CallHolds, SlotsApart,
       CopyHolds, Server!Join
  <2>7. QED
    BY <2>1, <2>2, <2>3, <2>4, <2>5, <2>6 DEF ServerIInv
<1>20. CASE Server!Ended
  BY <1>20
  DEF ServerIInv, Server!TypeOK, SlotsApart, Server!Accepted, CallHolds, CopyHolds, BacklogApart,
      OneMissed, Missed, Server!Ended, Server!vars, Server!server,
      Server!thread, Server!call
<1>21. CASE UNCHANGED Server!vars
  BY <1>21
  DEF ServerIInv, Server!TypeOK, Server!NoClients, SlotsApart, Server!Accepted, CallHolds,
      CopyHolds, BacklogApart, Server!Slots, OneMissed, Missed,
      Server!vars, Server!server, Server!thread, Server!call, Server!Running, Server!Return,
      Server!Closed
<1>22. QED
  BY <1>1, <1>2, <1>3, <1>4, <1>5, <1>6, <1>7, <1>8, <1>9, <1>10, <1>11, <1>12, <1>13, <1>14,
     <1>15, <1>16, <1>17, <1>18, <1>19, <1>20, <1>21 DEF Server!Next

\* The cardinality that the server's module counts with is the one of the library's facts.
LEMMA ServerCardinality == \A S : Server!Cardinality(S) = Cardinality(S)
  BY DEF Server!Cardinality, Cardinality

\* With its slots apart, every accepted client is served once, and the destructor misses at
\* most one.
LEMMA ServerIInvServes ==
  ASSUME Server!TcpWindowsAssumption, ServerIInv
  PROVE  Server!NoLostConnection
<1>1. ASSUME serverSim # "destroyed", NEW c \in Server!Accepted
      PROVE  Server!Served(c) = 1
  <2> DEFINE with == {s \in Server!Slots : clientSockets[s] = c}
  <2>1. c # Invalid
    BY DEF Server!Accepted, Server!TcpWindowsAssumption
  <2>2. \A s, t \in with : s = t
    BY <2>1 DEF ServerIInv, SlotsApart
  <2>3. CASE acc = "store" /\ slots[i] = c
    <3>1. with = {}
      BY <2>3 DEF ServerIInv, SlotsApart
    <3>2. QED
      BY <2>3, <3>1, FS_EmptySet, ServerCardinality DEF Server!Served
  <2>4. CASE ~(acc = "store" /\ slots[i] = c)
    <3>1. PICK s \in Server!Slots : clientSockets[s] = c
      BY <1>1, <2>4 DEF ServerIInv, SlotsApart
    <3>2. with = {s}
      BY <2>2, <3>1
    <3>3. QED
      <4>1. Cardinality(with) = 1
        BY <3>2, FS_Singleton
      <4>2. QED
        BY <2>4, <4>1, ServerCardinality DEF Server!Served
  <2>5. QED
    BY <2>3, <2>4
<1>2. ASSUME serverSim = "destroyed" PROVE Cardinality(Server!Accepted) <= 1
  <2>1. \A c, d \in Server!Accepted : c = d
    BY <1>2 DEF ServerIInv, OneMissed, Missed
  <2>2. CASE Server!Accepted = {}
    BY <2>2, FS_EmptySet
  <2>3. CASE Server!Accepted # {}
    <3>1. PICK c \in Server!Accepted : Server!Accepted = {c}
      BY <2>1, <2>3
    <3>2. QED
      <4>1. Cardinality(Server!Accepted) = 1
        BY <3>1, FS_Singleton
      <4>2. QED
        BY <4>1
  <2>4. QED
    BY <2>2, <2>3
<1>3. QED
  BY <1>1, <1>2, ServerCardinality DEF Server!NoLostConnection, ServerIInv, CallHolds

\* A step of the drivers is one of this driver, or leaves it alone.
LEMMA ServerSteps == ASSUME [DevicesNext]_DeviceVars PROVE [Server!Next]_Server!vars
  BY
  DEF DevicesNext, OthersRest, DeviceVars, ServerVars, Server!vars, Server!server, Server!thread,
      Server!call

\* In every state of the drivers its invariant holds.
LEMMA ServerInvariance == DevicesSpec => []ServerIInv
<1>1. DevicesInit => ServerIInv
  BY InitServerIInv, DevicesAssumption DEF DevicesAssumption, DevicesInit
<1>2. ServerIInv /\ [DevicesNext]_DeviceVars => ServerIInv'
  <2> SUFFICES ASSUME ServerIInv, [DevicesNext]_DeviceVars PROVE ServerIInv'
    OBVIOUS
  <2>1. [Server!Next]_Server!vars
    BY ServerSteps
  <2>2. QED
    BY <2>1, ServerIInvStep, DevicesAssumption DEF DevicesAssumption
<1>3. QED
  BY <1>1, <1>2, PTL DEF DevicesSpec

\* Every client that the server has accepted on Windows has one slot, or is in the hand of the
\* accepting thread, although this looks for a free slot in a copy while the simulation gives
\* slots up; a call gives up its own client; the destructor leaves at most one client open
\* (MDDTCPIPSocketServer.h, 61-63, 220-249).
THEOREM WindowsServesEveryClient == DevicesSpec => []NoLostConnection
<1>1. ServerIInv => NoLostConnection
  BY ServerIInvServes, DevicesAssumption DEF DevicesAssumption, NoLostConnection
<1>2. QED
  BY <1>1, ServerInvariance, PTL

----------------------------------------------------------------------------
(* The serial port (SerialPort) *)

\* The first k bytes are in the order of the stream.
Ordered(bytes, k) == \A h \in 1 .. k : \A j \in 1 .. h - 1 : bytes[j] < bytes[h]

\* The mutex is with the thread that is between taking and giving it back, and with no other,
\* unless the simulation ended with it, or on Windows the thread was terminated with it.
SerialLocked ==
  /\ serialRx \in {"store", "erase"} => messageMutex = "rx"
  /\ serialSim \in {"copy", "count"} => messageMutex = "sim"
  /\ messageMutex = "rx" => \/ serialRx \in {"store", "erase"}
                            \/ ~Serial!Linux /\ serialSim = "destroyed"
  /\ messageMutex = "sim" => serialSim \in {"copy", "count"} \/ ~Serial!Running
  /\ serialSim = "new" => serialRx = "none"
  /\ serialSim = "destroyed" => serialRx \in {"none", "done"}

\* The bytes collected come from the stream in their order; as long as nothing was purged,
\* they are the latest that were read and begin a message.
Collected ==
  /\ counter > 0 => consumed > 0
  /\ \A h \in 1 .. counter : msgInternal[h] <= consumed
  /\ Ordered(msgInternal, counter)
  /\ ~purged => /\ (consumed - counter) % MessageLength = 0
                /\ \A h \in 1 .. counter : msgInternal[h] = consumed - counter + h
  /\ ~Serial!Linux /\ serialRx \in {"lock", "store"} => counter = MessageLength
  /\ purged => ~Serial!Linux

\* The last complete message ends where a message ends.
Completed ==
  /\ serialLatest > 0 => Ordered(msgLastComplete, MessageLength)
  /\ ~Serial!Linux /\ serialBytes > 0 => serialLatest > 0
  /\ ~purged => /\ serialLatest % MessageLength = 0
                /\ \A h \in Serial!Bytes : msgLastComplete[h] =
                                             IF serialLatest = 0 THEN 0 ELSE serialLatest - MessageLength + h

\* What is copied so far is of the last complete message.
Copied ==
  /\ serialSim = "copy" => serialAt <= Serial!Length /\ \A h \in 1 .. serialAt : serialCopy[h] = msgLastComplete[h]
  /\ serialSim \notin {"copy", "error"} => serialAt = 0
  /\ ~Serial!Linux => Ordered(serialResult.bytes, serialResult.length)

SerialIInv ==
  /\ Serial!TypeOK /\ SerialLocked /\ Collected /\ Completed /\ Copied
  /\ Serial!ReadsWholeMessage /\ Serial!ThreadEndsFirst

\* Where a message ends, another begins.
LEMMA MessageEnds ==
  ASSUME Serial!SerialAssumption, NEW a \in Int, (a - MessageLength) % MessageLength = 0
  PROVE  a % MessageLength = 0
  BY DEF Serial!SerialAssumption

\* What a read returns
SerialResults == [length : 0 .. MessageLength, bytes : Serial!Buffers, end : 0 .. MaxBytes]

\* Before it has read anything, a read has read nothing.
LEMMA SerialNothing ==
  ASSUME Serial!SerialAssumption
  PROVE  /\ Serial!Zeros \in Serial!Buffers /\ Serial!NoResult \in SerialResults /\ Serial!NoResult.length = 0
  BY
  DEF Serial!SerialAssumption, Serial!Zeros, Serial!Bytes, Serial!Buffers, Serial!NoResult,
      SerialResults

\* The invariant holds in the initial states.
LEMMA InitSerialIInv ==
  ASSUME Serial!SerialAssumption, Serial!Init
  PROVE  SerialIInv
<1>1. Serial!TypeOK
  <2>1. serialArrived \in 0 .. MaxBytes /\ consumed \in 0 .. serialArrived /\ serialLatest \in 0 .. MaxBytes
    BY DEF Serial!SerialAssumption, Serial!Init
  <2>2. /\ counter \in 0 .. MessageLength /\ serialBytes \in 0 .. MessageLength
        /\ n \in 0 .. MessageLength /\ serialAt \in 0 .. MessageLength
    BY DEF Serial!SerialAssumption, Serial!Init
  <2>3. QED
    BY <2>1, <2>2, SerialNothing DEF Serial!Init, Serial!TypeOK, SerialResults
<1>2. SerialLocked /\ Collected /\ Completed /\ Copied /\ Serial!ReadsWholeMessage /\ Serial!ThreadEndsFirst
  BY DEF Serial!SerialAssumption, Serial!Init, SerialLocked, Collected, Completed, Copied, Ordered,
     Serial!ReadsWholeMessage, Serial!ThreadEndsFirst, Serial!Zeros, Serial!Bytes, Serial!NoResult
<1>3. QED
  BY <1>1, <1>2 DEF SerialIInv

\* Every step keeps the invariant.
LEMMA SerialIInvStep ==
  ASSUME Serial!SerialAssumption, SerialIInv, [Serial!Next]_Serial!vars
  PROVE  SerialIInv'
<1> USE DEF Serial!SerialAssumption
<1>1. CASE Serial!Arrive
  <2>1. Serial!TypeOK'
    <3>1. serialArrived' \in 0 .. MaxBytes /\ consumed \in 0 .. serialArrived'
      BY <1>1 DEF SerialIInv, Serial!TypeOK, Serial!Arrive
    <3>2. QED
      BY <1>1, <3>1 DEF SerialIInv, Serial!TypeOK, Serial!Arrive, Serial!port, Serial!reader
  <2>2. SerialLocked'
    BY <1>1
    DEF SerialIInv, Serial!TypeOK, SerialLocked, Serial!Arrive, Serial!port, Serial!reader,
        Serial!Linux, Serial!Running
  <2>3. Collected'
    BY <1>1
    DEF SerialIInv, Serial!TypeOK, Serial!Buffers, Serial!Bytes, Collected, Ordered,
        Serial!Arrive, Serial!port, Serial!reader,
       Serial!Running, Serial!Linux
  <2>4. Completed'
    BY <1>1
    DEF SerialIInv, Serial!TypeOK, Serial!Buffers, Serial!Bytes, Collected, Completed, Ordered,
        Serial!Arrive, Serial!port,
       Serial!reader, Serial!Running, Serial!Linux
  <2>5. Copied'
    BY <1>1
    DEF SerialIInv, Serial!TypeOK, Serial!Buffers, Serial!Bytes, SerialLocked, Copied, Completed,
        Ordered,
       Serial!Length, Serial!Arrive, Serial!port, Serial!reader, Serial!Running, Serial!Linux
  <2>6. Serial!ReadsWholeMessage'
    BY <1>1
    DEF SerialIInv, Serial!TypeOK, Serial!Buffers, Serial!Bytes, SerialLocked, Collected,
        Completed, Copied,
       Serial!ReadsWholeMessage, Ordered, Serial!Length, Serial!Arrive, Serial!port,
       Serial!reader, Serial!Running, Serial!Linux
  <2>7. Serial!ThreadEndsFirst'
    BY <1>1
    DEF SerialIInv, Serial!TypeOK, SerialLocked, Serial!ThreadEndsFirst, Serial!Arrive,
        Serial!port, Serial!reader, Serial!Linux, Serial!Running
  <2>8. QED
    BY <2>1, <2>2, <2>3, <2>4, <2>5, <2>6, <2>7 DEF SerialIInv
<1>2. CASE Serial!RxTest
  <2>1. Serial!TypeOK'
    BY <1>2 DEF SerialIInv, Serial!TypeOK, Serial!RxTest, Serial!port, Serial!reader, Serial!Running
  <2>2. SerialLocked'
    BY <1>2
    DEF SerialIInv, Serial!TypeOK, SerialLocked, Serial!RxTest, Serial!port, Serial!reader,
        Serial!Linux, Serial!Running
  <2>3. Collected'
    BY <1>2
    DEF SerialIInv, Serial!TypeOK, Serial!Buffers, Serial!Bytes, Collected, Ordered,
        Serial!RxTest, Serial!port, Serial!reader,
       Serial!Running, Serial!Linux
  <2>4. Completed'
    BY <1>2
    DEF SerialIInv, Serial!TypeOK, Serial!Buffers, Serial!Bytes, Collected, Completed, Ordered,
        Serial!RxTest, Serial!port,
       Serial!reader, Serial!Running, Serial!Linux
  <2>5. Copied'
    BY <1>2
    DEF SerialIInv, Serial!TypeOK, Serial!Buffers, Serial!Bytes, SerialLocked, Copied, Completed,
        Ordered,
       Serial!Length, Serial!RxTest, Serial!port, Serial!reader, Serial!Running, Serial!Linux
  <2>6. Serial!ReadsWholeMessage'
    BY <1>2
    DEF SerialIInv, Serial!TypeOK, Serial!Buffers, Serial!Bytes, SerialLocked, Collected,
        Completed, Copied,
       Serial!ReadsWholeMessage, Ordered, Serial!Length, Serial!RxTest, Serial!port,
       Serial!reader, Serial!Running, Serial!Linux
  <2>7. Serial!ThreadEndsFirst'
    BY <1>2
    DEF SerialIInv, Serial!TypeOK, SerialLocked, Serial!ThreadEndsFirst, Serial!RxTest,
        Serial!port, Serial!reader, Serial!Linux, Serial!Running
  <2>8. QED
    BY <2>1, <2>2, <2>3, <2>4, <2>5, <2>6, <2>7 DEF SerialIInv
<1>3. CASE Serial!RxPoll
  <2>1. Serial!TypeOK'
    BY <1>3
    DEF SerialIInv, Serial!TypeOK, Serial!RxPoll, Serial!port, Serial!reader, Serial!Running,
        Serial!Linux
  <2>2. SerialLocked'
    BY <1>3
    DEF SerialIInv, Serial!TypeOK, SerialLocked, Serial!RxPoll, Serial!port, Serial!reader,
        Serial!Linux, Serial!Running
  <2>3. Collected'
    BY <1>3
    DEF SerialIInv, Serial!TypeOK, Serial!Buffers, Serial!Bytes, Collected, Ordered,
        Serial!RxPoll, Serial!port, Serial!reader,
       Serial!Running, Serial!Linux
  <2>4. Completed'
    BY <1>3
    DEF SerialIInv, Serial!TypeOK, Serial!Buffers, Serial!Bytes, Collected, Completed, Ordered,
        Serial!RxPoll, Serial!port,
       Serial!reader, Serial!Running, Serial!Linux
  <2>5. Copied'
    BY <1>3
    DEF SerialIInv, Serial!TypeOK, Serial!Buffers, Serial!Bytes, SerialLocked, Copied, Completed,
        Ordered,
       Serial!Length, Serial!RxPoll, Serial!port, Serial!reader, Serial!Running, Serial!Linux
  <2>6. Serial!ReadsWholeMessage'
    BY <1>3
    DEF SerialIInv, Serial!TypeOK, Serial!Buffers, Serial!Bytes, SerialLocked, Collected,
        Completed, Copied,
       Serial!ReadsWholeMessage, Ordered, Serial!Length, Serial!RxPoll, Serial!port,
       Serial!reader, Serial!Running, Serial!Linux
  <2>7. Serial!ThreadEndsFirst'
    BY <1>3
    DEF SerialIInv, Serial!TypeOK, SerialLocked, Serial!ThreadEndsFirst, Serial!RxPoll,
        Serial!port, Serial!reader, Serial!Linux, Serial!Running
  <2>8. QED
    BY <2>1, <2>2, <2>3, <2>4, <2>5, <2>6, <2>7 DEF SerialIInv
<1>4. ASSUME NEW k \in Serial!Bytes, Serial!RxRead(k) PROVE SerialIInv'
  <2>1. Serial!TypeOK'
    <3> DEFINE start == IF counter = MessageLength THEN 0 ELSE counter
    <3>1. /\ counter \in 0 .. MessageLength /\ serialArrived \in 0 .. MaxBytes
          /\ consumed \in 0 .. serialArrived /\ k \in 1 .. MessageLength
      BY DEF SerialIInv, Serial!TypeOK, Serial!Bytes
    <3>2. start \in 0 .. MessageLength /\ k <= serialArrived - consumed /\ start + k <= MessageLength
      BY <3>1, <1>4 DEF Serial!RxRead
    <3>3. /\ msgInternal' = [h \in Serial!Bytes |-> IF h \in start + 1 .. start + k
                                                     THEN consumed + h - start ELSE msgInternal[h]]
          /\ counter' = start + k /\ consumed' = consumed + k /\ n' = k
      BY <1>4 DEF Serial!RxRead
    <3> HIDE DEF start
    <3>4. msgInternal' \in Serial!Buffers
      <4>1. msgInternal \in [Serial!Bytes -> 0 .. MaxBytes]
        BY DEF SerialIInv, Serial!TypeOK, Serial!Buffers
      <4>2. ASSUME NEW h \in start + 1 .. start + k PROVE consumed + h - start \in 0 .. MaxBytes
        BY <3>1, <3>2 DEF Serial!SerialAssumption
      <4>3. QED
        BY <3>3, <4>1, <4>2 DEF Serial!Buffers
    <3>5. /\ counter' \in 0 .. MessageLength /\ n' \in 0 .. MessageLength
          /\ consumed' \in 0 .. serialArrived
      BY <3>1, <3>2, <3>3
    <3>6. QED
      BY <1>4, <3>4, <3>5 DEF SerialIInv, Serial!TypeOK, Serial!RxRead, Serial!reader
  <2>2. SerialLocked'
    BY <1>4
    DEF SerialIInv, Serial!TypeOK, SerialLocked, Serial!RxRead, Serial!reader, Serial!Linux,
        Serial!Running
  <2>3. Collected'
    <3> DEFINE start == IF counter = MessageLength THEN 0 ELSE counter
    <3>1. /\ counter \in 0 .. MessageLength /\ serialArrived \in 0 .. MaxBytes
          /\ consumed \in 0 .. serialArrived /\ k \in 1 .. MessageLength
      BY DEF SerialIInv, Serial!TypeOK, Serial!Bytes
    <3>2. start \in 0 .. MessageLength /\ start + k <= MessageLength /\ start <= counter
      BY <3>1, <1>4 DEF Serial!RxRead
    <3>3. /\ msgInternal' = [h \in Serial!Bytes |-> IF h \in start + 1 .. start + k
                                                     THEN consumed + h - start ELSE msgInternal[h]]
          /\ counter' = start + k /\ consumed' = consumed + k
          /\ purged' = purged /\ serialPlatform' = serialPlatform
          /\ serialRx' = IF Serial!Linux \/ counter' = MessageLength THEN "lock" ELSE "test"
      BY <1>4 DEF Serial!RxRead
    <3>4. /\ \A h \in 1 .. start : msgInternal[h] <= consumed /\ msgInternal[h] \in Int
          /\ Ordered(msgInternal, start)
      <4>1. \A h \in 1 .. start : h \in 1 .. counter /\ msgInternal[h] \in Int
        BY <3>1, <3>2 DEF SerialIInv, Serial!TypeOK, Serial!Buffers, Serial!Bytes
      <4>2. QED
        BY <4>1 DEF SerialIInv, Collected, Ordered
    <3>5. ~purged => /\ (consumed - start) % MessageLength = 0
                     /\ \A h \in 1 .. start : msgInternal[h] = consumed - start + h
      BY <3>1, MessageEnds DEF SerialIInv, Collected
    <3>6. purged => ~Serial!Linux
      BY DEF SerialIInv, Collected
    <3> HIDE DEF start
    <3>7. /\ \A h \in 1 .. start : msgInternal'[h] = msgInternal[h]
          /\ \A h \in start + 1 .. start + k : msgInternal'[h] = consumed + h - start
      BY <3>1, <3>2, <3>3 DEF Serial!Bytes
    <3>8. /\ \A h \in 1 .. counter' : msgInternal'[h] <= consumed'
          /\ Ordered(msgInternal', counter')
      <4>1. \A h \in 1 .. counter' : h \in 1 .. start \/ h \in start + 1 .. start + k
        BY <3>1, <3>2, <3>3
      <4>2. \A h \in 1 .. counter' : msgInternal'[h] <= consumed'
        BY <4>1, <3>1, <3>2, <3>3, <3>4, <3>7
      <4>3. ASSUME NEW h \in 1 .. counter', NEW j \in 1 .. h - 1
            PROVE  msgInternal'[j] < msgInternal'[h]
        <5>1. CASE h \in 1 .. start
          <6>1. j \in 1 .. start
            BY <5>1, <3>2
          <6>2. QED
            BY <5>1, <6>1, <3>4, <3>7 DEF Ordered
        <5>2. CASE h \in start + 1 .. start + k /\ j \in 1 .. start
          BY <5>2, <3>1, <3>2, <3>4, <3>7
        <5>3. CASE h \in start + 1 .. start + k /\ j \in start + 1 .. start + k
          BY <5>3, <3>1, <3>2, <3>7
        <5>4. QED
          BY <4>1, <5>1, <5>2, <5>3, <3>1, <3>2, <3>3
      <4>4. QED
        BY <4>2, <4>3 DEF Ordered
    <3>9. ~purged' => /\ (consumed' - counter') % MessageLength = 0
                      /\ \A h \in 1 .. counter' : msgInternal'[h] = consumed' - counter' + h
      <4> SUFFICES ASSUME ~purged' PROVE /\ (consumed' - counter') % MessageLength = 0
              /\ \A h \in 1 .. counter' : msgInternal'[h] = consumed' - counter' + h
        OBVIOUS
      <4>1. consumed' - counter' = consumed - start
        BY <3>1, <3>2, <3>3
      <4>2. ASSUME NEW h \in 1 .. counter' PROVE msgInternal'[h] = consumed - start + h
        <5>1. CASE h \in 1 .. start
          BY <5>1, <3>3, <3>5, <3>7
        <5>2. CASE h \in start + 1 .. start + k
          BY <5>2, <3>1, <3>2, <3>7
        <5>3. QED
          BY <5>1, <5>2, <3>1, <3>2, <3>3
      <4>3. QED
        BY <4>1, <4>2, <3>3, <3>5
    <3>10. counter' > 0 => consumed' > 0
      BY <3>1, <3>3
    <3>11. QED
      BY <3>3, <3>6, <3>8, <3>9, <3>10 DEF Collected, Serial!Linux
  <2>4. Completed'
    BY <1>4
    DEF SerialIInv, Serial!TypeOK, Serial!Buffers, Serial!Bytes, Collected, Completed, Ordered,
        Serial!RxRead,
       Serial!reader, Serial!Running, Serial!Linux
  <2>5. Copied'
    BY <1>4
    DEF SerialIInv, Serial!TypeOK, Serial!Buffers, Serial!Bytes, SerialLocked, Copied, Completed,
        Ordered,
       Serial!Length, Serial!RxRead, Serial!reader, Serial!Running, Serial!Linux
  <2>6. Serial!ReadsWholeMessage'
    BY <1>4
    DEF SerialIInv, Serial!TypeOK, Serial!Buffers, Serial!Bytes, SerialLocked, Collected,
        Completed, Copied,
       Serial!ReadsWholeMessage, Ordered, Serial!Length, Serial!RxRead, Serial!reader,
       Serial!Running, Serial!Linux
  <2>7. Serial!ThreadEndsFirst'
    BY <1>4
    DEF SerialIInv, Serial!TypeOK, SerialLocked, Serial!ThreadEndsFirst, Serial!RxRead,
        Serial!reader, Serial!Linux, Serial!Running
  <2>8. QED
    BY <2>1, <2>2, <2>3, <2>4, <2>5, <2>6, <2>7 DEF SerialIInv
<1>5. CASE Serial!RxLock
  <2>1. Serial!TypeOK'
    BY <1>5 DEF SerialIInv, Serial!TypeOK, Serial!RxLock, Serial!reader, Serial!Running
  <2>2. SerialLocked'
    BY <1>5
    DEF SerialIInv, Serial!TypeOK, SerialLocked, Serial!RxLock, Serial!reader, Serial!Linux,
        Serial!Running
  <2>3. Collected'
    BY <1>5
    DEF SerialIInv, Serial!TypeOK, Serial!Buffers, Serial!Bytes, Collected, Ordered,
        Serial!RxLock, Serial!reader, Serial!Running,
       Serial!Linux
  <2>4. Completed'
    BY <1>5
    DEF SerialIInv, Serial!TypeOK, Serial!Buffers, Serial!Bytes, Collected, Completed, Ordered,
        Serial!RxLock,
       Serial!reader, Serial!Running, Serial!Linux
  <2>5. Copied'
    BY <1>5
    DEF SerialIInv, Serial!TypeOK, Serial!Buffers, Serial!Bytes, SerialLocked, Copied, Completed,
        Ordered,
       Serial!Length, Serial!RxLock, Serial!reader, Serial!Running, Serial!Linux
  <2>6. Serial!ReadsWholeMessage'
    BY <1>5
    DEF SerialIInv, Serial!TypeOK, Serial!Buffers, Serial!Bytes, SerialLocked, Collected,
        Completed, Copied,
       Serial!ReadsWholeMessage, Ordered, Serial!Length, Serial!RxLock, Serial!reader,
       Serial!Running, Serial!Linux
  <2>7. Serial!ThreadEndsFirst'
    BY <1>5
    DEF SerialIInv, Serial!TypeOK, SerialLocked, Serial!ThreadEndsFirst, Serial!RxLock,
        Serial!reader, Serial!Linux, Serial!Running
  <2>8. QED
    BY <2>1, <2>2, <2>3, <2>4, <2>5, <2>6, <2>7 DEF SerialIInv
<1>6. CASE Serial!RxStore
  <2>1. Serial!TypeOK'
    <3>1. /\ serialBytes' \in 0 .. MessageLength /\ serialLatest' \in 0 .. MaxBytes
          /\ counter' \in 0 .. MessageLength /\ n' \in 0 .. MessageLength
      BY <1>6 DEF SerialIInv, Serial!TypeOK, Serial!RxStore, Serial!Store
    <3>2. msgLastComplete' \in Serial!Buffers
      BY <1>6 DEF SerialIInv, Serial!TypeOK, Serial!RxStore, Serial!Store
    <3>3. QED
      BY <1>6, <3>1, <3>2 DEF SerialIInv, Serial!TypeOK, Serial!RxStore, Serial!Store, Serial!reader
  <2>2. SerialLocked'
    BY <1>6
    DEF SerialIInv, Serial!TypeOK, SerialLocked, Serial!RxStore, Serial!Store,
        Serial!reader, Serial!Linux, Serial!Running
  <2>3. Collected'
    <3>1. Collected /\ consumed \in Int /\ counter \in 0 .. MessageLength
      BY DEF SerialIInv, Serial!TypeOK
    <3>2. CASE Serial!Linux
      BY <1>6, <3>1, <3>2 DEF Collected, Ordered, Serial!RxStore, Serial!Store, Serial!Linux
    <3>3. CASE ~Serial!Linux
      <4>1. ~purged => (consumed - 0) % MessageLength = 0
        BY <1>6, <3>1, <3>3, MessageEnds DEF Collected, Serial!RxStore, Serial!Store
      <4>2. QED
        BY <1>6, <3>3, <4>1 DEF Collected, Ordered, Serial!RxStore, Serial!Store, Serial!Linux
    <3>4. QED
      BY <3>2, <3>3
  <2>4. Completed'
    <3>1. CASE counter = MessageLength
      <4>1. /\ consumed \in Nat /\ consumed > 0 /\ Ordered(msgInternal, MessageLength)
            /\ ~purged => /\ (consumed - MessageLength) % MessageLength = 0
                          /\ \A h \in Serial!Bytes : msgInternal[h] = consumed - MessageLength + h
        BY <3>1 DEF SerialIInv, Serial!TypeOK, Collected, Serial!Bytes
      <4>2. /\ msgLastComplete' = msgInternal /\ serialLatest' = consumed /\ purged' = purged
            /\ serialPlatform' = serialPlatform
        BY <1>6, <3>1 DEF Serial!RxStore, Serial!Store
      <4>3. ASSUME ~purged PROVE consumed % MessageLength = 0
        <5>1. consumed \in Int /\ (consumed - MessageLength) % MessageLength = 0
          BY <4>1, <4>3
        <5>2. QED
          BY <5>1, MessageEnds
      <4>4. QED
        BY <4>1, <4>2, <4>3 DEF Completed, Ordered
    <3>2. CASE counter # MessageLength
      <4>1. Serial!Linux
        BY <1>6, <3>2 DEF SerialIInv, Collected, Serial!RxStore, Serial!Store
      <4>2. QED
        BY <1>6, <3>2, <4>1
        DEF SerialIInv, Completed, Ordered, Serial!RxStore, Serial!Store, Serial!Linux
    <3>3. QED
      BY <3>1, <3>2
  <2>5. Copied'
    BY <1>6
    DEF SerialIInv, Serial!TypeOK, Serial!Buffers, Serial!Bytes, SerialLocked, Copied, Completed,
        Ordered,
       Serial!Length, Serial!RxStore, Serial!Store, Serial!reader, Serial!Running, Serial!Linux
  <2>6. Serial!ReadsWholeMessage'
    BY <1>6
    DEF SerialIInv, Serial!TypeOK, Serial!Buffers, Serial!Bytes, SerialLocked, Collected,
        Completed, Copied,
       Serial!ReadsWholeMessage, Ordered, Serial!Length, Serial!RxStore, Serial!Store,
       Serial!reader, Serial!Running, Serial!Linux
  <2>7. Serial!ThreadEndsFirst'
    BY <1>6
    DEF SerialIInv, Serial!TypeOK, SerialLocked, Serial!ThreadEndsFirst, Serial!RxStore,
        Serial!Store, Serial!reader, Serial!Linux, Serial!Running
  <2>8. QED
    BY <2>1, <2>2, <2>3, <2>4, <2>5, <2>6, <2>7 DEF SerialIInv
<1>7. CASE Serial!RxPurge
  <2>1. Serial!TypeOK'
    <3>1. consumed' \in 0 .. serialArrived
      BY <1>7 DEF SerialIInv, Serial!TypeOK, Serial!RxPurge
    <3>2. QED
      BY <1>7, <3>1 DEF SerialIInv, Serial!TypeOK, Serial!RxPurge, Serial!port, Serial!reader
  <2>2. SerialLocked'
    BY <1>7
    DEF SerialIInv, Serial!TypeOK, SerialLocked, Serial!RxPurge, Serial!port, Serial!reader,
        Serial!Linux, Serial!Running
  <2>3. Collected'
    <3>1. /\ ~Serial!Linux /\ consumed <= consumed' /\ consumed \in Nat /\ consumed' \in Nat /\ purged'
          /\ serialRx' \in {"test", "wipe"} /\ UNCHANGED <<serialPlatform, msgInternal, counter>>
      BY <1>7 DEF SerialIInv, Serial!TypeOK, Serial!RxPurge, Serial!port
    <3>2. /\ counter > 0 => consumed > 0
          /\ \A h \in 1 .. counter : msgInternal[h] \in Nat /\ msgInternal[h] <= consumed
          /\ Ordered(msgInternal, counter) /\ counter \in Nat
      BY SMTT(30) DEF SerialIInv, Serial!TypeOK, Serial!Buffers, Serial!Bytes, Collected
    <3>3. QED
      BY <3>1, <3>2 DEF Collected, Serial!Linux, Ordered
  <2>4. Completed'
    BY <1>7
    DEF SerialIInv, Serial!TypeOK, Serial!Buffers, Serial!Bytes, Collected, Completed, Ordered,
        Serial!RxPurge,
       Serial!port, Serial!reader, Serial!Running, Serial!Linux
  <2>5. Copied'
    BY <1>7
    DEF SerialIInv, Serial!TypeOK, Serial!Buffers, Serial!Bytes, SerialLocked, Copied, Completed,
        Ordered,
       Serial!Length, Serial!RxPurge, Serial!port, Serial!reader, Serial!Running, Serial!Linux
  <2>6. Serial!ReadsWholeMessage'
    BY <1>7
    DEF SerialIInv, Serial!TypeOK, Serial!Buffers, Serial!Bytes, SerialLocked, Collected,
        Completed, Copied,
       Serial!ReadsWholeMessage, Ordered, Serial!Length, Serial!RxPurge, Serial!port,
       Serial!reader, Serial!Running, Serial!Linux
  <2>7. Serial!ThreadEndsFirst'
    BY <1>7
    DEF SerialIInv, Serial!TypeOK, SerialLocked, Serial!ThreadEndsFirst, Serial!RxPurge,
        Serial!port, Serial!reader, Serial!Linux, Serial!Running
  <2>8. QED
    BY <2>1, <2>2, <2>3, <2>4, <2>5, <2>6, <2>7 DEF SerialIInv
<1>8. CASE Serial!RxErase
  <2>1. Serial!TypeOK'
    BY <1>8, SerialNothing DEF SerialIInv, Serial!TypeOK, Serial!RxErase, Serial!reader
  <2>2. SerialLocked'
    BY <1>8
    DEF SerialIInv, Serial!TypeOK, SerialLocked, Serial!RxErase, Serial!reader,
        Serial!Linux, Serial!Running
  <2>3. Collected'
    BY <1>8
    DEF SerialIInv, Serial!TypeOK, Serial!Buffers, Serial!Bytes, Collected, Ordered,
        Serial!RxErase, Serial!reader,
       Serial!Running, Serial!Linux
  <2>4. Completed'
    BY <1>8 DEF SerialIInv, Completed, Serial!RxErase, Serial!Zeros, Serial!Bytes, Serial!Linux
  <2>5. Copied'
    BY <1>8
    DEF SerialIInv, Serial!TypeOK, Serial!Buffers, Serial!Bytes, SerialLocked, Copied, Completed,
        Ordered,
       Serial!Length, Serial!RxErase, Serial!reader, Serial!Running, Serial!Linux
  <2>6. Serial!ReadsWholeMessage'
    BY <1>8
    DEF SerialIInv, Serial!TypeOK, Serial!Buffers, Serial!Bytes, SerialLocked, Collected,
        Completed, Copied,
       Serial!ReadsWholeMessage, Ordered, Serial!Length, Serial!RxErase, Serial!reader,
       Serial!Running, Serial!Linux
  <2>7. Serial!ThreadEndsFirst'
    BY <1>8
    DEF SerialIInv, Serial!TypeOK, SerialLocked, Serial!ThreadEndsFirst, Serial!RxErase,
        Serial!reader, Serial!Linux, Serial!Running
  <2>8. QED
    BY <2>1, <2>2, <2>3, <2>4, <2>5, <2>6, <2>7 DEF SerialIInv
<1>9. CASE Serial!RxFails
  <2>1. Serial!TypeOK'
    BY <1>9 DEF SerialIInv, Serial!TypeOK, Serial!RxFails, Serial!port, Serial!Running, Serial!Linux
  <2>2. SerialLocked'
    BY <1>9
    DEF SerialIInv, Serial!TypeOK, SerialLocked, Serial!RxFails, Serial!port, Serial!Linux,
        Serial!Running
  <2>3. Collected'
    BY <1>9
    DEF SerialIInv, Serial!TypeOK, Serial!Buffers, Serial!Bytes, Collected, Ordered,
        Serial!RxFails, Serial!port, Serial!Running,
       Serial!Linux
  <2>4. Completed'
    BY <1>9
    DEF SerialIInv, Serial!TypeOK, Serial!Buffers, Serial!Bytes, Collected, Completed, Ordered,
        Serial!RxFails,
       Serial!port, Serial!Running, Serial!Linux
  <2>5. Copied'
    BY <1>9
    DEF SerialIInv, Serial!TypeOK, Serial!Buffers, Serial!Bytes, SerialLocked, Copied, Completed,
        Ordered,
       Serial!Length, Serial!RxFails, Serial!port, Serial!Running, Serial!Linux
  <2>6. Serial!ReadsWholeMessage'
    BY <1>9
    DEF SerialIInv, Serial!TypeOK, Serial!Buffers, Serial!Bytes, SerialLocked, Collected,
        Completed, Copied,
       Serial!ReadsWholeMessage, Ordered, Serial!Length, Serial!RxFails, Serial!port,
       Serial!Running, Serial!Linux
  <2>7. Serial!ThreadEndsFirst'
    BY <1>9
    DEF SerialIInv, Serial!TypeOK, SerialLocked, Serial!ThreadEndsFirst, Serial!RxFails,
        Serial!port, Serial!Linux, Serial!Running
  <2>8. QED
    BY <2>1, <2>2, <2>3, <2>4, <2>5, <2>6, <2>7 DEF SerialIInv
<1>10. ASSUME NEW receives \in BOOLEAN, Serial!Construct(receives) PROVE SerialIInv'
  <2>1. Serial!TypeOK'
    BY <1>10 DEF SerialIInv, Serial!TypeOK, Serial!Construct
  <2>2. SerialLocked'
    BY <1>10
    DEF SerialIInv, Serial!TypeOK, SerialLocked, Serial!Construct, Serial!Linux,
        Serial!Running
  <2>3. Collected'
    BY <1>10
    DEF SerialIInv, Serial!TypeOK, Serial!Buffers, Serial!Bytes, Collected, Ordered,
        Serial!Construct, Serial!Linux
  <2>4. Completed'
    BY <1>10
    DEF SerialIInv, Serial!TypeOK, Serial!Buffers, Serial!Bytes, Collected, Completed, Ordered,
        Serial!Construct,
       Serial!Linux
  <2>5. Copied'
    BY <1>10
    DEF SerialIInv, Serial!TypeOK, Serial!Buffers, Serial!Bytes, SerialLocked, Copied, Completed,
        Ordered,
       Serial!Length, Serial!Construct, Serial!Linux
  <2>6. Serial!ReadsWholeMessage'
    BY <1>10
    DEF SerialIInv, Serial!TypeOK, Serial!Buffers, Serial!Bytes, SerialLocked, Collected,
        Completed, Copied,
       Serial!ReadsWholeMessage, Ordered, Serial!Length, Serial!Construct, Serial!Linux
  <2>7. Serial!ThreadEndsFirst'
    BY <1>10
    DEF SerialIInv, Serial!TypeOK, SerialLocked, Serial!ThreadEndsFirst, Serial!Construct,
        Serial!Linux, Serial!Running
  <2>8. QED
    BY <2>1, <2>2, <2>3, <2>4, <2>5, <2>6, <2>7 DEF SerialIInv
<1>11. CASE Serial!ConstructFails
  <2>1. Serial!TypeOK'
    BY <1>11 DEF SerialIInv, Serial!TypeOK, Serial!ConstructFails, Serial!port
  <2>2. SerialLocked'
    BY <1>11
    DEF SerialIInv, Serial!TypeOK, SerialLocked, Serial!ConstructFails, Serial!port,
        Serial!Linux, Serial!Running
  <2>3. Collected'
    BY <1>11
    DEF SerialIInv, Serial!TypeOK, Serial!Buffers, Serial!Bytes, Collected, Ordered,
        Serial!ConstructFails, Serial!port,
       Serial!Linux
  <2>4. Completed'
    BY <1>11
    DEF SerialIInv, Serial!TypeOK, Serial!Buffers, Serial!Bytes, Collected, Completed, Ordered,
       Serial!ConstructFails, Serial!port, Serial!Linux
  <2>5. Copied'
    BY <1>11
    DEF SerialIInv, Serial!TypeOK, Serial!Buffers, Serial!Bytes, SerialLocked, Copied, Completed,
        Ordered,
       Serial!Length, Serial!ConstructFails, Serial!port, Serial!Linux
  <2>6. Serial!ReadsWholeMessage'
    BY <1>11
    DEF SerialIInv, Serial!TypeOK, Serial!Buffers, Serial!Bytes, SerialLocked, Collected,
        Completed, Copied,
       Serial!ReadsWholeMessage, Ordered, Serial!Length, Serial!ConstructFails, Serial!port,
       Serial!Linux
  <2>7. Serial!ThreadEndsFirst'
    BY <1>11
    DEF SerialIInv, Serial!TypeOK, SerialLocked, Serial!ThreadEndsFirst,
        Serial!ConstructFails, Serial!port, Serial!Linux, Serial!Running
  <2>8. QED
    BY <2>1, <2>2, <2>3, <2>4, <2>5, <2>6, <2>7 DEF SerialIInv
<1>12. CASE Serial!SendFails
  <2>1. Serial!TypeOK'
    BY <1>12 DEF SerialIInv, Serial!TypeOK, Serial!SendFails, Serial!port, Serial!Linux
  <2>2. SerialLocked'
    BY <1>12
    DEF SerialIInv, Serial!TypeOK, SerialLocked, Serial!SendFails, Serial!port,
        Serial!Linux, Serial!Running
  <2>3. Collected'
    BY <1>12
    DEF SerialIInv, Serial!TypeOK, Serial!Buffers, Serial!Bytes, Collected, Ordered,
        Serial!SendFails, Serial!port, Serial!Linux
  <2>4. Completed'
    BY <1>12
    DEF SerialIInv, Serial!TypeOK, Serial!Buffers, Serial!Bytes, Collected, Completed, Ordered,
        Serial!SendFails,
       Serial!port, Serial!Linux
  <2>5. Copied'
    BY <1>12
    DEF SerialIInv, Serial!TypeOK, Serial!Buffers, Serial!Bytes, SerialLocked, Copied, Completed,
        Ordered,
       Serial!Length, Serial!SendFails, Serial!port, Serial!Linux
  <2>6. Serial!ReadsWholeMessage'
    BY <1>12
    DEF SerialIInv, Serial!TypeOK, Serial!Buffers, Serial!Bytes, SerialLocked, Collected,
        Completed, Copied,
       Serial!ReadsWholeMessage, Ordered, Serial!Length, Serial!SendFails, Serial!port, Serial!Linux
  <2>7. Serial!ThreadEndsFirst'
    BY <1>12
    DEF SerialIInv, Serial!TypeOK, SerialLocked, Serial!ThreadEndsFirst, Serial!SendFails,
        Serial!port, Serial!Linux, Serial!Running
  <2>8. QED
    BY <2>1, <2>2, <2>3, <2>4, <2>5, <2>6, <2>7 DEF SerialIInv
<1>13. CASE Serial!Begin
  <2>1. Serial!TypeOK'
    BY <1>13, SerialNothing DEF SerialIInv, Serial!TypeOK, SerialResults, Serial!Begin, Serial!port
  <2>2. SerialLocked'
    BY <1>13
    DEF SerialIInv, Serial!TypeOK, SerialLocked, Serial!Begin, Serial!port, Serial!Linux,
        Serial!Running
  <2>3. Collected'
    BY <1>13
    DEF SerialIInv, Serial!TypeOK, Serial!Buffers, Serial!Bytes, Collected, Ordered, Serial!Begin,
        Serial!port, Serial!Linux
  <2>4. Completed'
    BY <1>13
    DEF SerialIInv, Serial!TypeOK, Serial!Buffers, Serial!Bytes, Collected, Completed, Ordered,
        Serial!Begin, Serial!port,
       Serial!Linux
  <2>5. Copied'
    BY <1>13
    DEF SerialIInv, Serial!TypeOK, Serial!Buffers, Serial!Bytes, SerialLocked, Copied, Completed,
        Ordered,
       Serial!Length, Serial!NoResult, Serial!Begin, Serial!port, Serial!Linux
  <2>6. Serial!ReadsWholeMessage'
    BY <1>13
    DEF SerialIInv, Serial!TypeOK, Serial!Buffers, Serial!Bytes, SerialLocked, Collected,
        Completed, Copied,
       Serial!ReadsWholeMessage, Ordered, Serial!Length, Serial!NoResult, Serial!Begin,
       Serial!port, Serial!Linux
  <2>7. Serial!ThreadEndsFirst'
    BY <1>13
    DEF SerialIInv, Serial!TypeOK, SerialLocked, Serial!ThreadEndsFirst, Serial!Begin,
        Serial!port, Serial!Linux, Serial!Running
  <2>8. QED
    BY <2>1, <2>2, <2>3, <2>4, <2>5, <2>6, <2>7 DEF SerialIInv
<1>14. CASE Serial!Lock
  <2>1. Serial!TypeOK'
    BY <1>14
    DEF SerialIInv, Serial!TypeOK, Serial!EnterUnguarded, Serial!Lock, Serial!EnterUnguarded
  <2>2. SerialLocked'
    BY <1>14
    DEF SerialIInv, Serial!TypeOK, SerialLocked, Serial!Lock, Serial!EnterUnguarded,
        Serial!Linux, Serial!Running
  <2>3. Collected'
    BY <1>14
    DEF SerialIInv, Serial!TypeOK, Serial!Buffers, Serial!Bytes, Collected, Ordered, Serial!Lock,
        Serial!EnterUnguarded,
       Serial!Linux
  <2>4. Completed'
    BY <1>14
    DEF SerialIInv, Serial!TypeOK, Serial!Buffers, Serial!Bytes, Collected, Completed, Ordered,
        Serial!Lock,
       Serial!EnterUnguarded, Serial!Linux
  <2>5. Copied'
    BY <1>14
    DEF SerialIInv, Serial!TypeOK, Serial!Buffers, Serial!Bytes, SerialLocked, Copied, Completed,
        Ordered,
       Serial!Length, Serial!Lock, Serial!EnterUnguarded, Serial!Linux
  <2>6. Serial!ReadsWholeMessage'
    BY <1>14
    DEF SerialIInv, Serial!TypeOK, Serial!Buffers, Serial!Bytes, SerialLocked, Collected,
        Completed, Copied,
       Serial!ReadsWholeMessage, Ordered, Serial!Length, Serial!Lock, Serial!EnterUnguarded,
       Serial!Linux
  <2>7. Serial!ThreadEndsFirst'
    BY <1>14
    DEF SerialIInv, Serial!TypeOK, SerialLocked, Serial!ThreadEndsFirst, Serial!Lock,
        Serial!EnterUnguarded, Serial!Linux, Serial!Running
  <2>8. QED
    BY <2>1, <2>2, <2>3, <2>4, <2>5, <2>6, <2>7 DEF SerialIInv
<1>15. CASE Serial!CopyByte
  <2>1. Serial!TypeOK'
    <3>1. serialAt \in 0 .. MessageLength - 1
      BY <1>15 DEF SerialIInv, Serial!TypeOK, Serial!CopyByte, Serial!Length
    <3>2. serialAt' \in 0 .. MessageLength /\ serialAt + 1 \in Serial!Bytes
      BY <1>15, <3>1 DEF Serial!CopyByte, Serial!Bytes
    <3>3. serialCopy' \in Serial!Buffers
      BY <1>15, <3>2 DEF SerialIInv, Serial!TypeOK, Serial!CopyByte, Serial!Buffers
    <3>4. QED
      BY <1>15, <3>2, <3>3 DEF SerialIInv, Serial!TypeOK, Serial!CopyByte, Serial!port
  <2>2. SerialLocked'
    BY <1>15
    DEF SerialIInv, Serial!TypeOK, SerialLocked, Serial!CopyByte, Serial!port, Serial!Linux,
        Serial!Running
  <2>3. Collected'
    BY <1>15
    DEF SerialIInv, Serial!TypeOK, Serial!Buffers, Serial!Bytes, Collected, Ordered,
        Serial!CopyByte, Serial!port, Serial!Linux
  <2>4. Completed'
    BY <1>15
    DEF SerialIInv, Serial!TypeOK, Serial!Buffers, Serial!Bytes, Collected, Completed, Ordered,
        Serial!CopyByte,
       Serial!port, Serial!Linux
  <2>5. Copied'
    <3>1. /\ serialAt \in 0 .. MessageLength - 1 /\ serialSim = "copy" /\ serialAt < Serial!Length /\ Serial!Length \in Int
          /\ serialCopy' = [serialCopy EXCEPT ![serialAt + 1] = msgLastComplete[serialAt + 1]] /\ serialAt' = serialAt + 1
      BY <1>15 DEF SerialIInv, Serial!TypeOK, Serial!CopyByte, Serial!Length
    <3>2. Serial!Length' = Serial!Length /\ serialSim' = serialSim /\ msgLastComplete' = msgLastComplete
      BY <1>15 DEF Serial!CopyByte, Serial!Length, Serial!Linux, Serial!port
    <3>3. serialCopy \in [1 .. MessageLength -> 0 .. MaxBytes]
      BY DEF SerialIInv, Serial!TypeOK, Serial!Buffers, Serial!Bytes
    <3>4. \A h \in 1 .. serialAt : serialCopy[h] = msgLastComplete[h]
      BY <3>1 DEF SerialIInv, Copied
    <3>5. \A h \in 1 .. serialAt' : serialCopy'[h] = msgLastComplete'[h]
      BY <3>1, <3>2, <3>3, <3>4
    <3>6. serialAt' <= Serial!Length'
      BY <3>1, <3>2
    <3>7. QED
      BY <1>15, <3>1, <3>2, <3>5, <3>6 DEF SerialIInv, Copied, Ordered, Serial!CopyByte,
         Serial!Linux
  <2>6. Serial!ReadsWholeMessage'
    BY <1>15
    DEF SerialIInv, Serial!TypeOK, Serial!Buffers, Serial!Bytes, SerialLocked, Collected,
        Completed, Copied,
       Serial!ReadsWholeMessage, Ordered, Serial!Length, Serial!CopyByte, Serial!port, Serial!Linux
  <2>7. Serial!ThreadEndsFirst'
    BY <1>15
    DEF SerialIInv, Serial!TypeOK, SerialLocked, Serial!ThreadEndsFirst, Serial!CopyByte,
        Serial!port, Serial!Linux, Serial!Running
  <2>8. QED
    BY <2>1, <2>2, <2>3, <2>4, <2>5, <2>6, <2>7 DEF SerialIInv
<1>16. CASE Serial!Return
  <2>1. Serial!TypeOK'
    <3>1. serialResult' \in SerialResults
      BY <1>16 DEF SerialIInv, Serial!TypeOK, Serial!Return, SerialResults
    <3>2. serialBytes' \in 0 .. MessageLength /\ serialAt' \in 0 .. MessageLength
      BY <1>16 DEF SerialIInv, Serial!TypeOK, Serial!Return
    <3>3. QED
      BY <1>16, <3>1, <3>2, SerialNothing DEF SerialIInv, Serial!TypeOK, Serial!Return,
         SerialResults
  <2>2. SerialLocked'
    BY <1>16
    DEF SerialIInv, Serial!TypeOK, SerialLocked, Serial!Return, Serial!Linux, Serial!Running
  <2>3. Collected'
    BY <1>16
    DEF SerialIInv, Serial!TypeOK, Serial!Buffers, Serial!Bytes, Collected, Ordered,
        Serial!Return, Serial!Linux
  <2>4. Completed'
    BY <1>16
    DEF SerialIInv, Serial!TypeOK, Serial!Buffers, Serial!Bytes, Collected, Completed, Ordered,
        Serial!Return,
       Serial!Linux
  <2>5. Copied'
    BY <1>16
    DEF SerialIInv, Serial!TypeOK, Serial!Buffers, Serial!Bytes, SerialLocked, Copied, Completed,
        Ordered,
       Serial!Length, Serial!Return, Serial!Linux
  <2>6. Serial!ReadsWholeMessage'
    BY SMTT(30), <1>16
    DEF SerialIInv, Serial!TypeOK, Serial!Buffers, Serial!Bytes, SerialLocked, Collected,
        Completed, Copied,
       Serial!ReadsWholeMessage, Ordered, Serial!Length, Serial!Return, Serial!Linux
  <2>7. Serial!ThreadEndsFirst'
    BY <1>16
    DEF SerialIInv, Serial!TypeOK, SerialLocked, Serial!ThreadEndsFirst, Serial!Return,
        Serial!Linux, Serial!Running
  <2>8. QED
    BY <2>1, <2>2, <2>3, <2>4, <2>5, <2>6, <2>7 DEF SerialIInv
<1>17. CASE Serial!PackageTooSmall
  <2>1. Serial!TypeOK'
    BY <1>17 DEF SerialIInv, Serial!TypeOK, Serial!PackageTooSmall, Serial!Linux
  <2>2. SerialLocked'
    BY <1>17
    DEF SerialIInv, Serial!TypeOK, SerialLocked, Serial!PackageTooSmall, Serial!Linux,
        Serial!Running
  <2>3. Collected'
    BY <1>17
    DEF SerialIInv, Serial!TypeOK, Serial!Buffers, Serial!Bytes, Collected, Ordered,
        Serial!PackageTooSmall, Serial!Linux
  <2>4. Completed'
    BY <1>17
    DEF SerialIInv, Serial!TypeOK, Serial!Buffers, Serial!Bytes, Collected, Completed, Ordered,
       Serial!PackageTooSmall, Serial!Linux
  <2>5. Copied'
    BY <1>17
    DEF SerialIInv, Serial!TypeOK, Serial!Buffers, Serial!Bytes, SerialLocked, Copied, Completed,
        Ordered,
       Serial!Length, Serial!PackageTooSmall, Serial!Linux
  <2>6. Serial!ReadsWholeMessage'
    BY <1>17
    DEF SerialIInv, Serial!TypeOK, Serial!Buffers, Serial!Bytes, SerialLocked, Collected,
        Completed, Copied,
       Serial!ReadsWholeMessage, Ordered, Serial!Length, Serial!PackageTooSmall, Serial!Linux
  <2>7. Serial!ThreadEndsFirst'
    BY <1>17
    DEF SerialIInv, Serial!TypeOK, SerialLocked, Serial!ThreadEndsFirst,
        Serial!PackageTooSmall, Serial!Linux, Serial!Running
  <2>8. QED
    BY <2>1, <2>2, <2>3, <2>4, <2>5, <2>6, <2>7 DEF SerialIInv
<1>18. CASE Serial!CountReturns
  <2>1. Serial!TypeOK'
    BY <1>18 DEF SerialIInv, Serial!TypeOK, Serial!CountReturns
  <2>2. SerialLocked'
    BY <1>18
    DEF SerialIInv, Serial!TypeOK, SerialLocked, Serial!CountReturns, Serial!Linux,
        Serial!Running
  <2>3. Collected'
    BY <1>18
    DEF SerialIInv, Serial!TypeOK, Serial!Buffers, Serial!Bytes, Collected, Ordered,
        Serial!CountReturns, Serial!Linux
  <2>4. Completed'
    BY <1>18
    DEF SerialIInv, Serial!TypeOK, Serial!Buffers, Serial!Bytes, Collected, Completed, Ordered,
       Serial!CountReturns, Serial!Linux
  <2>5. Copied'
    BY <1>18
    DEF SerialIInv, Serial!TypeOK, Serial!Buffers, Serial!Bytes, SerialLocked, Copied, Completed,
        Ordered,
       Serial!Length, Serial!CountReturns, Serial!Linux
  <2>6. Serial!ReadsWholeMessage'
    BY <1>18
    DEF SerialIInv, Serial!TypeOK, Serial!Buffers, Serial!Bytes, SerialLocked, Collected,
        Completed, Copied,
       Serial!ReadsWholeMessage, Ordered, Serial!Length, Serial!CountReturns, Serial!Linux
  <2>7. Serial!ThreadEndsFirst'
    BY <1>18
    DEF SerialIInv, Serial!TypeOK, SerialLocked, Serial!ThreadEndsFirst,
        Serial!CountReturns, Serial!Linux, Serial!Running
  <2>8. QED
    BY <2>1, <2>2, <2>3, <2>4, <2>5, <2>6, <2>7 DEF SerialIInv
<1>19. CASE Serial!Destroy
  <2>1. Serial!TypeOK'
    BY <1>19, SerialNothing DEF SerialIInv, Serial!TypeOK, SerialResults, Serial!Destroy
  <2>2. SerialLocked'
    BY <1>19
    DEF SerialIInv, Serial!TypeOK, SerialLocked, Serial!Destroy, Serial!Linux,
        Serial!Running
  <2>3. Collected'
    BY <1>19
    DEF SerialIInv, Serial!TypeOK, Serial!Buffers, Serial!Bytes, Collected, Ordered,
        Serial!Destroy, Serial!Linux
  <2>4. Completed'
    BY <1>19
    DEF SerialIInv, Serial!TypeOK, Serial!Buffers, Serial!Bytes, Collected, Completed, Ordered,
        Serial!Destroy,
       Serial!Linux
  <2>5. Copied'
    BY <1>19
    DEF SerialIInv, Serial!TypeOK, Serial!Buffers, Serial!Bytes, SerialLocked, Copied, Completed,
        Ordered,
       Serial!Length, Serial!NoResult, Serial!Destroy, Serial!Linux
  <2>6. Serial!ReadsWholeMessage'
    BY <1>19
    DEF SerialIInv, Serial!TypeOK, Serial!Buffers, Serial!Bytes, SerialLocked, Collected,
        Completed, Copied,
       Serial!ReadsWholeMessage, Ordered, Serial!Length, Serial!NoResult, Serial!Destroy,
       Serial!Linux
  <2>7. Serial!ThreadEndsFirst'
    BY <1>19
    DEF SerialIInv, Serial!TypeOK, SerialLocked, Serial!ThreadEndsFirst, Serial!Destroy,
        Serial!Linux, Serial!Running
  <2>8. QED
    BY <2>1, <2>2, <2>3, <2>4, <2>5, <2>6, <2>7 DEF SerialIInv
<1>20. CASE Serial!Join
  <2>1. Serial!TypeOK'
    BY <1>20 DEF SerialIInv, Serial!TypeOK, Serial!Join, Serial!port, Serial!Linux
  <2>2. SerialLocked'
    BY <1>20
    DEF SerialIInv, Serial!TypeOK, SerialLocked, Serial!Join, Serial!port, Serial!Linux,
        Serial!Running
  <2>3. Collected'
    BY <1>20
    DEF SerialIInv, Serial!TypeOK, Serial!Buffers, Serial!Bytes, Collected, Ordered, Serial!Join,
        Serial!port, Serial!Linux
  <2>4. Completed'
    BY <1>20
    DEF SerialIInv, Serial!TypeOK, Serial!Buffers, Serial!Bytes, Collected, Completed, Ordered,
        Serial!Join, Serial!port,
       Serial!Linux
  <2>5. Copied'
    BY <1>20
    DEF SerialIInv, Serial!TypeOK, Serial!Buffers, Serial!Bytes, SerialLocked, Copied, Completed,
        Ordered,
       Serial!Length, Serial!Join, Serial!port, Serial!Linux
  <2>6. Serial!ReadsWholeMessage'
    BY <1>20
    DEF SerialIInv, Serial!TypeOK, Serial!Buffers, Serial!Bytes, SerialLocked, Collected,
        Completed, Copied,
       Serial!ReadsWholeMessage, Ordered, Serial!Length, Serial!Join, Serial!port, Serial!Linux
  <2>7. Serial!ThreadEndsFirst'
    BY <1>20
    DEF SerialIInv, Serial!TypeOK, SerialLocked, Serial!ThreadEndsFirst, Serial!Join,
        Serial!port, Serial!Linux, Serial!Running
  <2>8. QED
    BY <2>1, <2>2, <2>3, <2>4, <2>5, <2>6, <2>7 DEF SerialIInv
<1>21. CASE UNCHANGED Serial!vars \/ Serial!Ended
  BY <1>21
  DEF SerialIInv, Serial!TypeOK, SerialLocked, Collected, Ordered, Completed, Copied,
      Serial!Length, Serial!ReadsWholeMessage, Serial!ThreadEndsFirst, Serial!Linux, Serial!Running, Serial!Ended, Serial!vars,
      Serial!port, Serial!reader, Serial!Running, Serial!Linux
<1>22. QED
  BY <1>1, <1>2, <1>3, <1>4, <1>5, <1>6, <1>7, <1>8, <1>9, <1>10, <1>11, <1>12, <1>13, <1>14,
     <1>15, <1>16, <1>17, <1>18, <1>19, <1>20, <1>21 DEF Serial!Next

\* Nobody waits for a mutex that does not come free.
LEMMA SerialLockComesFree == ASSUME SerialIInv PROVE Serial!LockComesFree
  BY DEF SerialIInv, Serial!TypeOK, SerialLocked, Serial!LockComesFree, Serial!Running

\* A step of the drivers is one of this driver, or leaves it alone.
LEMMA SerialSteps == ASSUME [DevicesNext]_DeviceVars PROVE [Serial!Next]_Serial!vars
  BY DEF DevicesNext, OthersRest, DeviceVars, SerialVars, Serial!vars, Serial!port, Serial!reader

\* In every state of the drivers its invariant holds.
LEMMA SerialInvariance == DevicesSpec => []SerialIInv
<1>1. DevicesInit => SerialIInv
  BY InitSerialIInv, DevicesAssumption DEF DevicesAssumption, DevicesInit
<1>2. SerialIInv /\ [DevicesNext]_DeviceVars => SerialIInv'
  <2> SUFFICES ASSUME SerialIInv, [DevicesNext]_DeviceVars PROVE SerialIInv'
    OBVIOUS
  <2>1. [Serial!Next]_Serial!vars
    BY SerialSteps
  <2>2. QED
    BY <2>1, SerialIInvStep, DevicesAssumption DEF DevicesAssumption
<1>3. QED
  BY <1>1, <1>2, PTL DEF DevicesSpec

----------------------------------------------------------------------------
(* The Softing CAN interface (SoftingCan) *)

\* A block has the object of its number, and once the chip is started every block has one.
ObjectsDefined ==
  /\ received \in Seq({b.ident : b \in Blocks})
  /\ \A b \in Blocks : objectNumber[b] # 0 => objectList[objectNumber[b]] = b
  /\ softingSim \in {"start", "run"} => \A b \in Blocks : objectNumber[b] # 0

\* An object holds a frame of the identifier it was defined for.
ObjectsHoldOwn ==
  \A o \in 1 .. Len(objectList) : rcv[o] # 0 => received[rcv[o]] = objectList[o].ident

SoftingIInv == Softing!TypeOK /\ ObjectsDefined /\ ObjectsHoldOwn /\ Softing!ReadsOwnMessage

\* The invariant holds in the initial states.
LEMMA InitSoftingIInv ==
  ASSUME Softing!SoftingAssumption, Softing!Init
  PROVE  SoftingIInv
<1>1. objectList \in Seq(Blocks) /\ received \in Seq({b.ident : b \in Blocks})
  BY DEF Softing!Init
<1>2. Len(objectList) = 0 /\ Len(received) = 0
  BY EmptySeq DEF Softing!Init
<1>3. rcv \in [1 .. Len(objectList) -> 0 .. Len(received)]
  BY <1>2 DEF Softing!Init
<1>4. Softing!TypeOK
  BY <1>1, <1>2, <1>3 DEF Softing!Init, Softing!TypeOK, Softing!SoftingAssumption
<1>5. ObjectsDefined /\ ObjectsHoldOwn /\ Softing!ReadsOwnMessage
  BY <1>1, <1>2 DEF Softing!Init, ObjectsDefined, ObjectsHoldOwn, Softing!ReadsOwnMessage
<1>6. QED
  BY <1>4, <1>5 DEF SoftingIInv

\* A block is given the next number, and an object without a frame.
LEMMA DefineObjectStep ==
  ASSUME Softing!SoftingAssumption, SoftingIInv, NEW b \in Blocks, Softing!DefineObject(b)
  PROVE  SoftingIInv'
<1> DEFINE len == Len(objectList)
<1>1. /\ len \in Nat /\ objectList \in Seq(Blocks) /\ rcv \in [1 .. len -> 0 .. Len(received)]
      /\ objectNumber \in [Blocks -> 0 .. len] /\ Len(received) \in Nat
  BY DEF SoftingIInv, Softing!TypeOK, ObjectsDefined
<1>2. /\ objectList' = Append(objectList, b) /\ objectNumber' = [objectNumber EXCEPT ![b] = len + 1]
      /\ rcv' = Append(rcv, 0) /\ objectNumber[b] = 0
      /\ received' = received /\ pkg' = pkg /\ overrun' = overrun /\ chip' = chip
      /\ softingSim' = IF \A a \in Blocks \ {b} : objectNumber[a] # 0 THEN "start" ELSE "define"
  BY DEF Softing!DefineObject
<1>3. /\ objectList' \in Seq(Blocks) /\ Len(objectList') = len + 1
      /\ \A o \in 1 .. len : objectList'[o] = objectList[o]
      /\ objectList'[len + 1] = b
  BY <1>1, <1>2, AppendProperties
<1>4. /\ rcv \in Seq(0 .. Len(received)) /\ Len(rcv) = len
  <2>1. \A S, f : f \in [1 .. len -> S] => f \in Seq(S) /\ Len(f) = len
    BY <1>1
  <2>2. QED
    BY <1>1, <2>1
<1>5. /\ rcv' \in Seq(0 .. Len(received)) /\ Len(rcv') = len + 1
      /\ \A o \in 1 .. len : rcv'[o] = rcv[o]
      /\ rcv'[len + 1] = 0
  BY <1>2, <1>4, AppendProperties
<1>6. rcv' \in [1 .. len + 1 -> 0 .. Len(received)]
  BY <1>5
<1> HIDE DEF len
<1>7. \A o \in 1 .. len + 1 : o \in 1 .. len \/ o = len + 1
  BY <1>1
<1>8. objectNumber' \in [Blocks -> 0 .. len + 1]
  BY <1>1, <1>2
<1>9. Softing!TypeOK'
  <2>1. overrun' \subseteq 1 .. len + 1
    BY <1>1, <1>2 DEF SoftingIInv, Softing!TypeOK, len
  <2>2. QED
    BY <1>2, <1>3, <1>6, <1>8, <2>1 DEF SoftingIInv, Softing!TypeOK
<1>10. ObjectsDefined'
  <2>1. \A a \in Blocks : objectNumber'[a] # 0 => objectList'[objectNumber'[a]] = a
    <3> SUFFICES ASSUME NEW a \in Blocks, objectNumber'[a] # 0
                 PROVE  objectList'[objectNumber'[a]] = a
      OBVIOUS
    <3>1. CASE a = b
      BY <1>1, <1>2, <1>3, <3>1
    <3>2. CASE a # b
      <4>1. objectNumber'[a] = objectNumber[a] /\ objectNumber[a] \in 1 .. len
        BY <1>1, <1>2, <3>2
      <4>2. QED
        BY <4>1, <1>3 DEF SoftingIInv, ObjectsDefined
    <3>3. QED
      BY <3>1, <3>2
  <2>2. softingSim' \in {"start", "run"} => \A a \in Blocks : objectNumber'[a] # 0
    BY <1>1, <1>2
  <2>3. QED
    BY <1>2, <2>1, <2>2 DEF SoftingIInv, ObjectsDefined
<1>11. ObjectsHoldOwn'
  BY <1>2, <1>3, <1>5, <1>7 DEF SoftingIInv, ObjectsHoldOwn, len
<1>12. Softing!ReadsOwnMessage'
  BY <1>1, <1>2 DEF SoftingIInv, Softing!ReadsOwnMessage
<1>13. QED
  BY <1>9, <1>10, <1>11, <1>12 DEF SoftingIInv

\* A frame goes into objects of its identifier only.
LEMMA SoftingReceiveStep ==
  ASSUME Softing!SoftingAssumption, SoftingIInv, NEW b \in Blocks, Softing!Receive(b.ident)
  PROVE  SoftingIInv'
<1> DEFINE len == Len(received)
           hit == {o \in 1 .. Len(objectList) :
                     Softing!Receives(objectList[o]) /\ objectList[o].ident = b.ident}
           Idents == {a.ident : a \in Blocks}
<1>1. /\ len \in Nat /\ received \in Seq(Idents) /\ len < MaxFrames
      /\ rcv \in [1 .. Len(objectList) -> 0 .. len] /\ b.ident \in Idents
      /\ pkg \in [Blocks -> 0 .. len] /\ MaxFrames \in Nat
  BY DEF SoftingIInv, Softing!TypeOK, ObjectsDefined, Softing!Receive, Softing!SoftingAssumption
<1>2. /\ received' = Append(received, b.ident)
      /\ rcv' = [o \in 1 .. Len(objectList) |-> IF o \in hit THEN len + 1 ELSE rcv[o]]
      /\ overrun' = overrun \cup {o \in hit : rcv[o] # 0}
      /\ UNCHANGED <<chip, objectList, objectNumber, pkg, softingSim>>
  BY DEF Softing!Receive
<1>3. /\ received' \in Seq(Idents) /\ Len(received') = len + 1
      /\ \A k \in 1 .. len : received'[k] = received[k]
      /\ received'[len + 1] = b.ident
  BY <1>1, <1>2, AppendProperties
<1>4. \A o \in hit : objectList[o].ident = b.ident /\ o \in 1 .. Len(objectList)
  OBVIOUS
<1> HIDE DEF len, hit, Idents
<1>5. Softing!TypeOK'
  <2>1. rcv' \in [1 .. Len(objectList) -> 0 .. len + 1] /\ pkg \in [Blocks -> 0 .. len + 1]
    BY <1>1, <1>2
  <2>2. len + 1 <= MaxFrames
    BY <1>1
  <2>3. overrun' \subseteq 1 .. Len(objectList)
    BY <1>2, <1>4 DEF SoftingIInv, Softing!TypeOK
  <2>4. QED
    BY <1>2, <1>3, <2>1, <2>2, <2>3 DEF SoftingIInv, Softing!TypeOK
<1>6. ObjectsDefined'
  BY <1>2, <1>3 DEF SoftingIInv, ObjectsDefined, Idents
<1>7. ObjectsHoldOwn'
  <2> SUFFICES ASSUME NEW o \in 1 .. Len(objectList), rcv'[o] # 0
               PROVE  received'[rcv'[o]] = objectList[o].ident
    BY <1>2 DEF ObjectsHoldOwn
  <2>1. CASE o \in hit
    BY <1>2, <1>3, <1>4, <2>1
  <2>2. CASE o \notin hit
    <3>1. rcv'[o] = rcv[o] /\ rcv[o] \in 1 .. len
      BY <1>1, <1>2, <2>2
    <3>2. QED
      BY <1>3, <3>1 DEF SoftingIInv, ObjectsHoldOwn
  <2>3. QED
    BY <2>1, <2>2
<1>8. Softing!ReadsOwnMessage'
  <2>1. \A a \in Blocks : pkg[a] # 0 => received'[pkg[a]] = received[pkg[a]]
    BY <1>1, <1>3
  <2>2. QED
    BY <1>2, <2>1 DEF SoftingIInv, Softing!ReadsOwnMessage
<1>9. QED
  BY <1>5, <1>6, <1>7, <1>8 DEF SoftingIInv

\* Every step keeps the invariant.
LEMMA SoftingIInvStep ==
  ASSUME Softing!SoftingAssumption, SoftingIInv, [Softing!Next]_Softing!vars
  PROVE  SoftingIInv'
<1>1. ASSUME NEW b \in Blocks, Softing!ReadRcvData(b) PROVE SoftingIInv'
  <2> DEFINE o == objectNumber[b]
  <2>1. o \in 1 .. Len(objectList) /\ objectList[o] = b /\ \A a \in Blocks : objectNumber[a] # 0
    BY <1>1 DEF SoftingIInv, Softing!TypeOK, ObjectsDefined, Softing!ReadRcvData
  <2>2. /\ pkg' = [pkg EXCEPT ![b] = rcv[o]] /\ rcv' = [rcv EXCEPT ![o] = 0] /\ rcv[o] # 0
        /\ UNCHANGED <<chip, objectList, objectNumber, overrun, received, softingSim>>
    BY <1>1 DEF Softing!ReadRcvData
  <2> HIDE DEF o
  <2>3. received[rcv[o]] = b.ident
    BY <2>1, <2>2 DEF SoftingIInv, ObjectsHoldOwn
  <2>4. Softing!TypeOK'
    BY <2>1, <2>2 DEF SoftingIInv, Softing!TypeOK
  <2>5. ObjectsDefined' /\ ObjectsHoldOwn'
    BY <2>1, <2>2 DEF SoftingIInv, Softing!TypeOK, ObjectsDefined, ObjectsHoldOwn
  <2>6. Softing!ReadsOwnMessage'
    BY <2>1, <2>2, <2>3 DEF SoftingIInv, Softing!TypeOK, Softing!ReadsOwnMessage
  <2>7. QED
    BY <2>4, <2>5, <2>6 DEF SoftingIInv
<1>2. ASSUME NEW b \in Blocks, Softing!NoNewData(b) PROVE SoftingIInv'
  BY <1>2
  DEF SoftingIInv, Softing!TypeOK, ObjectsDefined, ObjectsHoldOwn, Softing!ReadsOwnMessage,
      Softing!NoNewData
<1>3. CASE Softing!Construct \/ Softing!StartChip \/ Softing!Fails \/ Softing!Destroy
  BY <1>3
  DEF SoftingIInv, Softing!TypeOK, ObjectsDefined, ObjectsHoldOwn, Softing!ReadsOwnMessage,
      Softing!Construct,
     Softing!StartChip, Softing!Fails, Softing!Destroy
<1>4. CASE Softing!Ended \/ UNCHANGED Softing!vars
  BY <1>4
  DEF SoftingIInv, Softing!TypeOK, ObjectsDefined, ObjectsHoldOwn, Softing!ReadsOwnMessage,
      Softing!Ended, Softing!vars
<1>5. QED
  BY <1>1, <1>2, <1>3, <1>4, DefineObjectStep, SoftingReceiveStep DEF Softing!Next

\* A step of the drivers is one of this driver, or leaves it alone.
LEMMA SoftingSteps == ASSUME [DevicesNext]_DeviceVars PROVE [Softing!Next]_Softing!vars
  BY DEF DevicesNext, OthersRest, DeviceVars, SoftingVars, Softing!vars

\* In every state of the drivers its invariant holds.
LEMMA SoftingInvariance == DevicesSpec => []SoftingIInv
<1>1. DevicesInit => SoftingIInv
  BY InitSoftingIInv, DevicesAssumption DEF DevicesAssumption, DevicesInit,
     Softing!SoftingAssumption
<1>2. SoftingIInv /\ [DevicesNext]_DeviceVars => SoftingIInv'
  <2> SUFFICES ASSUME SoftingIInv, [DevicesNext]_DeviceVars PROVE SoftingIInv'
    OBVIOUS
  <2>1. [Softing!Next]_Softing!vars
    BY SoftingSteps
  <2>2. QED
    BY <2>1, SoftingIInvStep, DevicesAssumption DEF DevicesAssumption, Softing!SoftingAssumption
<1>3. QED
  BY <1>1, <1>2, PTL DEF DevicesSpec

----------------------------------------------------------------------------
(* The MQTT client (Mqtt) *)

\* As long as the client is connected there is a mutex, and the library's thread works only
\* for a connected client.
Connected ==
  /\ mqttSim \in {"new", "callbacks", "mutex", "connect", "destroy"} => client # "connected"
  /\ mqttSim = "connect" => mutex = "free"
  /\ mqttSim \in {"subscribe", "idle", "lock", "copy", "package", "unsubscribe", "disconnect"} =>
       client = "connected"
  /\ handler \in {"lock", "store"} => client = "connected"
  /\ client = "connected" => mutex \in {"free", "handler", "sim"}

\* The mutex is with the thread that is between taking and giving it back.
MqttLocked ==
  /\ handler = "store" => mutex = "handler"
  /\ mqttSim \in {"copy", "package"} => mutex = "sim"

\* Who has the mutex is about to give it back, but a handler that found no buffer; that comes
\* only while the destructor is on its way to end the connection.
MqttHolder ==
  /\ mutex = "handler" => handler \in {"store", "undefined"}
  /\ mutex = "sim" => mqttSim \in {"copy", "package"}
  /\ handler = "undefined" => mqttSim \in {"disconnect", "destroy", "ended"}

\* A receiver has its buffer from the constructor to the destructor; handlers are called and
\* reads made of a receiver only.
BufferKept ==
  /\ mqttSim \in {"callbacks", "mutex", "connect", "subscribe", "idle", "lock", "copy", "package",
                  "unsubscribe"} => allocated = receiver
  /\ mqttSim = "ended" /\ client = "connected" => allocated = receiver
  /\ mqttSim \in {"subscribe", "lock", "copy", "package", "unsubscribe"} => receiver
  /\ callbacks \/ handler \in {"lock", "store"} => receiver

\* The buffer begins with the latest message and its end.
MessageStored ==
  /\ \A h \in 1 .. mqttLatest.length : mqttBuffer[h] = mqttLatest.id
  /\ mqttLatest.length < BufferSize => mqttBuffer[mqttLatest.length + 1] = 0
  /\ mqttBytes # 0 => mqttBytes = mqttLatest.length

\* What is copied so far is in the buffer, and there is nothing behind it.
MessageCopied ==
  /\ mqttSim \in {"copy", "package"} => mqttAt <= MqttClient!Length
  /\ \A h \in 1 .. mqttAt : mqttCopy[h] = mqttBuffer[h]
  /\ \A h \in mqttAt + 1 .. BufferSize : mqttCopy[h] = 0
  /\ mqttSim \notin {"copy", "package"} => mqttAt = 0

MqttIInv ==
  /\ MqttClient!TypeOK /\ Connected /\ MqttLocked /\ MessageStored /\ MessageCopied
  /\ MqttClient!ReadsWholeMessage /\ MqttHolder /\ BufferKept

\* What a read returns
MqttResults == [of : MqttClient!Stored, bytes : MqttClient!Buffers]

\* Before it has read anything, a read has read nothing.
LEMMA MqttNothing ==
  ASSUME MqttClient!MqttAssumption
  PROVE  /\ MqttClient!Zeros \in MqttClient!Buffers /\ MqttClient!NoResult \in MqttResults /\ MqttClient!Nothing \in MqttClient!Stored
         /\ MqttClient!NoResult.of.id = 0 /\ MqttClient!Nothing.id = 0 /\ MqttClient!Nothing.length = 0
         /\ \A h \in MqttClient!Bytes : MqttClient!Zeros[h] = 0
  BY
  DEF MqttClient!MqttAssumption, MqttClient!Zeros, MqttClient!Bytes, MqttClient!Buffers,
      MqttClient!NoResult, MqttResults, MqttClient!Nothing, MqttClient!Stored

\* The invariant holds in the initial states.
LEMMA InitMqttIInv ==
  ASSUME MqttClient!MqttAssumption, MqttClient!Init
  PROVE  MqttIInv
<1>1. MqttClient!TypeOK
  <2>1. /\ mqttBytes \in 0 .. BufferSize /\ length \in 0 .. BufferSize + 1
        /\ mqttArrived \in 0 .. MaxMessages /\ mqttAt \in 0 .. BufferSize
    BY DEF MqttClient!MqttAssumption, MqttClient!Init
  <2>2. QED
    BY <2>1, MqttNothing DEF MqttClient!Init, MqttClient!TypeOK, MqttResults
<1>2. Connected /\ MqttLocked /\ MqttHolder /\ BufferKept
  BY DEF MqttClient!Init, Connected, MqttLocked, MqttHolder, BufferKept
<1>3. MessageStored /\ MessageCopied /\ MqttClient!ReadsWholeMessage
  BY MqttNothing
  DEF MqttClient!MqttAssumption, MqttClient!Init, MessageStored, MessageCopied,
      MqttClient!ReadsWholeMessage, MqttClient!Bytes
<1>4. QED
  BY <1>1, <1>2, <1>3 DEF MqttIInv

\* Every step keeps the invariant.
LEMMA MqttIInvStep ==
  ASSUME MqttClient!MqttAssumption, MqttIInv, [MqttClient!Next]_MqttClient!vars
  PROVE  MqttIInv'
<1> USE DEF MqttClient!MqttAssumption
<1>1. ASSUME NEW k \in 0 .. BufferSize + 1, MqttClient!Arrive(k) PROVE MqttIInv'
  <2>1. MqttClient!TypeOK'
    BY <1>1 DEF MqttIInv, MqttClient!TypeOK, MqttClient!Arrive, MqttClient!mqtt, MqttClient!reader
  <2>2. Connected'
    BY <1>1 DEF MqttIInv, Connected, MqttClient!Arrive, MqttClient!mqtt, MqttClient!reader
  <2>3. MqttLocked'
    BY <1>1
    DEF MqttIInv, Connected, MqttLocked, MqttClient!Arrive, MqttClient!mqtt, MqttClient!reader
  <2>4. MessageStored'
    BY <1>1
    DEF MqttIInv, MqttClient!TypeOK, MqttClient!Buffers, MqttClient!Stored, MqttClient!Bytes,
        MessageStored, MqttClient!Arrive, MqttClient!mqtt, MqttClient!reader
  <2>5. MessageCopied'
    BY <1>1
    DEF MqttIInv, MqttClient!TypeOK, MqttClient!Buffers, MqttClient!Bytes, MqttLocked,
        MessageCopied, MqttClient!Length, MqttClient!Arrive,
       MqttClient!mqtt, MqttClient!reader
  <2>6. MqttClient!ReadsWholeMessage'
    BY <1>1
    DEF MqttIInv, MqttClient!TypeOK, MqttClient!Buffers, MqttClient!Stored, MqttClient!Bytes,
        MessageStored, MessageCopied,
       MqttClient!ReadsWholeMessage, MqttClient!Length, MqttClient!Arrive, MqttClient!mqtt,
       MqttClient!reader
  <2>7. MqttHolder' /\ BufferKept'
    BY <1>1
    DEF MqttIInv, MqttClient!TypeOK, Connected, MqttLocked, MqttHolder, BufferKept,
        MqttClient!Arrive, MqttClient!Locks, MqttClient!mqtt, MqttClient!thread,
        MqttClient!reader
  <2>8. QED
    BY <2>1, <2>2, <2>3, <2>4, <2>5, <2>6, <2>7 DEF MqttIInv
<1>2. CASE MqttClient!HandlerLock
  <2>1. MqttClient!TypeOK'
    BY <1>2 DEF MqttIInv, MqttClient!TypeOK, MqttClient!HandlerLock, MqttClient!reader
  <2>2. Connected'
    BY <1>2 DEF MqttIInv, Connected, MqttClient!Locks, MqttClient!HandlerLock, MqttClient!reader
  <2>3. MqttLocked'
    BY <1>2
    DEF MqttIInv, Connected, MqttLocked, MqttClient!Locks, MqttClient!HandlerLock, MqttClient!reader
  <2>4. MessageStored'
    BY <1>2
    DEF MqttIInv, MqttClient!TypeOK, MqttClient!Buffers, MqttClient!Stored, MqttClient!Bytes,
        MessageStored, MqttClient!HandlerLock, MqttClient!reader
  <2>5. MessageCopied'
    BY <1>2
    DEF MqttIInv, MqttClient!TypeOK, MqttClient!Buffers, MqttClient!Bytes, MqttLocked,
        MessageCopied, MqttClient!Length,
       MqttClient!HandlerLock, MqttClient!reader
  <2>6. MqttClient!ReadsWholeMessage'
    BY <1>2
    DEF MqttIInv, MqttClient!TypeOK, MqttClient!Buffers, MqttClient!Stored, MqttClient!Bytes,
        MessageStored, MessageCopied,
       MqttClient!ReadsWholeMessage, MqttClient!Length, MqttClient!HandlerLock, MqttClient!reader
  <2>7. MqttHolder' /\ BufferKept'
    BY <1>2
    DEF MqttIInv, MqttClient!TypeOK, Connected, MqttLocked, MqttHolder, BufferKept,
        MqttClient!HandlerLock, MqttClient!Locks, MqttClient!mqtt, MqttClient!thread,
        MqttClient!reader
  <2>8. QED
    BY <2>1, <2>2, <2>3, <2>4, <2>5, <2>6, <2>7 DEF MqttIInv
<1>3. CASE MqttClient!HandlerStore
  <2>1. MqttClient!TypeOK'
    <3>1. mqttBuffer' \in MqttClient!Buffers
      BY <1>3 DEF MqttIInv, MqttClient!TypeOK, MqttClient!HandlerStore, MqttClient!Buffers
    <3>2. mqttLatest' \in MqttClient!Stored
      BY <1>3 DEF MqttIInv, MqttClient!TypeOK, MqttClient!HandlerStore, MqttClient!Stored
    <3>3. mqttBytes' \in 0 .. BufferSize /\ length' \in 0 .. BufferSize + 1
      BY <1>3 DEF MqttIInv, MqttClient!TypeOK, MqttClient!HandlerStore
    <3>4. QED
      BY <1>3, <3>1, <3>2, <3>3
      DEF MqttIInv, MqttClient!TypeOK, MqttClient!HandlerStore, MqttClient!reader
  <2>2. Connected'
    BY <1>3 DEF MqttIInv, Connected, MqttClient!HandlerStore, MqttClient!reader
  <2>3. MqttLocked'
    BY <1>3 DEF MqttIInv, Connected, MqttLocked, MqttClient!HandlerStore, MqttClient!reader
  <2>4. MessageStored'
    <3>1. CASE length > BufferSize
      BY <1>3, <3>1 DEF MqttIInv, MessageStored, MqttClient!HandlerStore
    <3>2. CASE ~(length > BufferSize)
      <4>1. length \in 0 .. BufferSize
        BY <3>2 DEF MqttIInv, MqttClient!TypeOK
      <4>2. /\ mqttBuffer' = [h \in MqttClient!Bytes |-> CASE h <= length -> mqttArrived
                                                           [] h = length + 1 -> 0
                                                           [] OTHER -> mqttBuffer[h]]
            /\ mqttBytes' = length /\ mqttLatest'.id = mqttArrived /\ mqttLatest'.length = length
        BY <1>3, <3>2 DEF MqttClient!HandlerStore
      <4>3. \A h \in 1 .. length : mqttBuffer'[h] = mqttArrived
        BY <4>1, <4>2 DEF MqttClient!Bytes
      <4>4. length < BufferSize => mqttBuffer'[length + 1] = 0
        BY <4>1, <4>2 DEF MqttClient!Bytes
      <4>5. QED
        BY <4>2, <4>3, <4>4 DEF MessageStored
    <3>3. QED
      BY <3>1, <3>2
  <2>5. MessageCopied'
    BY <1>3
    DEF MqttIInv, MqttClient!TypeOK, MqttClient!Buffers, MqttClient!Bytes, MqttLocked,
        MessageCopied, MqttClient!Length,
       MqttClient!HandlerStore, MqttClient!reader
  <2>6. MqttClient!ReadsWholeMessage'
    BY <1>3
    DEF MqttIInv, MqttClient!TypeOK, MqttClient!Buffers, MqttClient!Stored, MqttClient!Bytes,
        MessageStored, MessageCopied,
       MqttClient!ReadsWholeMessage, MqttClient!Length, MqttClient!HandlerStore, MqttClient!reader
  <2>7. MqttHolder' /\ BufferKept'
    BY <1>3
    DEF MqttIInv, MqttClient!TypeOK, Connected, MqttLocked, MqttHolder, BufferKept,
        MqttClient!HandlerStore, MqttClient!Locks, MqttClient!mqtt, MqttClient!thread,
        MqttClient!reader
  <2>8. QED
    BY <2>1, <2>2, <2>3, <2>4, <2>5, <2>6, <2>7 DEF MqttIInv
<1>4. CASE MqttClient!HandlerUndefined
  <2>1. MqttClient!TypeOK'
    BY <1>4
    DEF MqttIInv, MqttClient!TypeOK, MqttClient!HandlerUndefined, MqttClient!mqtt, MqttClient!reader
  <2>2. Connected'
    BY <1>4 DEF MqttIInv, Connected, MqttClient!HandlerUndefined, MqttClient!mqtt, MqttClient!reader
  <2>3. MqttLocked'
    BY <1>4
    DEF MqttIInv, Connected, MqttLocked, MqttClient!HandlerUndefined, MqttClient!mqtt,
        MqttClient!reader
  <2>4. MessageStored'
    BY <1>4
    DEF MqttIInv, MqttClient!TypeOK, MqttClient!Buffers, MqttClient!Stored, MqttClient!Bytes,
        MessageStored, MqttClient!HandlerUndefined, MqttClient!mqtt,
       MqttClient!reader
  <2>5. MessageCopied'
    BY <1>4
    DEF MqttIInv, MqttClient!TypeOK, MqttClient!Buffers, MqttClient!Bytes, MqttLocked,
        MessageCopied, MqttClient!Length,
       MqttClient!HandlerUndefined, MqttClient!mqtt, MqttClient!reader
  <2>6. MqttClient!ReadsWholeMessage'
    BY <1>4
    DEF MqttIInv, MqttClient!TypeOK, MqttClient!Buffers, MqttClient!Stored, MqttClient!Bytes,
        MessageStored, MessageCopied,
       MqttClient!ReadsWholeMessage, MqttClient!Length, MqttClient!HandlerUndefined,
       MqttClient!mqtt, MqttClient!reader
  <2>7. MqttHolder' /\ BufferKept'
    BY <1>4
    DEF MqttIInv, MqttClient!TypeOK, Connected, MqttLocked, MqttHolder, BufferKept,
        MqttClient!HandlerUndefined, MqttClient!Locks, MqttClient!mqtt, MqttClient!thread,
        MqttClient!reader
  <2>8. QED
    BY <2>1, <2>2, <2>3, <2>4, <2>5, <2>6, <2>7 DEF MqttIInv
<1>5. CASE MqttClient!SslError
  <2>1. MqttClient!TypeOK'
    BY <1>5
    DEF MqttIInv, MqttClient!TypeOK, MqttClient!SslError, MqttClient!thread, MqttClient!reader
  <2>2. Connected'
    BY <1>5
    DEF MqttIInv, Connected, MqttClient!Locks, MqttClient!SslError, MqttClient!thread,
        MqttClient!reader
  <2>3. MqttLocked'
    BY <1>5
    DEF MqttIInv, Connected, MqttLocked, MqttClient!Locks, MqttClient!SslError, MqttClient!thread,
        MqttClient!reader
  <2>4. MessageStored'
    BY <1>5
    DEF MqttIInv, MqttClient!TypeOK, MqttClient!Buffers, MqttClient!Stored, MqttClient!Bytes,
        MessageStored, MqttClient!SslError, MqttClient!thread,
       MqttClient!reader
  <2>5. MessageCopied'
    BY <1>5
    DEF MqttIInv, MqttClient!TypeOK, MqttClient!Buffers, MqttClient!Bytes, MqttLocked,
        MessageCopied, MqttClient!Length, MqttClient!SslError,
       MqttClient!thread, MqttClient!reader
  <2>6. MqttClient!ReadsWholeMessage'
    BY <1>5
    DEF MqttIInv, MqttClient!TypeOK, MqttClient!Buffers, MqttClient!Stored, MqttClient!Bytes,
        MessageStored, MessageCopied,
       MqttClient!ReadsWholeMessage, MqttClient!Length, MqttClient!SslError, MqttClient!thread,
       MqttClient!reader
  <2>7. MqttHolder' /\ BufferKept'
    BY <1>5
    DEF MqttIInv, MqttClient!TypeOK, Connected, MqttLocked, MqttHolder, BufferKept,
        MqttClient!SslError, MqttClient!Locks, MqttClient!mqtt, MqttClient!thread,
        MqttClient!reader
  <2>8. QED
    BY <2>1, <2>2, <2>3, <2>4, <2>5, <2>6, <2>7 DEF MqttIInv
<1>6. CASE MqttClient!Create
  <2>1. MqttClient!TypeOK'
    BY <1>6 DEF MqttIInv, MqttClient!TypeOK, MqttClient!Create, MqttClient!thread, MqttClient!reader
  <2>2. Connected'
    BY <1>6 DEF MqttIInv, Connected, MqttClient!Create, MqttClient!thread, MqttClient!reader
  <2>3. MqttLocked'
    BY <1>6
    DEF MqttIInv, Connected, MqttLocked, MqttClient!Create, MqttClient!thread, MqttClient!reader
  <2>4. MessageStored'
    BY <1>6
    DEF MqttIInv, MqttClient!TypeOK, MqttClient!Buffers, MqttClient!Stored, MqttClient!Bytes,
        MessageStored, MqttClient!Create, MqttClient!thread, MqttClient!reader
  <2>5. MessageCopied'
    BY <1>6
    DEF MqttIInv, MqttClient!TypeOK, MqttClient!Buffers, MqttClient!Bytes, MqttLocked,
        MessageCopied, MqttClient!Length, MqttClient!Create,
       MqttClient!thread, MqttClient!reader
  <2>6. MqttClient!ReadsWholeMessage'
    BY <1>6
    DEF MqttIInv, MqttClient!TypeOK, MqttClient!Buffers, MqttClient!Stored, MqttClient!Bytes,
        MessageStored, MessageCopied,
       MqttClient!ReadsWholeMessage, MqttClient!Length, MqttClient!Create, MqttClient!thread,
       MqttClient!reader
  <2>7. MqttHolder' /\ BufferKept'
    BY <1>6
    DEF MqttIInv, MqttClient!TypeOK, Connected, MqttLocked, MqttHolder, BufferKept,
        MqttClient!Create, MqttClient!Locks, MqttClient!mqtt, MqttClient!thread,
        MqttClient!reader
  <2>8. QED
    BY <2>1, <2>2, <2>3, <2>4, <2>5, <2>6, <2>7 DEF MqttIInv
<1>7. CASE MqttClient!CreateFails
  <2>1. MqttClient!TypeOK'
    BY <1>7
    DEF MqttIInv, MqttClient!TypeOK, MqttClient!CreateFails, MqttClient!mqtt, MqttClient!thread,
        MqttClient!reader
  <2>2. Connected'
    BY <1>7
    DEF MqttIInv, Connected, MqttClient!CreateFails, MqttClient!mqtt, MqttClient!thread,
        MqttClient!reader
  <2>3. MqttLocked'
    BY <1>7
    DEF MqttIInv, Connected, MqttLocked, MqttClient!CreateFails, MqttClient!mqtt,
        MqttClient!thread, MqttClient!reader
  <2>4. MessageStored'
    BY <1>7
    DEF MqttIInv, MqttClient!TypeOK, MqttClient!Buffers, MqttClient!Stored, MqttClient!Bytes,
        MessageStored, MqttClient!CreateFails, MqttClient!mqtt,
       MqttClient!thread, MqttClient!reader
  <2>5. MessageCopied'
    BY <1>7
    DEF MqttIInv, MqttClient!TypeOK, MqttClient!Buffers, MqttClient!Bytes, MqttLocked,
        MessageCopied, MqttClient!Length,
       MqttClient!CreateFails, MqttClient!mqtt, MqttClient!thread, MqttClient!reader
  <2>6. MqttClient!ReadsWholeMessage'
    BY <1>7
    DEF MqttIInv, MqttClient!TypeOK, MqttClient!Buffers, MqttClient!Stored, MqttClient!Bytes,
        MessageStored, MessageCopied,
       MqttClient!ReadsWholeMessage, MqttClient!Length, MqttClient!CreateFails, MqttClient!mqtt,
       MqttClient!thread, MqttClient!reader
  <2>7. MqttHolder' /\ BufferKept'
    BY <1>7
    DEF MqttIInv, MqttClient!TypeOK, Connected, MqttLocked, MqttHolder, BufferKept,
        MqttClient!CreateFails, MqttClient!Locks, MqttClient!mqtt, MqttClient!thread,
        MqttClient!reader
  <2>8. QED
    BY <2>1, <2>2, <2>3, <2>4, <2>5, <2>6, <2>7 DEF MqttIInv
<1>8. CASE MqttClient!SetCallbacks
  <2>1. MqttClient!TypeOK'
    BY <1>8
    DEF MqttIInv, MqttClient!TypeOK, MqttClient!SetCallbacks, MqttClient!thread, MqttClient!reader
  <2>2. Connected'
    BY <1>8 DEF MqttIInv, Connected, MqttClient!SetCallbacks, MqttClient!thread, MqttClient!reader
  <2>3. MqttLocked'
    BY <1>8
    DEF MqttIInv, Connected, MqttLocked, MqttClient!SetCallbacks, MqttClient!thread,
        MqttClient!reader
  <2>4. MessageStored'
    BY <1>8
    DEF MqttIInv, MqttClient!TypeOK, MqttClient!Buffers, MqttClient!Stored, MqttClient!Bytes,
        MessageStored, MqttClient!SetCallbacks, MqttClient!thread,
       MqttClient!reader
  <2>5. MessageCopied'
    BY <1>8
    DEF MqttIInv, MqttClient!TypeOK, MqttClient!Buffers, MqttClient!Bytes, MqttLocked,
        MessageCopied, MqttClient!Length,
       MqttClient!SetCallbacks, MqttClient!thread, MqttClient!reader
  <2>6. MqttClient!ReadsWholeMessage'
    BY <1>8
    DEF MqttIInv, MqttClient!TypeOK, MqttClient!Buffers, MqttClient!Stored, MqttClient!Bytes,
        MessageStored, MessageCopied,
       MqttClient!ReadsWholeMessage, MqttClient!Length, MqttClient!SetCallbacks,
       MqttClient!thread, MqttClient!reader
  <2>7. MqttHolder' /\ BufferKept'
    BY <1>8
    DEF MqttIInv, MqttClient!TypeOK, Connected, MqttLocked, MqttHolder, BufferKept,
        MqttClient!SetCallbacks, MqttClient!Locks, MqttClient!mqtt, MqttClient!thread,
        MqttClient!reader
  <2>8. QED
    BY <2>1, <2>2, <2>3, <2>4, <2>5, <2>6, <2>7 DEF MqttIInv
<1>9. CASE MqttClient!MutexInit
  <2>1. MqttClient!TypeOK'
    BY <1>9
    DEF MqttIInv, MqttClient!TypeOK, MqttClient!MutexInit, MqttClient!thread, MqttClient!reader
  <2>2. Connected'
    BY <1>9 DEF MqttIInv, Connected, MqttClient!MutexInit, MqttClient!thread, MqttClient!reader
  <2>3. MqttLocked'
    BY <1>9
    DEF MqttIInv, Connected, MqttLocked, MqttClient!MutexInit, MqttClient!thread, MqttClient!reader
  <2>4. MessageStored'
    BY <1>9
    DEF MqttIInv, MqttClient!TypeOK, MqttClient!Buffers, MqttClient!Stored, MqttClient!Bytes,
        MessageStored, MqttClient!MutexInit, MqttClient!thread,
       MqttClient!reader
  <2>5. MessageCopied'
    BY <1>9
    DEF MqttIInv, MqttClient!TypeOK, MqttClient!Buffers, MqttClient!Bytes, MqttLocked,
        MessageCopied, MqttClient!Length, MqttClient!MutexInit,
       MqttClient!thread, MqttClient!reader
  <2>6. MqttClient!ReadsWholeMessage'
    BY <1>9
    DEF MqttIInv, MqttClient!TypeOK, MqttClient!Buffers, MqttClient!Stored, MqttClient!Bytes,
        MessageStored, MessageCopied,
       MqttClient!ReadsWholeMessage, MqttClient!Length, MqttClient!MutexInit, MqttClient!thread,
       MqttClient!reader
  <2>7. MqttHolder' /\ BufferKept'
    BY <1>9
    DEF MqttIInv, MqttClient!TypeOK, Connected, MqttLocked, MqttHolder, BufferKept,
        MqttClient!MutexInit, MqttClient!Locks, MqttClient!mqtt, MqttClient!thread,
        MqttClient!reader
  <2>8. QED
    BY <2>1, <2>2, <2>3, <2>4, <2>5, <2>6, <2>7 DEF MqttIInv
<1>10. CASE MqttClient!Connect
  <2>1. MqttClient!TypeOK'
    BY <1>10
    DEF MqttIInv, MqttClient!TypeOK, MqttClient!Connect, MqttClient!thread, MqttClient!reader
  <2>2. Connected'
    BY <1>10 DEF MqttIInv, Connected, MqttClient!Connect, MqttClient!thread, MqttClient!reader
  <2>3. MqttLocked'
    BY <1>10
    DEF MqttIInv, Connected, MqttLocked, MqttClient!Connect, MqttClient!thread, MqttClient!reader
  <2>4. MessageStored'
    BY <1>10
    DEF MqttIInv, MqttClient!TypeOK, MqttClient!Buffers, MqttClient!Stored, MqttClient!Bytes,
        MessageStored, MqttClient!Connect, MqttClient!thread,
       MqttClient!reader
  <2>5. MessageCopied'
    BY <1>10
    DEF MqttIInv, MqttClient!TypeOK, MqttClient!Buffers, MqttClient!Bytes, MqttLocked,
        MessageCopied, MqttClient!Length, MqttClient!Connect,
       MqttClient!thread, MqttClient!reader
  <2>6. MqttClient!ReadsWholeMessage'
    BY <1>10
    DEF MqttIInv, MqttClient!TypeOK, MqttClient!Buffers, MqttClient!Stored, MqttClient!Bytes,
        MessageStored, MessageCopied,
       MqttClient!ReadsWholeMessage, MqttClient!Length, MqttClient!Connect, MqttClient!thread,
       MqttClient!reader
  <2>7. MqttHolder' /\ BufferKept'
    BY <1>10
    DEF MqttIInv, MqttClient!TypeOK, Connected, MqttLocked, MqttHolder, BufferKept,
        MqttClient!Connect, MqttClient!Locks, MqttClient!mqtt, MqttClient!thread,
        MqttClient!reader
  <2>8. QED
    BY <2>1, <2>2, <2>3, <2>4, <2>5, <2>6, <2>7 DEF MqttIInv
<1>11. CASE MqttClient!ConnectFails
  <2>1. MqttClient!TypeOK'
    BY <1>11
    DEF MqttIInv, MqttClient!TypeOK, MqttClient!ConnectFails, MqttClient!thread, MqttClient!reader
  <2>2. Connected'
    BY <1>11
    DEF MqttIInv, Connected, MqttClient!Locks, MqttClient!ConnectFails, MqttClient!thread,
        MqttClient!reader
  <2>3. MqttLocked'
    BY <1>11
    DEF MqttIInv, Connected, MqttLocked, MqttClient!Locks, MqttClient!ConnectFails,
        MqttClient!thread, MqttClient!reader
  <2>4. MessageStored'
    BY <1>11
    DEF MqttIInv, MqttClient!TypeOK, MqttClient!Buffers, MqttClient!Stored, MqttClient!Bytes,
        MessageStored, MqttClient!ConnectFails, MqttClient!thread,
       MqttClient!reader
  <2>5. MessageCopied'
    BY <1>11
    DEF MqttIInv, MqttClient!TypeOK, MqttClient!Buffers, MqttClient!Bytes, MqttLocked,
        MessageCopied, MqttClient!Length,
       MqttClient!ConnectFails, MqttClient!thread, MqttClient!reader
  <2>6. MqttClient!ReadsWholeMessage'
    BY <1>11
    DEF MqttIInv, MqttClient!TypeOK, MqttClient!Buffers, MqttClient!Stored, MqttClient!Bytes,
        MessageStored, MessageCopied,
       MqttClient!ReadsWholeMessage, MqttClient!Length, MqttClient!ConnectFails,
       MqttClient!thread, MqttClient!reader
  <2>7. MqttHolder' /\ BufferKept'
    BY <1>11
    DEF MqttIInv, MqttClient!TypeOK, Connected, MqttLocked, MqttHolder, BufferKept,
        MqttClient!ConnectFails, MqttClient!Locks, MqttClient!mqtt, MqttClient!thread,
        MqttClient!reader
  <2>8. QED
    BY <2>1, <2>2, <2>3, <2>4, <2>5, <2>6, <2>7 DEF MqttIInv
<1>12. CASE MqttClient!Subscribe
  <2>1. MqttClient!TypeOK'
    BY <1>12
    DEF MqttIInv, MqttClient!TypeOK, MqttClient!Subscribe, MqttClient!mqtt, MqttClient!thread,
        MqttClient!reader
  <2>2. Connected'
    BY <1>12
    DEF MqttIInv, Connected, MqttClient!Subscribe, MqttClient!mqtt, MqttClient!thread,
        MqttClient!reader
  <2>3. MqttLocked'
    BY <1>12
    DEF MqttIInv, Connected, MqttLocked, MqttClient!Subscribe, MqttClient!mqtt, MqttClient!thread,
        MqttClient!reader
  <2>4. MessageStored'
    BY <1>12
    DEF MqttIInv, MqttClient!TypeOK, MqttClient!Buffers, MqttClient!Stored, MqttClient!Bytes,
        MessageStored, MqttClient!Subscribe, MqttClient!mqtt,
       MqttClient!thread, MqttClient!reader
  <2>5. MessageCopied'
    BY <1>12
    DEF MqttIInv, MqttClient!TypeOK, MqttClient!Buffers, MqttClient!Bytes, MqttLocked,
        MessageCopied, MqttClient!Length, MqttClient!Subscribe,
       MqttClient!mqtt, MqttClient!thread, MqttClient!reader
  <2>6. MqttClient!ReadsWholeMessage'
    BY <1>12
    DEF MqttIInv, MqttClient!TypeOK, MqttClient!Buffers, MqttClient!Stored, MqttClient!Bytes,
        MessageStored, MessageCopied,
       MqttClient!ReadsWholeMessage, MqttClient!Length, MqttClient!Subscribe, MqttClient!mqtt,
       MqttClient!thread, MqttClient!reader
  <2>7. MqttHolder' /\ BufferKept'
    BY <1>12
    DEF MqttIInv, MqttClient!TypeOK, Connected, MqttLocked, MqttHolder, BufferKept,
        MqttClient!Subscribe, MqttClient!Locks, MqttClient!mqtt, MqttClient!thread,
        MqttClient!reader
  <2>8. QED
    BY <2>1, <2>2, <2>3, <2>4, <2>5, <2>6, <2>7 DEF MqttIInv
<1>13. CASE MqttClient!Begin
  <2>1. MqttClient!TypeOK'
    BY <1>13, MqttNothing
    DEF MqttIInv, MqttResults, MqttClient!TypeOK, MqttClient!Begin, MqttClient!mqtt,
        MqttClient!thread
  <2>2. Connected'
    BY <1>13 DEF MqttIInv, Connected, MqttClient!Begin, MqttClient!mqtt, MqttClient!thread
  <2>3. MqttLocked'
    BY <1>13
    DEF MqttIInv, Connected, MqttLocked, MqttClient!Begin, MqttClient!mqtt, MqttClient!thread
  <2>4. MessageStored'
    BY <1>13, MqttNothing
    DEF MqttIInv, MqttResults, MqttClient!TypeOK, MqttClient!Buffers, MqttClient!Stored,
        MqttClient!Bytes, MessageStored,
       MqttClient!Begin, MqttClient!mqtt, MqttClient!thread
  <2>5. MessageCopied'
    BY <1>13, MqttNothing
    DEF MqttIInv, MqttResults, MqttClient!TypeOK, MqttClient!Buffers, MqttClient!Bytes, MqttLocked,
       MessageCopied, MqttClient!Length, MqttClient!Begin, MqttClient!mqtt, MqttClient!thread
  <2>6. MqttClient!ReadsWholeMessage'
    BY <1>13, MqttNothing
    DEF MqttIInv, MqttResults, MqttClient!TypeOK, MqttClient!Buffers, MqttClient!Stored,
        MqttClient!Bytes, MessageStored,
       MessageCopied, MqttClient!ReadsWholeMessage, MqttClient!Length, MqttClient!Begin,
       MqttClient!mqtt, MqttClient!thread
  <2>7. MqttHolder' /\ BufferKept'
    BY <1>13
    DEF MqttIInv, MqttClient!TypeOK, Connected, MqttLocked, MqttHolder, BufferKept,
        MqttClient!Begin, MqttClient!Locks, MqttClient!mqtt, MqttClient!thread,
        MqttClient!reader
  <2>8. QED
    BY <2>1, <2>2, <2>3, <2>4, <2>5, <2>6, <2>7 DEF MqttIInv
<1>14. CASE MqttClient!Lock
  <2>1. MqttClient!TypeOK'
    BY <1>14 DEF MqttIInv, MqttClient!TypeOK, MqttClient!Lock, MqttClient!thread, MqttClient!reader
  <2>2. Connected'
    BY <1>14
    DEF MqttIInv, Connected, MqttClient!Locks, MqttClient!Lock, MqttClient!thread, MqttClient!reader
  <2>3. MqttLocked'
    BY <1>14
    DEF MqttIInv, Connected, MqttLocked, MqttClient!Locks, MqttClient!Lock, MqttClient!thread,
        MqttClient!reader
  <2>4. MessageStored'
    BY <1>14
    DEF MqttIInv, MqttClient!TypeOK, MqttClient!Buffers, MqttClient!Stored, MqttClient!Bytes,
        MessageStored, MqttClient!Lock, MqttClient!thread, MqttClient!reader
  <2>5. MessageCopied'
    BY <1>14
    DEF MqttIInv, MqttClient!TypeOK, MqttClient!Buffers, MqttClient!Bytes, MqttLocked,
        MessageCopied, MqttClient!Length, MqttClient!Lock,
       MqttClient!thread, MqttClient!reader
  <2>6. MqttClient!ReadsWholeMessage'
    BY <1>14
    DEF MqttIInv, MqttClient!TypeOK, MqttClient!Buffers, MqttClient!Stored, MqttClient!Bytes,
        MessageStored, MessageCopied,
       MqttClient!ReadsWholeMessage, MqttClient!Length, MqttClient!Lock, MqttClient!thread,
       MqttClient!reader
  <2>7. MqttHolder' /\ BufferKept'
    BY <1>14
    DEF MqttIInv, MqttClient!TypeOK, Connected, MqttLocked, MqttHolder, BufferKept,
        MqttClient!Lock, MqttClient!Locks, MqttClient!mqtt, MqttClient!thread,
        MqttClient!reader
  <2>8. QED
    BY <2>1, <2>2, <2>3, <2>4, <2>5, <2>6, <2>7 DEF MqttIInv
<1>15. CASE MqttClient!CopyByte
  <2>1. MqttClient!TypeOK'
    <3>1. mqttAt \in 0 .. BufferSize - 1
      BY <1>15 DEF MqttIInv, MqttClient!TypeOK, MqttClient!CopyByte, MqttClient!Length
    <3>2. mqttAt' \in 0 .. BufferSize /\ mqttAt + 1 \in MqttClient!Bytes
      BY <1>15, <3>1 DEF MqttClient!CopyByte, MqttClient!Bytes
    <3>3. mqttCopy' \in MqttClient!Buffers
      BY <1>15, <3>2 DEF MqttIInv, MqttClient!TypeOK, MqttClient!CopyByte, MqttClient!Buffers
    <3>4. QED
      BY <1>15, <3>2, <3>3
      DEF MqttIInv, MqttClient!TypeOK, MqttClient!CopyByte, MqttClient!mqtt, MqttClient!thread
  <2>2. Connected'
    BY <1>15 DEF MqttIInv, Connected, MqttClient!CopyByte, MqttClient!mqtt, MqttClient!thread
  <2>3. MqttLocked'
    BY <1>15
    DEF MqttIInv, Connected, MqttLocked, MqttClient!CopyByte, MqttClient!mqtt, MqttClient!thread
  <2>4. MessageStored'
    BY <1>15
    DEF MqttIInv, MqttClient!TypeOK, MqttClient!Buffers, MqttClient!Stored, MqttClient!Bytes,
        MessageStored, MqttClient!CopyByte, MqttClient!mqtt, MqttClient!thread
  <2>5. MessageCopied'
    BY <1>15
    DEF MqttIInv, MqttClient!TypeOK, MqttClient!Buffers, MqttClient!Bytes, MqttLocked,
        MessageCopied, MqttClient!Length, MqttClient!CopyByte,
       MqttClient!mqtt, MqttClient!thread
  <2>6. MqttClient!ReadsWholeMessage'
    BY <1>15
    DEF MqttIInv, MqttClient!TypeOK, MqttClient!Buffers, MqttClient!Stored, MqttClient!Bytes,
        MessageStored, MessageCopied,
       MqttClient!ReadsWholeMessage, MqttClient!Length, MqttClient!CopyByte, MqttClient!mqtt,
       MqttClient!thread
  <2>7. MqttHolder' /\ BufferKept'
    BY <1>15
    DEF MqttIInv, MqttClient!TypeOK, Connected, MqttLocked, MqttHolder, BufferKept,
        MqttClient!CopyByte, MqttClient!Locks, MqttClient!mqtt, MqttClient!thread,
        MqttClient!reader
  <2>8. QED
    BY <2>1, <2>2, <2>3, <2>4, <2>5, <2>6, <2>7 DEF MqttIInv
<1>16. CASE MqttClient!Return
  <2>1. MqttClient!TypeOK'
    BY <1>16, MqttNothing
    DEF MqttIInv, MqttResults, MqttClient!TypeOK, MqttClient!Return, MqttClient!thread
  <2>2. Connected'
    BY <1>16 DEF MqttIInv, Connected, MqttClient!Return, MqttClient!thread
  <2>3. MqttLocked'
    BY <1>16 DEF MqttIInv, Connected, MqttLocked, MqttClient!Return, MqttClient!thread
  <2>4. MessageStored'
    BY <1>16, MqttNothing
    DEF MqttIInv, MqttResults, MqttClient!TypeOK, MqttClient!Buffers, MqttClient!Stored,
        MqttClient!Bytes, MessageStored,
       MqttClient!Return, MqttClient!thread
  <2>5. MessageCopied'
    BY <1>16, MqttNothing
    DEF MqttIInv, MqttResults, MqttClient!TypeOK, MqttClient!Buffers, MqttClient!Bytes, MqttLocked,
       MessageCopied, MqttClient!Length, MqttClient!Return, MqttClient!thread
  <2>6. MqttClient!ReadsWholeMessage'
    <3>1. /\ mqttAt \in 0 .. BufferSize /\ mqttAt = MqttClient!Length /\ mqttBytes \in 0 .. BufferSize
          /\ mqttLatest.length \in 0 .. BufferSize
      BY <1>16
      DEF MqttIInv, MqttClient!TypeOK, MessageCopied, MqttClient!Return, MqttClient!Length,
          MqttClient!Stored
    <3>2. /\ \A h \in 1 .. mqttAt : mqttCopy[h] = mqttBuffer[h]
          /\ \A h \in mqttAt + 1 .. BufferSize : mqttCopy[h] = 0
      BY DEF MqttIInv, MessageCopied
    <3>3. /\ mqttResult'.of = IF mqttAt > 0 THEN mqttLatest ELSE MqttClient!Nothing
          /\ mqttResult'.bytes = mqttCopy
      BY <1>16 DEF MqttClient!Return
    <3>4. CASE mqttAt > 0
      <4>1. mqttAt = BufferSize \/ mqttAt = mqttLatest.length
        BY <1>16, <3>1, <3>4 DEF MqttIInv, MessageStored, MqttClient!Length
      <4>2. \A h \in 1 .. mqttLatest.length : mqttCopy[h] = mqttLatest.id
        BY <3>1, <3>2, <4>1 DEF MqttIInv, MessageStored
      <4>3. mqttLatest.length < BufferSize => mqttCopy[mqttLatest.length + 1] = 0
        BY <3>1, <3>2, <4>1 DEF MqttIInv, MessageStored
      <4>4. QED
        BY <3>3, <3>4, <4>2, <4>3 DEF MqttClient!ReadsWholeMessage
    <3>5. CASE ~(mqttAt > 0)
      BY <3>3, <3>5, MqttNothing DEF MqttClient!ReadsWholeMessage
    <3>6. QED
      BY <3>4, <3>5
  <2>7. MqttHolder' /\ BufferKept'
    BY <1>16
    DEF MqttIInv, MqttClient!TypeOK, Connected, MqttLocked, MqttHolder, BufferKept,
        MqttClient!Return, MqttClient!Locks, MqttClient!mqtt, MqttClient!thread,
        MqttClient!reader
  <2>8. QED
    BY <2>1, <2>2, <2>3, <2>4, <2>5, <2>6, <2>7 DEF MqttIInv
<1>17. CASE MqttClient!SendFails
  <2>1. MqttClient!TypeOK'
    BY <1>17
    DEF MqttIInv, MqttClient!TypeOK, MqttClient!SendFails, MqttClient!mqtt, MqttClient!thread,
        MqttClient!reader
  <2>2. Connected'
    BY <1>17
    DEF MqttIInv, Connected, MqttClient!SendFails, MqttClient!mqtt, MqttClient!thread,
        MqttClient!reader
  <2>3. MqttLocked'
    BY <1>17
    DEF MqttIInv, Connected, MqttLocked, MqttClient!SendFails, MqttClient!mqtt, MqttClient!thread,
        MqttClient!reader
  <2>4. MessageStored'
    BY <1>17
    DEF MqttIInv, MqttClient!TypeOK, MqttClient!Buffers, MqttClient!Stored, MqttClient!Bytes,
        MessageStored, MqttClient!SendFails, MqttClient!mqtt,
       MqttClient!thread, MqttClient!reader
  <2>5. MessageCopied'
    BY <1>17
    DEF MqttIInv, MqttClient!TypeOK, MqttClient!Buffers, MqttClient!Bytes, MqttLocked,
        MessageCopied, MqttClient!Length, MqttClient!SendFails,
       MqttClient!mqtt, MqttClient!thread, MqttClient!reader
  <2>6. MqttClient!ReadsWholeMessage'
    BY <1>17
    DEF MqttIInv, MqttClient!TypeOK, MqttClient!Buffers, MqttClient!Stored, MqttClient!Bytes,
        MessageStored, MessageCopied,
       MqttClient!ReadsWholeMessage, MqttClient!Length, MqttClient!SendFails, MqttClient!mqtt,
       MqttClient!thread, MqttClient!reader
  <2>7. MqttHolder' /\ BufferKept'
    BY <1>17
    DEF MqttIInv, MqttClient!TypeOK, Connected, MqttLocked, MqttHolder, BufferKept,
        MqttClient!SendFails, MqttClient!Locks, MqttClient!mqtt, MqttClient!thread,
        MqttClient!reader
  <2>8. QED
    BY <2>1, <2>2, <2>3, <2>4, <2>5, <2>6, <2>7 DEF MqttIInv
<1>18. CASE MqttClient!Destroy
  <2>1. MqttClient!TypeOK'
    BY <1>18, MqttNothing
    DEF MqttIInv, MqttResults, MqttClient!TypeOK, MqttClient!Destroy, MqttClient!mqtt,
        MqttClient!thread
  <2>2. Connected'
    BY <1>18 DEF MqttIInv, Connected, MqttClient!Destroy, MqttClient!mqtt, MqttClient!thread
  <2>3. MqttLocked'
    BY <1>18
    DEF MqttIInv, Connected, MqttLocked, MqttClient!Destroy, MqttClient!mqtt, MqttClient!thread
  <2>4. MessageStored'
    BY <1>18, MqttNothing
    DEF MqttIInv, MqttResults, MqttClient!TypeOK, MqttClient!Buffers, MqttClient!Stored,
        MqttClient!Bytes, MessageStored,
       MqttClient!Destroy, MqttClient!mqtt, MqttClient!thread
  <2>5. MessageCopied'
    BY <1>18, MqttNothing
    DEF MqttIInv, MqttResults, MqttClient!TypeOK, MqttClient!Buffers, MqttClient!Bytes, MqttLocked,
       MessageCopied, MqttClient!Length, MqttClient!Destroy, MqttClient!mqtt, MqttClient!thread
  <2>6. MqttClient!ReadsWholeMessage'
    BY <1>18, MqttNothing
    DEF MqttIInv, MqttResults, MqttClient!TypeOK, MqttClient!Buffers, MqttClient!Stored,
        MqttClient!Bytes, MessageStored,
       MessageCopied, MqttClient!ReadsWholeMessage, MqttClient!Length, MqttClient!Destroy,
       MqttClient!mqtt, MqttClient!thread
  <2>7. MqttHolder' /\ BufferKept'
    BY <1>18
    DEF MqttIInv, MqttClient!TypeOK, Connected, MqttLocked, MqttHolder, BufferKept,
        MqttClient!Destroy, MqttClient!Locks, MqttClient!mqtt, MqttClient!thread,
        MqttClient!reader
  <2>8. QED
    BY <2>1, <2>2, <2>3, <2>4, <2>5, <2>6, <2>7 DEF MqttIInv
<1>19. CASE MqttClient!Unsubscribe
  <2>1. MqttClient!TypeOK'
    BY <1>19
    DEF MqttIInv, MqttClient!TypeOK, MqttClient!Unsubscribe, MqttClient!thread, MqttClient!reader
  <2>2. Connected'
    BY <1>19 DEF MqttIInv, Connected, MqttClient!Unsubscribe, MqttClient!thread, MqttClient!reader
  <2>3. MqttLocked'
    BY <1>19
    DEF MqttIInv, Connected, MqttLocked, MqttClient!Unsubscribe, MqttClient!thread,
        MqttClient!reader
  <2>4. MessageStored'
    BY <1>19
    DEF MqttIInv, MqttClient!TypeOK, MqttClient!Buffers, MqttClient!Stored, MqttClient!Bytes,
        MessageStored, MqttClient!Unsubscribe, MqttClient!thread,
       MqttClient!reader
  <2>5. MessageCopied'
    BY <1>19
    DEF MqttIInv, MqttClient!TypeOK, MqttClient!Buffers, MqttClient!Bytes, MqttLocked,
        MessageCopied, MqttClient!Length,
       MqttClient!Unsubscribe, MqttClient!thread, MqttClient!reader
  <2>6. MqttClient!ReadsWholeMessage'
    BY <1>19
    DEF MqttIInv, MqttClient!TypeOK, MqttClient!Buffers, MqttClient!Stored, MqttClient!Bytes,
        MessageStored, MessageCopied,
       MqttClient!ReadsWholeMessage, MqttClient!Length, MqttClient!Unsubscribe, MqttClient!thread,
       MqttClient!reader
  <2>7. MqttHolder' /\ BufferKept'
    BY <1>19
    DEF MqttIInv, MqttClient!TypeOK, Connected, MqttLocked, MqttHolder, BufferKept,
        MqttClient!Unsubscribe, MqttClient!Locks, MqttClient!mqtt, MqttClient!thread,
        MqttClient!reader
  <2>8. QED
    BY <2>1, <2>2, <2>3, <2>4, <2>5, <2>6, <2>7 DEF MqttIInv
<1>20. CASE MqttClient!Disconnect
  <2>1. MqttClient!TypeOK'
    BY <1>20
    DEF MqttIInv, MqttClient!TypeOK, MqttClient!Disconnect, MqttClient!thread, MqttClient!reader
  <2>2. Connected'
    BY <1>20 DEF MqttIInv, Connected, MqttClient!Disconnect, MqttClient!thread, MqttClient!reader
  <2>3. MqttLocked'
    BY <1>20
    DEF MqttIInv, Connected, MqttLocked, MqttClient!Disconnect, MqttClient!thread, MqttClient!reader
  <2>4. MessageStored'
    BY <1>20
    DEF MqttIInv, MqttClient!TypeOK, MqttClient!Buffers, MqttClient!Stored, MqttClient!Bytes,
        MessageStored, MqttClient!Disconnect, MqttClient!thread,
       MqttClient!reader
  <2>5. MessageCopied'
    BY <1>20
    DEF MqttIInv, MqttClient!TypeOK, MqttClient!Buffers, MqttClient!Bytes, MqttLocked,
        MessageCopied, MqttClient!Length,
       MqttClient!Disconnect, MqttClient!thread, MqttClient!reader
  <2>6. MqttClient!ReadsWholeMessage'
    BY <1>20
    DEF MqttIInv, MqttClient!TypeOK, MqttClient!Buffers, MqttClient!Stored, MqttClient!Bytes,
        MessageStored, MessageCopied,
       MqttClient!ReadsWholeMessage, MqttClient!Length, MqttClient!Disconnect, MqttClient!thread,
       MqttClient!reader
  <2>7. MqttHolder' /\ BufferKept'
    BY <1>20
    DEF MqttIInv, MqttClient!TypeOK, Connected, MqttLocked, MqttHolder, BufferKept,
        MqttClient!Disconnect, MqttClient!Locks, MqttClient!mqtt, MqttClient!thread,
        MqttClient!reader
  <2>8. QED
    BY <2>1, <2>2, <2>3, <2>4, <2>5, <2>6, <2>7 DEF MqttIInv
<1>21. CASE MqttClient!MutexDestroy
  <2>1. MqttClient!TypeOK'
    BY <1>21
    DEF MqttIInv, MqttClient!TypeOK, MqttClient!MutexDestroy, MqttClient!thread, MqttClient!reader
  <2>2. Connected'
    BY <1>21 DEF MqttIInv, Connected, MqttClient!MutexDestroy, MqttClient!thread, MqttClient!reader
  <2>3. MqttLocked'
    BY <1>21
    DEF MqttIInv, Connected, MqttLocked, MqttClient!MutexDestroy, MqttClient!thread,
        MqttClient!reader
  <2>4. MessageStored'
    BY <1>21
    DEF MqttIInv, MqttClient!TypeOK, MqttClient!Buffers, MqttClient!Stored, MqttClient!Bytes,
        MessageStored, MqttClient!MutexDestroy, MqttClient!thread,
       MqttClient!reader
  <2>5. MessageCopied'
    BY <1>21
    DEF MqttIInv, MqttClient!TypeOK, MqttClient!Buffers, MqttClient!Bytes, MqttLocked,
        MessageCopied, MqttClient!Length,
       MqttClient!MutexDestroy, MqttClient!thread, MqttClient!reader
  <2>6. MqttClient!ReadsWholeMessage'
    BY <1>21
    DEF MqttIInv, MqttClient!TypeOK, MqttClient!Buffers, MqttClient!Stored, MqttClient!Bytes,
        MessageStored, MessageCopied,
       MqttClient!ReadsWholeMessage, MqttClient!Length, MqttClient!MutexDestroy,
       MqttClient!thread, MqttClient!reader
  <2>7. MqttHolder' /\ BufferKept'
    BY <1>21
    DEF MqttIInv, MqttClient!TypeOK, Connected, MqttLocked, MqttHolder, BufferKept,
        MqttClient!MutexDestroy, MqttClient!Locks, MqttClient!mqtt, MqttClient!thread,
        MqttClient!reader
  <2>8. QED
    BY <2>1, <2>2, <2>3, <2>4, <2>5, <2>6, <2>7 DEF MqttIInv
<1>22. CASE UNCHANGED MqttClient!vars \/ MqttClient!Ended
  <2>1. MqttClient!TypeOK'
    BY <1>22
    DEF MqttIInv, MqttClient!TypeOK, MqttClient!Ended, MqttClient!vars, MqttClient!mqtt,
        MqttClient!thread, MqttClient!reader
  <2>2. Connected'
    BY <1>22
    DEF MqttIInv, Connected, MqttClient!Ended, MqttClient!vars, MqttClient!mqtt,
        MqttClient!thread, MqttClient!reader
  <2>3. MqttLocked'
    BY <1>22
    DEF MqttIInv, MqttLocked, MqttClient!Ended, MqttClient!vars, MqttClient!mqtt,
        MqttClient!thread, MqttClient!reader
  <2>4. MessageStored'
    BY <1>22
    DEF MqttIInv, MessageStored, MqttClient!Ended, MqttClient!vars, MqttClient!mqtt,
        MqttClient!thread, MqttClient!reader
  <2>5. MessageCopied'
    BY <1>22
    DEF MqttIInv, MessageCopied, MqttClient!Length, MqttClient!Ended, MqttClient!vars,
        MqttClient!mqtt, MqttClient!thread, MqttClient!reader
  <2>6. MqttClient!ReadsWholeMessage'
    BY <1>22
    DEF MqttIInv, MqttClient!ReadsWholeMessage, MqttClient!Ended, MqttClient!vars,
        MqttClient!mqtt, MqttClient!thread, MqttClient!reader
  <2>7. MqttHolder' /\ BufferKept'
    BY <1>22
    DEF MqttIInv, MqttClient!TypeOK, Connected, MqttLocked, MqttHolder, BufferKept,
        MqttClient!Ended, MqttClient!Locks, MqttClient!mqtt, MqttClient!thread,
        MqttClient!reader, MqttClient!vars
  <2>8. QED
    BY <2>1, <2>2, <2>3, <2>4, <2>5, <2>6, <2>7 DEF MqttIInv
<1>23. QED
  BY <1>1, <1>2, <1>3, <1>4, <1>5, <1>6, <1>7, <1>8, <1>9, <1>10, <1>11, <1>12, <1>13, <1>14,
     <1>15, <1>16, <1>17, <1>18, <1>19, <1>20, <1>21, <1>22 DEF MqttClient!Next

\* Nobody waits for a mutex that does not come free.
LEMMA MqttLockComesFree == ASSUME MqttIInv PROVE MqttClient!LockComesFree
  BY DEF MqttIInv, MqttClient!TypeOK, Connected, MqttHolder, MqttClient!LockComesFree

\* What is copied is there, and only the end of a connection leaves a handler without a buffer.
LEMMA MqttBufferExists == ASSUME MqttIInv PROVE MqttClient!BufferExists
  BY DEF MqttIInv, MqttClient!TypeOK, Connected, MqttHolder, BufferKept, MqttClient!BufferExists

\* A step of the drivers is one of this driver, or leaves it alone.
LEMMA MqttSteps == ASSUME [DevicesNext]_DeviceVars PROVE [MqttClient!Next]_MqttClient!vars
  BY
  DEF DevicesNext, OthersRest, DeviceVars, MqttVars, MqttClient!vars, MqttClient!mqtt,
      MqttClient!thread, MqttClient!reader

\* In every state of the drivers its invariant holds.
LEMMA MqttInvariance == DevicesSpec => []MqttIInv
<1>1. DevicesInit => MqttIInv
  BY InitMqttIInv, DevicesAssumption DEF DevicesAssumption, DevicesInit
<1>2. MqttIInv /\ [DevicesNext]_DeviceVars => MqttIInv'
  <2> SUFFICES ASSUME MqttIInv, [DevicesNext]_DeviceVars PROVE MqttIInv'
    OBVIOUS
  <2>1. [MqttClient!Next]_MqttClient!vars
    BY MqttSteps
  <2>2. QED
    BY <2>1, MqttIInvStep, DevicesAssumption DEF DevicesAssumption
<1>3. QED
  BY <1>1, <1>2, PTL DEF DevicesSpec

----------------------------------------------------------------------------
(* The LCM channel (Lcm) *)

\* The library calls back for an object that has subscribed and is not destroyed.
LcmOpen ==
  /\ subscribed => lcm = "subscribed"
  /\ lcmSim = "new" => lcm = "none" /\ library = 0
  /\ lcmSim = "configure" => lcm = "created"
  /\ lcmSim \in {"run", "read"} => lcm \in {"created", "subscribed"}
  /\ lcm = "freed" => library = 0

\* The handler writes where the read under way, or the one before, has told it.
HandlerAimed ==
  /\ lcmSim \in {"new", "configure"} => lcmPkg = "NULL"
  /\ lcmSim = "read" => lcmPkg = argument
  /\ lcmSim = "run" /\ lcmPkg = "string" => argument = "NULL"
  /\ lcmSim = "run" /\ lcmPkg \in Packages => argument = lcmPkg

\* What was accepted was read, one by one, or is in the queue, unless a read failed with it.
LcmOrdered ==
  lcmSim \notin {"error", "destroyed"} =>
    /\ Len(accepted) = Len(results) + Len(lcmQueue)
    /\ \A h \in 1 .. Len(results) : accepted[h] = results[h].message
    /\ \A h \in 1 .. Len(lcmQueue) : accepted[Len(results) + h] = lcmQueue[h]

\* A package holds the message of the last result it is in.
LcmKept(p, k) == results[k].to = p /\ lcmContents[p] = results[k].message
PackagesHoldLast ==
  \A p \in Packages :
    \/ lcmContents[p] = 0 /\ \A j \in 1 .. Len(results) : results[j].to # p
    \/ \E k \in 1 .. Len(results) :
         LcmKept(p, k) /\ \A j \in 1 .. Len(results) : results[j].to = p => j <= k

LcmIInv == Channel!TypeOK /\ LcmOpen /\ HandlerAimed /\ LcmOrdered /\ PackagesHoldLast

LcmResults(m) == [message : 1 .. m, to : Packages \cup {"NULL"}]

\* The invariant holds in the initial states.
LEMMA InitLcmIInv ==
  ASSUME Channel!LcmAssumption, Channel!Init
  PROVE  LcmIInv
<1>1. \A S : <<>> \in Seq(S) /\ Len(<<>>) = 0
  BY EmptySeq
<1>2. Channel!TypeOK
  <2>1. lcmSent \in 0 .. MaxLcmMessages /\ Len(lcmQueue) <= maxQueueSize /\ library \in 0 .. 1
    BY <1>1 DEF Channel!Init, Channel!LcmAssumption
  <2>2. lcmContents \in [Packages -> 0 .. lcmSent]
    BY <2>1 DEF Channel!Init
  <2>3. QED
    BY <1>1, <2>1, <2>2 DEF Channel!Init, Channel!TypeOK
<1>3. LcmOpen /\ HandlerAimed /\ LcmOrdered /\ PackagesHoldLast
  BY <1>1
  DEF Channel!Init, LcmOpen, HandlerAimed, LcmOrdered, PackagesHoldLast, Channel!LcmAssumption
<1>4. QED
  BY <1>2, <1>3 DEF LcmIInv

\* What the sequences hold, and their lengths
LEMMA LcmSequences ==
  ASSUME Channel!LcmAssumption, LcmIInv
  PROVE  /\ lcmQueue \in Seq(1 .. lcmSent) /\ accepted \in Seq(1 .. lcmSent)
         /\ results \in Seq(LcmResults(lcmSent)) /\ lcmSent \in Nat /\ lcmSent <= MaxLcmMessages
         /\ Len(lcmQueue) \in Nat /\ Len(accepted) \in Nat /\ Len(results) \in Nat
         /\ maxQueueSize \in Nat /\ Len(lcmQueue) <= maxQueueSize /\ MaxLcmMessages \in Nat
  BY LenProperties DEF LcmIInv, Channel!TypeOK, Channel!LcmAssumption, LcmResults

\* A message arrives.
LEMMA LcmArriveStep ==
  ASSUME Channel!LcmAssumption, LcmIInv, Channel!Arrive
  PROVE  LcmIInv'
<1>1. /\ lcmQueue \in Seq(1 .. lcmSent) /\ accepted \in Seq(1 .. lcmSent)
      /\ results \in Seq(LcmResults(lcmSent)) /\ lcmSent \in Nat /\ lcmSent < MaxLcmMessages
      /\ Len(lcmQueue) \in Nat /\ Len(accepted) \in Nat /\ Len(results) \in Nat
      /\ maxQueueSize \in Nat /\ Len(lcmQueue) <= maxQueueSize /\ MaxLcmMessages \in Nat
  BY LcmSequences DEF Channel!Arrive
<1>2. /\ lcmSent' = lcmSent + 1
      /\ UNCHANGED <<lcmReceiver, lcm, library, subscribed, lcmPkg, lcmContents, lcmSim, argument, results>>
  BY DEF Channel!Arrive
<1>3. /\ 1 .. lcmSent \subseteq 1 .. lcmSent' /\ LcmResults(lcmSent) \subseteq LcmResults(lcmSent')
      /\ lcmSent' \in 0 .. MaxLcmMessages /\ lcmSent' \in 1 .. lcmSent'
  BY <1>1, <1>2 DEF LcmResults
<1>4. lcmQueue \in Seq(1 .. lcmSent') /\ accepted \in Seq(1 .. lcmSent') /\ results \in Seq(LcmResults(lcmSent'))
  BY <1>1, <1>3, SeqMonotonic
<1>5. lcmContents \in [Packages -> 0 .. lcmSent']
  BY <1>1, <1>2 DEF LcmIInv, Channel!TypeOK
<1>6. CASE subscribed /\ Len(lcmQueue) < maxQueueSize
  <2>1. lcmQueue' = Append(lcmQueue, lcmSent') /\ accepted' = Append(accepted, lcmSent')
    BY <1>6 DEF Channel!Arrive
  <2>2. /\ lcmQueue' \in Seq(1 .. lcmSent') /\ Len(lcmQueue') = Len(lcmQueue) + 1
        /\ \A h \in 1 .. Len(lcmQueue) : lcmQueue'[h] = lcmQueue[h]
        /\ lcmQueue'[Len(lcmQueue) + 1] = lcmSent'
    BY <1>3, <1>4, <2>1, AppendProperties
  <2>3. /\ accepted' \in Seq(1 .. lcmSent') /\ Len(accepted') = Len(accepted) + 1
        /\ \A h \in 1 .. Len(accepted) : accepted'[h] = accepted[h]
        /\ accepted'[Len(accepted) + 1] = lcmSent'
    BY <1>3, <1>4, <2>1, AppendProperties
  <2>4. LcmOrdered'
    <3> SUFFICES ASSUME lcmSim \notin {"error", "destroyed"} PROVE LcmOrdered'
      BY <1>2 DEF LcmOrdered
    <3>1. /\ Len(accepted) = Len(results) + Len(lcmQueue)
          /\ \A h \in 1 .. Len(results) : accepted[h] = results[h].message
          /\ \A h \in 1 .. Len(lcmQueue) : accepted[Len(results) + h] = lcmQueue[h]
      BY DEF LcmIInv, LcmOrdered
    <3>2. \A h \in 1 .. Len(results) : accepted'[h] = results[h].message
      <4>1. \A h \in 1 .. Len(results) : h \in 1 .. Len(accepted)
        BY <1>1, <3>1
      <4>2. QED
        BY <2>3, <3>1, <4>1
    <3>3. \A h \in 1 .. Len(lcmQueue) + 1 : accepted'[Len(results) + h] = lcmQueue'[h]
      <4> SUFFICES ASSUME NEW h \in 1 .. Len(lcmQueue) + 1
                   PROVE  accepted'[Len(results) + h] = lcmQueue'[h]
        OBVIOUS
      <4>1. CASE h \in 1 .. Len(lcmQueue)
        <5>1. Len(results) + h \in 1 .. Len(accepted)
          BY SMTT(30), <1>1, <3>1, <4>1
        <5>2. QED
          BY <2>2, <2>3, <3>1, <4>1, <5>1
      <4>2. CASE h = Len(lcmQueue) + 1
        <5>1. Len(results) + h = Len(accepted) + 1
          BY <1>1, <3>1, <4>2
        <5>2. QED
          BY <2>2, <2>3, <4>2, <5>1
      <4>3. QED
        BY <1>1, <4>1, <4>2
    <3>4. Len(accepted') = Len(results) + Len(lcmQueue')
      BY <1>1, <2>2, <2>3, <3>1
    <3>5. QED
      BY <1>2, <2>2, <3>2, <3>3, <3>4 DEF LcmOrdered
  <2>5. Len(lcmQueue') <= maxQueueSize
    BY <1>1, <1>6, <2>2
  <2>6. Channel!TypeOK'
    BY <1>2, <1>3, <1>4, <1>5, <2>2, <2>3, <2>5 DEF LcmIInv, Channel!TypeOK, LcmResults
  <2>7. QED
    BY <1>2, <2>4, <2>6 DEF LcmIInv, LcmOpen, HandlerAimed, PackagesHoldLast, LcmKept
<1>7. CASE ~(subscribed /\ Len(lcmQueue) < maxQueueSize)
  <2>1. lcmQueue' = lcmQueue /\ accepted' = accepted
    BY <1>7 DEF Channel!Arrive
  <2>2. Channel!TypeOK'
    BY <1>1, <1>2, <1>3, <1>4, <1>5, <2>1 DEF LcmIInv, Channel!TypeOK, LcmResults
  <2>3. QED
    BY <1>2, <2>1, <2>2 DEF LcmIInv, LcmOpen, HandlerAimed, LcmOrdered, PackagesHoldLast, LcmKept
<1>8. QED
  BY <1>6, <1>7

\* The handler takes the first message of the queue.
LEMMA LcmHandleStep ==
  ASSUME Channel!LcmAssumption, LcmIInv, Channel!Handle
  PROVE  LcmIInv'
<1> DEFINE goes == IF lcmPkg \in Packages THEN lcmPkg ELSE "NULL"
           new == [message |-> Head(lcmQueue), to |-> goes]
           len == Len(results)
<1>1. /\ lcmQueue \in Seq(1 .. lcmSent) /\ accepted \in Seq(1 .. lcmSent)
      /\ results \in Seq(LcmResults(lcmSent)) /\ lcmSent \in Nat
      /\ Len(lcmQueue) \in Nat /\ Len(accepted) \in Nat /\ len \in Nat
      /\ maxQueueSize \in Nat /\ Len(lcmQueue) <= maxQueueSize
  BY LcmSequences
<1>2. /\ lcmSim = "read" /\ lcmSim' = "run" /\ lcmQueue # <<>> /\ lcmQueue' = Tail(lcmQueue)
      /\ results' = Append(results, new)
      /\ UNCHANGED <<lcmReceiver, lcm, library, subscribed, lcmSent, accepted, argument>>
  BY DEF Channel!Handle
<1>3. IF lcmPkg \in Packages
        THEN lcmContents' = [lcmContents EXCEPT ![lcmPkg] = Head(lcmQueue)] /\ lcmPkg' = lcmPkg
        ELSE lcmPkg' = "string" /\ lcmContents' = lcmContents
  BY DEF Channel!Handle
<1>4. /\ Head(lcmQueue) \in 1 .. lcmSent /\ Tail(lcmQueue) \in Seq(1 .. lcmSent)
      /\ Len(Tail(lcmQueue)) = Len(lcmQueue) - 1 /\ Head(lcmQueue) = lcmQueue[1]
      /\ \A h \in 1 .. Len(Tail(lcmQueue)) : Tail(lcmQueue)[h] = lcmQueue[h + 1]
  BY <1>1, <1>2, HeadTailProperties
<1>5. new \in LcmResults(lcmSent) /\ new.message = Head(lcmQueue) /\ new.to = goes
  BY <1>4 DEF LcmResults
<1> HIDE DEF new
<1>6. /\ results' \in Seq(LcmResults(lcmSent)) /\ Len(results') = len + 1
      /\ \A h \in 1 .. len : results'[h] = results[h]
      /\ results'[len + 1] = new
  BY <1>1, <1>2, <1>5, AppendProperties
<1> HIDE DEF len, goes
<1>7. Len(lcmQueue) >= 1
  BY <1>1, <1>4, LenProperties
<1>8. LcmOrdered'
  <2>1. /\ Len(accepted) = len + Len(lcmQueue)
        /\ \A h \in 1 .. len : accepted[h] = results[h].message
        /\ \A h \in 1 .. Len(lcmQueue) : accepted[len + h] = lcmQueue[h]
    BY <1>2 DEF LcmIInv, LcmOpen, LcmOrdered, len
  <2>2. \A h \in 1 .. len + 1 : accepted[h] = results'[h].message
    <3> SUFFICES ASSUME NEW h \in 1 .. len + 1 PROVE accepted[h] = results'[h].message
      OBVIOUS
    <3>1. CASE h \in 1 .. len
      BY <1>6, <2>1, <3>1
    <3>2. CASE h = len + 1
      BY <1>1, <1>4, <1>5, <1>6, <1>7, <2>1, <3>2
    <3>3. QED
      BY <1>1, <3>1, <3>2
  <2>3. \A h \in 1 .. Len(lcmQueue') : accepted[(len + 1) + h] = lcmQueue'[h]
    <3> SUFFICES ASSUME NEW h \in 1 .. Len(lcmQueue') PROVE accepted[(len + 1) + h] = lcmQueue'[h]
      OBVIOUS
    <3>1. /\ h + 1 \in 1 .. Len(lcmQueue) /\ (len + 1) + h = len + (h + 1)
          /\ lcmQueue'[h] = lcmQueue[h + 1]
      BY <1>1, <1>2, <1>4
    <3>2. QED
      BY <2>1, <3>1
  <2>4. Len(accepted) = (len + 1) + Len(lcmQueue')
    BY <1>1, <1>2, <1>4, <2>1
  <2>5. QED
    BY <1>2, <1>6, <2>2, <2>3, <2>4 DEF LcmOrdered
<1>9. Channel!TypeOK'
  <2>1. lcmContents' \in [Packages -> 0 .. lcmSent] /\ lcmPkg' \in Packages \cup {"NULL", "string"}
    <3>1. lcmContents \in [Packages -> 0 .. lcmSent] /\ lcmPkg \in Packages \cup {"NULL", "string"}
      BY DEF LcmIInv, Channel!TypeOK
    <3>2. Head(lcmQueue) \in 0 .. lcmSent
      BY <1>1, <1>4
    <3>3. QED
      BY <1>3, <3>1, <3>2
  <2>2. Len(lcmQueue') <= maxQueueSize
    BY <1>1, <1>2, <1>4
  <2>3. QED
    BY <1>2, <1>4, <1>6, <2>1, <2>2 DEF LcmIInv, Channel!TypeOK, LcmResults
<1>10. PackagesHoldLast'
  <2> SUFFICES ASSUME NEW p \in Packages
        PROVE  \/ lcmContents'[p] = 0 /\ \A j \in 1 .. len + 1 : results'[j].to # p
               \/ \E k \in 1 .. len + 1 :
                    /\ results'[k].to = p /\ lcmContents'[p] = results'[k].message
                    /\ \A j \in 1 .. len + 1 : results'[j].to = p => j <= k
    BY <1>6 DEF PackagesHoldLast, LcmKept
  <2>1. CASE lcmPkg = p
    <3>1. results'[len + 1].to = p /\ lcmContents'[p] = results'[len + 1].message
      BY <1>3, <1>5, <1>6, <2>1 DEF LcmIInv, Channel!TypeOK, goes
    <3>2. len + 1 \in 1 .. len + 1 /\ \A j \in 1 .. len + 1 : j <= len + 1
      BY <1>1
    <3>3. QED
      BY <3>1, <3>2
  <2>2. CASE lcmPkg # p
    <3>1. lcmContents'[p] = lcmContents[p]
      BY <1>3, <2>2 DEF LcmIInv, Channel!TypeOK
    <3>2. results'[len + 1].to # p
      BY <1>5, <1>6, <2>2 DEF goes, Channel!LcmAssumption
    <3>3. \A j \in 1 .. len + 1 : j \in 1 .. len \/ j = len + 1
      BY <1>1
    <3>4. CASE lcmContents[p] = 0 /\ \A j \in 1 .. len : results[j].to # p
      BY <1>6, <3>1, <3>2, <3>3, <3>4
    <3>5. CASE \E k \in 1 .. len : /\ LcmKept(p, k)
                                   /\ \A j \in 1 .. len : results[j].to = p => j <= k
      <4>1. PICK k \in 1 .. len : /\ LcmKept(p, k)
                                  /\ \A j \in 1 .. len : results[j].to = p => j <= k
        BY <3>5
      <4>2. results'[k].to = p /\ lcmContents'[p] = results'[k].message
        BY <1>6, <3>1, <4>1 DEF LcmKept
      <4>3. \A j \in 1 .. len + 1 : results'[j].to = p => j <= k
        BY <1>6, <3>2, <3>3, <4>1
      <4>4. k \in 1 .. len + 1
        BY <1>1
      <4>5. QED
        BY <4>2, <4>3, <4>4
    <3>6. QED
      BY <3>4, <3>5 DEF LcmIInv, PackagesHoldLast, len
  <2>3. QED
    BY <2>1, <2>2
<1>11. LcmOpen' /\ HandlerAimed'
  <2>1. argument \in Packages \cup {"NULL"} /\ lcmPkg = argument
    BY <1>2 DEF LcmIInv, Channel!TypeOK, HandlerAimed
  <2>2. "NULL" \notin Packages /\ "string" \notin Packages
    BY DEF Channel!LcmAssumption
  <2>3. HandlerAimed'
    BY <1>2, <1>3, <2>1, <2>2 DEF HandlerAimed
  <2>4. LcmOpen'
    BY <1>2 DEF LcmIInv, LcmOpen
  <2>5. QED
    BY <2>3, <2>4
<1>12. QED
  BY <1>8, <1>9, <1>10, <1>11 DEF LcmIInv

\* Every step keeps the invariant.
LEMMA LcmIInvStep ==
  ASSUME Channel!LcmAssumption, LcmIInv, [Channel!Next]_Channel!vars
  PROVE  LcmIInv'
<1>1. CASE Channel!Create
  <2>1. Channel!TypeOK'
    BY <1>1 DEF LcmIInv, Channel!TypeOK, Channel!Create, Channel!Messages
  <2>2. LcmOpen'
    BY <1>1 DEF LcmIInv, LcmOpen, Channel!Create, Channel!Messages
  <2>3. HandlerAimed'
    BY <1>1
    DEF LcmIInv, Channel!TypeOK, HandlerAimed, Channel!LcmAssumption, Channel!Create,
        Channel!Messages
  <2>4. LcmOrdered'
    BY <1>1 DEF LcmIInv, LcmOrdered, LcmOpen, Channel!Create, Channel!Messages
  <2>5. PackagesHoldLast'
    BY <1>1 DEF LcmIInv, PackagesHoldLast, LcmKept, Channel!Create, Channel!Messages
  <2>6. QED
    BY <2>1, <2>2, <2>3, <2>4, <2>5 DEF LcmIInv
<1>2. CASE Channel!Subscribe
  <2>1. Channel!TypeOK'
    <3>1. library' \in 0 .. 1
      BY <1>2 DEF LcmIInv, Channel!TypeOK, Channel!Subscribe
    <3>2. lcm' \in {"none", "created", "subscribed", "freed"} /\ subscribed' \in BOOLEAN
      BY <1>2 DEF LcmIInv, Channel!TypeOK, Channel!Subscribe
    <3>3. QED
      BY <1>2, <3>1, <3>2 DEF LcmIInv, Channel!TypeOK, Channel!Subscribe, Channel!Messages
  <2>2. LcmOpen'
    BY <1>2 DEF LcmIInv, LcmOpen, Channel!Subscribe, Channel!Messages
  <2>3. HandlerAimed'
    BY <1>2
    DEF LcmIInv, Channel!TypeOK, HandlerAimed, Channel!LcmAssumption, Channel!Subscribe,
        Channel!Messages
  <2>4. LcmOrdered'
    BY <1>2 DEF LcmIInv, LcmOrdered, LcmOpen, Channel!Subscribe, Channel!Messages
  <2>5. PackagesHoldLast'
    BY <1>2 DEF LcmIInv, PackagesHoldLast, LcmKept, Channel!Subscribe, Channel!Messages
  <2>6. QED
    BY <2>1, <2>2, <2>3, <2>4, <2>5 DEF LcmIInv
<1>3. CASE Channel!SendFails
  <2>1. Channel!TypeOK'
    BY <1>3 DEF LcmIInv, Channel!TypeOK, Channel!SendFails, Channel!Messages
  <2>2. LcmOpen'
    BY <1>3 DEF LcmIInv, LcmOpen, Channel!SendFails, Channel!Messages
  <2>3. HandlerAimed'
    BY <1>3
    DEF LcmIInv, Channel!TypeOK, HandlerAimed, Channel!LcmAssumption, Channel!SendFails,
        Channel!Messages
  <2>4. LcmOrdered'
    BY <1>3 DEF LcmIInv, LcmOrdered, LcmOpen, Channel!SendFails, Channel!Messages
  <2>5. PackagesHoldLast'
    BY <1>3 DEF LcmIInv, PackagesHoldLast, LcmKept, Channel!SendFails, Channel!Messages
  <2>6. QED
    BY <2>1, <2>2, <2>3, <2>4, <2>5 DEF LcmIInv
<1>4. CASE Channel!NoMessage
  <2>1. Channel!TypeOK'
    BY <1>4 DEF LcmIInv, Channel!TypeOK, Channel!NoMessage, Channel!Messages
  <2>2. LcmOpen'
    BY <1>4 DEF LcmIInv, LcmOpen, Channel!NoMessage, Channel!Messages
  <2>3. HandlerAimed'
    BY <1>4
    DEF LcmIInv, Channel!TypeOK, HandlerAimed, Channel!LcmAssumption, Channel!NoMessage,
        Channel!Messages
  <2>4. LcmOrdered'
    BY <1>4 DEF LcmIInv, LcmOrdered, LcmOpen, Channel!NoMessage, Channel!Messages
  <2>5. PackagesHoldLast'
    BY <1>4 DEF LcmIInv, PackagesHoldLast, LcmKept, Channel!NoMessage, Channel!Messages
  <2>6. QED
    BY <2>1, <2>2, <2>3, <2>4, <2>5 DEF LcmIInv
<1>5. CASE Channel!ReadFails
  <2>1. Channel!TypeOK'
    <3>1. /\ lcmQueue \in Seq(1 .. lcmSent) /\ Len(lcmQueue) \in Nat /\ maxQueueSize \in Nat
          /\ Len(lcmQueue) <= maxQueueSize
      BY LcmSequences
    <3>2. CASE lcmQueue' = lcmQueue
      BY <1>5, <3>2 DEF LcmIInv, Channel!TypeOK, Channel!ReadFails, Channel!Messages
    <3>3. CASE lcmQueue # <<>> /\ lcmQueue' = Tail(lcmQueue)
      <4>1. lcmQueue' \in Seq(1 .. lcmSent) /\ Len(lcmQueue') = Len(lcmQueue) - 1
        BY <3>1, <3>3, HeadTailProperties
      <4>2. Len(lcmQueue') <= maxQueueSize
        BY <3>1, <4>1
      <4>3. QED
        BY <1>5, <4>1, <4>2 DEF LcmIInv, Channel!TypeOK, Channel!ReadFails, Channel!Messages
    <3>4. QED
      BY <1>5, <3>2, <3>3 DEF Channel!ReadFails
  <2>2. LcmOpen'
    BY <1>5 DEF LcmIInv, LcmOpen, Channel!ReadFails, Channel!Messages
  <2>3. HandlerAimed'
    BY <1>5
    DEF LcmIInv, Channel!TypeOK, HandlerAimed, Channel!LcmAssumption, Channel!ReadFails,
        Channel!Messages
  <2>4. LcmOrdered'
    BY <1>5 DEF LcmIInv, LcmOrdered, LcmOpen, Channel!ReadFails, Channel!Messages
  <2>5. PackagesHoldLast'
    BY <1>5 DEF LcmIInv, PackagesHoldLast, LcmKept, Channel!ReadFails, Channel!Messages
  <2>6. QED
    BY <2>1, <2>2, <2>3, <2>4, <2>5 DEF LcmIInv
<1>6. CASE Channel!Read
  <2>1. Channel!TypeOK'
    BY <1>6 DEF LcmIInv, Channel!TypeOK, Channel!Read
  <2>2. LcmOpen'
    BY <1>6 DEF LcmIInv, LcmOpen, Channel!Read
  <2>3. HandlerAimed'
    BY <1>6 DEF LcmIInv, Channel!TypeOK, HandlerAimed, Channel!LcmAssumption, Channel!Read
  <2>4. LcmOrdered'
    BY <1>6 DEF LcmIInv, LcmOrdered, LcmOpen, Channel!Read
  <2>5. PackagesHoldLast'
    BY <1>6 DEF LcmIInv, PackagesHoldLast, LcmKept, Channel!Read
  <2>6. QED
    BY <2>1, <2>2, <2>3, <2>4, <2>5 DEF LcmIInv
<1>7. ASSUME NEW p \in Packages, Channel!ReadP(p) PROVE LcmIInv'
  <2>1. Channel!TypeOK'
    BY <1>7 DEF LcmIInv, Channel!TypeOK, Channel!ReadP
  <2>2. LcmOpen'
    BY <1>7 DEF LcmIInv, LcmOpen, Channel!ReadP
  <2>3. HandlerAimed'
    BY <1>7 DEF LcmIInv, Channel!TypeOK, HandlerAimed, Channel!LcmAssumption, Channel!ReadP
  <2>4. LcmOrdered'
    BY <1>7 DEF LcmIInv, LcmOrdered, LcmOpen, Channel!ReadP
  <2>5. PackagesHoldLast'
    BY <1>7 DEF LcmIInv, PackagesHoldLast, LcmKept, Channel!ReadP
  <2>6. QED
    BY <2>1, <2>2, <2>3, <2>4, <2>5 DEF LcmIInv
<1>8. CASE Channel!Destroy
  <2>1. Channel!TypeOK'
    <3>1. lcmQueue' \in Seq(1 .. lcmSent) /\ Len(lcmQueue') <= maxQueueSize
      BY <1>8, EmptySeq DEF Channel!Destroy, Channel!LcmAssumption
    <3>2. QED
      BY <1>8, <3>1 DEF LcmIInv, Channel!TypeOK, Channel!Destroy, Channel!Messages
  <2>2. LcmOpen'
    BY <1>8 DEF LcmIInv, LcmOpen, Channel!Destroy, Channel!Messages
  <2>3. HandlerAimed'
    BY <1>8
    DEF LcmIInv, Channel!TypeOK, HandlerAimed, Channel!LcmAssumption, Channel!Destroy,
        Channel!Messages
  <2>4. LcmOrdered'
    BY <1>8 DEF LcmIInv, LcmOrdered, LcmOpen, Channel!Destroy, Channel!Messages
  <2>5. PackagesHoldLast'
    BY <1>8 DEF LcmIInv, PackagesHoldLast, LcmKept, Channel!Destroy, Channel!Messages
  <2>6. QED
    BY <2>1, <2>2, <2>3, <2>4, <2>5 DEF LcmIInv
<1>9. CASE Channel!Ended \/ UNCHANGED Channel!vars
  <2>1. Channel!TypeOK'
    BY <1>9 DEF LcmIInv, Channel!TypeOK, Channel!Ended, Channel!vars
  <2>2. LcmOpen' /\ HandlerAimed'
    BY <1>9 DEF LcmIInv, LcmOpen, HandlerAimed, Channel!Ended, Channel!vars
  <2>3. LcmOrdered' /\ PackagesHoldLast'
    BY <1>9 DEF LcmIInv, LcmOrdered, PackagesHoldLast, LcmKept, Channel!Ended, Channel!vars
  <2>4. QED
    BY <2>1, <2>2, <2>3 DEF LcmIInv
<1>10. QED
  BY <1>1, <1>2, <1>3, <1>4, <1>5, <1>6, <1>7, <1>8, <1>9, LcmArriveStep, LcmHandleStep
     DEF Channel!Next

\* The messages read and those in the queue are those that were accepted.
LEMMA LcmIInvReads ==
  ASSUME Channel!LcmAssumption, LcmIInv
  PROVE  Channel!ReadsInOrder
<1>1. ASSUME lcmSim \notin {"error", "destroyed"}
      PROVE  accepted = [h \in 1 .. Len(results) |-> results[h].message] \o lcmQueue
  <2> DEFINE read == [h \in 1 .. Len(results) |-> results[h].message]
  <2>1. /\ lcmQueue \in Seq(1 .. lcmSent) /\ accepted \in Seq(1 .. lcmSent) /\ lcmSent \in Nat
        /\ results \in Seq(LcmResults(lcmSent))
        /\ Len(lcmQueue) \in Nat /\ Len(accepted) \in Nat /\ Len(results) \in Nat
    BY LcmSequences
  <2>2. \A h \in 1 .. Len(results) : results[h].message \in 1 .. lcmSent
    <3>1. \A h \in 1 .. Len(results) : results[h] \in LcmResults(lcmSent)
      BY <2>1, ElementOfSeq
    <3>2. QED
      BY <3>1 DEF LcmResults
  <2>3. read \in Seq(1 .. lcmSent) /\ Len(read) = Len(results)
    BY <2>1, <2>2
  <2>4. \A h \in 1 .. Len(results) : read[h] = results[h].message
    OBVIOUS
  <2> HIDE DEF read
  <2>5. /\ read \o lcmQueue \in Seq(1 .. lcmSent) /\ Len(read \o lcmQueue) = Len(read) + Len(lcmQueue)
        /\ \A h \in 1 .. Len(read) + Len(lcmQueue) :
             (read \o lcmQueue)[h] = IF h <= Len(read) THEN read[h] ELSE lcmQueue[h - Len(read)]
    BY <2>1, <2>3, ConcatProperties
  <2>6. /\ Len(accepted) = Len(results) + Len(lcmQueue)
        /\ \A h \in 1 .. Len(results) : accepted[h] = results[h].message
        /\ \A h \in 1 .. Len(lcmQueue) : accepted[Len(results) + h] = lcmQueue[h]
    BY <1>1 DEF LcmIInv, LcmOrdered
  <2>7. \A h \in 1 .. Len(accepted) : accepted[h] = (read \o lcmQueue)[h]
    <3> SUFFICES ASSUME NEW h \in 1 .. Len(accepted) PROVE accepted[h] = (read \o lcmQueue)[h]
      OBVIOUS
    <3>1. CASE h <= Len(results)
      <4>1. h \in 1 .. Len(results) /\ h \in 1 .. Len(read) + Len(lcmQueue) /\ h <= Len(read)
        BY <2>1, <2>3, <2>6, <3>1
      <4>2. (read \o lcmQueue)[h] = read[h]
        BY <2>5, <4>1
      <4>3. QED
        BY <2>4, <2>6, <4>1, <4>2
    <3>2. CASE h > Len(results)
      <4>1. h - Len(results) \in 1 .. Len(lcmQueue) /\ Len(results) + (h - Len(results)) = h
        BY <2>1, <2>6, <3>2
      <4>2. accepted[h] = lcmQueue[h - Len(results)]
        BY <2>6, <4>1
      <4>3. h \in 1 .. Len(read) + Len(lcmQueue) /\ ~(h <= Len(read))
        BY <2>1, <2>3, <2>6, <3>2
      <4>4. (read \o lcmQueue)[h] = lcmQueue[h - Len(results)]
        BY <2>3, <2>5, <4>3
      <4>5. QED
        BY <4>2, <4>4
    <3>3. h <= Len(results) \/ h > Len(results)
      BY <2>1
    <3>4. QED
      BY <3>1, <3>2, <3>3
  <2>8. accepted = read \o lcmQueue
    BY <2>1, <2>3, <2>5, <2>6, <2>7, SeqEqual
  <2>9. QED
    BY <2>8 DEF read
<1>2. ASSUME NEW p \in Packages
      PROVE  LET into == {h \in 1 .. Len(results) : results[h].to = p}
             IN  \/ into = {} /\ lcmContents[p] = 0
                 \/ \E h \in into : (\A j \in into : j <= h) /\ lcmContents[p] = results[h].message
  BY DEF LcmIInv, PackagesHoldLast, LcmKept
<1>3. QED
  BY <1>1, <1>2 DEF LcmIInv, LcmOpen, HandlerAimed, Channel!ReadsInOrder

\* A step of the drivers is one of this driver, or leaves it alone.
LEMMA LcmSteps == ASSUME [DevicesNext]_DeviceVars PROVE [Channel!Next]_Channel!vars
  BY DEF DevicesNext, OthersRest, DeviceVars, LcmVars, Channel!vars

\* In every state of the drivers its invariant holds.
LEMMA LcmInvariance == DevicesSpec => []LcmIInv
<1>1. DevicesInit => LcmIInv
  BY InitLcmIInv, DevicesAssumption DEF DevicesAssumption, DevicesInit
<1>2. LcmIInv /\ [DevicesNext]_DeviceVars => LcmIInv'
  <2> SUFFICES ASSUME LcmIInv, [DevicesNext]_DeviceVars PROVE LcmIInv'
    OBVIOUS
  <2>1. [Channel!Next]_Channel!vars
    BY LcmSteps
  <2>2. QED
    BY <2>1, LcmIInvStep, DevicesAssumption DEF DevicesAssumption
<1>3. QED
  BY <1>1, <1>2, PTL DEF DevicesSpec
=============================================================================
