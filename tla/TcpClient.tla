------------------------------ MODULE TcpClient ------------------------------
(***************************************************************************)
(* MDDTCPIPSocket.h: a TCP/IP client object from its constructor to its    *)
(* destructor, on Linux and on Windows.  A descriptor is a number that is  *)
(* open or not; the kernel gives the lowest that is not.  Other parts of   *)
(* the simulation open and close descriptors as well.                      *)
(***************************************************************************)
EXTENDS Integers, Sequences

CONSTANTS
  Platforms,     \* "linux", "windows"
  Descriptors,   \* 1 .. n: bound on what is open at a time
  Addresses,     \* how many addresses getaddrinfo returns, at most
  DataSizes,     \* values of dataSize
  MaxCalls       \* bound: calls of Send and Read

ClientAssumption ==
  /\ Descriptors \subseteq Nat \ {0} /\ Addresses \in Nat /\ MaxCalls \in Nat
  /\ DataSizes \subseteq Nat

VARIABLES
  platform,
  open,            \* who opened each open descriptor: "client" or "other"
  connected,       \* descriptors that are connected to the server
  winsock,         \* WSAStartup that no WSACleanup followed
  object, sfd,     \* the object exists; its socket, 0 for INVALID_SOCKET and -1
  pc, left,        \* control, addresses not tried or bytes not sent
  dataSize,        \* of the send at work
  stream,          \* bytes the server has got of each send: their positions
  calls

vars == <<platform, open, connected, winsock, object, sfd, pc, left, dataSize, stream, calls>>

Linux == platform = "linux"
None == 0
Free == {d \in Descriptors : open[d] = "no"}
Lowest == CHOOSE d \in Free : \A e \in Free : d <= e

TypeOK ==
  /\ platform \in Platforms
  /\ open \in [Descriptors -> {"no", "client", "other"}]
  /\ connected \subseteq Descriptors /\ winsock \in Int
  /\ object \in BOOLEAN /\ sfd \in Descriptors \cup {None}
  /\ pc \in {"new", "idle", "addresses", "connect", "ready", "send", "destroyed", "error"}
  /\ left \in Nat /\ dataSize \in Nat /\ calls \in 0 .. MaxCalls
  /\ stream \in Seq(Nat)

Init ==
  /\ platform \in Platforms
  /\ open = [d \in Descriptors |-> "no"] /\ connected = {}
  /\ winsock = 0
  /\ object = FALSE /\ sfd = None
  /\ pc = "new" /\ left = 0 /\ dataSize = 0
  /\ stream = <<>> /\ calls = 0

\* Another part of the simulation opens a descriptor, or closes one of its own.
Others ==
  /\ pc # "destroyed"
  /\ \/ Free # {} /\ open' = [open EXCEPT ![Lowest] = "other"]
     \/ \E d \in Descriptors : open[d] = "other" /\ open' = [open EXCEPT ![d] = "no"]
  /\ UNCHANGED <<platform, connected, winsock, object, sfd, pc, left, dataSize, stream, calls>>

----------------------------------------------------------------------------

\* MDD_TCPIPClient_Constructor: WSAStartup; on Linux a socket Connect does not use
Construct ==
  /\ pc = "new" /\ pc' = "idle"
  /\ object' = TRUE
  /\ IF Linux
     THEN /\ Free # {}
          /\ sfd' = Lowest /\ open' = [open EXCEPT ![Lowest] = "client"]
          /\ UNCHANGED winsock
     ELSE winsock' = winsock + 1 /\ UNCHANGED <<sfd, open>>
  /\ UNCHANGED <<platform, connected, left, dataSize, stream, calls>>

\* socket or WSAStartup fails.
ConstructFails ==
  /\ pc = "new" /\ pc' = "error"
  /\ UNCHANGED <<platform, open, connected, winsock, object, sfd, left, dataSize, stream, calls>>

\* MDD_TCPIPClient_Connect: getaddrinfo returns a list of n addresses; a Windows client
\* that is connected stays so.
Connect(n) ==
  /\ pc = "idle" \/ (pc = "ready" /\ Linux)
  /\ pc' = "addresses" /\ left' = n
  /\ UNCHANGED <<platform, open, connected, winsock, object, sfd, dataSize, stream, calls>>

\* An error of Connect: Windows gives up the object.
GiveUp ==
  /\ pc' = "error" /\ left' = 0
  /\ IF Linux THEN UNCHANGED <<object, winsock>>
              ELSE object' = FALSE /\ winsock' = winsock - 1
  /\ UNCHANGED <<platform, open, connected, sfd, dataSize, stream, calls>>

\* getaddrinfo fails, no address is left, or (Windows) there is no socket.
ConnectFails ==
  /\ \/ pc = "idle"
     \/ pc = "addresses" /\ (left = 0 \/ ~Linux)
  /\ GiveUp

\* A socket for the next address; on Linux one that cannot be had is skipped.
Socket ==
  /\ pc = "addresses" /\ left > 0
  /\ IF Free # {}
     THEN /\ sfd' = Lowest /\ open' = [open EXCEPT ![Lowest] = "client"]
          /\ pc' = "connect" /\ UNCHANGED left
     ELSE Linux /\ sfd' = None /\ left' = left - 1 /\ UNCHANGED <<open, pc>>
  /\ UNCHANGED <<platform, connected, winsock, object, dataSize, stream, calls>>

ConnectOne ==
  /\ pc = "connect" /\ pc' = "ready"
  /\ connected' = connected \cup {sfd} /\ left' = 0
  /\ UNCHANGED <<platform, open, winsock, object, sfd, dataSize, stream, calls>>

RefusedKeepsSocket ==
  /\ pc = "connect" /\ pc' = "ready"
  /\ open' = [open EXCEPT ![sfd] = "no"]
  /\ left' = 0
  /\ UNCHANGED <<platform, connected, winsock, object, sfd, dataSize, stream, calls>>

\* The server does not answer at this address: the socket is closed.  Linux keeps its
\* number, until the next address gets one.
ConnectRefused ==
  /\ pc = "connect" /\ pc' = "addresses"
  /\ open' = [open EXCEPT ![sfd] = "no"]
  /\ left' = left - 1
  /\ sfd' = IF Linux THEN sfd ELSE None
  /\ UNCHANGED <<platform, connected, winsock, object, dataSize, stream, calls>>

----------------------------------------------------------------------------
(* MDD_TCPIPClient_Send, SendP, Read and ReadP *)

Send(n) ==
  /\ pc = "ready" /\ calls < MaxCalls
  /\ pc' = "send" /\ dataSize' = n /\ left' = n
  /\ stream' = <<>> /\ calls' = calls + 1
  /\ UNCHANGED <<platform, open, connected, winsock, object, sfd>>

\* The bytes from..to of the data go to the server.
Transmit(from, to) == stream' = stream \o [k \in 1 .. to - from + 1 |-> from + k - 1]

WriteFromStart(k) ==
  /\ pc = "send" /\ k \in 1 .. left
  /\ Transmit(1, k)
  /\ left' = left - k
  /\ UNCHANGED <<platform, open, connected, winsock, object, sfd, pc, dataSize, calls>>

\* One write of Linux; Windows blocks until everything is sent.  A signal leads to another
\* round of the loop.
Write(k) ==
  /\ pc = "send" /\ k \in 1 .. left
  /\ Linux \/ k = left
  /\ Transmit(dataSize - left + 1, dataSize - left + k)
  /\ left' = left - k
  /\ UNCHANGED <<platform, open, connected, winsock, object, sfd, pc, dataSize, calls>>

SendReturns ==
  /\ pc = "send" /\ left = 0
  /\ pc' = "ready"
  /\ UNCHANGED <<platform, open, connected, winsock, object, sfd, left, dataSize, stream, calls>>

\* The connection is gone: an error on Linux, a message on Windows.
SendFails ==
  /\ pc = "send" /\ left > 0 /\ left' = 0
  /\ pc' = IF Linux THEN "error" ELSE "ready"
  /\ stream' = <<>> /\ dataSize' = 0
  /\ UNCHANGED <<platform, open, connected, winsock, object, sfd, calls>>

\* MDD_TCPIPClient_Read and ReadP wait for data and fail on Linux.
ReadFails ==
  /\ Linux /\ pc = "ready" /\ pc' = "error"
  /\ UNCHANGED <<platform, open, connected, winsock, object, sfd, left, dataSize, stream, calls>>

\* MDD_TCPIPClient_ReadP: the package is too small for what came; Windows takes the
\* SOCKET_ERROR of a read that fails for its length.
PackageTooSmall ==
  /\ pc = "ready" /\ pc' = "error"
  /\ UNCHANGED <<platform, open, connected, winsock, object, sfd, left, dataSize, stream, calls>>

----------------------------------------------------------------------------

\* MDD_TCPIPClient_Destructor
Destroy ==
  /\ pc \in {"idle", "ready"}
  /\ pc' = "destroyed"
  /\ open' = IF sfd # None THEN [open EXCEPT ![sfd] = "no"] ELSE open
  /\ connected' = connected \ {sfd}
  /\ winsock' = IF Linux THEN winsock ELSE winsock - 1
  /\ object' = FALSE /\ sfd' = None
  /\ UNCHANGED <<platform, left, dataSize, stream, calls>>

Ended == pc \in {"destroyed", "error"} /\ UNCHANGED vars

Next ==
  \/ Others \/ Construct \/ ConstructFails
  \/ (\E n \in 1 .. Addresses : Connect(n)) \/ ConnectFails
  \/ Socket \/ ConnectOne \/ ConnectRefused
  \/ (\E n \in DataSizes : Send(n)) \/ (\E k \in 1 .. dataSize : Write(k))
  \/ SendReturns \/ SendFails \/ ReadFails \/ PackageTooSmall
  \/ Destroy \/ Ended

Spec == Init /\ [][Next]_vars

----------------------------------------------------------------------------
(* Properties *)

\* "Attempt to connect to an address until one succeeds" (81, 265): when Connect has
\* returned, and until the destructor, the object's socket is one it opened itself and
\* connected, whatever addresses failed before and whatever else is opened and closed.
SocketIsConnected ==
  pc \in {"ready", "send"} => object /\ sfd \in connected /\ open[sfd] = "client"

\* "Repeatedly call write until the entire buffer is sent" (298): a send that returns has
\* sent every byte of the data, once and in order.
SendsEverything ==
  (pc = "ready" /\ stream # <<>>) => stream = [k \in 1 .. dataSize |-> k]
=============================================================================
