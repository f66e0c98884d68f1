-------------------------- MODULE TcpServerWindows --------------------------
(***************************************************************************)
(* The Windows half of MDDTCPIPSocketServer.h: a server with a number of   *)
(* slots, its accepting thread, which looks for free slots in a copy, and  *)
(* the simulation thread, which reads, sends and gives slots up.  A client *)
(* connects once.                                                          *)
(***************************************************************************)
EXTENDS Integers, Sequences, FiniteSets

CONSTANTS
  Clients,
  maxClients,   \* slots of the server
  Invalid       \* INVALID_SOCKET

TcpWindowsAssumption == maxClients \in Nat \ {0} /\ Invalid \notin Clients

VARIABLES
  backlog, connection,        \* clients not accepted yet; the state of each
  nonblocking, listening,     \* the mode of the server, and its socket
  clientSockets, runAcceptingThread, tcpipLock,
  acc, copy, i,               \* the accepting thread, its copy of the slots, its index
  sim, index, clientSocket    \* the simulation thread, the slot and socket of its call

server == <<listening, clientSockets, runAcceptingThread, tcpipLock>>
thread == <<acc, copy, i>>
call == <<sim, index, clientSocket>>
vars == <<backlog, connection, nonblocking, server, thread, call>>

Slots == 1 .. maxClients
NoClients == [s \in Slots |-> Invalid]

TypeOK ==
  /\ backlog \in Seq(Clients)
  /\ connection \in [Clients -> {"none", "waiting", "open", "gone", "closed"}]
  /\ nonblocking \in BOOLEAN /\ listening \in BOOLEAN /\ runAcceptingThread \in BOOLEAN
  /\ clientSockets \in [Slots -> Clients \cup {Invalid}]
  /\ copy \in [Slots -> Clients \cup {Invalid}]
  /\ tcpipLock \in {"none", "free", "acc", "deleted"}
  /\ acc \in {"none", "test", "copy", "scan", "accept", "store", "done"}
  /\ i \in 1 .. maxClients + 1 /\ index \in Slots
  /\ sim \in {"new", "idle", "call", "drop", "close", "join", "destroyed", "error"}
  /\ clientSocket \in Clients \cup {Invalid}

Init ==
  /\ backlog = <<>> /\ connection = [c \in Clients |-> "none"]
  /\ nonblocking \in BOOLEAN /\ listening = FALSE
  /\ clientSockets = NoClients /\ runAcceptingThread = TRUE /\ tcpipLock = "none"
  /\ acc = "none" /\ copy = NoClients /\ i = 1
  /\ sim = "new" /\ index = 1 /\ clientSocket = Invalid

Running == sim # "error"

ClientConnects(c) ==
  /\ Running /\ listening /\ connection[c] = "none"
  /\ connection' = [connection EXCEPT ![c] = "waiting"]
  /\ backlog' = Append(backlog, c)
  /\ UNCHANGED <<nonblocking, server, thread, call>>

\* It closes or resets the connection.
ClientLeaves(c) ==
  /\ Running /\ connection[c] = "open"
  /\ connection' = [connection EXCEPT ![c] = "gone"]
  /\ UNCHANGED <<backlog, nonblocking, server, thread, call>>

----------------------------------------------------------------------------
(* MDD_TCPIPServer_acceptingThread *)

AccTest ==
  /\ Running /\ acc = "test"
  /\ acc' = IF runAcceptingThread THEN "copy" ELSE "done"
  /\ UNCHANGED <<backlog, connection, nonblocking, server, copy, i, call>>

AccCopy ==
  /\ Running /\ acc = "copy" /\ tcpipLock = "free"
  /\ copy' = clientSockets /\ i' = 1 /\ acc' = "scan"
  /\ UNCHANGED <<backlog, connection, nonblocking, server, call>>

AccScanAnySlot ==
  /\ Running /\ acc = "scan"
  /\ \/ i > maxClients /\ acc' = "test" /\ i' = 1 /\ copy' = NoClients
     \/ i <= maxClients /\ acc' = "accept" /\ UNCHANGED <<copy, i>>
  /\ UNCHANGED <<backlog, connection, nonblocking, server, call>>

AccScan ==
  /\ Running /\ acc = "scan"
  /\ \/ i > maxClients /\ acc' = "test" /\ i' = 1 /\ copy' = NoClients
     \/ i <= maxClients /\ ~runAcceptingThread /\ acc' = "done" /\ UNCHANGED <<copy, i>>
     \/ /\ i <= maxClients /\ runAcceptingThread /\ UNCHANGED copy
        /\ IF copy[i] = Invalid THEN acc' = "accept" /\ UNCHANGED i
                                ELSE i' = i + 1 /\ UNCHANGED acc
  /\ UNCHANGED <<backlog, connection, nonblocking, server, call>>

AccAccept ==
  /\ Running /\ acc = "accept"
  /\ listening /\ backlog # <<>>
  /\ backlog' = Tail(backlog)
  /\ connection' = [connection EXCEPT ![Head(backlog)] = "open"]
  /\ copy' = [copy EXCEPT ![i] = Head(backlog)]
  /\ acc' = "store"
  /\ UNCHANGED <<nonblocking, server, i, call>>

\* A server in non-blocking mode tries again while it is to run.
AccNobody ==
  /\ Running /\ acc = "accept"
  /\ nonblocking /\ listening /\ backlog = <<>>
  /\ acc' = IF runAcceptingThread THEN "accept" ELSE "done"
  /\ UNCHANGED <<backlog, connection, nonblocking, server, copy, i, call>>

\* The destructor closed the socket, or accept fails: the thread closes it and ends.
AccFails ==
  /\ Running /\ acc = "accept"
  /\ listening' = FALSE /\ acc' = "done"
  /\ UNCHANGED <<backlog, connection, nonblocking, clientSockets, runAcceptingThread,
                 tcpipLock, copy, i, call>>

AccStore ==
  /\ Running /\ acc = "store" /\ tcpipLock = "free"
  /\ clientSockets' = [clientSockets EXCEPT ![i] = copy[i]]
  /\ i' = i + 1 /\ acc' = "scan"
  /\ UNCHANGED <<backlog, connection, nonblocking, listening, runAcceptingThread, tcpipLock,
                 copy, call>>

----------------------------------------------------------------------------
(* The simulation thread *)

\* MDD_TCPIPServer_Constructor
Construct ==
  /\ sim = "new" /\ sim' = "idle"
  /\ listening' = TRUE /\ tcpipLock' = "free" /\ acc' = "test"
  /\ UNCHANGED <<backlog, connection, nonblocking, clientSockets, runAcceptingThread, copy, i,
                 index, clientSocket>>

\* Each of its steps may fail, with the destructor and an error.
ConstructFails ==
  /\ sim = "new" /\ sim' = "error"
  /\ runAcceptingThread' = FALSE
  /\ UNCHANGED <<backlog, connection, nonblocking, listening, clientSockets, tcpipLock, thread,
                 index, clientSocket>>

\* MDD_TCPIPServer_Read, ReadP and Send take the socket of the slot without the lock; a
\* free slot is skipped.
Begin(s) ==
  /\ sim = "idle" /\ clientSockets[s] # Invalid
  /\ sim' = "call" /\ index' = s /\ clientSocket' = clientSockets[s]
  /\ UNCHANGED <<backlog, connection, nonblocking, server, thread>>

Return(to) ==
  /\ sim' = to /\ index' = 1 /\ clientSocket' = Invalid
  /\ UNCHANGED <<backlog, connection, nonblocking, server, thread>>

\* Data goes either way, or the call would block.
Transfer == sim = "call" /\ (connection[clientSocket] = "open" \/ nonblocking) /\ Return("idle")

\* recv or send fails in another way, or the message is too long for the packager.
TransferFails == sim = "call" /\ Return("error")

\* No more bytes, WSAECONNRESET or WSAESHUTDOWN
PeerGone ==
  /\ sim = "call" /\ connection[clientSocket] = "gone"
  /\ sim' = "drop"
  /\ UNCHANGED <<backlog, connection, nonblocking, server, thread, index, clientSocket>>

Closed(c) == IF c = Invalid THEN connection ELSE [connection EXCEPT ![c] = "closed"]

\* What is in the slot now is closed, under the lock.
Drop ==
  /\ sim = "drop" /\ tcpipLock = "free"
  /\ connection' = Closed(clientSockets[index])
  /\ clientSockets' = [clientSockets EXCEPT ![index] = Invalid]
  /\ sim' = "idle" /\ index' = 1 /\ clientSocket' = Invalid
  /\ UNCHANGED <<backlog, nonblocking, listening, runAcceptingThread, tcpipLock, thread>>

\* MDD_TCPIPServer_Destructor: the slots one after the other, without the lock
Destroy ==
  /\ sim = "idle" /\ sim' = "close"
  /\ runAcceptingThread' = FALSE
  /\ UNCHANGED <<backlog, connection, nonblocking, listening, clientSockets, tcpipLock,
                 thread, index, clientSocket>>

CloseSlot ==
  /\ sim = "close"
  /\ connection' = Closed(clientSockets[index])
  /\ IF index < maxClients
     THEN index' = index + 1 /\ UNCHANGED <<sim, listening>>
     ELSE index' = 1 /\ sim' = "join" /\ listening' = FALSE
  /\ UNCHANGED <<backlog, nonblocking, clientSockets, runAcceptingThread, tcpipLock, thread,
                 clientSocket>>

\* The thread ends within a second, or is terminated wherever it is; the slots are freed.
Join ==
  /\ sim = "join" /\ sim' = "destroyed"
  /\ acc' = "done" /\ tcpipLock' = "deleted"
  /\ clientSockets' = NoClients
  /\ UNCHANGED <<backlog, connection, nonblocking, listening, runAcceptingThread, copy, i,
                 index, clientSocket>>

Ended == sim \in {"destroyed", "error"} /\ UNCHANGED vars

Next ==
  \/ \E c \in Clients : ClientConnects(c) \/ ClientLeaves(c)
  \/ AccTest \/ AccCopy \/ AccScan \/ AccAccept \/ AccNobody \/ AccFails \/ AccStore
  \/ Construct \/ ConstructFails
  \/ \E s \in Slots : Begin(s)
  \/ Transfer \/ TransferFails \/ PeerGone \/ Drop
  \/ Destroy \/ CloseSlot \/ Join \/ Ended

Spec == Init /\ [][Next]_vars

----------------------------------------------------------------------------
(* Properties *)

Accepted == {c \in Clients : connection[c] \in {"open", "gone"}}
Served(c) == Cardinality({s \in Slots : clientSockets[s] = c})
             + (IF acc = "store" /\ copy[i] = c THEN 1 ELSE 0)

\* Every accepted client is in one slot, or in the hand of the accepting thread, although
\* the thread decides on a copy (61-63) and the simulation frees slots meanwhile; a call
\* that gives up its client closes this one and no other; the destructor leaves at most the
\* one open that was accepted while it was at work (220-225).
NoLostConnection ==
  /\ Running /\ sim # "destroyed" => \A c \in Accepted : Served(c) = 1
  /\ sim = "drop" => clientSockets[index] = clientSocket
  /\ sim = "destroyed" => Cardinality(Accepted) <= 1
=============================================================================
