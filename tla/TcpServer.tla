------------------------------ MODULE TcpServer ------------------------------
(***************************************************************************)
(* The Linux half of MDDTCPIPSocketServer.h: a listening socket and an     *)
(* array of slots for client sockets.  The accepting thread fills slots    *)
(* that are free; the simulation thread reads from and sends to the client *)
(* in a slot, and frees the slot when the client has gone.                 *)
(*                                                                         *)
(* A connection is a number, in the order in which clients connected; a    *)
(* slot holds the number of its connection, or Free (-1 in the code).      *)
(* What is read and sent is left out; whether a call must wait is not.     *)
(* ModelicaFormatError does not return: the simulation stops.              *)
(***************************************************************************)
EXTENDS Integers, Sequences, FiniteSets, Functions

CONSTANTS
  MaxClients,       \* maxClients of the constructor
  MaxConnections,   \* bound: clients that connect in a behaviour
  Inherits          \* does a socket from accept() inherit O_NONBLOCK?

ASSUME ServerAssumption ==
  /\ MaxClients \in Nat \ {0}
  /\ MaxConnections \in Nat
  /\ Inherits \subseteq BOOLEAN

VARIABLES
  \* the object MDDTCPIPServer_s, and useNonblockingMode
  clientSockets, runAcceptingThread, tcpipLock, listening, nonblocking,
  \* the accepting thread: control point, index i, its copy of the slots
  acc, i, copied,
  \* the simulation thread: control point, client index and socket of its call
  sim, index, socket,
  \* the network: how many clients connected, those waiting to be accepted,
  \* the client's side of each connection
  connected, backlog, peer,
  \* connections whose socket is open in this process
  open,
  \* the system's choice from Inherits
  inherits

server == <<clientSockets, runAcceptingThread, tcpipLock, listening, nonblocking>>
thread == <<acc, i, copied>>
caller == <<sim, index, socket>>
network == <<connected, backlog, peer>>
vars == <<server, thread, caller, network, open, inherits>>

Free == 0
Nobody == "nobody"
Slots == 0 .. MaxClients - 1
Connections == 1 .. MaxConnections

(* What the thread finds when it reads its copy one element behind the     *)
(* end.  The element is undefined; with the allocator of glibc it is a     *)
(* cleared word or part of a chunk's size, never -1.                       *)
Behind == -1

TypeOK ==
  /\ clientSockets \in [Slots -> Connections \cup {Free}]
  /\ runAcceptingThread \in BOOLEAN
  /\ tcpipLock \in {Nobody, "sim"}
  /\ listening \in BOOLEAN
  /\ nonblocking \in BOOLEAN
  /\ acc \in {"none", "test", "copy", "scan", "accept", "store", "failed", "done"}
  /\ i \in -1 .. MaxClients
  /\ copied \in [0 .. MaxClients -> Connections \cup {Free, Behind}]
  /\ sim \in {"new", "idle", "recv", "send", "drop", "reset",
              "close", "shut", "join", "destroyed", "error"}
  /\ index \in 0 .. MaxClients
  /\ socket \in Connections \cup {Free}
  /\ connected \in 0 .. MaxConnections
  /\ backlog \in Seq(Connections)
  /\ peer \in [Connections -> {"open", "closed", "reset"}]
  /\ open \subseteq Connections
  /\ inherits \in BOOLEAN

Init ==
  /\ clientSockets = [k \in Slots |-> Free]
  /\ runAcceptingThread = FALSE
  /\ tcpipLock = Nobody
  /\ listening = FALSE
  /\ nonblocking = FALSE
  /\ acc = "none"
  /\ i = -1
  /\ copied = [k \in 0 .. MaxClients |-> IF k \in Slots THEN Free ELSE Behind]
  /\ sim = "new"
  /\ index = 0
  /\ socket = Free
  /\ connected = 0
  /\ backlog = <<>>
  /\ peer = [c \in Connections |-> "open"]
  /\ open = {}
  /\ inherits \in Inherits

Running == sim # "error"

----------------------------------------------------------------------------
(* The clients *)

Connect ==
  /\ Running /\ listening
  /\ connected < MaxConnections
  /\ connected' = connected + 1
  /\ backlog' = Append(backlog, connected + 1)
  /\ UNCHANGED <<server, thread, caller, peer, open, inherits>>

\* A client closes its end of the connection, or resets the connection.
ClientLeaves(c) ==
  /\ Running /\ c <= connected /\ peer[c] = "open"
  /\ \E how \in {"closed", "reset"} : peer' = [peer EXCEPT ![c] = how]
  /\ UNCHANGED <<server, thread, caller, connected, backlog, open, inherits>>

----------------------------------------------------------------------------
(* MDD_TCPIPServer_acceptingThread *)

AccTestPastEnd ==
  /\ Running /\ acc = "test"
  /\ IF runAcceptingThread
     THEN acc' = "copy" /\ i' = (IF i <= MaxClients THEN i + 1 ELSE 0)
     ELSE acc' = "done" /\ UNCHANGED i
  /\ UNCHANGED <<server, copied, caller, network, open, inherits>>

\* The next index; behind the last slot the thread pauses and starts again.
AccTest ==
  /\ Running /\ acc = "test"
  /\ IF runAcceptingThread
     THEN acc' = "copy" /\ i' = (IF i < MaxClients THEN i + 1 ELSE 0)
     ELSE acc' = "done" /\ UNCHANGED i
  /\ UNCHANGED <<server, copied, caller, network, open, inherits>>

\* Under the lock, copy all slots; the element behind them is not written.
AccCopy ==
  /\ Running /\ acc = "copy"
  /\ tcpipLock = Nobody
  /\ copied' = [k \in DOMAIN copied |-> IF k \in Slots THEN clientSockets[k] ELSE copied[k]]
  /\ acc' = "scan"
  /\ UNCHANGED <<server, i, caller, network, open, inherits>>

AccScanAnySlot ==
  /\ Running /\ acc = "scan"
  /\ acc' = IF ~runAcceptingThread THEN "test"
            ELSE IF listening /\ backlog # <<>> THEN "accept" ELSE "test"
  /\ UNCHANGED <<server, i, copied, caller, network, open, inherits>>

AccScanUntilClient ==
  /\ Running /\ acc = "scan"
  /\ acc' = IF copied[i] # Free THEN "test"
            ELSE IF listening /\ backlog # <<>> THEN "accept" ELSE "scan"
  /\ UNCHANGED <<server, i, copied, caller, network, open, inherits>>

(* While slot i was free in the copy, poll for 100 ms: no client comes, or *)
(* the socket has been closed (POLLNVAL), or a client waits.               *)
AccScan ==
  /\ Running /\ acc = "scan"
  /\ acc' = IF ~runAcceptingThread \/ copied[i] # Free THEN "test"
            ELSE IF listening /\ backlog # <<>> THEN "accept" ELSE "scan"
  /\ UNCHANGED <<server, i, copied, caller, network, open, inherits>>

AccAccept ==
  /\ Running /\ acc = "accept" /\ listening
  /\ copied' = [copied EXCEPT ![i] = Head(backlog)]
  /\ open' = open \cup {Head(backlog)}
  /\ backlog' = Tail(backlog)
  /\ acc' = "store"
  /\ UNCHANGED <<server, i, caller, connected, peer, inherits>>

(* The destructor has closed the socket since poll returned, and something *)
(* else got its descriptor (ENOTSOCK): back to polling.  EAGAIN, handled   *)
(* alike, does not occur: nobody else takes clients from the queue.        *)
AccNoSocket ==
  /\ Running /\ acc = "accept" /\ ~listening
  /\ acc' = "scan"
  /\ UNCHANGED <<server, i, copied, caller, network, open, inherits>>

\* accept() fails: for lack of descriptors, or as its socket is closed (EBADF).
AccAcceptFails ==
  /\ Running /\ acc = "accept"
  /\ acc' = "failed"
  /\ sim' = "error"
  /\ UNCHANGED <<server, i, copied, index, socket, network, open, inherits>>

AccStoreNext ==
  /\ Running /\ acc = "store"
  /\ tcpipLock = Nobody
  /\ clientSockets' = [clientSockets EXCEPT ![(i + 1) % MaxClients] = copied[i]]
  /\ acc' = "scan"
  /\ UNCHANGED <<runAcceptingThread, tcpipLock, listening, nonblocking, i, copied,
                 caller, network, open, inherits>>

AccStore ==
  /\ Running /\ acc = "store"
  /\ tcpipLock = Nobody
  /\ clientSockets' = [clientSockets EXCEPT ![i] = copied[i]]
  /\ acc' = "scan"
  /\ UNCHANGED <<runAcceptingThread, tcpipLock, listening, nonblocking, i, copied,
                 caller, network, open, inherits>>

Acc == AccTest \/ AccCopy \/ AccScan \/ AccAccept \/ AccNoSocket \/ AccAcceptFails \/ AccStore

----------------------------------------------------------------------------
(* MDD_TCPIPServer_Constructor *)

Construct ==
  /\ sim = "new"
  /\ nonblocking' \in BOOLEAN
  /\ listening' = TRUE
  /\ runAcceptingThread' = TRUE
  /\ acc' = "test"
  /\ sim' = "idle"
  /\ UNCHANGED <<clientSockets, tcpipLock, i, copied, index, socket, network, open, inherits>>

\* The address is in use, the port too large, no thread can be created, ...
ConstructFails ==
  /\ sim = "new"
  /\ sim' = "error"
  /\ UNCHANGED <<server, thread, index, socket, network, open, inherits>>

----------------------------------------------------------------------------
(* MDD_TCPIPServer_ReadP, MDD_TCPIPServer_Read and MDD_TCPIPServer_Send:   *)
(* the socket is read from its slot without the lock; a slot that is free  *)
(* is skipped.                                                             *)

Begin(call, k) ==
  /\ sim = "idle"
  /\ IF clientSockets[k] = Free
     THEN UNCHANGED caller
     ELSE sim' = call /\ index' = k /\ socket' = clientSockets[k]
  /\ UNCHANGED <<server, thread, network, open, inherits>>

\* The call returns, and its index and socket are gone.
Return == sim' = "idle" /\ index' = 0 /\ socket' = Free

\* O_NONBLOCK was set for the listening socket only.
NeverBlocks == nonblocking /\ inherits

\* The call succeeds, once the peer has sent something or made room.
Transfer ==
  /\ sim \in {"recv", "send"}
  /\ peer[socket] # "reset"
  /\ Return
  /\ UNCHANGED <<server, thread, network, open, inherits>>

\* EAGAIN: "just skip and check at next sample point".
WouldBlock ==
  /\ sim \in {"recv", "send"}
  /\ NeverBlocks
  /\ peer[socket] # "reset"
  /\ Return
  /\ UNCHANGED <<server, thread, network, open, inherits>>

\* recv() finds the end of what the client sent, or ECONNRESET; send() ECONNRESET.
PeerGone ==
  /\ \/ sim = "recv" /\ peer[socket] # "open"
     \/ sim = "send" /\ peer[socket] = "reset"
  /\ sim' = "drop"
  /\ UNCHANGED <<server, thread, index, socket, network, open, inherits>>

\* recv() fails with another error.
ReadFails ==
  /\ sim = "recv"
  /\ sim' = "error"
  /\ UNCHANGED <<server, thread, index, socket, network, open, inherits>>

\* send() fails with another error: the socket is closed, its slot is kept.
SendFails ==
  /\ sim = "send"
  /\ open' = open \ {clientSockets[index]}
  /\ sim' = "error"
  /\ UNCHANGED <<server, thread, index, socket, network, inherits>>

\* Lock, and close the socket that is in the slot now.
Drop ==
  /\ sim = "drop"
  /\ tcpipLock = Nobody
  /\ tcpipLock' = "sim"
  /\ open' = open \ {clientSockets[index]}
  /\ sim' = "reset"
  /\ UNCHANGED <<clientSockets, runAcceptingThread, listening, nonblocking, thread,
                 index, socket, network, inherits>>

ResetKeepsLock ==
  /\ sim = "reset"
  /\ clientSockets' = [clientSockets EXCEPT ![index] = Free]
  /\ Return
  /\ UNCHANGED <<runAcceptingThread, tcpipLock, listening, nonblocking, thread,
                 network, open, inherits>>

\* The slot is free again; unlock.
Reset ==
  /\ sim = "reset"
  /\ clientSockets' = [clientSockets EXCEPT ![index] = Free]
  /\ tcpipLock' = Nobody
  /\ Return
  /\ UNCHANGED <<runAcceptingThread, listening, nonblocking, thread,
                 network, open, inherits>>

----------------------------------------------------------------------------
(* MDD_TCPIPServer_Destructor *)

Destroy ==
  /\ sim = "idle"
  /\ runAcceptingThread' = FALSE
  /\ index' = 0
  /\ sim' = "close"
  /\ UNCHANGED <<clientSockets, tcpipLock, listening, nonblocking, thread,
                 socket, network, open, inherits>>

CloseSlotButLast ==
  /\ sim = "close"
  /\ IF index < MaxClients - 1
     THEN /\ open' = open \ {clientSockets[index]}
          /\ index' = index + 1
          /\ UNCHANGED sim
     ELSE sim' = "shut" /\ UNCHANGED <<index, open>>
  /\ UNCHANGED <<server, thread, socket, network, inherits>>

\* Close the clients' sockets, without the lock; the slots keep their values.
CloseSlot ==
  /\ sim = "close"
  /\ IF index < MaxClients
     THEN /\ open' = open \ {clientSockets[index]}
          /\ index' = index + 1
          /\ UNCHANGED sim
     ELSE sim' = "shut" /\ UNCHANGED <<index, open>>
  /\ UNCHANGED <<server, thread, socket, network, inherits>>

\* Close the listening socket: the clients in its queue are never accepted.
Shut ==
  /\ sim = "shut"
  /\ listening' = FALSE
  /\ sim' = "join"
  /\ UNCHANGED <<clientSockets, runAcceptingThread, tcpipLock, nonblocking, thread,
                 index, socket, network, open, inherits>>

\* pthread_join returns when the thread has ended; then all memory is freed.
Join ==
  /\ sim = "join"
  /\ acc = "done"
  /\ sim' = "destroyed"
  /\ UNCHANGED <<server, thread, index, socket, network, open, inherits>>

Ended == sim \in {"destroyed", "error"} /\ UNCHANGED vars

\* The steps of a call that do not wait for a client.
Within == WouldBlock \/ PeerGone \/ Drop \/ Reset \/ CloseSlot \/ Shut \/ Join

Next ==
  \/ Connect \/ \E c \in Connections : ClientLeaves(c)
  \/ Acc
  \/ Construct \/ ConstructFails
  \/ \E call \in {"recv", "send"}, k \in Slots : Begin(call, k)
  \/ Transfer \/ ReadFails \/ SendFails \/ Destroy
  \/ Within
  \/ Ended

Spec == Init /\ [][Next]_vars

\* The system schedules both threads; no client owes the server anything.
FairSpec == Spec /\ WF_vars(Acc) /\ WF_vars(Within)

----------------------------------------------------------------------------
(* Properties *)

Serving == sim \in {"idle", "recv", "send", "drop", "reset"}
InSlots == Range(clientSockets) \ {Free}
InHand == IF acc = "store" THEN {copied[i]} ELSE {}

\* The slots, with the connection in hand in the slot it is accepted for.
Held == [k \in Slots |-> IF acc = "store" /\ k = i THEN copied[i] ELSE clientSockets[k]]

(* While the server serves, the open connections are those in the slots,   *)
(* but for the one whose slot is being reset, and the one the thread is    *)
(* about to store, and none is in two of these places: no accepted client  *)
(* is overwritten, dropped or closed twice, though the thread works from a *)
(* copy of the slots that it made some time before it stores.              *)
NoLostConnection ==
  Serving =>
    /\ open = (InSlots \cup InHand) \ (IF sim = "reset" THEN {clientSockets[index]} ELSE {})
    /\ InSlots \cap InHand = {}
    /\ \A k, l \in Slots : clientSockets[k] = clientSockets[l] /\ k # l
                             => clientSockets[k] = Free

(* The socket a call read from its slot without the lock is still the one  *)
(* in the slot, and open, when the call uses it, and when it closes the    *)
(* one in the slot instead.                                                *)
CallUsesItsClient ==
  sim \in {"recv", "send", "drop"} => socket \in open /\ clientSockets[index] = socket

(* The destructor closes the slots without the lock, while the thread may  *)
(* still store a client behind it: at most that one socket is left open.   *)
AtMostOneLeft == sim = "destroyed" => Cardinality(open) <= 1

(* A client that is first in the queue when there is a free slot is        *)
(* accepted, or the server ends.                                           *)
FreeSlotServes ==
  \A c \in Connections :
    (backlog # <<>> /\ Head(backlog) = c /\ Free \in Range(Held))
      ~> (backlog = <<>> \/ Head(backlog) # c \/ ~Serving)

(* The destructor returns: the accepting thread ends within bounded time.  *)
DestructorReturns == sim = "close" ~> sim \in {"destroyed", "error"}

(* The array of clients has the dimension maxClients (the comment at its   *)
(* declaration): the thread looks at no slot behind the last.              *)
SlotInBounds == acc \in {"scan", "accept", "store"} => i \in Slots

(* In non-blocking mode neither receiving nor sending waits for the client *)
(* (the comments of the constructor and of Send, and the Modelica class).  *)
NonblockingReturns ==
  (nonblocking /\ sim \in {"recv", "send"}) ~> sim \in {"idle", "drop", "error"}

----------------------------------------------------------------------------
(* The inductive invariant behind NoLostConnection, CallUsesItsClient and  *)
(* AtMostOneLeft                                                           *)

Closing == {"close", "shut", "join", "destroyed"}

\* Where the simulation is, and what that says of the object and of the thread.
ControlInv ==
  /\ sim = "new" => acc = "none" /\ open = {} /\ InSlots = {}
  /\ sim \in Closing => ~runAcceptingThread
  /\ sim \in {"shut", "join", "destroyed"} => index = MaxClients
  /\ sim = "reset" => tcpipLock = "sim"
  /\ sim \in {"recv", "send", "drop", "reset"} => index \in Slots /\ clientSockets[index] # Free

\* Only the thread fills slots: a slot it found free is free until it stores a client.
ThreadInv ==
  /\ copied[MaxClients] = Behind
  /\ acc \in {"copy", "scan"} => i >= 0
  /\ acc = "scan" /\ copied[i] = Free => clientSockets[i] = Free
  /\ acc \in {"accept", "store"} => i \in Slots /\ clientSockets[i] = Free
  /\ acc = "store" => copied[i] \in Connections

\* Clients wait in the order of connecting, behind all that have been accepted.
Accepted == connected - Len(backlog)
QueueInv ==
  /\ Len(backlog) <= connected
  /\ \A j \in 1 .. Len(backlog) : backlog[j] = Accepted + j
  /\ acc = "accept" => backlog # <<>>
  /\ \A c \in InSlots \cup InHand : c <= Accepted

\* What the destructor will not close: once the run flag is cleared, the thread accepts
\* at most the client it has already seen waiting.
Left == open \ {clientSockets[k] : k \in index .. MaxClients - 1}
LeftInv ==
  sim \in Closing =>
    /\ \E c \in Connections \cup {Free} : Left \subseteq {c}
    /\ acc = "accept" => Left = {}
    /\ acc = "store" => Left \subseteq {copied[i]}

IInv ==
  /\ TypeOK
  /\ ControlInv
  /\ ThreadInv
  /\ QueueInv
  /\ NoLostConnection
  /\ CallUsesItsClient
  /\ LeftInv

----------------------------------------------------------------------------
(* The slots of the server are a pool of connections; a client is in its   *)
(* slot as soon as accept() has returned it.                               *)
Pool == INSTANCE ConnectionPool WITH
  slot <- Held,
  waiting <- Len(backlog),
  accepted <- connected - Len(backlog)

ImplementsPool == Pool!Spec
=============================================================================
