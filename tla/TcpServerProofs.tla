--------------------------- MODULE TcpServerProofs ---------------------------
(***************************************************************************)
(* Proofs about the TCP/IP server, for any number of slots and clients.    *)
(***************************************************************************)
EXTENDS TcpServer, FiniteSetTheorems, TLAPS

----------------------------------------------------------------------------
(* The connections in an array of slots *)

\* The connections in use in an array of slots; none of them is in two slots.
InUse(s) == Range(s) \ {Free}
Distinct(s) == \A j, l \in Slots : s[j] = s[l] /\ j # l => s[j] = Free

\* Filling a free slot adds a connection, and the connections stay distinct.
LEMMA SlotFilled ==
  ASSUME NEW s, s \in [Slots -> Connections \cup {Free}],
         NEW k \in Slots, s[k] = Free, NEW c \in Connections, c \notin Range(s),
         Distinct(s),
         NEW t, t = [s EXCEPT ![k] = c]
  PROVE  /\ InUse(t) = InUse(s) \cup {c}
         /\ Distinct(t)
<1>1. c # Free
  BY ServerAssumption DEF Connections, Free
<1>2. Range(t) \ {Free} \subseteq (Range(s) \ {Free}) \cup {c}
  BY DEF Range
<1>3. ASSUME NEW x \in Range(s) \ {Free}  PROVE x \in Range(t)
  <2>1. PICK j \in Slots : s[j] = x
    BY DEF Range
  <2>2. t[j] = x /\ j \in DOMAIN t
    BY <2>1
  <2>3. QED  BY <2>2 DEF Range
<1>4. c \in Range(t)
  <2>1. t[k] = c /\ k \in DOMAIN t
    OBVIOUS
  <2>2. QED  BY <2>1 DEF Range
<1>5. ASSUME NEW j \in Slots, NEW l \in Slots, t[j] = t[l], j # l  PROVE t[j] = Free
  <2>1. s[j] \in Range(s) /\ s[l] \in Range(s)
    BY DEF Range
  <2>2. j # k /\ l # k
    BY <1>5, <2>1
  <2>3. QED  BY <1>5, <2>2 DEF Distinct
<1>6. InUse(t) = InUse(s) \cup {c}
  BY <1>1, <1>2, <1>3, <1>4 DEF InUse
<1>7. QED  BY <1>5, <1>6 DEF Distinct

\* Freeing a slot removes its connection, and the connections stay distinct.
LEMMA SlotFreed ==
  ASSUME NEW s, s \in [Slots -> Connections \cup {Free}],
         NEW k \in Slots, s[k] # Free,
         Distinct(s),
         NEW t, t = [s EXCEPT ![k] = Free]
  PROVE  /\ InUse(t) = InUse(s) \ {s[k]}
         /\ Distinct(t)
<1>1. ASSUME NEW x \in Range(t) \ {Free}  PROVE x \in (Range(s) \ {Free}) \ {s[k]}
  <2>1. PICK j \in Slots : t[j] = x
    BY DEF Range
  <2>2. j # k /\ s[j] = x
    BY <2>1, <1>1
  <2>3. s[j] \in Range(s)
    BY DEF Range
  <2>4. QED  BY <1>1, <2>2, <2>3 DEF Distinct
<1>2. ASSUME NEW x \in (Range(s) \ {Free}) \ {s[k]}  PROVE x \in Range(t)
  <2>1. PICK j \in Slots : s[j] = x
    BY DEF Range
  <2>2. t[j] = x /\ j \in DOMAIN t
    BY <2>1, <1>2
  <2>3. QED  BY <2>2 DEF Range
<1>3. Distinct(t)
  BY DEF Distinct
<1>4. QED  BY <1>1, <1>2, <1>3 DEF InUse

----------------------------------------------------------------------------
(* One lemma per part of the invariant *)

\* Every variable keeps its type.
LEMMA TypeStep == TypeOK /\ ThreadInv /\ QueueInv /\ [Next]_vars => TypeOK'
<1> SUFFICES ASSUME TypeOK, ThreadInv, QueueInv, [Next]_vars  PROVE TypeOK'
  OBVIOUS
<1> USE ServerAssumption DEF TypeOK, vars, server, thread, caller, network
<1>1. CASE Connect
  <2>1. connected + 1 \in Connections
    BY <1>1 DEF Connect, Connections
  <2>2. backlog' \in Seq(Connections)
    BY <1>1, <2>1 DEF Connect
  <2>3. QED  BY <1>1, <2>2 DEF Connect
<1>2. CASE \E c \in Connections : ClientLeaves(c)
  BY <1>2 DEF ClientLeaves
<1>3. CASE AccTest
  BY <1>3 DEF AccTest
<1>4. CASE AccCopy
  BY <1>4 DEF AccCopy
<1>5. CASE AccScan
  BY <1>5 DEF AccScan
<1>6. CASE AccAccept
  <2>1. backlog # <<>>
    BY <1>6 DEF AccAccept, QueueInv
  <2>2. Head(backlog) \in Connections /\ Tail(backlog) \in Seq(Connections)
    BY <2>1
  <2>3. QED  BY <1>6, <2>2 DEF AccAccept
<1>7. CASE AccNoSocket
  BY <1>7 DEF AccNoSocket
<1>8. CASE AccAcceptFails
  BY <1>8 DEF AccAcceptFails
<1>9. CASE AccStore
  BY <1>9 DEF AccStore, ThreadInv
<1>10. CASE Construct
  BY <1>10 DEF Construct
<1>11. CASE ConstructFails
  BY <1>11 DEF ConstructFails
<1>12. CASE \E call \in {"recv", "send"}, k \in Slots : Begin(call, k)
  <2>1. PICK call \in {"recv", "send"}, k \in Slots : Begin(call, k)
    BY <1>12
  <2>2. k \in 0 .. MaxClients
    BY DEF Slots
  <2>3. QED  BY <2>1, <2>2 DEF Begin
<1>13. CASE Transfer
  BY <1>13 DEF Transfer, Return
<1>14. CASE ReadFails
  BY <1>14 DEF ReadFails
<1>15. CASE SendFails
  BY <1>15 DEF SendFails
<1>16. CASE Destroy
  <2>1. index' \in 0 .. MaxClients
    BY <1>16 DEF Destroy
  <2>2. QED  BY <1>16, <2>1 DEF Destroy
<1>17. CASE WouldBlock
  BY <1>17 DEF WouldBlock, Return
<1>18. CASE PeerGone
  BY <1>18 DEF PeerGone
<1>19. CASE Drop
  BY <1>19 DEF Drop
<1>20. CASE Reset
  <2>1. clientSockets' \in [Slots -> Connections \cup {Free}]
    BY <1>20 DEF Reset
  <2>2. QED  BY <1>20, <2>1 DEF Reset, Return
<1>21. CASE CloseSlot
  BY <1>21 DEF CloseSlot
<1>22. CASE Shut
  BY <1>22 DEF Shut
<1>23. CASE Join
  BY <1>23 DEF Join
<1>24. CASE UNCHANGED vars
  BY <1>24
<1>25. QED
  BY <1>1, <1>2, <1>3, <1>4, <1>5, <1>6, <1>7, <1>8, <1>9, <1>10, <1>11,
     <1>12, <1>13, <1>14, <1>15, <1>16, <1>17, <1>18, <1>19, <1>20, <1>21,
     <1>22, <1>23, <1>24 DEF Next, Acc, Within, Ended

\* Control points agree with each other, the lock and the slots.
LEMMA ControlStep ==
  TypeOK /\ ControlInv /\ ThreadInv /\ [Next]_vars => ControlInv'
<1> SUFFICES ASSUME TypeOK, ControlInv, ThreadInv, [Next]_vars  PROVE ControlInv'
  OBVIOUS
<1> USE ServerAssumption DEF TypeOK, ControlInv, Closing, InSlots, Slots, Nobody,
                             vars, server, thread, caller, network
<1>1. CASE Connect
  BY <1>1 DEF Connect
<1>2. CASE \E c \in Connections : ClientLeaves(c)
  BY <1>2 DEF ClientLeaves
<1>3. CASE AccTest
  BY <1>3 DEF AccTest
<1>4. CASE AccCopy
  BY <1>4 DEF AccCopy
<1>5. CASE AccScan
  BY <1>5 DEF AccScan
<1>6. CASE AccAccept
  BY <1>6 DEF AccAccept
<1>7. CASE AccNoSocket
  BY <1>7 DEF AccNoSocket
<1>8. CASE AccAcceptFails
  BY <1>8 DEF AccAcceptFails
<1>9. CASE AccStore
  BY <1>9 DEF AccStore, ThreadInv
<1>10. CASE Construct
  BY <1>10 DEF Construct
<1>11. CASE ConstructFails
  BY <1>11 DEF ConstructFails
<1>12. CASE \E call \in {"recv", "send"}, k \in Slots : Begin(call, k)
  BY <1>12 DEF Begin
<1>13. CASE Transfer
  BY <1>13 DEF Transfer, Return
<1>14. CASE ReadFails
  BY <1>14 DEF ReadFails
<1>15. CASE SendFails
  BY <1>15 DEF SendFails
<1>16. CASE Destroy
  BY <1>16 DEF Destroy
<1>17. CASE WouldBlock
  BY <1>17 DEF WouldBlock, Return
<1>18. CASE PeerGone
  BY <1>18 DEF PeerGone
<1>19. CASE Drop
  BY <1>19 DEF Drop
<1>20. CASE Reset
  BY <1>20 DEF Reset, Return
<1>21. CASE CloseSlot
  BY <1>21 DEF CloseSlot
<1>22. CASE Shut
  BY <1>22 DEF Shut
<1>23. CASE Join
  BY <1>23 DEF Join
<1>24. CASE UNCHANGED vars
  BY <1>24
<1>25. QED
  BY <1>1, <1>2, <1>3, <1>4, <1>5, <1>6, <1>7, <1>8, <1>9, <1>10, <1>11,
     <1>12, <1>13, <1>14, <1>15, <1>16, <1>17, <1>18, <1>19, <1>20, <1>21,
     <1>22, <1>23, <1>24 DEF Next, Acc, Within, Ended

\* What the thread found free in its copy is free.
LEMMA ThreadStep ==
  TypeOK /\ ControlInv /\ ThreadInv /\ QueueInv /\ [Next]_vars => ThreadInv'
<1> SUFFICES ASSUME TypeOK, ControlInv, ThreadInv, QueueInv, [Next]_vars  PROVE ThreadInv'
  OBVIOUS
<1> USE ServerAssumption DEF TypeOK, ThreadInv, Slots, Connections, Free, Behind,
                             vars, server, thread, caller, network
<1>1. CASE Connect
  BY <1>1 DEF Connect
<1>2. CASE \E c \in Connections : ClientLeaves(c)
  BY <1>2 DEF ClientLeaves
<1>3. CASE AccTest
  BY <1>3 DEF AccTest
<1>4. CASE AccCopy
  BY <1>4 DEF AccCopy
<1>5. CASE AccScan
  BY <1>5 DEF AccScan
<1>6. CASE AccAccept
  <2>1. backlog # <<>>
    BY <1>6 DEF AccAccept, QueueInv
  <2>2. Head(backlog) \in Connections
    BY <2>1
  <2>3. QED  BY <1>6, <2>2 DEF AccAccept
<1>7. CASE AccNoSocket
  BY <1>7 DEF AccNoSocket
<1>8. CASE AccAcceptFails
  BY <1>8 DEF AccAcceptFails
<1>9. CASE AccStore
  BY <1>9 DEF AccStore
<1>10. CASE Construct
  BY <1>10 DEF Construct
<1>11. CASE ConstructFails
  BY <1>11 DEF ConstructFails
<1>12. CASE \E call \in {"recv", "send"}, k \in Slots : Begin(call, k)
  BY <1>12 DEF Begin
<1>13. CASE Transfer
  BY <1>13 DEF Transfer, Return
<1>14. CASE ReadFails
  BY <1>14 DEF ReadFails
<1>15. CASE SendFails
  BY <1>15 DEF SendFails
<1>16. CASE Destroy
  BY <1>16 DEF Destroy
<1>17. CASE WouldBlock
  BY <1>17 DEF WouldBlock, Return
<1>18. CASE PeerGone
  BY <1>18 DEF PeerGone
<1>19. CASE Drop
  BY <1>19 DEF Drop
<1>20. CASE Reset
  BY <1>20 DEF Reset, Return, ControlInv
<1>21. CASE CloseSlot
  BY <1>21 DEF CloseSlot
<1>22. CASE Shut
  BY <1>22 DEF Shut
<1>23. CASE Join
  BY <1>23 DEF Join
<1>24. CASE UNCHANGED vars
  BY <1>24
<1>25. QED
  BY <1>1, <1>2, <1>3, <1>4, <1>5, <1>6, <1>7, <1>8, <1>9, <1>10, <1>11,
     <1>12, <1>13, <1>14, <1>15, <1>16, <1>17, <1>18, <1>19, <1>20, <1>21,
     <1>22, <1>23, <1>24 DEF Next, Acc, Within, Ended

\* Clients are numbered in the order in which they wait.
LEMMA QueueStep ==
  TypeOK /\ ThreadInv /\ QueueInv /\ ControlInv /\ [Next]_vars => QueueInv'
<1> SUFFICES ASSUME TypeOK, ThreadInv, QueueInv, ControlInv, [Next]_vars  PROVE QueueInv'
  OBVIOUS
<1>0. connected \in Nat /\ Len(backlog) \in Nat /\ Accepted \in Nat
  BY ServerAssumption DEF TypeOK, QueueInv, Accepted
<1>a. \A c \in InSlots \cup InHand : c \in Int
  BY ServerAssumption DEF InSlots, InHand, Range, TypeOK, ThreadInv, Connections
<1> USE DEF vars, server, thread, caller, network
<1>1. CASE Connect
  <2>1. /\ connected' = connected + 1 /\ backlog' = Append(backlog, connected + 1)
        /\ InSlots' = InSlots /\ InHand' = InHand /\ acc' = acc
    BY <1>1 DEF Connect, InSlots, InHand
  <2>2. Len(backlog') = Len(backlog) + 1 /\ Accepted' = Accepted
    BY <1>0, <2>1 DEF TypeOK, Accepted
  <2>3. \A j \in 1 .. Len(backlog') : backlog'[j] = Accepted' + j
    <3>1. \A j \in 1 .. Len(backlog) : backlog'[j] = backlog[j]
      BY <2>1, ServerAssumption DEF TypeOK, Connections
    <3>2. backlog'[Len(backlog) + 1] = connected + 1
      BY <1>1, <2>1, ServerAssumption DEF Connect, TypeOK, Connections
    <3>3. Accepted' + (Len(backlog) + 1) = connected + 1
      BY <1>0, <2>2 DEF Accepted
    <3>4. \A j \in 1 .. Len(backlog') : j \in 1 .. Len(backlog) \/ j = Len(backlog) + 1
      BY <1>0, <2>2
    <3>5. QED  BY <2>2, <3>1, <3>2, <3>3, <3>4 DEF QueueInv
  <2>4. backlog' # <<>>
    BY <1>0, <2>2
  <2>5. QED  BY <1>0, <2>1, <2>2, <2>3, <2>4 DEF QueueInv
<1>2. CASE \E c \in Connections : ClientLeaves(c)
  BY <1>2 DEF ClientLeaves, QueueInv, Accepted, InSlots, InHand
<1>3. CASE AccTest
  BY <1>3 DEF AccTest, QueueInv, Accepted, InSlots, InHand
<1>4. CASE AccCopy
  BY <1>4 DEF AccCopy, QueueInv, Accepted, InSlots, InHand
<1>5. CASE AccScan
  <2>1. /\ InHand = {} /\ InHand' = {} /\ InSlots' = InSlots
        /\ backlog' = backlog /\ connected' = connected
    BY <1>5 DEF AccScan, InHand, InSlots
  <2>2. acc' = "accept" => backlog # <<>>
    BY <1>5 DEF AccScan
  <2>3. QED  BY <2>1, <2>2 DEF QueueInv, Accepted
<1>6. CASE AccAccept
  <2>1. /\ connected' = connected /\ backlog' = Tail(backlog) /\ backlog # <<>>
        /\ InSlots' = InSlots /\ acc' = "store" /\ i' = i
        /\ copied' = [copied EXCEPT ![i] = Head(backlog)]
    BY <1>6 DEF AccAccept, InSlots, QueueInv
  <2>2. /\ Len(backlog) > 0 /\ Len(backlog') = Len(backlog) - 1
        /\ \A j \in 1 .. Len(backlog') : backlog'[j] = backlog[j + 1]
        /\ Head(backlog) = backlog[1]
    BY <2>1 DEF TypeOK
  <2>3. Accepted' = Accepted + 1 /\ Len(backlog') <= connected'
    <3>1. connected' = connected
      BY <2>1
    <3>2. Len(backlog') = Len(backlog) - 1
      BY <2>2
    <3>3. QED  BY <1>0, <3>1, <3>2 DEF Accepted, QueueInv
  <2>4. \A j \in 1 .. Len(backlog') : backlog'[j] = Accepted' + j
    BY <1>0, <2>2, <2>3 DEF QueueInv
  <2>5. copied'[i'] = Accepted'
    <3>1. i \in DOMAIN copied
      BY <1>6, ServerAssumption DEF AccAccept, ThreadInv, TypeOK, Slots
    <3>2. backlog[1] = Accepted + 1
      BY <1>0, <2>2 DEF QueueInv
    <3>3. QED  BY <2>1, <2>2, <2>3, <3>1, <3>2
  <2>6. \A c \in (InSlots \cup InHand)' : c <= Accepted'
    BY <1>0, <1>a, <2>1, <2>3, <2>5 DEF QueueInv, InHand
  <2>7. QED  BY <2>1, <2>3, <2>4, <2>6 DEF QueueInv
<1>7. CASE AccNoSocket
  BY <1>7 DEF AccNoSocket, QueueInv, Accepted, InSlots, InHand
<1>8. CASE AccAcceptFails
  BY <1>8 DEF AccAcceptFails, QueueInv, Accepted, InSlots, InHand
<1>9. CASE AccStore
  <2>1. /\ backlog' = backlog /\ connected' = connected /\ acc' = "scan"
        /\ InSlots' \subseteq InSlots \cup {copied[i]} /\ InHand = {copied[i]}
    BY <1>9 DEF AccStore, InSlots, InHand, Range, TypeOK
  <2>2. InHand' = {}
    BY <2>1 DEF InHand
  <2>3. QED  BY <2>1, <2>2 DEF QueueInv, Accepted
<1>10. CASE Construct
  BY <1>10 DEF Construct, QueueInv, Accepted, InSlots, InHand
<1>11. CASE ConstructFails
  BY <1>11 DEF ConstructFails, QueueInv, Accepted, InSlots, InHand
<1>12. CASE \E call \in {"recv", "send"}, k \in Slots : Begin(call, k)
  BY <1>12 DEF Begin, QueueInv, Accepted, InSlots, InHand
<1>13. CASE Transfer
  BY <1>13 DEF Transfer, Return, QueueInv, Accepted, InSlots, InHand
<1>14. CASE ReadFails
  BY <1>14 DEF ReadFails, QueueInv, Accepted, InSlots, InHand
<1>15. CASE SendFails
  BY <1>15 DEF SendFails, QueueInv, Accepted, InSlots, InHand
<1>16. CASE Destroy
  BY <1>16 DEF Destroy, QueueInv, Accepted, InSlots, InHand
<1>17. CASE WouldBlock
  BY <1>17 DEF WouldBlock, Return, QueueInv, Accepted, InSlots, InHand
<1>18. CASE PeerGone
  BY <1>18 DEF PeerGone, QueueInv, Accepted, InSlots, InHand
<1>19. CASE Drop
  BY <1>19 DEF Drop, QueueInv, Accepted, InSlots, InHand
<1>20. CASE Reset
  <2>1. InSlots' \subseteq InSlots
    BY <1>20 DEF Reset, InSlots, Range, TypeOK
  <2>2. backlog' = backlog /\ connected' = connected /\ acc' = acc /\ InHand' = InHand
    BY <1>20 DEF Reset, InHand
  <2>3. QED  BY <2>1, <2>2 DEF QueueInv, Accepted
<1>21. CASE CloseSlot
  BY <1>21 DEF CloseSlot, QueueInv, Accepted, InSlots, InHand
<1>22. CASE Shut
  BY <1>22 DEF Shut, QueueInv, Accepted, InSlots, InHand
<1>23. CASE Join
  BY <1>23 DEF Join, QueueInv, Accepted, InSlots, InHand
<1>24. CASE UNCHANGED vars
  BY <1>24 DEF QueueInv, Accepted, InSlots, InHand
<1>25. QED
  BY <1>1, <1>2, <1>3, <1>4, <1>5, <1>6, <1>7, <1>8, <1>9, <1>10, <1>11,
     <1>12, <1>13, <1>14, <1>15, <1>16, <1>17, <1>18, <1>19, <1>20, <1>21,
     <1>22, <1>23, <1>24 DEF Next, Acc, Within, Ended

\* The connection of a slot that is not free is among those in the slots.
LEMMA InASlot ==
  ASSUME TypeOK, NEW k \in Slots, clientSockets[k] # Free
  PROVE  clientSockets[k] \in InSlots
BY DEF TypeOK, InSlots, Range

\* No accepted connection is lost.
LEMMA ConnectionStep ==
  TypeOK /\ ControlInv /\ ThreadInv /\ QueueInv /\ NoLostConnection /\ [Next]_vars
    => NoLostConnection'
<1> SUFFICES ASSUME TypeOK, ControlInv, ThreadInv, QueueInv, NoLostConnection, [Next]_vars
             PROVE  NoLostConnection'
  OBVIOUS
<1> USE DEF vars, server, thread, caller, network
<1>1. CASE Connect
  BY <1>1 DEF Connect, NoLostConnection, Serving, InSlots, InHand
<1>2. CASE \E c \in Connections : ClientLeaves(c)
  BY <1>2 DEF ClientLeaves, NoLostConnection, Serving, InSlots, InHand
<1>3. CASE AccTest
  BY <1>3 DEF AccTest, NoLostConnection, Serving, InSlots, InHand
<1>4. CASE AccCopy
  BY <1>4 DEF AccCopy, NoLostConnection, Serving, InSlots, InHand
<1>5. CASE AccScan
  BY <1>5 DEF AccScan, NoLostConnection, Serving, InSlots, InHand
<1>6. CASE AccAccept
  <2> SUFFICES ASSUME Serving'  PROVE NoLostConnection'
    BY DEF NoLostConnection
  <2> DEFINE h == Head(backlog)
  <2>1. h \in Int /\ h > Accepted /\ Accepted \in Int
    <3>1. Len(backlog) \in Nat /\ Len(backlog) # 0 /\ h = backlog[1]
      BY <1>6 DEF AccAccept, QueueInv, TypeOK
    <3>2. Accepted \in Int
      BY ServerAssumption, <3>1 DEF TypeOK, Accepted
    <3>3. QED  BY <3>1, <3>2 DEF QueueInv
  <2>2. h \notin InSlots
    <3>1. h \in InSlots => h <= Accepted
      BY DEF QueueInv
    <3>2. ~(h <= Accepted)
      BY <2>1
    <3>3. QED  BY <3>1, <3>2
  <2>3. sim = "reset" => clientSockets[index] # h
    BY <2>2, InASlot DEF ControlInv
  <2>4. InHand = {} /\ InHand' = {h}
    <3>1. i \in DOMAIN copied
      BY <1>6, ServerAssumption DEF AccAccept, ThreadInv, TypeOK, Slots
    <3>2. QED  BY <1>6, <3>1 DEF AccAccept, InHand
  <2>5. /\ InSlots' = InSlots /\ open' = open \cup {h} /\ Serving
        /\ clientSockets' = clientSockets /\ sim' = sim /\ index' = index
    BY <1>6 DEF AccAccept, InSlots, Serving
  <2> HIDE DEF h
  <2>6. QED  BY <2>2, <2>3, <2>4, <2>5 DEF NoLostConnection
<1>7. CASE AccNoSocket
  BY <1>7 DEF AccNoSocket, NoLostConnection, Serving, InSlots, InHand
<1>8. CASE AccAcceptFails
  BY <1>8 DEF AccAcceptFails, NoLostConnection, Serving, InSlots, InHand
<1>9. CASE AccStore
  <2> SUFFICES ASSUME Serving'  PROVE NoLostConnection'
    BY DEF NoLostConnection
  <2>1. Serving /\ sim # "reset"
    BY <1>9 DEF AccStore, Serving, ControlInv, Nobody
  <2>2. /\ InHand = {copied[i]} /\ InHand' = {}
        /\ copied[i] \in Connections /\ i \in Slots /\ clientSockets[i] = Free
    BY <1>9 DEF AccStore, InHand, ThreadInv
  <2>3. copied[i] \notin Range(clientSockets)
    BY <2>1, <2>2, ServerAssumption DEF NoLostConnection, InSlots, Connections, Free
  <2>4. /\ InSlots' = InSlots \cup {copied[i]}
        /\ \A k, l \in Slots : clientSockets'[k] = clientSockets'[l] /\ k # l
                                 => clientSockets'[k] = Free
    <3> DEFINE s == clientSockets
               t == clientSockets'
               c == copied[i]
    <3>1. s \in [Slots -> Connections \cup {Free}]
      BY DEF TypeOK
    <3>2. t = [s EXCEPT ![i] = c]
      BY <1>9 DEF AccStore
    <3>3. Distinct(s)
      BY <2>1 DEF NoLostConnection, Distinct
    <3>4. i \in Slots /\ s[i] = Free /\ c \in Connections /\ c \notin Range(s)
      BY <2>2, <2>3
    <3> HIDE DEF s, t, c
    <3>5. InUse(t) = InUse(s) \cup {c} /\ Distinct(t)
      BY <3>1, <3>2, <3>3, <3>4, SlotFilled
    <3>6. QED  BY <3>5 DEF InSlots, InUse, Distinct, s, t, c
  <2>5. open' = open /\ sim' = sim
    BY <1>9 DEF AccStore
  <2>6. QED  BY <2>1, <2>2, <2>4, <2>5 DEF NoLostConnection
<1>10. CASE Construct
  <2>1. /\ open' = {} /\ InSlots' = {} /\ InHand' = {} /\ sim' = "idle"
        /\ clientSockets' = clientSockets
    BY <1>10 DEF Construct, ControlInv, InSlots, InHand
  <2>2. \A k \in Slots : clientSockets[k] = Free
    BY <1>10, InASlot DEF Construct, ControlInv
  <2>3. QED  BY <2>1, <2>2 DEF NoLostConnection
<1>11. CASE ConstructFails
  BY <1>11 DEF ConstructFails, NoLostConnection, Serving, InSlots, InHand
<1>12. CASE \E call \in {"recv", "send"}, k \in Slots : Begin(call, k)
  BY <1>12 DEF Begin, NoLostConnection, Serving, InSlots, InHand
<1>13. CASE Transfer
  BY <1>13 DEF Transfer, Return, NoLostConnection, Serving, InSlots, InHand
<1>14. CASE ReadFails
  BY <1>14 DEF ReadFails, NoLostConnection, Serving, InSlots, InHand
<1>15. CASE SendFails
  BY <1>15 DEF SendFails, NoLostConnection, Serving, InSlots, InHand
<1>16. CASE Destroy
  BY <1>16 DEF Destroy, NoLostConnection, Serving, InSlots, InHand
<1>17. CASE WouldBlock
  BY <1>17 DEF WouldBlock, Return, NoLostConnection, Serving, InSlots, InHand
<1>18. CASE PeerGone
  BY <1>18 DEF PeerGone, NoLostConnection, Serving, InSlots, InHand
<1>19. CASE Drop
  BY <1>19 DEF Drop, NoLostConnection, Serving, InSlots, InHand
<1>20. CASE Reset
  <2>1. Serving /\ index \in Slots /\ clientSockets[index] # Free /\ sim = "reset"
    BY <1>20 DEF Reset, Serving, ControlInv
  <2>2. /\ InSlots' = InSlots \ {clientSockets[index]}
        /\ \A k, l \in Slots : clientSockets'[k] = clientSockets'[l] /\ k # l
                                 => clientSockets'[k] = Free
    <3>1. clientSockets \in [Slots -> Connections \cup {Free}]
      BY DEF TypeOK
    <3>2. clientSockets' = [clientSockets EXCEPT ![index] = Free]
      BY <1>20 DEF Reset
    <3>3. \A k, l \in Slots : clientSockets[k] = clientSockets[l] /\ k # l
                                => clientSockets[k] = Free
      BY <2>1 DEF NoLostConnection
    <3>4. QED  BY <2>1, <3>1, <3>2, <3>3, SlotFreed DEF InSlots, InUse, Distinct
  <2>3. open' = open /\ sim' = "idle" /\ InHand' = InHand
    BY <1>20 DEF Reset, Return, InHand
  <2>4. clientSockets[index] \in InSlots
    BY <2>1, InASlot
  <2>5. QED  BY <2>1, <2>2, <2>3, <2>4 DEF NoLostConnection
<1>21. CASE CloseSlot
  BY <1>21 DEF CloseSlot, NoLostConnection, Serving, InSlots, InHand
<1>22. CASE Shut
  BY <1>22 DEF Shut, NoLostConnection, Serving, InSlots, InHand
<1>23. CASE Join
  BY <1>23 DEF Join, NoLostConnection, Serving, InSlots, InHand
<1>24. CASE UNCHANGED vars
  BY <1>24 DEF NoLostConnection, Serving, InSlots, InHand
<1>25. QED
  BY <1>1, <1>2, <1>3, <1>4, <1>5, <1>6, <1>7, <1>8, <1>9, <1>10, <1>11,
     <1>12, <1>13, <1>14, <1>15, <1>16, <1>17, <1>18, <1>19, <1>20, <1>21,
     <1>22, <1>23, <1>24 DEF Next, Acc, Within, Ended

\* The socket of a call stays in its slot, and open.
LEMMA CallStep ==
  /\ TypeOK /\ ControlInv /\ ThreadInv /\ NoLostConnection /\ CallUsesItsClient
  /\ [Next]_vars
  => CallUsesItsClient'
<1> SUFFICES ASSUME TypeOK, ControlInv, ThreadInv, NoLostConnection, CallUsesItsClient,
                    [Next]_vars
             PROVE  CallUsesItsClient'
  OBVIOUS
<1> USE DEF vars, server, thread, caller, network
<1>1. CASE Connect
  BY <1>1 DEF Connect, CallUsesItsClient
<1>2. CASE \E c \in Connections : ClientLeaves(c)
  BY <1>2 DEF ClientLeaves, CallUsesItsClient
<1>3. CASE AccTest
  BY <1>3 DEF AccTest, CallUsesItsClient
<1>4. CASE AccCopy
  BY <1>4 DEF AccCopy, CallUsesItsClient
<1>5. CASE AccScan
  BY <1>5 DEF AccScan, CallUsesItsClient
<1>6. CASE AccAccept
  BY <1>6 DEF AccAccept, CallUsesItsClient
<1>7. CASE AccNoSocket
  BY <1>7 DEF AccNoSocket, CallUsesItsClient
<1>8. CASE AccAcceptFails
  BY <1>8 DEF AccAcceptFails, CallUsesItsClient
<1>9. CASE AccStore
  <2>1. sim \in {"recv", "send", "drop"} => i # index
    BY <1>9 DEF AccStore, ThreadInv, ControlInv
  <2>2. QED  BY <1>9, <2>1 DEF AccStore, CallUsesItsClient, ThreadInv, ControlInv, TypeOK
<1>10. CASE Construct
  BY <1>10 DEF Construct, CallUsesItsClient
<1>11. CASE ConstructFails
  BY <1>11 DEF ConstructFails, CallUsesItsClient
<1>12. CASE \E call \in {"recv", "send"}, k \in Slots : Begin(call, k)
  <2>1. PICK call \in {"recv", "send"}, k \in Slots : Begin(call, k)
    BY <1>12
  <2>2. CASE clientSockets[k] = Free
    BY <2>1, <2>2 DEF Begin, CallUsesItsClient
  <2>3. CASE clientSockets[k] # Free
    <3>1. clientSockets[k] \in open
      BY <2>1, <2>3, InASlot DEF Begin, NoLostConnection, Serving
    <3>2. QED  BY <2>1, <2>3, <3>1 DEF Begin, CallUsesItsClient
  <2>4. QED  BY <2>2, <2>3
<1>13. CASE Transfer
  BY <1>13 DEF Transfer, Return, CallUsesItsClient
<1>14. CASE ReadFails
  BY <1>14 DEF ReadFails, CallUsesItsClient
<1>15. CASE SendFails
  BY <1>15 DEF SendFails, CallUsesItsClient
<1>16. CASE Destroy
  BY <1>16 DEF Destroy, CallUsesItsClient
<1>17. CASE WouldBlock
  BY <1>17 DEF WouldBlock, Return, CallUsesItsClient
<1>18. CASE PeerGone
  BY <1>18 DEF PeerGone, CallUsesItsClient
<1>19. CASE Drop
  BY <1>19 DEF Drop, CallUsesItsClient
<1>20. CASE Reset
  BY <1>20 DEF Reset, Return, CallUsesItsClient
<1>21. CASE CloseSlot
  BY <1>21 DEF CloseSlot, CallUsesItsClient
<1>22. CASE Shut
  BY <1>22 DEF Shut, CallUsesItsClient
<1>23. CASE Join
  BY <1>23 DEF Join, CallUsesItsClient
<1>24. CASE UNCHANGED vars
  BY <1>24 DEF CallUsesItsClient
<1>25. QED
  BY <1>1, <1>2, <1>3, <1>4, <1>5, <1>6, <1>7, <1>8, <1>9, <1>10, <1>11,
     <1>12, <1>13, <1>14, <1>15, <1>16, <1>17, <1>18, <1>19, <1>20, <1>21,
     <1>22, <1>23, <1>24 DEF Next, Acc, Within, Ended

\* What the destructor leaves open is the last client the thread accepted.
LEMMA LeftStep ==
  /\ TypeOK /\ ControlInv /\ ThreadInv /\ QueueInv /\ NoLostConnection /\ LeftInv
  /\ [Next]_vars
  => LeftInv'
<1> SUFFICES ASSUME TypeOK, ControlInv, ThreadInv, QueueInv, NoLostConnection, LeftInv,
                    [Next]_vars
             PROVE  LeftInv'
  OBVIOUS
<1> USE DEF vars, server, thread, caller, network, Closing
<1>1. CASE Connect
  BY <1>1 DEF Connect, LeftInv, Left, ControlInv
<1>2. CASE \E c \in Connections : ClientLeaves(c)
  BY <1>2 DEF ClientLeaves, LeftInv, Left, ControlInv
<1>3. CASE AccTest
  BY <1>3 DEF AccTest, LeftInv, Left, ControlInv
<1>4. CASE AccCopy
  BY <1>4 DEF AccCopy, LeftInv, Left, ControlInv
<1>5. CASE AccScan
  BY <1>5 DEF AccScan, LeftInv, Left, ControlInv
<1>6. CASE AccAccept
  <2> SUFFICES ASSUME sim \in Closing  PROVE LeftInv'
    BY <1>6 DEF AccAccept, LeftInv
  <2> DEFINE h == Head(backlog)
  <2>1. Left = {} /\ h \in Connections
    BY <1>6 DEF AccAccept, LeftInv, QueueInv, TypeOK
  <2>2. acc' = "store" /\ copied'[i'] = h
    <3>1. i \in DOMAIN copied
      BY <1>6, ServerAssumption DEF AccAccept, ThreadInv, TypeOK, Slots
    <3>2. QED  BY <1>6, <3>1 DEF AccAccept
  <2>3. Left' \subseteq {h}
    BY <1>6, <2>1 DEF AccAccept, Left
  <2> HIDE DEF h
  <2>4. QED  BY <2>1, <2>2, <2>3 DEF LeftInv
<1>7. CASE AccNoSocket
  BY <1>7 DEF AccNoSocket, LeftInv, Left, ControlInv
<1>8. CASE AccAcceptFails
  BY <1>8 DEF AccAcceptFails, LeftInv, Left, ControlInv
<1>9. CASE AccStore
  <2> SUFFICES ASSUME sim \in Closing  PROVE LeftInv'
    BY <1>9 DEF AccStore, LeftInv
  <2>1. copied[i] \in Connections /\ Left \subseteq {copied[i]} /\ clientSockets[i] = Free
    BY <1>9 DEF AccStore, LeftInv, ThreadInv
  <2>2. Left' \subseteq Left
    <3>1. ASSUME NEW c \in Left'  PROVE c \in Left
      <4>1. c \in open /\ c # Free
        BY <1>9, ServerAssumption DEF AccStore, Left, TypeOK, Connections, Free
      <4>2. ASSUME NEW k \in index .. MaxClients - 1  PROVE clientSockets[k] # c
        <5>1. CASE k = i
          BY <2>1, <4>1, <5>1
        <5>2. CASE k # i
          BY <1>9, <5>2 DEF AccStore, Left, TypeOK
        <5>3. QED  BY <5>1, <5>2
      <4>3. QED  BY <4>1, <4>2 DEF Left
    <3>2. QED  BY <3>1
  <2>3. QED  BY <1>9, <2>1, <2>2 DEF AccStore, LeftInv
<1>10. CASE Construct
  BY <1>10 DEF Construct, LeftInv, Left, ControlInv
<1>11. CASE ConstructFails
  BY <1>11 DEF ConstructFails, LeftInv, Left, ControlInv
<1>12. CASE \E call \in {"recv", "send"}, k \in Slots : Begin(call, k)
  BY <1>12 DEF Begin, LeftInv, Left, ControlInv
<1>13. CASE Transfer
  BY <1>13 DEF Transfer, Return, LeftInv, Left, ControlInv
<1>14. CASE ReadFails
  BY <1>14 DEF ReadFails, LeftInv, Left, ControlInv
<1>15. CASE SendFails
  BY <1>15 DEF SendFails, LeftInv, Left, ControlInv
<1>16. CASE Destroy
  <2>1. open = InSlots \cup InHand /\ index' = 0 /\ open' = open
    BY <1>16 DEF Destroy, NoLostConnection, Serving
  <2>2. InSlots \subseteq {clientSockets[k] : k \in 0 .. MaxClients - 1}
    BY DEF InSlots, Range, TypeOK, Slots
  <2>3. Left' \subseteq InHand
    BY <1>16, <2>1, <2>2 DEF Destroy, Left
  <2>4. acc' = acc /\ i' = i /\ copied' = copied
    BY <1>16 DEF Destroy
  <2>5. InHand = IF acc = "store" THEN {copied[i]} ELSE {}
    BY DEF InHand
  <2>6. QED  BY <2>3, <2>4, <2>5 DEF LeftInv, ThreadInv
<1>17. CASE WouldBlock
  BY <1>17 DEF WouldBlock, Return, LeftInv, Left, ControlInv
<1>18. CASE PeerGone
  BY <1>18 DEF PeerGone, LeftInv, Left, ControlInv
<1>19. CASE Drop
  BY <1>19 DEF Drop, LeftInv, Left, ControlInv
<1>20. CASE Reset
  BY <1>20 DEF Reset, Return, LeftInv, Left, ControlInv
<1>21. CASE CloseSlot
  <2>1. CASE index < MaxClients
    <3>1. Left' \subseteq Left
      <4>1. ASSUME NEW c \in Left'  PROVE c \in Left
        <5>1. c \in open /\ c # clientSockets[index]
          BY <1>21, <2>1 DEF CloseSlot, Left
        <5>2. ASSUME NEW k \in index .. MaxClients - 1  PROVE clientSockets[k] # c
          <6>1. CASE k = index
            BY <5>1, <6>1
          <6>2. CASE k # index
            <7>1. k \in index + 1 .. MaxClients - 1
              BY <6>2, ServerAssumption DEF TypeOK
            <7>2. QED  BY <1>21, <2>1, <7>1 DEF CloseSlot, Left
          <6>3. QED  BY <6>1, <6>2
        <5>3. QED  BY <5>1, <5>2 DEF Left
      <4>2. QED  BY <4>1
    <3>2. QED  BY <1>21, <2>1, <3>1 DEF CloseSlot, LeftInv
  <2>2. CASE ~(index < MaxClients)
    BY <1>21, <2>2 DEF CloseSlot, LeftInv, Left
  <2>3. QED  BY <2>1, <2>2
<1>22. CASE Shut
  BY <1>22 DEF Shut, LeftInv, Left, ControlInv
<1>23. CASE Join
  BY <1>23 DEF Join, LeftInv, Left, ControlInv
<1>24. CASE UNCHANGED vars
  BY <1>24 DEF LeftInv, Left, ControlInv
<1>25. QED
  BY <1>1, <1>2, <1>3, <1>4, <1>5, <1>6, <1>7, <1>8, <1>9, <1>10, <1>11,
     <1>12, <1>13, <1>14, <1>15, <1>16, <1>17, <1>18, <1>19, <1>20, <1>21,
     <1>22, <1>23, <1>24 DEF Next, Acc, Within, Ended

----------------------------------------------------------------------------
(* The theorems *)

\* The invariant holds before the constructor has run.
LEMMA InvariantInit == Init => IInv
<1> SUFFICES ASSUME Init  PROVE IInv
  OBVIOUS
<1> USE ServerAssumption DEF Init
<1>1. TypeOK
  <2>1. /\ 0 \in 0 .. MaxConnections /\ 0 \in 0 .. MaxClients /\ -1 \in -1 .. MaxClients
        /\ <<>> \in Seq(Connections)
    BY DEF Connections
  <2>2. copied \in [0 .. MaxClients -> Connections \cup {Free, Behind}]
    OBVIOUS
  <2>3. /\ clientSockets \in [Slots -> Connections \cup {Free}]
        /\ peer \in [Connections -> {"open", "closed", "reset"}]
    OBVIOUS
  <2>4. QED  BY <2>1, <2>2, <2>3 DEF TypeOK, Nobody
<1>2. InSlots = {} /\ InHand = {}
  BY DEF InSlots, InHand, Range
<1>3. ControlInv /\ ThreadInv
  BY <1>2 DEF ControlInv, Closing, ThreadInv, Slots
<1>4. QueueInv
  <2>1. Len(backlog) = 0
    OBVIOUS
  <2>2. QED  BY <1>2, <2>1 DEF QueueInv
<1>5. NoLostConnection /\ CallUsesItsClient /\ LeftInv
  BY DEF NoLostConnection, Serving, CallUsesItsClient, LeftInv, Closing
<1>6. QED  BY <1>1, <1>3, <1>4, <1>5 DEF IInv

\* Every step of the server, of the simulation and of the clients preserves it.
LEMMA InvariantStep == IInv /\ [Next]_vars => IInv'
BY TypeStep, ControlStep, ThreadStep, QueueStep, ConnectionStep, CallStep, LeftStep DEF IInv

\* The inductive invariant of the server.
THEOREM Invariant == Spec => []IInv
<1>1. QED  BY InvariantInit, InvariantStep, PTL DEF Spec

\* Every variable of the server keeps its type.
THEOREM TypeCorrect == Spec => []TypeOK
<1>1. IInv => TypeOK
  BY DEF IInv
<1>2. QED  BY <1>1, Invariant, PTL

\* For any number of slots and clients, no accepted client is lost, overwritten or in
\* two slots while the server serves.
THEOREM NoConnectionIsLost == Spec => []NoLostConnection
<1>1. IInv => NoLostConnection
  BY DEF IInv
<1>2. QED  BY <1>1, Invariant, PTL

\* For any number of slots and clients, a read or send works on the client of its slot.
THEOREM CallKeepsItsClient == Spec => []CallUsesItsClient
<1>1. IInv => CallUsesItsClient
  BY DEF IInv
<1>2. QED  BY <1>1, Invariant, PTL

\* For any number of slots and clients, the destructor leaves at most one socket open.
THEOREM OneSocketLeft == Spec => []AtMostOneLeft
<1>1. IInv => AtMostOneLeft
  <2> SUFFICES ASSUME IInv, sim = "destroyed"  PROVE Cardinality(open) <= 1
    BY DEF AtMostOneLeft
  <2>1. index = MaxClients
    BY DEF IInv, ControlInv
  <2>2. index .. MaxClients - 1 = {}
    BY <2>1, ServerAssumption
  <2>3. Left = open
    BY <2>2 DEF Left
  <2>4. PICK c : open \subseteq {c}
    BY <2>3 DEF IInv, LeftInv, Closing
  <2>5. Cardinality({c}) = 1 /\ IsFiniteSet({c})
    BY FS_Singleton
  <2>6. Cardinality(open) <= Cardinality({c})
    BY <2>4, <2>5, FS_Subset
  <2>7. QED  BY <2>5, <2>6
<1>2. QED  BY <1>1, Invariant, PTL


----------------------------------------------------------------------------
(* The server implements the pool of connections                           *)

\* A step of the server is a step of the pool or leaves it as it is.
LEMMA PoolStep == IInv /\ [Next]_vars => [Pool!Next]_Pool!vars
<1> SUFFICES ASSUME TypeOK, ControlInv, ThreadInv, QueueInv, [Next]_vars
             PROVE  [Pool!Next]_Pool!vars
  BY DEF IInv
<1>0. connected \in Nat /\ Len(backlog) \in Nat
  BY ServerAssumption DEF TypeOK
<1> USE DEF vars, server, thread, caller, network
<1>1. CASE Connect
  <2>1. Held' = Held /\ connected' = connected + 1 /\ backlog' = Append(backlog, connected + 1)
    BY <1>1 DEF Connect, Held
  <2>2. Len(backlog') = Len(backlog) + 1
    BY <2>1 DEF TypeOK
  <2>3. connected' - Len(backlog') = connected - Len(backlog)
    BY <1>0, <2>1, <2>2
  <2>4. Pool!Connect
    BY <2>1, <2>2, <2>3 DEF Pool!Connect
  <2>5. QED  BY <2>4 DEF Pool!Next
<1>2. CASE \E c \in Connections : ClientLeaves(c)
  BY <1>2 DEF ClientLeaves, Held, Pool!vars
<1>3. CASE AccTest
  BY <1>3 DEF AccTest, Held, Pool!vars
<1>4. CASE AccCopy
  BY <1>4 DEF AccCopy, Held, Pool!vars
<1>5. CASE AccScan
  BY <1>5 DEF AccScan, Held, Pool!vars
<1>6. CASE AccAccept
  <2>1. /\ i \in Slots /\ clientSockets[i] = Free /\ acc = "accept" /\ acc' = "store" /\ i' = i
        /\ clientSockets' = clientSockets /\ connected' = connected
        /\ backlog' = Tail(backlog) /\ backlog # <<>>
    BY <1>6 DEF AccAccept, ThreadInv, QueueInv
  <2>2. Len(backlog) > 0 /\ Len(backlog') = Len(backlog) - 1 /\ Head(backlog) = backlog[1]
    BY <2>1 DEF TypeOK
  <2>3. backlog[1] = connected - Len(backlog) + 1
    BY <1>0, <2>2 DEF QueueInv, Accepted
  <2>4. connected' - Len(backlog') = connected - Len(backlog) + 1
    <3>1. connected' = connected
      BY <2>1
    <3>2. Len(backlog') = Len(backlog) - 1
      BY <2>2
    <3>3. QED  BY <1>0, <3>1, <3>2
  <2>5. copied'[i] = connected - Len(backlog) + 1
    <3>1. i \in DOMAIN copied
      BY <2>1, ServerAssumption DEF TypeOK, Slots
    <3>2. QED  BY <1>6, <2>2, <2>3, <3>1 DEF AccAccept
  <2>6. Held = clientSockets /\ Held[i] = 0
    BY <2>1 DEF Held, TypeOK, Free
  <2>7. Held' = [Held EXCEPT ![i] = connected - Len(backlog) + 1]
    BY <2>1, <2>5, <2>6 DEF Held, TypeOK
  <2>8. Pool!Accept(i)
    BY <2>2, <2>4, <2>6, <2>7 DEF Pool!Accept
  <2>9. QED  BY <2>1, <2>8 DEF Pool!Next
<1>7. CASE AccNoSocket
  BY <1>7 DEF AccNoSocket, Held, Pool!vars
<1>8. CASE AccAcceptFails
  BY <1>8 DEF AccAcceptFails, Held, Pool!vars
<1>9. CASE AccStore
  <2>1. Held' = Held
    BY <1>9 DEF AccStore, Held, ThreadInv, TypeOK
  <2>2. QED  BY <1>9, <2>1 DEF AccStore, Pool!vars
<1>10. CASE Construct
  BY <1>10 DEF Construct, ControlInv, Held, Pool!vars
<1>11. CASE ConstructFails
  BY <1>11 DEF ConstructFails, Held, Pool!vars
<1>12. CASE \E call \in {"recv", "send"}, k \in Slots : Begin(call, k)
  BY <1>12 DEF Begin, Held, Pool!vars
<1>13. CASE Transfer
  BY <1>13 DEF Transfer, Return, Held, Pool!vars
<1>14. CASE ReadFails
  BY <1>14 DEF ReadFails, Held, Pool!vars
<1>15. CASE SendFails
  BY <1>15 DEF SendFails, Held, Pool!vars
<1>16. CASE Destroy
  BY <1>16 DEF Destroy, Held, Pool!vars
<1>17. CASE WouldBlock
  BY <1>17 DEF WouldBlock, Return, Held, Pool!vars
<1>18. CASE PeerGone
  BY <1>18 DEF PeerGone, Held, Pool!vars
<1>19. CASE Drop
  BY <1>19 DEF Drop, Held, Pool!vars
<1>20. CASE Reset
  <2>1. index \in Slots /\ clientSockets[index] # Free
    BY <1>20 DEF Reset, ControlInv
  <2>2. acc = "store" => i # index
    BY <2>1 DEF ThreadInv
  <2>3. Held[index] # 0 /\ Held' = [Held EXCEPT ![index] = 0]
    BY <1>20, <2>1, <2>2 DEF Reset, Held, TypeOK, Free
  <2>4. Pool!Drop(index)
    BY <1>20, <2>3 DEF Reset, Pool!Drop
  <2>5. QED  BY <2>1, <2>4 DEF Pool!Next
<1>21. CASE CloseSlot
  BY <1>21 DEF CloseSlot, Held, Pool!vars
<1>22. CASE Shut
  BY <1>22 DEF Shut, Held, Pool!vars
<1>23. CASE Join
  BY <1>23 DEF Join, Held, Pool!vars
<1>24. CASE UNCHANGED vars
  BY <1>24 DEF Held, Pool!vars
<1>25. QED
  BY <1>1, <1>2, <1>3, <1>4, <1>5, <1>6, <1>7, <1>8, <1>9, <1>10, <1>11,
     <1>12, <1>13, <1>14, <1>15, <1>16, <1>17, <1>18, <1>19, <1>20, <1>21,
     <1>22, <1>23, <1>24 DEF Next, Acc, Within, Ended

\* Before the constructor has run the pool is empty.
LEMMA PoolInit == Init => Pool!Init
<1> SUFFICES ASSUME Init  PROVE Pool!Init
  OBVIOUS
<1>1. Len(backlog) = 0 /\ connected = 0
  BY DEF Init
<1>2. connected - Len(backlog) = 0
  BY <1>1
<1>3. Held = [k \in Slots |-> 0]
  BY DEF Init, Held, Free
<1>4. QED  BY <1>1, <1>2, <1>3 DEF Pool!Init

\* For any number of slots and clients, the slots are a pool of connections.
THEOREM Implementation == Spec => ImplementsPool
<1>1. QED
  BY PoolInit, PoolStep, Invariant, PTL DEF Spec, ImplementsPool, Pool!Spec

=============================================================================
