----------------------------- MODULE SoftingCan ------------------------------
(***************************************************************************)
(* MDDSoftingCAN.h with the blocks that use it (Blocks/Communication.mo,   *)
(* package SoftingCAN): one CAN controller, whose objects are defined in   *)
(* initial equations, one per message block, before the configuration      *)
(* block starts the chip.  Afterwards a message block reads or writes its  *)
(* object at its triggers.  Everything runs in the simulation thread; the  *)
(* controller receives by itself.                                          *)
(*                                                                         *)
(* The CANL2 library is not part of the repository.  Of its dynamic object *)
(* buffer it is assumed that a receive object holds the latest data frame  *)
(* of its identifier and reports an overrun when one was not read.         *)
(***************************************************************************)
EXTENDS Integers, Sequences

CONSTANTS
  Blocks,       \* message blocks: [ident, transType]
  MaxReceived   \* bound: frames the controller receives

SoftingAssumption == MaxReceived \in Nat

\* standard or extended receive, not transmit
Receives(b) == b.transType \in {1, 3}

VARIABLES
  chip,         \* state of the controller
  objectList,   \* objects defined, in the order of their numbers
  objectNumber, \* of each message block, 0 before it is defined
  rcv,          \* of each object: number of the frame it holds unread, 0 for none
  overrun,      \* objects whose unread frame was replaced
  pkg,          \* of each block: number of the frame in its package, 0 for none
  received,     \* frames received: the identifier of each
  sim           \* the simulation

vars == <<chip, objectList, objectNumber, rcv, overrun, pkg, received, sim>>

TypeOK ==
  /\ chip \in {"closed", "initialized", "online"}
  /\ objectList \in Seq(Blocks)
  /\ objectNumber \in [Blocks -> 0 .. Len(objectList)]
  /\ rcv \in [1 .. Len(objectList) -> 0 .. Len(received)]
  /\ overrun \subseteq 1 .. Len(objectList)
  /\ pkg \in [Blocks -> 0 .. Len(received)]
  /\ Len(received) <= MaxReceived
  /\ sim \in {"new", "define", "start", "run", "destroyed", "error"}

Init ==
  /\ chip = "closed"
  /\ objectList = <<>>
  /\ objectNumber = [b \in Blocks |-> 0]
  /\ rcv = <<>>
  /\ overrun = {}
  /\ pkg = [b \in Blocks |-> 0]
  /\ received = <<>>
  /\ sim = "new"

\* Any call of CANL2 may report an error, which is raised; an unsupported baud rate or
\* transmission type is one, and so is a remote frame in a receive object.
Fails ==
  /\ sim \in {"new", "define", "start", "run"}
  /\ sim' = "error"
  /\ UNCHANGED <<chip, objectList, objectNumber, rcv, overrun, pkg, received>>

\* MDD_softingCANConstructor: initialize_channel, reset_chip, initialize_chip with the bit
\* timing of the baud rate, acceptance, output control, buffer, interface.
Construct ==
  /\ sim = "new"
  /\ chip' = "initialized"
  /\ sim' = "define"
  /\ UNCHANGED <<objectList, objectNumber, rcv, overrun, pkg, received>>

\* MDD_softingCANDefineObject, once for each message block, in any order.
DefineObject(b) ==
  /\ sim = "define"
  /\ objectNumber[b] = 0
  /\ objectList' = Append(objectList, b)
  /\ objectNumber' = [objectNumber EXCEPT ![b] = Len(objectList) + 1]
  /\ rcv' = Append(rcv, 0)
  /\ sim' = IF \A a \in Blocks \ {b} : objectNumber[a] # 0 THEN "start" ELSE "define"
  /\ UNCHANGED <<chip, overrun, pkg, received>>

\* MDD_softingCANStartChip, behind the sum of what the definitions return.
StartChip ==
  /\ sim = "start"
  /\ chip' = "online"
  /\ sim' = "run"
  /\ UNCHANGED <<objectList, objectNumber, rcv, overrun, pkg, received>>

\* The controller: a frame goes into every receive object of its identifier.
Receive(ident) ==
  /\ chip = "online" /\ sim = "run"
  /\ Len(received) < MaxReceived
  /\ received' = Append(received, ident)
  /\ LET hit == {o \in 1 .. Len(objectList) :
                   Receives(objectList[o]) /\ objectList[o].ident = ident}
     IN  /\ rcv' = [o \in 1 .. Len(objectList) |->
                      IF o \in hit THEN Len(received) + 1 ELSE rcv[o]]
         /\ overrun' = overrun \cup {o \in hit : rcv[o] # 0}
  /\ UNCHANGED <<chip, objectList, objectNumber, pkg, sim>>

\* MDD_softingCANReadRcvDataP: new data is copied into the package of the block.
ReadRcvData(b) ==
  /\ sim = "run" /\ Receives(b)
  /\ LET o == objectNumber[b]
     IN  /\ rcv[o] # 0 /\ o \notin overrun
         /\ pkg' = [pkg EXCEPT ![b] = rcv[o]]
         /\ rcv' = [rcv EXCEPT ![o] = 0]
  /\ UNCHANGED <<chip, objectList, objectNumber, overrun, received, sim>>

\* Without new data, and on an overrun, which is only printed, the package keeps the data
\* of the last successful read.
NoNewData(b) ==
  /\ sim = "run" /\ Receives(b)
  /\ LET o == objectNumber[b]
     IN  /\ rcv[o] = 0 \/ o \in overrun
         /\ overrun' = overrun \ {o}
  /\ UNCHANGED <<chip, objectList, objectNumber, rcv, pkg, received, sim>>

\* MDD_softingCANDestructor; what MDD_softingCANWriteObject sends leaves no trace here, an
\* error of it is only printed.
Destroy ==
  /\ sim = "run"
  /\ chip' = "closed"
  /\ sim' = "destroyed"
  /\ UNCHANGED <<objectList, objectNumber, rcv, overrun, pkg, received>>

Ended ==
  /\ sim \in {"destroyed", "error"}
  /\ UNCHANGED vars

Next ==
  \/ Construct \/ StartChip \/ Fails \/ Destroy \/ Ended
  \/ \E b \in Blocks : DefineObject(b) \/ ReadRcvData(b) \/ NoNewData(b)
  \/ \E b \in Blocks : Receive(b.ident)

Spec == Init /\ [][Next]_vars

----------------------------------------------------------------------------
(* Properties *)

\* "That particularly allows to return old values (i.e., data received at the last
\* successful retrieval)" (321-323): the package of a block holds a frame of the block's
\* own identifier, received once the chip was started, for which all definitions must be
\* complete (415).
ReadsOwnMessage ==
  \A b \in Blocks : pkg[b] # 0 =>
    /\ received[pkg[b]] = b.ident
    /\ \A a \in Blocks : objectNumber[a] # 0
=============================================================================
