---------------------------- MODULE LatestMessage ----------------------------
(***************************************************************************)
(* What a driver with a dedicated receiving thread promises the simulation *)
(* ("latest available data is used"): a mailbox of one message.  A message *)
(* that arrives replaces the one waiting there; a replaced message is lost *)
(* and the loss is counted; taking the message empties the mailbox.        *)
(***************************************************************************)
EXTENDS Naturals

CONSTANT Messages       \* identities of messages, numbered from 1 as they arrive

VARIABLES
  slot,     \* the message waiting to be read, 0 when there is none
  latest,   \* the number of the latest message put into the mailbox
  lost,     \* how many messages were replaced before they were read
  taken     \* what the latest read returned: a message, or 0 for nothing new

vars == <<slot, latest, lost, taken>>

Empty == 0

Init ==
  /\ slot = Empty
  /\ latest = 0
  /\ lost = 0
  /\ taken = Empty

Replaced == IF slot = Empty THEN 0 ELSE 1

\* A later message replaces the one in the mailbox.
Put(m) ==
  /\ m > latest
  /\ slot' = m
  /\ latest' = m
  /\ lost' = lost + Replaced
  /\ UNCHANGED taken

\* A delivery that carries no bytes leaves nothing to read.
Wipe ==
  /\ slot # Empty
  /\ slot' = Empty
  /\ lost' = lost + 1
  /\ UNCHANGED <<latest, taken>>

\* A read returns what is there, and finds the mailbox empty afterwards.
Take ==
  /\ taken' = slot
  /\ slot' = Empty
  /\ UNCHANGED <<latest, lost>>

Next == (\E m \in Messages : Put(m)) \/ Wipe \/ Take

Spec == Init /\ [][Next]_vars
=============================================================================
