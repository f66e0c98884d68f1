---------------------------- MODULE ConnectionPool ----------------------------
(***************************************************************************)
(* What a TCP/IP server with a fixed number of client slots promises the   *)
(* simulation: connections are accepted in the order in which they were    *)
(* made, each into a slot that is free; it stays in that slot until it is  *)
(* dropped, and the slot is free again after that.                         *)
(***************************************************************************)
EXTENDS Naturals

CONSTANT Slots          \* the indices of the slots

VARIABLES
  slot,     \* the number of the connection in each slot, 0 for a free one
  waiting,  \* how many connections wait to be accepted
  accepted  \* how many connections have been accepted

vars == <<slot, waiting, accepted>>

Init ==
  /\ slot = [k \in Slots |-> 0]
  /\ waiting = 0
  /\ accepted = 0

Connect ==
  /\ waiting' = waiting + 1
  /\ UNCHANGED <<slot, accepted>>

\* The connection that has waited longest gets slot k.
Accept(k) ==
  /\ waiting > 0
  /\ slot[k] = 0
  /\ slot' = [slot EXCEPT ![k] = accepted + 1]
  /\ waiting' = waiting - 1
  /\ accepted' = accepted + 1

Drop(k) ==
  /\ slot[k] # 0
  /\ slot' = [slot EXCEPT ![k] = 0]
  /\ UNCHANGED <<waiting, accepted>>

Next == Connect \/ \E k \in Slots : Accept(k) \/ Drop(k)

Spec == Init /\ [][Next]_vars
=============================================================================
