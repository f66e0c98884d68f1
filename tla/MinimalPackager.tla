--------------------------- MODULE MinimalPackager ---------------------------
(***************************************************************************)
(* MDDMinimalSerialPackager.h: a packager is filled with values, another   *)
(* one is set to its package and returns them.  Reals and integers are     *)
(* checked against the end of the buffer when they are added; nothing else *)
(* is, and what happens behind the end is not defined: pos "behind".       *)
(***************************************************************************)
EXTENDS Naturals, Sequences

CONSTANTS
  Sizes,    \* sizes of the buffers
  RealSize, IntegerSize, \* bytes of a double and an int (8 and 4 in the code)
  Integers, \* integers that are sent, below 256,
  Strings,  \*   and strings, sequences of characters other than 0
  MaxItems  \* bound: items of a package

VARIABLES
  from, to, \* the packagers: [buffer, bufferSize, pos, state]
  added,    \* items in from since it was cleared or reset: [kind, value]
  sent,     \* items of the package to is set to,
  got       \*   and what to returned of them, as bytes

vars == <<from, to, added, sent, got>>

PackagerAssumption ==
  /\ Sizes \subseteq Nat \ {0} /\ MaxItems \in Nat
  /\ RealSize \in Nat \ {0} /\ IntegerSize \in Nat \ {0}
  /\ Integers \subseteq Nat /\ Strings \subseteq Seq(Nat \ {0})

TypeOK ==
  /\ \A p \in {from, to} :
       /\ DOMAIN p.buffer \in {1 .. n : n \in Sizes}
       /\ p.bufferSize \in Sizes /\ p.pos \in Nat
       /\ p.state \in {"fine", "behind", "overflow"}
  /\ Len(added) <= MaxItems /\ Len(got) <= Len(sent)

\* The bytes of an item; the zero at the end is that of its string.
Zeros(n) == [k \in 1 .. n |-> 0]
Bytes(item) ==
  CASE item.kind = "real" -> Zeros(RealSize - 1) \o item.value
    [] item.kind = "integer" -> item.value \o Zeros(IntegerSize - 1)
    [] item.kind = "string" -> Append(item.value, 0)

Items == [kind : {"real", "integer"}, value : {<<v>> : v \in Integers}]
           \cup [kind : {"string"}, value : Strings]

\* MSP_createPackager
Created(n) == [buffer |-> Zeros(n), bufferSize |-> n, pos |-> 0, state |-> "fine"]

Init ==
  /\ \E m, n \in Sizes : from = Created(m) /\ to = Created(n)
  /\ added = <<>> /\ sent = <<>> /\ got = <<>>

\* memcpy to p.buffer + pos
Copied(p, pos, bytes) ==
  [k \in DOMAIN p.buffer |->
     IF k - pos \in DOMAIN bytes THEN bytes[k - pos] ELSE p.buffer[k]]

Put(p, bytes) ==
  IF p.pos + Len(bytes) <= Len(p.buffer)
    THEN [p EXCEPT !.buffer = Copied(p, p.pos, bytes), !.pos = p.pos + Len(bytes)]
    ELSE [p EXCEPT !.state = "behind"]

\* MSP_addReal, MSP_addInteger: an item that does not fit is an error.
AddNumber(item) ==
  /\ item.kind # "string"
  /\ from' = IF from.pos + Len(Bytes(item)) > from.bufferSize
               THEN [from EXCEPT !.state = "overflow"]
               ELSE Put(from, Bytes(item))

\* MSP_addString: the string and its end, which is looked for in bufferSize characters; there
\* is no check.
AddString(item) ==
  /\ item.kind = "string"
  /\ from' = Put(from, Bytes(item))

Running == from.state = "fine" /\ to.state = "fine"

Add(item) ==
  /\ Running /\ Len(added) < MaxItems
  /\ AddNumber(item) \/ AddString(item)
  /\ added' = IF from'.state = "fine" THEN Append(added, item) ELSE added
  /\ UNCHANGED <<to, sent, got>>

\* MSP_resetPointer: what was added is still there.
ResetPointer ==
  /\ Running /\ from.pos > 0
  /\ from' = [from EXCEPT !.pos = 0]
  /\ added' = <<>> /\ UNCHANGED <<to, sent, got>>

\* MSP_clear
Clear ==
  /\ Running
  /\ from' = [from EXCEPT !.pos = 0, !.buffer =
                [k \in DOMAIN @ |-> IF k <= from.bufferSize THEN 0 ELSE @[k]]]
  /\ added' = <<>> /\ UNCHANGED <<to, sent, got>>

\* MSP_getPackage of one and MSP_setPackage of the other, with MSP_getBufferSize of the first:
\* bufferSize is then that of the package, whatever was allocated.
SetPackage ==
  /\ Running
  /\ to' = IF from.bufferSize > Len(to.buffer)
             THEN [to EXCEPT !.state = "behind"]
             ELSE [to EXCEPT !.buffer = Copied(to, 0, SubSeq(from.buffer, 1, from.bufferSize)),
                             !.bufferSize = from.bufferSize, !.pos = 0]
  /\ sent' = added /\ got' = <<>> /\ UNCHANGED <<from, added>>

\* MSP_getReal, MSP_getInteger: as many bytes as the value has
Number(n) == SubSeq(to.buffer, to.pos + 1, to.pos + n)

\* MSP_getString: up to the first zero, or the end of the buffer
String ==
  LET end == CHOOSE k \in to.pos + 1 .. to.bufferSize + 1 :
               /\ k > to.bufferSize \/ to.buffer[k] = 0
               /\ \A j \in to.pos + 1 .. k - 1 : to.buffer[j] # 0
  IN  SubSeq(to.buffer, to.pos + 1, end)

\* The receiver takes the items in the order they were added in.
Get ==
  /\ Running /\ Len(got) < Len(sent)
  /\ LET kind == sent[Len(got) + 1].kind
         bytes == CASE kind = "real" -> Number(RealSize)
                    [] kind = "integer" -> Number(IntegerSize)
                    [] kind = "string" -> String
     IN  got' = Append(got, bytes) /\ to' = [to EXCEPT !.pos = @ + Len(bytes)]
  /\ UNCHANGED <<from, added, sent>>

Ended == ~Running /\ UNCHANGED vars

Next ==
  \/ \E item \in Items : Add(item)
  \/ ResetPointer \/ Clear \/ SetPackage \/ Get \/ Ended

Spec == Init /\ [][Next]_vars

----------------------------------------------------------------------------
(* Properties *)

\* The receiver of a package reads back what was added to it, item by item, whatever the
\* packages before it left in the buffers of both.
RoundTrip == to.state = "fine" => \A k \in DOMAIN got : got[k] = Bytes(sent[k])
=============================================================================
