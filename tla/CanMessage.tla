----------------------------- MODULE CanMessage ------------------------------
(***************************************************************************)
(* MDDCANMessage.h: the eight bytes of a CAN message, into which the       *)
(* blocks of Incubate/Blocks/Packager pack a value each, at every trigger  *)
(* into the same message.                                                  *)
(*                                                                         *)
(* A message is a function on its 64 bits, bit i being bit i % 8, counted  *)
(* from the least significant one, of byte i \div 8.  Packed integers      *)
(* count bits like that.  A float that does not begin at a byte is shifted *)
(* through the bytes from their most significant bit on.  A float is a     *)
(* function on its 32 bits, a double one on its 64 bits.                   *)
(***************************************************************************)
EXTENDS Integers

CONSTANTS
  Fields,   \* what the blocks of a model pack: kind, first bit and width in bits
  IntSize,  \* bits of an int (32 in the code)
  Ints,     \* integers that are packed
  Patterns  \* bits of the floats and doubles that are packed, as functions on 0 .. 63

VARIABLES
  msg,        \* data of the CANMessage
  packed,     \* history: the value last packed into each field that still holds it
  dirty       \* history: shifted floats last packed over bits that were set

vars == <<msg, packed, dirty>>

Bits == 0 .. 63

PowerOfTwo(j) ==
  LET p[k \in 0 .. j] == IF k = 0 THEN 1 ELSE 2 * p[k - 1] IN p[j]

\* The values of an int, and what one holds of a number: two's complement
SignBit == PowerOfTwo(IntSize - 1)
Wrapped(x) == ((x + SignBit) % (2 * SignBit)) - SignBit

\* Fields as the parameters of the blocks have them (bitStartPosition and length of
\* PackInteger, at most 63 and 32; bitStartPosition of PackFloat, at most 32).  That an integer
\* ends within the message is left to the modeller: nothing checks it.
CanMessageAssumption ==
  /\ IntSize \in Nat \ {0, 1}
  /\ Ints \subseteq -SignBit .. SignBit - 1
  /\ Patterns \subseteq [Bits -> {0, 1}]
  /\ \A f \in Fields :
       \/ /\ f.kind = "integer" /\ f.start \in Bits /\ f.width \in 0 .. IntSize
          /\ f.start + f.width <= 64
       \/ f.kind = "float" /\ f.start \in 0 .. 32 /\ f.width = 32
       \/ f.kind = "double" /\ f.start = 0 /\ f.width = 64

Values(f) == IF f.kind = "integer" THEN Ints ELSE Patterns

TypeOK ==
  /\ msg \in [Bits -> {0, 1}]
  /\ DOMAIN packed \subseteq Fields
  /\ \A f \in DOMAIN packed : packed[f] \in Values(f)
  /\ dirty \subseteq Fields

Init ==
  /\ msg = [i \in Bits |-> 0]
  /\ packed = [f \in {} |-> 0]
  /\ dirty = {}

----------------------------------------------------------------------------

\* 0x0001 & (v >> j), the sign being shifted too
BitOf(v, j) == (v \div PowerOfTwo(j)) % 2

IntegerBitpackingSets(m, start, width, data) ==
  [i \in Bits |-> IF i \in start .. start + width - 1 /\ BitOf(data, i - start) = 1
                  THEN 1 ELSE m[i]]

\* MDD_CANMessageIntegerBitpacking: bits are set and unset one by one.
IntegerBitpacking(m, start, width, data) ==
  [i \in Bits |-> IF i \in start .. start + width - 1 THEN BitOf(data, i - start) ELSE m[i]]

\* MDD_CANMessageIntegerBitunpacking: the loop's data and factor after j turns.  The factor of
\* the last bit of an int is negative.
IntegerBitunpacking(m, start, width) ==
  LET turn[j \in 0 .. width] ==
        IF j = 0 THEN [data |-> 0, factor |-> 1]
        ELSE [data |-> Wrapped(turn[j - 1].data + m[start + j - 1] * turn[j - 1].factor),
              factor |-> Wrapped(PowerOfTwo(j))]
  IN  turn[width].data

\* Bit k of byte b of message m or of a float, counted from the most significant one.
Place(b, k) == (8 * b) + (7 - k)

OrAdds(x, y) == x + y

\* The or of two bits
Or(x, y) == IF x = 1 \/ y = 1 THEN 1 ELSE 0

(* One turn of the loop of MDD_CANMessageFloatBitpacking: byte j of the    *)
(* float goes behind the first off bits of byte b and into the first off   *)
(* bits of the next one.  (x << off) >> off is done in int and keeps all   *)
(* bits of x, so that the old first bits of the next byte stay and are     *)
(* or-ed with the new ones.                                                *)
PackByte(m, b, off, data, j) ==
  [i \in Bits |->
     LET k == 7 - (i % 8)
     IN  CASE i \div 8 = b     /\ k >= off -> data[Place(j, k - off)]
           [] i \div 8 = b + 1 /\ k < off  -> Or(m[i], data[Place(j, 8 - off + k)])
           [] OTHER -> m[i]]

FloatBitpacking(m, start, data) ==
  LET b == start \div 8
      off == start % 8
      Turn(n, j) == PackByte(n, b + j, off, data, j)
  IN  IF off # 0
      THEN Turn(Turn(Turn(Turn(m, 0), 1), 2), 3)
      ELSE [i \in Bits |-> IF i \in start .. start + 31 THEN data[i - start] ELSE m[i]]

\* MDD_CANMessageFloatBitunpacking
FloatBitunpacking(m, start) ==
  LET b == start \div 8
      off == start % 8
  IN  [i \in 0 .. 31 |->
         LET j == i \div 8
             k == 7 - (i % 8)
         IN  IF off = 0 THEN m[start + i]
             ELSE IF k + off < 8 THEN m[Place(b + j, k + off)] ELSE m[Place(b + j + 1, k + off - 8)]]

\* MDD_CANMessageDoubleBitpacking and -unpacking copy eight bytes.
DoubleBitpacking(data) == data
DoubleBitunpacking(m) == m

----------------------------------------------------------------------------

\* Fields that share a bit.  A shifted float takes bits of the bytes it reaches, from the
\* most significant one.
Shifted(f) == f.kind = "float" /\ f.start % 8 # 0
BitsOf(f) ==
  IF Shifted(f)
  THEN {Place((i \div 8), (i % 8)) : i \in f.start .. f.start + 31}
  ELSE f.start .. f.start + f.width - 1

Overlap(f, g) == BitsOf(f) \cap BitsOf(g) # {}

Pack(f, v) ==
  /\ msg' = CASE f.kind = "integer" -> IntegerBitpacking(msg, f.start, f.width, v)
              [] f.kind = "float"   -> FloatBitpacking(msg, f.start, v)
              [] f.kind = "double"  -> DoubleBitpacking(v)
  /\ packed' = [g \in {h \in DOMAIN packed : ~Overlap(f, h)} \cup {f} |->
                  IF g = f THEN v ELSE packed[g]]
  /\ dirty' = IF Shifted(f) /\ \E i \in BitsOf(f) : msg[i] = 1
              THEN dirty \cup {f} ELSE dirty \ {f}

Next == \E f \in Fields : \E v \in Values(f) : Pack(f, v)

Spec == Init /\ [][Next]_vars

----------------------------------------------------------------------------
(* Properties *)

Unpacks(f) ==
  f \in DOMAIN packed =>
    CASE f.kind = "integer" ->
           LET data == IntegerBitunpacking(msg, f.start, f.width)
           IN  data = IF f.width = IntSize THEN packed[f] ELSE packed[f] % PowerOfTwo(f.width)
      [] f.kind = "float"   -> FloatBitunpacking(msg, f.start) = [i \in 0 .. 31 |-> packed[f][i]]
      [] f.kind = "double"  -> DoubleBitunpacking(msg) = packed[f]

\* Every field unpacks to the value last packed into it, whatever was packed into the
\* fields beside it, and into itself before; an integer modulo its width (124-136).  Floats
\* that do not begin at a byte are left out when packed over bits that were set.
MessageRoundTrip == \A f \in Fields \ dirty : Unpacks(f)

\* "Need to overwrite the first byteBitOffset bits in msg->data[i+1]" (166): a float does
\* not read back mixed with what was in its place before.
FloatOverwritten == \A f \in Fields : f.kind = "float" => Unpacks(f)
=============================================================================
