--------------------------- MODULE SerialPackager ---------------------------
(***************************************************************************)
(* The packager of MDDSerialPackager.h: a byte buffer with a byte position *)
(* and, behind it, a bit offset.  Its operations are operators on a record *)
(* with the fields of the C struct (size and allocSize, which never        *)
(* differ, are one).                                                       *)
(*                                                                         *)
(* The buffer is a function on bits: bit k of byte j is cell 8 * j + k.  A *)
(* cell holds Zero or a bit of a value somebody added.  A value is a       *)
(* function from 0 to its bits, the least significant bit of its first     *)
(* element first; that of a string is the bits of its characters, without  *)
(* the terminating NUL.                                                    *)
(***************************************************************************)
EXTENDS Integers

Zero == <<>>
Little == "little"
Big == "big"

\* The minimum number of bytes required to encode the specified number of bits.
AlignAtByteBoundary(bitSize) == (bitSize + 7) \div 8

New(size, endian) ==
  [pos |-> 0, bitOffset |-> 0, size |-> size, endian |-> endian,
   data |-> [c \in 0 .. 8 * size - 1 |-> Zero]]

\* The type of a packager: its fields, and a cell for every bit of its buffer.
IsPackager(p) ==
  /\ DOMAIN p = {"pos", "bitOffset", "size", "endian", "data"}
  /\ p.pos \in Nat /\ p.bitOffset \in Nat /\ p.size \in Nat
  /\ p.endian \in {Little, Big}
  /\ DOMAIN p.data = 0 .. 8 * p.size - 1

\* The number of the bit that is read or written next.
Cursor(p) == 8 * p.pos + p.bitOffset

SetPosOneBased(p, pos) == [p EXCEPT !.pos = pos - 1, !.bitOffset = 0]

SetPos(p, pos) == [p EXCEPT !.pos = pos, !.bitOffset = 0]

\* What memcpy leaves: the new data, and behind it the old.
Overwrite(old, new) == [c \in DOMAIN old |-> IF c \in DOMAIN new THEN new[c] ELSE old[c]]

\* The callers pass data that is not longer than the buffer.
SetData(p, data) ==
  [p EXCEPT !.pos = 0, !.bitOffset = 0, !.data = Overwrite(p.data, data)]

Clear(p) ==
  [p EXCEPT !.pos = 0, !.bitOffset = 0, !.data = [c \in DOMAIN p.data |-> Zero]]

AlignToByteBoundary(p) ==
  [p EXCEPT !.pos = @ + AlignAtByteBoundary(p.bitOffset), !.bitOffset = 0]

\* A check that forgets the bits behind the byte position.
OverflowsUnaligned(p, bytes) == p.pos + bytes > p.size

\* What every Add and Get checks once the cursor is at a byte boundary.
Overflows(p, bytes) == AlignToByteBoundary(p).pos + bytes > p.size

----------------------------------------------------------------------------
(* Arrays of n elements of unit bytes: int, double, float                  *)

SwapsForBig(p, endian) == endian = Big

SwapsBytes(p, endian) == {endian, p.endian} = {Little, Big}

(* The place in memory of bit k of an array.  A host stores an element in  *)
(* its own byte order; a swap turns the bytes of each element round.  Both *)
(* are their own inverse: the operator is also the bit of the array that   *)
(* is found at place k.                                                    *)
Place(p, unit, endian, k) ==
  LET element == k \div (8 * unit)
      byte    == (k \div 8) % unit
      turned  == (p.endian = Big) # SwapsBytes(p, endian)
  IN  8 * (element * unit + (IF turned THEN unit - 1 - byte ELSE byte)) + (k % 8)

\* bytes bytes with the given cells, at the next byte boundary.
AddBytes(p, cells, bytes) ==
  LET q == AlignToByteBoundary(p)
      first == 8 * q.pos
  IN  [q EXCEPT !.pos = @ + bytes,
                !.data = [c \in DOMAIN p.data |->
                            IF c \in first .. first + 8 * bytes - 1
                            THEN cells[c - first] ELSE p.data[c]]]

AddArray(p, u, unit, n, endian) ==
  AddBytes(p, [c \in 0 .. 8 * unit * n - 1 |-> u[Place(p, unit, endian, c)]], unit * n)

GetArray(p, unit, n, endian) ==
  LET q == AlignToByteBoundary(p)
  IN  [k \in 0 .. 8 * unit * n - 1 |-> p.data[8 * q.pos + Place(p, unit, endian, k)]]

\* The packager after a Get: it does not depend on what is read.
Skip(p, bytes) ==
  LET q == AlignToByteBoundary(p) IN [q EXCEPT !.pos = @ + bytes]

----------------------------------------------------------------------------
(* Strings of up to length characters in a field of bufferSize bytes       *)

\* strncpy pads with NULs; the last byte of the field is set to NUL in any case.
AddString(p, u, length, bufferSize) ==
  AddBytes(p, [c \in 0 .. 8 * bufferSize - 1 |->
                 IF c \div 8 < length /\ c \div 8 < bufferSize - 1 THEN u[c] ELSE Zero],
           bufferSize)

IsNull(p, byte) == \A k \in 0 .. 7 : p.data[8 * byte + k] = Zero

\* The characters in front of the first NUL, or the whole field.
GetString(p, bufferSize) ==
  LET first == AlignToByteBoundary(p).pos
      chars == {j \in 0 .. bufferSize - 1 : \A i \in 0 .. j : ~IsNull(p, first + i)}
  IN  [k \in {8 * j + i : j \in chars, i \in 0 .. 7} |-> p.data[8 * first + k]]

----------------------------------------------------------------------------
(* Unsigned integers of width bits, from bit bitOffset of the current byte *)

RefusesOffset(p, bitOffset) == bitOffset < p.bitOffset

OverflowsBits(p, bitOffset, width) ==
  p.pos + AlignAtByteBoundary(bitOffset + width) > p.size

Bitpack(p, bitOffset, width, u) ==
  LET first == 8 * p.pos + bitOffset
  IN  [p EXCEPT !.bitOffset = bitOffset + width,
                !.data = [c \in DOMAIN p.data |->
                            IF c \in first .. first + width - 1 THEN u[c - first]
                                                                ELSE p.data[c]]]

(* Unpacking takes the bytes that hold the value apart into bits[32], an   *)
(* array for the bits of four bytes.                                       *)
ScratchBytes == 4
BytesTakenApart(bitOffset, width) ==
  AlignAtByteBoundary(bitOffset + width) - bitOffset \div 8

BitunpackValue(p, bitOffset, width) ==
  [k \in 0 .. width - 1 |-> p.data[8 * p.pos + bitOffset + k]]

Bitunpack(p, bitOffset, width) == [p EXCEPT !.bitOffset = bitOffset + width]

\* The Modelica functions count from the current bit: Bitpack2 and Bitunpack2.
FromBit(p, bitOffset) == p.bitOffset + bitOffset
=============================================================================
