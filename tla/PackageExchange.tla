--------------------------- MODULE PackageExchange ---------------------------
(***************************************************************************)
(* Two chains of packaging blocks (Blocks/Packaging/SerialPackager.mo): a  *)
(* Packager with Add and Pack blocks that ends in a UDPSend block, and a   *)
(* UDPReceive block with the mirrored Get and Unpack blocks, in another    *)
(* simulation on another host.  Or, in one simulation, the writing blocks, *)
(* a ResetPointer block and the reading blocks on the same package.        *)
(*                                                                         *)
(* When a simulation is initialised, the sizes propagate backwards through *)
(* its chain and size the buffers; then each trigger runs the blocks in    *)
(* order.  A block is a record: op with the parameters of the operation.   *)
(* ModelicaError and assert stop the simulation they happen in.            *)
(***************************************************************************)
EXTENDS SerialPackager, Sequences

CONSTANTS
  Blocks,       \* blocks a chain is built from
  MaxBlocks,    \* bound: length of a chain
  UserSizes,    \* buffer sizes a user may set, besides 0: sized automatically
  Hosts,        \* pairs of byte orders: of the sending and the receiving host
  MaxCycles     \* bound: how often the sender is triggered

Arrays == [op : {"array"}, unit : Nat \ {0}, n : Nat, endian : {Little, Big}]
Strings == [op : {"string"}, bufferSize : Nat \ {0}]
Packed == [op : {"pack"}, bitOffset : Nat, width : 1 .. 32]

ASSUME ExchangeAssumption ==
  /\ Blocks \subseteq Arrays \cup Strings \cup Packed
  /\ MaxBlocks \in Nat
  /\ UserSizes \subseteq Nat \ {0}
  /\ Hosts \subseteq [tx : {Little, Big}, rx : {Little, Big}]
  /\ MaxCycles \in Nat

VARIABLES
  chain,      \* the blocks of each simulation
  loopback,   \* does one simulation read the package it has written?
  userSize,   \* the buffer size set by the user, or 0
  host,       \* the byte order of each host
  auto,       \* autoPkgBitSize at the input of each block, and behind the last
  pkg,        \* the packagers
  phase,      \* what each simulation is doing
  at,         \* the block it has come to
  cycle,      \* how often the sender was triggered
  u,          \* the values added to the package of this cycle, by block
  inbox,      \* the UDP receive buffer, and the values of the package in it
  taken,      \* the values of the package the readers work on
  y           \* what the readers returned, by block

config == <<chain, loopback, userSize, host>>
vars == <<config, auto, pkg, phase, at, cycle, u, inbox, taken, y>>

Sides == {"tx", "rx"}
Running == {"size", "idle", "run"}
Stopped == {"overflow", "refused", "undefined"}

\* The packager the blocks of a side work on.
Source(s) == IF loopback THEN "tx" ELSE s

Nothing == <<>>
End(s) == Len(chain[s]) + 1
Block(s) == chain[s][at[s]]

TypeOK ==
  /\ chain \in [Sides -> Seq(Blocks)]
  /\ loopback \in BOOLEAN
  /\ userSize \in [Sides -> UserSizes \cup {0}]
  /\ host \in Hosts
  /\ auto = [s \in Sides |-> auto[s]]
  /\ \A s \in Sides : auto[s] \in [1 .. End(s) -> Nat]
  /\ pkg = [s \in Sides |-> pkg[s]]
  /\ \A s \in Sides : IsPackager(pkg[s])
  /\ phase \in [Sides -> Running \cup Stopped]
  /\ at \in [Sides -> Nat \ {0}]
  /\ \A s \in Sides : at[s] <= End(s)
  /\ cycle \in 0 .. MaxCycles

Init ==
  /\ \E n \in 1 .. MaxBlocks : \E c \in [1 .. n -> Blocks] : \E m \in 1 .. n :
        chain = [tx |-> c, rx |-> SubSeq(c, 1, m)]
  /\ loopback \in BOOLEAN
  /\ userSize \in [Sides -> UserSizes \cup {0}]
  /\ host \in Hosts
  /\ auto = [s \in Sides |-> [i \in 1 .. End(s) |-> 0]]
  /\ pkg = [s \in Sides |-> New(0, host[s])]
  /\ phase = [tx |-> "size", rx |-> IF loopback THEN "idle" ELSE "size"]
  /\ at = [s \in Sides |-> End(s)]
  /\ cycle = 0
  /\ u = Nothing
  /\ inbox = [data |-> Nothing, u |-> Nothing]
  /\ taken = Nothing
  /\ y = Nothing

Goto(s, p, i) ==
  /\ phase' = [phase EXCEPT ![s] = p]
  /\ at' = [at EXCEPT ![s] = i]

----------------------------------------------------------------------------
(* Initialisation: backward propagation of the package size                *)

PayloadBytes(b) == IF b.op = "array" THEN b.unit * b.n ELSE b.bufferSize

AutoUnaligned(b, behind) ==
  IF b.op = "pack" THEN behind + b.bitOffset + b.width
                   ELSE behind + 8 * PayloadBytes(b)

\* A block's autoPkgBitSize, from that of the block behind it.
AutoPkgBitSize(b, behind) ==
  IF b.op = "pack" THEN behind + b.bitOffset + b.width
                   ELSE 8 * AlignAtByteBoundary(behind) + 8 * PayloadBytes(b)

Propagate(s) ==
  /\ phase[s] = "size"
  /\ at[s] > 1
  /\ auto' = [auto EXCEPT ![s][at[s] - 1] =
                AutoPkgBitSize(chain[s][at[s] - 1], auto[s][at[s]])]
  /\ Goto(s, "size", at[s] - 1)
  /\ UNCHANGED <<config, pkg, cycle, u, inbox, taken, y>>

BufferSize(s) ==
  IF userSize[s] # 0 THEN userSize[s] ELSE AlignAtByteBoundary(auto[s][1])

\* The packager is constructed, and for a receiver the socket with its buffer.
Build(s) ==
  /\ phase[s] = "size"
  /\ at[s] = 1
  /\ pkg' = [pkg EXCEPT ![s] = New(BufferSize(s), host[s])]
  /\ inbox' = IF s = "rx" THEN [data |-> New(BufferSize(s), host[s]).data, u |-> Nothing]
                          ELSE inbox
  /\ Goto(s, "idle", 1)
  /\ UNCHANGED <<config, auto, cycle, u, taken, y>>

----------------------------------------------------------------------------
(* The writing chain *)

\* The Packager block clears the package.  In one simulation, the blocks behind
\* ResetPointer have run by then.
Trigger ==
  /\ phase["tx"] = "idle"
  /\ loopback => phase["rx"] = "idle"
  /\ cycle < MaxCycles
  /\ cycle' = cycle + 1
  /\ pkg' = [pkg EXCEPT !["tx"] = Clear(@)]
  /\ u' = Nothing
  /\ Goto("tx", "run", 1)
  /\ UNCHANGED <<config, auto, inbox, taken, y>>

\* A value of this cycle: its bits are told apart by cycle, block and number.
Value(bits) == [k \in 0 .. bits - 1 |-> <<cycle, at["tx"], k>>]

Written(value, p) ==
  /\ u' = Append(u, value)
  /\ pkg' = [pkg EXCEPT !["tx"] = p]
  /\ Goto("tx", "run", at["tx"] + 1)
  /\ UNCHANGED <<config, auto, cycle, inbox, taken, y>>

Stops(s, why) ==
  /\ Goto(s, why, at[s])
  /\ UNCHANGED <<config, auto, pkg, cycle, u, inbox, taken, y>>

Runs(s, op) ==
  /\ phase[s] = "run"
  /\ at[s] < End(s)
  /\ Block(s).op = op

\* AddBoolean, AddInteger, AddReal, AddFloat: elements of 4, 4, 8 and 4 bytes.
AddElements ==
  /\ Runs("tx", "array")
  /\ LET b == Block("tx")
         value == Value(8 * b.unit * b.n)
     IN  IF Overflows(pkg["tx"], b.unit * b.n)
         THEN Stops("tx", "overflow")
         ELSE Written(value, AddArray(pkg["tx"], value, b.unit, b.n, b.endian))

\* The block asserts that the string and its NUL fit into the field.
AddText ==
  /\ Runs("tx", "string")
  /\ \E length \in 0 .. Block("tx").bufferSize :
       LET size == Block("tx").bufferSize
           value == Value(8 * length)
       IN  IF length + 1 > size THEN Stops("tx", "refused")
           ELSE IF Overflows(pkg["tx"], size) THEN Stops("tx", "overflow")
           ELSE Written(value, AddString(pkg["tx"], value, length, size))

\* A value that does not fit into the width is refused.
PackUnsigned ==
  /\ Runs("tx", "pack")
  /\ \E fits \in BOOLEAN :
       LET p == pkg["tx"]
           width == Block("tx").width
           offset == FromBit(p, Block("tx").bitOffset)
           value == Value(width)
       IN  IF RefusesOffset(p, offset) \/ (~fits /\ width < 32) THEN Stops("tx", "refused")
           ELSE IF OverflowsBits(p, offset, width) THEN Stops("tx", "overflow")
           ELSE Written(value, Bitpack(p, offset, width, value))

----------------------------------------------------------------------------
(* UDPSend sends the whole buffer.  The datagram is lost, or it replaces   *)
(* what the receiving socket holds, cut off at the size of its buffer.     *)

Send ==
  /\ ~loopback
  /\ phase["tx"] = "run" /\ at["tx"] = End("tx")
  /\ Goto("tx", "idle", at["tx"])
  /\ \/ UNCHANGED inbox
     \/ /\ inbox.data # Nothing
        /\ inbox' = [data |-> Overwrite(inbox.data, pkg["tx"].data), u |-> u]
  /\ UNCHANGED <<config, auto, pkg, cycle, u, taken, y>>

\* ResetPointer: the reading blocks go on with the same package.
ResetPointer ==
  /\ loopback
  /\ phase["tx"] = "run" /\ at["tx"] = End("tx")
  /\ pkg' = [pkg EXCEPT !["tx"] = SetPos(@, 0)]
  /\ phase' = [tx |-> "idle", rx |-> "run"]
  /\ at' = [at EXCEPT !["rx"] = 1]
  /\ taken' = u
  /\ y' = Nothing
  /\ UNCHANGED <<config, auto, cycle, u, inbox>>

----------------------------------------------------------------------------
(* The reading chain *)

\* UDPReceive: MDD_udpReadP2 copies the buffer of the socket, old or new.
Receive ==
  /\ ~loopback
  /\ phase["rx"] = "idle"
  /\ pkg' = [pkg EXCEPT !["rx"] = SetData(@, inbox.data)]
  /\ taken' = inbox.u
  /\ y' = Nothing
  /\ Goto("rx", "run", 1)
  /\ UNCHANGED <<config, auto, cycle, u, inbox>>

Returned(value, p) ==
  /\ y' = Append(y, value)
  /\ pkg' = [pkg EXCEPT ![Source("rx")] = p]
  /\ Goto("rx", "run", at["rx"] + 1)
  /\ UNCHANGED <<config, auto, cycle, u, inbox, taken>>

GetElements ==
  /\ Runs("rx", "array")
  /\ LET b == Block("rx")
         p == pkg[Source("rx")]
     IN  IF Overflows(p, b.unit * b.n)
         THEN Stops("rx", "overflow")
         ELSE Returned(GetArray(p, b.unit, b.n, b.endian), Skip(p, b.unit * b.n))

GetText ==
  /\ Runs("rx", "string")
  /\ LET b == Block("rx")
         p == pkg[Source("rx")]
     IN  IF Overflows(p, b.bufferSize)
         THEN Stops("rx", "overflow")
         ELSE Returned(GetString(p, b.bufferSize), Skip(p, b.bufferSize))

\* More bytes than the scratch array has room for: what happens is undefined.
UnpackUnsigned ==
  /\ Runs("rx", "pack")
  /\ LET p == pkg[Source("rx")]
         width == Block("rx").width
         offset == FromBit(p, Block("rx").bitOffset)
     IN  IF RefusesOffset(p, offset) THEN Stops("rx", "refused")
         ELSE IF OverflowsBits(p, offset, width) THEN Stops("rx", "overflow")
         ELSE IF BytesTakenApart(offset, width) > ScratchBytes THEN Stops("rx", "undefined")
         ELSE Returned(BitunpackValue(p, offset, width), Bitunpack(p, offset, width))

Finish ==
  /\ phase["rx"] = "run" /\ at["rx"] = End("rx")
  /\ Goto("rx", "idle", at["rx"])
  /\ UNCHANGED <<config, auto, pkg, cycle, u, inbox, taken, y>>

Next ==
  \/ \E s \in Sides : Propagate(s) \/ Build(s)
  \/ Trigger \/ AddElements \/ AddText \/ PackUnsigned \/ Send \/ ResetPointer
  \/ Receive \/ GetElements \/ GetText \/ UnpackUnsigned \/ Finish

Spec == Init /\ [][Next]_vars

----------------------------------------------------------------------------
(* Properties *)

\* A buffer that is sized automatically fits its chain exactly: no block finds it too
\* small, and the last one fills its last byte.  The sizes add up backwards, block by
\* block (autoPkgBitSize in SerialPackager.mo), the operations align and count forwards.
AutoSizeExact ==
  \A s \in Sides :
    userSize[Source(s)] = 0 =>
      /\ phase[s] # "overflow"
      /\ phase[s] = "run" /\ at[s] = Len(chain[Source(s)]) + 1 =>
           AlignAtByteBoundary(Cursor(pkg[Source(s)])) = pkg[Source(s)].size

\* Whatever the size of the buffer: no operation that succeeds has reached beyond it.
\* Each one checks the place it is about to use (after aligning, if it aligns).
CursorInBounds ==
  \A s \in Sides : Cursor(pkg[s]) <= 8 * pkg[s].size

\* A reader returns what the writer of the same block put into the package, bit for bit,
\* whatever the byte orders of the two hosts and the blocks in front of it; all of one
\* pass belongs to one package.  Before the first package it returns zeros.
RoundTrip ==
  \A i \in DOMAIN y :
    IF taken = Nothing THEN \A k \in DOMAIN y[i] : y[i][k] = Zero
                       ELSE y[i] = taken[i]

\* Widths up to 32 are allowed at every bit offset ("width bit-width of region encoding
\* the integer value (max=32)", MDDSerialPackager.h:505).
ScratchSuffices == phase["rx"] # "undefined"

----------------------------------------------------------------------------
(* The inductive invariant behind AutoSizeExact and CursorInBounds         *)

\* The readers mirror the first blocks of the writer.
ChainInv ==
  /\ Len(chain["rx"]) <= Len(chain["tx"])
  /\ \A i \in 1 .. Len(chain["rx"]) : chain["rx"][i] = chain["tx"][i]

\* In one simulation the readers run between two runs of the writers.
LoopbackInv ==
  loopback => /\ phase["rx"] # "size"
              /\ phase["rx"] # "idle" => phase["tx"] = "idle"

\* The sizes propagated so far obey the equations of their blocks.
Sized(s) == IF phase[s] = "size" THEN at[s] ELSE 1
SizesInv ==
  \A s \in Sides : Source(s) = s =>
    /\ auto[s][End(s)] = 0
    /\ \A i \in Sized(s) .. Len(chain[s]) :
         auto[s][i] = AutoPkgBitSize(chain[s][i], auto[s][i + 1])

\* The buffer has the size of the whole chain.
BuiltInv ==
  \A s \in Sides : Source(s) = s /\ phase[s] # "size" => pkg[s].size = BufferSize(s)

\* At every block, what is written and what is still to come make up the buffer.
RoomInv ==
  \A s \in Sides : phase[s] = "run" /\ userSize[Source(s)] = 0 =>
    AlignAtByteBoundary(Cursor(pkg[Source(s)]) + auto[Source(s)][at[s]])
      = pkg[Source(s)].size

NoOverflowInv ==
  \A s \in Sides : userSize[Source(s)] = 0 => phase[s] # "overflow"

IInv ==
  /\ TypeOK
  /\ ChainInv
  /\ LoopbackInv
  /\ SizesInv
  /\ BuiltInv
  /\ RoomInv
  /\ NoOverflowInv
  /\ CursorInBounds
=============================================================================
