------------------------ MODULE PackageExchangeProofs ------------------------
(***************************************************************************)
(* For every set of blocks and every length of a chain: a buffer sized by  *)
(* backward propagation fits its chain exactly, no operation reaches       *)
(* beyond the buffer, and the readers return what the writers added.       *)
(***************************************************************************)
EXTENDS PackageExchange, TLAPS

----------------------------------------------------------------------------
(* Bytes and bits *)

\* Whole bytes in front of a number of bits count in full.
LEMMA AlignSum ==
  ASSUME NEW a \in Nat, NEW b \in Nat
  PROVE  /\ AlignAtByteBoundary(b) \in Nat
         /\ 8 * AlignAtByteBoundary(b) >= b
         /\ AlignAtByteBoundary(8 * a + b) = a + AlignAtByteBoundary(b)
BY DEF AlignAtByteBoundary

----------------------------------------------------------------------------
(* What the operations of the packager do to its cursor and its size *)

\* MDD_SerialPackagerConstructor.
LEMMA NewPackager ==
  ASSUME NEW size \in Nat, NEW endian \in {Little, Big}
  PROVE  /\ IsPackager(New(size, endian))
         /\ Cursor(New(size, endian)) = 0
         /\ New(size, endian).size = size
BY DEF New, IsPackager, Cursor

\* Clear, SetPos(0) and SetData start at the first bit.
LEMMA Restarted ==
  ASSUME NEW p, IsPackager(p), NEW data
  PROVE  /\ IsPackager(Clear(p)) /\ Cursor(Clear(p)) = 0 /\ Clear(p).size = p.size
         /\ IsPackager(SetPos(p, 0)) /\ Cursor(SetPos(p, 0)) = 0
         /\ SetPos(p, 0).size = p.size
         /\ IsPackager(SetData(p, data)) /\ Cursor(SetData(p, data)) = 0
         /\ SetData(p, data).size = p.size
<1>1. IsPackager(Clear(p)) /\ Cursor(Clear(p)) = 0 /\ Clear(p).size = p.size
  BY DEF Clear, IsPackager, Cursor
<1>2. /\ IsPackager(SetPos(p, 0)) /\ Cursor(SetPos(p, 0)) = 0
      /\ SetPos(p, 0).size = p.size
  BY DEF SetPos, IsPackager, Cursor
<1>3. /\ IsPackager(SetData(p, data)) /\ Cursor(SetData(p, data)) = 0
      /\ SetData(p, data).size = p.size
  BY DEF SetData, IsPackager, Cursor, Overwrite
<1>4. QED  BY <1>1, <1>2, <1>3

\* Aligning moves the cursor to the next byte boundary, by less than a byte.
LEMMA Aligned ==
  ASSUME NEW p, IsPackager(p)
  PROVE  LET q == AlignToByteBoundary(p)
         IN  /\ IsPackager(q)
             /\ q.bitOffset = 0
             /\ q.pos = p.pos + AlignAtByteBoundary(p.bitOffset)
             /\ q.pos = AlignAtByteBoundary(Cursor(p))
             /\ q.size = p.size
<1>1. AlignAtByteBoundary(p.bitOffset) \in Nat
      /\ AlignAtByteBoundary(Cursor(p)) = p.pos + AlignAtByteBoundary(p.bitOffset)
  BY AlignSum DEF IsPackager, Cursor
<1>2. QED  BY <1>1 DEF AlignToByteBoundary, IsPackager

\* An Add of bytes bytes moves the cursor behind them, and so does the Get.
LEMMA Moved ==
  ASSUME NEW p, IsPackager(p), NEW cells, NEW bytes \in Nat
  PROVE  LET after == 8 * (AlignAtByteBoundary(Cursor(p)) + bytes)
         IN  /\ IsPackager(AddBytes(p, cells, bytes))
             /\ Cursor(AddBytes(p, cells, bytes)) = after
             /\ AddBytes(p, cells, bytes).size = p.size
             /\ IsPackager(Skip(p, bytes))
             /\ Cursor(Skip(p, bytes)) = after
             /\ Skip(p, bytes).size = p.size
<1> DEFINE q == AlignToByteBoundary(p)
<1>1. /\ IsPackager(q) /\ q.bitOffset = 0 /\ q.size = p.size
      /\ q.pos = AlignAtByteBoundary(Cursor(p))
  BY Aligned
<1> HIDE DEF q
<1>2. /\ IsPackager(Skip(p, bytes)) /\ Skip(p, bytes).size = p.size
      /\ Cursor(Skip(p, bytes)) = 8 * (q.pos + bytes)
  <2>1. Skip(p, bytes) = [q EXCEPT !.pos = @ + bytes]
    BY DEF Skip, q
  <2>2. QED  BY <1>1, <2>1 DEF IsPackager, Cursor
<1>3. /\ IsPackager(AddBytes(p, cells, bytes)) /\ AddBytes(p, cells, bytes).size = p.size
      /\ Cursor(AddBytes(p, cells, bytes)) = 8 * (q.pos + bytes)
  <2> DEFINE data == [c \in DOMAIN p.data |->
                        IF c \in 8 * q.pos .. 8 * q.pos + 8 * bytes - 1
                        THEN cells[c - 8 * q.pos] ELSE p.data[c]]
  <2>1. AddBytes(p, cells, bytes) = [q EXCEPT !.pos = @ + bytes, !.data = data]
    BY DEF AddBytes, q
  <2>2. DOMAIN data = 0 .. 8 * p.size - 1
    BY DEF IsPackager
  <2> HIDE DEF data
  <2>3. QED  BY <1>1, <2>1, <2>2 DEF IsPackager, Cursor
<1>4. QED  BY <1>1, <1>2, <1>3

\* Packing and unpacking move the cursor behind the value, without aligning.
LEMMA MovedBits ==
  ASSUME NEW p, IsPackager(p), NEW skip \in Nat, NEW width \in Nat, NEW value
  PROVE  LET offset == FromBit(p, skip)
             packed == Bitpack(p, offset, width, value)
             unpacked == Bitunpack(p, offset, width)
         IN  /\ IsPackager(packed) /\ packed.size = p.size
             /\ Cursor(packed) = Cursor(p) + skip + width
             /\ IsPackager(unpacked) /\ unpacked.size = p.size
             /\ Cursor(unpacked) = Cursor(p) + skip + width
<1> DEFINE offset == FromBit(p, skip)
           first == 8 * p.pos + offset
           data == [c \in DOMAIN p.data |-> IF c \in first .. first + width - 1
                                            THEN value[c - first] ELSE p.data[c]]
<1>0. p.pos \in Nat /\ p.bitOffset \in Nat
  BY DEF IsPackager
<1>1. offset \in Nat /\ offset = p.bitOffset + skip
  BY DEF FromBit, IsPackager
<1>2. Bitpack(p, offset, width, value)
        = [p EXCEPT !.bitOffset = offset + width, !.data = data]
  BY DEF Bitpack
<1>3. Bitunpack(p, offset, width) = [p EXCEPT !.bitOffset = offset + width]
  BY DEF Bitunpack
<1>4. DOMAIN data = 0 .. 8 * p.size - 1
  BY DEF IsPackager
<1> HIDE DEF offset, first, data
<1>5. /\ IsPackager(Bitpack(p, offset, width, value))
      /\ Bitpack(p, offset, width, value).size = p.size
      /\ Cursor(Bitpack(p, offset, width, value)) = Cursor(p) + skip + width
  <2> DEFINE q == Bitpack(p, offset, width, value)
  <2>1. /\ DOMAIN q = {"pos", "bitOffset", "size", "endian", "data"}
        /\ q.pos = p.pos /\ q.bitOffset = offset + width /\ q.size = p.size
        /\ q.endian = p.endian /\ q.data = data
    BY <1>2 DEF IsPackager
  <2> HIDE DEF q
  <2>2. IsPackager(q)
    BY <1>1, <1>4, <2>1 DEF IsPackager
  <2>3. Cursor(q) = Cursor(p) + skip + width
    BY <1>0, <1>1, <2>1 DEF Cursor
  <2>4. QED  BY <2>1, <2>2, <2>3 DEF q
<1>6. /\ IsPackager(Bitunpack(p, offset, width))
      /\ Bitunpack(p, offset, width).size = p.size
      /\ Cursor(Bitunpack(p, offset, width)) = Cursor(p) + skip + width
  <2> DEFINE q == Bitunpack(p, offset, width)
  <2>1. /\ DOMAIN q = {"pos", "bitOffset", "size", "endian", "data"}
        /\ q.pos = p.pos /\ q.bitOffset = offset + width /\ q.size = p.size
        /\ q.endian = p.endian /\ q.data = p.data
    BY <1>3 DEF IsPackager
  <2> HIDE DEF q
  <2>2. IsPackager(q)
    BY <1>1, <2>1 DEF IsPackager
  <2>3. Cursor(q) = Cursor(p) + skip + width
    BY <1>0, <1>1, <2>1 DEF Cursor
  <2>4. QED  BY <2>1, <2>2, <2>3 DEF q
<1>7. QED  BY <1>5, <1>6 DEF offset

----------------------------------------------------------------------------
(* What is written and what is to come                                     *)

\* What the cursor passes and what is still to come add up to the same bytes, before
\* and after an operation of so many bytes.
LEMMA Room ==
  ASSUME NEW c \in Nat, NEW d \in Nat, NEW bytes \in Nat
  PROVE  LET all == AlignAtByteBoundary(c) + bytes + AlignAtByteBoundary(d)
         IN  /\ AlignAtByteBoundary(c + (8 * AlignAtByteBoundary(d) + 8 * bytes)) = all
             /\ AlignAtByteBoundary(8 * (AlignAtByteBoundary(c) + bytes) + d) = all
<1>1. AlignAtByteBoundary(c) \in Nat /\ AlignAtByteBoundary(d) \in Nat
  BY AlignSum
<1>2. AlignAtByteBoundary(8 * (AlignAtByteBoundary(d) + bytes) + c)
        = AlignAtByteBoundary(d) + bytes + AlignAtByteBoundary(c)
  BY <1>1, AlignSum
<1>3. AlignAtByteBoundary(8 * (AlignAtByteBoundary(c) + bytes) + d)
        = AlignAtByteBoundary(c) + bytes + AlignAtByteBoundary(d)
  BY <1>1, AlignSum
<1>4. c + (8 * AlignAtByteBoundary(d) + 8 * bytes)
        = 8 * (AlignAtByteBoundary(d) + bytes) + c
  BY <1>1
<1>5. QED  BY <1>1, <1>2, <1>3, <1>4

\* What a block that is about to run can rely on.
LEMMA AtBlock ==
  ASSUME IInv, NEW s \in Sides, phase[s] = "run"
  PROVE  /\ Source(s) \in Sides /\ Source(Source(s)) = Source(s)
         /\ phase[Source(s)] # "size"
         /\ IsPackager(pkg[Source(s)])
         /\ Cursor(pkg[Source(s)]) \in Nat
         /\ Cursor(pkg[Source(s)]) <= 8 * pkg[Source(s)].size
         /\ at[s] \in Nat /\ at[s] >= 1 /\ at[s] <= End(s)
         /\ End(s) <= End(Source(s))
         /\ auto[Source(s)][at[s]] \in Nat
         /\ at[s] < End(s) =>
              /\ Block(s) \in Blocks
              /\ auto[Source(s)][at[s] + 1] \in Nat
              /\ auto[Source(s)][at[s]]
                   = AutoPkgBitSize(Block(s), auto[Source(s)][at[s] + 1])
<1> DEFINE r == Source(s)
<1>1. r \in Sides /\ Source(r) = r /\ (r = s \/ (loopback /\ s = "rx" /\ r = "tx"))
  BY DEF Source, Sides, IInv, TypeOK
<1>2. phase[r] # "size"
  BY <1>1 DEF IInv, LoopbackInv
<1>3. /\ IsPackager(pkg[r])
      /\ Cursor(pkg[r]) <= 8 * pkg[r].size
  BY <1>1 DEF IInv, TypeOK, CursorInBounds
<1>4. Cursor(pkg[r]) \in Nat
  BY <1>3 DEF IsPackager, Cursor
<1>5. /\ chain[s] \in Seq(Blocks) /\ chain[r] \in Seq(Blocks)
      /\ Len(chain[s]) \in Nat /\ Len(chain[r]) \in Nat
  BY <1>1 DEF IInv, TypeOK
<1>6. /\ Len(chain[s]) <= Len(chain[r])
      /\ \A i \in 1 .. Len(chain[s]) : chain[s][i] = chain[r][i]
  BY <1>1, <1>5 DEF IInv, ChainInv
<1>7. at[s] \in Nat /\ at[s] >= 1 /\ at[s] <= End(s) /\ End(s) <= End(r)
  BY <1>5, <1>6 DEF IInv, TypeOK, End
<1>8. /\ auto[r] \in [1 .. End(r) -> Nat]
      /\ \A i \in 1 .. Len(chain[r]) :
           auto[r][i] = AutoPkgBitSize(chain[r][i], auto[r][i + 1])
  BY <1>1, <1>2 DEF IInv, TypeOK, SizesInv, Sized
<1>9. auto[r][at[s]] \in Nat
  BY <1>5, <1>7, <1>8 DEF End
<1>10. ASSUME at[s] < End(s)
       PROVE  /\ Block(s) \in Blocks
              /\ auto[r][at[s] + 1] \in Nat
              /\ auto[r][at[s]] = AutoPkgBitSize(Block(s), auto[r][at[s] + 1])
  <2>1. at[s] \in 1 .. Len(chain[s]) /\ at[s] \in 1 .. Len(chain[r])
    BY <1>5, <1>6, <1>7, <1>10 DEF End
  <2>2. Block(s) = chain[r][at[s]] /\ chain[s][at[s]] \in Blocks
    BY <1>5, <1>6, <2>1 DEF Block
  <2>3. at[s] + 1 \in 1 .. End(r)
    BY <1>5, <2>1 DEF End
  <2>4. QED  BY <1>8, <2>1, <2>2, <2>3 DEF Block
<1> HIDE DEF r
<1>11. QED  BY <1>1, <1>2, <1>3, <1>4, <1>7, <1>9, <1>10 DEF r

\* The two sizes of a block's payload.
LEMMA BlockSizes ==
  ASSUME NEW b \in Blocks
  PROVE  /\ b.op \in {"array", "string", "pack"}
         /\ b.op = "pack" => b.bitOffset \in Nat /\ b.width \in Nat
         /\ b.op = "array" => /\ PayloadBytes(b) = b.unit * b.n
                              /\ b.unit * b.n \in Nat
         /\ b.op = "string" => /\ PayloadBytes(b) = b.bufferSize
                               /\ b.bufferSize \in Nat
<1>1. b \in Arrays \/ b \in Strings \/ b \in Packed
  BY ExchangeAssumption
<1>2. CASE b \in Arrays
  <2>1. b.op = "array" /\ b.unit \in Nat /\ b.n \in Nat
    BY <1>2 DEF Arrays
  <2>2. \A i, j \in Nat : i * j \in Nat
    OBVIOUS
  <2>3. QED  BY <2>1, <2>2 DEF PayloadBytes
<1>3. CASE b \in Strings
  BY <1>3 DEF Strings, PayloadBytes
<1>4. CASE b \in Packed
  BY <1>4 DEF Packed
<1>5. QED  BY <1>1, <1>2, <1>3, <1>4

----------------------------------------------------------------------------
(* The three ways a running chain goes on                                  *)

\* A block succeeded.
LEMMA BlockDone ==
  ASSUME IInv, NEW s \in Sides, phase[s] = "run", at[s] < End(s),
         NEW p, IsPackager(p), p.size = pkg[Source(s)].size, Cursor(p) <= 8 * p.size,
         userSize[Source(s)] = 0 =>
           AlignAtByteBoundary(Cursor(p) + auto[Source(s)][at[s] + 1]) = p.size,
         pkg' = [pkg EXCEPT ![Source(s)] = p],
         Goto(s, "run", at[s] + 1),
         UNCHANGED <<config, auto, cycle>>
  PROVE  IInv'
<1> DEFINE r == Source(s)
<1> USE DEF config
<1>1. r \in Sides /\ Source(r) = r /\ phase[r] # "size"
  BY AtBlock
<1>2. /\ DOMAIN pkg = Sides /\ pkg'[r] = p
      /\ \A t \in Sides : t # r => pkg'[t] = pkg[t]
      /\ pkg' = [t \in Sides |-> pkg'[t]]
  BY <1>1 DEF IInv, TypeOK
<1>3. \A t : Source(t)' = Source(t) /\ End(t)' = End(t)
  BY DEF Source, End
<1>4. phase' = phase /\ at'[s] = at[s] + 1 /\ \A t \in Sides : t # s => at'[t] = at[t]
  BY DEF Goto, IInv, TypeOK
<1>5. TypeOK'
  <2>1. \A t \in Sides : IsPackager(pkg'[t])
    BY <1>2 DEF IInv, TypeOK
  <2>2. at' \in [Sides -> Nat \ {0}] /\ \A t \in Sides : at'[t] <= End(t)
    <3>1. End(s) \in Nat
      BY DEF IInv, TypeOK, End
    <3>2. QED  BY <1>4, <3>1 DEF Goto, IInv, TypeOK
  <2>3. QED  BY <1>2, <1>3, <1>4, <2>1, <2>2 DEF IInv, TypeOK
<1>6. ChainInv' /\ LoopbackInv' /\ NoOverflowInv'
  BY <1>3, <1>4 DEF IInv, ChainInv, LoopbackInv, NoOverflowInv
<1>7. SizesInv'
  <2>1. \A t \in Sides : Source(t) = t => Sized(t)' = Sized(t)
    BY <1>4 DEF Sized
  <2>2. QED  BY <1>3, <2>1 DEF IInv, SizesInv
<1>8. BuiltInv'
  <2>1. \A t \in Sides : BufferSize(t)' = BufferSize(t)
    BY DEF BufferSize
  <2>2. \A t \in Sides : pkg'[t].size = pkg[t].size
    BY <1>2
  <2>3. QED  BY <1>3, <1>4, <2>1, <2>2 DEF IInv, BuiltInv
<1>9. RoomInv'
  <2> SUFFICES ASSUME NEW t \in Sides, phase[t] = "run", userSize[Source(t)] = 0
               PROVE  AlignAtByteBoundary(Cursor(pkg'[Source(t)]) + auto[Source(t)][at'[t]])
                        = pkg'[Source(t)].size
    BY <1>3, <1>4 DEF RoomInv, Cursor
  <2>1. CASE t = s
    BY <1>1, <1>2, <1>4, <2>1
  <2>2. CASE t # s
    <3>1. Source(t) # r /\ Source(t) \in Sides
      BY <2>2, <1>1 DEF Source, Sides, IInv, LoopbackInv, TypeOK
    <3>2. QED  BY <1>2, <1>4, <2>2, <3>1 DEF IInv, RoomInv
  <2>3. QED  BY <2>1, <2>2
<1>10. CursorInBounds'
  BY <1>2 DEF IInv, CursorInBounds, Cursor
<1>11. QED  BY <1>5, <1>6, <1>7, <1>8, <1>9, <1>10 DEF IInv

\* A block stopped its simulation.
LEMMA BlockStopped ==
  ASSUME IInv, NEW s \in Sides, phase[s] = "run", NEW why \in Stopped,
         why = "overflow" => userSize[Source(s)] # 0,
         Stops(s, why)
  PROVE  IInv'
<1> USE DEF config
<1>1. /\ phase' = [phase EXCEPT ![s] = why] /\ at' = at
      /\ UNCHANGED <<chain, loopback, userSize, host, auto, pkg, cycle>>
  BY DEF Stops, Goto, IInv, TypeOK
<1>2. /\ phase'[s] = why /\ why \notin {"size", "idle", "run"}
      /\ \A t \in Sides : t # s => phase'[t] = phase[t]
      /\ phase' \in [Sides -> Running \cup Stopped]
  BY <1>1 DEF IInv, TypeOK, Stopped
<1>3. \A t : Source(t)' = Source(t) /\ End(t)' = End(t) /\ BufferSize(t)' = BufferSize(t)
  BY <1>1 DEF Source, End, BufferSize
<1>4. TypeOK'
  BY <1>1, <1>2, <1>3 DEF IInv, TypeOK
<1>5. ChainInv'
  BY <1>1 DEF IInv, ChainInv
<1>6. LoopbackInv'
  BY <1>1, <1>2 DEF IInv, LoopbackInv, Sides
<1>7. SizesInv'
  <2>1. \A t \in Sides : Sized(t)' = Sized(t)
    BY <1>1, <1>2 DEF Sized
  <2>2. QED  BY <1>1, <1>3, <2>1 DEF IInv, SizesInv
<1>8. BuiltInv'
  BY <1>1, <1>2, <1>3 DEF IInv, BuiltInv
<1>9. RoomInv' /\ CursorInBounds'
  BY <1>1, <1>2, <1>3 DEF IInv, RoomInv, CursorInBounds, Cursor
<1>10. NoOverflowInv'
  BY <1>1, <1>2, <1>3 DEF IInv, NoOverflowInv
<1>11. QED  BY <1>4, <1>5, <1>6, <1>7, <1>8, <1>9, <1>10 DEF IInv

\* A chain started: its packager is at the first bit again.
LEMMA ChainStarted ==
  ASSUME IInv, NEW s \in Sides, phase[s] = "idle",
         \A t \in Sides : t # s /\ Source(t) = Source(s) => phase'[t] = "idle",
         \A t \in Sides : t # s => /\ at'[t] = at[t]
                                  /\ \/ phase'[t] = phase[t]
                                     \/ phase'[t] = "idle" /\ phase[t] = "run",
         phase'[s] = "run", at'[s] = 1,
         DOMAIN phase' = Sides, phase' = [t \in Sides |-> phase'[t]],
         at' = [t \in Sides |-> at'[t]],
         NEW p, IsPackager(p), p.size = pkg[Source(s)].size, Cursor(p) = 0,
         pkg' = [pkg EXCEPT ![Source(s)] = p],
         cycle' \in 0 .. MaxCycles,
         UNCHANGED <<config, auto>>
  PROVE  IInv'
<1> DEFINE r == Source(s)
<1> USE DEF config
<1>1. r \in Sides /\ Source(r) = r /\ phase[r] # "size"
  BY DEF Source, Sides, IInv, TypeOK, LoopbackInv
<1>2. /\ pkg'[r] = p
      /\ \A t \in Sides : t # r => pkg'[t] = pkg[t]
      /\ pkg' = [t \in Sides |-> pkg'[t]]
  BY <1>1 DEF IInv, TypeOK
<1>3. \A t : Source(t)' = Source(t) /\ End(t)' = End(t) /\ BufferSize(t)' = BufferSize(t)
  BY DEF Source, End, BufferSize
<1>4. \A t \in Sides : phase'[t] = "size" <=> phase[t] = "size"
  OBVIOUS
<1>5. TypeOK'
  <2>1. \A t \in Sides : IsPackager(pkg'[t])
    BY <1>2 DEF IInv, TypeOK
  <2>2. phase' \in [Sides -> Running \cup Stopped]
    <3>1. \A t \in Sides : phase'[t] \in Running \cup Stopped
      BY ZenonT(30) DEF IInv, TypeOK, Running
    <3>2. QED  BY <3>1
  <2>3. at' \in [Sides -> Nat \ {0}] /\ \A t \in Sides : at'[t] <= End(t)
    <3>1. End(s) \in Nat /\ End(s) >= 1
      BY DEF IInv, TypeOK, End
    <3>2. \A t \in Sides : at'[t] \in Nat \ {0} /\ at'[t] <= End(t)
      <4> SUFFICES ASSUME NEW t \in Sides
                   PROVE  at'[t] \in Nat \ {0} /\ at'[t] <= End(t)
        OBVIOUS
      <4>1. t # s => at'[t] = at[t]
        OBVIOUS
      <4>2. at[t] \in Nat \ {0} /\ at[t] <= End(t)
        BY DEF IInv, TypeOK
      <4>3. QED  BY <3>1, <4>1, <4>2
    <3>3. QED  BY <3>2
  <2>4. QED  BY <1>2, <1>3, <2>1, <2>2, <2>3 DEF IInv, TypeOK
<1>6. ChainInv' /\ LoopbackInv'
  BY <1>3, <1>4 DEF IInv, ChainInv, LoopbackInv, Sides, Source
<1>7. NoOverflowInv'
  BY <1>3 DEF IInv, NoOverflowInv
<1>8. SizesInv'
  <2>1. \A t \in Sides : Sized(t)' = Sized(t)
    BY <1>4 DEF Sized
  <2>2. QED  BY <1>3, <2>1 DEF IInv, SizesInv
<1>9. BuiltInv'
  <2>1. \A t \in Sides : pkg'[t].size = pkg[t].size
    BY <1>2
  <2>2. QED  BY <1>3, <1>4, <2>1 DEF IInv, BuiltInv
<1>10. RoomInv'
  <2> SUFFICES ASSUME NEW t \in Sides, phase'[t] = "run", userSize[Source(t)] = 0
               PROVE  AlignAtByteBoundary(Cursor(pkg'[Source(t)]) + auto[Source(t)][at'[t]])
                        = pkg'[Source(t)].size
    BY <1>3 DEF RoomInv, Cursor
  <2>1. CASE t = s
    <3>1. p.size = AlignAtByteBoundary(auto[r][1])
      BY <1>1, <2>1 DEF IInv, BuiltInv, BufferSize
    <3>2. auto[r][1] \in Nat
      <4>1. Len(chain[r]) \in Nat /\ auto[r] \in [1 .. Len(chain[r]) + 1 -> Nat]
        BY <1>1 DEF IInv, TypeOK, End
      <4>2. 1 \in 1 .. Len(chain[r]) + 1
        BY <4>1
      <4>3. QED  BY <4>1, <4>2
    <3>3. /\ Source(t) = r /\ pkg'[Source(t)] = p
          /\ auto[Source(t)][at'[t]] = auto[r][1]
      BY <1>2, <2>1
    <3>4. Cursor(p) + auto[r][1] = auto[r][1]
      BY <3>2
    <3>5. QED  BY <3>1, <3>3, <3>4
  <2>2. CASE t # s
    <3>1. phase'[t] # "idle" /\ phase[t] = "run" /\ at'[t] = at[t]
      BY <2>2
    <3>2. Source(t) # r
      BY <2>2, <3>1
    <3>3. Source(t) \in Sides
      BY DEF Source, Sides
    <3>4. pkg'[Source(t)] = pkg[Source(t)]
      BY <1>2, <3>2, <3>3
    <3>5. AlignAtByteBoundary(Cursor(pkg[Source(t)]) + auto[Source(t)][at[t]])
            = pkg[Source(t)].size
      BY <3>1 DEF IInv, RoomInv
    <3>6. QED  BY <3>1, <3>4, <3>5
  <2>3. QED  BY <2>1, <2>2
<1>11. CursorInBounds'
  <2>1. 0 <= 8 * p.size
    BY DEF IsPackager
  <2>2. QED  BY <1>2, <2>1 DEF IInv, CursorInBounds, Cursor
<1>12. QED  BY <1>5, <1>6, <1>7, <1>8, <1>9, <1>10, <1>11 DEF IInv

----------------------------------------------------------------------------
(* A block whose check succeeds leaves room for the blocks behind it; in a *)
(* buffer that was sized automatically the check does succeed.             *)

\* A buffer with room for the rest of the chain has room for an array or a string
\* at its head, and behind it for what follows (MDD_SerialPackagerAdd* and Get*).
LEMMA RoomForBytes ==
  ASSUME IInv, NEW s \in Sides, phase[s] = "run", at[s] < End(s),
         Block(s).op # "pack", NEW bytes \in Nat, bytes = PayloadBytes(Block(s)),
         NEW q, Cursor(q) = 8 * (AlignAtByteBoundary(Cursor(pkg[Source(s)])) + bytes)
  PROVE  LET p == pkg[Source(s)]
         IN  /\ Overflows(p, bytes) => userSize[Source(s)] # 0
             /\ ~Overflows(p, bytes) =>
                  /\ Cursor(q) <= 8 * p.size
                  /\ userSize[Source(s)] = 0 =>
                       AlignAtByteBoundary(Cursor(q) + auto[Source(s)][at[s] + 1]) = p.size
<1> DEFINE p == pkg[Source(s)]
           c == Cursor(p)
           d == auto[Source(s)][at[s] + 1]
<1>1. /\ IsPackager(p) /\ c \in Nat /\ d \in Nat
      /\ auto[Source(s)][at[s]] = 8 * AlignAtByteBoundary(d) + 8 * bytes
  BY AtBlock DEF AutoPkgBitSize
<1>2. Overflows(p, bytes) <=> AlignAtByteBoundary(c) + bytes > p.size
  BY <1>1, Aligned DEF Overflows
<1>3. userSize[Source(s)] = 0 =>
        AlignAtByteBoundary(c + (8 * AlignAtByteBoundary(d) + 8 * bytes)) = p.size
  BY <1>1 DEF IInv, RoomInv
<1>4. p.size \in Nat /\ AlignAtByteBoundary(c) \in Nat /\ AlignAtByteBoundary(d) \in Nat
  BY <1>1, AlignSum DEF IsPackager
<1>5. /\ AlignAtByteBoundary(c + (8 * AlignAtByteBoundary(d) + 8 * bytes))
            = AlignAtByteBoundary(c) + bytes + AlignAtByteBoundary(d)
      /\ AlignAtByteBoundary(8 * (AlignAtByteBoundary(c) + bytes) + d)
            = AlignAtByteBoundary(c) + bytes + AlignAtByteBoundary(d)
  BY <1>1, Room
<1>6. Cursor(q) = 8 * (AlignAtByteBoundary(c) + bytes)
  OBVIOUS
<1> HIDE DEF p, c, d
<1>7. QED  BY <1>2, <1>3, <1>4, <1>5, <1>6 DEF p, d

\* The same for a packed integer (MDD_SerialPackagerIntegerBitpack and Bitunpack).
LEMMA RoomForBits ==
  ASSUME IInv, NEW s \in Sides, phase[s] = "run", at[s] < End(s),
         Block(s).op = "pack",
         NEW q, Cursor(q) = Cursor(pkg[Source(s)]) + Block(s).bitOffset + Block(s).width
  PROVE  LET p == pkg[Source(s)]
             overflows == OverflowsBits(p, FromBit(p, Block(s).bitOffset), Block(s).width)
         IN  /\ overflows => userSize[Source(s)] # 0
             /\ ~overflows =>
                  /\ Cursor(q) <= 8 * p.size
                  /\ userSize[Source(s)] = 0 =>
                       AlignAtByteBoundary(Cursor(q) + auto[Source(s)][at[s] + 1]) = p.size
<1> DEFINE p == pkg[Source(s)]
           c == Cursor(p)
           d == auto[Source(s)][at[s] + 1]
           bits == Block(s).bitOffset + Block(s).width
<1>1. /\ IsPackager(p) /\ c \in Nat /\ d \in Nat /\ Block(s) \in Blocks
      /\ auto[Source(s)][at[s]] = d + Block(s).bitOffset + Block(s).width
  BY AtBlock DEF AutoPkgBitSize
<1>2. Block(s).bitOffset \in Nat /\ Block(s).width \in Nat /\ bits \in Nat
  BY <1>1, BlockSizes
<1>3. OverflowsBits(p, FromBit(p, Block(s).bitOffset), Block(s).width)
        <=> AlignAtByteBoundary(c + bits) > p.size
  <2>1. p.pos \in Nat /\ p.bitOffset \in Nat /\ c = 8 * p.pos + p.bitOffset
    BY <1>1 DEF IsPackager, Cursor
  <2>2. AlignAtByteBoundary(8 * p.pos + (p.bitOffset + bits))
          = p.pos + AlignAtByteBoundary(p.bitOffset + bits)
    <3>1. p.bitOffset + bits \in Nat
      BY <1>2, <2>1
    <3> HIDE DEF p, bits, c
    <3>2. QED  BY <2>1, <3>1, AlignSum
  <2>3. /\ 8 * p.pos + (p.bitOffset + bits) = c + bits
        /\ p.bitOffset + Block(s).bitOffset + Block(s).width = p.bitOffset + bits
    BY <1>2, <2>1
  <2>4. FromBit(p, Block(s).bitOffset) + Block(s).width = p.bitOffset + bits
    BY <2>3 DEF FromBit
  <2> HIDE DEF p, bits, c
  <2>5. QED  BY <2>2, <2>3, <2>4 DEF OverflowsBits
<1>4. userSize[Source(s)] = 0 => AlignAtByteBoundary(c + (d + bits)) = p.size
  <2>1. auto[Source(s)][at[s]] = d + bits
    BY <1>1, <1>2
  <2>2. userSize[Source(s)] = 0 => AlignAtByteBoundary(c + auto[Source(s)][at[s]]) = p.size
    BY DEF IInv, RoomInv
  <2>3. QED  BY <2>1, <2>2
<1>5. Cursor(q) = c + bits
  BY <1>1, <1>2
<1>6. p.size \in Nat
  BY <1>1 DEF IsPackager
<1> HIDE DEF p, c, d, bits
<1>7. /\ AlignAtByteBoundary(c + bits) > p.size => userSize[Source(s)] # 0
      /\ ~(AlignAtByteBoundary(c + bits) > p.size) => Cursor(q) <= 8 * p.size
  BY <1>1, <1>2, <1>4, <1>5, <1>6 DEF AlignAtByteBoundary
<1>8. Cursor(q) + d = c + (d + bits)
  BY <1>1, <1>2, <1>5
<1>9. QED  BY <1>3, <1>4, <1>7, <1>8 DEF p, d

----------------------------------------------------------------------------
(* One lemma for each kind of step                                         *)

\* The size a block asks for is a number of bits (autoPkgBitSize).
LEMMA AutoSizeType ==
  ASSUME NEW b \in Blocks, NEW behind \in Nat
  PROVE  AutoPkgBitSize(b, behind) \in Nat
<1>1. CASE b.op = "pack"
  <2>1. b.bitOffset \in Nat /\ b.width \in Nat
    BY <1>1, BlockSizes
  <2>2. behind + b.bitOffset + b.width \in Nat
    BY <2>1
  <2>3. QED  BY <1>1, <2>2 DEF AutoPkgBitSize
<1>2. CASE b.op # "pack"
  <2>1. PayloadBytes(b) \in Nat
    BY <1>2, BlockSizes
  <2>2. AlignAtByteBoundary(behind) \in Nat
    BY AlignSum
  <2>3. QED  BY <1>2, <2>1, <2>2 DEF AutoPkgBitSize
<1>3. QED  BY <1>1, <1>2

\* Backward propagation writes the size a block's equation asks for, and leaves those
\* of the blocks behind it alone.
LEMMA PropagateStep ==
  ASSUME IInv, NEW s \in Sides, Source(s) = s, Propagate(s)
  PROVE  IInv'
<1> USE DEF config
<1> DEFINE i == at[s] - 1
           size == AutoPkgBitSize(chain[s][i], auto[s][at[s]])
<1>1. /\ Len(chain[s]) \in Nat /\ i \in 1 .. Len(chain[s]) /\ at[s] = i + 1
      /\ chain[s][i] \in Blocks /\ auto[s][at[s]] \in Nat
  <2>1. chain[s] \in Seq(Blocks) /\ Len(chain[s]) \in Nat
    BY DEF IInv, TypeOK
  <2>2. at[s] \in Nat /\ at[s] > 1 /\ at[s] <= Len(chain[s]) + 1
    BY <2>1 DEF IInv, TypeOK, End, Propagate
  <2>3. auto[s] \in [1 .. Len(chain[s]) + 1 -> Nat]
    BY DEF IInv, TypeOK, End
  <2>4. i \in 1 .. Len(chain[s]) /\ at[s] \in 1 .. Len(chain[s]) + 1 /\ at[s] = i + 1
    BY <2>1, <2>2
  <2> HIDE DEF i
  <2>5. QED  BY <2>1, <2>3, <2>4
<1> HIDE DEF i
<1>2. size \in Nat
  BY <1>1, AutoSizeType
<1>3. /\ auto' = [auto EXCEPT ![s][i] = size]
      /\ phase' = phase /\ phase[s] = "size" /\ at' = [at EXCEPT ![s] = i]
      /\ UNCHANGED <<chain, loopback, userSize, host, pkg, cycle>>
  BY DEF Propagate, Goto, i, IInv, TypeOK
<1> HIDE DEF size
<1>4. \A t : Source(t)' = Source(t) /\ End(t)' = End(t)
  BY <1>3 DEF Source, End
<1>5. /\ auto'[s] \in [1 .. End(s) -> Nat]
      /\ auto'[s][i] = size
      /\ \A j \in 1 .. End(s) : j # i => auto'[s][j] = auto[s][j]
      /\ \A t \in Sides : t # s => auto'[t] = auto[t]
      /\ auto' = [t \in Sides |-> auto'[t]]
  <2>1. i \in 1 .. End(s)
    BY <1>1 DEF End
  <2>2. auto[s] \in [1 .. End(s) -> Nat] /\ auto = [t \in Sides |-> auto[t]]
    BY DEF IInv, TypeOK
  <2>3. auto'[s] = [auto[s] EXCEPT ![i] = size]
    BY <1>3, <2>2
  <2>4. \A t \in Sides : t # s => auto'[t] = auto[t]
    BY <1>3, <2>2
  <2>5. auto' = [t \in Sides |-> auto'[t]]
    BY <1>3, <2>2
  <2>6. QED  BY <1>2, <2>1, <2>2, <2>3, <2>4, <2>5
<1>6. TypeOK'
  <2>1. \A t \in Sides : auto'[t] \in [1 .. End(t) -> Nat]
    BY <1>5 DEF IInv, TypeOK
  <2>2. at' \in [Sides -> Nat \ {0}] /\ \A t \in Sides : at'[t] <= End(t)
    BY <1>1, <1>3 DEF IInv, TypeOK, End
  <2>3. QED  BY <1>3, <1>4, <1>5, <2>1, <2>2 DEF IInv, TypeOK
<1>7. ChainInv' /\ LoopbackInv' /\ NoOverflowInv'
  BY <1>3, <1>4 DEF IInv, ChainInv, LoopbackInv, NoOverflowInv
<1>8. SizesInv'
  <2> SUFFICES ASSUME NEW t \in Sides, Source(t) = t
               PROVE  /\ auto'[t][End(t)] = 0
                      /\ \A j \in Sized(t)' .. Len(chain[t]) :
                           auto'[t][j] = AutoPkgBitSize(chain[t][j], auto'[t][j + 1])
    BY <1>3, <1>4 DEF SizesInv
  <2>1. CASE t # s
    BY <1>3, <1>5, <2>1 DEF IInv, SizesInv, Sized, TypeOK
  <2>2. CASE t = s
    <3>1. /\ auto[s][End(s)] = 0
          /\ \A j \in i + 1 .. Len(chain[s]) :
               auto[s][j] = AutoPkgBitSize(chain[s][j], auto[s][j + 1])
      BY <1>1, <1>3, <2>2 DEF IInv, SizesInv, Sized
    <3>2. Sized(s)' = i
      BY <1>3 DEF Sized, IInv, TypeOK
    <3>3. auto'[s][End(s)] = 0
      BY SMTT(30), <1>1, <1>5, <3>1 DEF End
    <3>4. ASSUME NEW j \in i .. Len(chain[s])
          PROVE  auto'[s][j] = AutoPkgBitSize(chain[s][j], auto'[s][j + 1])
      <4>1. j \in 1 .. End(s) /\ j + 1 \in 1 .. End(s) /\ j + 1 # i
        BY <1>1 DEF End
      <4>2. auto'[s][j + 1] = auto[s][j + 1]
        BY <1>5, <4>1
      <4>3. CASE j = i
        BY <1>1, <1>5, <4>2, <4>3 DEF size
      <4>4. CASE j # i
        <5>1. j \in i + 1 .. Len(chain[s])
          BY <1>1, <4>4
        <5>2. auto'[s][j] = auto[s][j]
          BY <1>5, <4>1, <4>4
        <5>3. QED  BY <3>1, <4>2, <5>1, <5>2
      <4>5. QED  BY <4>3, <4>4
    <3>5. QED  BY <2>2, <3>2, <3>3, <3>4
  <2>3. QED  BY <2>1, <2>2
<1>9. BuiltInv'
  BY <1>3, <1>4, <1>5 DEF IInv, BuiltInv, BufferSize
<1>10. RoomInv'
  <2> SUFFICES ASSUME NEW t \in Sides, phase[t] = "run", userSize[Source(t)] = 0
               PROVE  AlignAtByteBoundary(Cursor(pkg[Source(t)]) + auto'[Source(t)][at'[t]])
                        = pkg[Source(t)].size
    BY <1>3, <1>4 DEF RoomInv, Cursor
  <2>1. Source(t) # s /\ t # s /\ Source(t) \in Sides
    BY <1>3 DEF Source, Sides, IInv, LoopbackInv
  <2>2. at'[t] = at[t] /\ auto'[Source(t)] = auto[Source(t)]
    BY <1>3, <1>5, <2>1 DEF IInv, TypeOK
  <2>3. QED  BY <2>2 DEF IInv, RoomInv
<1>11. CursorInBounds'
  BY <1>3 DEF IInv, CursorInBounds, Cursor
<1>12. QED  BY <1>6, <1>7, <1>8, <1>9, <1>10, <1>11 DEF IInv

\* The blocks of the writing chain.
LEMMA WriterStep ==
  ASSUME IInv, AddElements \/ AddText \/ PackUnsigned
  PROVE  IInv'
<1> DEFINE p == pkg["tx"]
           b == Block("tx")
<1>1. "tx" \in Sides /\ Source("tx") = "tx"
  BY DEF Sides, Source
<1>2. phase["tx"] = "run" /\ at["tx"] < End("tx")
  BY DEF AddElements, AddText, PackUnsigned, Runs
<1>3. IsPackager(p) /\ Cursor(p) \in Nat /\ b \in Blocks
  BY <1>1, <1>2, AtBlock
<1>4. ASSUME NEW q, IsPackager(q), q.size = p.size, Cursor(q) <= 8 * q.size,
             userSize["tx"] = 0 =>
               AlignAtByteBoundary(Cursor(q) + auto["tx"][at["tx"] + 1]) = q.size,
             NEW value, Written(value, q)
      PROVE  IInv'
  BY <1>1, <1>2, <1>4, BlockDone DEF Written
<1>5. ASSUME NEW why \in Stopped, why = "overflow" => userSize["tx"] # 0,
             Stops("tx", why)
      PROVE  IInv'
  BY <1>1, <1>2, <1>5, BlockStopped
<1>6. ASSUME NEW bytes \in Nat, bytes = PayloadBytes(b), b.op # "pack",
             NEW cells, NEW value,
             \/ Overflows(p, bytes) /\ Stops("tx", "overflow")
             \/ ~Overflows(p, bytes) /\ Written(value, AddBytes(p, cells, bytes))
      PROVE  IInv'
  <2> DEFINE q == AddBytes(p, cells, bytes)
  <2>1. /\ IsPackager(q) /\ q.size = p.size
        /\ Cursor(q) = 8 * (AlignAtByteBoundary(Cursor(p)) + bytes)
    BY <1>3, Moved
  <2> HIDE DEF q
  <2>2. /\ Overflows(p, bytes) => userSize["tx"] # 0
        /\ ~Overflows(p, bytes) =>
             /\ Cursor(q) <= 8 * p.size
             /\ userSize["tx"] = 0 =>
                  AlignAtByteBoundary(Cursor(q) + auto["tx"][at["tx"] + 1]) = p.size
    BY <1>1, <1>2, <1>6, <2>1, RoomForBytes
  <2>3. CASE Overflows(p, bytes) /\ Stops("tx", "overflow")
    BY <1>5, <2>2, <2>3 DEF Stopped
  <2>4. CASE ~Overflows(p, bytes) /\ Written(value, q)
    BY <1>4, <2>1, <2>2, <2>4
  <2>5. QED  BY <1>6, <2>3, <2>4 DEF q
<1>7. CASE AddElements
  <2>1. b.op = "array" /\ b.unit * b.n \in Nat /\ PayloadBytes(b) = b.unit * b.n
    BY <1>3, <1>7, BlockSizes DEF AddElements, Runs
  <2> DEFINE value == Value(8 * b.unit * b.n)
             cells == [c \in 0 .. 8 * b.unit * b.n - 1 |->
                         value[Place(p, b.unit, b.endian, c)]]
  <2>2. \/ Overflows(p, b.unit * b.n) /\ Stops("tx", "overflow")
        \/ ~Overflows(p, b.unit * b.n) /\ Written(value, AddBytes(p, cells, b.unit * b.n))
    BY <1>7 DEF AddElements, AddArray
  <2> HIDE DEF value, cells
  <2>3. QED  BY <1>6, <2>1, <2>2
<1>8. CASE AddText
  <2>1. b.op = "string" /\ b.bufferSize \in Nat /\ PayloadBytes(b) = b.bufferSize
    BY <1>3, <1>8, BlockSizes DEF AddText, Runs
  <2>2. PICK length \in 0 .. b.bufferSize :
          \/ Stops("tx", "refused")
          \/ Overflows(p, b.bufferSize) /\ Stops("tx", "overflow")
          \/ /\ ~Overflows(p, b.bufferSize)
             /\ Written(Value(8 * length),
                        AddString(p, Value(8 * length), length, b.bufferSize))
    BY <1>8 DEF AddText
  <2> DEFINE value == Value(8 * length)
             cells == [c \in 0 .. 8 * b.bufferSize - 1 |->
                         IF c \div 8 < length /\ c \div 8 < b.bufferSize - 1
                         THEN value[c] ELSE Zero]
  <2>3. AddString(p, value, length, b.bufferSize) = AddBytes(p, cells, b.bufferSize)
    BY DEF AddString
  <2>4. CASE Stops("tx", "refused")
    BY <1>5, <2>4 DEF Stopped
  <2> HIDE DEF cells
  <2>5. QED  BY <1>6, <2>1, <2>2, <2>3, <2>4
<1>9. CASE PackUnsigned
  <2> DEFINE offset == FromBit(p, b.bitOffset)
             value == Value(b.width)
             q == Bitpack(p, offset, b.width, value)
  <2>1. b.op = "pack" /\ b.bitOffset \in Nat /\ b.width \in Nat
    BY <1>3, <1>9, BlockSizes DEF PackUnsigned, Runs
  <2>2. \/ Stops("tx", "refused")
        \/ OverflowsBits(p, offset, b.width) /\ Stops("tx", "overflow")
        \/ ~OverflowsBits(p, offset, b.width) /\ Written(value, q)
    BY <1>9 DEF PackUnsigned
  <2>3. /\ IsPackager(q) /\ q.size = p.size
        /\ Cursor(q) = Cursor(p) + b.bitOffset + b.width
    BY <1>3, <2>1, MovedBits
  <2> HIDE DEF q, value
  <2>4. /\ OverflowsBits(p, offset, b.width) => userSize["tx"] # 0
        /\ ~OverflowsBits(p, offset, b.width) =>
             /\ Cursor(q) <= 8 * p.size
             /\ userSize["tx"] = 0 =>
                  AlignAtByteBoundary(Cursor(q) + auto["tx"][at["tx"] + 1]) = p.size
    BY <1>1, <1>2, <2>1, <2>3, RoomForBits
  <2> HIDE DEF offset
  <2>5. CASE Stops("tx", "refused")
    BY <1>5, <2>5 DEF Stopped
  <2>6. CASE OverflowsBits(p, offset, b.width) /\ Stops("tx", "overflow")
    BY <1>5, <2>4, <2>6 DEF Stopped
  <2>7. CASE ~OverflowsBits(p, offset, b.width) /\ Written(value, q)
    BY <1>4, <2>3, <2>4, <2>7
  <2>8. QED  BY <2>2, <2>5, <2>6, <2>7
<1>10. QED  BY <1>7, <1>8, <1>9

\* The packager is built with the size of its chain.
LEMMA BuildStep ==
  ASSUME IInv, NEW s \in Sides, Source(s) = s, Build(s)
  PROVE  IInv'
<1> USE DEF config
<1>1. /\ phase[s] = "size" /\ at[s] = 1
      /\ phase' = [phase EXCEPT ![s] = "idle"] /\ at' = [at EXCEPT ![s] = 1]
      /\ pkg' = [pkg EXCEPT ![s] = New(BufferSize(s), host[s])]
      /\ UNCHANGED <<chain, loopback, userSize, host, auto, cycle>>
  BY DEF Build, Goto
<1>2. BufferSize(s) \in Nat /\ host[s] \in {Little, Big}
  <2>1. auto[s][1] \in Nat
    <3>1. Len(chain[s]) \in Nat /\ auto[s] \in [1 .. Len(chain[s]) + 1 -> Nat]
      BY DEF IInv, TypeOK, End
    <3>2. 1 \in 1 .. Len(chain[s]) + 1
      BY <3>1
    <3>3. QED  BY <3>1, <3>2
  <2>2. userSize[s] \in Nat /\ host[s] \in {Little, Big}
    BY ExchangeAssumption DEF IInv, TypeOK, Sides
  <2>3. AlignAtByteBoundary(auto[s][1]) \in Nat
    BY <2>1, AlignSum
  <2>4. QED  BY <2>2, <2>3 DEF BufferSize
<1> DEFINE p == New(BufferSize(s), host[s])
<1>3. IsPackager(p) /\ Cursor(p) = 0 /\ p.size = BufferSize(s)
  BY <1>2, NewPackager
<1> HIDE DEF p
<1>4. /\ pkg'[s] = p
      /\ \A t \in Sides : t # s => pkg'[t] = pkg[t]
      /\ pkg' = [t \in Sides |-> pkg'[t]]
  BY <1>1 DEF IInv, TypeOK, p
<1>5. /\ phase'[s] = "idle" /\ \A t \in Sides : t # s => phase'[t] = phase[t]
      /\ phase' \in [Sides -> Running \cup Stopped]
  BY <1>1 DEF IInv, TypeOK, Running
<1>6. at' = at
  BY <1>1 DEF IInv, TypeOK
<1>7. \A t : Source(t)' = Source(t) /\ End(t)' = End(t) /\ BufferSize(t)' = BufferSize(t)
  BY <1>1 DEF Source, End, BufferSize
<1>8. TypeOK'
  <2>1. \A t \in Sides : IsPackager(pkg'[t])
    BY <1>3, <1>4 DEF IInv, TypeOK
  <2>2. QED  BY <1>1, <1>4, <1>5, <1>6, <1>7, <2>1 DEF IInv, TypeOK
<1>9. ChainInv' /\ NoOverflowInv'
  BY <1>1, <1>5, <1>7 DEF IInv, ChainInv, NoOverflowInv
<1>10. LoopbackInv'
  BY <1>1, <1>5 DEF IInv, LoopbackInv, Sides
<1>11. SizesInv'
  <2>1. \A t \in Sides : Sized(t)' = Sized(t)
    BY <1>1, <1>5, <1>6 DEF Sized
  <2>2. QED  BY <1>1, <1>7, <2>1 DEF IInv, SizesInv
<1>12. BuiltInv'
  BY <1>1, <1>3, <1>4, <1>5, <1>7 DEF IInv, BuiltInv
<1>13. RoomInv'
  <2> SUFFICES ASSUME NEW t \in Sides, phase'[t] = "run", userSize[Source(t)] = 0
               PROVE  AlignAtByteBoundary(Cursor(pkg'[Source(t)]) + auto[Source(t)][at[t]])
                        = pkg'[Source(t)].size
    BY <1>1, <1>6, <1>7 DEF RoomInv, Cursor
  <2>1. t # s /\ phase[t] = "run" /\ Source(t) # s /\ Source(t) \in Sides
    BY <1>1, <1>5 DEF Source, Sides, IInv, LoopbackInv
  <2>2. QED  BY <1>4, <2>1 DEF IInv, RoomInv
<1>14. CursorInBounds'
  <2>1. 0 <= 8 * p.size
    BY <1>3 DEF IsPackager
  <2>2. QED  BY <1>3, <1>4, <2>1 DEF IInv, CursorInBounds, Cursor
<1>15. QED  BY <1>8, <1>9, <1>10, <1>11, <1>12, <1>13, <1>14 DEF IInv

\* Trigger, Receive and ResetPointer start a chain.
LEMMA StartStep ==
  ASSUME IInv, Trigger \/ Receive \/ ResetPointer
  PROVE  IInv'
<1>1. /\ DOMAIN phase = Sides /\ DOMAIN at = Sides /\ cycle \in 0 .. MaxCycles
      /\ \A t \in Sides : IsPackager(pkg[t])
      /\ phase = [t \in Sides |-> phase[t]] /\ at = [t \in Sides |-> at[t]]
  BY DEF IInv, TypeOK
<1>2. CASE Trigger
  <2> DEFINE p == Clear(pkg["tx"])
  <2>1. IsPackager(p) /\ Cursor(p) = 0 /\ p.size = pkg["tx"].size
    BY <1>1, Restarted DEF Sides
  <2>2. /\ phase["tx"] = "idle" /\ Source("tx") = "tx" /\ "tx" \in Sides
        /\ pkg' = [pkg EXCEPT !["tx"] = p]
        /\ phase' = [phase EXCEPT !["tx"] = "run"] /\ at' = [at EXCEPT !["tx"] = 1]
        /\ loopback => phase["rx"] = "idle"
        /\ UNCHANGED <<config, auto>>
    BY <1>2 DEF Trigger, Goto, Source, Sides
  <2>3. cycle' \in 0 .. MaxCycles
    BY <1>1, <1>2, ExchangeAssumption DEF Trigger
  <2> HIDE DEF p
  <2>4. /\ \A t \in Sides : t # "tx" => at'[t] = at[t] /\ phase'[t] = phase[t]
        /\ \A t \in Sides : t # "tx" /\ Source(t) = Source("tx") => phase'[t] = "idle"
    BY <1>1, <2>2 DEF Source, Sides
  <2>5. /\ phase'["tx"] = "run" /\ at'["tx"] = 1
        /\ phase' = [t \in Sides |-> phase'[t]] /\ at' = [t \in Sides |-> at'[t]]
    BY <1>1, <2>2
  <2>6. pkg' = [pkg EXCEPT ![Source("tx")] = p] /\ p.size = pkg[Source("tx")].size
    BY <2>1, <2>2
  <2>7. DOMAIN phase' = Sides
    BY <2>5
  <2>8. QED  BY <2>1, <2>2, <2>3, <2>4, <2>5, <2>6, <2>7, ChainStarted
<1>3. CASE Receive
  <2> DEFINE p == SetData(pkg["rx"], inbox.data)
  <2>1. IsPackager(p) /\ Cursor(p) = 0 /\ p.size = pkg["rx"].size
    BY <1>1, Restarted DEF Sides
  <2>2. /\ phase["rx"] = "idle" /\ Source("rx") = "rx" /\ "rx" \in Sides
        /\ pkg' = [pkg EXCEPT !["rx"] = p]
        /\ phase' = [phase EXCEPT !["rx"] = "run"] /\ at' = [at EXCEPT !["rx"] = 1]
        /\ ~loopback /\ cycle' \in 0 .. MaxCycles
        /\ UNCHANGED <<config, auto>>
    BY <1>1, <1>3 DEF Receive, Goto, Source, Sides
  <2> HIDE DEF p
  <2>3. \A t \in Sides : t # "rx" => /\ phase'[t] = phase[t] /\ at'[t] = at[t]
                                     /\ Source(t) # Source("rx")
    BY <1>1, <2>2 DEF Source, Sides
  <2>4. /\ phase'["rx"] = "run" /\ at'["rx"] = 1
        /\ phase' = [t \in Sides |-> phase'[t]] /\ at' = [t \in Sides |-> at'[t]]
    BY <1>1, <2>2
  <2>5. QED  BY ZenonT(30), <2>1, <2>2, <2>3, <2>4, ChainStarted
<1>4. CASE ResetPointer
  <2> DEFINE p == SetPos(pkg["tx"], 0)
  <2>1. IsPackager(p) /\ Cursor(p) = 0 /\ p.size = pkg["tx"].size
    BY <1>1, Restarted DEF Sides
  <2>2. /\ loopback /\ Source("rx") = "tx" /\ "rx" \in Sides
        /\ phase["tx"] = "run"
        /\ pkg' = [pkg EXCEPT !["tx"] = p]
        /\ phase' = [tx |-> "idle", rx |-> "run"] /\ at' = [at EXCEPT !["rx"] = 1]
        /\ cycle' \in 0 .. MaxCycles
        /\ UNCHANGED <<config, auto>>
    BY <1>1, <1>4 DEF ResetPointer, Source, Sides
  <2>3. phase["rx"] = "idle"
    BY <2>2 DEF IInv, LoopbackInv
  <2> HIDE DEF p
  <2>4. /\ phase'["rx"] = "run" /\ phase'["tx"] = "idle"
        /\ phase' = [t \in Sides |-> phase'[t]] /\ DOMAIN phase' = Sides
    BY <2>2 DEF Sides
  <2>5. at'["rx"] = 1 /\ at'["tx"] = at["tx"] /\ at' = [t \in Sides |-> at'[t]]
    BY <1>1, <2>2 DEF Sides
  <2>6. \A t \in Sides : t # "rx" => /\ phase'[t] = "idle" /\ phase[t] = "run"
                                     /\ at'[t] = at[t]
    BY <2>2, <2>4, <2>5 DEF Sides
  <2>7. pkg' = [pkg EXCEPT ![Source("rx")] = p] /\ p.size = pkg[Source("rx")].size
    BY <2>1, <2>2
  <2>8. QED  BY <2>1, <2>2, <2>3, <2>4, <2>5, <2>6, <2>7, ChainStarted
<1>5. QED  BY <1>2, <1>3, <1>4

\* Send and Finish end a chain.
LEMMA EndStep ==
  ASSUME IInv, NEW s \in Sides, phase[s] = "run",
         Goto(s, "idle", at[s]), UNCHANGED <<config, auto, pkg, cycle>>
  PROVE  IInv'
<1> USE DEF config
<1>1. /\ phase' = [phase EXCEPT ![s] = "idle"] /\ at' = at
  BY DEF Goto, IInv, TypeOK
<1>2. /\ phase'[s] = "idle"
      /\ \A t \in Sides : t # s => phase'[t] = phase[t]
      /\ phase' \in [Sides -> Running \cup Stopped]
  BY <1>1 DEF IInv, TypeOK, Running
<1>3. \A t : Source(t)' = Source(t) /\ End(t)' = End(t) /\ BufferSize(t)' = BufferSize(t)
  BY <1>1 DEF Source, End, BufferSize
<1>4. TypeOK'
  BY <1>1, <1>2, <1>3 DEF IInv, TypeOK
<1>5. ChainInv'
  BY DEF IInv, ChainInv
<1>6. LoopbackInv'
  BY <1>2 DEF IInv, LoopbackInv, Sides
<1>7. SizesInv'
  <2>1. \A t \in Sides : Sized(t)' = Sized(t)
    BY <1>1, <1>2 DEF Sized
  <2>2. QED  BY <1>3, <2>1 DEF IInv, SizesInv
<1>8. BuiltInv'
  BY <1>2, <1>3 DEF IInv, BuiltInv
<1>9. RoomInv' /\ CursorInBounds'
  BY <1>1, <1>2, <1>3 DEF IInv, RoomInv, CursorInBounds, Cursor
<1>10. NoOverflowInv'
  BY <1>2, <1>3 DEF IInv, NoOverflowInv
<1>11. QED  BY <1>4, <1>5, <1>6, <1>7, <1>8, <1>9, <1>10 DEF IInv

\* The blocks of the reading chain.
LEMMA ReaderStep ==
  ASSUME IInv, GetElements \/ GetText \/ UnpackUnsigned
  PROVE  IInv'
<1> DEFINE r == Source("rx")
           p == pkg[r]
           b == Block("rx")
<1>1. "rx" \in Sides
  BY DEF Sides
<1>2. phase["rx"] = "run" /\ at["rx"] < End("rx")
  BY DEF GetElements, GetText, UnpackUnsigned, Runs
<1>3. IsPackager(p) /\ Cursor(p) \in Nat /\ b \in Blocks
  BY <1>1, <1>2, AtBlock
<1>4. ASSUME NEW q, IsPackager(q), q.size = p.size, Cursor(q) <= 8 * q.size,
             userSize[r] = 0 =>
               AlignAtByteBoundary(Cursor(q) + auto[r][at["rx"] + 1]) = q.size,
             NEW value, Returned(value, q)
      PROVE  IInv'
  BY <1>1, <1>2, <1>4, BlockDone DEF Returned
<1>5. ASSUME NEW why \in Stopped, why = "overflow" => userSize[r] # 0, Stops("rx", why)
      PROVE  IInv'
  BY <1>1, <1>2, <1>5, BlockStopped
<1>6. ASSUME NEW bytes \in Nat, bytes = PayloadBytes(b), b.op # "pack", NEW value,
             \/ Overflows(p, bytes) /\ Stops("rx", "overflow")
             \/ ~Overflows(p, bytes) /\ Returned(value, Skip(p, bytes))
      PROVE  IInv'
  <2> DEFINE q == Skip(p, bytes)
  <2>1. /\ IsPackager(q) /\ q.size = p.size
        /\ Cursor(q) = 8 * (AlignAtByteBoundary(Cursor(p)) + bytes)
    BY <1>3, Moved
  <2> HIDE DEF q
  <2>2. /\ Overflows(p, bytes) => userSize[r] # 0
        /\ ~Overflows(p, bytes) =>
             /\ Cursor(q) <= 8 * p.size
             /\ userSize[r] = 0 =>
                  AlignAtByteBoundary(Cursor(q) + auto[r][at["rx"] + 1]) = p.size
    BY <1>1, <1>2, <1>6, <2>1, RoomForBytes
  <2>3. CASE Overflows(p, bytes) /\ Stops("rx", "overflow")
    BY <1>5, <2>2, <2>3 DEF Stopped
  <2>4. CASE ~Overflows(p, bytes) /\ Returned(value, q)
    BY <1>4, <2>1, <2>2, <2>4
  <2>5. QED  BY <1>6, <2>3, <2>4 DEF q
<1>7. CASE GetElements
  <2>1. b.op = "array" /\ b.unit * b.n \in Nat /\ PayloadBytes(b) = b.unit * b.n
    BY <1>3, <1>7, BlockSizes DEF GetElements, Runs
  <2> DEFINE value == GetArray(p, b.unit, b.n, b.endian)
  <2>2. \/ Overflows(p, b.unit * b.n) /\ Stops("rx", "overflow")
        \/ ~Overflows(p, b.unit * b.n) /\ Returned(value, Skip(p, b.unit * b.n))
    BY <1>7 DEF GetElements
  <2> HIDE DEF value
  <2>3. QED  BY <1>6, <2>1, <2>2
<1>8. CASE GetText
  <2>1. b.op = "string" /\ b.bufferSize \in Nat /\ PayloadBytes(b) = b.bufferSize
    BY <1>3, <1>8, BlockSizes DEF GetText, Runs
  <2> DEFINE value == GetString(p, b.bufferSize)
  <2>2. \/ Overflows(p, b.bufferSize) /\ Stops("rx", "overflow")
        \/ ~Overflows(p, b.bufferSize) /\ Returned(value, Skip(p, b.bufferSize))
    BY <1>8 DEF GetText
  <2> HIDE DEF value
  <2>3. QED  BY <1>6, <2>1, <2>2
<1>9. CASE UnpackUnsigned
  <2> DEFINE offset == FromBit(p, b.bitOffset)
             value == BitunpackValue(p, offset, b.width)
             q == Bitunpack(p, offset, b.width)
  <2>1. b.op = "pack" /\ b.bitOffset \in Nat /\ b.width \in Nat
    BY <1>3, <1>9, BlockSizes DEF UnpackUnsigned, Runs
  <2>2. \/ Stops("rx", "refused") \/ Stops("rx", "undefined")
        \/ OverflowsBits(p, offset, b.width) /\ Stops("rx", "overflow")
        \/ ~OverflowsBits(p, offset, b.width) /\ Returned(value, q)
    BY <1>9 DEF UnpackUnsigned
  <2>3. /\ IsPackager(q) /\ q.size = p.size
        /\ Cursor(q) = Cursor(p) + b.bitOffset + b.width
    BY ZenonT(30), <1>3, <2>1, MovedBits
  <2> HIDE DEF q, value
  <2>4. /\ OverflowsBits(p, offset, b.width) => userSize[r] # 0
        /\ ~OverflowsBits(p, offset, b.width) =>
             /\ Cursor(q) <= 8 * p.size
             /\ userSize[r] = 0 =>
                  AlignAtByteBoundary(Cursor(q) + auto[r][at["rx"] + 1]) = p.size
    BY <1>1, <1>2, <2>1, <2>3, RoomForBits
  <2> HIDE DEF offset
  <2>5. CASE Stops("rx", "refused") \/ Stops("rx", "undefined")
    BY <1>5, <2>5 DEF Stopped
  <2>6. CASE OverflowsBits(p, offset, b.width) /\ Stops("rx", "overflow")
    BY <1>5, <2>4, <2>6 DEF Stopped
  <2>7. CASE ~OverflowsBits(p, offset, b.width) /\ Returned(value, q)
    BY <1>4, <2>3, <2>4, <2>7
  <2>8. QED  BY <2>2, <2>5, <2>6, <2>7
<1>10. QED  BY <1>7, <1>8, <1>9

----------------------------------------------------------------------------
(* The invariant, and the properties it implies                            *)

\* The invariant holds before the simulations are initialised.
LEMMA InitInvariant == Init => IInv
<1> SUFFICES ASSUME Init PROVE IInv
  OBVIOUS
<1>1. PICK n \in 1 .. MaxBlocks : \E c \in [1 .. n -> Blocks] : \E m \in 1 .. n :
        chain = [tx |-> c, rx |-> SubSeq(c, 1, m)]
  BY DEF Init
<1>2. PICK c \in [1 .. n -> Blocks] : \E m \in 1 .. n :
        chain = [tx |-> c, rx |-> SubSeq(c, 1, m)]
  BY <1>1
<1>3. PICK m \in 1 .. n : chain = [tx |-> c, rx |-> SubSeq(c, 1, m)]
  BY <1>2
<1>4. n \in Nat /\ c \in Seq(Blocks) /\ Len(c) = n /\ m \in 1 .. Len(c)
  BY <1>1, <1>2, <1>3, ExchangeAssumption
<1>5. /\ SubSeq(c, 1, m) \in Seq(Blocks) /\ Len(SubSeq(c, 1, m)) = m
      /\ \A i \in 1 .. m : SubSeq(c, 1, m)[i] = c[i]
  BY <1>4
<1>6. /\ chain["tx"] = c /\ chain["rx"] = SubSeq(c, 1, m)
      /\ chain \in [Sides -> Seq(Blocks)]
  BY <1>3, <1>4, <1>5 DEF Sides
<1>7. \A s \in Sides : /\ Len(chain[s]) \in Nat /\ End(s) = Len(chain[s]) + 1
                       /\ End(s) \in Nat /\ End(s) >= 1
  BY <1>6 DEF End
<1>8. host \in [Sides -> {Little, Big}]
  BY ExchangeAssumption DEF Init, Sides
<1>9. \A s \in Sides : IsPackager(pkg[s]) /\ Cursor(pkg[s]) = 0 /\ pkg[s].size = 0
  BY <1>8, NewPackager DEF Init
<1>10. \A s \in Sides : /\ auto[s] = [i \in 1 .. End(s) |-> 0]
                        /\ at[s] = End(s)
                        /\ phase[s] \in {"size", "idle"}
                        /\ Source(s) = s => phase[s] = "size"
  BY DEF Init, Sides, Source
<1>11. TypeOK
  <2>1. \A s \in Sides : auto[s] \in [1 .. End(s) -> Nat]
    <3> SUFFICES ASSUME NEW s \in Sides PROVE auto[s] \in [1 .. End(s) -> Nat]
      OBVIOUS
    <3>1. auto[s] = [i \in 1 .. End(s) |-> 0]
      BY <1>10
    <3>2. QED  BY <3>1
  <2>2. /\ auto = [s \in Sides |-> auto[s]] /\ pkg = [s \in Sides |-> pkg[s]]
    BY DEF Init
  <2>3. phase \in [Sides -> Running \cup Stopped]
    BY DEF Init, Sides, Running
  <2>4. at \in [Sides -> Nat \ {0}] /\ \A s \in Sides : at[s] <= End(s)
    BY <1>7 DEF Init
  <2>5. loopback \in BOOLEAN
    BY DEF Init
  <2>6. cycle \in 0 .. MaxCycles
    BY ExchangeAssumption DEF Init
  <2>7. userSize \in [Sides -> UserSizes \cup {0}] /\ host \in Hosts
    BY DEF Init
  <2>8. QED  BY <1>6, <1>9, <2>1, <2>2, <2>3, <2>4, <2>5, <2>6, <2>7 DEF TypeOK
<1>12. ChainInv
  BY <1>4, <1>5, <1>6 DEF ChainInv
<1>13. LoopbackInv
  BY DEF LoopbackInv, Init
<1>14. SizesInv
  <2> SUFFICES ASSUME NEW s \in Sides, Source(s) = s
               PROVE  /\ auto[s][End(s)] = 0
                      /\ \A i \in Sized(s) .. Len(chain[s]) :
                           auto[s][i] = AutoPkgBitSize(chain[s][i], auto[s][i + 1])
    BY DEF SizesInv
  <2>1. Sized(s) = Len(chain[s]) + 1
    BY <1>7, <1>10 DEF Sized
  <2>2. auto[s][End(s)] = 0
    <3>1. auto[s] = [i \in 1 .. End(s) |-> 0] /\ End(s) \in 1 .. End(s)
      BY <1>7, <1>10
    <3>2. QED  BY <3>1
  <2>3. \A i \in Sized(s) .. Len(chain[s]) : FALSE
    BY <1>7, <2>1
  <2>4. QED  BY <2>2, <2>3
<1>15. BuiltInv /\ RoomInv /\ NoOverflowInv
  BY <1>10 DEF BuiltInv, RoomInv, NoOverflowInv
<1>16. CursorInBounds
  BY <1>9 DEF CursorInBounds
<1>17. QED  BY <1>11, <1>12, <1>13, <1>14, <1>15, <1>16 DEF IInv

\* Every block of a chain, and every step between the chains, keeps the invariant.
LEMMA InvariantStep == IInv /\ [Next]_vars => IInv'
<1> SUFFICES ASSUME IInv, [Next]_vars PROVE IInv'
  OBVIOUS
<1>1. ASSUME NEW s \in Sides, Propagate(s) \/ Build(s) PROVE IInv'
  <2>1. phase[s] = "size"
    BY <1>1 DEF Propagate, Build
  <2>2. Source(s) = s
    BY <2>1 DEF Source, Sides, IInv, LoopbackInv
  <2>3. QED  BY <1>1, <2>2, PropagateStep, BuildStep
<1>2. CASE AddElements \/ AddText \/ PackUnsigned
  BY <1>2, WriterStep
<1>3. CASE GetElements \/ GetText \/ UnpackUnsigned
  BY <1>3, ReaderStep
<1>4. CASE Trigger \/ Receive \/ ResetPointer
  BY <1>4, StartStep
<1>5. CASE Send
  BY <1>5, EndStep DEF Send, Sides
<1>6. CASE Finish
  BY <1>6, EndStep DEF Finish, Sides
<1>7. CASE UNCHANGED vars
  <2>1. UNCHANGED <<chain, loopback, userSize, host, auto, pkg, phase, at, cycle>>
    BY <1>7 DEF vars, config
  <2>2. \A t : /\ Source(t)' = Source(t) /\ End(t)' = End(t)
              /\ BufferSize(t)' = BufferSize(t) /\ Sized(t)' = Sized(t)
    BY <2>1 DEF Source, End, BufferSize, Sized
  <2>3. TypeOK'
    BY <2>1, <2>2 DEF IInv, TypeOK
  <2>4. ChainInv' /\ LoopbackInv' /\ NoOverflowInv'
    BY <2>1, <2>2 DEF IInv, ChainInv, LoopbackInv, NoOverflowInv
  <2>5. SizesInv' /\ BuiltInv'
    BY <2>1, <2>2 DEF IInv, SizesInv, BuiltInv
  <2>6. RoomInv' /\ CursorInBounds'
    BY <2>1, <2>2 DEF IInv, RoomInv, CursorInBounds, Cursor
  <2>7. QED  BY <2>3, <2>4, <2>5, <2>6 DEF IInv
<1>8. QED  BY <1>1, <1>2, <1>3, <1>4, <1>5, <1>6, <1>7 DEF Next

\* The inductive invariant holds for every set of blocks, every length of the chains and
\* every size a user may set.
THEOREM Invariant == Spec => []IInv
BY InitInvariant, InvariantStep, PTL DEF Spec

\* What the sizes of autoPkgBitSize add up to is what the operations of the packager
\* need, whatever the blocks and their order: no overflow, and no byte to spare.
THEOREM SizesAreExact == Spec => []AutoSizeExact
<1>1. IInv => AutoSizeExact
  <2> SUFFICES ASSUME IInv, NEW s \in Sides, userSize[Source(s)] = 0
               PROVE  /\ phase[s] # "overflow"
                      /\ phase[s] = "run" /\ at[s] = Len(chain[Source(s)]) + 1 =>
                           AlignAtByteBoundary(Cursor(pkg[Source(s)]))
                             = pkg[Source(s)].size
    BY DEF AutoSizeExact
  <2>1. phase[s] # "overflow"
    BY DEF IInv, NoOverflowInv
  <2>2. ASSUME phase[s] = "run", at[s] = Len(chain[Source(s)]) + 1
        PROVE  AlignAtByteBoundary(Cursor(pkg[Source(s)])) = pkg[Source(s)].size
    <3>1. /\ Source(s) \in Sides /\ Source(Source(s)) = Source(s)
          /\ Cursor(pkg[Source(s)]) \in Nat
      BY <2>2, AtBlock
    <3>2. auto[Source(s)][at[s]] = 0
      BY <2>2, <3>1 DEF IInv, SizesInv, End
    <3>3. Cursor(pkg[Source(s)]) + auto[Source(s)][at[s]] = Cursor(pkg[Source(s)])
      BY <3>1, <3>2
    <3>4. QED  BY <2>2, <3>3 DEF IInv, RoomInv
  <2>3. QED  BY <2>1, <2>2
<1>2. QED  BY Invariant, <1>1, PTL

\* Whatever the size of the buffer, the cursor never leaves it.
THEOREM CursorStaysInBounds == Spec => []CursorInBounds
<1>1. IInv => CursorInBounds
  BY DEF IInv
<1>2. QED  BY Invariant, <1>1, PTL

\* The sizes, positions and buffers have their types.
THEOREM TypeCorrect == Spec => []TypeOK
<1>1. IInv => TypeOK
  BY DEF IInv
<1>2. QED  BY Invariant, <1>1, PTL

----------------------------------------------------------------------------
(* What a package holds: the inductive invariant behind RoundTrip          *)

\* Where a block that is reached at bit c puts its value, and where the next one goes on.
Bits(b) == IF b.op = "pack" THEN b.width ELSE 8 * PayloadBytes(b)
FirstBit(b, c) == IF b.op = "pack" THEN c + b.bitOffset ELSE 8 * AlignAtByteBoundary(c)
Behind(b, c) == FirstBit(b, c) + Bits(b)

\* The bits the first n blocks are reached at, and the one behind them
Layout(blocks, places, n) ==
  /\ places \in [1 .. n + 1 -> Nat] /\ places[1] = 0
  /\ \A i \in 1 .. n : /\ places[i + 1] = Behind(blocks[i], places[i])
                       /\ places[i + 1] <= places[n + 1]

\* The cell of bit k of an array, and of a value: big-endian elements are turned round, on
\* every host.
Turned(b, k) ==
  LET byte == (k \div 8) % b.unit
  IN  8 * ((k \div (8 * b.unit)) * b.unit + (IF b.endian = Big THEN b.unit - 1 - byte ELSE byte))
        + (k % 8)
Cell(b, k) == IF b.op = "array" THEN Turned(b, k) ELSE k

\* From bit first on, data has the value of block b as far as it reaches; behind a string there
\* are zeros, and none of its bits is one.
InPlace(b, value, data, first) ==
  /\ value = [k \in DOMAIN value |-> value[k]]
  /\ \A k \in DOMAIN value : first + Cell(b, k) \in DOMAIN data =>
                               data[first + Cell(b, k)] = value[k]
  /\ IF b.op # "string" THEN DOMAIN value = 0 .. Bits(b) - 1
     ELSE \E length \in 0 .. b.bufferSize - 1 :
            /\ DOMAIN value = 0 .. 8 * length - 1
            /\ \A k \in DOMAIN value : value[k] # Zero
            /\ \A k \in 8 * length .. Bits(b) - 1 : first + k \in DOMAIN data =>
                                                     data[first + k] = Zero

\* The values of the first n blocks are in their places.
Contents(blocks, data, values, places, n) ==
  \A i \in 1 .. n : InPlace(blocks[i], values[i], data, FirstBit(blocks[i], places[i]))

\* A package of all blocks; the one before the first has only zeros.
Holds(blocks, data, values, places) ==
  /\ Layout(blocks, places, Len(blocks))
  /\ Contents(blocks, data, values, places, Len(blocks))
Empty(data) == \A c \in DOMAIN data : data[c] = Zero

\* The writers have put the values so far into their places.
WriteInv ==
  phase["tx"] = "run" =>
    /\ u = [i \in 1 .. at["tx"] - 1 |-> u[i]]
    /\ \E places \in [1 .. at["tx"] -> Nat] :
         /\ Layout(chain["tx"], places, at["tx"] - 1)
         /\ places[at["tx"]] = Cursor(pkg["tx"])
         /\ Contents(chain["tx"], pkg["tx"].data, u, places, at["tx"] - 1)

\* The socket has the package with the values in it, as far as its buffer reaches.
InboxInv ==
  ~loopback =>
    /\ DOMAIN inbox.data = IF phase["rx"] = "size" THEN {} ELSE 0 .. 8 * pkg["rx"].size - 1
    /\ IF inbox.u = Nothing THEN Empty(inbox.data)
       ELSE \E places \in [1 .. End("tx") -> Nat] : Holds(chain["tx"], inbox.data, inbox.u, places)

\* The readers work on the package of the values taken, and have come to the same bit as the
\* writer of the block they have come to.
ReadInv ==
  phase["rx"] = "run" =>
    /\ y = [i \in 1 .. at["rx"] - 1 |-> y[i]]
    /\ IF taken = Nothing THEN Empty(pkg[Source("rx")].data)
       ELSE \E places \in [1 .. End("tx") -> Nat] :
              /\ Holds(chain["tx"], pkg[Source("rx")].data, taken, places)
              /\ places[at["rx"]] = Cursor(pkg[Source("rx")])

DataInv ==
  Len(chain["tx"]) >= 1 /\ WriteInv /\ InboxInv /\ ReadInv /\ RoundTrip

----------------------------------------------------------------------------
(* The byte order of arrays *)

\* Quotient and rest are determined by what they make up.
LEMMA Quotient ==
  ASSUME NEW d \in Nat \ {0}, NEW q \in Nat, NEW r \in 0 .. d - 1
  PROVE  (q * d + r) \div d = q /\ (q * d + r) % d = r
<1> DEFINE m == q * d + r
           a == m \div d
           b == m % d
<1>1. q * d \in Nat
  BY SMT
<1>2. m \in Nat
  BY <1>1
<1>3. a \in Int /\ b \in 0 .. d - 1 /\ m = a * d + b
  BY <1>2, SMTT(30)
<1> HIDE DEF a, b
<1>4. a = q
  <2>1. CASE a > q
    <3>1. a * d >= (q + 1) * d
      BY <1>3, <2>1, SMTT(30)
    <3>2. (q + 1) * d = q * d + d
      BY SMTT(30)
    <3>3. a * d \in Int /\ (q + 1) * d \in Int
      BY <1>3
    <3>4. QED
      BY <1>1, <1>3, <3>1, <3>2, <3>3
  <2>2. CASE a < q
    <3>1. q * d >= (a + 1) * d
      BY <1>3, <2>2, SMTT(30)
    <3>2. (a + 1) * d = a * d + d
      BY <1>3, SMTT(30)
    <3>3. a * d \in Int /\ (a + 1) * d \in Int
      BY <1>3
    <3>4. QED
      BY <1>1, <1>3, <3>1, <3>2, <3>3
  <2>3. QED
    BY <1>3, <2>1, <2>2
<1>5. a * d = q * d
  BY <1>4
<1>6. b = r
  BY <1>1, <1>3, <1>5
<1>7. QED
  BY <1>4, <1>6 DEF a, b

\* A bit of an array is a bit of a byte of an element.
LEMMA BitOfElement ==
  ASSUME NEW unit \in Nat \ {0}, NEW n \in Nat, NEW k \in 0 .. 8 * (unit * n) - 1
  PROVE  /\ k \div (8 * unit) \in 0 .. n - 1 /\ (k \div 8) % unit \in 0 .. unit - 1
         /\ k % 8 \in 0 .. 7
         /\ k = 8 * ((k \div (8 * unit)) * unit + ((k \div 8) % unit)) + (k % 8)
<1> DEFINE m == k \div 8
           bit == k % 8
           e == m \div unit
           byte == m % unit
<1>1. m \in Nat /\ bit \in 0 .. 7 /\ k = 8 * m + bit
  OBVIOUS
<1> HIDE DEF m, bit
<1>2. e \in Nat /\ byte \in 0 .. unit - 1 /\ m = e * unit + byte
  BY <1>1, SMTT(30)
<1> HIDE DEF e, byte
<1>3. e * unit \in Nat /\ unit * n \in Nat /\ e * (8 * unit) = 8 * (e * unit)
  BY <1>2, SMTT(30)
<1>4. k = e * (8 * unit) + (8 * byte + bit) /\ 8 * byte + bit \in 0 .. 8 * unit - 1
  BY <1>1, <1>2, <1>3
<1>5. k \div (8 * unit) = e
  <2>1. 8 * unit \in Nat \ {0}
    OBVIOUS
  <2>2. QED
    BY <1>2, <1>4, <2>1, Quotient
<1>6. e < n
  <2> SUFFICES ASSUME e >= n PROVE FALSE
    BY <1>2
  <2>1. e * unit >= n * unit /\ n * unit = unit * n
    BY <1>2, SMTT(30)
  <2>2. QED
    BY <1>1, <1>2, <1>3, <2>1
<1>7. (k \div 8) % unit = byte /\ k % 8 = bit
  BY DEF m, bit, byte
<1>8. QED
  BY <1>1, <1>2, <1>5, <1>6, <1>7

\* Turning the elements round twice changes nothing.
LEMMA TurnedTwice ==
  ASSUME NEW unit \in Nat \ {0}, NEW n \in Nat, NEW k \in 0 .. 8 * (unit * n) - 1,
         NEW b, b.unit = unit
  PROVE  Turned(b, k) \in 0 .. 8 * (unit * n) - 1 /\ Turned(b, Turned(b, k)) = k
<1> DEFINE e == k \div (8 * unit)
           byte == (k \div 8) % unit
           bit == k % 8
           other == IF b.endian = Big THEN unit - 1 - byte ELSE byte
           t == 8 * (e * unit + other) + bit
<1>1. /\ e \in 0 .. n - 1 /\ byte \in 0 .. unit - 1 /\ bit \in 0 .. 7
      /\ k = 8 * (e * unit + byte) + bit
  BY BitOfElement
<1>2. Turned(b, k) = t
  BY DEF Turned
<1> HIDE DEF e, byte, bit
<1>3. other \in 0 .. unit - 1 /\ byte = IF b.endian = Big THEN unit - 1 - other ELSE other
  BY <1>1
<1> HIDE DEF other
<1>4. t = 8 * (e * unit + other) + bit
  OBVIOUS
<1> HIDE DEF t
<1>5. /\ t \in 0 .. 8 * (unit * n) - 1 /\ t \div (8 * unit) = e /\ (t \div 8) % unit = other
      /\ t % 8 = bit
  <2> DEFINE m == e * unit + other
  <2>1. /\ e * unit \in Nat /\ unit * n \in Nat /\ e * (8 * unit) = 8 * (e * unit)
        /\ (e + 1) * unit = e * unit + unit /\ (e + 1) * unit <= n * unit /\ n * unit = unit * n
    BY <1>1, SMTT(30)
  <2>2. m \in Nat /\ m % unit = other
    <3>1. e \in Nat
      BY <1>1
    <3>2. (e * unit + other) % unit = other
      BY <1>3, <3>1, Quotient, Zenon
    <3>3. QED
      BY <1>3, <2>1, <3>2
  <2>3. m < unit * n
    BY <1>3, <2>1
  <2>4. t = e * (8 * unit) + (8 * other + bit) /\ 8 * other + bit \in 0 .. 8 * unit - 1
    BY <1>1, <1>3, <1>4, <2>1
  <2>5. t \div (8 * unit) = e
    BY <1>1, <2>4, Quotient
  <2>6. t = 8 * m + bit
    BY <1>4
  <2> HIDE DEF m
  <2>7. t \div 8 = m /\ t % 8 = bit /\ t \in 0 .. 8 * (unit * n) - 1
    BY <1>1, <2>1, <2>2, <2>3, <2>6
  <2>8. QED
    BY <2>2, <2>5, <2>7
<1>6. Turned(b, t) = 8 * (e * unit + (IF b.endian = Big THEN unit - 1 - other ELSE other)) + bit
  BY <1>5 DEF Turned
<1>7. QED
  BY <1>1, <1>2, <1>3, <1>5, <1>6

\* The place of a bit does not depend on the byte order of the host.
LEMMA PlaceTurned ==
  ASSUME NEW p, IsPackager(p), NEW b, b.endian \in {Little, Big}, NEW k
  PROVE  Place(p, b.unit, b.endian, k) = Turned(b, k)
<1>1. (p.endian = Big) # SwapsBytes(p, b.endian) <=> b.endian = Big
  <2>1. p.endian \in {Little, Big} /\ Little # Big
    BY DEF IsPackager, Little, Big
  <2>2. SwapsBytes(p, b.endian) <=> b.endian # p.endian
    BY <2>1 DEF SwapsBytes
  <2>3. SwapsBytes(p, b.endian) \in BOOLEAN
    BY DEF SwapsBytes
  <2>4. CASE b.endian = Big
    BY <2>1, <2>2, <2>3, <2>4
  <2>5. CASE b.endian # Big
    BY <2>1, <2>2, <2>3, <2>5
  <2>6. QED
    BY <2>4, <2>5
<1>2. QED
  BY <1>1 DEF Place, Turned

----------------------------------------------------------------------------
(* Values in their places *)

\* What a block is, and how many bits it has.
LEMMA BlockFields ==
  ASSUME NEW b \in Blocks
  PROVE  /\ Bits(b) \in Nat
         /\ \/ /\ b.op = "array" /\ b.unit \in Nat \ {0} /\ b.n \in Nat /\ b.endian \in {Little, Big}
               /\ Bits(b) = 8 * (b.unit * b.n) /\ b.unit * b.n \in Nat
               /\ PayloadBytes(b) = b.unit * b.n
            \/ /\ b.op = "string" /\ b.bufferSize \in Nat \ {0} /\ Bits(b) = 8 * b.bufferSize
               /\ PayloadBytes(b) = b.bufferSize
            \/ b.op = "pack" /\ b.bitOffset \in Nat /\ b.width \in Nat /\ Bits(b) = b.width
<1>1. b \in Arrays \/ b \in Strings \/ b \in Packed
  BY ExchangeAssumption
<1>2. CASE b \in Arrays
  <2>1. b.op = "array" /\ b.unit \in Nat \ {0} /\ b.n \in Nat /\ b.endian \in {Little, Big}
    BY <1>2 DEF Arrays
  <2>2. \A i, j \in Nat : i * j \in Nat
    OBVIOUS
  <2>3. b.unit * b.n \in Nat
    BY <2>1, <2>2
  <2>4. QED
    BY <2>1, <2>3 DEF Bits, PayloadBytes
<1>3. CASE b \in Strings
  BY <1>3 DEF Strings, Bits, PayloadBytes
<1>4. CASE b \in Packed
  BY <1>4 DEF Packed, Bits
<1>5. QED
  BY <1>1, <1>2, <1>3, <1>4

\* The bits of a block have cells of their own among as many cells.
LEMMA CellOfBit ==
  ASSUME NEW b \in Blocks, NEW k \in 0 .. Bits(b) - 1
  PROVE  Cell(b, k) \in 0 .. Bits(b) - 1 /\ Cell(b, Cell(b, k)) = k
<1>1. CASE b.op = "array"
  <2>1. b.unit \in Nat \ {0} /\ b.n \in Nat /\ Bits(b) = 8 * (b.unit * b.n)
    BY <1>1, BlockFields
  <2>2. k \in 0 .. 8 * (b.unit * b.n) - 1
    BY <2>1
  <2>3. Turned(b, k) \in 0 .. 8 * (b.unit * b.n) - 1 /\ Turned(b, Turned(b, k)) = k
    BY <2>1, <2>2, TurnedTwice
  <2>4. QED
    BY <1>1, <2>1, <2>3 DEF Cell
<1>2. CASE b.op # "array"
  BY <1>2 DEF Cell
<1>3. QED
  BY <1>1, <1>2

\* A value has no more bits than its block.
LEMMA ValueInside ==
  ASSUME NEW b \in Blocks, NEW value, NEW data, NEW first, InPlace(b, value, data, first)
  PROVE  DOMAIN value \subseteq 0 .. Bits(b) - 1
<1>1. CASE b.op # "string"
  BY <1>1 DEF InPlace
<1>2. CASE b.op = "string"
  <2>1. Bits(b) = 8 * b.bufferSize /\ b.bufferSize \in Nat
    BY <1>2, BlockFields
  <2>2. QED
    BY <1>2, <2>1 DEF InPlace
<1>3. QED
  BY <1>1, <1>2

\* Data that agrees in the cells of a block has its value as well.
LEMMA StaysInPlace ==
  ASSUME NEW b \in Blocks, NEW value, NEW data, NEW first \in Nat, InPlace(b, value, data, first),
         NEW other, \A c \in first .. first + Bits(b) - 1 :
                      c \in DOMAIN other => c \in DOMAIN data /\ other[c] = data[c]
  PROVE  InPlace(b, value, other, first)
<1>1. Bits(b) \in Nat
  BY BlockFields
<1>2. ASSUME NEW k \in DOMAIN value, first + Cell(b, k) \in DOMAIN other
      PROVE  other[first + Cell(b, k)] = value[k]
  <2>1. k \in 0 .. Bits(b) - 1
    BY ValueInside
  <2>2. first + Cell(b, k) \in first .. first + Bits(b) - 1
    BY <1>1, <2>1, CellOfBit
  <2>3. QED
    BY <1>2, <2>2 DEF InPlace
<1>3. ASSUME b.op = "string", NEW length \in 0 .. b.bufferSize - 1,
             \A k \in 8 * length .. Bits(b) - 1 : first + k \in DOMAIN data => data[first + k] = Zero,
             NEW k \in 8 * length .. Bits(b) - 1, first + k \in DOMAIN other
      PROVE  other[first + k] = Zero
  <2>1. b.bufferSize \in Nat /\ Bits(b) = 8 * b.bufferSize
    BY <1>3, BlockFields
  <2>2. first + k \in first .. first + Bits(b) - 1
    BY <1>3, <2>1
  <2>3. QED
    BY <1>3, <2>2
<1>4. QED
  BY <1>2, <1>3 DEF InPlace

\* The values of a package are still in it when its cells up to the next block are the same.
LEMMA StaysContained ==
  ASSUME NEW blocks \in Seq(Blocks), NEW n \in Nat, n <= Len(blocks), NEW places, Layout(blocks, places, n),
         NEW values, NEW data, Contents(blocks, data, values, places, n),
         NEW other, \A c \in 0 .. places[n + 1] - 1 :
                      c \in DOMAIN other => c \in DOMAIN data /\ other[c] = data[c]
  PROVE  Contents(blocks, other, values, places, n)
<1> SUFFICES ASSUME NEW i \in 1 .. n
             PROVE  InPlace(blocks[i], values[i], other, FirstBit(blocks[i], places[i]))
  BY DEF Contents
<1> DEFINE b == blocks[i]
           first == FirstBit(b, places[i])
<1>1. b \in Blocks /\ places[i] \in Nat /\ places[n + 1] \in Nat
  BY DEF Layout
<1>2. first \in Nat
  <2>1. AlignAtByteBoundary(places[i]) \in Nat
    BY <1>1, AlignSum
  <2>2. b.op = "pack" => b.bitOffset \in Nat
    BY <1>1, BlockFields
  <2>3. QED
    BY <1>1, <2>1, <2>2 DEF FirstBit
<1>3. Bits(b) \in Nat
  BY <1>1, BlockFields
<1>4. first + Bits(b) <= places[n + 1]
  BY DEF Layout, Behind
<1>5. InPlace(b, values[i], data, first)
  BY DEF Contents
<1> HIDE DEF b, first
<1>6. \A c \in first .. first + Bits(b) - 1 : c \in DOMAIN other => c \in DOMAIN data /\ other[c] = data[c]
  BY <1>1, <1>2, <1>3, <1>4
<1>7. InPlace(b, values[i], other, first)
  BY <1>1, <1>2, <1>5, <1>6, StaysInPlace
<1>8. QED
  BY <1>7 DEF b, first

\* What the reader of a block returns
Got(b, p) ==
  IF b.op = "array" THEN GetArray(p, b.unit, b.n, b.endian)
  ELSE IF b.op = "string" THEN GetString(p, b.bufferSize)
  ELSE BitunpackValue(p, FromBit(p, b.bitOffset), b.width)

\* The operations find the first bit of a block from the position and the bit offset.
LEMMA FirstBits ==
  ASSUME NEW p, IsPackager(p), NEW b \in Blocks
  PROVE  /\ FirstBit(b, Cursor(p)) \in Nat /\ FirstBit(b, Cursor(p)) >= Cursor(p) /\ Cursor(p) \in Nat
         /\ b.op # "pack" => /\ FirstBit(b, Cursor(p)) = 8 * AlignToByteBoundary(p).pos
                             /\ AlignToByteBoundary(p).pos \in Nat
         /\ b.op = "pack" => /\ FirstBit(b, Cursor(p)) = 8 * p.pos + FromBit(p, b.bitOffset)
                             /\ FromBit(p, b.bitOffset) \in Nat /\ p.pos \in Nat
<1>1. p.pos \in Nat /\ p.bitOffset \in Nat /\ Cursor(p) = 8 * p.pos + p.bitOffset /\ Cursor(p) \in Nat
  BY DEF IsPackager, Cursor
<1>2. CASE b.op = "pack"
  <2>1. b.bitOffset \in Nat
    BY <1>2, BlockFields
  <2>2. QED
    BY <1>1, <1>2, <2>1 DEF FirstBit, FromBit
<1>3. CASE b.op # "pack"
  <2>1. /\ AlignAtByteBoundary(Cursor(p)) \in Nat
        /\ 8 * AlignAtByteBoundary(Cursor(p)) >= Cursor(p)
    BY <1>1, AlignSum
  <2>2. AlignToByteBoundary(p).pos = AlignAtByteBoundary(Cursor(p))
    BY Aligned
  <2>3. QED
    BY <1>1, <1>3, <2>1, <2>2 DEF FirstBit
<1>4. QED
  BY <1>2, <1>3

\* A block that has room returns the value that is in its place.
LEMMA ReadBlock ==
  ASSUME NEW p, IsPackager(p), NEW b \in Blocks, NEW first, first = FirstBit(b, Cursor(p)),
         first + Bits(b) <= 8 * p.size, NEW value, InPlace(b, value, p.data, first)
  PROVE  Got(b, p) = value
<1>1. first \in Nat /\ Bits(b) \in Nat
  BY FirstBits, BlockFields
<1>2. DOMAIN p.data = 0 .. 8 * p.size - 1 /\ p.size \in Nat
  BY DEF IsPackager
<1>3. ASSUME NEW k \in DOMAIN value
      PROVE  p.data[first + Cell(b, k)] = value[k] /\ k \in 0 .. Bits(b) - 1
  <2>1. k \in 0 .. Bits(b) - 1
    BY ValueInside
  <2>2. Cell(b, k) \in 0 .. Bits(b) - 1
    BY <2>1, CellOfBit
  <2>3. first + Cell(b, k) \in DOMAIN p.data
    BY <1>1, <1>2, <2>2
  <2>4. QED
    BY <2>1, <2>3 DEF InPlace
<1>4. CASE b.op = "array"
  <2>1. /\ b.unit \in Nat \ {0} /\ b.n \in Nat /\ b.endian \in {Little, Big} /\ b.unit * b.n \in Nat
        /\ Bits(b) = 8 * (b.unit * b.n) /\ first = 8 * AlignToByteBoundary(p).pos
    BY <1>4, BlockFields, FirstBits
  <2>2. 8 * b.unit * b.n = 8 * (b.unit * b.n)
    BY <2>1, SMTT(30)
  <2>3. DOMAIN value = 0 .. 8 * b.unit * b.n - 1
    BY <1>4, <2>1, <2>2 DEF InPlace
  <2>4. GetArray(p, b.unit, b.n, b.endian)
          = [k \in DOMAIN value |-> p.data[first + Place(p, b.unit, b.endian, k)]]
    BY <2>1, <2>3 DEF GetArray
  <2>5. \A k : Place(p, b.unit, b.endian, k) = Cell(b, k)
    BY <1>4, <2>1, PlaceTurned DEF Cell
  <2>6. [k \in DOMAIN value |-> p.data[first + Place(p, b.unit, b.endian, k)]]
          = [k \in DOMAIN value |-> value[k]]
    BY <1>3, <2>5
  <2>7. QED
    BY <1>4, <2>4, <2>6 DEF Got, InPlace
<1>5. CASE b.op = "string"
  <2>1. /\ b.bufferSize \in Nat \ {0} /\ Bits(b) = 8 * b.bufferSize
        /\ first = 8 * AlignToByteBoundary(p).pos /\ AlignToByteBoundary(p).pos \in Nat
    BY <1>5, BlockFields, FirstBits
  <2> DEFINE byte == AlignToByteBoundary(p).pos
             chars == {j \in 0 .. b.bufferSize - 1 : \A i \in 0 .. j : ~IsNull(p, byte + i)}
  <2>2. PICK length \in 0 .. b.bufferSize - 1 :
               /\ DOMAIN value = 0 .. 8 * length - 1
               /\ \A k \in DOMAIN value : value[k] # Zero
               /\ \A k \in 8 * length .. Bits(b) - 1 : first + k \in DOMAIN p.data =>
                                                        p.data[first + k] = Zero
    BY <1>5 DEF InPlace
  <2>3. GetString(p, b.bufferSize)
          = [k \in {8 * j + i : j \in chars, i \in 0 .. 7} |-> p.data[8 * byte + k]]
    BY DEF GetString
  <2>4. first = 8 * byte /\ byte \in Nat
    BY <2>1
  <2> HIDE DEF byte
  <2>5. \A k \in DOMAIN value : p.data[first + k] = value[k]
    BY <1>3, <1>5 DEF Cell
  <2>6. ASSUME NEW j \in 0 .. length - 1 PROVE ~IsNull(p, byte + j)
    <3>1. 8 * j \in DOMAIN value /\ 8 * (byte + j) + 0 = first + 8 * j
      BY <2>1, <2>2, <2>4
    <3>2. p.data[8 * (byte + j) + 0] # Zero
      BY <2>2, <2>5, <3>1
    <3>3. QED
      BY <3>2 DEF IsNull
  <2>7. IsNull(p, byte + length)
    <3> SUFFICES ASSUME NEW k \in 0 .. 7 PROVE p.data[8 * (byte + length) + k] = Zero
      BY DEF IsNull
    <3>1. b.bufferSize \in Nat /\ length \in Nat /\ length + 1 <= b.bufferSize
      BY <2>1, <2>2
    <3>2. 8 * length + k \in 8 * length .. Bits(b) - 1
      BY <1>1, <2>1, <3>1
    <3>3. 8 * (byte + length) + k = first + (8 * length + k)
      BY <2>4, <3>1
    <3>4. first + (8 * length + k) \in DOMAIN p.data
      BY SMTT(30), <1>1, <1>2, <3>1, <3>2
    <3>5. QED
      BY <2>2, <3>2, <3>3, <3>4
  <2>8. chars = 0 .. length - 1
    <3>1. ASSUME NEW j \in 0 .. length - 1 PROVE j \in chars
      BY <2>1, <2>2, <2>6
    <3>2. ASSUME NEW j \in chars PROVE j \in 0 .. length - 1
      BY <2>1, <2>2, <2>7
    <3>3. QED
      BY <3>1, <3>2
  <2> HIDE DEF chars
  <2>9. {8 * j + i : j \in chars, i \in 0 .. 7} = DOMAIN value
    <3>1. ASSUME NEW k \in 0 .. 8 * length - 1
          PROVE  k \div 8 \in 0 .. length - 1 /\ k % 8 \in 0 .. 7 /\ k = 8 * (k \div 8) + (k % 8)
      BY <2>1, <2>2
    <3>2. ASSUME NEW j \in 0 .. length - 1, NEW i \in 0 .. 7 PROVE 8 * j + i \in 0 .. 8 * length - 1
      BY <2>1, <2>2
    <3>3. ASSUME NEW k \in DOMAIN value PROVE \E j \in chars : \E i \in 0 .. 7 : k = 8 * j + i
      BY <2>2, <2>8, <3>1
    <3>4. \A j \in chars : \A i \in 0 .. 7 : 8 * j + i \in DOMAIN value
      BY <2>2, <2>8, <3>2
    <3> DEFINE bits == DOMAIN value
    <3>5. /\ \A k \in bits : \E j \in chars : \E i \in 0 .. 7 : k = 8 * j + i
          /\ \A j \in chars : \A i \in 0 .. 7 : 8 * j + i \in bits
      BY <3>3, <3>4
    <3> HIDE DEF bits
    <3>6. {8 * j + i : j \in chars, i \in 0 .. 7} = bits
      BY <3>5, SMTT(30)
    <3>7. QED
      BY <3>6 DEF bits
  <2>10. GetString(p, b.bufferSize) = [k \in DOMAIN value |-> value[k]]
    BY <2>3, <2>4, <2>5, <2>9
  <2>11. QED
    BY <1>5, <2>10 DEF Got, InPlace
<1>6. CASE b.op = "pack"
  <2>1. Bits(b) = b.width /\ first = 8 * p.pos + FromBit(p, b.bitOffset) /\ DOMAIN value = 0 .. b.width - 1
    BY <1>6, BlockFields, FirstBits DEF InPlace
  <2>2. \A k \in DOMAIN value : p.data[first + k] = value[k]
    BY <1>3, <1>6 DEF Cell
  <2>3. BitunpackValue(p, FromBit(p, b.bitOffset), b.width) = [k \in DOMAIN value |-> value[k]]
    BY <2>1, <2>2 DEF BitunpackValue
  <2>4. QED
    BY <1>6, <2>3 DEF Got, InPlace
<1>7. QED
  BY <1>4, <1>5, <1>6, BlockFields

\* A block that has room returns zeros from a package without values, or no character.
LEMMA ReadEmpty ==
  ASSUME NEW p, IsPackager(p), NEW b \in Blocks, FirstBit(b, Cursor(p)) + Bits(b) <= 8 * p.size,
         Empty(p.data)
  PROVE  \A k \in DOMAIN Got(b, p) : Got(b, p)[k] = Zero
<1> DEFINE first == FirstBit(b, Cursor(p))
<1>1. first \in Nat /\ Bits(b) \in Nat
  BY FirstBits, BlockFields
<1>2. ASSUME NEW k \in 0 .. Bits(b) - 1 PROVE p.data[first + k] = Zero
  <2>1. DOMAIN p.data = 0 .. 8 * p.size - 1 /\ p.size \in Nat /\ first + Bits(b) <= 8 * p.size
    BY DEF IsPackager
  <2> HIDE DEF first
  <2>2. first + k \in DOMAIN p.data
    BY <1>1, <2>1
  <2>3. QED
    BY <2>2 DEF Empty
<1>3. CASE b.op = "array"
  <2>1. /\ b.unit \in Nat \ {0} /\ b.n \in Nat /\ b.endian \in {Little, Big} /\ b.unit * b.n \in Nat
        /\ Bits(b) = 8 * (b.unit * b.n) /\ first = 8 * AlignToByteBoundary(p).pos
    BY <1>3, BlockFields, FirstBits
  <2>2. 8 * b.unit * b.n = 8 * (b.unit * b.n)
    BY <2>1, SMTT(30)
  <2>3. ASSUME NEW k \in 0 .. Bits(b) - 1 PROVE p.data[first + Place(p, b.unit, b.endian, k)] = Zero
    <3>1. Place(p, b.unit, b.endian, k) \in 0 .. Bits(b) - 1
      BY <1>3, <2>1, PlaceTurned, CellOfBit DEF Cell
    <3>2. QED
      BY <1>2, <3>1
  <2>4. GetArray(p, b.unit, b.n, b.endian)
          = [k \in 0 .. Bits(b) - 1 |-> p.data[first + Place(p, b.unit, b.endian, k)]]
    BY <2>1, <2>2 DEF GetArray
  <2>5. QED
    BY <1>3, <2>3, <2>4 DEF Got
<1>4. CASE b.op = "string"
  <2>1. /\ b.bufferSize \in Nat \ {0} /\ Bits(b) = 8 * b.bufferSize
        /\ first = 8 * AlignToByteBoundary(p).pos /\ AlignToByteBoundary(p).pos \in Nat
    BY <1>4, BlockFields, FirstBits
  <2> DEFINE byte == AlignToByteBoundary(p).pos
             chars == {j \in 0 .. b.bufferSize - 1 : \A i \in 0 .. j : ~IsNull(p, byte + i)}
  <2>2. GetString(p, b.bufferSize)
          = [k \in {8 * j + i : j \in chars, i \in 0 .. 7} |-> p.data[8 * byte + k]]
    BY DEF GetString
  <2>3. IsNull(p, byte + 0)
    <3> SUFFICES ASSUME NEW k \in 0 .. 7 PROVE p.data[8 * (byte + 0) + k] = Zero
      BY DEF IsNull
    <3>1. 8 * (byte + 0) + k = first + k /\ k \in 0 .. Bits(b) - 1
      BY <2>1
    <3>2. QED
      BY <1>2, <3>1
  <2>4. chars = {}
    BY <2>1, <2>3
  <2> HIDE DEF chars
  <2>5. {8 * j + i : j \in chars, i \in 0 .. 7} = {}
    BY <2>4
  <2>6. QED
    BY <1>4, <2>2, <2>5 DEF Got
<1>5. CASE b.op = "pack"
  <2>1. Bits(b) = b.width /\ first = 8 * p.pos + FromBit(p, b.bitOffset)
    BY <1>5, BlockFields, FirstBits
  <2>2. BitunpackValue(p, FromBit(p, b.bitOffset), b.width) = [k \in 0 .. Bits(b) - 1 |-> p.data[first + k]]
    BY <2>1 DEF BitunpackValue
  <2>3. QED
    BY <1>2, <1>5, <2>2 DEF Got
<1>6. QED
  BY <1>3, <1>4, <1>5, BlockFields

\* The checks of the operations keep a block inside the buffer.
LEMMA RoomOf ==
  ASSUME NEW p, IsPackager(p), NEW b \in Blocks
  PROVE  /\ b.op # "pack" /\ ~Overflows(p, PayloadBytes(b)) => Behind(b, Cursor(p)) <= 8 * p.size
         /\ b.op = "pack" /\ ~OverflowsBits(p, FromBit(p, b.bitOffset), b.width) =>
              Behind(b, Cursor(p)) <= 8 * p.size
<1>1. p.size \in Nat
  BY DEF IsPackager
<1>2. ASSUME b.op # "pack", ~Overflows(p, PayloadBytes(b)) PROVE Behind(b, Cursor(p)) <= 8 * p.size
  <2>1. /\ PayloadBytes(b) \in Nat /\ Bits(b) = 8 * PayloadBytes(b)
        /\ FirstBit(b, Cursor(p)) = 8 * AlignToByteBoundary(p).pos /\ AlignToByteBoundary(p).pos \in Nat
    BY <1>2, BlockFields, FirstBits
  <2>2. AlignToByteBoundary(p).pos + PayloadBytes(b) <= p.size
    BY <1>1, <1>2, <2>1 DEF Overflows
  <2>3. QED
    BY <1>1, <2>1, <2>2 DEF Behind
<1>3. ASSUME b.op = "pack", ~OverflowsBits(p, FromBit(p, b.bitOffset), b.width)
      PROVE  Behind(b, Cursor(p)) <= 8 * p.size
  <2> DEFINE offset == FromBit(p, b.bitOffset)
             bytes == AlignAtByteBoundary(offset + b.width)
  <2>1. /\ b.width \in Nat /\ Bits(b) = b.width /\ offset \in Nat /\ p.pos \in Nat
        /\ FirstBit(b, Cursor(p)) = 8 * p.pos + offset
    BY <1>3, BlockFields, FirstBits
  <2>2. bytes \in Nat /\ 8 * bytes >= offset + b.width
    <3>1. offset + b.width \in Nat
      BY <2>1
    <3>2. QED
      BY <3>1, AlignSum, Zenon
  <2>3. p.pos + bytes <= p.size
    BY <1>1, <1>3, <2>1, <2>2 DEF OverflowsBits
  <2> HIDE DEF offset, bytes
  <2>4. QED
    BY <1>1, <2>1, <2>2, <2>3 DEF Behind
<1>4. QED
  BY <1>2, <1>3

\* AddBytes writes the field of a block, and nothing in front of it.
LEMMA FieldWritten ==
  ASSUME NEW p, IsPackager(p), NEW b \in Blocks, b.op # "pack", NEW cells
  PROVE  LET first == FirstBit(b, Cursor(p))
             q == AddBytes(p, cells, PayloadBytes(b))
         IN  /\ IsPackager(q) /\ q.size = p.size /\ Cursor(q) = Behind(b, Cursor(p))
             /\ \A k \in 0 .. Bits(b) - 1 : first + k \in DOMAIN q.data => q.data[first + k] = cells[k]
             /\ \A c \in 0 .. first - 1 : c \in DOMAIN q.data => c \in DOMAIN p.data /\ q.data[c] = p.data[c]
<1> DEFINE first == FirstBit(b, Cursor(p))
           q == AddBytes(p, cells, PayloadBytes(b))
<1>1. /\ PayloadBytes(b) \in Nat /\ Bits(b) = 8 * PayloadBytes(b) /\ first \in Nat
      /\ first = 8 * AlignToByteBoundary(p).pos
  BY BlockFields, FirstBits
<1>2. IsPackager(q) /\ q.size = p.size /\ Cursor(q) = 8 * (AlignAtByteBoundary(Cursor(p)) + PayloadBytes(b))
  BY <1>1, Moved
<1>3. Cursor(q) = Behind(b, Cursor(p))
  <2>1. AlignAtByteBoundary(Cursor(p)) \in Nat
    BY FirstBits, AlignSum
  <2>2. QED
    BY <1>1, <1>2, <2>1 DEF Behind, FirstBit
<1>4. q.data = [c \in DOMAIN p.data |-> IF c \in first .. first + 8 * PayloadBytes(b) - 1
                                        THEN cells[c - first] ELSE p.data[c]]
  <2>1. DOMAIN AlignToByteBoundary(p) = {"pos", "bitOffset", "size", "endian", "data"}
    BY Aligned DEF IsPackager
  <2>2. QED
    BY <1>1, <2>1 DEF AddBytes
<1>5. ASSUME NEW k \in 0 .. Bits(b) - 1, first + k \in DOMAIN q.data PROVE q.data[first + k] = cells[k]
  <2>1. first + k \in first .. first + 8 * PayloadBytes(b) - 1 /\ (first + k) - first = k
    BY <1>1
  <2>2. first + k \in DOMAIN p.data
    BY <1>4, <1>5
  <2>3. QED
    BY <1>4, <2>1, <2>2
<1>6. ASSUME NEW c \in 0 .. first - 1, c \in DOMAIN q.data
      PROVE  c \in DOMAIN p.data /\ q.data[c] = p.data[c]
  BY <1>1, <1>4, <1>6
<1>7. QED
  BY <1>2, <1>3, <1>5, <1>6

\* An operation that succeeds puts its value into the place of the block, leaves what is in
\* front of it as it is, and goes on behind it.
Puts(b, p, value, q) ==
  /\ IsPackager(q) /\ q.size = p.size /\ Cursor(q) = Behind(b, Cursor(p))
  /\ InPlace(b, value, q.data, FirstBit(b, Cursor(p)))
  /\ \A c \in 0 .. Cursor(p) - 1 : c \in DOMAIN q.data => c \in DOMAIN p.data /\ q.data[c] = p.data[c]

\* AddBoolean, AddInteger, AddReal and AddFloat
LEMMA ArrayPut ==
  ASSUME NEW p, IsPackager(p), NEW b \in Blocks, b.op = "array",
         NEW value, value = [k \in 0 .. Bits(b) - 1 |-> value[k]]
  PROVE  Puts(b, p, value, AddArray(p, value, b.unit, b.n, b.endian))
<1> DEFINE first == FirstBit(b, Cursor(p))
           cells == [c \in 0 .. Bits(b) - 1 |-> value[Place(p, b.unit, b.endian, c)]]
           q == AddBytes(p, cells, PayloadBytes(b))
<1>1. /\ b.unit \in Nat \ {0} /\ b.n \in Nat /\ b.endian \in {Little, Big} /\ b.unit * b.n \in Nat
      /\ Bits(b) = 8 * (b.unit * b.n) /\ PayloadBytes(b) = b.unit * b.n
  BY BlockFields
<1>2. 8 * b.unit * b.n = 8 * (b.unit * b.n)
  BY <1>1, SMTT(30)
<1>3. AddArray(p, value, b.unit, b.n, b.endian) = q
  BY <1>1, <1>2 DEF AddArray
<1>4. first \in Nat /\ first >= Cursor(p) /\ Cursor(p) \in Nat
  BY FirstBits
<1>5. /\ IsPackager(q) /\ q.size = p.size /\ Cursor(q) = Behind(b, Cursor(p))
      /\ \A k \in 0 .. Bits(b) - 1 : first + k \in DOMAIN q.data => q.data[first + k] = cells[k]
      /\ \A c \in 0 .. first - 1 : c \in DOMAIN q.data => c \in DOMAIN p.data /\ q.data[c] = p.data[c]
  <2>1. b.op # "pack"
    OBVIOUS
  <2> HIDE DEF cells
  <2>2. QED
    BY <2>1, FieldWritten
<1> HIDE DEF q, first
<1>6. ASSUME NEW k \in DOMAIN value, first + Cell(b, k) \in DOMAIN q.data
      PROVE  q.data[first + Cell(b, k)] = value[k]
  <2>1. k \in 0 .. Bits(b) - 1
    OBVIOUS
  <2>2. Cell(b, k) \in 0 .. Bits(b) - 1 /\ Cell(b, Cell(b, k)) = k
    BY <2>1, CellOfBit
  <2>3. Place(p, b.unit, b.endian, Cell(b, k)) = Cell(b, Cell(b, k))
    BY <1>1, PlaceTurned DEF Cell
  <2>4. cells[Cell(b, k)] = value[k]
    BY <2>2, <2>3
  <2> HIDE DEF cells
  <2>5. QED
    BY <1>5, <1>6, <2>2, <2>4
<1>7. InPlace(b, value, q.data, first)
  <2>1. DOMAIN value = 0 .. Bits(b) - 1
    OBVIOUS
  <2>2. value = [k \in DOMAIN value |-> value[k]]
    BY <2>1
  <2>3. QED
    BY <1>6, <2>1, <2>2 DEF InPlace
<1>8. \A c \in 0 .. Cursor(p) - 1 : c \in DOMAIN q.data => c \in DOMAIN p.data /\ q.data[c] = p.data[c]
  BY <1>4, <1>5
<1>9. Puts(b, p, value, q)
  BY <1>5, <1>7, <1>8 DEF Puts, first
<1>10. QED
  BY <1>3, <1>9

\* AddString, of characters that are not NUL and leave room for one
LEMMA StringPut ==
  ASSUME NEW p, IsPackager(p), NEW b \in Blocks, b.op = "string", NEW length \in 0 .. b.bufferSize - 1,
         NEW value, value = [k \in 0 .. 8 * length - 1 |-> value[k]],
         \A k \in 0 .. 8 * length - 1 : value[k] # Zero
  PROVE  Puts(b, p, value, AddString(p, value, length, b.bufferSize))
<1> DEFINE first == FirstBit(b, Cursor(p))
           cells == [c \in 0 .. 8 * b.bufferSize - 1 |->
                       IF c \div 8 < length /\ c \div 8 < b.bufferSize - 1 THEN value[c] ELSE Zero]
           q == AddBytes(p, cells, PayloadBytes(b))
<1>1. b.bufferSize \in Nat \ {0} /\ Bits(b) = 8 * b.bufferSize /\ PayloadBytes(b) = b.bufferSize
  BY BlockFields
<1>2. AddString(p, value, length, b.bufferSize) = q
  BY <1>1 DEF AddString
<1>3. first \in Nat /\ first >= Cursor(p) /\ Cursor(p) \in Nat
  BY FirstBits
<1>4. /\ IsPackager(q) /\ q.size = p.size /\ Cursor(q) = Behind(b, Cursor(p))
      /\ \A k \in 0 .. Bits(b) - 1 : first + k \in DOMAIN q.data => q.data[first + k] = cells[k]
      /\ \A c \in 0 .. first - 1 : c \in DOMAIN q.data => c \in DOMAIN p.data /\ q.data[c] = p.data[c]
  <2>1. b.op # "pack"
    OBVIOUS
  <2> HIDE DEF cells
  <2>2. QED
    BY <2>1, FieldWritten
<1> HIDE DEF q, first
<1>5. length \in Nat /\ length <= b.bufferSize - 1
  BY <1>1
<1>6. ASSUME NEW k \in 0 .. 8 * length - 1
      PROVE  k \in 0 .. Bits(b) - 1 /\ cells[k] = value[k]
  <2>1. k \in 0 .. 8 * b.bufferSize - 1 /\ k \div 8 < length
    BY <1>1, <1>5
  <2>2. k \div 8 < b.bufferSize - 1
    BY <1>1, <1>5, <2>1
  <2>3. QED
    BY <1>1, <2>1, <2>2
<1>7. ASSUME NEW k \in 8 * length .. Bits(b) - 1
      PROVE  k \in 0 .. Bits(b) - 1 /\ cells[k] = Zero
  <2>1. k \in 0 .. 8 * b.bufferSize - 1 /\ ~(k \div 8 < length)
    BY <1>1, <1>5
  <2>2. QED
    BY <1>1, <2>1
<1> HIDE DEF cells
<1>8. DOMAIN value = 0 .. 8 * length - 1
  OBVIOUS
<1>9. InPlace(b, value, q.data, first)
  <2>1. value = [k \in DOMAIN value |-> value[k]]
    BY <1>8
  <2>2. \A k \in DOMAIN value : first + Cell(b, k) \in DOMAIN q.data => q.data[first + Cell(b, k)] = value[k]
    BY <1>4, <1>6, <1>8 DEF Cell
  <2>3. \A k \in 8 * length .. Bits(b) - 1 : first + k \in DOMAIN q.data => q.data[first + k] = Zero
    BY <1>4, <1>7
  <2>4. \A k \in DOMAIN value : value[k] # Zero
    BY <1>8
  <2>5. QED
    BY <1>8, <2>1, <2>2, <2>3, <2>4 DEF InPlace
<1>10. \A c \in 0 .. Cursor(p) - 1 : c \in DOMAIN q.data => c \in DOMAIN p.data /\ q.data[c] = p.data[c]
  BY <1>3, <1>4
<1>11. Puts(b, p, value, q)
  BY <1>4, <1>9, <1>10 DEF Puts, first
<1>12. QED
  BY <1>2, <1>11

\* Bitpack, from the bit the block asks for
LEMMA BitsPut ==
  ASSUME NEW p, IsPackager(p), NEW b \in Blocks, b.op = "pack",
         NEW value, value = [k \in 0 .. b.width - 1 |-> value[k]]
  PROVE  Puts(b, p, value, Bitpack(p, FromBit(p, b.bitOffset), b.width, value))
<1> DEFINE first == FirstBit(b, Cursor(p))
           q == Bitpack(p, FromBit(p, b.bitOffset), b.width, value)
<1>1. b.bitOffset \in Nat /\ b.width \in Nat /\ Bits(b) = b.width
  BY BlockFields
<1>2. /\ first \in Nat /\ first >= Cursor(p) /\ Cursor(p) \in Nat
      /\ first = 8 * p.pos + FromBit(p, b.bitOffset)
  BY FirstBits
<1>3. IsPackager(q) /\ q.size = p.size /\ Cursor(q) = Cursor(p) + b.bitOffset + b.width
  BY <1>1, MovedBits
<1>4. Cursor(q) = Behind(b, Cursor(p))
  BY <1>1, <1>2, <1>3 DEF Behind, FirstBit
<1>5. q.data = [c \in DOMAIN p.data |-> IF c \in first .. first + b.width - 1
                                        THEN value[c - first] ELSE p.data[c]]
  BY <1>2 DEF Bitpack, IsPackager
<1> HIDE DEF q, first
<1>6. DOMAIN value = 0 .. b.width - 1 /\ \A k : Cell(b, k) = k
  BY DEF Cell
<1>7. ASSUME NEW k \in 0 .. b.width - 1, first + k \in DOMAIN q.data
      PROVE  q.data[first + k] = value[k]
  <2>1. first + k \in first .. first + b.width - 1 /\ (first + k) - first = k
    BY <1>1, <1>2
  <2>2. QED
    BY <1>5, <1>7, <2>1
<1>8. InPlace(b, value, q.data, first)
  <2>1. value = [k \in DOMAIN value |-> value[k]]
    BY <1>6
  <2>2. QED
    BY <1>1, <1>6, <1>7, <2>1 DEF InPlace
<1>9. \A c \in 0 .. Cursor(p) - 1 : c \in DOMAIN q.data => c \in DOMAIN p.data /\ q.data[c] = p.data[c]
  BY <1>1, <1>2, <1>5
<1>10. QED
  BY <1>3, <1>4, <1>8, <1>9 DEF Puts, q, first

\* A reader goes on behind the block, and leaves the package as it is.
Passes(b, p, q) ==
  IsPackager(q) /\ q.size = p.size /\ q.data = p.data /\ Cursor(q) = Behind(b, Cursor(p))

\* The Get operations and Bitunpack
LEMMA BlockPassed ==
  ASSUME NEW p, IsPackager(p), NEW b \in Blocks
  PROVE  /\ b.op # "pack" => Passes(b, p, Skip(p, PayloadBytes(b)))
         /\ b.op = "pack" => Passes(b, p, Bitunpack(p, FromBit(p, b.bitOffset), b.width))
<1>1. ASSUME b.op # "pack" PROVE Passes(b, p, Skip(p, PayloadBytes(b)))
  <2> DEFINE q == Skip(p, PayloadBytes(b))
  <2>1. PayloadBytes(b) \in Nat /\ Bits(b) = 8 * PayloadBytes(b)
    BY <1>1, BlockFields
  <2>2. /\ IsPackager(q) /\ q.size = p.size
        /\ Cursor(q) = 8 * (AlignAtByteBoundary(Cursor(p)) + PayloadBytes(b))
    BY <2>1, Moved
  <2>3. AlignAtByteBoundary(Cursor(p)) \in Nat
    BY FirstBits, AlignSum
  <2>4. Cursor(q) = Behind(b, Cursor(p))
    BY <1>1, <2>1, <2>2, <2>3 DEF Behind, FirstBit
  <2>5. q.data = p.data
    BY DEF Skip, AlignToByteBoundary, IsPackager
  <2>6. QED
    BY <2>2, <2>4, <2>5 DEF Passes
<1>2. ASSUME b.op = "pack" PROVE Passes(b, p, Bitunpack(p, FromBit(p, b.bitOffset), b.width))
  <2> DEFINE q == Bitunpack(p, FromBit(p, b.bitOffset), b.width)
  <2>1. b.bitOffset \in Nat /\ b.width \in Nat /\ Bits(b) = b.width /\ Cursor(p) \in Nat
    BY <1>2, BlockFields, FirstBits
  <2>2. IsPackager(q) /\ q.size = p.size /\ Cursor(q) = Cursor(p) + b.bitOffset + b.width
    BY ZenonT(30), <2>1, MovedBits
  <2>3. Cursor(q) = Behind(b, Cursor(p))
    BY <1>2, <2>1, <2>2 DEF Behind, FirstBit
  <2>4. q.data = p.data
    BY DEF Bitunpack, IsPackager
  <2>5. QED
    BY <2>2, <2>3, <2>4 DEF Passes
<1>3. QED
  BY <1>1, <1>2

\* A list that gets one element more
LEMMA Extended ==
  ASSUME NEW n \in Nat, NEW s, s = [i \in 1 .. n |-> s[i]], NEW e
  PROVE  /\ Append(s, e) = [i \in 1 .. n + 1 |-> Append(s, e)[i]]
         /\ \A i \in 1 .. n : Append(s, e)[i] = s[i]
         /\ Append(s, e)[n + 1] = e
<1> DEFINE S == {s[i] : i \in 1 .. n} \cup {e}
<1>1. s \in [1 .. n -> S]
  OBVIOUS
<1>2. s \in Seq(S) /\ Len(s) = n /\ e \in S
  BY <1>1
<1> HIDE DEF S
<1>3. QED
  BY <1>2

----------------------------------------------------------------------------
(* The steps of the writers *)

\* A writer that succeeds has put its value behind those of the blocks in front of it.
LEMMA WrittenKeepsData ==
  ASSUME IInv, DataInv, phase["tx"] = "run", at["tx"] < End("tx"), NEW value, NEW q,
         Puts(Block("tx"), pkg["tx"], value, q), Written(value, q)
  PROVE  DataInv'
<1> DEFINE b == Block("tx")
           n == at["tx"]
           c == Cursor(pkg["tx"])
<1>1. /\ chain["tx"] \in Seq(Blocks) /\ n \in Nat \ {0} /\ n <= Len(chain["tx"]) /\ b \in Blocks
      /\ b = chain["tx"][n] /\ IsPackager(pkg["tx"]) /\ c \in Nat
  BY AtBlock DEF IInv, TypeOK, Sides, End, Block, Source
<1>2. /\ u' = Append(u, value) /\ pkg'["tx"] = q /\ pkg'["rx"] = pkg["rx"]
      /\ phase'["tx"] = "run" /\ phase'["rx"] = phase["rx"] /\ at'["tx"] = n + 1 /\ at'["rx"] = at["rx"]
      /\ UNCHANGED <<chain, loopback, inbox, taken, y>>
  BY DEF Written, Goto, config, IInv, TypeOK, Sides
<1>3. PICK places \in [1 .. n -> Nat] :
        /\ u = [i \in 1 .. n - 1 |-> u[i]]
        /\ Layout(chain["tx"], places, n - 1)
        /\ places[n] = c
        /\ Contents(chain["tx"], pkg["tx"].data, u, places, n - 1)
  BY DEF DataInv, WriteInv
<1>4. /\ Append(u, value) = [i \in 1 .. n |-> Append(u, value)[i]]
      /\ \A i \in 1 .. n - 1 : Append(u, value)[i] = u[i]
      /\ Append(u, value)[n] = value
  <2>1. n - 1 \in Nat /\ (n - 1) + 1 = n
    BY <1>1
  <2> HIDE DEF n
  <2>2. QED
    BY <1>3, <2>1, Extended
<1> DEFINE further == [i \in 1 .. n + 1 |-> IF i = n + 1 THEN Behind(b, c) ELSE places[i]]
<1>5. /\ c <= Behind(b, c) /\ Behind(b, c) \in Nat
  <2>1. /\ FirstBit(b, c) \in Nat /\ FirstBit(b, c) >= c /\ Bits(b) \in Nat
    BY <1>1, FirstBits, BlockFields
  <2>2. QED
    BY <1>1, <2>1 DEF Behind
<1>6. Layout(chain["tx"], further, n)
  <2>1. further \in [1 .. n + 1 -> Nat]
    BY <1>1, <1>5
  <2>2. further[1] = 0
    BY <1>1, <1>3 DEF Layout
  <2>3. ASSUME NEW i \in 1 .. n
        PROVE  further[i + 1] = Behind(chain["tx"][i], further[i]) /\ further[i + 1] <= further[n + 1]
    <3>1. further[i] = places[i] /\ further[n + 1] = Behind(b, c)
      BY <1>1
    <3>2. CASE i = n
      <4>1. further[i + 1] = Behind(b, c) /\ places[i] = c
        BY <1>1, <1>3, <3>2
      <4>2. QED
        BY <1>1, <1>5, <3>1, <3>2, <4>1
    <3>3. CASE i # n
      <4>1. i \in 1 .. n - 1 /\ i + 1 \in 1 .. n /\ n - 1 + 1 = n /\ further[i + 1] = places[i + 1]
        BY <1>1, <3>3
      <4>2. places[i + 1] = Behind(chain["tx"][i], places[i]) /\ places[i + 1] <= c
        BY <1>3, <4>1 DEF Layout
      <4>3. places[i + 1] \in Nat
        BY <4>1
      <4> HIDE DEF further, b, c, n
      <4>4. QED
        BY <1>1, <1>5, <3>1, <4>1, <4>2, <4>3
    <3>4. QED
      BY <3>2, <3>3
  <2> HIDE DEF further
  <2>4. QED
    BY <2>1, <2>2, <2>3 DEF Layout
<1>7. /\ IsPackager(q) /\ Cursor(q) = Behind(b, c) /\ InPlace(b, value, q.data, FirstBit(b, c))
      /\ \A k \in 0 .. c - 1 : k \in DOMAIN q.data => k \in DOMAIN pkg["tx"].data /\ q.data[k] = pkg["tx"].data[k]
  BY DEF Puts
<1>8. Contents(chain["tx"], q.data, u, places, n - 1)
  <2>1. n - 1 \in Nat /\ n - 1 <= Len(chain["tx"]) /\ places[(n - 1) + 1] = c
    BY <1>1, <1>3
  <2> HIDE DEF n, c, b
  <2>2. \A k \in 0 .. places[(n - 1) + 1] - 1 :
          k \in DOMAIN q.data => k \in DOMAIN pkg["tx"].data /\ q.data[k] = pkg["tx"].data[k]
    BY <1>7, <2>1
  <2>3. QED
    BY <1>1, <1>3, <2>1, <2>2, StaysContained, Zenon
<1>9. Contents(chain["tx"], q.data, Append(u, value), further, n)
  <2> SUFFICES ASSUME NEW i \in 1 .. n
               PROVE  InPlace(chain["tx"][i], Append(u, value)[i], q.data, FirstBit(chain["tx"][i], further[i]))
    BY DEF Contents
  <2>1. further[i] = places[i]
    BY <1>1
  <2>2. CASE i = n
    <3>1. chain["tx"][i] = b /\ Append(u, value)[i] = value /\ places[i] = c
      BY <1>1, <1>3, <1>4, <2>2
    <3>2. QED
      BY <1>7, <2>1, <3>1
  <2>3. CASE i # n
    <3>1. i \in 1 .. n - 1
      BY <1>1, <2>3
    <3>2. QED
      BY <1>4, <1>8, <2>1, <3>1 DEF Contents
  <2>4. QED
    BY <2>2, <2>3
<1>10. WriteInv'
  <2>1. at'["tx"] - 1 = n /\ further[n + 1] = Behind(b, c)
    BY <1>1, <1>2
  <2>2. further \in [1 .. at'["tx"] -> Nat]
    BY <1>2, <1>6 DEF Layout
  <2> HIDE DEF further, n, b, c
  <2>3. /\ u' = [i \in 1 .. at'["tx"] - 1 |-> u'[i]]
        /\ Layout(chain'["tx"], further, at'["tx"] - 1)
        /\ further[at'["tx"]] = Cursor(pkg'["tx"])
        /\ Contents(chain'["tx"], pkg'["tx"].data, u', further, at'["tx"] - 1)
    BY <1>2, <1>4, <1>6, <1>7, <1>9, <2>1
  <2>4. QED
    BY <2>2, <2>3 DEF WriteInv
<1>11. InboxInv'
  BY <1>2 DEF DataInv, InboxInv, End
<1>12. ReadInv'
  <2>1. CASE loopback
    <3>1. phase'["rx"] # "run"
      BY <1>2, <2>1 DEF IInv, LoopbackInv
    <3>2. QED
      BY <3>1 DEF ReadInv
  <2>2. CASE ~loopback
    BY <1>2, <2>2 DEF DataInv, ReadInv, Source, End
  <2>3. QED
    BY <2>1, <2>2
<1>13. QED
  BY <1>2, <1>10, <1>11, <1>12 DEF DataInv, RoundTrip

\* A simulation that stops or comes to the end of its chain leaves everything as it is.
LEMMA EndKeepsData ==
  ASSUME IInv, DataInv, NEW s \in Sides, phase[s] = "run", NEW next \in Stopped \cup {"idle"},
         Goto(s, next, at[s]), UNCHANGED <<config, pkg, u, inbox, taken, y>>
  PROVE  DataInv'
<1>1. /\ \A t \in Sides : phase'[t] \in {"run", "size"} => phase'[t] = phase[t]
      /\ phase'["rx"] = "size" <=> phase["rx"] = "size"
      /\ at' = at
      /\ UNCHANGED <<chain, loopback, pkg, u, inbox, taken, y>>
  BY DEF Goto, config, IInv, TypeOK, Sides, Stopped
<1>2. WriteInv'
  BY <1>1 DEF DataInv, WriteInv, Sides
<1>3. InboxInv'
  BY <1>1 DEF DataInv, InboxInv, End
<1>4. ReadInv'
  BY <1>1 DEF DataInv, ReadInv, Source, End, Sides
<1>5. QED
  BY <1>1, <1>2, <1>3, <1>4 DEF DataInv, RoundTrip

\* The values written have all their bits, and none of these is a zero.
LEMMA ValueBits ==
  ASSUME NEW bits
  PROVE  /\ Value(bits) = [k \in 0 .. bits - 1 |-> Value(bits)[k]]
         /\ \A k \in 0 .. bits - 1 : Value(bits)[k] # Zero
<1>1. \A a, b, c : <<a, b, c>> # Zero
  BY DEF Zero
<1>2. QED
  BY <1>1 DEF Value

\* AddArray, AddString and Bitpack
LEMMA WriterKeepsData ==
  ASSUME IInv, DataInv, AddElements \/ AddText \/ PackUnsigned
  PROVE  DataInv'
<1> DEFINE b == Block("tx")
           p == pkg["tx"]
<1>1. phase["tx"] = "run" /\ at["tx"] < End("tx")
  BY DEF AddElements, AddText, PackUnsigned, Runs
<1>2. b \in Blocks /\ IsPackager(p)
  BY <1>1, AtBlock DEF IInv, TypeOK, Sides
<1>3. ASSUME NEW why \in Stopped, Stops("tx", why) PROVE DataInv'
  BY <1>1, <1>3, EndKeepsData DEF Stops, Sides
<1>4. ASSUME NEW value, NEW q, Puts(b, p, value, q), Written(value, q) PROVE DataInv'
  BY <1>1, <1>4, WrittenKeepsData
<1>5. "overflow" \in Stopped /\ "refused" \in Stopped
  BY DEF Stopped
<1>6. CASE AddElements
  <2> DEFINE value == Value(8 * b.unit * b.n)
  <2>1. b.op = "array"
    BY <1>6 DEF AddElements, Runs
  <2>2. b.unit \in Nat \ {0} /\ b.n \in Nat /\ Bits(b) = 8 * (b.unit * b.n) /\ b.unit * b.n \in Nat
    BY <1>2, <2>1, BlockFields
  <2>3. 8 * b.unit * b.n = 8 * (b.unit * b.n)
    BY <2>2, SMTT(30)
  <2>4. value = [k \in 0 .. Bits(b) - 1 |-> value[k]]
    BY <2>2, <2>3, ValueBits
  <2>5. Stops("tx", "overflow") \/ Written(value, AddArray(p, value, b.unit, b.n, b.endian))
    BY <1>6 DEF AddElements
  <2> HIDE DEF value, b, p
  <2>6. Puts(b, p, value, AddArray(p, value, b.unit, b.n, b.endian))
    BY <1>2, <2>1, <2>4, ArrayPut
  <2>7. QED
    BY <1>3, <1>4, <1>5, <2>5, <2>6
<1>7. CASE AddText
  <2>1. b.op = "string"
    BY <1>7 DEF AddText, Runs
  <2>2. b.bufferSize \in Nat
    BY <1>2, <2>1, BlockFields
  <2>3. PICK length \in 0 .. b.bufferSize :
          \/ Stops("tx", "refused") \/ Stops("tx", "overflow")
          \/ ~(length + 1 > b.bufferSize) /\ Written(Value(8 * length), AddString(p, Value(8 * length), length, b.bufferSize))
    BY <1>7 DEF AddText
  <2>4. ASSUME ~(length + 1 > b.bufferSize)
        PROVE  Puts(b, p, Value(8 * length), AddString(p, Value(8 * length), length, b.bufferSize))
    <3>1. length \in 0 .. b.bufferSize - 1
      BY <2>2, <2>4
    <3> HIDE DEF b, p
    <3>2. QED
      BY <1>2, <2>1, <3>1, ValueBits, StringPut
  <2> HIDE DEF b, p
  <2>5. QED
    BY <1>3, <1>4, <1>5, <2>3, <2>4
<1>8. CASE PackUnsigned
  <2> DEFINE offset == FromBit(p, b.bitOffset)
             value == Value(b.width)
  <2>1. b.op = "pack"
    BY <1>8 DEF PackUnsigned, Runs
  <2>2. Stops("tx", "refused") \/ Stops("tx", "overflow") \/ Written(value, Bitpack(p, offset, b.width, value))
    BY <1>8 DEF PackUnsigned
  <2> HIDE DEF b, p
  <2>3. Puts(b, p, value, Bitpack(p, offset, b.width, value))
    BY <1>2, <2>1, ValueBits, BitsPut
  <2> HIDE DEF value, offset
  <2>4. QED
    BY <1>3, <1>4, <1>5, <2>2, <2>3
<1>9. QED
  BY <1>6, <1>7, <1>8

----------------------------------------------------------------------------
(* The steps of the readers *)

\* A reader that succeeds returns what the writer of its block has put into its place.
LEMMA ReturnedKeepsData ==
  ASSUME IInv, DataInv, phase["rx"] = "run", at["rx"] < End("rx"), NEW q,
         Behind(Block("rx"), Cursor(pkg[Source("rx")])) <= 8 * pkg[Source("rx")].size,
         Passes(Block("rx"), pkg[Source("rx")], q), Returned(Got(Block("rx"), pkg[Source("rx")]), q)
  PROVE  DataInv'
<1> DEFINE s == Source("rx")
           p == pkg[s]
           b == Block("rx")
           n == at["rx"]
           value == Got(b, p)
<1>1. /\ n \in Nat \ {0} /\ n <= Len(chain["tx"]) /\ b \in Blocks /\ b = chain["tx"][n]
      /\ s \in Sides /\ IsPackager(p) /\ End("tx") = Len(chain["tx"]) + 1
      /\ n \in 1 .. Len(chain["tx"])
  <2>1. /\ n \in Nat /\ n >= 1 /\ n < Len(chain["rx"]) + 1 /\ b \in Blocks /\ b = chain["rx"][n]
        /\ s \in Sides /\ IsPackager(p)
    BY AtBlock DEF Sides, End, Block
  <2>2. Len(chain["rx"]) \in Nat /\ Len(chain["tx"]) \in Nat /\ Len(chain["rx"]) <= Len(chain["tx"])
    BY DEF IInv, TypeOK, ChainInv, Sides
  <2>3. n \in 1 .. Len(chain["rx"])
    BY <2>1, <2>2
  <2>4. chain["rx"][n] = chain["tx"][n]
    BY <2>3 DEF IInv, ChainInv
  <2>5. QED
    BY <2>1, <2>2, <2>4 DEF End
<1>2. /\ y' = Append(y, value) /\ pkg'[s] = q /\ \A t \in Sides : t # s => pkg'[t] = pkg[t]
      /\ \A t \in Sides : pkg'[t].size = pkg[t].size
      /\ phase'["rx"] = "run" /\ phase'["tx"] = phase["tx"] /\ at'["rx"] = n + 1 /\ at'["tx"] = at["tx"]
      /\ UNCHANGED <<chain, loopback, u, inbox, taken>>
  BY <1>1 DEF Returned, Goto, config, IInv, TypeOK, Sides, Passes
<1>3. y = [i \in 1 .. n - 1 |-> y[i]]
  BY DEF DataInv, ReadInv
<1>4. /\ Append(y, value) = [i \in 1 .. n |-> Append(y, value)[i]]
      /\ \A i \in 1 .. n - 1 : Append(y, value)[i] = y[i]
      /\ Append(y, value)[n] = value
  <2>1. n - 1 \in Nat /\ (n - 1) + 1 = n
    BY <1>1
  <2> HIDE DEF n, value
  <2>2. QED
    BY <1>3, <2>1, Extended
<1>5. WriteInv'
  <2>1. CASE loopback
    <3>1. phase'["tx"] # "run"
      BY <1>2, <2>1 DEF IInv, LoopbackInv
    <3>2. QED
      BY <3>1 DEF WriteInv
  <2>2. CASE ~loopback
    <3>1. pkg'["tx"] = pkg["tx"]
      BY <1>2, <2>2 DEF Source, Sides
    <3>2. QED
      BY <1>2, <3>1 DEF DataInv, WriteInv
  <2>3. QED
    BY <2>1, <2>2
<1>6. InboxInv'
  BY <1>2 DEF DataInv, InboxInv, End, Sides
<1>7. q.data = p.data /\ Cursor(q) = Behind(b, Cursor(p))
  BY DEF Passes
<1>8. /\ y' = [i \in 1 .. at'["rx"] - 1 |-> y'[i]]
      /\ \A i \in 1 .. n - 1 : y'[i] = y[i] /\ i \in DOMAIN y
      /\ y'[n] = value /\ DOMAIN y' = 1 .. n
  <2>1. at'["rx"] - 1 = n
    BY <1>1, <1>2
  <2>2. DOMAIN y = 1 .. n - 1
    BY <1>3
  <2>3. DOMAIN Append(y, value) = 1 .. n
    BY <1>4
  <2> HIDE DEF n, value
  <2>4. QED
    BY <1>2, <1>4, <2>1, <2>2, <2>3
<1>9. Source("rx")' = s
  BY <1>2 DEF Source
<1>10. CASE taken = Nothing
  <2>1. Empty(p.data)
    BY <1>10 DEF DataInv, ReadInv
  <2>2. \A k \in DOMAIN value : value[k] = Zero
    <3> HIDE DEF b, p
    <3>1. FirstBit(b, Cursor(p)) + Bits(b) <= 8 * p.size
      BY DEF Behind, b, p, s
    <3>2. QED
      BY <1>1, <2>1, <3>1, ReadEmpty
  <2> HIDE DEF value, n, p
  <2>3. ASSUME NEW i \in DOMAIN y' PROVE \A k \in DOMAIN y'[i] : y'[i][k] = Zero
    <3>1. CASE i = n
      BY <1>8, <2>2, <3>1
    <3>2. CASE i # n
      <4>1. i \in 1 .. n - 1
        BY <1>1, <1>8, <3>2
      <4>2. QED
        BY <1>8, <1>10, <4>1 DEF DataInv, RoundTrip
    <3>3. QED
      BY <3>1, <3>2
  <2>4. RoundTrip'
    BY <1>2, <1>10, <2>3 DEF RoundTrip
  <2>5. ReadInv'
    BY <1>2, <1>7, <1>8, <1>9, <1>10, <2>1 DEF ReadInv
  <2>6. QED
    BY <1>2, <1>5, <1>6, <2>4, <2>5 DEF DataInv
<1>11. CASE taken # Nothing
  <2>1. PICK places \in [1 .. End("tx") -> Nat] :
          Holds(chain["tx"], p.data, taken, places) /\ places[n] = Cursor(p)
    BY <1>11 DEF DataInv, ReadInv
  <2>2. InPlace(b, taken[n], p.data, FirstBit(b, Cursor(p)))
    BY <1>1, <2>1 DEF Holds, Contents
  <2>3. places[n + 1] = Behind(b, Cursor(p))
    BY <1>1, <2>1 DEF Holds, Layout
  <2>4. value = taken[n]
    <3> HIDE DEF b, p
    <3>1. FirstBit(b, Cursor(p)) + Bits(b) <= 8 * p.size
      BY DEF Behind, b, p, s
    <3>2. QED
      BY <1>1, <2>2, <3>1, ReadBlock
  <2> HIDE DEF value, n, p
  <2>5. ASSUME NEW i \in DOMAIN y' PROVE y'[i] = taken[i]
    <3>1. CASE i = n
      BY <1>8, <2>4, <3>1
    <3>2. CASE i # n
      <4>1. i \in 1 .. n - 1
        BY <1>1, <1>8, <3>2
      <4>2. QED
        BY <1>8, <1>11, <4>1 DEF DataInv, RoundTrip
    <3>3. QED
      BY <3>1, <3>2
  <2>6. RoundTrip'
    BY <1>2, <1>11, <2>5 DEF RoundTrip
  <2>7. /\ Holds(chain'["tx"], pkg'[Source("rx")'].data, taken', places)
        /\ places[at'["rx"]] = Cursor(pkg'[Source("rx")']) /\ End("tx")' = End("tx")
    BY <1>2, <1>7, <1>9, <2>1, <2>3 DEF End
  <2>8. ReadInv'
    BY <1>2, <1>8, <1>11, <2>7 DEF ReadInv
  <2>9. QED
    BY <1>2, <1>5, <1>6, <2>6, <2>8 DEF DataInv
<1>12. QED
  BY <1>10, <1>11

\* GetArray, GetString and Bitunpack
LEMMA ReaderKeepsData ==
  ASSUME IInv, DataInv, GetElements \/ GetText \/ UnpackUnsigned
  PROVE  DataInv'
<1> DEFINE b == Block("rx")
           p == pkg[Source("rx")]
<1>1. phase["rx"] = "run" /\ at["rx"] < End("rx")
  BY DEF GetElements, GetText, UnpackUnsigned, Runs
<1>2. b \in Blocks /\ IsPackager(p)
  BY <1>1, AtBlock DEF Sides
<1>3. ASSUME NEW why \in Stopped, Stops("rx", why) PROVE DataInv'
  BY <1>1, <1>3, EndKeepsData DEF Stops, Sides
<1>4. ASSUME NEW q, Behind(b, Cursor(p)) <= 8 * p.size, Passes(b, p, q), Returned(Got(b, p), q) PROVE DataInv'
  BY <1>1, <1>4, ReturnedKeepsData
<1>5. "overflow" \in Stopped /\ "refused" \in Stopped /\ "undefined" \in Stopped
  BY DEF Stopped
<1>6. CASE GetElements
  <2>1. b.op = "array" /\ b.op # "pack" /\ PayloadBytes(b) = b.unit * b.n
    BY <1>6 DEF GetElements, Runs, PayloadBytes
  <2>2. \/ Stops("rx", "overflow")
        \/ ~Overflows(p, PayloadBytes(b)) /\ Returned(Got(b, p), Skip(p, PayloadBytes(b)))
    BY <1>6, <2>1 DEF GetElements, Got
  <2> HIDE DEF b, p
  <2>3. Passes(b, p, Skip(p, PayloadBytes(b)))
    BY <1>2, <2>1, BlockPassed
  <2>4. ~Overflows(p, PayloadBytes(b)) => Behind(b, Cursor(p)) <= 8 * p.size
    BY <1>2, <2>1, RoomOf
  <2>5. QED
    BY <1>3, <1>4, <1>5, <2>2, <2>3, <2>4
<1>7. CASE GetText
  <2>1. b.op = "string" /\ b.op # "pack" /\ PayloadBytes(b) = b.bufferSize
    BY <1>7 DEF GetText, Runs, PayloadBytes
  <2>2. \/ Stops("rx", "overflow")
        \/ ~Overflows(p, PayloadBytes(b)) /\ Returned(Got(b, p), Skip(p, PayloadBytes(b)))
    BY <1>7, <2>1 DEF GetText, Got
  <2> HIDE DEF b, p
  <2>3. Passes(b, p, Skip(p, PayloadBytes(b)))
    BY <1>2, <2>1, BlockPassed
  <2>4. ~Overflows(p, PayloadBytes(b)) => Behind(b, Cursor(p)) <= 8 * p.size
    BY <1>2, <2>1, RoomOf
  <2>5. QED
    BY <1>3, <1>4, <1>5, <2>2, <2>3, <2>4
<1>8. CASE UnpackUnsigned
  <2> DEFINE offset == FromBit(p, b.bitOffset)
  <2>1. b.op = "pack"
    BY <1>8 DEF UnpackUnsigned, Runs
  <2>2. \/ Stops("rx", "refused") \/ Stops("rx", "overflow") \/ Stops("rx", "undefined")
        \/ ~OverflowsBits(p, offset, b.width) /\ Returned(Got(b, p), Bitunpack(p, offset, b.width))
    BY <1>8, <2>1 DEF UnpackUnsigned, Got
  <2> HIDE DEF b, p
  <2>3. Passes(b, p, Bitunpack(p, offset, b.width))
    BY <1>2, <2>1, BlockPassed
  <2>4. ~OverflowsBits(p, offset, b.width) => Behind(b, Cursor(p)) <= 8 * p.size
    BY <1>2, <2>1, RoomOf
  <2> HIDE DEF offset
  <2>5. QED
    BY <1>3, <1>4, <1>5, <2>2, <2>3, <2>4
<1>9. QED
  BY <1>6, <1>7, <1>8

----------------------------------------------------------------------------
(* The steps between the chains *)

\* Nothing has been put into the package, or returned from it, when a chain is initialised.
LEMMA InitKeepsData ==
  ASSUME IInv, DataInv, NEW s \in Sides, Source(s) = s, Propagate(s) \/ Build(s)
  PROVE  DataInv'
<1>1. /\ phase[s] = "size" /\ phase'[s] \in {"size", "idle"} /\ \A t \in Sides : t # s => phase'[t] = phase[t]
      /\ \A t \in Sides : phase'[t] = "run" => phase[t] = "run" /\ t # s /\ at'[t] = at[t]
      /\ \A t \in Sides : t # s => pkg'[t] = pkg[t]
      /\ UNCHANGED <<chain, loopback, u, taken, y>>
  BY DEF Propagate, Build, Goto, config, IInv, TypeOK, Sides
<1>2. WriteInv'
  BY <1>1 DEF DataInv, WriteInv, Sides
<1>3. loopback => phase'["rx"] # "run"
  <2>1. loopback => s = "tx"
    BY DEF Source, Sides
  <2>2. QED
    BY <1>1, <2>1 DEF IInv, LoopbackInv, Sides
<1>4. ReadInv'
  <2>1. CASE phase'["rx"] = "run"
    <3>1. ~loopback /\ pkg'["rx"] = pkg["rx"] /\ phase["rx"] = "run" /\ at'["rx"] = at["rx"]
      BY <1>1, <1>3, <2>1 DEF Sides
    <3>2. QED
      BY <1>1, <3>1 DEF DataInv, ReadInv, Source, End
  <2>2. CASE phase'["rx"] # "run"
    BY <2>2 DEF ReadInv
  <2>3. QED
    BY <2>1, <2>2
<1>5. InboxInv'
  <2>1. CASE s = "rx" /\ Build(s)
    <3>1. BufferSize("rx") \in Nat /\ host["rx"] \in {Little, Big}
      <4>1. auto["rx"][1] \in Nat
        <5>1. Len(chain["rx"]) \in Nat
          BY DEF IInv, TypeOK, Sides
        <5>2. QED
          BY <5>1 DEF IInv, TypeOK, Sides, End
      <4>2. userSize["rx"] \in Nat
        BY ExchangeAssumption DEF IInv, TypeOK, Sides
      <4>3. QED
        BY <4>1, <4>2, AlignSum, ExchangeAssumption DEF BufferSize, IInv, TypeOK
    <3> DEFINE new == New(BufferSize("rx"), host["rx"])
    <3>2. /\ pkg'["rx"] = new /\ inbox' = [data |-> new.data, u |-> Nothing]
          /\ phase'["rx"] = "idle"
      BY <2>1 DEF Build, Goto, IInv, TypeOK, Sides
    <3>3. DOMAIN new.data = 0 .. 8 * new.size - 1 /\ Empty(new.data)
      BY DEF New, Empty
    <3> HIDE DEF new
    <3>4. QED
      BY <3>2, <3>3 DEF InboxInv
  <2>2. CASE s = "rx" /\ Propagate(s)
    <3>1. phase'["rx"] = "size" /\ inbox' = inbox /\ phase["rx"] = "size"
      BY <2>2 DEF Propagate, Goto, IInv, TypeOK, Sides
    <3>2. QED
      BY <1>1, <3>1 DEF DataInv, InboxInv, End
  <2>3. CASE s = "tx"
    <3>1. inbox' = inbox /\ phase'["rx"] = phase["rx"] /\ pkg'["rx"] = pkg["rx"]
      BY <1>1, <2>3 DEF Propagate, Build, Sides
    <3>2. QED
      BY <1>1, <3>1 DEF DataInv, InboxInv, End
  <2>4. QED
    BY <2>1, <2>2, <2>3 DEF Sides
<1>6. QED
  BY <1>1, <1>2, <1>4, <1>5 DEF DataInv, RoundTrip

\* The Packager block starts with an empty list of values at bit 0.
LEMMA TriggerKeepsData ==
  ASSUME IInv, DataInv, Trigger
  PROVE  DataInv'
<1>1. /\ phase["tx"] = "idle" /\ phase'["tx"] = "run" /\ phase'["rx"] = phase["rx"] /\ (loopback => phase["rx"] = "idle")
      /\ at'["tx"] = 1 /\ at'["rx"] = at["rx"] /\ u' = Nothing
      /\ pkg'["tx"] = Clear(pkg["tx"]) /\ pkg'["rx"] = pkg["rx"]
      /\ UNCHANGED <<chain, loopback, inbox, taken, y>>
  BY DEF Trigger, Goto, config, IInv, TypeOK, Sides
<1>2. Cursor(pkg'["tx"]) = 0
  BY <1>1, Restarted DEF IInv, TypeOK, Sides
<1>3. WriteInv'
  <2> DEFINE places == [i \in 1 .. 1 |-> 0]
  <2>1. at'["tx"] - 1 = 0 /\ at'["tx"] = 1 /\ 0 + 1 = 1
    BY <1>1
  <2>2. places \in [1 .. 1 -> Nat] /\ places[1] = 0
    OBVIOUS
  <2> HIDE DEF places
  <2>3. Layout(chain'["tx"], places, 0) /\ Contents(chain'["tx"], pkg'["tx"].data, u', places, 0)
    BY <2>2 DEF Layout, Contents
  <2>4. u' = [i \in 1 .. 0 |-> u'[i]]
    BY <1>1 DEF Nothing
  <2>5. QED
    BY <1>2, <2>1, <2>2, <2>3, <2>4 DEF WriteInv
<1>4. InboxInv'
  BY <1>1 DEF DataInv, InboxInv, End
<1>5. ReadInv'
  BY <1>1 DEF DataInv, ReadInv, Source, End
<1>6. QED
  BY <1>1, <1>3, <1>4, <1>5 DEF DataInv, RoundTrip

\* At the end of the chain the package has all values, and every block lies inside.
LEMMA WrittenAll ==
  ASSUME IInv, DataInv, phase["tx"] = "run", at["tx"] = End("tx")
  PROVE  /\ u # Nothing
         /\ chain["tx"] \in Seq(Blocks) /\ DOMAIN pkg["tx"].data = 0 .. 8 * pkg["tx"].size - 1 /\ pkg["tx"].size \in Nat
         /\ \E places \in [1 .. End("tx") -> Nat] :
              /\ Holds(chain["tx"], pkg["tx"].data, u, places)
              /\ places[1] = 0 /\ places[Len(chain["tx"]) + 1] <= 8 * pkg["tx"].size
<1> DEFINE n == Len(chain["tx"])
<1>1. /\ chain["tx"] \in Seq(Blocks) /\ n \in Nat /\ n >= 1 /\ at["tx"] = n + 1 /\ (n + 1) - 1 = n
      /\ IsPackager(pkg["tx"]) /\ Cursor(pkg["tx"]) <= 8 * pkg["tx"].size
  BY DEF IInv, TypeOK, CursorInBounds, DataInv, End, Sides
<1> HIDE DEF n
<1>2. PICK places \in [1 .. n + 1 -> Nat] :
        /\ Layout(chain["tx"], places, n)
        /\ places[n + 1] = Cursor(pkg["tx"])
        /\ Contents(chain["tx"], pkg["tx"].data, u, places, n)
  BY <1>1 DEF DataInv, WriteInv
<1>3. u = [i \in 1 .. n |-> u[i]]
  BY <1>1 DEF DataInv, WriteInv
<1>4. u # Nothing
  <2>1. DOMAIN u = 1 .. n /\ 1 \in 1 .. n
    BY <1>1, <1>3
  <2>2. DOMAIN Nothing = {}
    BY DEF Nothing
  <2>3. QED
    BY <2>1, <2>2
<1>5. QED
  BY <1>1, <1>2, <1>4 DEF Holds, Layout, n, End, IsPackager

\* A datagram brings all its values into the socket, as far as the buffer there reaches.
LEMMA SendKeepsData ==
  ASSUME IInv, DataInv, Send
  PROVE  DataInv'
<1>1. /\ ~loopback /\ phase["tx"] = "run" /\ at["tx"] = End("tx") /\ Goto("tx", "idle", at["tx"])
      /\ UNCHANGED <<config, pkg, u, taken, y>>
      /\ "idle" \in Stopped \cup {"idle"} /\ "tx" \in Sides
  BY DEF Send, Sides
<1>2. CASE UNCHANGED inbox
  BY <1>1, <1>2, EndKeepsData
<1>3. CASE inbox' = [data |-> Overwrite(inbox.data, pkg["tx"].data), u |-> u]
  <2> DEFINE other == Overwrite(inbox.data, pkg["tx"].data)
  <2>1. /\ phase'["tx"] = "idle" /\ phase'["rx"] = phase["rx"] /\ at' = at
        /\ UNCHANGED <<chain, loopback, pkg, u, taken, y>>
    BY <1>1 DEF Goto, config, IInv, TypeOK, Sides
  <2>2. PICK places \in [1 .. End("tx") -> Nat] :
          /\ Holds(chain["tx"], pkg["tx"].data, u, places)
          /\ places[1] = 0 /\ places[Len(chain["tx"]) + 1] <= 8 * pkg["tx"].size
    BY <1>1, WrittenAll
  <2>3. /\ chain["tx"] \in Seq(Blocks) /\ DOMAIN pkg["tx"].data = 0 .. 8 * pkg["tx"].size - 1
        /\ pkg["tx"].size \in Nat /\ u # Nothing /\ Len(chain["tx"]) \in Nat
        /\ places[Len(chain["tx"]) + 1] \in Nat
    BY <1>1, WrittenAll DEF End
  <2>4. DOMAIN other = DOMAIN inbox.data
    BY DEF Overwrite
  <2>5. \A c \in 0 .. places[Len(chain["tx"]) + 1] - 1 :
          c \in DOMAIN other => c \in DOMAIN pkg["tx"].data /\ other[c] = pkg["tx"].data[c]
    <3> SUFFICES ASSUME NEW c \in 0 .. places[Len(chain["tx"]) + 1] - 1, c \in DOMAIN other
                 PROVE  c \in DOMAIN pkg["tx"].data /\ other[c] = pkg["tx"].data[c]
      OBVIOUS
    <3>1. c \in DOMAIN pkg["tx"].data
      BY <2>2, <2>3
    <3>2. QED
      BY <2>4, <3>1 DEF Overwrite
  <2> HIDE DEF other
  <2>6. Holds(chain["tx"], other, u, places)
    <3>1. /\ Layout(chain["tx"], places, Len(chain["tx"]))
          /\ Contents(chain["tx"], pkg["tx"].data, u, places, Len(chain["tx"]))
          /\ Len(chain["tx"]) <= Len(chain["tx"])
      BY <2>2, <2>3 DEF Holds
    <3>2. Contents(chain["tx"], other, u, places, Len(chain["tx"]))
      BY <2>3, <2>5, <3>1, StaysContained, Zenon
    <3>3. QED
      BY <3>1, <3>2 DEF Holds
  <2>7. inbox'.data = other /\ inbox'.u = u
    BY <1>3 DEF other
  <2>8. WriteInv'
    BY <2>1 DEF WriteInv
  <2>9. InboxInv'
    BY <2>1, <2>3, <2>4, <2>6, <2>7 DEF DataInv, InboxInv, End
  <2>10. ReadInv'
    BY <2>1 DEF DataInv, ReadInv, Source, End
  <2>11. QED
    BY <2>1, <2>8, <2>9, <2>10 DEF DataInv, RoundTrip
<1>4. QED
  BY <1>2, <1>3 DEF Send

\* Behind ResetPointer the readers begin with the package just written.
LEMMA ResetKeepsData ==
  ASSUME IInv, DataInv, ResetPointer
  PROVE  DataInv'
<1>1. /\ loopback /\ phase["tx"] = "run" /\ at["tx"] = End("tx")
      /\ pkg'["tx"] = SetPos(pkg["tx"], 0) /\ phase'["tx"] = "idle" /\ phase'["rx"] = "run" /\ at'["rx"] = 1
      /\ taken' = u /\ y' = Nothing
      /\ UNCHANGED <<chain, loopback, u, inbox>>
  BY DEF ResetPointer, config, IInv, TypeOK, Sides
<1>2. Cursor(pkg'["tx"]) = 0 /\ pkg'["tx"].data = pkg["tx"].data
  <2>1. IsPackager(pkg["tx"])
    BY DEF IInv, TypeOK, Sides
  <2>2. QED
    <3>1. Cursor(SetPos(pkg["tx"], 0)) = 0
      BY <2>1, Restarted
    <3>2. SetPos(pkg["tx"], 0).data = pkg["tx"].data
      BY <2>1 DEF SetPos, IsPackager
    <3>3. QED
      BY <1>1, <3>1, <3>2
<1>3. PICK places \in [1 .. End("tx") -> Nat] : Holds(chain["tx"], pkg["tx"].data, u, places) /\ places[1] = 0
  BY <1>1, WrittenAll
<1>4. u # Nothing
  BY <1>1, WrittenAll
<1>5. y' = [i \in 1 .. at'["rx"] - 1 |-> y'[i]] /\ DOMAIN y' = {}
  BY <1>1 DEF Nothing
<1>6. ReadInv'
  <2>1. Source("rx")' = "tx" /\ End("tx")' = End("tx")
    BY <1>1 DEF Source, End
  <2>2. /\ Holds(chain'["tx"], pkg'["tx"].data, taken', places)
        /\ places[at'["rx"]] = Cursor(pkg'["tx"])
    BY <1>1, <1>2, <1>3
  <2>3. QED
    BY <1>1, <1>3, <1>4, <1>5, <2>1, <2>2 DEF ReadInv
<1>7. WriteInv' /\ InboxInv'
  BY <1>1 DEF WriteInv, InboxInv
<1>8. QED
  BY <1>1, <1>5, <1>6, <1>7 DEF DataInv, RoundTrip

\* UDPReceive copies what the socket holds: all of one package, or zeros.
LEMMA ReceiveKeepsData ==
  ASSUME IInv, DataInv, Receive
  PROVE  DataInv'
<1>1. /\ ~loopback /\ phase["rx"] = "idle"
      /\ pkg'["rx"] = SetData(pkg["rx"], inbox.data) /\ pkg'["tx"] = pkg["tx"]
      /\ phase'["rx"] = "run" /\ phase'["tx"] = phase["tx"] /\ at'["rx"] = 1 /\ at'["tx"] = at["tx"]
      /\ taken' = inbox.u /\ y' = Nothing
      /\ UNCHANGED <<chain, loopback, u, inbox>>
  BY DEF Receive, Goto, config, IInv, TypeOK, Sides
<1> DEFINE data == pkg'["rx"].data
<1>2. /\ Cursor(pkg'["rx"]) = 0 /\ pkg'["rx"].size = pkg["rx"].size
      /\ data = Overwrite(pkg["rx"].data, inbox.data)
      /\ DOMAIN pkg["rx"].data = 0 .. 8 * pkg["rx"].size - 1
  <2>1. IsPackager(pkg["rx"])
    BY DEF IInv, TypeOK, Sides
  <2>2. QED
    <3> DEFINE p == SetData(pkg["rx"], inbox.data)
    <3>1. Cursor(p) = 0 /\ p.size = pkg["rx"].size
      BY <2>1, Restarted
    <3>2. p.data = Overwrite(pkg["rx"].data, inbox.data)
      BY <2>1 DEF SetData, IsPackager
    <3>3. DOMAIN pkg["rx"].data = 0 .. 8 * pkg["rx"].size - 1
      BY <2>1 DEF IsPackager
    <3> HIDE DEF p
    <3>4. pkg'["rx"] = p
      BY <1>1 DEF p
    <3>5. QED
      BY <3>1, <3>2, <3>3, <3>4
<1>3. DOMAIN inbox.data = 0 .. 8 * pkg["rx"].size - 1
  BY <1>1 DEF DataInv, InboxInv
<1>4. DOMAIN data = DOMAIN inbox.data /\ \A c \in DOMAIN data : data[c] = inbox.data[c]
  BY <1>2, <1>3 DEF Overwrite
<1> HIDE DEF data
<1>5. y' = [i \in 1 .. at'["rx"] - 1 |-> y'[i]] /\ DOMAIN y' = {}
  BY <1>1 DEF Nothing
<1>6. Source("rx")' = "rx" /\ End("tx")' = End("tx")
  BY <1>1 DEF Source, End
<1>7. ReadInv'
  <2>1. CASE inbox.u = Nothing
    <3>1. Empty(data)
      BY <1>1, <1>4, <2>1 DEF DataInv, InboxInv, Empty
    <3>2. QED
      BY <1>1, <1>5, <1>6, <2>1, <3>1 DEF ReadInv, data
  <2>2. CASE inbox.u # Nothing
    <3>1. PICK places \in [1 .. End("tx") -> Nat] : Holds(chain["tx"], inbox.data, inbox.u, places)
      BY <1>1, <2>2 DEF DataInv, InboxInv
    <3>2. chain["tx"] \in Seq(Blocks) /\ Len(chain["tx"]) \in Nat
      BY DEF IInv, TypeOK, Sides
    <3>3. Holds(chain["tx"], data, inbox.u, places)
      BY <1>4, <3>1, <3>2, StaysContained DEF Holds
    <3>4. places[at'["rx"]] = Cursor(pkg'["rx"])
      BY <1>1, <1>2, <3>1 DEF Holds, Layout
    <3>5. QED
      BY <1>1, <1>5, <1>6, <2>2, <3>1, <3>3, <3>4 DEF ReadInv, data
  <2>3. QED
    BY <2>1, <2>2
<1>8. WriteInv'
  BY <1>1 DEF DataInv, WriteInv
<1>9. InboxInv'
  BY <1>1, <1>2 DEF DataInv, InboxInv, End
<1>10. QED
  BY <1>1, <1>5, <1>7, <1>8, <1>9 DEF DataInv, RoundTrip

----------------------------------------------------------------------------
(* The readers return what the writers added                               *)

\* Before the simulations are initialised there is no value anywhere.
LEMMA DataInit == Init => DataInv
<1> SUFFICES ASSUME Init PROVE DataInv
  OBVIOUS
<1>1. Len(chain["tx"]) >= 1
  <2>1. PICK n \in 1 .. MaxBlocks : \E c \in [1 .. n -> Blocks] : chain["tx"] = c
    BY DEF Init
  <2>2. Len(chain["tx"]) = n
    BY <2>1
  <2>3. QED
    BY <2>1, <2>2
<1>2. /\ phase["tx"] = "size" /\ (~loopback => phase["rx"] = "size") /\ phase["rx"] # "run"
      /\ inbox.data = Nothing /\ inbox.u = Nothing /\ y = Nothing
  BY DEF Init
<1>3. DOMAIN Nothing = {}
  BY DEF Nothing
<1>4. WriteInv /\ ReadInv
  BY <1>2 DEF WriteInv, ReadInv
<1>5. InboxInv
  BY <1>2, <1>3 DEF InboxInv, Empty
<1>6. RoundTrip
  BY <1>2, <1>3 DEF RoundTrip
<1>7. QED
  BY <1>1, <1>4, <1>5, <1>6 DEF DataInv

\* Every block of a chain, and every step between the chains, keeps the values together.
LEMMA DataStep == IInv /\ DataInv /\ [Next]_vars => DataInv'
<1> SUFFICES ASSUME IInv, DataInv, [Next]_vars PROVE DataInv'
  OBVIOUS
<1>1. ASSUME NEW s \in Sides, Propagate(s) \/ Build(s) PROVE DataInv'
  <2>1. phase[s] = "size"
    BY <1>1 DEF Propagate, Build
  <2>2. Source(s) = s
    BY <2>1 DEF Source, Sides, IInv, LoopbackInv
  <2>3. QED
    BY <1>1, <2>2, InitKeepsData
<1>2. CASE AddElements \/ AddText \/ PackUnsigned
  BY <1>2, WriterKeepsData
<1>3. CASE GetElements \/ GetText \/ UnpackUnsigned
  BY <1>3, ReaderKeepsData
<1>4. CASE Trigger
  BY <1>4, TriggerKeepsData
<1>5. CASE Send
  BY <1>5, SendKeepsData
<1>6. CASE ResetPointer
  BY <1>6, ResetKeepsData
<1>7. CASE Receive
  BY <1>7, ReceiveKeepsData
<1>8. CASE Finish
  BY <1>8, EndKeepsData DEF Finish, Sides
<1>9. CASE UNCHANGED vars
  <2>1. UNCHANGED <<chain, loopback, pkg, phase, at, u, inbox, taken, y>>
    BY <1>9 DEF vars, config
  <2>2. WriteInv' /\ InboxInv' /\ ReadInv'
    BY <2>1 DEF DataInv, WriteInv, InboxInv, ReadInv, Source, End
  <2>3. QED
    BY <2>1, <2>2 DEF DataInv, RoundTrip
<1>10. QED
  BY <1>1, <1>2, <1>3, <1>4, <1>5, <1>6, <1>7, <1>8, <1>9 DEF Next

\* The readers return what the writers added, bit for bit, for all blocks in every order, all
\* sizes of the buffers on both sides, all byte orders, and whichever datagrams are lost.
THEOREM PackagesRoundTrip == Spec => []RoundTrip
<1>1. IInv /\ DataInv => RoundTrip
  BY DEF DataInv
<1>2. QED
  BY Invariant, DataInit, InvariantStep, DataStep, <1>1, PTL DEF Spec
=============================================================================
