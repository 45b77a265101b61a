---------------------------- MODULE WriterProofs ----------------------------
(***************************************************************************)
(* For every width, memory and argument: a writer driven by a caller keeps *)
(* the type invariant, never enqueues more than the cache can hold while   *)
(* there is room, only appends to the memory, leaves nothing behind a flush *)
(* unreported, and implements the append-only bit stream of module BitSink, *)
(* which has no cache.                                                     *)
(***************************************************************************)
EXTENDS Writer, CallLemmas

---------------------------------------------------------------------------
(***************************************************************************)
(* The inductive invariant: that the writer is good.  TypeOK alone is not  *)
(* inductive, since a dump reads its bytes inside the cache only when no   *)
(* more bits are enqueued than it holds; PendingFits gives that while the  *)
(* memory has room, and once it has none there is nothing to dump.         *)
(***************************************************************************)
IInv ==
    Good(bs) /\ order \in Orders /\ request \in Requests /\ ok \in BOOLEAN

LEMMA AskedType ==
    ASSUME request \in Requests,
           NEW op \in {"init", "write", "pad", "write_bytes"},
           NEW value \in Word(MaxBits), NEW n \in Nat, NEW bytes \in Seq(Byte),
           Asked(op, value, n, bytes)
    PROVE  request' \in Requests
BY DEF Asked, Requests, Bit

\* The arguments of calls that have none of the kind.
LEMMA NoArguments == Zero(MaxBits) \in Word(MaxBits) /\ << >> \in Seq(Byte)
BY DEF Zero, Word, Bit

LEMMA IInvInit == Init => IInv
<1> SUFFICES ASSUME Init PROVE IInv
  OBVIOUS
<1>1. PICK data \in Buffers : bs = bs_writer_init(data)
  BY DEF Init
<1>2. data \in Seq(Byte) /\ Len(data) \in Nat
  BY ArgumentAssumption
<1>3. Zero(CacheBits) \in Word(CacheBits) /\ Clean(Zero(CacheBits), 0)
  BY DEF Zero, Word, Bit, Clean
<1>4. 0 \in 0 .. CountMod - 1
  BY WidthFacts
<1>5. Good(bs)
  BY <1>1, <1>2, <1>3, <1>4 DEF bs_writer_init, Good, Within, Fits, Writers
<1>6. request \in Requests
  BY NoArguments DEF Init, Requests, Bit
<1> QED BY <1>5, <1>6 DEF Init, IInv

\* What any step does to the writer.
LEMMA NextKeeps ==
    ASSUME IInv, [Next]_vars
    PROVE  /\ Keeps(bs, bs') /\ order' \in Orders /\ request' \in Requests
           /\ ok' \in BOOLEAN
<1> DEFINE StaysGood == /\ Keeps(bs, bs') /\ order' \in Orders
                        /\ request' \in Requests /\ ok' \in BOOLEAN
<1>1. Good(bs) /\ order \in Orders /\ request \in Requests /\ ok \in BOOLEAN
  BY DEF IInv
<1>2. /\ Values \subseteq Word(MaxBits) /\ Counts \subseteq 0 .. MaxBits
      /\ 0 \in 0 .. MaxBits /\ 1 \in 0 .. MaxBits /\ Chunks \subseteq Seq(Byte)
  BY ArgumentAssumption, WidthFacts
<1>3. ASSUME NEW family, NEW d, Keeps(bs, d), NEW value \in Word(MaxBits),
             NEW n \in 0 .. MaxBits,
             WriteCall(family, value, n, d) \/ PadCall(family, d)
      PROVE  StaysGood
  <2>1. n \in Nat /\ 0 \in Nat
    BY WidthFacts
  <2>2. request' \in Requests
    BY <2>1, <1>1, <1>3, AskedType, NoArguments DEF WriteCall, PadCall
  <2> QED BY <2>2, <1>1, <1>3 DEF WriteCall, PadCall, Called
<1>4. ASSUME NEW ub \in Builds, NextMsb(ub)
      PROVE  StaysGood
  <2>1. ASSUME NEW value \in Values, WriteBit(value, ub)
        PROVE  StaysGood
    BY <2>1, <1>1, <1>2, <1>3, MsbWrites DEF WriteBit
  <2>2. ASSUME NEW value \in Values, NEW n \in Counts, WriteBits(value, n, ub)
        PROVE  StaysGood
    BY <2>2, <1>1, <1>2, <1>3, MsbWrites DEF WriteBits
  <2>3. ASSUME NEW value \in Values, NEW n \in Counts,
               WriteBitsUnchecked(value, n, ub)
        PROVE  StaysGood
    BY <2>3, <1>1, <1>2, <1>3, MsbWrites DEF WriteBitsUnchecked
  <2>4. ASSUME WriterAlign(ub)
        PROVE  StaysGood
    BY <2>4, <1>1, <1>2, <1>3, NoArguments, AlignDrains DEF WriterAlign, Drains
  <2>5. ASSUME WriterFlush(ub)
        PROVE  StaysGood
    BY <2>5, <1>1, <1>2, <1>3, NoArguments, FlushDrainsCall
       DEF WriterFlush, Drains
  <2> QED BY <1>4, <2>1, <2>2, <2>3, <2>4, <2>5 DEF NextMsb
<1>5. ASSUME NEW ub \in Builds, NextLsb(ub)
      PROVE  StaysGood
  <2>1. ASSUME NEW value \in Values, NEW n \in Counts,
               WriteBitsLsb(value, n, ub)
        PROVE  StaysGood
    BY <2>1, <1>1, <1>2, <1>3, LsbWrites DEF WriteBitsLsb
  <2>2. ASSUME NEW value \in Values, NEW n \in Counts,
               WriteBitsLsbUnchecked(value, n, ub)
        PROVE  StaysGood
    BY <2>2, <1>1, <1>2, <1>3, LsbWrites DEF WriteBitsLsbUnchecked
  <2>3. ASSUME WriterAlignLsb(ub)
        PROVE  StaysGood
    BY <2>3, <1>1, <1>2, <1>3, NoArguments, AlignDrains
       DEF WriterAlignLsb, Drains
  <2>4. ASSUME WriterFlushLsb(ub)
        PROVE  StaysGood
    BY <2>4, <1>1, <1>2, <1>3, NoArguments, FlushDrainsCall
       DEF WriterFlushLsb, Drains
  <2> QED BY <1>5, <2>1, <2>2, <2>3, <2>4 DEF NextLsb
<1>6. ASSUME NEW bytes \in Chunks, WriteBytes(bytes)
      PROVE  StaysGood
  <2>1. Keeps(bs, bs_write_bytes(bs, bytes))
    BY <1>1, <1>2, WriteBytesKeeps
  <2>2. can_write_bytes(bs, bytes) \in BOOLEAN
    BY DEF can_write_bytes
  <2>3. request' \in Requests
    BY <1>1, <1>2, <1>6, AskedType, NoArguments DEF WriteBytes
  <2> QED BY <2>1, <2>2, <2>3, <1>1, <1>6 DEF WriteBytes
<1>7. CASE ChangeOrder
  BY <1>1, <1>7, SameKept DEF ChangeOrder
<1>8. CASE UNCHANGED vars
  BY <1>1, <1>8, SameKept DEF vars
<1> QED BY <1>4, <1>5, <1>6, <1>7, <1>8 DEF Next

LEMMA IInvStep == IInv /\ [Next]_vars => IInv'
<1> SUFFICES ASSUME IInv, [Next]_vars PROVE IInv'
  OBVIOUS
<1>1. /\ Keeps(bs, bs') /\ order' \in Orders /\ request' \in Requests
      /\ ok' \in BOOLEAN
  BY NextKeeps
<1> QED BY <1>1 DEF Keeps, IInv

LEMMA IInvImplies == IInv => TypeOK /\ PendingFits
<1> SUFFICES ASSUME IInv PROVE TypeOK /\ PendingFits
  OBVIOUS
<1>1. /\ Within(bs) /\ (Full(bs) \/ Fits(bs))
      /\ bs.byte_pos \in Nat /\ Len(bs.buffer) \in Nat
  BY WriterFields DEF IInv, Good
<1>2. TypeOK
  BY <1>1 DEF TypeOK, IInv, Within
<1>3. bs.byte_pos < Len(bs.buffer) \/ ~ bs.overflow => ~ Full(bs)
  BY <1>1 DEF Full
<1>4. PendingFits
  BY <1>1, <1>3 DEF PendingFits, Fits
<1> QED BY <1>2, <1>4

---------------------------------------------------------------------------
\* Every reachable writer is well formed: byte_pos stays within the memory
\* and the count within its range, for every width, memory and argument,
\* however far the caller writes past the end of the memory.
THEOREM WriterTypeCorrect == Spec => []TypeOK
<1>1. Spec => []IInv
  BY IInvInit, IInvStep, PTL DEF Spec
<1> QED BY <1>1, IInvImplies, PTL

\* While the memory has room, or overflow is not set, less than a byte is
\* enqueued between two calls, so the next one fits the cache.
THEOREM PendingAlwaysFits == Spec => []PendingFits
<1>1. Spec => []IInv
  BY IInvInit, IInvStep, PTL DEF Spec
<1> QED BY <1>1, IInvImplies, PTL

\* No call rewrites a byte behind the write position or touches one ahead of
\* where it leaves it, and overflow stays reported.
THEOREM AppendOnly == Spec => OnlyAppends
<1> DEFINE A == /\ bs'.byte_pos >= bs.byte_pos
                /\ Len(bs'.buffer) = Len(bs.buffer)
                /\ \A j \in 1 .. Len(bs.buffer) :
                     j <= bs.byte_pos \/ j > bs'.byte_pos
                       => bs'.buffer[j] = bs.buffer[j]
                /\ bs.overflow => bs'.overflow
<1>1. IInv /\ [Next]_vars => [A]_vars
  BY NextKeeps DEF Keeps, Appends
<1>2. Spec => []IInv
  BY IInvInit, IInvStep, PTL DEF Spec
<1> QED BY <1>1, <1>2, PTL DEF Spec, OnlyAppends

\* A flush or an align leaves no bit behind without reporting overflow.
THEOREM FlushAlwaysDrains == Spec => FlushDrains
<1> DEFINE A == \A ub \in Builds :
                  WriterFlush(ub) \/ WriterFlushLsb(ub) \/ WriterAlign(ub)
                      \/ WriterAlignLsb(ub)
                  => bs'.overflow \/ bs'.bits_in_cache = 0
<1>1. IInv => A
  BY AlignDrains, FlushDrainsCall
     DEF IInv, Drains, WriterFlush, WriterFlushLsb, WriterAlign,
         WriterAlignLsb, PadCall, Called
<1>2. IInv /\ [Next]_vars => [A]_vars
  BY <1>1
<1>3. Spec => []IInv
  BY IInvInit, IInvStep, PTL DEF Spec
<1> QED BY <1>2, <1>3, PTL DEF Spec, FlushDrains

---------------------------------------------------------------------------
\* The refinement: initial states, then the steps of a call.

LEMMA KeptMaps ==
    /\ Good(bs) => Kept = KeptOf(bs, order)
    /\ Good(bs') => Kept' = KeptOf(bs', order')
<1>1. ASSUME Good(bs) PROVE Kept = KeptOf(bs, order)
  BY <1>1, KeptIs DEF Kept, Stored, Pending
<1>2. ASSUME Good(bs') PROVE Kept' = KeptOf(bs', order')
  BY <1>2, KeptIs DEF Kept, Stored, Pending
<1> QED BY <1>1, <1>2

LEMMA InitMaps == Init => Sink!Init
<1> SUFFICES ASSUME Init PROVE Sink!Init
  OBVIOUS
<1>1. Good(bs)
  BY IInvInit DEF IInv
<1>2. PICK data \in Buffers : bs = bs_writer_init(data)
  BY DEF Init
<1>3. bs.byte_pos = 0 /\ bs.bits_in_cache = 0 /\ bs.overflow = FALSE
  BY <1>2 DEF bs_writer_init
<1>4. Size(bs) = 0
  BY <1>3 DEF Size
<1>5. Kept = << >>
  <2>1. Kept \in Seq(Bit) /\ Len(Kept) = 0
    BY <1>1, <1>4, KeptMaps, KeptBits
  <2> QED BY <2>1
<1>6. Len(bs.buffer) \in Nat
  BY <1>1, WriterFields DEF Good
<1>7. Zero(MaxBits) = Sink!Zero(MaxBits)
  BY DEF Zero, Sink!Zero
<1> QED BY <1>3, <1>5, <1>6, <1>7 DEF Init, Sink!Init, Orders, Sink!Orders

LEMMA AppendMaps ==
    ASSUME Good(bs), Good(bs'), order' = order,
           Len(bs'.buffer) = Len(bs.buffer),
           NEW bits, Longer(bs, bs', order, bits)
    PROVE  Sink!Append_bits(bits)
<1> DEFINE s == Kept \o bits  cap == Len(bs.buffer)
<1>1. Kept = KeptOf(bs, order) /\ Kept' = KeptOf(bs', order)
  BY KeptMaps
<1>2. /\ bs'.overflow <=> bs.overflow \/ Len(s) >= 8 * (cap + 1)
      /\ Kept' = IF bs'.overflow /\ Len(s) >= 8 * cap
                 THEN SubSeq(s, 1, MinOf(Len(s), 8 * cap)) ELSE s
  BY <1>1, Zenon DEF Longer
<1>3. bs'.overflow \in BOOLEAN
  BY WriterFields DEF Good
<1>4. bs'.overflow = (bs.overflow \/ Len(s) >= 8 * (cap + 1))
  BY <1>2, <1>3, Zenon
<1>5. SubSeq(s, 1, MinOf(Len(s), 8 * cap)) = Sink!Cut(s, 8 * cap)
  BY DEF Sink!Cut, MinOf, Sink!MinOf
<1> HIDE DEF s, cap
<1>6. Kept' = IF bs'.overflow /\ Len(s) >= 8 * cap
              THEN Sink!Cut(s, 8 * cap) ELSE s
  BY <1>2, <1>5, Zenon
<1> QED BY <1>4, <1>6, Zenon DEF Sink!Append_bits, s, cap

\* A write of the n low bits of a value.
LEMMA WriteMaps ==
    ASSUME Good(bs), NEW d, Keeps(bs, d), NEW o, NEW value \in Values,
           NEW n \in Counts, Longer(bs, d, o, SentBits(o, value, n)),
           WriteCall(o, value, n, d)
    PROVE  Sink!Next
<1>1. /\ bs' = d /\ order = o /\ order' = order /\ ok' = TRUE
      /\ Sink!Asked("write", value, n, << >>)
  BY DEF WriteCall, Called, Asked, Sink!Asked
<1>2. Good(bs') /\ Len(bs'.buffer) = Len(bs.buffer)
  BY <1>1 DEF Keeps, Appends
<1>3. SentBits(order, value, n) = Sink!FieldBits(value, n)
  BY DEF SentBits, Sink!FieldBits, FieldOffset, Sink!FieldOffset
<1>4. Sink!Append_bits(Sink!FieldBits(value, n))
  BY <1>1, <1>2, <1>3, AppendMaps
<1> QED BY <1>1, <1>4 DEF Sink!Write, Sink!Next

\* An align or a flush.
LEMMA PadMaps ==
    ASSUME Good(bs), NEW d, Keeps(bs, d), NEW o,
           Longer(bs, d, o, PadOf(bs)), PadCall(o, d)
    PROVE  Sink!Next
<1>1. /\ bs' = d /\ order = o /\ order' = order /\ ok' = TRUE
      /\ Sink!Asked("pad", Sink!Zero(MaxBits), 0, << >>)
  BY DEF PadCall, Called, Asked, Sink!Asked, Zero, Sink!Zero
<1>2. Good(bs') /\ Len(bs'.buffer) = Len(bs.buffer)
  BY <1>1 DEF Keeps, Appends
<1>3. Len(Kept) = Size(bs)
  BY KeptMaps, KeptBits
<1>4. Sink!Append_bits(PadOf(bs))
  BY <1>1, <1>2, AppendMaps
<1>5. Sink!Append_bits(Sink!Zeros((8 - (Len(Kept) % 8)) % 8))
  BY <1>3, <1>4 DEF PadOf, Sink!Zeros
<1> QED BY <1>1, <1>5 DEF Sink!Pad, Sink!Next

LEMMA CopyMaps ==
    ASSUME Good(bs), NEW bytes \in Chunks, WriteBytes(bytes)
    PROVE  Sink!Next
<1> DEFINE d == bs_write_bytes(bs, bytes)
           aligned == Len(Kept) % 8 = 0
           room == Len(Kept) + 8 * Len(bytes) <= 8 * Len(bs.buffer)
<1>1. bytes \in Seq(Byte)
  BY ArgumentAssumption
<1>2. /\ bs' = d /\ ok' = can_write_bytes(bs, bytes) /\ order' = order
      /\ Sink!Asked("write_bytes", Sink!Zero(MaxBits), 0, bytes)
  BY DEF WriteBytes, Asked, Sink!Asked, Zero, Sink!Zero
<1>3. Good(bs') /\ Len(bs'.buffer) = Len(bs.buffer)
  BY <1>1, <1>2, WriteBytesKeeps DEF Keeps, Appends
<1>4. /\ Kept = KeptOf(bs, order) /\ Kept' = KeptOf(bs', order)
      /\ Len(Kept) = Size(bs)
  BY <1>2, <1>3, KeptMaps, KeptBits
<1>5. /\ can_write_bytes(bs, bytes) <=> aligned /\ ~ bs.overflow /\ room
      /\ bs.bits_in_cache = 0 => aligned
      /\ bs.bits_in_cache # 0 => bs.overflow \/ ~ aligned
  BY <1>1, <1>4, CopyGuards
<1>6. can_write_bytes(bs, bytes) \in BOOLEAN
  BY DEF can_write_bytes
<1>7. bs.overflow \in BOOLEAN /\ bs'.overflow \in BOOLEAN
  BY <1>3, WriterFields DEF Good
<1>8. CopyOf(order, bytes) = Sink!ByteBits(bytes)
  BY DEF CopyOf, Sink!ByteBits, StreamBit, Sink!StreamBit
<1> HIDE DEF d, aligned, room
<1>9. ok' = (aligned /\ ~ bs.overflow /\ room)
  BY <1>2, <1>5, <1>6, Zenon
<1>10. CASE can_write_bytes(bs, bytes)
  <2>1. /\ bs'.overflow = bs.overflow
        /\ Kept' = Kept \o Sink!ByteBits(bytes)
    BY <1>1, <1>2, <1>4, <1>8, <1>10, CopyLonger DEF d
  <2>2. bs'.overflow = (bs.overflow \/ (aligned /\ ~ room))
    BY <2>1, <1>5, <1>7, <1>10, Zenon
  <2>3. Kept' = IF ok' THEN Kept \o Sink!ByteBits(bytes) ELSE Kept
    BY <2>1, <1>2, <1>10, Zenon
  <2> QED BY <2>2, <2>3, <1>2, <1>3, <1>9, Zenon
          DEF Sink!WriteBytes, Sink!Next, aligned, room
<1>11. CASE ~ can_write_bytes(bs, bytes)
  <2>1. /\ bs'.overflow <=> bs.overflow \/ bs.bits_in_cache = 0
        /\ Kept' = Kept
    BY <1>1, <1>2, <1>4, <1>11, NoCopyKeeps DEF d
  <2>2. bs'.overflow = (bs.overflow \/ (aligned /\ ~ room))
    BY <2>1, <1>5, <1>7, <1>11, Zenon
  <2>3. Kept' = IF ok' THEN Kept \o Sink!ByteBits(bytes) ELSE Kept
    BY <2>1, <1>2, <1>11, Zenon
  <2> QED BY <2>2, <2>3, <1>2, <1>3, <1>9, Zenon
          DEF Sink!WriteBytes, Sink!Next, aligned, room
<1> QED BY <1>10, <1>11

LEMMA OrderMaps ==
    ASSUME Good(bs), order \in Orders, ChangeOrder
    PROVE  Sink!Next
<1>1. /\ bs.bits_in_cache = 0 /\ order' \in Orders /\ bs' = bs /\ ok' = ok
      /\ request' = request
  BY DEF ChangeOrder
<1>2. /\ Kept = KeptOf(bs, order) /\ Kept' = KeptOf(bs, order')
      /\ Len(Kept) = Size(bs)
  BY <1>1, KeptMaps, KeptBits
<1>3. /\ Size(bs) % 8 = 0
      /\ Kept' = IF order' = order THEN Kept ELSE Sink!Reversed(Kept)
  BY <1>1, <1>2, OtherOrder DEF OtherWay, Sink!Reversed
<1>4. Sink!ChangeOrder
  BY <1>1, <1>2, <1>3 DEF Sink!ChangeOrder, Orders, Sink!Orders
<1> QED BY <1>4 DEF Sink!Next

LEMMA StepMaps == IInv /\ [Next]_vars => [Sink!Next]_(Sink!kvars)
<1> SUFFICES ASSUME IInv, [Next]_vars PROVE [Sink!Next]_(Sink!kvars)
  OBVIOUS
<1>1. Good(bs) /\ order \in Orders
  BY DEF IInv
<1>2. /\ Values \subseteq Word(MaxBits) /\ Counts \subseteq 0 .. MaxBits
      /\ 1 \in Counts
  BY ArgumentAssumption
<1>3. ASSUME NEW ub \in Builds, NextMsb(ub) PROVE Sink!Next
  <2>1. ASSUME NEW value \in Values, WriteBit(value, ub) PROVE Sink!Next
    <3>1. /\ Keeps(bs, bs_write_bit(bs, value, ub))
          /\ Longer(bs, bs_write_bit(bs, value, ub), "msb",
                    SentBits("msb", value, 1))
      BY <1>1, <1>2, MsbWrites, WritesLonger
    <3> QED BY <3>1, <2>1, <1>1, <1>2, WriteMaps DEF WriteBit
  <2>2. ASSUME NEW value \in Values, NEW n \in Counts, WriteBits(value, n, ub)
        PROVE  Sink!Next
    <3>1. /\ Keeps(bs, bs_write_bits(bs, value, n, ub))
          /\ Longer(bs, bs_write_bits(bs, value, n, ub), "msb",
                    SentBits("msb", value, n))
      BY <1>1, <1>2, MsbWrites, WritesLonger
    <3> QED BY <3>1, <2>2, <1>1, WriteMaps DEF WriteBits
  <2>3. ASSUME NEW value \in Values, NEW n \in Counts,
               WriteBitsUnchecked(value, n, ub)
        PROVE  Sink!Next
    <3>1. /\ n > 0 /\ Clean(value, n)
          /\ WriteCall("msb", value, n,
                       bs_write_bits_unchecked(bs, value, n, ub))
      BY <2>3 DEF WriteBitsUnchecked
    <3>2. /\ Keeps(bs, bs_write_bits_unchecked(bs, value, n, ub))
          /\ Longer(bs, bs_write_bits_unchecked(bs, value, n, ub), "msb",
                    SentBits("msb", value, n))
      BY <3>1, <1>1, <1>2, MsbWrites, WritesLonger
    <3> QED BY <3>1, <3>2, <1>1, WriteMaps
  <2>4. ASSUME WriterAlign(ub) PROVE Sink!Next
    BY <2>4, <1>1, AlignDrains, AlignLonger, PadMaps DEF WriterAlign, Drains
  <2>5. ASSUME WriterFlush(ub) PROVE Sink!Next
    BY <2>5, <1>1, FlushDrainsCall, FlushLonger, PadMaps DEF WriterFlush, Drains
  <2> QED BY <1>3, <2>1, <2>2, <2>3, <2>4, <2>5 DEF NextMsb
<1>4. ASSUME NEW ub \in Builds, NextLsb(ub) PROVE Sink!Next
  <2>1. ASSUME NEW value \in Values, NEW n \in Counts,
               WriteBitsLsb(value, n, ub)
        PROVE  Sink!Next
    <3>1. /\ Keeps(bs, bs_write_bits_lsb(bs, value, n, ub))
          /\ Longer(bs, bs_write_bits_lsb(bs, value, n, ub), "lsb",
                    SentBits("lsb", value, n))
      BY <1>1, <1>2, LsbWrites, WritesLonger
    <3> QED BY <3>1, <2>1, <1>1, WriteMaps DEF WriteBitsLsb
  <2>2. ASSUME NEW value \in Values, NEW n \in Counts,
               WriteBitsLsbUnchecked(value, n, ub)
        PROVE  Sink!Next
    <3>1. /\ n > 0 /\ Clean(value, n)
          /\ WriteCall("lsb", value, n,
                       bs_write_bits_lsb_unchecked(bs, value, n, ub))
      BY <2>2 DEF WriteBitsLsbUnchecked
    <3>2. /\ Keeps(bs, bs_write_bits_lsb_unchecked(bs, value, n, ub))
          /\ Longer(bs, bs_write_bits_lsb_unchecked(bs, value, n, ub), "lsb",
                    SentBits("lsb", value, n))
      BY <3>1, <1>1, <1>2, LsbWrites, WritesLonger
    <3> QED BY <3>1, <3>2, <1>1, WriteMaps
  <2>3. ASSUME WriterAlignLsb(ub) PROVE Sink!Next
    BY <2>3, <1>1, AlignDrains, AlignLonger, PadMaps DEF WriterAlignLsb, Drains
  <2>4. ASSUME WriterFlushLsb(ub) PROVE Sink!Next
    BY <2>4, <1>1, FlushDrainsCall, FlushLonger, PadMaps
       DEF WriterFlushLsb, Drains
  <2> QED BY <1>4, <2>1, <2>2, <2>3, <2>4 DEF NextLsb
<1>5. ASSUME NEW bytes \in Chunks, WriteBytes(bytes) PROVE Sink!Next
  BY <1>1, <1>5, CopyMaps
<1>6. CASE ChangeOrder
  BY <1>1, <1>6, OrderMaps
<1>7. CASE UNCHANGED vars
  BY <1>7 DEF vars, Sink!kvars, Kept, Stored, Pending
<1> QED BY <1>3, <1>4, <1>5, <1>6, <1>7 DEF Next

\* Caching is invisible: every call adds to the append-only stream, which has
\* no cache, the bits it was asked to write, reports overflow when the stream
\* does and copies all or nothing when the stream does, however far past the
\* end of the memory and in whichever build, for every width, memory and
\* argument.
THEOREM WriterImplementsSink == Spec => ImplementsSink
<1>1. Spec => []IInv
  BY IInvInit, IInvStep, PTL DEF Spec
<1> QED BY <1>1, InitMaps, StepMaps, PTL DEF Spec, ImplementsSink, Sink!Spec

=============================================================================
