---------------------------- MODULE ReaderProofs ----------------------------
(***************************************************************************)
(* For every cache width, value width, memory and argument: a reader driven *)
(* by a caller keeps the type invariant and the cache's agreement with the *)
(* buffer, a peek loads what it shows, and the reader implements the bit   *)
(* source of module BitSource, which has no cache.                         *)
(***************************************************************************)
EXTENDS Reader, CallLemmas

---------------------------------------------------------------------------
(***************************************************************************)
(* The inductive invariant.  TypeOK alone is not inductive: that a refill  *)
(* leaves bits_in_cache within CacheBits needs nothing more, but that      *)
(* bs_read_bytes does not take byte_pos below zero needs bits_in_cache     *)
(* <= 8 * byte_pos, and the LSB refill keeps agreement only over a cache   *)
(* that is clear above its valid bits.                                     *)
(***************************************************************************)
IInv ==
    /\ bs.buffer \in Buffers
    /\ order \in Orders
    /\ request \in Requests
    /\ ret \in RetType
    /\ IF order = "msb" THEN GoodMsb(bs) ELSE GoodLsb(bs)

LEMMA AskedType ==
    ASSUME request \in Requests,
           NEW op \in {"init", "read", "peek", "skip", "align", "read_bytes"},
           NEW n \in Nat, Asked(op, n)
    PROVE  request' \in Requests
BY DEF Asked, Requests, Bit

LEMMA IInvInit == Init => IInv
<1> SUFFICES ASSUME Init PROVE IInv
  OBVIOUS
<1>1. request \in Requests
  BY DEF Init, Requests, Bit
<1> QED BY <1>1, OpenedGood, NothingType, ArgumentAssumption
        DEF Init, IInv, Orders

LEMMA IInvStep == IInv /\ [Next]_vars => IInv'
<1> SUFFICES ASSUME IInv, [Next]_vars PROVE IInv'
  OBVIOUS
<1>1. /\ bs.buffer \in Buffers
      /\ order = "msb" => GoodMsb(bs)
      /\ order = "lsb" => GoodLsb(bs)
      /\ Bounded(bs) /\ request \in Requests
  BY DEF IInv, Orders, GoodMsb, GoodLsb
<1>2. /\ Counts \subseteq 0 .. MaxBits /\ 1 \in 0 .. MaxBits
      /\ SkipCounts \subseteq Nat /\ ByteCounts \subseteq Nat
  BY ArgumentAssumption
<1>3. ASSUME NEW op \in {"read", "peek", "skip", "align"}, NEW n \in Nat,
            NEW res, Call("msb", op, n, res), KeepsMsb(bs, res)
      PROVE  IInv'
  <2>1. request' \in Requests
    BY <1>1, <1>3, AskedType DEF Call
  <2> QED BY <2>1, <1>1, <1>3 DEF Call, KeepsMsb, IInv, Orders
<1>4. ASSUME NEW op \in {"read", "peek", "skip", "align"}, NEW n \in Nat,
            NEW res, Call("lsb", op, n, res), KeepsLsb(bs, res)
      PROVE  IInv'
  <2>1. request' \in Requests
    BY <1>1, <1>4, AskedType DEF Call
  <2> QED BY <2>1, <1>1, <1>4 DEF Call, KeepsLsb, IInv, Orders
<1>5. CASE ReaderInit
  <2>1. request' \in Requests
    BY <1>1, <1>5, AskedType DEF ReaderInit
  <2> QED BY <2>1, <1>5, OpenedGood, ArgumentAssumption, NothingType
          DEF ReaderInit, IInv
<1>6. CASE NextMsb
  <2>0. order = "msb" /\ GoodMsb(bs)
    BY <1>1, <1>6 DEF NextMsb, ReadBit, ReadBits, PeekBits, SkipBits,
       ReadBitsUnchecked, PeekBitsUnchecked, SkipBitsUnchecked, ReaderAlign,
       Call
  <2>1. CASE ReadBit
    BY <2>0, <2>1, <1>2, <1>3, MsbCallsKeep DEF ReadBit, bs_read_bit
  <2>2. ASSUME NEW n \in Counts, ReadBits(n) PROVE IInv'
    BY <2>0, <2>2, <1>2, <1>3, MsbCallsKeep DEF ReadBits
  <2>3. ASSUME NEW n \in Counts, PeekBits(n) PROVE IInv'
    BY <2>0, <2>3, <1>2, <1>3, MsbCallsKeep DEF PeekBits
  <2>4. ASSUME NEW n \in SkipCounts, SkipBits(n) PROVE IInv'
    <3>1. n \in Nat /\ KeepsMsb(bs, bs_skip_bits(bs, n))
      BY <2>0, <1>2, MsbCallsKeep
    <3> QED BY <3>1, <2>4, <1>3 DEF SkipBits
  <2>5. ASSUME NEW n \in Counts, ReadBitsUnchecked(n) PROVE IInv'
    BY <2>0, <2>5, <1>2, <1>3, MsbCallsKeep DEF ReadBitsUnchecked
  <2>6. ASSUME NEW n \in Counts, PeekBitsUnchecked(n) PROVE IInv'
    BY <2>0, <2>6, <1>2, <1>3, MsbCallsKeep DEF PeekBitsUnchecked
  <2>7. ASSUME NEW n \in Counts, SkipBitsUnchecked(n) PROVE IInv'
    BY <2>0, <2>7, <1>2, <1>3, MsbCallsKeep DEF SkipBitsUnchecked
  <2>8. CASE ReaderAlign
    BY <2>0, <2>8, <1>2, <1>3, MsbCallsKeep DEF ReaderAlign
  <2> QED BY <1>6, <2>1, <2>2, <2>3, <2>4, <2>5, <2>6, <2>7, <2>8 DEF NextMsb
<1>7. CASE NextLsb
  <2>0. order = "lsb" /\ GoodLsb(bs)
    BY <1>1, <1>7 DEF NextLsb, ReadBitsLsb, PeekBitsLsb, SkipBitsLsb,
       ReadBitsLsbUnchecked, PeekBitsLsbUnchecked, SkipBitsLsbUnchecked,
       ReaderAlignLsb, Call
  <2>1. ASSUME NEW n \in Counts, ReadBitsLsb(n) PROVE IInv'
    BY <2>0, <2>1, <1>2, <1>4, LsbCallsKeep DEF ReadBitsLsb
  <2>2. ASSUME NEW n \in Counts, PeekBitsLsb(n) PROVE IInv'
    BY <2>0, <2>2, <1>2, <1>4, LsbCallsKeep DEF PeekBitsLsb
  <2>3. ASSUME NEW n \in SkipCounts, SkipBitsLsb(n) PROVE IInv'
    <3>1. n \in Nat /\ KeepsLsb(bs, bs_skip_bits_lsb(bs, n))
      BY <2>0, <1>2, LsbCallsKeep
    <3> QED BY <3>1, <2>3, <1>4 DEF SkipBitsLsb
  <2>4. ASSUME NEW n \in Counts, ReadBitsLsbUnchecked(n) PROVE IInv'
    BY <2>0, <2>4, <1>2, <1>4, LsbCallsKeep DEF ReadBitsLsbUnchecked
  <2>5. ASSUME NEW n \in Counts, PeekBitsLsbUnchecked(n) PROVE IInv'
    BY <2>0, <2>5, <1>2, <1>4, LsbCallsKeep DEF PeekBitsLsbUnchecked
  <2>6. ASSUME NEW n \in Counts, SkipBitsLsbUnchecked(n) PROVE IInv'
    BY <2>0, <2>6, <1>2, <1>4, LsbCallsKeep DEF SkipBitsLsbUnchecked
  <2>7. CASE ReaderAlignLsb
    BY <2>0, <2>7, <1>2, <1>4, LsbCallsKeep DEF ReaderAlignLsb
  <2> QED BY <1>7, <2>1, <2>2, <2>3, <2>4, <2>5, <2>6, <2>7 DEF NextLsb
<1>8. ASSUME NEW n \in ByteCounts, ReadBytes(n) PROVE IInv'
  <2>1. /\ bs' = bs_read_bytes(bs, n).bs /\ order' = order
        /\ ret' = bs_read_bytes(bs, n).ret
        /\ Asked("read_bytes", n)
    BY <1>8 DEF ReadBytes, Call
  <2>2. /\ bs'.buffer = bs.buffer /\ ret' \in RetType
        /\ bs' = bs \/ (GoodMsb(bs') /\ GoodLsb(bs'))
    BY <2>1, <1>1, <1>2, ReadBytesKeeps
  <2>3. request' \in Requests
    BY <2>1, <1>1, <1>2, AskedType
  <2> QED BY <2>1, <2>2, <2>3, <1>1 DEF IInv
<1>9. CASE ChangeOrder
  <2>1. bs = Empty(bs, bs.byte_pos)
    <3>1. bs \in Readers
      BY <1>1 DEF Bounded
    <3> QED BY <3>1, <1>9 DEF ChangeOrder, Empty, Readers
  <2>2. bs \in Readers /\ bs.byte_pos \in 0 .. Len(bs.buffer)
    BY <1>1 DEF Bounded, Readers
  <2>3. GoodMsb(bs) /\ GoodLsb(bs)
    BY <2>1, <2>2, EmptyGood
  <2> QED BY <2>3, <1>9 DEF ChangeOrder, IInv
<1>10. CASE UNCHANGED vars
  BY <1>10 DEF vars, IInv
<1> QED BY <1>5, <1>6, <1>7, <1>8, <1>9, <1>10 DEF Next

LEMMA IInvImplies == IInv => TypeOK /\ CacheMirrorsBuffer
BY DEF IInv, TypeOK, CacheMirrorsBuffer, RetType, GoodMsb, GoodLsb, Bounded,
       Readers

---------------------------------------------------------------------------
\* Every reachable reader is well formed: byte_pos stays within the buffer
\* and bits_in_cache within the cache, for every width, memory and argument.
THEOREM TypeCorrect == Spec => []TypeOK
<1>1. Spec => []IInv
  BY IInvInit, IInvStep, PTL DEF Spec
<1> QED BY <1>1, IInvImplies, PTL

\* The cached bits of every reachable reader are those of its buffer.
THEOREM CacheCorrect == Spec => []CacheMirrorsBuffer
<1>1. Spec => []IInv
  BY IInvInit, IInvStep, PTL DEF Spec
<1> QED BY <1>1, IInvImplies, PTL

\* After a successful checked peek the bits it saw may be skipped unchecked.
THEOREM PeekLoadsCorrect == Spec => PeekLoads
<1> DEFINE A == \A n \in Counts :
                  /\ PeekBits(n) \/ PeekBitsLsb(n)
                  /\ n <= bs_reader_bits_left(bs)
                  => n <= bs'.bits_in_cache
<1>1. IInv => A
  <2> SUFFICES ASSUME IInv, NEW n \in Counts,
                      PeekBits(n) \/ PeekBitsLsb(n),
                      n <= bs_reader_bits_left(bs)
               PROVE  n <= bs'.bits_in_cache
    OBVIOUS
  <2>1. n \in 0 .. MaxBits /\ n \in Nat
    BY ArgumentAssumption
  <2>2. Bounded(bs) /\ bs.bits_in_cache \in Nat
    BY DEF IInv, GoodMsb, GoodLsb, Bounded, Readers
  <2>3. CASE PeekBits(n)
    <3>1. GoodMsb(bs) /\ bs' = bs_peek_bits(bs, n).bs
      BY <2>3 DEF PeekBits, Call, IInv
    <3>2. n <= refill(bs).bits_in_cache
      BY <3>1, <2>1, LoadedMsb
    <3> QED BY <3>1, <3>2, <2>1, <2>2, ResultFields DEF bs_peek_bits
  <2>4. CASE PeekBitsLsb(n)
    <3>1. GoodLsb(bs) /\ bs' = bs_peek_bits_lsb(bs, n).bs
      BY <2>4 DEF PeekBitsLsb, Call, IInv
    <3>2. n <= refill_lsb(bs).bits_in_cache
      BY <3>1, <2>1, LoadedLsb
    <3> QED BY <3>1, <3>2, <2>1, <2>2, ResultFields DEF bs_peek_bits_lsb
  <2> QED BY <2>3, <2>4
<1>2. Spec => []IInv
  BY IInvInit, IInvStep, PTL DEF Spec
<1>3. IInv /\ [Next]_vars => [A]_vars
  BY <1>1
<1> QED BY <1>2, <1>3, PTL DEF Spec, PeekLoads

---------------------------------------------------------------------------
\* From calls to steps of the source.

\* The source's position and what it has left are the reader's.
LEMMA SourceState ==
    /\ IInv => /\ 8 * Len(bs.buffer) - bs_reader_bits_left(bs) = Position(bs)
               /\ Source!Left = bs_reader_bits_left(bs)
    /\ IInv' => (8 * Len(bs.buffer) - bs_reader_bits_left(bs))' = Position(bs')
<1>1. ASSUME NEW b, Bounded(b)
      PROVE  /\ 8 * Len(b.buffer) - bs_reader_bits_left(b) = Position(b)
             /\ 8 * Len(b.buffer) - Position(b) = bs_reader_bits_left(b)
  <2>1. /\ Len(b.buffer) \in Nat /\ b.byte_pos \in Nat
        /\ b.bits_in_cache \in Nat
    BY <1>1, WidthAssumption DEF Bounded, Readers
  <2>2. bs_reader_bits_left(b) = 8 * Len(b.buffer) - Position(b)
    BY <1>1, BitsLeft
  <2> QED BY <2>1, <2>2 DEF Position
<1>2. IInv => Bounded(bs)
  BY DEF IInv, GoodMsb, GoodLsb
<1>3. IInv' => Bounded(bs')
  BY DEF IInv, GoodMsb, GoodLsb
<1>4. IInv => /\ 8 * Len(bs.buffer) - bs_reader_bits_left(bs) = Position(bs)
              /\ Source!Left = bs_reader_bits_left(bs)
  <2> SUFFICES ASSUME IInv
               PROVE  /\ 8 * Len(bs.buffer) - bs_reader_bits_left(bs)
                           = Position(bs)
                      /\ Source!Left = bs_reader_bits_left(bs)
    OBVIOUS
  <2>1. Source!Left
          = 8 * Len(bs.buffer) - (8 * Len(bs.buffer) - bs_reader_bits_left(bs))
    BY DEF Source!Left
  <2>2. /\ 8 * Len(bs.buffer) - bs_reader_bits_left(bs) = Position(bs)
        /\ 8 * Len(bs.buffer) - Position(bs) = bs_reader_bits_left(bs)
    BY <1>1, <1>2
  <2> QED BY <2>1, <2>2
<1>5. (8 * Len(bs.buffer) - bs_reader_bits_left(bs))'
        = 8 * Len(bs'.buffer) - bs_reader_bits_left(bs')
  BY DEF bs_reader_bits_left
<1>6. IInv' => (8 * Len(bs.buffer) - bs_reader_bits_left(bs))' = Position(bs')
  BY <1>1, <1>3, <1>5
<1> QED BY <1>4, <1>6

\* A call that meets its promise is the source's answer to what was asked.
LEMMA ToSource ==
    ASSUME IInv, IInv', NEW res, bs' = res.bs, ret' = res.ret,
           UNCHANGED order, bs'.buffer = bs.buffer,
           NEW op, NEW n, Asked(op, n)
    PROVE  /\ op = "read" /\ Takes(bs, order, n, res) => Source!Read(n)
           /\ op = "peek" /\ Sees(bs, order, n, res) => Source!Peek(n)
           /\ Refuses(bs, n, res) => Source!Fail(op, n)
           /\ op = "skip" /\ Skips(bs, n, res) => Source!Skip(n)
           /\ op = "align" /\ n = 0 /\ Aligns(bs, res) => Source!Align
           /\ op = "read_bytes" /\ Copies(bs, n, res) => Source!CopyBytes(n)
<1> DEFINE at == 8 * Len(bs.buffer) - bs_reader_bits_left(bs)
<1>1. /\ at = Position(bs) /\ at' = Position(res.bs)
      /\ Source!Left = bs_reader_bits_left(bs)
  BY SourceState
<1>2. Nothing = Source!None
  BY DEF Nothing, Ret, Zero, Source!None, Source!Outcome, Source!Zero
<1>3. \A m : Value(Field(bs.buffer, order, Position(bs), m, MaxBits))
               = Source!Next_n_bits(m)
  BY <1>1 DEF Value, Ret, Field, FieldOffset, StreamBit, Source!Next_n_bits,
              Source!Outcome, Source!Field, Source!FieldOffset,
              Source!StreamBit
<1>4. \A okay, bytes : Copied(okay, bytes)
                         = Source!Outcome(Source!Zero(MaxBits), okay, bytes)
  BY DEF Copied, Ret, Zero, Source!Outcome, Source!Zero
<1>5. /\ UNCHANGED << bs.buffer, order >>
      /\ at' = at => UNCHANGED << bs.buffer, at, order >>
  OBVIOUS
<1>6. Source!Asked(op, n)
  BY DEF Asked, Source!Asked
<1>7. ASSUME op = "read", Takes(bs, order, n, res) PROVE Source!Read(n)
  BY <1>1, <1>3, <1>5, <1>7, <1>6 DEF Takes, Source!Read
<1>8. ASSUME op = "peek", Sees(bs, order, n, res) PROVE Source!Peek(n)
  BY <1>1, <1>3, <1>5, <1>8, <1>6 DEF Sees, Source!Peek
<1>9. ASSUME Refuses(bs, n, res) PROVE Source!Fail(op, n)
  BY <1>1, <1>2, <1>5, <1>9, <1>6 DEF Refuses, Source!Fail
<1>10. ASSUME op = "skip", Skips(bs, n, res) PROVE Source!Skip(n)
  BY <1>1, <1>2, <1>5, <1>10, <1>6 DEF Skips, MinOf, Source!Skip, Source!MinOf
<1>11. ASSUME op = "align", n = 0, Aligns(bs, res) PROVE Source!Align
  BY <1>1, <1>2, <1>5, <1>11, <1>6 DEF Aligns, Source!Align
<1>12. ASSUME op = "read_bytes", Copies(bs, n, res) PROVE Source!CopyBytes(n)
  BY <1>1, <1>4, <1>5, <1>12, <1>6 DEF Copies, Source!CopyBytes
<1> QED BY <1>7, <1>8, <1>9, <1>10, <1>11, <1>12

LEMMA InitMaps == Init => Source!Init
<1> SUFFICES ASSUME Init PROVE Source!Init
  OBVIOUS
<1>1. PICK data \in Buffers : bs = bs_reader_init(data)
  BY DEF Init
<1>2. Len(data) \in Nat
  BY ArgumentAssumption
<1>3. bs.buffer = data /\ bs.byte_pos = 0 /\ bs.bits_in_cache = 0
  BY <1>1 DEF bs_reader_init
<1>4. 8 * Len(bs.buffer) - bs_reader_bits_left(bs) = 0
  BY <1>2, <1>3 DEF bs_reader_bits_left
<1>5. ret = Source!None /\ order \in Source!Orders
  BY DEF Init, Nothing, Ret, Zero, Orders, Source!None, Source!Outcome,
         Source!Zero, Source!Orders
<1>6. request = [op |-> "init", n |-> 0, tick |-> 0]
  BY DEF Init
<1> QED BY <1>3, <1>4, <1>5, <1>6 DEF Source!Init

LEMMA StepMaps == IInv /\ IInv' /\ [Next]_vars => [Source!Next]_(Source!svars)
<1> SUFFICES ASSUME IInv, IInv', [Next]_vars
             PROVE  Source!Next \/ UNCHANGED Source!svars
  OBVIOUS
<1> DEFINE at == 8 * Len(bs.buffer) - bs_reader_bits_left(bs)
<1>1. /\ Bounded(bs)
      /\ order = "msb" => GoodMsb(bs)
      /\ order = "lsb" => GoodLsb(bs)
      /\ order \in Orders /\ at = Position(bs) /\ at' = Position(bs')
  BY SourceState DEF IInv, Orders, GoodMsb, GoodLsb
<1>2. /\ Counts \subseteq 0 .. MaxBits /\ 1 \in Counts
      /\ SkipCounts \subseteq Nat /\ ByteCounts \subseteq Nat
  BY ArgumentAssumption
<1> DEFINE Meets(op, n, res) ==
      \/ /\ n \in Counts /\ op = "read"
         /\ Takes(bs, order, n, res) \/ Refuses(bs, n, res)
      \/ /\ n \in Counts /\ op = "peek"
         /\ Sees(bs, order, n, res) \/ Refuses(bs, n, res)
      \/ n \in Counts \cup SkipCounts /\ op = "skip" /\ Skips(bs, n, res)
      \/ n = 0 /\ op = "align" /\ Aligns(bs, res)
      \/ n \in ByteCounts /\ op = "read_bytes" /\ Copies(bs, n, res)
<1>3. ASSUME NEW family, NEW op, NEW n, NEW res, Call(family, op, n, res),
             Meets(op, n, res), res.bs.buffer = bs.buffer
      PROVE  Source!Next
  <2>1. /\ bs' = res.bs /\ ret' = res.ret /\ UNCHANGED order
        /\ bs'.buffer = bs.buffer /\ Asked(op, n)
    BY <1>3 DEF Call
  <2>2. /\ op = "read" /\ Takes(bs, order, n, res) => Source!Read(n)
        /\ op = "peek" /\ Sees(bs, order, n, res) => Source!Peek(n)
        /\ Refuses(bs, n, res) => Source!Fail(op, n)
        /\ op = "skip" /\ Skips(bs, n, res) => Source!Skip(n)
        /\ op = "align" /\ n = 0 /\ Aligns(bs, res) => Source!Align
        /\ op = "read_bytes" /\ Copies(bs, n, res) => Source!CopyBytes(n)
    BY <2>1, ToSource
  <2> QED BY <2>2, <1>3 DEF Source!Next
<1>4. CASE ReaderInit
  <2>1. PICK data \in Buffers : bs' = bs_reader_init(data)
    BY <1>4 DEF ReaderInit
  <2>2. bs'.buffer = data /\ bs'.byte_pos = 0 /\ bs'.bits_in_cache = 0
    BY <2>1 DEF bs_reader_init
  <2>3. at' = 0
    BY <2>2, <1>1 DEF Position
  <2>4. ret' = Source!None /\ order' \in Source!Orders
    BY <1>4 DEF ReaderInit, Nothing, Ret, Zero, Orders, Source!None,
                Source!Outcome, Source!Zero, Source!Orders
  <2>5. Source!Reopen
    BY <2>2, <2>3, <2>4, <1>4 DEF ReaderInit, Asked, Source!Asked, Source!Reopen
  <2> QED BY <2>5 DEF Source!Next
<1> HIDE DEF Meets
<1>5. CASE NextMsb
  <2>1. order = "msb" /\ GoodMsb(bs)
    BY <1>1, <1>5 DEF NextMsb, ReadBit, ReadBits, PeekBits, SkipBits,
       ReadBitsUnchecked, PeekBitsUnchecked, SkipBitsUnchecked, ReaderAlign,
       Call
  <2>2. ASSUME NEW op, NEW n, NEW res, Call("msb", op, n, res),
               Meets(op, n, res), KeepsMsb(bs, res)
        PROVE  Source!Next
    BY <2>2, <1>3 DEF KeepsMsb
  <2>3. \A n \in Counts : n \in 0 .. MaxBits
    BY <1>2
  <2>4. ASSUME NEW n \in Counts,
               \/ ReadBits(n) \/ PeekBits(n)
               \/ ReadBitsUnchecked(n) \/ PeekBitsUnchecked(n)
               \/ SkipBitsUnchecked(n)
        PROVE  Source!Next
    <3>1. CASE ReadBits(n)
      <4>1. /\ Meets("read", n, bs_read_bits(bs, n))
            /\ KeepsMsb(bs, bs_read_bits(bs, n))
        BY <2>1, <2>3, MsbCallsMeet, MsbCallsKeep DEF Meets
      <4> QED BY <4>1, <3>1, <2>2 DEF ReadBits
    <3>2. CASE PeekBits(n)
      <4>1. /\ Meets("peek", n, bs_peek_bits(bs, n))
            /\ KeepsMsb(bs, bs_peek_bits(bs, n))
        BY <2>1, <2>3, MsbCallsMeet, MsbCallsKeep DEF Meets
      <4> QED BY <4>1, <3>2, <2>2 DEF PeekBits
    <3>3. CASE ReadBitsUnchecked(n)
      <4>1. /\ Meets("read", n, bs_read_bits_unchecked(bs, n))
            /\ KeepsMsb(bs, bs_read_bits_unchecked(bs, n))
        BY <3>3, <2>1, <2>3, MsbCallsMeet, MsbCallsKeep
           DEF Meets, ReadBitsUnchecked
      <4> QED BY <4>1, <3>3, <2>2 DEF ReadBitsUnchecked
    <3>4. CASE PeekBitsUnchecked(n)
      <4>1. /\ Meets("peek", n, bs_peek_bits_unchecked(bs, n))
            /\ KeepsMsb(bs, bs_peek_bits_unchecked(bs, n))
        BY <3>4, <2>1, <2>3, MsbCallsMeet, MsbCallsKeep
           DEF Meets, PeekBitsUnchecked
      <4> QED BY <4>1, <3>4, <2>2 DEF PeekBitsUnchecked
    <3>5. CASE SkipBitsUnchecked(n)
      <4>1. /\ Meets("skip", n, bs_skip_bits_unchecked(bs, n))
            /\ KeepsMsb(bs, bs_skip_bits_unchecked(bs, n))
        BY <3>5, <2>1, <2>3, MsbCallsMeet, MsbCallsKeep
           DEF Meets, SkipBitsUnchecked
      <4> QED BY <4>1, <3>5, <2>2 DEF SkipBitsUnchecked
    <3> QED BY <2>4, <3>1, <3>2, <3>3, <3>4, <3>5
  <2>5. CASE ReadBit
    BY <2>4, <2>5, <1>2 DEF ReadBit, bs_read_bit, ReadBits
  <2>6. ASSUME NEW n \in SkipCounts, SkipBits(n) PROVE Source!Next
    <3>1. n \in Nat /\ 1 \in 0 .. MaxBits
      BY <1>2
    <3>2. /\ Meets("skip", n, bs_skip_bits(bs, n))
          /\ KeepsMsb(bs, bs_skip_bits(bs, n))
      BY <3>1, <2>1, MsbCallsMeet, MsbCallsKeep DEF Meets
    <3> QED BY <3>2, <2>6, <2>2 DEF SkipBits
  <2>7. CASE ReaderAlign
    <3>1. /\ Meets("align", 0, bs_reader_align(bs))
          /\ KeepsMsb(bs, bs_reader_align(bs))
      BY <2>1, <2>3, <1>2, MsbCallsMeet, MsbCallsKeep DEF Meets
    <3> QED BY <3>1, <2>7, <2>2 DEF ReaderAlign
  <2> QED BY <1>5, <2>4, <2>5, <2>6, <2>7 DEF NextMsb
<1>6. CASE NextLsb
  <2>1. order = "lsb" /\ GoodLsb(bs)
    BY <1>1, <1>6 DEF NextLsb, ReadBitsLsb, PeekBitsLsb, SkipBitsLsb,
       ReadBitsLsbUnchecked, PeekBitsLsbUnchecked, SkipBitsLsbUnchecked,
       ReaderAlignLsb, Call
  <2>2. ASSUME NEW op, NEW n, NEW res, Call("lsb", op, n, res),
               Meets(op, n, res), KeepsLsb(bs, res)
        PROVE  Source!Next
    BY <2>2, <1>3 DEF KeepsLsb
  <2>3. \A n \in Counts : n \in 0 .. MaxBits
    BY <1>2
  <2>4. ASSUME NEW n \in Counts,
               \/ ReadBitsLsb(n) \/ PeekBitsLsb(n)
               \/ ReadBitsLsbUnchecked(n) \/ PeekBitsLsbUnchecked(n)
               \/ SkipBitsLsbUnchecked(n)
        PROVE  Source!Next
    <3>1. CASE ReadBitsLsb(n)
      <4>1. /\ Meets("read", n, bs_read_bits_lsb(bs, n))
            /\ KeepsLsb(bs, bs_read_bits_lsb(bs, n))
        BY <2>1, <2>3, LsbCallsMeet, LsbCallsKeep DEF Meets
      <4> QED BY <4>1, <3>1, <2>2 DEF ReadBitsLsb
    <3>2. CASE PeekBitsLsb(n)
      <4>1. /\ Meets("peek", n, bs_peek_bits_lsb(bs, n))
            /\ KeepsLsb(bs, bs_peek_bits_lsb(bs, n))
        BY <2>1, <2>3, LsbCallsMeet, LsbCallsKeep DEF Meets
      <4> QED BY <4>1, <3>2, <2>2 DEF PeekBitsLsb
    <3>3. CASE ReadBitsLsbUnchecked(n)
      <4>1. /\ Meets("read", n, bs_read_bits_lsb_unchecked(bs, n))
            /\ KeepsLsb(bs, bs_read_bits_lsb_unchecked(bs, n))
        BY <3>3, <2>1, <2>3, LsbCallsMeet, LsbCallsKeep
           DEF Meets, ReadBitsLsbUnchecked
      <4> QED BY <4>1, <3>3, <2>2 DEF ReadBitsLsbUnchecked
    <3>4. CASE PeekBitsLsbUnchecked(n)
      <4>1. /\ Meets("peek", n, bs_peek_bits_lsb_unchecked(bs, n))
            /\ KeepsLsb(bs, bs_peek_bits_lsb_unchecked(bs, n))
        BY <3>4, <2>1, <2>3, LsbCallsMeet, LsbCallsKeep
           DEF Meets, PeekBitsLsbUnchecked
      <4> QED BY <4>1, <3>4, <2>2 DEF PeekBitsLsbUnchecked
    <3>5. CASE SkipBitsLsbUnchecked(n)
      <4>1. /\ Meets("skip", n, bs_skip_bits_lsb_unchecked(bs, n))
            /\ KeepsLsb(bs, bs_skip_bits_lsb_unchecked(bs, n))
        BY <3>5, <2>1, <2>3, LsbCallsMeet, LsbCallsKeep
           DEF Meets, SkipBitsLsbUnchecked
      <4> QED BY <4>1, <3>5, <2>2 DEF SkipBitsLsbUnchecked
    <3> QED BY <2>4, <3>1, <3>2, <3>3, <3>4, <3>5
  <2>5. ASSUME NEW n \in SkipCounts, SkipBitsLsb(n) PROVE Source!Next
    <3>1. n \in Nat /\ 1 \in 0 .. MaxBits
      BY <1>2
    <3>2. /\ Meets("skip", n, bs_skip_bits_lsb(bs, n))
          /\ KeepsLsb(bs, bs_skip_bits_lsb(bs, n))
      BY <3>1, <2>1, LsbCallsMeet, LsbCallsKeep DEF Meets
    <3> QED BY <3>2, <2>5, <2>2 DEF SkipBitsLsb
  <2>6. CASE ReaderAlignLsb
    <3>1. /\ Meets("align", 0, bs_reader_align_lsb(bs))
          /\ KeepsLsb(bs, bs_reader_align_lsb(bs))
      BY <2>1, <2>3, <1>2, LsbCallsMeet, LsbCallsKeep DEF Meets
    <3> QED BY <3>1, <2>6, <2>2 DEF ReaderAlignLsb
  <2> QED BY <1>6, <2>4, <2>5, <2>6 DEF NextLsb
<1>7. ASSUME NEW n \in ByteCounts, ReadBytes(n) PROVE Source!Next
  <2>1. Meets("read_bytes", n, bs_read_bytes(bs, n))
    BY <1>1, <1>2, ReadBytesMeets DEF Meets
  <2>2. bs_read_bytes(bs, n).bs.buffer = bs.buffer
    BY <1>1, <1>2, ReadBytesKeeps
  <2> QED BY <2>1, <2>2, <1>3, <1>7 DEF ReadBytes
<1>8. CASE ChangeOrder
  <2>1. bs.byte_pos \in Nat /\ bs.bits_in_cache = 0
    BY <1>1, <1>8 DEF Bounded, Readers, ChangeOrder
  <2>2. at % 8 = 0
    BY <2>1, <1>1 DEF Position
  <2>3. /\ UNCHANGED << bs.buffer, at, request, ret >>
        /\ order' \in Source!Orders
    BY <1>1, <1>8 DEF ChangeOrder, Orders, Source!Orders
  <2>4. Source!ChangeOrder
    BY <2>2, <2>3 DEF Source!ChangeOrder
  <2> QED BY <2>4 DEF Source!Next
<1>9. CASE UNCHANGED vars
  BY <1>1, <1>9 DEF vars, Source!svars
<1> QED BY <1>4, <1>5, <1>6, <1>7, <1>8, <1>9 DEF Next

\* Prefetching is invisible: every call, whatever was asked, is answered as
\* the bit source that has no cache answers it, for every width, memory and
\* argument.
THEOREM ReaderImplementsSource == Spec => ImplementsSource
<1>1. Spec => []IInv
  BY IInvInit, IInvStep, PTL DEF Spec
<1> QED BY <1>1, InitMaps, StepMaps, PTL DEF Spec, ImplementsSource, Source!Spec

=============================================================================
