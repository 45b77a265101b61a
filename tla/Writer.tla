------------------------------- MODULE Writer -------------------------------
(***************************************************************************)
(* A bs_writer_t driven by a caller: every writer call of bitstream.h, in  *)
(* any order and past the end of the memory, with every argument its       *)
(* documentation allows.  A call is one step, as in module Reader.         *)
(*                                                                         *)
(* order is not part of bs_writer_t: it is the family of functions the     *)
(* caller is using.  The caller may change over whenever no bit is cached. *)
(***************************************************************************)
EXTENDS BitWriter

CONSTANTS
    Buffers,  \* the memory a writer may be opened on, with its old contents
    Values,   \* the values the caller writes
    Counts,   \* the bit counts it writes them with
    Chunks,   \* the byte sequences it copies in bulk
    MaxPending \* bound, for each size of the memory: with more bits enqueued
               \* the caller stops writing

ASSUME ArgumentAssumption ==
    /\ Buffers \subseteq Seq(Byte)
    /\ Values \subseteq Word(MaxBits)
    /\ Counts \subseteq 0 .. MaxBits
    /\ 1 \in Counts
    /\ Chunks \subseteq Seq(Byte)
    /\ MaxPending \in [{Len(data) : data \in Buffers} -> Nat]

VARIABLES
    bs, order,
    request, \* the call last made: its name without family and suffix (an
             \* align and a flush are both a "pad"), and its arguments; with
             \* a tick that changes with each call
    ok       \* what it returned, TRUE if nothing

vars == << bs, order, request, ok >>

Requests ==
    [op : {"init", "write", "pad", "write_bytes"}, value : Word(MaxBits),
     n : Nat, bytes : Seq(Byte), tick : Bit]

Asked(op, value, n, bytes) ==
    request' = [op |-> op, value |-> value, n |-> n, bytes |-> bytes,
                tick |-> 1 - request.tick]

Init ==
    /\ \E data \in Buffers : bs = bs_writer_init(data)
    /\ order \in Orders
    /\ request = [op |-> "init", value |-> Zero(MaxBits), n |-> 0,
                  bytes |-> << >>, tick |-> 0]
    /\ ok = TRUE

\* A write and a padding, which return nothing and leave the writer b.
Called(family, b) ==
    /\ order = family
    /\ bs.bits_in_cache <= MaxPending[Len(bs.buffer)]
    /\ bs' = b
    /\ ok' = TRUE
    /\ UNCHANGED order

WriteCall(family, value, n, b) ==
    Called(family, b) /\ Asked("write", value, n, << >>)

PadCall(family, b) ==
    Called(family, b) /\ Asked("pad", Zero(MaxBits), 0, << >>)

---------------------------------------------------------------------------
\* MSB-first calls.

WriteBit(value, ub) ==
    WriteCall("msb", value, 1, bs_write_bit(bs, value, ub))

WriteBits(value, n, ub) ==
    WriteCall("msb", value, n, bs_write_bits(bs, value, n, ub))

WriterAlign(ub) == PadCall("msb", bs_writer_align(bs, ub))
WriterFlush(ub) == PadCall("msb", bs_writer_flush(bs, ub))

\* The unchecked calls are made only where their @pre holds.
WriteBitsUnchecked(value, n, ub) ==
    /\ n > 0
    /\ Clean(value, n)
    /\ WriteCall("msb", value, n, bs_write_bits_unchecked(bs, value, n, ub))

---------------------------------------------------------------------------
\* LSB-first calls.

WriteBitsLsb(value, n, ub) ==
    WriteCall("lsb", value, n, bs_write_bits_lsb(bs, value, n, ub))

WriterAlignLsb(ub) == PadCall("lsb", bs_writer_align_lsb(bs, ub))
WriterFlushLsb(ub) == PadCall("lsb", bs_writer_flush_lsb(bs, ub))

WriteBitsLsbUnchecked(value, n, ub) ==
    /\ n > 0
    /\ Clean(value, n)
    /\ WriteCall("lsb", value, n, bs_write_bits_lsb_unchecked(bs, value, n, ub))

---------------------------------------------------------------------------
\* Calls of neither family.

WriteBytes(bytes) ==
    /\ Asked("write_bytes", Zero(MaxBits), 0, bytes)
    /\ bs' = bs_write_bytes(bs, bytes)
    /\ ok' = can_write_bytes(bs, bytes)
    /\ UNCHANGED order

\* The caller's own step: with no cached bit either family fits.
ChangeOrder ==
    /\ bs.bits_in_cache = 0
    /\ order' \in Orders
    /\ UNCHANGED << bs, request, ok >>

NextMsb(ub) ==
    \/ \E value \in Values :
        \/ WriteBit(value, ub)
        \/ \E n \in Counts : \/ WriteBits(value, n, ub)
                             \/ WriteBitsUnchecked(value, n, ub)
    \/ WriterAlign(ub)
    \/ WriterFlush(ub)

NextLsb(ub) ==
    \/ \E value \in Values, n \in Counts :
        WriteBitsLsb(value, n, ub) \/ WriteBitsLsbUnchecked(value, n, ub)
    \/ WriterAlignLsb(ub)
    \/ WriterFlushLsb(ub)

Next ==
    \/ \E ub \in Builds : NextMsb(ub) \/ NextLsb(ub)
    \/ \E bytes \in Chunks : WriteBytes(bytes)
    \/ ChangeOrder

Spec == Init /\ [][Next]_vars

---------------------------------------------------------------------------
\* Type correctness, with the bound every store of bitstream.h relies on:
\* byte_pos never passes the end of the memory.
TypeOK ==
    /\ bs \in Writers
    /\ bs.byte_pos <= Len(bs.buffer)
    /\ order \in Orders
    /\ request \in Requests
    /\ ok \in BOOLEAN

\* Until the memory is full and has been overrun, less than a byte is ever
\* enqueued and the cache is clear above it, so a write of up to MaxBits
\* bits fits the cache and the shifts by bits_in_cache are defined.  It has
\* to survive a failed bulk copy, which sets overflow on a writer that still
\* has room, and every call made after it.
PendingFits ==
    bs.byte_pos < Len(bs.buffer) \/ ~ bs.overflow =>
        /\ bs.bits_in_cache < 8
        /\ Clean(bs.bit_cache, bs.bits_in_cache)

\* Every shift by bits_in_cache is defined, also when the caller goes on
\* writing after overflow has been set: the header says of its accumulator
\* that up to MaxBits bits are written safely in a single operation.
ShiftsDefined == bs.bits_in_cache < CacheBits

\* A call changes no byte of the memory but those it advances over: what
\* was written is never rewritten, whatever the writer does after it has
\* overflowed, and nothing beyond the write position is touched.  Overflow,
\* once reported, stays reported.
OnlyAppends ==
    [][/\ bs'.byte_pos >= bs.byte_pos
       /\ Len(bs'.buffer) = Len(bs.buffer)
       /\ \A j \in 1 .. Len(bs.buffer) :
            j <= bs.byte_pos \/ j > bs'.byte_pos => bs'.buffer[j] = bs.buffer[j]
       /\ bs.overflow => bs'.overflow]_vars

\* After a flush or an align, either every bit written so far is in the
\* memory, or overflow is reported.
FlushDrains ==
    [][\A ub \in Builds :
        WriterFlush(ub) \/ WriterFlushLsb(ub) \/ WriterAlign(ub)
            \/ WriterAlignLsb(ub)
        => bs'.overflow \/ bs'.bits_in_cache = 0]_vars

\* The enqueued bits in transmission order.
Pending ==
    [j \in 1 .. bs.bits_in_cache |->
        bs.bit_cache[IF order = "msb" THEN bs.bits_in_cache - j ELSE j - 1]]

Stored ==
    [j \in 1 .. 8 * bs.byte_pos |-> StreamBit(bs.buffer, order, j - 1)]

\* What an overrun writer still has enqueued can never reach the memory.
Kept ==
    IF bs.overflow /\ bs.byte_pos = Len(bs.buffer)
    THEN Stored ELSE Stored \o Pending

Sink ==
    INSTANCE BitSink WITH cap <- Len(bs.buffer), stream <- Kept,
                          overflow <- bs.overflow

\* The writer implements the append-only bit stream: each call adds exactly
\* the bits it was asked to, so that none is lost, repeated or reordered
\* while there is room, also after a bulk copy was refused; overflow is
\* reported by the call that first leaves a whole byte without room and by
\* no earlier one; padding, bulk copies and their failures have the promised
\* effect.
ImplementsSink == Sink!Spec
===========================================================================
