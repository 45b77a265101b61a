------------------------------- MODULE Reader -------------------------------
(***************************************************************************)
(* A bs_reader_t driven by a caller: every reader call of bitstream.h, in  *)
(* any order, with every argument its documentation allows.  The library   *)
(* is single-threaded and its calls do not block, so a call is one step.   *)
(*                                                                         *)
(* order is not part of bs_reader_t: it is the family of functions the     *)
(* caller is using.  Calls of the two families may not be mixed while bits *)
(* are cached, because the families keep different things in the unused    *)
(* part of the cache; ChangeOrder is where the caller may change over.     *)
(***************************************************************************)
EXTENDS BitReader

CONSTANTS
    Buffers,    \* the memory a reader may be opened on
    Counts,     \* bit counts the caller reads and peeks
    SkipCounts, \* bit counts it skips: the documentation does not bound them
    ByteCounts  \* byte counts the caller asks for

ASSUME ArgumentAssumption ==
    /\ Buffers \subseteq Seq(Byte)
    /\ Counts \subseteq 0 .. MaxBits
    /\ 1 \in Counts
    /\ SkipCounts \subseteq Nat \ {CacheBits}  \* a shift by CacheBits is undefined
    /\ ByteCounts \subseteq Nat

VARIABLES
    bs, order,
    request, \* the call last made: its name without family and suffix, and
             \* its argument; with a tick that changes with each call
    ret      \* what it returned

vars == << bs, order, request, ret >>

Requests ==
    [op : {"init", "read", "peek", "skip", "align", "read_bytes"},
     n : Nat, tick : Bit]

Asked(op, n) == request' = [op |-> op, n |-> n, tick |-> 1 - request.tick]

Init ==
    /\ \E data \in Buffers : bs = bs_reader_init(data)
    /\ order \in Orders
    /\ request = [op |-> "init", n |-> 0, tick |-> 0]
    /\ ret = Nothing

\* The caller opens the reader again, on any memory.
ReaderInit ==
    /\ \E data \in Buffers : bs' = bs_reader_init(data)
    /\ Asked("init", 0)
    /\ order' \in Orders
    /\ ret' = Nothing

\* A call returns: the reader it leaves and its result.
Call(family, op, n, result) ==
    /\ order = family
    /\ Asked(op, n)
    /\ bs' = result.bs
    /\ ret' = result.ret
    /\ UNCHANGED order

---------------------------------------------------------------------------
\* MSB-first calls.

ReadBit         == Call("msb", "read", 1, bs_read_bit(bs))
ReadBits(n)     == Call("msb", "read", n, bs_read_bits(bs, n))
PeekBits(n)     == Call("msb", "peek", n, bs_peek_bits(bs, n))
SkipBits(n)     == Call("msb", "skip", n, bs_skip_bits(bs, n))
ReaderAlign     == Call("msb", "align", 0, bs_reader_align(bs))

\* The unchecked calls are made only where their @pre holds.
ReadBitsUnchecked(n) ==
    /\ n > 0
    /\ n <= bs_reader_bits_left(bs)
    /\ Call("msb", "read", n, bs_read_bits_unchecked(bs, n))

PeekBitsUnchecked(n) ==
    /\ n > 0
    /\ n <= bs_reader_bits_left(bs)
    /\ Call("msb", "peek", n, bs_peek_bits_unchecked(bs, n))

SkipBitsUnchecked(n) ==
    /\ n <= bs.bits_in_cache
    /\ Call("msb", "skip", n, bs_skip_bits_unchecked(bs, n))

---------------------------------------------------------------------------
\* LSB-first calls.

ReadBitsLsb(n)  == Call("lsb", "read", n, bs_read_bits_lsb(bs, n))
PeekBitsLsb(n)  == Call("lsb", "peek", n, bs_peek_bits_lsb(bs, n))
SkipBitsLsb(n)  == Call("lsb", "skip", n, bs_skip_bits_lsb(bs, n))
ReaderAlignLsb  == Call("lsb", "align", 0, bs_reader_align_lsb(bs))

ReadBitsLsbUnchecked(n) ==
    /\ n > 0
    /\ n <= bs_reader_bits_left(bs)
    /\ Call("lsb", "read", n, bs_read_bits_lsb_unchecked(bs, n))

PeekBitsLsbUnchecked(n) ==
    /\ n > 0
    /\ n <= bs_reader_bits_left(bs)
    /\ Call("lsb", "peek", n, bs_peek_bits_lsb_unchecked(bs, n))

SkipBitsLsbUnchecked(n) ==
    /\ n <= bs.bits_in_cache
    /\ Call("lsb", "skip", n, bs_skip_bits_lsb_unchecked(bs, n))

---------------------------------------------------------------------------
\* Calls of neither family.

ReadBytes(n) == Call(order, "read_bytes", n, bs_read_bytes(bs, n))

\* The caller's own step: with no cached bit and a clear cache word (a new
\* reader, or one bs_read_bytes has just been called on) either family fits.
ChangeOrder ==
    /\ bs.bits_in_cache = 0
    /\ bs.bit_cache = Zero(CacheBits)
    /\ order' \in Orders
    /\ UNCHANGED << bs, request, ret >>

NextMsb ==
    \/ ReadBit
    \/ \E n \in Counts :
        \/ ReadBits(n) \/ PeekBits(n)
        \/ ReadBitsUnchecked(n) \/ PeekBitsUnchecked(n)
        \/ SkipBitsUnchecked(n)
    \/ \E n \in SkipCounts : SkipBits(n)
    \/ ReaderAlign

NextLsb ==
    \/ \E n \in Counts :
        \/ ReadBitsLsb(n) \/ PeekBitsLsb(n)
        \/ ReadBitsLsbUnchecked(n) \/ PeekBitsLsbUnchecked(n)
        \/ SkipBitsLsbUnchecked(n)
    \/ \E n \in SkipCounts : SkipBitsLsb(n)
    \/ ReaderAlignLsb

Next ==
    \/ ReaderInit
    \/ NextMsb
    \/ NextLsb
    \/ \E n \in ByteCounts : ReadBytes(n)
    \/ ChangeOrder

Spec == Init /\ [][Next]_vars

---------------------------------------------------------------------------
\* Type correctness, with the bound every index computation of bitstream.h
\* relies on: byte_pos never passes the end of the buffer (so that
\* size - byte_pos does not wrap), and no call caches more than CacheBits
\* bits or takes bits_in_cache below zero.
TypeOK ==
    /\ bs \in Readers
    /\ bs.buffer \in Buffers
    /\ bs.byte_pos <= Len(bs.buffer)
    /\ order \in Orders
    /\ request \in Requests
    /\ ret \in [value : Word(MaxBits), ok : BOOLEAN, bytes : Seq(Byte)]

\* No call ever leaves a cached bit that differs from the buffer, whatever
\* mixture of reads, peeks, skips (clipped ones included), alignments and
\* bulk copies came before, and the cache never holds more than was fetched
\* (bs_read_bytes gives back bits_in_cache / 8 bytes and must not go below
\* the start of the buffer).  In LSB order nothing is left above the valid
\* bits, where the next refill ORs new bytes in.
CacheMirrorsBuffer ==
    /\ bs.bits_in_cache <= 8 * bs.byte_pos
    /\ IF order = "msb" THEN CacheMirrorsMsb(bs) ELSE CacheMirrorsLsb(bs)

\* The protocol behind the unchecked skips: after a successful checked peek
\* of n bits those n bits are loaded, so the caller may drop them with a
\* call that neither refills nor checks.
PeekLoads ==
    [][\A n \in Counts :
        /\ PeekBits(n) \/ PeekBitsLsb(n)
        /\ n <= bs_reader_bits_left(bs)
        => n <= bs'.bits_in_cache]_vars

\* A skip of more bits than remain leaves the reader at the end of the
\* stream, as the documentation of bs_skip_bits says.
SkipClipsAtEof ==
    [][\A n \in SkipCounts :
        /\ SkipBits(n) \/ SkipBitsLsb(n)
        /\ n > bs_reader_bits_left(bs)
        => bs_reader_eof(bs')]_vars

\* A refill fills the cache but for 7 bits, whatever was in it before: as
\* far as that, a skip is exact.
Source ==
    INSTANCE BitSource WITH data <- bs.buffer, Reach <- CacheBits - 7,
                            at <- 8 * Len(bs.buffer) - bs_reader_bits_left(bs)

\* The reader implements the cacheless bit source: whatever calls were made
\* before, each call, as it was asked, consumes and returns exactly the bits
\* the source would and fails exactly when the source would, so that
\* prefetching is never visible.
ImplementsSource == Source!Spec
===========================================================================
