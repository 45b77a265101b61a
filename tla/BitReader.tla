----------------------------- MODULE BitReader -----------------------------
(***************************************************************************)
(* The reader half of bitstream.h as operators on a bs_reader_t value.     *)
(* Every API function takes the reader and returns a record with the       *)
(* reader it leaves (bs) and what the call hands back to the caller (ret). *)
(*                                                                         *)
(* A bs_reader_t is a record                                               *)
(*   buffer        the source memory, a sequence of bytes (size is its     *)
(*                 length),                                                *)
(*   byte_pos      index of the next byte to fetch,                        *)
(*   bit_cache     the accumulator, a word of CacheBits bits,              *)
(*   bits_in_cache the number of valid bits in it.                         *)
(* The valid bits are the low bits_in_cache ones in both families.  The    *)
(* MSB family leaves consumed bits above them; the LSB family shifts       *)
(* consumed bits out at the bottom and needs everything above to be zero.  *)
(***************************************************************************)
EXTENDS Words

Readers ==
    [buffer : Seq(Byte), byte_pos : Nat,
     bit_cache : Word(CacheBits), bits_in_cache : 0 .. CacheBits]

\* What a call returns: a value, a success flag and the bytes copied out.
Ret(value, ok, bytes) == [value |-> value, ok |-> ok, bytes |-> bytes]
Nothing               == Ret(Zero(MaxBits), TRUE, << >>)
Value(v)              == Ret(v, TRUE, << >>)
Copied(ok, bytes)     == Ret(Zero(MaxBits), ok, bytes)

Result(b, r) == [bs |-> b, ret |-> r]

---------------------------------------------------------------------------
\* Construction and status.

bs_reader_init(data) ==
    [buffer |-> data, byte_pos |-> 0,
     bit_cache |-> Zero(CacheBits), bits_in_cache |-> 0]

bs_reader_eof(b) == b.byte_pos >= Len(b.buffer) /\ b.bits_in_cache = 0

bs_reader_bits_left(b) ==
    IF b.byte_pos >= Len(b.buffer)
    THEN b.bits_in_cache
    ELSE 8 * (Len(b.buffer) - b.byte_pos) + b.bits_in_cache

---------------------------------------------------------------------------
(***************************************************************************)
(* Refill.  The loops of the code fetch one byte per iteration while at    *)
(* least 8 bits of the cache are free and bytes remain; the number of      *)
(* iterations and the resulting cache are given in closed form.            *)
(***************************************************************************)
\* Slip: the loop also runs when only a part of a byte is free.
bytes_to_load_rounded_up(b) ==
    MinOf((CacheBits + 7 - b.bits_in_cache) \div 8,
          Len(b.buffer) - b.byte_pos)

bytes_to_load(b) ==
    MinOf((CacheBits - b.bits_in_cache) \div 8, Len(b.buffer) - b.byte_pos)

refill(b) ==
    LET k == bytes_to_load(b) IN
    [buffer        |-> b.buffer,
     byte_pos      |-> b.byte_pos + k,
     bit_cache     |->
        [i \in 0 .. CacheBits - 1 |->
            IF i < 8 * k THEN b.buffer[(b.byte_pos + k) - (i \div 8)][i % 8]
                         ELSE b.bit_cache[i - 8 * k]],
     bits_in_cache |-> b.bits_in_cache + 8 * k]

\* The LSB loop ORs each byte in above the valid bits.
refill_lsb(b) ==
    LET k == bytes_to_load(b)
        n == b.bits_in_cache
    IN
    [buffer        |-> b.buffer,
     byte_pos      |-> b.byte_pos + k,
     bit_cache     |->
        Or(b.bit_cache,
           [i \in 0 .. CacheBits - 1 |->
               IF n <= i /\ i < n + 8 * k
               THEN b.buffer[b.byte_pos + 1 + ((i - n) \div 8)][(i - n) % 8]
               ELSE 0]),
     bits_in_cache |-> n + 8 * k]

---------------------------------------------------------------------------
\* The two ways of consuming n loaded bits, and the values they yield.

Drop(b, n) == [b EXCEPT !.bits_in_cache = @ - n]

DropLsb(b, n) ==
    [buffer |-> b.buffer, byte_pos |-> b.byte_pos,
     bit_cache |-> Shr(b.bit_cache, n), bits_in_cache |-> b.bits_in_cache - n]

\* A cache with nothing in it, the next byte to fetch being that at pos.
Empty(b, pos) ==
    [buffer |-> b.buffer, byte_pos |-> pos,
     bit_cache |-> Zero(CacheBits), bits_in_cache |-> 0]

Top(b, n) == Cast(Low(Shr(b.bit_cache, b.bits_in_cache - n), n), MaxBits)

Bottom(b, n) == Cast(Low(b.bit_cache, n), MaxBits)

---------------------------------------------------------------------------
\* MSB-first family.

\* Slip: a read that takes what is loaded already for all there is.
bs_read_bits_no_refill(b, n) ==
    IF n = 0 \/ b.bits_in_cache < n THEN Result(b, Nothing)
    ELSE Result(Drop(b, n), Value(Top(b, n)))

bs_read_bits(b, n) ==
    LET r == refill(b) IN
    IF n = 0 THEN Result(b, Nothing)
    ELSE IF r.bits_in_cache < n THEN Result(r, Nothing)
    ELSE Result(Drop(r, n), Value(Top(r, n)))

bs_read_bit(b) == bs_read_bits(b, 1)

\* Slip: a peek that looks at what is loaded already.
bs_peek_bits_no_refill(b, n) ==
    IF n = 0 \/ b.bits_in_cache < n THEN Result(b, Nothing)
    ELSE Result(b, Value(Top(b, n)))

bs_peek_bits(b, n) ==
    LET r == refill(b) IN
    IF n = 0 THEN Result(b, Nothing)
    ELSE IF r.bits_in_cache < n THEN Result(r, Nothing)
    ELSE Result(r, Value(Top(r, n)))

\* The clip empties the valid bits and leaves the cache word alone.
bs_skip_bits(b, n) ==
    LET r == refill(b) IN
    IF n = 0 THEN Result(b, Nothing)
    ELSE Result(Drop(r, MinOf(n, r.bits_in_cache)), Nothing)

bs_read_bits_unchecked(b, n) ==
    LET r == refill(b) IN Result(Drop(r, n), Value(Top(r, n)))

bs_peek_bits_unchecked(b, n) ==
    LET r == refill(b) IN Result(r, Value(Top(r, n)))

\* Does not refill: the caller answers for the n bits being loaded.
bs_skip_bits_unchecked(b, n) == Result(Drop(b, n), Nothing)

bs_reader_align(b) == Result(Drop(b, b.bits_in_cache % 8), Nothing)

---------------------------------------------------------------------------
\* LSB-first family.

bs_read_bits_lsb(b, n) ==
    LET r == refill_lsb(b) IN
    IF n = 0 THEN Result(b, Nothing)
    ELSE IF r.bits_in_cache < n THEN Result(r, Nothing)
    ELSE Result(DropLsb(r, n), Value(Bottom(r, n)))

bs_peek_bits_lsb(b, n) ==
    LET r == refill_lsb(b) IN
    IF n = 0 THEN Result(b, Nothing)
    ELSE IF r.bits_in_cache < n THEN Result(r, Nothing)
    ELSE Result(r, Value(Bottom(r, n)))

\* Slip: the clip of the MSB family, which leaves the cache word alone.
bs_skip_bits_lsb_keeps_cache(b, n) ==
    LET r == refill_lsb(b) IN
    IF n = 0 THEN Result(b, Nothing)
    ELSE IF r.bits_in_cache < n
    THEN Result(Drop(r, r.bits_in_cache), Nothing)
    ELSE Result(DropLsb(r, n), Nothing)

\* The clip must clear the cache: the next refill ORs into it.
bs_skip_bits_lsb(b, n) ==
    LET r == refill_lsb(b) IN
    IF n = 0 THEN Result(b, Nothing)
    ELSE IF r.bits_in_cache < n
    THEN Result(Empty(r, r.byte_pos), Nothing)
    ELSE Result(DropLsb(r, n), Nothing)

bs_read_bits_lsb_unchecked(b, n) ==
    LET r == refill_lsb(b) IN Result(DropLsb(r, n), Value(Bottom(r, n)))

bs_peek_bits_lsb_unchecked(b, n) ==
    LET r == refill_lsb(b) IN Result(r, Value(Bottom(r, n)))

bs_skip_bits_lsb_unchecked(b, n) == Result(DropLsb(b, n), Nothing)

bs_reader_align_lsb(b) == Result(DropLsb(b, b.bits_in_cache % 8), Nothing)

---------------------------------------------------------------------------
(***************************************************************************)
(* Bulk copy, shared by both families.  Prefetched whole bytes are given   *)
(* back first, so a request that turns out too long has already emptied    *)
(* the cache when it fails.                                                *)
(***************************************************************************)
\* Slip: the prefetched bytes are dropped, not given back.
rewind_forgets(b) == Empty(b, b.byte_pos)

rewind(b) == Empty(b, b.byte_pos - (b.bits_in_cache \div 8))

bs_read_bytes(b, n) ==
    LET r == rewind(b) IN
    IF b.bits_in_cache % 8 # 0 THEN Result(b, Copied(FALSE, << >>))
    ELSE IF n > Len(r.buffer) - r.byte_pos
    THEN Result(r, Copied(FALSE, << >>))
    ELSE Result(Empty(r, r.byte_pos + n),
                Copied(TRUE, SubSeq(r.buffer, r.byte_pos + 1, r.byte_pos + n)))

---------------------------------------------------------------------------
\* Stream position of the next unread bit.
Position(b) == 8 * b.byte_pos - b.bits_in_cache

\* The valid part of the cache is the buffer: bit for bit, it holds the
\* bits_in_cache stream bits that end where the next byte to fetch starts.
CacheMirrorsMsb(b) ==
    \A i \in 0 .. b.bits_in_cache - 1 :
        b.bit_cache[i] = StreamBit(b.buffer, "msb", 8 * b.byte_pos - 1 - i)

CacheMirrorsLsb(b) ==
    /\ \A i \in 0 .. b.bits_in_cache - 1 :
        b.bit_cache[i] = StreamBit(b.buffer, "lsb", Position(b) + i)
    /\ Clean(b.bit_cache, b.bits_in_cache)
===========================================================================
