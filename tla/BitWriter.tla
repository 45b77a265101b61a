----------------------------- MODULE BitWriter -----------------------------
(***************************************************************************)
(* The writer half of bitstream.h as operators on a bs_writer_t value.     *)
(* Every API function takes the writer and returns the writer it leaves.   *)
(*                                                                         *)
(* A bs_writer_t is a record                                               *)
(*   buffer        the destination memory, a sequence of bytes (size is    *)
(*                 its length),                                            *)
(*   byte_pos      index of the next byte to write,                        *)
(*   bit_cache     the accumulator, a word of CacheBits bits,              *)
(*   bits_in_cache the bits enqueued in it, an unsigned int,               *)
(*   overflow      whether some write has not fitted.                      *)
(*                                                                         *)
(* A writer that goes on after it has filled its buffer keeps counting     *)
(* bits it cannot dump, past the width of the cache and in the end past    *)
(* the range of an unsigned int.  The shifts by bits_in_cache are then     *)
(* undefined; ub names what a build makes of such a shift: "masked" takes  *)
(* the count modulo the width (the shift instruction of most machines),    *)
(* "saturating" shifts everything out (a compiler that folds the shift,    *)
(* or a machine that does not mask).                                       *)
(***************************************************************************)
EXTENDS Words

CONSTANT CountMod  \* bits_in_cache counts modulo this: 2^32 in the code

ASSUME CountAssumption ==
    /\ MaxBits >= 8         \* a flush writes up to 8 bits of padding
    /\ CountMod \in Nat
    /\ CountMod % 8 = 0
    /\ CountMod > CacheBits  \* a full cache does not wrap the count

Builds == {"masked", "saturating"}

Writers ==
    [buffer : Seq(Byte), byte_pos : Nat, bit_cache : Word(CacheBits),
     bits_in_cache : 0 .. CountMod - 1, overflow : BOOLEAN]

bs_writer_init(data) ==
    [buffer |-> data, byte_pos |-> 0, bit_cache |-> Zero(CacheBits),
     bits_in_cache |-> 0, overflow |-> FALSE]

bs_writer_bytes_written(b) == b.byte_pos

\* The count a shift by n uses in this build.
Shift(n, ub) ==
    IF n < CacheBits THEN n
    ELSE IF ub = "masked" THEN n % CacheBits ELSE CacheBits

---------------------------------------------------------------------------
(***************************************************************************)
(* Dump: the loops of the code move one whole byte per iteration while one *)
(* is enqueued and the buffer has room, and set overflow when it has none. *)
(* The number of iterations and the result are given in closed form.       *)
(***************************************************************************)
\* Slip: the loop without its break at the end of the memory.
bytes_to_dump_unbounded(b) == b.bits_in_cache \div 8

bytes_to_dump(b) ==
    MinOf(b.bits_in_cache \div 8, Len(b.buffer) - b.byte_pos)

\* The k-th byte (from 1) a dump moves out: the oldest bits come first,
\* at the top of the enqueued bits in MSB order and at the bottom in LSB.
\* Slip: the newest bits of the MSB family leave first.
dumped_byte_from_bottom(b, k) ==
    [m \in 0 .. 7 |-> b.bit_cache[8 * (k - 1) + m]]

dumped_byte(b, k) ==
    [m \in 0 .. 7 |-> b.bit_cache[b.bits_in_cache - 8 * k + m]]

dumped_byte_lsb(b, k) ==
    [m \in 0 .. 7 |-> b.bit_cache[8 * (k - 1) + m]]

\* Slip: the store starts at the last byte written.
Store_one_early(b, count, src) ==
    [j \in 1 .. Len(b.buffer) |->
        IF b.byte_pos <= j /\ j < b.byte_pos + count
        THEN src[j - b.byte_pos + 1] ELSE b.buffer[j]]

\* The memory after count bytes of src are stored at the write position.
Store(b, count, src) ==
    [j \in 1 .. Len(b.buffer) |->
        IF b.byte_pos < j /\ j <= b.byte_pos + count
        THEN src[j - b.byte_pos] ELSE b.buffer[j]]

\* bit_cache &= (1 << rest) - 1: what has been dumped is masked out.  Slip:
\* it is left in.
unmasked(cache, rest, ub) == cache

masked(cache, rest, ub) == Low(cache, Shift(rest, ub))

\* The loop is left with a whole byte enqueued only by its break.
overruns(b, rest) == b.overflow \/ rest >= 8

dump(b, ub) ==
    LET k    == bytes_to_dump(b)
        rest == b.bits_in_cache - 8 * k
    IN
    [buffer        |-> Store(b, k, [i \in 1 .. k |-> dumped_byte(b, i)]),
     byte_pos      |-> b.byte_pos + k,
     bit_cache     |-> masked(b.bit_cache, rest, ub),
     bits_in_cache |-> rest,
     overflow      |-> overruns(b, rest)]

dump_lsb(b) ==
    LET k    == bytes_to_dump(b)
        rest == b.bits_in_cache - 8 * k
    IN
    [buffer        |-> Store(b, k, [i \in 1 .. k |-> dumped_byte_lsb(b, i)]),
     byte_pos      |-> b.byte_pos + k,
     bit_cache     |-> Shr(b.bit_cache, 8 * k),
     bits_in_cache |-> rest,
     overflow      |-> overruns(b, rest)]

---------------------------------------------------------------------------
\* Enqueuing n bits: the tail the write functions of a family share.

enqueue(b, value, n, ub) ==
    LET q == [b EXCEPT !.bit_cache = Or(Shl(@, n), value),
                       !.bits_in_cache = (@ + n) % CountMod]
    IN  IF q.bits_in_cache >= 8 THEN dump(q, ub) ELSE q

enqueue_lsb(b, value, n, ub) ==
    LET q == [b EXCEPT !.bit_cache = Or(@, Shl(Cast(value, CacheBits),
                                               Shift(b.bits_in_cache, ub))),
                       !.bits_in_cache = (@ + n) % CountMod]
    IN  IF q.bits_in_cache >= 8 THEN dump_lsb(q) ELSE q

---------------------------------------------------------------------------
\* MSB-first family.

\* Slip: the value is not masked to n bits.
bs_write_bits_no_mask(b, value, n, ub) ==
    IF n = 0 THEN b ELSE enqueue(b, value, n, ub)

\* Slip: nothing is written once overflow has been reported, though it may
\* have been a bulk copy that did not fit, and there still is room.
bs_write_bits_stops(b, value, n, ub) ==
    IF n = 0 \/ b.overflow THEN b ELSE enqueue(b, Low(value, n), n, ub)

bs_write_bits(b, value, n, ub) ==
    IF n = 0 THEN b ELSE enqueue(b, Low(value, n), n, ub)

bs_write_bit(b, value, ub) == enqueue(b, Low(value, 1), 1, ub)

\* No mask: the caller answers for value having no bit above n.
bs_write_bits_unchecked(b, value, n, ub) == enqueue(b, value, n, ub)

\* Slip: pads by the residue, not up to the boundary.
bs_writer_align_by_residue(b, ub) ==
    bs_write_bits(b, Zero(MaxBits), b.bits_in_cache % 8, ub)

bs_writer_align(b, ub) ==
    LET res == b.bits_in_cache % 8 IN
    IF res = 0 THEN b ELSE bs_write_bits(b, Zero(MaxBits), 8 - res, ub)

\* Slip: a flush with nothing to do takes the writer for a fresh one.
bs_writer_flush_resets(b, ub) ==
    IF b.bits_in_cache = 0 THEN [b EXCEPT !.overflow = FALSE]
    ELSE bs_write_bits(b, Zero(MaxBits), 8 - (b.bits_in_cache % 8), ub)

\* Slip: a flush with nothing to do writes a byte of padding.
bs_writer_flush_always_pads(b, ub) ==
    LET d == IF b.overflow \/ b.bits_in_cache >= 8 THEN dump(b, ub) ELSE b
    IN
    IF d.bits_in_cache >= 8 THEN [d EXCEPT !.overflow = TRUE]
    ELSE bs_write_bits(d, Zero(MaxBits), 8 - d.bits_in_cache, ub)

\* After an overflow, or with a whole byte still enqueued, one more dump is
\* tried first; whatever still does not fit is reported and left enqueued.
bs_writer_flush(b, ub) ==
    LET d == IF b.overflow \/ b.bits_in_cache >= 8 THEN dump(b, ub) ELSE b
    IN
    IF b.bits_in_cache = 0 THEN b
    ELSE IF d.bits_in_cache = 0 THEN d
    ELSE IF d.bits_in_cache >= 8 THEN [d EXCEPT !.overflow = TRUE]
    ELSE bs_write_bits(d, Zero(MaxBits), 8 - d.bits_in_cache, ub)

---------------------------------------------------------------------------
\* LSB-first family.

bs_write_bits_lsb(b, value, n, ub) ==
    IF n = 0 THEN b ELSE enqueue_lsb(b, Low(value, n), n, ub)

bs_write_bits_lsb_unchecked(b, value, n, ub) == enqueue_lsb(b, value, n, ub)

bs_writer_align_lsb(b, ub) ==
    LET res == b.bits_in_cache % 8 IN
    IF res = 0 THEN b ELSE bs_write_bits_lsb(b, Zero(MaxBits), 8 - res, ub)

bs_writer_flush_lsb(b, ub) ==
    LET d == IF b.overflow \/ b.bits_in_cache >= 8 THEN dump_lsb(b) ELSE b
    IN
    IF b.bits_in_cache = 0 THEN b
    ELSE IF d.bits_in_cache = 0 THEN d
    ELSE IF d.bits_in_cache >= 8 THEN [d EXCEPT !.overflow = TRUE]
    ELSE bs_write_bits_lsb(d, Zero(MaxBits), 8 - d.bits_in_cache, ub)

---------------------------------------------------------------------------
\* Bulk copy, shared by both families: all of the bytes or none of them.
\* The writer is left as it was when it is not aligned or has overflowed;
\* bytes that do not fit set overflow.

\* Slip: an earlier overflow is not looked at.
can_write_bytes_ignoring_overflow(b, bytes) ==
    /\ b.bits_in_cache = 0
    /\ Len(bytes) <= Len(b.buffer) - b.byte_pos

can_write_bytes(b, bytes) ==
    /\ b.bits_in_cache = 0
    /\ ~ b.overflow
    /\ Len(bytes) <= Len(b.buffer) - b.byte_pos

bs_write_bytes(b, bytes) ==
    IF can_write_bytes(b, bytes)
    THEN [b EXCEPT !.buffer = Store(b, Len(bytes), bytes),
                   !.byte_pos = @ + Len(bytes)]
    ELSE IF b.bits_in_cache = 0
    THEN [b EXCEPT !.overflow = TRUE]
    ELSE b
===========================================================================
