------------------------------- MODULE Loops -------------------------------
(***************************************************************************)
(* The four internal loops of bitstream.h, one iteration a step, against   *)
(* the closed forms that modules BitReader and BitWriter give for them.    *)
(***************************************************************************)
EXTENDS BitVectors

CONSTANTS
    CacheBits, MaxBits, CountMod,  \* as in BitReader and BitWriter
    ReaderStarts,  \* the readers a refill loop may be entered with
    WriterStarts   \* the writers a dump loop may be entered with

R == INSTANCE BitReader
W == INSTANCE BitWriter

ASSUME WidthAssumption ==
    /\ CacheBits \in Nat
    /\ CacheBits % 8 = 0
    /\ MaxBits \in Nat
    /\ MaxBits >= 8
    /\ MaxBits + 7 <= CacheBits
    /\ CountMod \in Nat
    /\ CountMod > CacheBits

\* What holds between two calls: no position past the end of the memory, and
\* no more bits enqueued than the cache holds while the memory has room.
ASSUME StartsAssumption ==
    /\ ReaderStarts \subseteq R!Readers
    /\ WriterStarts \subseteq W!Writers
    /\ \A b \in ReaderStarts : b.byte_pos <= Len(b.buffer)
    /\ \A b \in WriterStarts :
        /\ b.byte_pos <= Len(b.buffer)
        /\ b.byte_pos < Len(b.buffer) => b.bits_in_cache <= CacheBits

VARIABLES
    start,  \* the reader or writer the loop was entered with
    bs,     \* what it is now
    loop,   \* which of the loops is running
    pc      \* "loop", or "done" once the function has returned

vars == << start, bs, loop, pc >>

RefillLoops == {"refill", "refill_lsb"}
DumpLoops   == {"dump", "dump_lsb"}

Init ==
    /\ \/ start \in ReaderStarts /\ loop \in RefillLoops
       \/ start \in WriterStarts /\ loop \in DumpLoops
    /\ bs = start
    /\ pc = "loop"

---------------------------------------------------------------------------
\* Refill.

\* Slip: a cache with exactly one byte free counts as full.
has_more_than_room(b) == b.bits_in_cache < CacheBits - 8

has_room(b) == b.bits_in_cache <= CacheBits - 8

next_byte(b) == b.buffer[b.byte_pos + 1]

\* Slip: the cache is not shifted up.
load_in_place(b) ==
    [b EXCEPT !.bit_cache = Or(@, next_byte(b)),
              !.bits_in_cache = @ + 8,
              !.byte_pos = @ + 1]

\* bit_cache = (bit_cache << 8) | next_byte
load(b) ==
    [b EXCEPT !.bit_cache = Or(Shl(@, 8), next_byte(b)),
              !.bits_in_cache = @ + 8,
              !.byte_pos = @ + 1]

\* bit_cache |= (uint64_t) next_byte << bits_in_cache
load_lsb(b) ==
    [b EXCEPT !.bit_cache =
                  Or(@, Shl(Cast(next_byte(b), CacheBits), b.bits_in_cache)),
              !.bits_in_cache = @ + 8,
              !.byte_pos = @ + 1]

LoadByte ==
    /\ pc = "loop"
    /\ loop \in RefillLoops
    /\ has_room(bs)
    /\ bs.byte_pos < Len(bs.buffer)
    /\ bs' = IF loop = "refill" THEN load(bs) ELSE load_lsb(bs)
    /\ UNCHANGED << start, loop, pc >>

\* Slip: the loop without its break.
LeaveRefill_when_full ==
    /\ pc = "loop"
    /\ loop \in RefillLoops
    /\ ~ has_room(bs)
    /\ pc' = "done"
    /\ UNCHANGED << start, bs, loop >>

\* The loop condition fails, or the break at the end of the buffer.
LeaveRefill ==
    /\ pc = "loop"
    /\ loop \in RefillLoops
    /\ ~ has_room(bs) \/ bs.byte_pos >= Len(bs.buffer)
    /\ pc' = "done"
    /\ UNCHANGED << start, bs, loop >>

---------------------------------------------------------------------------
\* Dump.

\* buffer[byte_pos++] = byte; bits_in_cache -= 8
put(b, byte) ==
    [b EXCEPT !.buffer = [@ EXCEPT ![b.byte_pos + 1] = byte],
              !.byte_pos = @ + 1,
              !.bits_in_cache = @ - 8]

\* Slip: the newest byte leaves first.
newest_byte(b) == Cast(Low(b.bit_cache, 8), 8)

\* (uint8_t) ((bit_cache >> (bits_in_cache - 8)) & 0xFF)
top_byte(b) == Cast(Low(Shr(b.bit_cache, b.bits_in_cache - 8), 8), 8)

\* (uint8_t) (bit_cache & 0xFF), and bit_cache >>= 8
bottom_byte(b) == Cast(Low(b.bit_cache, 8), 8)

StoreByte ==
    /\ pc = "loop"
    /\ loop \in DumpLoops
    /\ bs.bits_in_cache >= 8
    /\ bs.byte_pos < Len(bs.buffer)
    /\ bs' = IF loop = "dump" THEN put(bs, top_byte(bs))
             ELSE [put(bs, bottom_byte(bs)) EXCEPT !.bit_cache = Shr(@, 8)]
    /\ UNCHANGED << start, loop, pc >>

\* The dumped bits are masked out of an MSB cache after the loop.
Masked(b, ub) ==
    IF loop = "dump"
    THEN Low(b.bit_cache, W!Shift(b.bits_in_cache, ub)) ELSE b.bit_cache

\* Slip: the break does not report the overflow.
LeaveDump_silently(ub) ==
    /\ pc = "loop"
    /\ loop \in DumpLoops
    /\ bs.bits_in_cache < 8 \/ bs.byte_pos >= Len(bs.buffer)
    /\ bs' = [bs EXCEPT !.bit_cache = Masked(bs, ub)]
    /\ pc' = "done"
    /\ UNCHANGED << start, loop >>

\* The loop is left, with overflow set when it is left at a full memory.
LeaveDump(ub) ==
    /\ pc = "loop"
    /\ loop \in DumpLoops
    /\ bs.bits_in_cache < 8 \/ bs.byte_pos >= Len(bs.buffer)
    /\ bs' = [bs EXCEPT !.overflow = @ \/ bs.bits_in_cache >= 8,
                        !.bit_cache = Masked(bs, ub)]
    /\ pc' = "done"
    /\ UNCHANGED << start, loop >>

---------------------------------------------------------------------------
Next ==
    \/ LoadByte \/ LeaveRefill
    \/ StoreByte \/ \E ub \in W!Builds : LeaveDump(ub)

\* A loop runs to its end: nothing in it waits.
Spec == Init /\ [][Next]_vars /\ WF_vars(Next)

\* At every iteration the rest of a refill loop is the whole of it from
\* here: the closed form, which module BitReader uses for the loop, is the
\* same for the reader now as for the reader at the start.
LoopIsRefill ==
    /\ loop = "refill"     => R!refill(bs) = R!refill(start)
    /\ loop = "refill_lsb" => R!refill_lsb(bs) = R!refill_lsb(start)

\* The same of a dump loop and the closed forms of module BitWriter, until
\* the function has reported and masked.
LoopIsDump ==
    pc = "loop" =>
        /\ loop = "dump" =>
            \A ub \in W!Builds : W!dump(bs, ub) = W!dump(start, ub)
        /\ loop = "dump_lsb" => W!dump_lsb(bs) = W!dump_lsb(start)

\* A refill loop that has been left has computed its closed form.
LeavesRefilled ==
    pc = "done" =>
        /\ loop = "refill"     => bs = R!refill(start)
        /\ loop = "refill_lsb" => bs = R!refill_lsb(start)

\* A dump function that has returned has computed the closed form of its
\* loop, its overflow report included.
LeavesDumped ==
    pc = "done" =>
        /\ loop = "dump"     => \E ub \in W!Builds : bs = W!dump(start, ub)
        /\ loop = "dump_lsb" => bs = W!dump_lsb(start)

\* Every loop is left.
Terminates == <>(pc = "done")
=============================================================================
