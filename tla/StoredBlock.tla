---------------------------- MODULE StoredBlock ----------------------------
(***************************************************************************)
(* examples/deflate_block.c: a literal is encoded as a stored block (three *)
(* header bits, padding, LEN and NLEN, the bytes) and decoded again.  The  *)
(* program is where bits and bulk copies meet: the decoder has prefetched  *)
(* into the literal by the time it copies it.                              *)
(*                                                                         *)
(* Its checks are assertions.  In a "debug" build one that fails ends the  *)
(* program; in a "release" build (NDEBUG) it goes on, and the decoder gets *)
(* a block cut off where the memory ended.                                 *)
(***************************************************************************)
EXTENDS BitReader, BitWriter

CONSTANTS
    Literals,   \* the literals encoded, sequences of bytes
    Capacities  \* the sizes of the memory encoded into, in bytes

VARIABLES
    build,    \* "debug" or "release"
    literal, final,  \* what is encoded; final is a bit
    bw, br,   \* the writer, and the reader on the bytes it wrote
    block,    \* what is decoded: is_final, len and data
    pc        \* the part to be encoded or decoded next, or how the program
              \* ended: "done" or "aborted"

vars == << build, literal, final, bw, br, block, pc >>

\* A length is put together from two bytes in a value, and the decoder has
\* room for 256 bytes.
ASSUME BlockAssumption ==
    /\ MaxBits >= 16
    /\ Literals \subseteq Seq(Byte)
    /\ \A bytes \in Literals : Len(bytes) <= 256
    /\ Capacities \subseteq Nat

Memory(n) == [k \in 1 .. n |-> Zero(8)]

\* What the bits of a uint16_t count.
Weight == << 1, 2, 4, 8, 16, 32, 64, 128, 256, 512, 1024, 2048, 4096, 8192,
             16384, 32768 >>

\* A uint16_t: the number of bytes of a literal, and its complement.
LenWord(bytes) == [i \in 0 .. 15 |-> (Len(bytes) \div Weight[i + 1]) % 2]
Complement(x)  == [i \in DOMAIN x |-> 1 - x[i]]

\* Its value, by four bits at a time.
Nibble(x, i) == x[i] + 2 * x[i + 1] + 4 * x[i + 2] + 8 * x[i + 3]
Number(x) ==
    Nibble(x, 0) + 16 * Nibble(x, 4) + 256 * Nibble(x, 8) + 4096 * Nibble(x, 12)

Init ==
    /\ build \in {"debug", "release"}
    /\ literal \in Literals
    /\ final \in Bit
    /\ \E n \in Capacities : bw = bs_writer_init(Memory(n))
    /\ br = bs_reader_init(<< >>)
    /\ block = [is_final |-> 0, len |-> Zero(16), data |-> << >>]
    /\ pc = "put_header"

\* assert(condition), and on to the next part.
AssertThen(condition, next) ==
    pc' = IF build = "debug" /\ ~ condition THEN "aborted" ELSE next

---------------------------------------------------------------------------
\* Encoder.  At most 40 bits are enqueued without room, so that all shifts
\* are defined.

PutBits(b, x, n) == bs_write_bits_lsb(b, Cast(x, MaxBits), n, "masked")

PutHeader ==
    /\ pc = "put_header"
    /\ bw' = PutBits(PutBits(bw, [i \in {0} |-> final], 1), Zero(8), 2)
    /\ pc' = "put_padding"
    /\ UNCHANGED << build, literal, final, br, block >>

PutPadding ==
    /\ pc = "put_padding"
    /\ bw' = bs_writer_align_lsb(bw, "masked")
    /\ pc' = "put_lengths"
    /\ UNCHANGED << build, literal, final, br, block >>

\* Slip: the words are sent high byte first.
PutWord_high_first(b, x) == PutBits(PutBits(b, Shr(x, 8), 8), Low(x, 8), 8)

\* Both words are sent low byte first.
PutWord(b, x) == PutBits(PutBits(b, Low(x, 8), 8), Shr(x, 8), 8)

PutLengths ==
    /\ pc = "put_lengths"
    /\ bw' = PutWord(PutWord(bw, LenWord(literal)),
                     Complement(LenWord(literal)))
    /\ pc' = "put_literal"
    /\ UNCHANGED << build, literal, final, br, block >>

PutLiteral ==
    /\ pc = "put_literal"
    /\ bw' = bs_write_bytes(bw, literal)
    /\ AssertThen(can_write_bytes(bw, literal) /\ ~ bw'.overflow,
                  "get_header")
    /\ br' = bs_reader_init(
                SubSeq(bw'.buffer, 1, bs_writer_bytes_written(bw')))
    /\ UNCHANGED << build, literal, final, block >>

---------------------------------------------------------------------------
\* Decoder.

GetBits(b, n) == bs_read_bits_lsb(b, n)

\* Slip: the two fields of the header are read in the wrong order.
GetHeader_type_first ==
    LET btype  == GetBits(br, 2)
        bfinal == GetBits(btype.bs, 1)
    IN
    /\ pc = "get_header"
    /\ br' = bfinal.bs
    /\ block' = [block EXCEPT !.is_final = bfinal.ret.value[0]]
    /\ AssertThen(btype.ret.value = Zero(MaxBits), "get_padding")
    /\ UNCHANGED << build, literal, final, bw >>

GetHeader ==
    LET bfinal == GetBits(br, 1)
        btype  == GetBits(bfinal.bs, 2)
    IN
    /\ pc = "get_header"
    /\ br' = btype.bs
    /\ block' = [block EXCEPT !.is_final = bfinal.ret.value[0]]
    /\ AssertThen(btype.ret.value = Zero(MaxBits), "get_padding")
    /\ UNCHANGED << build, literal, final, bw >>

GetPadding ==
    /\ pc = "get_padding"
    /\ br' = bs_reader_align_lsb(br).bs
    /\ pc' = "get_lengths"
    /\ UNCHANGED << build, literal, final, bw, block >>

\* (uint16_t) (lo | (hi << 8)), read low byte first.
GetWord(b) ==
    LET lo == GetBits(b, 8)
        hi == GetBits(lo.bs, 8)
    IN  [bs |-> hi.bs, word |-> Cast(Or(lo.ret.value, Shl(hi.ret.value, 8)), 16)]

GetLengths ==
    LET len  == GetWord(br)
        nlen == GetWord(len.bs)
    IN
    /\ pc = "get_lengths"
    /\ br' = nlen.bs
    /\ block' = [block EXCEPT !.len = len.word]
    /\ AssertThen(nlen.word = Complement(len.word), "get_literal")
    /\ UNCHANGED << build, literal, final, bw >>

GetLiteral ==
    LET copy == bs_read_bytes(br, Number(block.len)) IN
    /\ pc = "get_literal"
    /\ br' = copy.bs
    /\ block' = [block EXCEPT !.data = copy.ret.bytes]
    /\ AssertThen(copy.ret.ok, "verify")
    /\ UNCHANGED << build, literal, final, bw >>

\* main compares the block with what was encoded.
Verify ==
    /\ pc = "verify"
    /\ AssertThen(block = [is_final |-> final, len |-> LenWord(literal),
                           data |-> literal], "done")
    /\ UNCHANGED << build, literal, final, bw, br, block >>

Next ==
    \/ PutHeader \/ PutPadding \/ PutLengths \/ PutLiteral
    \/ GetHeader \/ GetPadding \/ GetLengths \/ GetLiteral \/ Verify

Spec == Init /\ [][Next]_vars

---------------------------------------------------------------------------
\* Types, with the bounds on both positions.
TypeOK ==
    /\ bw \in Writers
    /\ bw.byte_pos <= Len(bw.buffer)
    /\ br \in Readers
    /\ br.byte_pos <= Len(br.buffer)
    /\ block \in [is_final : Bit, len : Word(16), data : Seq(Byte)]

\* The header takes a byte, the lengths take four.
BlockFits == 5 + Len(literal) <= Len(bw.buffer)

\* A block that fitted is decoded as it was encoded, in either build, though
\* the decoder had prefetched part of the literal, or all of it, when it
\* copied it from memory.
RoundTrip ==
    pc = "done" /\ BlockFits =>
        block = [is_final |-> final, len |-> LenWord(literal),
                 data |-> literal]

\* The assertions fail exactly when the memory is too small: the encoder's
\* then stop the program, and the decoder's never do.
AbortsWhenTooSmall ==
    /\ pc = "aborted" => ~ BlockFits
    /\ build = "debug" /\ pc \notin {"put_header", "put_padding",
                                     "put_lengths", "put_literal", "aborted"}
       => BlockFits

\* A decoded literal is the whole literal or nothing of it: also without
\* assertions and with a block cut off anywhere, its lengths included, no
\* other bytes are taken for it.  The decoder checks no bound before it copies
\* into its 256 bytes of data: they suffice for the literals assumed.
AllOrNothing == block.data \in {<< >>, literal}
===========================================================================
