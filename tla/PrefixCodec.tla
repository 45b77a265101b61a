---------------------------- MODULE PrefixCodec ----------------------------
(***************************************************************************)
(* The four prefix-code programs of examples/: a message is encoded with   *)
(* the writer, the bytes written become the memory of a reader, and the    *)
(* reader decodes symbols until the sentinel.  They share the code table   *)
(* and differ in the order of packing and in how the decoding loop peeks,  *)
(* skips and stops:                                                        *)
(*   "huffman"  huffman_decode.c, checked calls, stops at end of stream    *)
(*   "safe"     fast_decode.c, huffman_decode_safe                         *)
(*   "fast"     fast_decode.c, huffman_decode_fast, unchecked calls        *)
(*   "lsb"      deflate_codes.c, LSB-first, peeks no more than is left     *)
(* Symbol s < Sentinel is coded as s - 1 ones and a zero, the sentinel as  *)
(* MaxCodeLen ones, the first entries of the table being the short codes.  *)
(***************************************************************************)
EXTENDS BitReader, BitWriter, FiniteSets

CONSTANTS
    Messages,  \* the messages encoded, sequences of symbols below Sentinel
    WireSizes, \* the sizes of the memory encoded into, in bytes
    OutSizes   \* the symbols the decoder has room for

VARIABLES
    codec, message,
    bw,     \* the writer, on the wire memory
    sent,   \* the symbols encoded so far
    br,     \* the reader, on the bytes the encoder wrote
    room,   \* the symbols that still fit the output
    out,    \* the symbols decoded so far
    pc      \* "encode", "flush", "decode", "verify"; or how the program has
            \* ended: "verified", "mismatch", "refused" (the encoder asserts
            \* that its codes fitted, and they did not), "aborted" (the
            \* decoder's assertion failed)

vars == << codec, message, bw, sent, br, room, out, pc >>

Codecs     == {"huffman", "safe", "fast", "lsb"}
MaxCodeLen == 6
Sentinel   == 7
Symbols    == 1 .. Sentinel
Text       == Symbols \ {Sentinel}

ASSUME CodecAssumption ==
    /\ MaxBits >= MaxCodeLen
    /\ Messages \subseteq Seq(Text)
    /\ WireSizes \subseteq Nat
    /\ OutSizes \subseteq Nat

CodeLen(s) == MinOf(s, MaxCodeLen)

\* Bit j (from 0) of a code as it is sent.
CodeBit(s, j) == IF j < s - 1 THEN 1 ELSE 0

\* The code table: the code as the value written, in the codec's order.
PackingOf(c) == IF c = "lsb" THEN "lsb" ELSE "msb"

Code(s) ==
    [i \in 0 .. MaxBits - 1 |->
        IF i < CodeLen(s)
        THEN CodeBit(s, FieldOffset(PackingOf(codec), CodeLen(s), i))
        ELSE 0]

\* A wire memory of n bytes, cleared.
Wire(n) == [k \in 1 .. n |-> Zero(8)]

Init ==
    /\ codec \in Codecs
    /\ message \in Messages
    /\ \E n \in WireSizes : bw = bs_writer_init(Wire(n))
    /\ sent = 0
    /\ br = bs_reader_init(<< >>)
    /\ room \in OutSizes
    /\ out = << >>
    /\ pc = "encode"

---------------------------------------------------------------------------
\* Encoding.  A wire memory that is too small leaves the writer counting
\* bits that never reach it, so what the build makes of a wide shift does
\* not matter here.

WriteCode(s) ==
    IF codec = "lsb" THEN bs_write_bits_lsb(bw, Code(s), CodeLen(s), "masked")
                     ELSE bs_write_bits(bw, Code(s), CodeLen(s), "masked")

EncodeSymbol ==
    /\ pc = "encode"
    /\ sent < Len(message)
    /\ bw' = WriteCode(message[sent + 1])
    /\ sent' = sent + 1
    /\ UNCHANGED << codec, message, br, room, out, pc >>

\* Slip: the message goes out without its end.
EncodeSentinel_forgotten ==
    /\ pc = "encode"
    /\ sent = Len(message)
    /\ pc' = "flush"
    /\ UNCHANGED << codec, message, bw, sent, br, room, out >>

EncodeSentinel ==
    /\ pc = "encode"
    /\ sent = Len(message)
    /\ bw' = WriteCode(Sentinel)
    /\ pc' = "flush"
    /\ UNCHANGED << codec, message, sent, br, room, out >>

\* Slip: no flush, so the bits of the last byte stay behind.
FlushAndOpen_unflushed ==
    /\ pc = "flush"
    /\ pc' = "decode"
    /\ br' = bs_reader_init(
                SubSeq(bw.buffer, 1, bs_writer_bytes_written(bw)))
    /\ UNCHANGED << codec, message, bw, sent, room, out >>

\* fast_decode.c asserts that there was no overflow, deflate_codes.c then
\* says that it wrote no byte, and huffman_decode.c does not look.
FlushAndOpen ==
    /\ pc = "flush"
    /\ bw' = IF codec = "lsb" THEN bs_writer_flush_lsb(bw, "masked")
                              ELSE bs_writer_flush(bw, "masked")
    /\ pc' = IF bw'.overflow /\ codec \in {"safe", "fast"}
             THEN "refused" ELSE "decode"
    /\ br' = bs_reader_init(
                IF bw'.overflow /\ codec = "lsb" THEN << >>
                ELSE SubSeq(bw'.buffer, 1, bs_writer_bytes_written(bw')))
    /\ UNCHANGED << codec, message, sent, room, out >>

---------------------------------------------------------------------------
\* Decoding, one iteration of the loop a step.

\* huff_match: the entries whose code the window starts with.
MatchTop(window) ==
    {s \in Symbols : Shr(window, MaxCodeLen - CodeLen(s)) = Code(s)}

\* The entries no longer than the window that its low bits agree with.
MatchBottom(window, width) ==
    {s \in Symbols : CodeLen(s) <= width /\ Low(window, CodeLen(s)) = Code(s)}

First(entries) == CHOOSE s \in entries : \A t \in entries : s <= t

\* One symbol: the reader r that is left without the bits of its code.
Take(s, r) ==
    /\ br' = r
    /\ out' = IF s = Sentinel THEN out ELSE Append(out, s)
    /\ room' = IF s = Sentinel THEN room ELSE room - 1
    /\ pc' = IF s = Sentinel THEN "verify" ELSE "decode"

\* The loop condition fails, or the loop breaks before the table is used.
Stop(how) ==
    /\ pc' = how
    /\ UNCHANGED << br, out, room >>

\* Slip: the whole window is consumed, not the code.
decode_symbol_skips_window ==
    LET peek == bs_peek_bits(br, MaxCodeLen)
        s    == First(MatchTop(peek.ret.value))
    IN  Take(s, bs_skip_bits(peek.bs, MaxCodeLen).bs)

decode_symbol ==
    LET peek == bs_peek_bits(br, MaxCodeLen)
        s    == First(MatchTop(peek.ret.value))
    IN  Take(s, bs_skip_bits(peek.bs, CodeLen(s)).bs)

\* Slip: the loop asks for room only, not for the end of the stream.
DecodeHuffman_past_end ==
    /\ codec = "huffman"
    /\ IF room = 0 THEN Stop("verify") ELSE decode_symbol

DecodeHuffman ==
    /\ codec = "huffman"
    /\ IF bs_reader_eof(br) \/ room = 0 THEN Stop("verify") ELSE decode_symbol

\* Slip: the loop fills its output up to and beyond the terminator.
DecodeSafe_without_room ==
    /\ codec = "safe"
    /\ decode_symbol

DecodeSafe ==
    /\ codec = "safe"
    /\ IF room = 0 THEN Stop("verify") ELSE decode_symbol

\* Slip: the precondition asserted is that of two codes.
DecodeFast_asserts_more ==
    /\ codec = "fast"
    /\ IF room = 0 THEN Stop("verify")
       ELSE IF bs_reader_bits_left(br) < 2 * MaxCodeLen THEN Stop("aborted")
       ELSE LET peek == bs_peek_bits_unchecked(br, MaxCodeLen)
                s    == First(MatchTop(peek.ret.value))
            IN  Take(s, bs_skip_bits_unchecked(peek.bs, CodeLen(s)).bs)

DecodeFast ==
    /\ codec = "fast"
    /\ IF room = 0 THEN Stop("verify")
       ELSE IF bs_reader_bits_left(br) < MaxCodeLen THEN Stop("aborted")
       ELSE LET peek == bs_peek_bits_unchecked(br, MaxCodeLen)
                s    == First(MatchTop(peek.ret.value))
            IN  Take(s, bs_skip_bits_unchecked(peek.bs, CodeLen(s)).bs)

DecodeLsb ==
    LET width   == MinOf(bs_reader_bits_left(br), MaxCodeLen)
        peek    == bs_peek_bits_lsb(br, width)
        entries == MatchBottom(peek.ret.value, width)
        s       == First(entries)
    IN
    /\ codec = "lsb"
    /\ IF room = 0 \/ width = 0 \/ entries = {} THEN Stop("verify")
       ELSE Take(s, bs_skip_bits_lsb(peek.bs, CodeLen(s)).bs)

Decode ==
    /\ pc = "decode"
    /\ DecodeHuffman \/ DecodeSafe \/ DecodeFast \/ DecodeLsb
    /\ UNCHANGED << codec, message, bw, sent >>

\* Slip: only as many symbols are compared as have been decoded.
Verify_prefix ==
    /\ pc = "verify"
    /\ pc' = IF out = SubSeq(message, 1, Len(out)) THEN "verified" ELSE "mismatch"
    /\ UNCHANGED << codec, message, bw, sent, br, room, out >>

\* main compares the message with what was decoded; fast_decode.c does it in
\* an assertion.
Verify ==
    /\ pc = "verify"
    /\ pc' = IF out = message THEN "verified" ELSE "mismatch"
    /\ UNCHANGED << codec, message, bw, sent, br, room, out >>

Next == EncodeSymbol \/ EncodeSentinel \/ FlushAndOpen \/ Decode \/ Verify

Spec == Init /\ [][Next]_vars

---------------------------------------------------------------------------
\* The number of bits that the codes of a text take.
BitsOf(text) ==
    Cardinality({p \in (1 .. Len(text)) \X (1 .. MaxCodeLen) :
                    p[2] <= CodeLen(text[p[1]])})

TotalBits == BitsOf(message) + CodeLen(Sentinel)

\* Every component is of its type, and the symbols decoded and those there
\* is room for never exceed the output.
TypeOK ==
    /\ bw \in Writers
    /\ br \in Readers
    /\ br.byte_pos <= Len(br.buffer)
    /\ sent \in 0 .. Len(message)
    /\ room \in Nat
    /\ out \in Seq(Text)
    /\ pc \in {"encode", "flush", "decode", "verify", "verified", "mismatch",
              "refused", "aborted"}

\* While it decodes what it encoded without overflow, a decoder is always
\* at a code boundary: what it has put out is what the message starts with,
\* and the reader stands where the codes of those symbols end.
InStep ==
    pc = "decode" /\ ~ bw.overflow =>
        /\ Len(out) <= Len(message)
        /\ out = SubSeq(message, 1, Len(out))
        /\ 8 * Len(br.buffer) - bs_reader_bits_left(br) = BitsOf(out)

\* A decoder that stops without overflow has decoded the message, or as much
\* of it as its output holds.  No decoder takes the zero padding for 'e's.
RoundTrip ==
    pc = "verify" /\ ~ bw.overflow =>
        out = SubSeq(message, 1, MinOf(Len(message), Len(out) + room))

\* The assertion of huffman_decode_fast, on which its unchecked calls rest,
\* never fails: with the sentinel ahead there are MaxCodeLen bits to peek.
NeverAborts == pc # "aborted"

\* Overflow is reported exactly when the codes do not fit the wire memory.
OverflowIsExact ==
    pc \notin {"encode", "flush"} =>
        (bw.overflow <=> TotalBits > 8 * Len(bw.buffer))

\* The verdict of a program can be relied on.  It never calls a message
\* verified whose codes are not all on the wire (huffman_decode.c and
\* deflate_codes.c decode on after an overflow, and a cut wire decodes to
\* 'e's that were not sent), and finds a mismatch only if the codes did not
\* fit the wire or the symbols did not fit the output.
VerdictIsHonest ==
    /\ pc = "verified" => BitsOf(message) <= 8 * Len(bw.buffer)
    /\ pc = "mismatch" => bw.overflow \/ Len(message) > Len(out) + room

\* Every iteration of a decoding loop consumes bits or is the last, also
\* on a wire that was cut short: a program does not fill its output with
\* symbols decoded from the padding behind the end of the stream.
Advances ==
    [][Decode => pc' # "decode"
                 \/ bs_reader_bits_left(br') < bs_reader_bits_left(br)
      ]_vars
===========================================================================
