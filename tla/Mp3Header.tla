----------------------------- MODULE Mp3Header -----------------------------
(***************************************************************************)
(* examples/decode_mp3_header.c: a header of four bytes is read as         *)
(* thirteen fields, its sync word is checked, and the fields are put out.  *)
(***************************************************************************)
EXTENDS BitReader

CONSTANT RawHeaders  \* the headers the program is built with

VARIABLES
    raw_header, bs,
    fields,  \* the values read so far
    stage    \* "parse", "validate", "print"; or how the program has ended:
             \* "done" or "error"

header_vars == << raw_header, bs, fields, stage >>

ASSUME HeaderAssumption ==
    /\ MaxBits >= 11
    /\ RawHeaders \subseteq [1 .. 4 -> Byte]

\* sync, version, layer, protection, bitrate, sample rate, padding, private,
\* channel, mode extension, copyright, original, emphasis.
FieldWidths == << 11, 2, 2, 1, 4, 2, 1, 1, 2, 2, 1, 1, 2 >>

\* The word of n ones.
Ones(n) == [i \in 0 .. MaxBits - 1 |-> IF i < n THEN 1 ELSE 0]

HeaderInit ==
    /\ raw_header \in RawHeaders
    /\ bs = bs_reader_init(raw_header)
    /\ fields = << >>
    /\ stage = "parse"

\* Slip: a field is peeked at and skipped with the width of the one before.
ParseField_wrong_skip ==
    LET i    == Len(fields) + 1
        peek == bs_peek_bits(bs, FieldWidths[i])
    IN
    /\ stage = "parse"
    /\ bs' = bs_skip_bits(peek.bs, FieldWidths[IF i = 1 THEN 1 ELSE i - 1]).bs
    /\ fields' = Append(fields, peek.ret.value)
    /\ stage' = IF i = Len(FieldWidths) THEN "validate" ELSE "parse"
    /\ UNCHANGED raw_header

ParseField ==
    LET i    == Len(fields) + 1
        read == bs_read_bits(bs, FieldWidths[i])
    IN
    /\ stage = "parse"
    /\ bs' = read.bs
    /\ fields' = Append(fields, read.ret.value)
    /\ stage' = IF i = Len(FieldWidths) THEN "validate" ELSE "parse"
    /\ UNCHANGED raw_header

\* Slip: the upper eight bits of the sync word are taken for all of it.
ValidateSync_first_byte ==
    /\ stage = "validate"
    /\ stage' = IF Shr(fields[1], 3) # Ones(8) THEN "error" ELSE "print"
    /\ UNCHANGED << raw_header, bs, fields >>

ValidateSync ==
    /\ stage = "validate"
    /\ stage' = IF fields[1] # Ones(11) THEN "error" ELSE "print"
    /\ UNCHANGED << raw_header, bs, fields >>

\* The text put out for the fields, some of it from tables with an entry for
\* every value of the field that indexes them, is left out.
PrintHeader ==
    /\ stage = "print"
    /\ stage' = "done"
    /\ UNCHANGED << raw_header, bs, fields >>

HeaderNext == ParseField \/ ValidateSync \/ PrintHeader

HeaderSpec == HeaderInit /\ [][HeaderNext]_header_vars

---------------------------------------------------------------------------
\* The bits of the first k fields.
FieldEnd(k) ==
    IF k = 0 THEN 0
    ELSE << 11, 13, 15, 16, 20, 22, 23, 24, 26, 28, 29, 30, 32 >>[k]

\* The fields read so far are the beginning of the header and the reader
\* stands behind it: no bit is lost between fields or read twice, and the
\* thirteen fields take all of the 32 bits, of which the program prints
\* that none remains.
FieldsCoverHeader ==
    /\ \A k \in 1 .. Len(fields) :
        fields[k] = Field(raw_header, "msb", FieldEnd(k - 1), FieldWidths[k], MaxBits)
    /\ bs_reader_bits_left(bs) = 32 - FieldEnd(Len(fields))
    /\ stage = "done" => bs_reader_bits_left(bs) = 0

\* A header is shown exactly when its first eleven bits are set.
ShowsOnlySynced ==
    stage \in {"done", "error"} =>
        (stage = "done" <=> \A j \in 0 .. 10 : StreamBit(raw_header, "msb", j) = 1)
===========================================================================
