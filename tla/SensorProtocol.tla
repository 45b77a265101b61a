--------------------------- MODULE SensorProtocol ---------------------------
(***************************************************************************)
(* examples/sensor_protocol.c: readings of five fields are packed without  *)
(* gaps between them, flushed once, and decoded and compared again.  One   *)
(* field is a step.                                                        *)
(*                                                                         *)
(* The members of a reading are wider than their fields, and nothing looks *)
(* at overflow: a member out of range and a wire too short are noticed by  *)
(* the comparison or not at all.  A read that fails consumes nothing and   *)
(* returns 0, so on a wire that ends inside a field the next narrower      *)
(* field is made of the bits of that one.                                  *)
(***************************************************************************)
EXTENDS BitReader, BitWriter

CONSTANTS
    Batches,   \* the batches of readings encoded; a reading is the sequence
               \* of its members in the order of the struct
    WireSizes  \* the sizes of the memory encoded into, in bytes

VARIABLES
    readings,
    bw,    \* the writer, on the wire memory
    sent,  \* the number of fields written
    br,    \* the reader, on the bytes written
    got,   \* the fields decoded, of all readings so far
    pc     \* "encode", "decode", "compare"; or how the program has ended:
           \* "verified" or "mismatch"

vars == << readings, bw, sent, br, got, pc >>

\* device_id, battery_low, temp_raw, humidity and alert: the width of the
\* field, and that of the member it is decoded into.
FieldBits  == << 4, 1, 10, 7, 1 >>
MemberBits == << 8, 1, 16, 8, 1 >>

ASSUME BatchAssumption ==
    /\ MaxBits >= 16
    /\ Batches \subseteq Seq([1 .. 5 -> Word(MaxBits)]) \ {<< >>}
    /\ \A batch \in Batches : \A i \in DOMAIN batch, f \in 1 .. 5 :
        Clean(batch[i][f], MemberBits[f])
    /\ WireSizes \subseteq Nat

\* The k-th field of the batch is field FieldOf(k) of a reading.
Fields     == 5 * Len(readings)
FieldOf(k) == ((k - 1) % 5) + 1
Member(k)  == readings[((k - 1) \div 5) + 1][FieldOf(k)]

Init ==
    /\ readings \in Batches
    /\ \E n \in WireSizes : bw = bs_writer_init([k \in 1 .. n |-> Zero(8)])
    /\ sent = 0
    /\ br = bs_reader_init(<< >>)
    /\ got = << >>
    /\ pc = "encode"

\* encode_reading.  What is enqueued without room never reaches the wire,
\* whatever the build makes of a wide shift.
EncodeField ==
    /\ pc = "encode"
    /\ sent < Fields
    /\ bw' = bs_write_bits(bw, Member(sent + 1),
                             FieldBits[FieldOf(sent + 1)], "masked")
    /\ sent' = sent + 1
    /\ UNCHANGED << readings, br, got, pc >>

\* Slip: the size is taken before the flush.
FlushAndOpen_size_first ==
    /\ pc = "encode"
    /\ sent = Fields
    /\ bw' = bs_writer_flush(bw, "masked")
    /\ br' = bs_reader_init(
                SubSeq(bw'.buffer, 1, bs_writer_bytes_written(bw)))
    /\ pc' = "decode"
    /\ UNCHANGED << readings, sent, got >>

FlushAndOpen ==
    /\ pc = "encode"
    /\ sent = Fields
    /\ bw' = bs_writer_flush(bw, "masked")
    /\ br' = bs_reader_init(
                SubSeq(bw'.buffer, 1, bs_writer_bytes_written(bw')))
    /\ pc' = "decode"
    /\ UNCHANGED << readings, sent, got >>

\* decode_reading: the value read is converted to the type of the member.
DecodeField ==
    LET f    == FieldOf(Len(got) + 1)
        read == bs_read_bits(br, FieldBits[f])
    IN
    /\ pc = "decode"
    /\ br' = read.bs
    /\ got' = Append(got, Low(read.ret.value, MemberBits[f]))
    /\ pc' = IF f = 5 THEN "compare" ELSE "decode"
    /\ UNCHANGED << readings, bw, sent >>

\* Slip: the flag at the end is not compared.
Compare_without_alert ==
    /\ pc = "compare"
    /\ pc' = IF \E k \in Len(got) - 4 .. Len(got) - 1 : got[k] # Member(k)
             THEN "mismatch"
             ELSE IF Len(got) = Fields THEN "verified" ELSE "decode"
    /\ UNCHANGED << readings, bw, sent, br, got >>

\* main compares the five members with those of the reading encoded.
Compare ==
    /\ pc = "compare"
    /\ pc' = IF \E k \in Len(got) - 4 .. Len(got) : got[k] # Member(k)
             THEN "mismatch"
             ELSE IF Len(got) = Fields THEN "verified" ELSE "decode"
    /\ UNCHANGED << readings, bw, sent, br, got >>

Next == EncodeField \/ FlushAndOpen \/ DecodeField \/ Compare

Spec == Init /\ [][Next]_vars

---------------------------------------------------------------------------
\* Types, with the bounds on both positions.
TypeOK ==
    /\ bw \in Writers
    /\ bw.byte_pos <= Len(bw.buffer)
    /\ br \in Readers
    /\ br.byte_pos <= Len(br.buffer)
    /\ sent \in 0 .. Fields
    /\ got \in Seq(Word(MaxBits))
    /\ Len(got) <= Fields

\* Where the k-th field ends: readings are 23 bits long, without padding.
EndsAt(k) ==
    23 * ((k - 1) \div 5) + << 4, 5, 15, 22, 23 >>[FieldOf(k)]

\* Every field that lies in the wire as a whole is decoded as it was
\* encoded, reduced to its width: a member out of range corrupts no field
\* but its own, and a field that the wire cuts off none before it.
FieldsAreTheirOwn ==
    \A k \in 1 .. Len(got) :
        EndsAt(k) <= 8 * Len(br.buffer) =>
            got[k] = Low(Member(k), FieldBits[FieldOf(k)])

\* The program reports success only if every member is in range and every
\* field that did not get onto the wire is zero: what is read in the place
\* of lost fields, zeros and bits of the field cut off, is never taken for
\* a loss-free round trip of anything else.
SuccessLosesNothing ==
    pc = "verified" =>
        \A k \in 1 .. Fields :
            /\ Clean(Member(k), FieldBits[FieldOf(k)])
            /\ EndsAt(k) > 8 * Len(bw.buffer) => Member(k) = Zero(MaxBits)

\* It reports a mismatch only if a member is out of range, or the readings
\* do not fit the memory, in which case the writer has set the flag that
\* nobody looks at.
NoFalseAlarm ==
    pc = "mismatch" =>
        \/ \E k \in 1 .. Fields : ~ Clean(Member(k), FieldBits[FieldOf(k)])
        \/ bw.overflow /\ 23 * Len(readings) > 8 * Len(bw.buffer)
===========================================================================
