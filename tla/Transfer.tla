------------------------------ MODULE Transfer ------------------------------
(***************************************************************************)
(* A writer and a reader together.  A sender makes any sequence of writer  *)
(* calls; the bytes written become the memory of a reader; a receiver that *)
(* knows the kinds and widths of the items, and not their values, makes    *)
(* the corresponding reader calls, in any of the ways the header offers,   *)
(* and stops when bs_reader_bits_left or bs_read_bytes tells it that the   *)
(* next item is not there.  The integration tests of the repository are    *)
(* such transfers.                                                         *)
(*                                                                         *)
(* The family may change inside a transfer: the sender may go over to the  *)
(* other one whenever no bit is enqueued, and the receiver follows by      *)
(* giving its prefetched bytes back with a bulk copy of no byte.           *)
(***************************************************************************)
EXTENDS BitReader, BitWriter

CONSTANTS
    WireSizes,  \* the sizes of the memory, in bytes
    Values,     \* the values sent as bit fields, words of MaxBits bits
    Counts,     \* the widths of the fields, above zero
    Chunks,     \* the byte sequences copied in bulk
    MaxItems    \* bound: the items in a transfer

ASSUME TransferAssumption ==
    /\ WireSizes \subseteq Nat
    /\ Values \subseteq Word(MaxBits)
    /\ Counts \subseteq 1 .. MaxBits
    /\ Chunks \subseteq Seq(Byte)
    /\ MaxItems \in Nat

VARIABLES
    bw,    \* the writer
    sent,  \* history: the items handed to it and not refused
    ends,  \* history: for each of them, the bits of the wire up to its end
    br,    \* the reader, on the bytes the writer produced
    got,   \* the items received
    part,  \* the first bytes of the next one, if it is received by bytes
    order, \* the family of the calls being made
    pc     \* "send", "receive" or "done"

vars == << bw, sent, ends, br, got, part, order, pc >>

\* An item: a bit field, a byte boundary, or bytes.
Item(kind, n, value, bytes) ==
    [order |-> order, kind |-> kind, n |-> n, value |-> value, bytes |-> bytes]

Bits(n, value) == Item("bits", n, Low(value, n), << >>)
Boundary       == Item("boundary", 0, Zero(MaxBits), << >>)
Bytes(chunk)   == Item("bytes", Len(chunk), Zero(MaxBits), chunk)

\* Where an item ends that is sent after so many bits.
EndAfter(at, item) ==
    CASE item.kind = "bits"     -> at + item.n
      [] item.kind = "boundary" -> 8 * ((at + 7) \div 8)
      [] item.kind = "bytes"    -> at + 8 * item.n

\* The bits of the wire that the first k items take.
End(k) == IF k = 0 THEN 0 ELSE ends[k]

Init ==
    /\ \E n \in WireSizes :
        bw = bs_writer_init([k \in 1 .. n |-> [i \in 0 .. 7 |-> 1]])
    /\ br = bs_reader_init(<< >>)
    /\ sent = << >>
    /\ ends = << >>
    /\ got = << >>
    /\ part = << >>
    /\ order \in Orders
    /\ pc = "send"

---------------------------------------------------------------------------
\* Sender.  It does not look at overflow.  A shift that overrunning the
\* memory makes undefined (see BitWriter) has the outcome "masked".

Sending(item, b) ==
    /\ pc = "send"
    /\ Len(sent) < MaxItems
    /\ bw' = b
    /\ sent' = Append(sent, item)
    /\ ends' = Append(ends, EndAfter(End(Len(sent)), item))
    /\ UNCHANGED << br, got, part, order, pc >>

SendBits(value, n) ==
    \/ Sending(Bits(n, value),
               IF order = "msb" THEN bs_write_bits(bw, value, n, "masked")
                                ELSE bs_write_bits_lsb(bw, value, n, "masked"))
    \/ /\ Clean(value, n)
       /\ Sending(Bits(n, value),
               IF order = "msb"
               THEN bs_write_bits_unchecked(bw, value, n, "masked")
               ELSE bs_write_bits_lsb_unchecked(bw, value, n, "masked"))

Align(b) == IF order = "msb" THEN bs_writer_align(b, "masked")
                             ELSE bs_writer_align_lsb(b, "masked")

Flush(b) == IF order = "msb" THEN bs_writer_flush(b, "masked")
                             ELSE bs_writer_flush_lsb(b, "masked")

\* A flush in the middle of a stream serves as an alignment.
SendBoundary == \E b \in {Align(bw), Flush(bw)} : Sending(Boundary, b)

\* A bulk copy that is refused leaves nothing on the wire; the sender may
\* go on with other items.
SendBytes(chunk) ==
    \/ /\ can_write_bytes(bw, chunk)
       /\ Sending(Bytes(chunk), bs_write_bytes(bw, chunk))
    \/ /\ pc = "send"
       /\ ~ can_write_bytes(bw, chunk)
       /\ bw' = bs_write_bytes(bw, chunk)
       /\ UNCHANGED << sent, ends, br, got, part, order, pc >>

SenderTurns ==
    /\ pc = "send"
    /\ bw.bits_in_cache = 0
    /\ order' \in Orders
    /\ UNCHANGED << bw, sent, ends, br, got, part, pc >>

FlushAndOpen ==
    /\ pc = "send"
    /\ bw' = Flush(bw)
    /\ br' = bs_reader_init(
                SubSeq(bw'.buffer, 1, bs_writer_bytes_written(bw')))
    /\ pc' = "receive"
    /\ UNCHANGED << sent, ends, got, part, order >>

---------------------------------------------------------------------------
\* Receiver.

\* The receiver is about to take an item of this kind.
Expects(kind) ==
    /\ pc = "receive"
    /\ Len(got) < Len(sent)
    /\ sent[Len(got) + 1].order = order
    /\ sent[Len(got) + 1].kind = kind

\* It has: r is the reader left.
Receives(item, r) ==
    /\ br' = r
    /\ got' = Append(got, item)
    /\ part' = << >>
    /\ UNCHANGED << bw, sent, ends, order, pc >>

\* It stops.
StopsWith(r) ==
    /\ br' = r
    /\ pc' = "done"
    /\ UNCHANGED << bw, sent, ends, got, part, order >>

\* The ways to take n bits that are there: a read, a peek and a skip of
\* either kind, an unchecked read or an unchecked peek and skip.
Taking(n) ==
    LET Both(peek, skip) == [bs |-> skip.bs, ret |-> peek.ret] IN
    IF order = "msb"
    THEN LET p == bs_peek_bits(br, n)
             q == bs_peek_bits_unchecked(br, n)
         IN  {bs_read_bits(br, n), bs_read_bits_unchecked(br, n),
              Both(p, bs_skip_bits(p.bs, n)),
              Both(q, bs_skip_bits_unchecked(q.bs, n))}
    ELSE LET p == bs_peek_bits_lsb(br, n)
             q == bs_peek_bits_lsb_unchecked(br, n)
         IN  {bs_read_bits_lsb(br, n), bs_read_bits_lsb_unchecked(br, n),
              Both(p, bs_skip_bits_lsb(p.bs, n)),
              Both(q, bs_skip_bits_lsb_unchecked(q.bs, n))}

ReceiveBits ==
    /\ Expects("bits")
    /\ LET n == sent[Len(got) + 1].n IN
       IF n <= bs_reader_bits_left(br)
       THEN \E result \in Taking(n) :
                Receives(Item("bits", n, result.ret.value, << >>), result.bs)
       ELSE StopsWith(br)

ReceiveBoundary ==
    /\ Expects("boundary")
    /\ Receives(Boundary, IF order = "msb" THEN bs_reader_align(br).bs
                                           ELSE bs_reader_align_lsb(br).bs)

\* The bytes of the next item that have not been received.
Missing == sent[Len(got) + 1].n - Len(part)

\* Bytes are also received as fields of 8 bits, one after the other.
ReceiveByte ==
    LET read  == IF order = "msb" THEN bs_read_bits(br, 8)
                                  ELSE bs_read_bits_lsb(br, 8)
        bytes == Append(part, Cast(read.ret.value, 8))
    IN
    /\ Expects("bytes")
    /\ Missing > 0
    /\ IF 8 * Missing > bs_reader_bits_left(br) THEN StopsWith(br)
       ELSE IF Missing = 1 THEN Receives(Bytes(bytes), read.bs)
       ELSE /\ br' = read.bs
            /\ part' = bytes
            /\ UNCHANGED << bw, sent, ends, got, order, pc >>

\* All of them, or those that are missing still, are copied in bulk.
ReceiveBytes ==
    /\ Expects("bytes")
    /\ LET copy == bs_read_bytes(br, Missing) IN
       IF copy.ret.ok THEN Receives(Bytes(part \o copy.ret.bytes), copy.bs)
                      ELSE StopsWith(copy.bs)

\* Whatever comes next, the receiver may look at it first: the bytes it
\* prefetches then are in the cache when it aligns, copies or turns.
Glance(n) ==
    /\ pc = "receive"
    /\ br' = IF order = "msb" THEN bs_peek_bits(br, n).bs
                              ELSE bs_peek_bits_lsb(br, n).bs
    /\ UNCHANGED << bw, sent, ends, got, part, order, pc >>

\* Slip: the receiver goes over as the sender did, its cache as it is.
ReceiverTurns_keeps_cache ==
    /\ pc = "receive"
    /\ Len(got) < Len(sent)
    /\ sent[Len(got) + 1].order # order
    /\ order' = sent[Len(got) + 1].order
    /\ UNCHANGED << bw, sent, ends, br, got, part, pc >>

ReceiverTurns ==
    /\ pc = "receive"
    /\ Len(got) < Len(sent)
    /\ sent[Len(got) + 1].order # order
    /\ order' = sent[Len(got) + 1].order
    /\ br' = bs_read_bytes(br, 0).bs
    /\ UNCHANGED << bw, sent, ends, got, part, pc >>

ReceiveEnd ==
    /\ pc = "receive"
    /\ Len(got) = Len(sent)
    /\ StopsWith(br)

Next ==
    \/ \E value \in Values, n \in Counts : SendBits(value, n)
    \/ SendBoundary
    \/ \E chunk \in Chunks : SendBytes(chunk)
    \/ SenderTurns
    \/ FlushAndOpen
    \/ ReceiveBits \/ ReceiveBoundary \/ ReceiveBytes \/ ReceiveByte
    \/ \E n \in Counts : Glance(n)
    \/ ReceiverTurns
    \/ ReceiveEnd

Spec == Init /\ [][Next]_vars

---------------------------------------------------------------------------
\* Types, with the bounds on both positions.
TypeOK ==
    /\ bw \in Writers
    /\ bw.byte_pos <= Len(bw.buffer)
    /\ br \in Readers
    /\ br.byte_pos <= Len(br.buffer)
    /\ Len(got) <= Len(sent)

\* The items that are on the wire as a whole.
Whole == {k \in 1 .. Len(sent) : End(k) <= 8 * Len(br.buffer)}

\* A writer, a memory and a reader are a channel.  Every item that is whole
\* on the wire arrives as it was sent, in whichever way it is read and
\* however much the reader has prefetched by then; the receiver is stopped
\* exactly at the first one that is not; if the writer has not reported
\* overflow, none is missing.  Items sent after a bulk copy was refused
\* still arrive.
Abstract ==
    INSTANCE Channel WITH
        Items <- [order : Orders, kind : {"bits", "boundary", "bytes"},
                  n : Nat, value : Word(MaxBits), bytes : Seq(Byte)],
        closed <- pc # "send", intact <- ~ bw.overflow, done <- pc = "done",
        arriving <- IF pc = "send" THEN {} ELSE Whole

ImplementsChannel == Abstract!Spec

\* When all items have been received, less than a byte is left, and it is
\* the zero padding of the flush, not what the memory held before.
RestIsPadding ==
    pc = "done" /\ got = sent =>
        /\ bs_reader_bits_left(br) < 8
        /\ \A j \in End(Len(sent)) .. 8 * Len(br.buffer) - 1 :
            StreamBit(br.buffer, order, j) = 0
===========================================================================
