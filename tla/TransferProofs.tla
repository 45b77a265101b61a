--------------------------- MODULE TransferProofs ---------------------------
(***************************************************************************)
(* For every memory, every value, width and sequence of bytes, and every   *)
(* width of cache: a writer and a reader on the bytes it wrote are a       *)
(* channel, whichever family and whichever calls are used, and what is     *)
(* left over when all has been received is padding.                        *)
(***************************************************************************)
EXTENDS Transfer, CallLemmas

---------------------------------------------------------------------------
(***************************************************************************)
(* What the items are, and what they are on the wire.                      *)
(***************************************************************************)
ItemType ==
    [order : Orders, kind : {"bits", "boundary", "bytes"},
     n : Nat, value : Word(MaxBits), bytes : Seq(Byte)]

\* The members of an item that its kind does not use are zero or empty.
Sendable(item) ==
    /\ item \in ItemType
    /\ item.kind = "bits" => /\ item.n \in 1 .. MaxBits
                             /\ Clean(item.value, item.n)
                             /\ item.bytes = << >>
    /\ item.kind = "boundary" => /\ item.n = 0
                                 /\ item.value = Zero(MaxBits)
                                 /\ item.bytes = << >>
    /\ item.kind = "bytes" => /\ item.n = Len(item.bytes)
                              /\ item.value = Zero(MaxBits)

\* The bits of an item, in the order they are sent.  Those of a boundary
\* are padding, and of no interest.
BitsOf(item) ==
    CASE item.kind = "bits"     -> SentBits(item.order, item.value, item.n)
      [] item.kind = "boundary" -> << >>
      [] item.kind = "bytes"    -> CopyOf(item.order, item.bytes)

---------------------------------------------------------------------------
(***************************************************************************)
(* The inductive invariant.  While items are sent: each of them whose end  *)
(* the writer has kept is in the writer, stored, or enqueued by the family *)
(* in use; the writer keeps no bit beyond the last one; where the family   *)
(* changes, an item that fits the memory ends a byte.  Once the receiver   *)
(* has opened the memory: each item that is whole on the wire lies there,  *)
(* the family changes between bytes only, and what follows the last item   *)
(* is padding; the reader stands where the items received end, and what    *)
(* has been received is what was sent.                                     *)
(***************************************************************************)
Ended ==
    /\ sent \in Seq(ItemType)
    /\ \A k \in 1 .. Len(sent) : Sendable(sent[k])
    /\ ends \in Seq(Nat)
    /\ Len(ends) = Len(sent)
    /\ \A k \in 1 .. Len(sent) : End(k) = EndAfter(End(k - 1), sent[k])
    /\ \A k \in 1 .. Len(sent) : \A i \in 1 .. k : ends[i] <= ends[k]
    /\ \A k \in 1 .. Len(sent) : sent[k].kind = "bytes" => End(k - 1) % 8 = 0

Last == End(Len(sent))

\* The bits of an item that ends so far into the bits of the writer.
Placed(b, item, at) ==
    \A j \in 1 .. Len(BitsOf(item)) :
        BitAt(b, item.order, at + j) = BitsOf(item)[j]

Kept ==
    \A k \in 1 .. Len(sent) :
        End(k) <= Size(bw) =>
            /\ End(k) <= 8 * bw.byte_pos \/ sent[k].order = order
            /\ Placed(bw, sent[k], End(k - 1))

\* The family of the item after the k-th, or the one in use.
NextOrder(k) == IF k < Len(sent) THEN sent[k + 1].order ELSE order

TurnsBetweenBytes(size) ==
    \A k \in 1 .. Len(sent) :
        sent[k].order # NextOrder(k) /\ End(k) <= 8 * size => End(k) % 8 = 0

Sender ==
    /\ Good(bw)
    /\ IF Full(bw) THEN Last >= 8 * Len(bw.buffer) ELSE Size(bw) = Last
    /\ Kept
    /\ TurnsBetweenBytes(Len(bw.buffer))
    /\ br = bs_reader_init(<< >>)
    /\ got = << >> /\ part = << >>

OnWire ==
    /\ br.buffer \in Seq(Byte)
    /\ \A k \in 1 .. Len(sent) :
        End(k) <= 8 * Len(br.buffer) =>
            \A j \in 1 .. Len(BitsOf(sent[k])) :
                StreamBit(br.buffer, sent[k].order, End(k - 1) + j - 1)
                  = BitsOf(sent[k])[j]
    /\ \A k \in 1 .. Len(sent) - 1 :
        sent[k].order # sent[k + 1].order /\ End(k) <= 8 * Len(br.buffer)
            => End(k) % 8 = 0
    /\ ~ bw.overflow => Last <= 8 * Len(br.buffer)

Padded ==
    Last <= 8 * Len(br.buffer) =>
        /\ 8 * Len(br.buffer) - Last < 8
        /\ sent # << >> =>
            \A j \in Last .. 8 * Len(br.buffer) - 1 :
                StreamBit(br.buffer, sent[Len(sent)].order, j) = 0

GoodReader(b, o) == IF o = "msb" THEN GoodMsb(b) ELSE GoodLsb(b)

\* The family is that of the next item, or still that of the last one.
InOrder ==
    \/ Len(got) < Len(sent) /\ order = sent[Len(got) + 1].order
    \/ Len(got) = 0
    \/ order = sent[Len(got)].order

PartOfNext ==
    part # << >> =>
        LET next == sent[Len(got) + 1] IN
        /\ Len(got) < Len(sent)
        /\ next.kind = "bytes"
        /\ next.order = order
        /\ Len(part) < next.n
        /\ \A j \in 1 .. Len(part) : part[j] = next.bytes[j]

Receiver ==
    /\ GoodReader(br, order)
    /\ got \in Seq(ItemType) /\ Len(got) <= Len(sent)
    /\ \A k \in 1 .. Len(got) : got[k] = sent[k]
    /\ part \in Seq(Byte)
    /\ Position(br) = End(Len(got)) + 8 * Len(part)
    /\ InOrder
    /\ PartOfNext

IInv ==
    /\ order \in Orders
    /\ pc \in {"send", "receive", "done"}
    /\ Ended
    /\ Within(bw)
    /\ pc = "send" => Sender
    /\ pc # "send" => OnWire /\ Padded /\ Receiver

---------------------------------------------------------------------------
\* The items.

\* The three shapes an item has.
LEMMA Shapes ==
    ASSUME order \in Orders
    PROVE  /\ \A n \in Counts, value \in Values :
                LET item == Bits(n, value) IN
                /\ Sendable(item) /\ item.order = order /\ item.kind = "bits"
                /\ item.n = n /\ item.value = Low(value, n)
           /\ Sendable(Boundary) /\ Boundary.order = order
           /\ Boundary.kind = "boundary"
           /\ \A chunk \in Seq(Byte) :
                LET item == Bytes(chunk) IN
                /\ Sendable(item) /\ item.order = order /\ item.kind = "bytes"
                /\ item.n = Len(chunk) /\ item.bytes = chunk
<1>1. MaxBits \in Nat /\ << >> \in Seq(Byte) /\ 0 \in Nat
  BY WidthFacts
<1>2. Zero(MaxBits) \in Word(MaxBits)
  BY ZeroClean, <1>1
<1>3. ASSUME NEW n \in Counts, NEW value \in Values
      PROVE  LET item == Bits(n, value) IN
             /\ Sendable(item) /\ item.order = order /\ item.kind = "bits"
             /\ item.n = n /\ item.value = Low(value, n)
  <2> DEFINE low == Low(value, n)
  <2>1. n \in 1 .. MaxBits /\ n \in Nat /\ value \in Word(MaxBits)
    BY <1>1, TransferAssumption
  <2>2. low \in Word(MaxBits) /\ Clean(low, n)
    BY <2>1, LowClean
  <2> HIDE DEF low
  <2>3. [order |-> order, kind |-> "bits", n |-> n, value |-> low,
         bytes |-> << >>] \in ItemType
    BY <1>1, <2>1, <2>2 DEF ItemType
  <2>4. Bits(n, value) = [order |-> order, kind |-> "bits", n |-> n,
                          value |-> low, bytes |-> << >>]
    BY DEF Bits, Item, low
  <2> QED BY <2>1, <2>2, <2>3, <2>4 DEF Sendable, low
<1>4. /\ Sendable(Boundary) /\ Boundary.order = order
      /\ Boundary.kind = "boundary"
  <2>1. Boundary = [order |-> order, kind |-> "boundary", n |-> 0,
                    value |-> Zero(MaxBits), bytes |-> << >>]
    BY DEF Boundary, Item
  <2>2. Boundary \in ItemType
    BY <1>1, <1>2, <2>1 DEF ItemType
  <2> QED BY <2>1, <2>2 DEF Sendable
<1>5. ASSUME NEW chunk \in Seq(Byte)
      PROVE  LET item == Bytes(chunk) IN
             /\ Sendable(item) /\ item.order = order /\ item.kind = "bytes"
             /\ item.n = Len(chunk) /\ item.bytes = chunk
  <2> DEFINE m == Len(chunk)
  <2>1. m \in Nat
    OBVIOUS
  <2>2. Bytes(chunk) = [order |-> order, kind |-> "bytes", n |-> m,
                        value |-> Zero(MaxBits), bytes |-> chunk]
    BY DEF Bytes, Item
  <2> HIDE DEF m
  <2>3. Bytes(chunk) \in ItemType
    BY <1>2, <2>1, <2>2 DEF ItemType
  <2> QED BY <2>2, <2>3 DEF Sendable, m
<1> QED BY <1>3, <1>4, <1>5

\* The bits of an item are as many as it is long, unless it is a boundary,
\* which has none and ends at the next byte.
LEMMA ItemSizes ==
    ASSUME NEW item, Sendable(item), NEW at \in Nat
    PROVE  /\ BitsOf(item) \in Seq(Bit) /\ Len(BitsOf(item)) \in Nat
           /\ EndAfter(at, item) \in Nat
           /\ item.kind # "boundary" =>
                EndAfter(at, item) = at + Len(BitsOf(item))
           /\ item.kind = "boundary" =>
                /\ Len(BitsOf(item)) = 0
                /\ EndAfter(at, item) = at + ((8 - (at % 8)) % 8)
                /\ EndAfter(at, item) = 8 * ((at + 7) \div 8)
           /\ at + Len(BitsOf(item)) <= EndAfter(at, item)
<1>1. /\ item.kind \in {"bits", "boundary", "bytes"} /\ item.n \in Nat
      /\ item.value \in Word(MaxBits) /\ item.bytes \in Seq(Byte)
  BY DEF Sendable, ItemType
<1>2. CASE item.kind = "bits"
  <2>1. item.n \in 0 .. MaxBits
    BY <1>2, WidthFacts DEF Sendable
  <2>2. BitsOf(item) = SentBits(item.order, item.value, item.n)
    BY <1>2 DEF BitsOf
  <2>3. BitsOf(item) \in Seq(Bit) /\ Len(BitsOf(item)) = item.n
    BY <2>1, <2>2, <1>1, FieldIs
  <2>4. EndAfter(at, item) = at + item.n
    BY <1>2 DEF EndAfter
  <2> QED BY <2>3, <2>4, <1>1, <1>2
<1>3. CASE item.kind = "boundary"
  <2>1. BitsOf(item) = << >>
    BY <1>3 DEF BitsOf
  <2>2. EndAfter(at, item) = 8 * ((at + 7) \div 8)
    BY <1>3 DEF EndAfter
  <2>3. 8 * ((at + 7) \div 8) = at + ((8 - (at % 8)) % 8)
    OBVIOUS
  <2>4. (8 - (at % 8)) % 8 \in Nat
    OBVIOUS
  <2> QED BY <2>1, <2>2, <2>3, <2>4, <1>3
<1>4. CASE item.kind = "bytes"
  <2>1. item.n = Len(item.bytes)
    BY <1>4 DEF Sendable
  <2>2. BitsOf(item) = CopyOf(item.order, item.bytes)
    BY <1>4 DEF BitsOf
  <2>3. BitsOf(item) \in Seq(Bit) /\ Len(BitsOf(item)) = 8 * item.n
    BY <2>1, <2>2, <1>1, CopyBits
  <2>4. EndAfter(at, item) = at + 8 * item.n
    BY <1>4 DEF EndAfter
  <2> QED BY <2>3, <2>4, <1>1, <1>4
<1> QED BY <1>1, <1>2, <1>3, <1>4

---------------------------------------------------------------------------
\* What the writer has kept stays what it is.

LEMMA BitsStay ==
    ASSUME NEW b, Good(b), NEW d, Keeps(b, d), NEW fam, NEW bits \in Seq(Bit),
           Longer(b, d, fam, bits), NEW o, NEW e \in Nat,
           e <= Size(b), e <= Size(d), e <= 8 * b.byte_pos \/ o = fam
    PROVE  /\ e <= 8 * d.byte_pos \/ o = fam
           /\ \A j \in 1 .. e : BitAt(d, o, j) = BitAt(b, o, j)
<1>1. /\ b.byte_pos \in Nat /\ d.byte_pos \in Nat /\ d.byte_pos >= b.byte_pos
      /\ Len(b.buffer) \in Nat /\ b.byte_pos <= Len(b.buffer)
      /\ \A i \in 1 .. Len(b.buffer) :
           i <= b.byte_pos \/ i > d.byte_pos => d.buffer[i] = b.buffer[i]
  BY WriterFields DEF Keeps, Appends, Good
<1>2. Size(b) \in Nat /\ Size(d) \in Nat
  BY KeptBits DEF Keeps
<1>3. CASE e <= 8 * b.byte_pos
  <2>1. ASSUME NEW j \in 1 .. e
        PROVE  BitAt(d, o, j) = BitAt(b, o, j)
    <3>1. j \in 1 .. 8 * b.byte_pos /\ j <= 8 * b.byte_pos /\ j <= 8 * d.byte_pos
      BY <1>1, <1>3
    <3>2. /\ BitAt(b, o, j) = StreamBit(b.buffer, o, j - 1)
          /\ BitAt(d, o, j) = StreamBit(d.buffer, o, j - 1)
      BY <3>1 DEF BitAt
    <3>3. ((j - 1) \div 8) + 1 \in 1 .. b.byte_pos
      BY <3>1, <1>1, StreamIndex
    <3>4. d.buffer[((j - 1) \div 8) + 1] = b.buffer[((j - 1) \div 8) + 1]
      BY <3>3, <1>1
    <3> QED BY <3>2, <3>4 DEF StreamBit
  <2> QED BY <2>1, <1>1, <1>3
<1>4. CASE ~ (e <= 8 * b.byte_pos)
  <2>1. o = fam
    BY <1>4
  <2>2. \A j \in 1 .. Size(d) :
          BitAt(d, o, j) = IF j <= Size(b) THEN BitAt(b, o, j)
                           ELSE bits[j - Size(b)]
    BY <2>1, LongerBits DEF Keeps
  <2>3. \A j \in 1 .. e : j \in 1 .. Size(d) /\ j <= Size(b)
    BY <1>2
  <2> QED BY <2>1, <2>2, <2>3
<1> QED BY <1>3, <1>4

\* A writer that has reported overflow and keeps as much as its memory can
\* hold is full, and the other way round.
LEMMA FullSize ==
    ASSUME NEW b, Good(b)
    PROVE  /\ Full(b) <=> b.overflow /\ Size(b) = 8 * Len(b.buffer)
           /\ 8 * b.byte_pos <= Size(b) /\ Size(b) \in Nat
           /\ ~ Full(b) => /\ Size(b) = 8 * b.byte_pos + b.bits_in_cache
                           /\ b.bits_in_cache \in 0 .. 7
<1>1. /\ b.byte_pos \in Nat /\ Len(b.buffer) \in Nat
      /\ b.byte_pos <= Len(b.buffer) /\ b.bits_in_cache \in Nat
      /\ ~ Full(b) => b.bits_in_cache < 8
  BY WriterFields DEF Good, Fits
<1>2. /\ Full(b) => Size(b) = 8 * b.byte_pos
      /\ ~ Full(b) => Size(b) = 8 * b.byte_pos + b.bits_in_cache
  BY DEF Size
<1>3. Full(b) <=> b.overflow /\ b.byte_pos = Len(b.buffer)
  BY DEF Full
<1>4. ASSUME ~ Full(b), b.overflow, Size(b) = 8 * Len(b.buffer)
      PROVE  FALSE
  <2>1. 8 * b.byte_pos + b.bits_in_cache = 8 * Len(b.buffer) /\ b.bits_in_cache < 8
    BY <1>1, <1>2, <1>4
  <2>2. b.byte_pos = Len(b.buffer)
    BY <2>1, <1>1
  <2> QED BY <2>2, <1>3, <1>4
<1> QED BY <1>1, <1>2, <1>3, <1>4, SMTT(30)

---------------------------------------------------------------------------
\* The steps: sending.

\* The places of the items before the last one stay what they are.
LEMMA OneMore ==
    ASSUME Ended, NEW L, L = Len(sent), NEW last, last = Last,
           NEW item, Sendable(item),
           item.kind = "bytes" => last % 8 = 0,
           sent' = Append(sent, item),
           ends' = Append(ends, EndAfter(last, item))
    PROVE  /\ Ended'
           /\ L \in Nat /\ Len(sent') = L + 1
           /\ \A k \in 0 .. L : End(k)' = End(k) /\ End(k) \in Nat
           /\ \A k \in 1 .. L : sent'[k] = sent[k] /\ End(k) <= last
           /\ sent'[L + 1] = item
           /\ Last' = EndAfter(last, item)
           /\ last \in Nat /\ Last' \in Nat /\ last <= Last'
<1> DEFINE new == EndAfter(last, item)
<1>1. /\ sent \in Seq(ItemType) /\ ends \in Seq(Nat) /\ Len(ends) = L
      /\ L \in Nat /\ item \in ItemType
      /\ \A k \in 1 .. L : Sendable(sent[k])
      /\ \A k \in 1 .. L : End(k) = EndAfter(End(k - 1), sent[k])
      /\ \A k \in 1 .. L : \A i \in 1 .. k : ends[i] <= ends[k]
      /\ \A k \in 1 .. L : sent[k].kind = "bytes" => End(k - 1) % 8 = 0
  BY DEF Ended, Sendable
<1>2. /\ \A k \in 0 .. L : End(k) \in Nat
      /\ \A k \in 1 .. L : End(k) = ends[k]
  BY <1>1 DEF End
<1>3. last \in Nat
  BY <1>1, <1>2 DEF Last
<1>4. new \in Nat /\ last <= new
  <2>1. /\ new \in Nat /\ Len(BitsOf(item)) \in Nat
        /\ last + Len(BitsOf(item)) <= new
    BY <1>3, ItemSizes
  <2> HIDE DEF new
  <2> QED BY <2>1, <1>3
<1>5. \A k \in 1 .. L : ends[k] <= last
  <2>1. L # 0 => last = ends[L]
    BY DEF Last, End
  <2> QED BY <2>1, <1>1, SMTT(30)
<1> HIDE DEF new
<1>6. /\ sent' \in Seq(ItemType) /\ Len(sent') = L + 1
      /\ \A k \in 1 .. L : sent'[k] = sent[k]
      /\ sent'[L + 1] = item
  BY <1>1
<1>7. /\ ends' \in Seq(Nat) /\ Len(ends') = L + 1
      /\ \A k \in 1 .. L : ends'[k] = ends[k]
      /\ ends'[L + 1] = new
  BY <1>1, <1>4 DEF new
<1>8. \A k \in 0 .. L : End(k)' = End(k)
  BY <1>1, <1>7 DEF End
<1>9. End(L + 1)' = new /\ Last' = new
  <2>1. L + 1 # 0
    BY <1>1
  <2>2. End(L + 1)' = ends'[L + 1]
    BY <2>1 DEF End
  <2>3. Last' = ends'[L + 1]
    BY <2>1, <1>6 DEF End, Last
  <2> QED BY <2>2, <2>3, <1>7
<1>10. \A k \in 1 .. L + 1 : Sendable(sent'[k])
  BY <1>1, <1>6
<1>11. \A k \in 1 .. L + 1 : End(k)' = EndAfter(End(k - 1), sent[k])'
  <2> TAKE k \in 1 .. L + 1
  <2>0. EndAfter(End(k - 1), sent[k])' = EndAfter(End(k - 1)', sent'[k])
    BY DEF EndAfter
  <2>1. CASE k = L + 1
    <3>1. k - 1 = L /\ L \in 0 .. L
      BY <2>1, <1>1
    <3>2. End(k - 1)' = last
      BY <3>1, <1>8 DEF Last
    <3> QED BY <3>2, <2>0, <2>1, <1>6, <1>9 DEF new
  <2>2. CASE k # L + 1
    <3>1. k \in 1 .. L /\ k \in 0 .. L /\ k - 1 \in 0 .. L
      BY <2>2, <1>1
    <3> QED BY <3>1, <2>0, <1>1, <1>6, <1>8
  <2> QED BY <2>1, <2>2
<1>12. \A k \in 1 .. L + 1 : \A i \in 1 .. k : ends'[i] <= ends'[k]
  <2> TAKE k \in 1 .. L + 1
  <2> TAKE i \in 1 .. k
  <2>1. CASE k = L + 1 /\ i = k
    BY <2>1, <1>4, <1>7
  <2>2. CASE k = L + 1 /\ i # k
    <3>1. i \in 1 .. L
      BY <2>2, <1>1
    <3>2. ends[i] <= last /\ ends[i] \in Nat
      BY <3>1, <1>1, <1>5
    <3> QED BY <3>1, <3>2, <2>2, <1>3, <1>4, <1>7
  <2>3. CASE k # L + 1
    <3>1. k \in 1 .. L /\ i \in 1 .. L
      BY <2>3, <1>1
    <3> QED BY <3>1, <1>1, <1>7
  <2> QED BY <2>1, <2>2, <2>3
<1>13. \A k \in 1 .. L + 1 : sent'[k].kind = "bytes" => End(k - 1)' % 8 = 0
  <2> TAKE k \in 1 .. L + 1
  <2>1. CASE k = L + 1
    <3>1. k - 1 = L /\ L \in 0 .. L
      BY <2>1, <1>1
    <3>2. End(k - 1)' = last
      BY <3>1, <1>8 DEF Last
    <3> QED BY <3>2, <2>1, <1>6
  <2>2. CASE k # L + 1
    <3>1. k \in 1 .. L /\ k - 1 \in 0 .. L
      BY <2>2, <1>1
    <3> QED BY <3>1, <1>1, <1>6, <1>8
  <2> QED BY <2>1, <2>2
<1>14. Ended'
  BY <1>6, <1>7, <1>10, <1>11, <1>12, <1>13 DEF Ended
<1> QED BY <1>1, <1>2, <1>3, <1>4, <1>5, <1>6, <1>8, <1>9, <1>14 DEF new

\* The numbers of a writer that has been given m bits more: d is that
\* writer, size and dsize what the two keep, last and next the ends of what
\* was sent.
LEMMA SendSizes ==
    ASSUME NEW cap \in Nat, NEW size \in Nat, NEW dsize \in Nat, NEW m \in Nat,
           NEW last \in Nat, NEW next \in Nat, last <= next,
           NEW full \in BOOLEAN, NEW dfull \in BOOLEAN, NEW over \in BOOLEAN,
           full => size = 8 * cap /\ last >= 8 * cap /\ over,
           ~ full => size = last /\ next = last + m,
           dsize = IF over /\ size + m >= 8 * cap THEN 8 * cap ELSE size + m,
           dfull <=> over /\ dsize = 8 * cap
    PROVE  /\ IF dfull THEN next >= 8 * cap ELSE dsize = next
           /\ dsize >= size \/ (dsize = 8 * cap /\ dsize < size)
           /\ \A e \in Nat : e <= dsize /\ e <= last => e <= size
           /\ full /\ next <= dsize => next = last
           /\ ~ full /\ next <= dsize => dsize = size + m
OBVIOUS

\* An item is sent: its bits are appended by the family in use.
LEMMA SendKeeps ==
    ASSUME IInv, pc = "send", NEW d, Keeps(bw, d), NEW bits \in Seq(Bit),
           Longer(bw, d, order, bits), NEW item, item.order = order,
           ~ Full(bw) => EndAfter(Last, item) = Last + Len(bits),
           item.kind # "boundary" => bits = BitsOf(item),
           item.kind = "bytes" => ~ Full(bw) /\ Last % 8 = 0,
           Sendable(item), Sending(item, d)
    PROVE  IInv'
<1> DEFINE o == order  b == bw  next == EndAfter(Last, item)
           cap == Len(bw.buffer)
<1>0. PICK L, last : L = Len(sent) /\ last = Last
  OBVIOUS
<1>1. /\ bw' = d /\ sent' = Append(sent, item)
      /\ ends' = Append(ends, EndAfter(last, item))
      /\ br' = br /\ got' = got /\ part' = part /\ order' = order /\ pc' = pc
  BY <1>0 DEF Sending, Last
<1>2. /\ Ended /\ Good(bw) /\ Kept /\ order \in Orders
      /\ IF Full(bw) THEN last >= 8 * Len(bw.buffer) ELSE Size(bw) = last
      /\ TurnsBetweenBytes(Len(bw.buffer))
      /\ br = bs_reader_init(<< >>) /\ got = << >> /\ part = << >>
  BY <1>0 DEF IInv, Sender
<1>3. /\ Ended'
      /\ L \in Nat /\ Len(sent') = L + 1
      /\ \A k \in 0 .. L : End(k)' = End(k) /\ End(k) \in Nat
      /\ \A k \in 1 .. L : sent'[k] = sent[k] /\ End(k) <= last
      /\ sent'[L + 1] = item
      /\ Last' = EndAfter(last, item)
      /\ last \in Nat /\ Last' \in Nat /\ last <= Last'
  BY <1>0, <1>1, <1>2, OneMore
<1>4. /\ Good(d) /\ Len(d.buffer) = cap /\ cap \in Nat
      /\ Len(bits) \in Nat /\ Size(bw) \in Nat /\ Size(d) \in Nat
  BY <1>2, WriterFields, KeptBits DEF Keeps, Appends, Good
<1>5. /\ Size(d) = IF d.overflow /\ Size(bw) + Len(bits) >= 8 * cap
                   THEN 8 * cap ELSE Size(bw) + Len(bits)
      /\ \A j \in 1 .. Size(d) :
           BitAt(d, o, j) = IF j <= Size(bw) THEN BitAt(bw, o, j)
                            ELSE bits[j - Size(bw)]
  BY <1>2, <1>4, LongerBits
<1>6. /\ IF Full(d) THEN Last' >= 8 * cap ELSE Size(d) = Last'
      /\ \A e \in Nat : e <= Size(d) /\ e <= last => e <= Size(bw)
      /\ Full(bw) /\ Last' <= Size(d) => Last' = last
      /\ ~ Full(bw) /\ Last' <= Size(d) => Size(d) = Size(bw) + Len(bits)
  <2>1. /\ Full(bw) \in BOOLEAN /\ Full(d) \in BOOLEAN /\ d.overflow \in BOOLEAN
        /\ Full(d) <=> d.overflow /\ Size(d) = 8 * cap
    BY <1>2, <1>4, FullSize, WriterFields DEF Full, Good
  <2>2. Full(bw) => Size(bw) = 8 * cap /\ last >= 8 * cap /\ d.overflow
    BY <1>2, FullSize DEF Keeps, Appends
  <2>3. ~ Full(bw) => Size(bw) = last /\ Last' = last + Len(bits)
    BY <1>0, <1>2, <1>3
  <2> HIDE DEF cap
  <2> QED BY <2>1, <2>2, <2>3, <1>3, <1>4, <1>5, SendSizes
<1>7. Kept'
  <2> SUFFICES ASSUME NEW k \in 1 .. L + 1, End(k)' <= Size(d)
               PROVE  /\ End(k)' <= 8 * d.byte_pos \/ sent'[k].order = o
                      /\ Placed(d, sent'[k], End(k - 1)')
    BY <1>1, <1>3 DEF Kept
  <2>1. CASE k \in 1 .. L
    <3> DEFINE e == End(k)  it == sent[k]  at == End(k - 1)
               n == Len(BitsOf(sent[k]))
    <3>1. k - 1 \in 0 .. L /\ k \in 0 .. L
      BY <2>1, <1>3
    <3>2. /\ e \in Nat /\ at \in Nat /\ e <= last
          /\ End(k)' = e /\ End(k - 1)' = at /\ sent'[k] = it
      BY <2>1, <3>1, <1>3
    <3>3. e <= Size(d) /\ e <= Size(bw)
      BY <3>2, <1>6
    <3>4. (e <= 8 * bw.byte_pos \/ it.order = o) /\ Placed(bw, it, at)
      BY <2>1, <3>3, <1>0, <1>2 DEF Kept
    <3>5. n \in Nat /\ at + n <= e
      <4>1. Sendable(it) /\ e = EndAfter(at, it)
        BY <2>1, <1>0, <1>2 DEF Ended
      <4> HIDE DEF e, it, at
      <4>2. Len(BitsOf(it)) \in Nat /\ at + Len(BitsOf(it)) <= EndAfter(at, it)
        BY <4>1, <3>2, ItemSizes
      <4> QED BY <4>1, <4>2 DEF it
    <3> HIDE DEF e, at
    <3>6. /\ e <= 8 * d.byte_pos \/ it.order = o
          /\ \A j \in 1 .. e : BitAt(d, it.order, j) = BitAt(bw, it.order, j)
      <4>1. /\ Longer(bw, d, o, bits) /\ Keeps(bw, d) /\ Good(bw)
            /\ e \in Nat /\ e <= Size(bw) /\ e <= Size(d)
            /\ e <= 8 * bw.byte_pos \/ it.order = o
            /\ bits \in Seq(Bit)
        BY <3>2, <3>3, <3>4, <1>2
      <4> HIDE DEF it, o
      <4> QED BY <4>1, BitsStay
    <3>7. \A j \in 1 .. n : at + j \in 1 .. e
      BY <3>2, <3>5
    <3>8. Placed(d, it, at)
      BY <3>4, <3>6, <3>7 DEF Placed
    <3> QED BY <3>2, <3>6, <3>8
  <2>2. CASE k = L + 1
    <3>1. k - 1 = L /\ L \in 0 .. L /\ k = Len(sent')
      BY <2>2, <1>3
    <3>2. End(k - 1)' = last /\ sent'[k] = item /\ End(k)' = Last'
      BY <3>1, <2>2, <1>0, <1>3 DEF Last
    <3>3. Last' <= Size(d)
      BY <3>2
    <3>4. Placed(d, item, last)
      <4>1. CASE item.kind = "boundary"
        <5>1. Len(BitsOf(item)) = 0
          BY <4>1, <1>3, ItemSizes
        <5> QED BY <5>1 DEF Placed
      <4>2. CASE item.kind # "boundary" /\ Full(bw)
        <5>1. Last' = last /\ Last' = last + Len(BitsOf(item))
          BY <4>2, <3>3, <1>3, <1>6, ItemSizes
        <5>2. Len(BitsOf(item)) \in Nat
          BY <1>3, ItemSizes
        <5>3. Len(BitsOf(item)) = 0
          BY <5>1, <5>2, <1>3
        <5> QED BY <5>3 DEF Placed
      <4>3. CASE item.kind # "boundary" /\ ~ Full(bw)
        <5>1. bits = BitsOf(item) /\ Size(bw) = last
              /\ Size(d) = last + Len(bits)
          BY <4>3, <3>3, <1>2, <1>6
        <5>2. ASSUME NEW j \in 1 .. Len(bits)
              PROVE  BitAt(d, item.order, last + j) = bits[j]
          <6>1. /\ last + j \in 1 .. Size(d) /\ ~ (last + j <= last)
                /\ (last + j) - last = j
            BY <5>1, <1>3, <1>4
          <6> QED BY <6>1, <5>1, <1>5
        <5> QED BY <5>1, <5>2 DEF Placed
      <4> QED BY <4>1, <4>2, <4>3
    <3> QED BY <3>2, <3>4
  <2> QED BY <2>1, <2>2, <1>3
<1>8. TurnsBetweenBytes(Len(bw.buffer))'
  <2> SUFFICES ASSUME NEW k \in 1 .. L + 1,
                      sent'[k].order # NextOrder(k)', End(k)' <= 8 * cap
               PROVE  End(k)' % 8 = 0
    BY <1>1, <1>3, <1>4 DEF TurnsBetweenBytes
  <2>1. CASE k = L + 1
    <3>1. NextOrder(k)' = o
      BY <2>1, <1>1, <1>3 DEF NextOrder
    <3> QED BY <3>1, <2>1, <1>3
  <2>2. CASE k \in 1 .. L
    <3>1. NextOrder(k)' = NextOrder(k)
      <4>1. CASE k = L
        BY <4>1, <1>0, <1>3 DEF NextOrder
      <4>2. CASE k < L
        <5>1. k + 1 \in 1 .. L /\ k < L + 1
          BY <4>2, <2>2, <1>3
        <5> QED BY <5>1, <4>2, <1>0, <1>3 DEF NextOrder
      <4> QED BY <4>1, <4>2, <2>2, <1>3
    <3>2. k \in 0 .. L
      BY <2>2
    <3>3. sent[k].order # NextOrder(k) /\ End(k) <= 8 * Len(bw.buffer)
      BY <2>2, <3>1, <3>2, <1>3
    <3>4. End(k) % 8 = 0
      BY <2>2, <3>3, <1>0, <1>2 DEF TurnsBetweenBytes
    <3> QED BY <3>2, <3>4, <1>3
  <2> QED BY <2>1, <2>2, <1>3
<1>9. Sender'
  BY <1>1, <1>2, <1>4, <1>6, <1>7, <1>8 DEF Sender, Size, Full, Good, Within, Fits
<1>10. Within(bw')
  BY <1>1, <1>4 DEF Good
<1> QED BY <1>1, <1>2, <1>3, <1>9, <1>10 DEF IInv, Within

\* What the calls of the sender make of a good writer, family by family.
LEMMA FieldsWritten ==
    ASSUME order \in Orders, Good(bw), NEW value \in Values, NEW n \in Counts
    PROVE  /\ LET d == IF order = "msb"
                       THEN bs_write_bits(bw, value, n, "masked")
                       ELSE bs_write_bits_lsb(bw, value, n, "masked")
              IN  Keeps(bw, d) /\ Longer(bw, d, order, SentBits(order, value, n))
           /\ Clean(value, n) =>
              LET d == IF order = "msb"
                       THEN bs_write_bits_unchecked(bw, value, n, "masked")
                       ELSE bs_write_bits_lsb_unchecked(bw, value, n, "masked")
              IN  Keeps(bw, d) /\ Longer(bw, d, order, SentBits(order, value, n))
<1>1. n \in 0 .. MaxBits /\ n > 0 /\ value \in Word(MaxBits)
  BY TransferAssumption, WidthFacts
<1>2. order \in {"msb", "lsb"}
  BY DEF Orders
<1>3. CASE order = "msb"
  <2>1. /\ Keeps(bw, bs_write_bits(bw, value, n, "masked"))
        /\ Clean(value, n) =>
             Keeps(bw, bs_write_bits_unchecked(bw, value, n, "masked"))
    BY <1>1, MsbWrites
  <2>2. /\ Longer(bw, bs_write_bits(bw, value, n, "masked"), "msb",
                  SentBits("msb", value, n))
        /\ Clean(value, n) =>
             Longer(bw, bs_write_bits_unchecked(bw, value, n, "masked"), "msb",
                    SentBits("msb", value, n))
    BY <1>1, WritesLonger
  <2> QED BY <2>1, <2>2, <1>3, Zenon
<1>4. CASE order = "lsb"
  <2>1. /\ Keeps(bw, bs_write_bits_lsb(bw, value, n, "masked"))
        /\ Clean(value, n) =>
             Keeps(bw, bs_write_bits_lsb_unchecked(bw, value, n, "masked"))
    BY <1>1, LsbWrites
  <2>2. /\ Longer(bw, bs_write_bits_lsb(bw, value, n, "masked"), "lsb",
                  SentBits("lsb", value, n))
        /\ Clean(value, n) =>
             Longer(bw, bs_write_bits_lsb_unchecked(bw, value, n, "masked"),
                    "lsb", SentBits("lsb", value, n))
    BY <1>1, WritesLonger
  <2>3. order # "msb"
    BY <1>4
  <2> QED BY <2>1, <2>2, <2>3, <1>4, Zenon
<1> QED BY <1>2, <1>3, <1>4

LEMMA BoundaryWritten ==
    ASSUME order \in Orders, Good(bw)
    PROVE  /\ Drains(bw, Align(bw)) /\ Longer(bw, Align(bw), order, PadOf(bw))
           /\ Drains(bw, Flush(bw)) /\ Longer(bw, Flush(bw), order, PadOf(bw))
<1>1. order \in {"msb", "lsb"}
  BY DEF Orders
<1>2. CASE order = "msb"
  <2>1. /\ Align(bw) = bs_writer_align(bw, "masked")
        /\ Flush(bw) = bs_writer_flush(bw, "masked")
    BY <1>2 DEF Align, Flush
  <2> QED BY <2>1, <1>2, AlignDrains, AlignLonger, FlushDrainsCall, FlushLonger
<1>3. CASE order = "lsb"
  <2>1. /\ Align(bw) = bs_writer_align_lsb(bw, "masked")
        /\ Flush(bw) = bs_writer_flush_lsb(bw, "masked")
    BY <1>3 DEF Align, Flush
  <2> QED BY <2>1, <1>3, AlignDrains, AlignLonger, FlushDrainsCall, FlushLonger
<1> QED BY <1>1, <1>2, <1>3

\* Up to the next boundary the writer pads with as many zeros as the items
\* are short of it.
LEMMA PadSize ==
    ASSUME IInv, pc = "send", ~ Full(bw)
    PROVE  /\ PadOf(bw) \in Seq(Bit) /\ Len(PadOf(bw)) \in Nat
           /\ EndAfter(Last, Boundary) = Last + Len(PadOf(bw))
           /\ Size(bw) = Last /\ Last \in Nat
           /\ (Last + Len(PadOf(bw))) % 8 = 0 /\ Len(PadOf(bw)) < 8
<1>1. Good(bw) /\ Size(bw) = Last /\ order \in Orders
  BY DEF IInv, Sender
<1>2. Last \in Nat
  BY <1>1, KeptBits
<1>3. PadOf(bw) \in Seq(Bit)
  BY <1>1, PadIs
<1>4. (8 - (Last % 8)) % 8 \in Nat
  BY <1>2
<1>5. Len(PadOf(bw)) = (8 - (Last % 8)) % 8
  BY <1>1, <1>4 DEF PadOf
<1>6. EndAfter(Last, Boundary) = Last + ((8 - (Last % 8)) % 8)
  BY <1>1, <1>2, Shapes, ItemSizes
<1>7. /\ (Last + ((8 - (Last % 8)) % 8)) % 8 = 0
      /\ (8 - (Last % 8)) % 8 < 8
  BY <1>2
<1> QED BY <1>1, <1>2, <1>3, <1>4, <1>5, <1>6, <1>7

LEMMA SendBitsKeeps ==
    ASSUME IInv, NEW value \in Values, NEW n \in Counts, SendBits(value, n)
    PROVE  IInv'
<1> DEFINE item == Bits(n, value)  bits == SentBits(order, value, n)
<1>1. pc = "send" /\ Good(bw) /\ order \in Orders /\ Last \in Nat
  <2>1. pc = "send"
    BY DEF SendBits, Sending
  <2>2. Len(sent) \in Nat /\ ends \in Seq(Nat) /\ Len(ends) = Len(sent)
    BY DEF IInv, Ended
  <2> QED BY <2>1, <2>2 DEF IInv, Sender, Last, End
<1>2. PICK d : Keeps(bw, d) /\ Longer(bw, d, order, bits) /\ Sending(item, d)
  <2>1. /\ LET d == IF order = "msb"
                    THEN bs_write_bits(bw, value, n, "masked")
                    ELSE bs_write_bits_lsb(bw, value, n, "masked")
           IN  Keeps(bw, d) /\ Longer(bw, d, order, bits)
        /\ Clean(value, n) =>
           LET d == IF order = "msb"
                    THEN bs_write_bits_unchecked(bw, value, n, "masked")
                    ELSE bs_write_bits_lsb_unchecked(bw, value, n, "masked")
           IN  Keeps(bw, d) /\ Longer(bw, d, order, bits)
    BY <1>1, FieldsWritten
  <2> HIDE DEF item, bits
  <2> QED BY <2>1, Zenon DEF SendBits, item
<1>3. /\ Sendable(item) /\ item.order = order /\ item.kind = "bits"
      /\ item.n = n /\ item.value = Low(value, n)
  BY <1>1, Shapes
<1>4. /\ n \in 0 .. MaxBits /\ value \in Word(MaxBits)
      /\ bits \in Seq(Bit) /\ Len(bits) = n
      /\ SentBits(order, Low(value, n), n) = bits
  <2>1. n \in 0 .. MaxBits /\ value \in Word(MaxBits)
    BY TransferAssumption, WidthFacts
  <2> QED BY <2>1, FieldIs
<1> HIDE DEF item, bits
<1>5. BitsOf(item) = bits
  BY <1>3, <1>4 DEF BitsOf
<1>6. EndAfter(Last, item) = Last + Len(bits)
  BY <1>1, <1>3, <1>5, ItemSizes
<1>7. item.kind # "bytes" /\ item.kind # "boundary"
  BY <1>3
<1> QED BY <1>1, <1>2, <1>3, <1>4, <1>5, <1>6, <1>7, SendKeeps

LEMMA SendBoundaryKeeps ==
    ASSUME IInv, SendBoundary PROVE IInv'
<1>1. pc = "send" /\ Good(bw) /\ order \in Orders
  BY DEF SendBoundary, Sending, IInv, Sender
<1>2. PICK d \in {Align(bw), Flush(bw)} : Sending(Boundary, d)
  BY DEF SendBoundary
<1>3. Keeps(bw, d) /\ Longer(bw, d, order, PadOf(bw))
  BY <1>1, <1>2, BoundaryWritten DEF Drains
<1>4. /\ Sendable(Boundary) /\ Boundary.order = order
      /\ Boundary.kind = "boundary"
  BY <1>1, Shapes
<1>5. PadOf(bw) \in Seq(Bit)
  BY <1>1, PadIs
<1>6. ~ Full(bw) => EndAfter(Last, Boundary) = Last + Len(PadOf(bw))
  BY <1>1, PadSize
<1>7. Boundary.kind # "bytes"
  BY <1>4
<1> HIDE DEF Boundary
<1> QED BY <1>1, <1>2, <1>3, <1>4, <1>5, <1>6, <1>7, SendKeeps

\* A bulk copy that is made appends its bytes as any family would.
LEMMA CopyIsLonger ==
    ASSUME Good(bw), NEW chunk \in Seq(Byte), NEW o, can_write_bytes(bw, chunk)
    PROVE  Longer(bw, bs_write_bytes(bw, chunk), o, CopyOf(o, chunk))
<1> DEFINE d == bs_write_bytes(bw, chunk)  bits == CopyOf(o, chunk)
           cap == Len(bw.buffer)  n == Size(bw) + Len(bits)
<1>1. /\ d.overflow = bw.overflow
      /\ KeptOf(d, o) = KeptOf(bw, o) \o bits
  BY CopyLonger
<1>2. bits \in Seq(Bit) /\ Len(bits) = 8 * Len(chunk)
  BY CopyBits
<1>3. ~ bw.overflow /\ Size(bw) + 8 * Len(chunk) <= 8 * cap
  BY CopyGuards
<1>4. Len(KeptOf(bw, o) \o bits) = n /\ n \in Nat
  BY <1>2, Appended
<1>5. cap \in Nat /\ bw.overflow \in BOOLEAN
  BY WriterFields DEF Good
<1> HIDE DEF d, bits, cap
<1>6. ~ (n >= 8 * (cap + 1))
  BY <1>2, <1>3, <1>4, <1>5
<1> QED BY <1>1, <1>3, <1>4, <1>5, <1>6 DEF Longer, cap, d, bits

LEMMA SendBytesKeeps ==
    ASSUME IInv, NEW chunk \in Chunks, SendBytes(chunk) PROVE IInv'
<1> DEFINE item == Bytes(chunk)  d == bs_write_bytes(bw, chunk)
<1>1. pc = "send" /\ Good(bw) /\ order \in Orders
  BY DEF SendBytes, Sending, IInv, Sender
<1>2. chunk \in Seq(Byte)
  BY TransferAssumption
<1>3. Keeps(bw, d)
  BY <1>1, <1>2, WriteBytesKeeps
<1>4. CASE can_write_bytes(bw, chunk)
  <2>1. Sending(item, d)
    BY <1>4 DEF SendBytes
  <2>2. /\ Sendable(item) /\ item.order = order /\ item.kind = "bytes"
        /\ item.n = Len(chunk) /\ item.bytes = chunk
    BY <1>1, <1>2, Shapes
  <2>3. Longer(bw, d, order, CopyOf(order, chunk))
    BY <1>1, <1>2, <1>4, CopyIsLonger
  <2>4. CopyOf(order, chunk) \in Seq(Bit)
    BY <1>2, CopyBits
  <2>5. ~ bw.overflow /\ Size(bw) % 8 = 0
    BY <1>1, <1>2, <1>4, CopyGuards
  <2>6. ~ Full(bw)
    BY <2>5 DEF Full
  <2>7. Last \in Nat /\ Last % 8 = 0
    BY <1>1, <2>5, <2>6, PadSize
  <2> HIDE DEF item, d
  <2>8. CopyOf(order, chunk) = BitsOf(item)
    BY <2>2 DEF BitsOf
  <2>9. EndAfter(Last, item) = Last + Len(CopyOf(order, chunk))
    BY <2>2, <2>7, <2>8, ItemSizes
  <2> QED BY <1>1, <1>3, <2>1, <2>2, <2>3, <2>4, <2>6, <2>7, <2>8, <2>9, SendKeeps
<1>5. CASE ~ can_write_bytes(bw, chunk)
  <2>1. bw' = d /\ UNCHANGED << sent, ends, br, got, part, order, pc >>
    BY <1>5 DEF SendBytes
  <2>2. Len(d.buffer) = Len(bw.buffer)
    BY <1>1, <1>2, <1>5, NoCopyKeeps
  <2>3. ASSUME NEW o
        PROVE  /\ Size(d) = Size(bw)
               /\ \A j \in 1 .. Size(bw) : BitAt(d, o, j) = BitAt(bw, o, j)
    <3>1. KeptOf(d, o) = KeptOf(bw, o)
      BY <1>1, <1>2, <1>5, NoCopyKeeps
    <3>2. Len(KeptOf(d, o)) = Size(d) /\ Len(KeptOf(bw, o)) = Size(bw)
      BY <1>1, <1>3, KeptBits DEF Keeps
    <3>3. Size(d) = Size(bw)
      BY <3>1, <3>2
    <3> HIDE DEF d
    <3>4. ASSUME NEW j \in 1 .. Size(bw)
          PROVE  BitAt(d, o, j) = BitAt(bw, o, j)
      <4>1. KeptOf(d, o)[j] = BitAt(d, o, j)
        BY <3>3 DEF KeptOf
      <4>2. KeptOf(bw, o)[j] = BitAt(bw, o, j)
        BY DEF KeptOf
      <4> QED BY <3>1, <4>1, <4>2
    <3> QED BY <3>3, <3>4
  <2>4. /\ Ended /\ Kept /\ TurnsBetweenBytes(Len(bw.buffer))
        /\ br = bs_reader_init(<< >>) /\ got = << >> /\ part = << >>
        /\ IF Full(bw) THEN Last >= 8 * Len(bw.buffer) ELSE Size(bw) = Last
    BY <1>1 DEF IInv, Sender
  <2>5. /\ Good(d) /\ d.byte_pos \in Nat /\ bw.byte_pos \in Nat
        /\ d.byte_pos >= bw.byte_pos /\ Size(d) \in Nat /\ Size(bw) \in Nat
        /\ Len(bw.buffer) \in Nat
    BY <1>1, <1>3, WriterFields, KeptBits DEF Keeps, Appends, Good
  <2>6. /\ sent \in Seq(ItemType) /\ ends \in Seq(Nat) /\ Len(ends) = Len(sent)
        /\ \A k \in 1 .. Len(sent) : Sendable(sent[k])
        /\ \A k \in 1 .. Len(sent) : End(k) = EndAfter(End(k - 1), sent[k])
    BY <2>4 DEF Ended
  <2>7. \A k \in 0 .. Len(sent) : End(k) \in Nat
    BY <2>6 DEF End
  <2> HIDE DEF d
  <2>8. ASSUME NEW k \in 1 .. Len(sent), End(k) <= Size(d)
        PROVE  /\ End(k) <= 8 * d.byte_pos \/ sent[k].order = order
               /\ Placed(d, sent[k], End(k - 1))
    <3>1. /\ End(k) <= 8 * bw.byte_pos \/ sent[k].order = order
          /\ Placed(bw, sent[k], End(k - 1)) /\ End(k) <= Size(bw)
      BY <2>3, <2>4, <2>8 DEF Kept
    <3>2. End(k) \in Nat /\ End(k - 1) \in Nat
      <4>1. k \in 0 .. Len(sent) /\ k - 1 \in 0 .. Len(sent)
        BY <2>6
      <4> QED BY <4>1, <2>7
    <3>3. /\ Len(BitsOf(sent[k])) \in Nat
          /\ End(k - 1) + Len(BitsOf(sent[k])) <= End(k)
      <4> DEFINE it == sent[k]  at == End(k - 1)
      <4>1. Sendable(it) /\ at \in Nat /\ End(k) = EndAfter(at, it)
        BY <2>6, <3>2
      <4> HIDE DEF it, at
      <4>2. Len(BitsOf(it)) \in Nat /\ at + Len(BitsOf(it)) <= EndAfter(at, it)
        BY <4>1, ItemSizes
      <4> QED BY <4>1, <4>2 DEF it, at
    <3>4. \A j \in 1 .. Len(BitsOf(sent[k])) : End(k - 1) + j \in 1 .. Size(bw)
      BY <2>5, <3>1, <3>2, <3>3, SMTT(30)
    <3>5. Placed(d, sent[k], End(k - 1))
      BY <2>3, <3>1, <3>4 DEF Placed
    <3> QED BY <3>1, <3>2, <3>5, <2>5
  <2>9. Kept'
    BY <2>1, <2>8 DEF Kept, End
  <2>10. TurnsBetweenBytes(Len(bw.buffer))'
    BY <2>1, <2>2, <2>4 DEF TurnsBetweenBytes, NextOrder, End
  <2>11. Ended' /\ Last' = Last /\ Last \in Nat
    BY <2>1, <2>4, <2>6, <2>7 DEF Ended, End, Last
  <2>12. IF Full(d) THEN Last >= 8 * Len(d.buffer) ELSE Size(d) = Last
    <3>1. CASE Full(bw)
      <4>1. bw.overflow => d.overflow
        BY <1>3 DEF Keeps, Appends
      <4>2. Full(d)
        BY <4>1, <3>1, <1>1, <2>2, <2>3, <2>5, FullSize
      <4> QED BY <4>2, <3>1, <2>2, <2>4
    <3>2. CASE ~ Full(bw)
      <4>1. Size(bw) = Last /\ Size(d) = Last
        BY <3>2, <2>3, <2>4
      <4>2. Full(d) => Size(d) = 8 * Len(d.buffer)
        BY <2>5, FullSize
      <4> QED BY <4>1, <4>2, <2>2, <2>5, <2>11
    <3> QED BY <3>1, <3>2
  <2>13. Sender'
    <3>1. Size(bw)' = Size(d) /\ (Full(bw)' <=> Full(d)) /\ Good(bw)'
      BY <2>1, <2>5
    <3>2. IF Full(d) THEN Last' >= 8 * Len(bw'.buffer) ELSE Size(d) = Last'
      BY <2>1, <2>11, <2>12
    <3>3. br' = bs_reader_init(<< >>) /\ got' = << >> /\ part' = << >>
      BY <2>1, <2>4
    <3> QED BY <3>1, <3>2, <3>3, <2>9, <2>10 DEF Sender
  <2> QED BY <1>1, <2>1, <2>5, <2>11, <2>13 DEF IInv, Good
<1> QED BY <1>4, <1>5

\* Where no bit is enqueued the items have filled whole bytes, or the memory.
LEMMA SenderTurnsKeeps ==
    ASSUME IInv, SenderTurns PROVE IInv'
<1> DEFINE cap == Len(bw.buffer)
<1>1. /\ pc = "send" /\ bw.bits_in_cache = 0 /\ order' \in Orders
      /\ UNCHANGED << bw, sent, ends, br, got, part, pc >>
  BY DEF SenderTurns
<1>2. /\ Ended /\ Good(bw) /\ Kept /\ TurnsBetweenBytes(cap)
      /\ br = bs_reader_init(<< >>) /\ got = << >> /\ part = << >>
      /\ IF Full(bw) THEN Last >= 8 * Len(bw.buffer) ELSE Size(bw) = Last
  BY <1>1 DEF IInv, Sender
<1>3. Ended' /\ Last' = Last
  BY <1>1, <1>2 DEF Ended, End, Last
<1>4. /\ bw.byte_pos \in Nat /\ cap \in Nat
      /\ Full(bw) => bw.byte_pos = cap
      /\ Size(bw) = 8 * bw.byte_pos
  BY <1>1, <1>2, WriterFields DEF Full, Size, Good
<1>5. \A k \in 1 .. Len(sent) : End(k) \in Nat
  <2>1. ends \in Seq(Nat) /\ Len(ends) = Len(sent)
    BY <1>2 DEF Ended
  <2> QED BY <2>1 DEF End
<1>6. Kept'
  <2>1. ASSUME NEW k \in 1 .. Len(sent), End(k) <= Size(bw)
        PROVE  End(k) <= 8 * bw.byte_pos /\ Placed(bw, sent[k], End(k - 1))
    BY <2>1, <1>2, <1>4 DEF Kept
  <2> QED BY <2>1, <1>1 DEF Kept, End
<1>7. TurnsBetweenBytes(Len(bw.buffer))'
  <2> SUFFICES ASSUME NEW k \in 1 .. Len(sent),
                      sent[k].order # NextOrder(k)', End(k) <= 8 * cap
               PROVE  End(k) % 8 = 0
    BY <1>1 DEF TurnsBetweenBytes, End
  <2>1. CASE k < Len(sent)
    <3>1. NextOrder(k)' = NextOrder(k)
      BY <2>1, <1>1 DEF NextOrder
    <3> QED BY <3>1, <1>2 DEF TurnsBetweenBytes
  <2>2. CASE ~ (k < Len(sent))
    <3>1. k = Len(sent) /\ End(k) = Last
      BY <2>2 DEF Last
    <3>2. Last \in Nat /\ Last <= 8 * cap
      BY <3>1, <1>5
    <3>3. Last = 8 * bw.byte_pos
      BY <3>2, <1>2, <1>4
    <3> QED BY <3>1, <3>3, <1>4
  <2> QED BY <2>1, <2>2
<1>8. Sender'
  BY <1>1, <1>2, <1>3, <1>6, <1>7 DEF Sender
<1> QED BY <1>1, <1>2, <1>3, <1>8 DEF IInv, Good

---------------------------------------------------------------------------
\* The steps: opening the memory.

\* The numbers of a flush: size is what the writer has kept before it and
\* dsize what it has after it, of which pos bytes and c bits are stored and
\* enqueued.
LEMMA FlushSizes ==
    ASSUME NEW cap \in Nat, NEW size \in Nat, NEW dsize \in Nat,
           NEW pad \in Nat, NEW last \in Nat, NEW pos \in Nat, NEW c \in Nat,
           NEW full \in BOOLEAN, NEW dfull \in BOOLEAN,
           NEW over \in BOOLEAN, NEW dover \in BOOLEAN, pos <= cap,
           full => size = 8 * cap /\ last >= 8 * cap /\ over,
           ~ full => size = last /\ (last + pad) % 8 = 0 /\ pad < 8,
           dover <=> over \/ size + pad >= 8 * (cap + 1),
           dsize = IF dover /\ size + pad >= 8 * cap THEN 8 * cap
                   ELSE size + pad,
           dfull <=> dover /\ dsize = 8 * cap,
           IF dfull THEN dsize = 8 * pos ELSE dsize = 8 * pos + c /\ c < 8,
           dover \/ c = 0
    PROVE  /\ dsize = 8 * pos
           /\ \A e \in Nat : e <= 8 * pos /\ e <= last => e <= size /\ e <= dsize
           /\ ~ dover => last <= 8 * pos
           /\ last <= 8 * pos =>
                /\ 8 * pos - last < 8
                /\ 8 * pos > last => /\ size = last /\ dsize = last + pad
                                     /\ last % 8 # 0
<1>1. CASE full
  <2>1. dover /\ dsize = 8 * cap
    BY <1>1
  <2>2. dfull
    BY <2>1
  <2>3. dsize = 8 * pos
    BY <2>2
  <2> QED BY <1>1, <2>1, <2>3
<1>2. CASE ~ full
  <2>1. size = last /\ (last + pad) % 8 = 0 /\ pad < 8
    BY <1>2
  <2>2. dsize % 8 = 0
    BY <2>1
  <2>3. dsize = 8 * pos
    BY <2>2
  <2>4. ~ dover => dsize = last + pad
    BY <2>1
  <2>5. last <= 8 * cap => last + pad <= 8 * cap
    BY <2>1
  <2>6. last <= 8 * pos => dsize = last + pad
    <3>1. last <= 8 * pos => last + pad <= 8 * cap
      BY <2>5
    <3>2. CASE dover /\ size + pad >= 8 * cap
      <4>1. dsize = 8 * cap
        BY <3>2
      <4> QED BY <3>1, <3>2, <4>1, <2>1, <2>3
    <3>3. CASE ~ (dover /\ size + pad >= 8 * cap)
      BY <3>3, <2>1
    <3> QED BY <3>2, <3>3
  <2>7. dsize = last + pad /\ last % 8 = 0 => dsize = last
    BY <2>1
  <2> QED BY <2>1, <2>3, <2>4, <2>6, <2>7
<1> QED BY <1>1, <1>2

LEMMA FlushAndOpenKeeps ==
    ASSUME IInv, FlushAndOpen PROVE IInv'
<1> DEFINE d == Flush(bw)  pad == PadOf(bw)  cap == Len(bw.buffer)
           w == WireOf(Flush(bw))  o == order
<1>0. PICK L, last : L = Len(sent) /\ last = Last
  OBVIOUS
<1>1. /\ pc = "send" /\ bw' = d /\ br' = bs_reader_init(w) /\ pc' = "receive"
      /\ UNCHANGED << sent, ends, got, part, order >>
  BY DEF FlushAndOpen, WireOf
<1>2. /\ Ended /\ Good(bw) /\ Kept /\ TurnsBetweenBytes(cap)
      /\ br = bs_reader_init(<< >>) /\ got = << >> /\ part = << >>
      /\ IF Full(bw) THEN last >= 8 * cap ELSE Size(bw) = last
      /\ order \in Orders
  BY <1>0, <1>1 DEF IInv, Sender
<1>3. Drains(bw, d) /\ Longer(bw, d, o, pad)
  BY <1>2, BoundaryWritten
<1>4. /\ L \in Nat /\ sent \in Seq(ItemType)
      /\ \A k \in 0 .. L : End(k) \in Nat
      /\ \A k \in 1 .. L : End(k) <= last
      /\ \A k \in 1 .. L : Sendable(sent[k])
      /\ \A k \in 1 .. L : End(k) = EndAfter(End(k - 1), sent[k])
      /\ last \in Nat
  <2>1. /\ L \in Nat /\ sent \in Seq(ItemType)
        /\ ends \in Seq(Nat) /\ Len(ends) = L
        /\ \A k \in 1 .. L : Sendable(sent[k])
        /\ \A k \in 1 .. L : End(k) = EndAfter(End(k - 1), sent[k])
        /\ \A k \in 1 .. L : \A i \in 1 .. k : ends[i] <= ends[k]
    BY <1>0, <1>2 DEF Ended
  <2>2. /\ \A k \in 0 .. L : End(k) \in Nat
        /\ \A k \in 1 .. L : End(k) = ends[k]
    BY <2>1 DEF End
  <2>3. last = IF L = 0 THEN 0 ELSE ends[L]
    BY <1>0 DEF Last, End
  <2> QED BY <2>1, <2>2, <2>3
<1>5. /\ Good(d) /\ Within(d) /\ Keeps(bw, d) /\ Len(d.buffer) = cap
      /\ cap \in Nat /\ d.byte_pos \in Nat /\ d.byte_pos <= cap
      /\ d.bits_in_cache \in Nat /\ pad \in Seq(Bit) /\ Len(pad) \in Nat
      /\ d.overflow \in BOOLEAN /\ bw.overflow \in BOOLEAN
      /\ d.overflow \/ d.bits_in_cache = 0
  <2>1. /\ Keeps(bw, d) /\ Good(d) /\ Within(d) /\ Within(bw)
        /\ Len(d.buffer) = Len(bw.buffer)
        /\ d.overflow \/ d.bits_in_cache = 0
    BY <1>2, <1>3 DEF Drains, Keeps, Appends, Good
  <2>2. pad \in Seq(Bit) /\ Len(pad) \in Nat
    BY <1>2, PadIs
  <2>3. Len(bw.buffer) \in Nat /\ bw.overflow \in BOOLEAN
    BY <2>1, WriterFields
  <2> HIDE DEF d
  <2>4. /\ d.byte_pos \in Nat /\ d.byte_pos <= Len(d.buffer)
        /\ d.bits_in_cache \in Nat /\ d.overflow \in BOOLEAN
    BY <2>1, WriterFields
  <2> HIDE DEF pad
  <2> QED BY <2>1, <2>2, <2>3, <2>4
<1>6. /\ d.overflow <=> bw.overflow \/ Size(bw) + Len(pad) >= 8 * (cap + 1)
      /\ Size(d) = IF d.overflow /\ Size(bw) + Len(pad) >= 8 * cap
                   THEN 8 * cap ELSE Size(bw) + Len(pad)
      /\ \A j \in 1 .. Size(d) :
           BitAt(d, o, j) = IF j <= Size(bw) THEN BitAt(bw, o, j)
                            ELSE pad[j - Size(bw)]
  BY <1>2, <1>3, <1>5, LongerBits
<1>7. /\ w \in Seq(Byte) /\ Len(w) = d.byte_pos
      /\ \A p : \A j \in 1 .. 8 * d.byte_pos : StreamBit(w, p, j - 1) = BitAt(d, p, j)
  BY <1>5, WireBits
<1>8. /\ Size(bw) \in Nat /\ Size(d) \in Nat
      /\ Full(bw) \in BOOLEAN /\ Full(d) \in BOOLEAN
      /\ Full(bw) => Size(bw) = 8 * cap /\ last >= 8 * cap /\ bw.overflow
      /\ ~ Full(bw) => /\ Size(bw) = last /\ (last + Len(pad)) % 8 = 0
                       /\ Len(pad) < 8
      /\ Full(d) <=> d.overflow /\ Size(d) = 8 * cap
      /\ IF Full(d) THEN Size(d) = 8 * d.byte_pos
         ELSE Size(d) = 8 * d.byte_pos + d.bits_in_cache /\ d.bits_in_cache < 8
  <2>1. /\ Full(bw) \in BOOLEAN /\ Full(d) \in BOOLEAN
        /\ Full(d) => Size(d) = 8 * d.byte_pos
    BY <1>5 DEF Full, Size
  <2>2. Full(bw) <=> bw.overflow /\ Size(bw) = 8 * cap
    BY <1>2, FullSize
  <2>3. /\ Full(d) <=> d.overflow /\ Size(d) = 8 * cap
        /\ ~ Full(d) => /\ Size(d) = 8 * d.byte_pos + d.bits_in_cache
                        /\ d.bits_in_cache < 8
        /\ Size(d) \in Nat
    <3>1. Len(d.buffer) = cap /\ Good(d)
      BY <1>5
    <3> HIDE DEF d, cap
    <3> QED BY <3>1, FullSize
  <2>4. ~ Full(bw) => (last + Len(pad)) % 8 = 0 /\ Len(pad) < 8
    BY <1>0, <1>1, PadSize
  <2>5. Size(bw) \in Nat
    BY <1>2, KeptBits
  <2> QED BY <1>2, <2>1, <2>2, <2>3, <2>4, <2>5
<1> DEFINE pos == d.byte_pos
<1> HIDE DEF d, pad, cap, w
<1>9. /\ Size(d) = 8 * pos
      /\ \A e \in Nat : e <= 8 * pos /\ e <= last => e <= Size(bw) /\ e <= Size(d)
      /\ ~ d.overflow => last <= 8 * pos
      /\ last <= 8 * pos =>
           /\ 8 * pos - last < 8
           /\ 8 * pos > last => /\ Size(bw) = last /\ Size(d) = last + Len(pad)
                                /\ last % 8 # 0
  <2> DEFINE c == d.bits_in_cache  n == Len(pad)  size == Size(bw)
             dsize == Size(d)  full == Full(bw)  dfull == Full(d)
             over == bw.overflow  dover == d.overflow
  <2>1. /\ cap \in Nat /\ size \in Nat /\ dsize \in Nat /\ n \in Nat
        /\ last \in Nat /\ pos \in Nat /\ c \in Nat /\ pos <= cap
        /\ full \in BOOLEAN /\ dfull \in BOOLEAN
        /\ over \in BOOLEAN /\ dover \in BOOLEAN
    BY <1>4, <1>5, <1>8
  <2>2. /\ full => size = 8 * cap /\ last >= 8 * cap /\ over
        /\ ~ full => size = last /\ (last + n) % 8 = 0 /\ n < 8
        /\ dover <=> over \/ size + n >= 8 * (cap + 1)
        /\ dsize = IF dover /\ size + n >= 8 * cap THEN 8 * cap
                   ELSE size + n
        /\ dfull <=> dover /\ dsize = 8 * cap
        /\ IF dfull THEN dsize = 8 * pos ELSE dsize = 8 * pos + c /\ c < 8
        /\ dover \/ c = 0
    BY <1>5, <1>6, <1>8
  <2> HIDE DEF c, n, size, dsize, full, dfull, over, dover, pos
  <2>3. /\ dsize = 8 * pos
        /\ \A e \in Nat : e <= 8 * pos /\ e <= last => e <= size /\ e <= dsize
        /\ ~ dover => last <= 8 * pos
        /\ last <= 8 * pos =>
             /\ 8 * pos - last < 8
             /\ 8 * pos > last => /\ size = last /\ dsize = last + n
                                  /\ last % 8 # 0
    BY <2>1, <2>2, FlushSizes
  <2> QED BY <2>3 DEF c, n, size, dsize, full, dfull, over, dover
<1>10. /\ br'.buffer = w /\ Position(br') = 0
       /\ GoodMsb(br') /\ GoodLsb(br')
  BY <1>1, <1>7, OpenedGood DEF bs_reader_init, Position
<1>11. ASSUME NEW k \in 1 .. L, End(k) <= 8 * pos,
              NEW j \in 1 .. Len(BitsOf(sent[k]))
       PROVE  StreamBit(w, sent[k].order, End(k - 1) + j - 1) = BitsOf(sent[k])[j]
  <2> DEFINE it == sent[k]  at == End(k - 1)  e == End(k)
  <2>1. k \in 0 .. L /\ k - 1 \in 0 .. L
    BY <1>4
  <2>2. /\ e \in Nat /\ at \in Nat /\ e <= last /\ Sendable(it)
        /\ e = EndAfter(at, it)
    BY <1>4, <2>1
  <2>3. e <= Size(bw) /\ e <= Size(d)
    BY <1>9, <1>11, <2>2
  <2>4. (e <= 8 * bw.byte_pos \/ it.order = o) /\ Placed(bw, it, at)
    BY <1>0, <1>2, <2>3 DEF Kept
  <2>11. e <= 8 * pos /\ pos \in Nat
    BY <1>11, <1>5
  <2> HIDE DEF it, at, e, o, pos
  <2>5. \A i \in 1 .. e : BitAt(d, it.order, i) = BitAt(bw, it.order, i)
    BY <1>2, <1>3, <1>5, <2>2, <2>3, <2>4, BitsStay
  <2>6. Len(BitsOf(it)) \in Nat /\ at + Len(BitsOf(it)) <= e
    BY <2>2, ItemSizes
  <2>7. j \in 1 .. Len(BitsOf(it))
    BY DEF it
  <2>8. at + j \in 1 .. e /\ at + j \in 1 .. 8 * pos
    BY <2>2, <2>6, <2>7, <2>11
  <2>9. StreamBit(w, it.order, (at + j) - 1) = BitAt(d, it.order, at + j)
    BY <1>7, <2>8 DEF pos
  <2>10. BitAt(d, it.order, at + j) = BitsOf(it)[j]
    <3>1. BitAt(d, it.order, at + j) = BitAt(bw, it.order, at + j)
      BY <2>5, <2>8
    <3>2. BitAt(bw, it.order, at + j) = BitsOf(it)[j]
      BY <2>4, <2>7 DEF Placed
    <3> QED BY <3>1, <3>2
  <2>12. StreamBit(w, it.order, at + j - 1) = BitsOf(it)[j]
    <3>1. at + j - 1 = (at + j) - 1 /\ at \in Nat /\ j \in Nat
      BY <2>2, <2>7
    <3> QED BY <2>9, <2>10, <3>1
  <2> QED BY <2>12, Zenon DEF it, at
<1>12. OnWire'
  <2>1. \A k \in 1 .. L - 1 :
          sent[k].order # sent[k + 1].order /\ End(k) <= 8 * pos
            => End(k) % 8 = 0
    <3> TAKE k \in 1 .. L - 1
    <3>1. k \in 1 .. L /\ k < L /\ k \in 0 .. L
      BY <1>4
    <3>2. NextOrder(k) = sent[k + 1].order
      BY <3>1, <1>0 DEF NextOrder
    <3>3. End(k) \in Nat /\ (End(k) <= 8 * pos => End(k) <= 8 * cap)
      BY <3>1, <1>4, <1>5
    <3> QED BY <3>1, <3>2, <3>3, <1>0, <1>2 DEF TurnsBetweenBytes
  <2>2. Last' = last
    BY <1>0, <1>1 DEF Last, End
  <2>3. \A k \in 1 .. L : End(k) <= 8 * pos =>
          \A j \in 1 .. Len(BitsOf(sent[k])) :
            StreamBit(w, sent[k].order, End(k - 1) + j - 1) = BitsOf(sent[k])[j]
    BY <1>11
  <2>4. \A k : End(k)' = End(k)
    BY <1>1 DEF End
  <2>5. /\ br'.buffer = w /\ sent' = sent /\ bw'.overflow = d.overflow
        /\ Len(w) = pos
    BY <1>1, <1>7, <1>10 DEF pos
  <2>6. w \in Seq(Byte) /\ (~ d.overflow => last <= 8 * pos)
    BY <1>7, <1>9
  <2> HIDE DEF w, pos, d
  <2>7. \A k \in 1 .. Len(sent') :
          End(k)' <= 8 * Len(br'.buffer) =>
            \A j \in 1 .. Len(BitsOf(sent'[k])) :
                StreamBit(br'.buffer, sent'[k].order, End(k - 1)' + j - 1)
                  = BitsOf(sent'[k])[j]
    BY <1>0, <2>3, <2>4, <2>5
  <2>8. \A k \in 1 .. Len(sent') - 1 :
          sent'[k].order # sent'[k + 1].order /\ End(k)' <= 8 * Len(br'.buffer)
            => End(k)' % 8 = 0
    BY <1>0, <2>1, <2>4, <2>5
  <2>9. ~ bw'.overflow => Last' <= 8 * Len(br'.buffer)
    BY <2>2, <2>5, <2>6
  <2> QED BY <2>5, <2>6, <2>7, <2>8, <2>9 DEF OnWire, BitsOf
<1>13. Padded'
  <2>1. ASSUME last <= 8 * pos, sent # << >>, NEW j \in last .. 8 * pos - 1
        PROVE  StreamBit(w, sent[L].order, j) = 0
    <3>1. 8 * pos > last /\ j \in Nat
      BY <1>4, <1>5
    <3>2. Size(bw) = last /\ Size(d) = last + Len(pad) /\ last % 8 # 0
      BY <2>1, <3>1, <1>9
    <3>3. L \in 1 .. L
      BY <2>1, <1>0, <1>4
    <3>4. sent[L].order = o
      <4>1. SUFFICES ASSUME sent[L].order # o PROVE FALSE
        OBVIOUS
      <4>2. NextOrder(L) = o /\ End(L) = last
        BY <1>0, <1>4 DEF NextOrder, Last
      <4>3. last <= 8 * cap
        BY <2>1, <1>4, <1>5
      <4>4. last % 8 = 0
        BY <3>3, <4>1, <4>2, <4>3, <1>0, <1>2 DEF TurnsBetweenBytes
      <4> QED BY <3>2, <4>4
    <3>5. /\ j + 1 \in 1 .. Size(d) /\ ~ (j + 1 <= Size(bw))
          /\ (j + 1) - Size(bw) \in 1 .. Len(pad)
          /\ j + 1 \in 1 .. 8 * pos /\ (j + 1) - 1 = j
      BY <3>1, <3>2, <1>4, <1>5, <1>9
    <3>6. BitAt(d, o, j + 1) = pad[(j + 1) - Size(bw)]
      BY <3>5, <1>6
    <3>7. \A i \in 1 .. Len(pad) : pad[i] = 0
      <4> DEFINE m == (8 - (Size(bw) % 8)) % 8
      <4>1. m \in Nat
        BY <1>8
      <4>2. pad = [i \in 1 .. m |-> 0]
        BY DEF pad, PadOf
      <4> HIDE DEF m
      <4> QED BY <4>1, <4>2
    <3>8. StreamBit(w, o, (j + 1) - 1) = BitAt(d, o, j + 1)
      BY <3>5, <1>7
    <3> QED BY <3>4, <3>5, <3>6, <3>7, <3>8
  <2>2. Last' = last /\ Len(sent') = L
    BY <1>0, <1>1 DEF Last, End
  <2> HIDE DEF w
  <2> QED BY <2>1, <2>2, <1>1, <1>7, <1>9, <1>10 DEF Padded
<1>14. Receiver'
  <2>1. GoodReader(br', order')
    BY <1>10 DEF GoodReader
  <2>2. got' = << >> /\ part' = << >> /\ Len(got') = 0 /\ Len(part') = 0
    BY <1>1, <1>2
  <2>3. Position(br') = End(Len(got))' + 8 * Len(part')
    BY <1>10, <2>2 DEF End
  <2> QED BY <1>0, <1>1, <1>4, <2>1, <2>2, <2>3
       DEF Receiver, InOrder, PartOfNext, GoodReader
<1>15. Ended'
  BY <1>1, <1>2 DEF Ended, End
<1> QED BY <1>1, <1>2, <1>5, <1>12, <1>13, <1>14, <1>15 DEF IInv

---------------------------------------------------------------------------
\* What lies on the wire, read back.

\* The field at the place of a value that was sent is the value.
LEMMA FieldOfItem ==
    ASSUME NEW w, NEW o \in Orders, NEW at \in Nat, NEW n \in 1 .. MaxBits,
           NEW value \in Word(MaxBits), Clean(value, n),
           \A j \in 1 .. n : StreamBit(w, o, at + j - 1) = SentBits(o, value, n)[j]
    PROVE  Field(w, o, at, n, MaxBits) = value
<1>1. MaxBits \in Nat /\ n \in Nat /\ n > 0
  BY WidthFacts
<1>2. DOMAIN value = 0 .. MaxBits - 1 /\ value = [i \in 0 .. MaxBits - 1 |-> value[i]]
  BY DEF Word
<1>3. ASSUME NEW i \in 0 .. MaxBits - 1
      PROVE  (IF i < n THEN StreamBit(w, o, at + FieldOffset(o, n, i)) ELSE 0)
               = value[i]
  <2>1. CASE i < n
    <3> DEFINE f == FieldOffset(o, n, i)
    <3>1. f \in 0 .. n - 1 /\ FieldOffset(o, n, f) = i
      BY <1>1, <2>1 DEF FieldOffset
    <3> HIDE DEF f
    <3>2. f + 1 \in 1 .. n /\ (f + 1) - 1 = f /\ at + (f + 1) - 1 = at + f
      BY <1>1, <3>1
    <3>3. StreamBit(w, o, at + f) = SentBits(o, value, n)[f + 1]
      BY <3>2
    <3>4. SentBits(o, value, n)[f + 1] = value[FieldOffset(o, n, (f + 1) - 1)]
      BY <3>2 DEF SentBits
    <3> QED BY <3>1, <3>2, <3>3, <3>4, <2>1 DEF f
  <2>2. CASE ~ (i < n)
    BY <2>2, <1>1, <1>2 DEF Clean
  <2> QED BY <2>1, <2>2
<1> QED BY <1>2, <1>3 DEF Field

\* The field of 8 bits at a byte of the wire is the byte.
LEMMA FieldOfByte ==
    ASSUME NEW w \in Seq(Byte), NEW o \in Orders, NEW p \in Nat, p < Len(w)
    PROVE  Cast(Field(w, o, 8 * p, 8, MaxBits), 8) = w[p + 1]
<1>1. MaxBits \in Nat /\ MaxBits >= 8
  BY WidthFacts
<1>2. w[p + 1] \in Byte
  <2>1. p + 1 \in 1 .. Len(w)
    OBVIOUS
  <2> QED BY <2>1
<1>3. w[p + 1] = [i \in 0 .. 7 |-> w[p + 1][i]]
  BY <1>2, ByteBits
<1> DEFINE g == Field(w, o, 8 * p, 8, MaxBits)
<1>4. /\ DOMAIN g = 0 .. MaxBits - 1
      /\ \A i \in 0 .. 7 : g[i] = StreamBit(w, o, 8 * p + FieldOffset(o, 8, i))
  BY <1>1 DEF Field
<1>5. ASSUME NEW i \in 0 .. 7
      PROVE  StreamBit(w, o, 8 * p + FieldOffset(o, 8, i)) = w[p + 1][i]
  <2>1. CASE o = "msb"
    <3>1. FieldOffset(o, 8, i) = 7 - i
      BY <2>1 DEF FieldOffset
    <3>2. /\ ((8 * p + (7 - i)) \div 8) + 1 = p + 1
          /\ 7 - ((8 * p + (7 - i)) % 8) = i
      OBVIOUS
    <3> QED BY <2>1, <3>1, <3>2 DEF StreamBit
  <2>2. CASE o # "msb"
    <3>1. FieldOffset(o, 8, i) = i
      BY <2>2 DEF FieldOffset
    <3>2. ((8 * p + i) \div 8) + 1 = p + 1 /\ (8 * p + i) % 8 = i
      OBVIOUS
    <3> QED BY <2>2, <3>1, <3>2 DEF StreamBit
  <2> QED BY <2>1, <2>2
<1> HIDE DEF g
<1>6. Cast(g, 8) = [i \in 0 .. 7 |-> g[i]]
  BY <1>1, <1>4 DEF Cast
<1> QED BY <1>3, <1>4, <1>5, <1>6 DEF g

---------------------------------------------------------------------------
\* What the calls of the receiver do.

\* A peek and a skip of the bits that are there take them.
LEMMA PeekThenSkip ==
    ASSUME NEW b, Bounded(b), NEW o, NEW n \in 0 .. MaxBits,
           n <= bs_reader_bits_left(b),
           NEW p, Sees(b, o, n, p), Bounded(p.bs), p.bs.buffer = b.buffer,
           NEW s, Skips(p.bs, n, s)
    PROVE  /\ Position(s.bs) = Position(b) + n
           /\ p.ret.value = Field(b.buffer, o, Position(b), n, MaxBits)
<1>1. /\ Position(p.bs) = Position(b)
      /\ p.ret = Value(Field(b.buffer, o, Position(b), n, MaxBits))
  BY DEF Sees
<1>2. bs_reader_bits_left(p.bs) = bs_reader_bits_left(b)
  BY <1>1, BitsLeft
<1>3. n \in Nat /\ n <= CacheBits - 7
  BY WidthFacts
<1>4. MinOf(n, bs_reader_bits_left(p.bs)) = n
  BY <1>2 DEF MinOf
<1>5. MinOf(n, CacheBits - 7) = n
  BY <1>3 DEF MinOf
<1>6. \E d \in n .. n : Position(s.bs) = Position(p.bs) + d
  BY <1>4, <1>5 DEF Skips
<1>7. Position(s.bs) = Position(p.bs) + n
  BY <1>3, <1>6
<1> QED BY <1>1, <1>7 DEF Value, Ret

LEMMA TakingTakes ==
    ASSUME order \in Orders, GoodReader(br, order), NEW n \in 1 .. MaxBits,
           n <= bs_reader_bits_left(br), NEW result \in Taking(n)
    PROVE  /\ GoodReader(result.bs, order) /\ result.bs.buffer = br.buffer
           /\ Position(result.bs) = Position(br) + n
           /\ result.ret.value = Field(br.buffer, order, Position(br), n, MaxBits)
<1>1. n \in 0 .. MaxBits /\ n \in Nat
  BY WidthFacts
<1>2. CASE order = "msb"
  <2> DEFINE p == bs_peek_bits(br, n)  q == bs_peek_bits_unchecked(br, n)
             s == bs_skip_bits(p.bs, n)  t == bs_skip_bits_unchecked(q.bs, n)
             field == Field(br.buffer, "msb", Position(br), n, MaxBits)
  <2>1. GoodMsb(br)
    BY <1>2 DEF GoodReader
  <2>2. Bounded(br)
    BY <2>1 DEF GoodMsb
  <2>10. \A r : ~ Refuses(br, n, r)
    <3>1. bs_reader_bits_left(br) \in Int
      BY <2>2, BitsLeft DEF Bounded, Readers, Position
    <3> QED BY <1>1, <3>1 DEF Refuses
  <2>3. /\ result \in {bs_read_bits(br, n), bs_read_bits_unchecked(br, n),
                       [bs |-> s.bs, ret |-> p.ret], [bs |-> t.bs, ret |-> q.ret]}
    BY <1>2 DEF Taking
  <2>4. /\ GoodMsb(p.bs) /\ p.bs.buffer = br.buffer /\ Bounded(p.bs)
        /\ GoodMsb(q.bs) /\ q.bs.buffer = br.buffer /\ Bounded(q.bs)
        /\ Sees(br, "msb", n, p) /\ Sees(br, "msb", n, q)
    <3>1. KeepsMsb(br, p) /\ KeepsMsb(br, q)
      BY <1>1, <2>1, MsbCallsKeep
    <3>2. Sees(br, "msb", n, p) /\ Sees(br, "msb", n, q)
      BY <1>1, <2>1, <2>10, MsbCallsMeet
    <3> HIDE DEF p, q
    <3> QED BY <3>1, <3>2 DEF KeepsMsb, GoodMsb
  <2>5. n <= q.bs.bits_in_cache
    <3>1. q.bs = refill(br)
      BY DEF bs_peek_bits_unchecked, Result
    <3> QED BY <1>1, <2>1, <3>1, LoadedMsb
  <2> HIDE DEF p, q
  <2>6. /\ KeepsMsb(p.bs, s) /\ Skips(p.bs, n, s)
        /\ KeepsMsb(q.bs, t) /\ Skips(q.bs, n, t)
    BY <1>1, <2>4, <2>5, MsbCallsKeep, MsbCallsMeet
  <2> HIDE DEF s, t
  <2>7. /\ Position(s.bs) = Position(br) + n /\ p.ret.value = field
        /\ Position(t.bs) = Position(br) + n /\ q.ret.value = field
    BY <1>1, <2>2, <2>4, <2>6, PeekThenSkip
  <2>8. /\ GoodMsb(s.bs) /\ s.bs.buffer = br.buffer
        /\ GoodMsb(t.bs) /\ t.bs.buffer = br.buffer
    BY <2>4, <2>6 DEF KeepsMsb
  <2>9. ASSUME result \in {bs_read_bits(br, n), bs_read_bits_unchecked(br, n)}
        PROVE  /\ GoodMsb(result.bs) /\ result.bs.buffer = br.buffer
               /\ Position(result.bs) = Position(br) + n
               /\ result.ret.value = field
    <3>1. KeepsMsb(br, result)
      BY <1>1, <2>1, <2>9, MsbCallsKeep
    <3>2. Takes(br, "msb", n, result)
      BY <1>1, <2>1, <2>9, <2>10, MsbCallsMeet
    <3> QED BY <3>1, <3>2 DEF KeepsMsb, Takes, Value, Ret
  <2> HIDE DEF field
  <2> QED BY <1>2, <2>3, <2>7, <2>8, <2>9 DEF GoodReader, field
<1>3. CASE order = "lsb"
  <2> DEFINE p == bs_peek_bits_lsb(br, n)  q == bs_peek_bits_lsb_unchecked(br, n)
             s == bs_skip_bits_lsb(p.bs, n)
             t == bs_skip_bits_lsb_unchecked(q.bs, n)
             field == Field(br.buffer, "lsb", Position(br), n, MaxBits)
  <2>1. GoodLsb(br)
    BY <1>3 DEF GoodReader
  <2>2. Bounded(br)
    BY <2>1 DEF GoodLsb
  <2>10. \A r : ~ Refuses(br, n, r)
    <3>1. bs_reader_bits_left(br) \in Int
      BY <2>2, BitsLeft DEF Bounded, Readers, Position
    <3> QED BY <1>1, <3>1 DEF Refuses
  <2>3. /\ result \in {bs_read_bits_lsb(br, n), bs_read_bits_lsb_unchecked(br, n),
                       [bs |-> s.bs, ret |-> p.ret], [bs |-> t.bs, ret |-> q.ret]}
    BY <1>3 DEF Taking
  <2>4. /\ GoodLsb(p.bs) /\ p.bs.buffer = br.buffer /\ Bounded(p.bs)
        /\ GoodLsb(q.bs) /\ q.bs.buffer = br.buffer /\ Bounded(q.bs)
        /\ Sees(br, "lsb", n, p) /\ Sees(br, "lsb", n, q)
    <3>1. KeepsLsb(br, p) /\ KeepsLsb(br, q)
      BY <1>1, <2>1, LsbCallsKeep
    <3>2. Sees(br, "lsb", n, p) /\ Sees(br, "lsb", n, q)
      BY <1>1, <2>1, <2>10, LsbCallsMeet
    <3> HIDE DEF p, q
    <3> QED BY <3>1, <3>2 DEF KeepsLsb, GoodLsb
  <2>5. n <= q.bs.bits_in_cache
    <3>1. q.bs = refill_lsb(br)
      BY DEF bs_peek_bits_lsb_unchecked, Result
    <3> QED BY <1>1, <2>1, <3>1, LoadedLsb
  <2> HIDE DEF p, q
  <2>6. /\ KeepsLsb(p.bs, s) /\ Skips(p.bs, n, s)
        /\ KeepsLsb(q.bs, t) /\ Skips(q.bs, n, t)
    BY <1>1, <2>4, <2>5, LsbCallsKeep, LsbCallsMeet
  <2> HIDE DEF s, t
  <2>7. /\ Position(s.bs) = Position(br) + n /\ p.ret.value = field
        /\ Position(t.bs) = Position(br) + n /\ q.ret.value = field
    BY <1>1, <2>2, <2>4, <2>6, PeekThenSkip
  <2>8. /\ GoodLsb(s.bs) /\ s.bs.buffer = br.buffer
        /\ GoodLsb(t.bs) /\ t.bs.buffer = br.buffer
    BY <2>4, <2>6 DEF KeepsLsb
  <2>9. ASSUME result \in {bs_read_bits_lsb(br, n),
                           bs_read_bits_lsb_unchecked(br, n)}
        PROVE  /\ GoodLsb(result.bs) /\ result.bs.buffer = br.buffer
               /\ Position(result.bs) = Position(br) + n
               /\ result.ret.value = field
    <3>1. KeepsLsb(br, result)
      BY <1>1, <2>1, <2>9, LsbCallsKeep
    <3>2. Takes(br, "lsb", n, result)
      BY <1>1, <2>1, <2>9, <2>10, LsbCallsMeet
    <3> QED BY <3>1, <3>2 DEF KeepsLsb, Takes, Value, Ret
  <2> HIDE DEF field
  <2> QED BY <1>3, <2>3, <2>7, <2>8, <2>9 DEF GoodReader, field
<1> QED BY <1>2, <1>3 DEF Orders

---------------------------------------------------------------------------
\* The steps: receiving.

\* The reader stands at this position of the wire, and is good.
Reached(r, at) ==
    r.buffer = br.buffer /\ GoodReader(r, order) /\ Position(r) = at

\* The next item is whole on the wire, and is received.
Arrives(r) ==
    /\ Len(got) < Len(sent)
    /\ sent[Len(got) + 1].order = order
    /\ End(Len(got) + 1) <= 8 * Len(br.buffer)
    /\ Reached(r, End(Len(got) + 1))
    /\ Receives(sent[Len(got) + 1], r)

\* There is no next item, or it is not whole, and the receiver stops.
Stops(r) ==
    /\ Len(got) = Len(sent) \/ End(Len(got) + 1) > 8 * Len(br.buffer)
    /\ Reached(r, Position(br))
    /\ StopsWith(r)

\* Where the reader stands.
LEMMA Standing ==
    ASSUME IInv, pc # "send"
    PROVE  /\ order \in Orders /\ GoodReader(br, order) /\ Bounded(br)
           /\ br.buffer \in Seq(Byte) /\ Len(br.buffer) \in Nat
           /\ Position(br) \in Nat /\ Position(br) <= 8 * Len(br.buffer)
           /\ bs_reader_bits_left(br) = 8 * Len(br.buffer) - Position(br)
           /\ Len(got) \in Nat /\ Len(sent) \in Nat /\ Len(got) <= Len(sent)
           /\ Len(part) \in Nat
           /\ Position(br) = End(Len(got)) + 8 * Len(part)
<1>1. order \in Orders /\ GoodReader(br, order) /\ Receiver /\ Ended
  BY DEF IInv, Receiver
<1>2. Bounded(br)
  BY <1>1 DEF GoodReader, GoodMsb, GoodLsb
<1>3. /\ br.buffer \in Seq(Byte) /\ Len(br.buffer) \in Nat
      /\ br.byte_pos \in Nat /\ br.bits_in_cache \in Nat
      /\ br.byte_pos <= Len(br.buffer) /\ br.bits_in_cache <= 8 * br.byte_pos
  BY <1>2, WidthFacts DEF Bounded, Readers
<1>4. Position(br) \in Nat /\ Position(br) <= 8 * Len(br.buffer)
  BY <1>3 DEF Position
<1>5. bs_reader_bits_left(br) = 8 * Len(br.buffer) - Position(br)
  BY <1>2, BitsLeft
<1>6. /\ Len(got) \in Nat /\ Len(sent) \in Nat /\ Len(got) <= Len(sent)
      /\ Len(part) \in Nat
      /\ Position(br) = End(Len(got)) + 8 * Len(part)
  BY <1>1 DEF Receiver, Ended
<1> QED BY <1>1, <1>2, <1>3, <1>4, <1>5, <1>6

\* What is known of the next item.
LEMMA NextItem ==
    ASSUME IInv, pc # "send", Len(got) < Len(sent),
           NEW item, item = sent[Len(got) + 1],
           NEW at, at = End(Len(got)), NEW e, e = End(Len(got) + 1)
    PROVE  /\ Sendable(item) /\ at \in Nat /\ e \in Nat
           /\ e = EndAfter(at, item)
           /\ item.kind = "bytes" => at % 8 = 0
           /\ e <= 8 * Len(br.buffer) =>
                \A j \in 1 .. Len(BitsOf(item)) :
                    StreamBit(br.buffer, item.order, at + j - 1)
                      = BitsOf(item)[j]
           /\ item.kind = "bytes" /\ item.order = order =>
                Len(part) < item.n \/ part = << >>
           /\ item.kind # "bytes" => part = << >>
           /\ \A j \in 1 .. Len(part) : part[j] = item.bytes[j]
           /\ part # << >> => item.order = order
<1> DEFINE k == Len(got) + 1
<1>1. Ended /\ OnWire /\ Receiver
  BY DEF IInv
<1>2. /\ Len(got) \in Nat /\ Len(sent) \in Nat /\ k \in 1 .. Len(sent)
      /\ k - 1 = Len(got) /\ Len(got) \in 0 .. Len(sent)
  BY Standing
<1>3. ends \in Seq(Nat) /\ Len(ends) = Len(sent)
  BY <1>1 DEF Ended
<1>4. at \in Nat /\ e \in Nat
  BY <1>2, <1>3 DEF End
<1>5. Sendable(sent[k]) /\ End(k) = EndAfter(End(k - 1), sent[k])
  BY <1>1, <1>2 DEF Ended
<1>6. sent[k].kind = "bytes" => End(k - 1) % 8 = 0
  BY <1>1, <1>2 DEF Ended
<1>7. End(k) <= 8 * Len(br.buffer) =>
        \A j \in 1 .. Len(BitsOf(sent[k])) :
            StreamBit(br.buffer, sent[k].order, End(k - 1) + j - 1)
              = BitsOf(sent[k])[j]
  BY <1>1, <1>2 DEF OnWire
<1>8. part # << >> =>
        /\ sent[k].kind = "bytes" /\ sent[k].order = order
        /\ Len(part) < sent[k].n
        /\ \A j \in 1 .. Len(part) : part[j] = sent[k].bytes[j]
  BY <1>1 DEF Receiver, PartOfNext
<1>9. part = << >> => Len(part) = 0
  OBVIOUS
<1> HIDE DEF k
<1>10. item = sent[k] /\ e = End(k) /\ at = End(k - 1)
  BY <1>2 DEF k
<1> QED BY <1>4, <1>5, <1>6, <1>7, <1>8, <1>9, <1>10

\* An item of each kind is what its members make it.
LEMMA ItemIs ==
    ASSUME NEW item, Sendable(item), item.order = order
    PROVE  /\ item.kind = "bits" =>
                item = Item("bits", item.n, item.value, << >>)
           /\ item.kind = "boundary" => item = Boundary
           /\ item.kind = "bytes" => item = Bytes(item.bytes)
<1>1. item = [order |-> item.order, kind |-> item.kind, n |-> item.n,
              value |-> item.value, bytes |-> item.bytes]
  BY DEF Sendable, ItemType
<1>2. ASSUME item.kind = "bits"
      PROVE  item = Item("bits", item.n, item.value, << >>)
  BY <1>1, <1>2, Zenon DEF Item, Sendable
<1>3. ASSUME item.kind = "boundary" PROVE item = Boundary
  BY <1>1, <1>3, Zenon DEF Boundary, Item, Sendable
<1>4. ASSUME item.kind = "bytes" PROVE item = Bytes(item.bytes)
  BY <1>1, <1>4, Zenon DEF Bytes, Item, Sendable
<1> QED BY <1>2, <1>3, <1>4

LEMMA ReceiveBitsOutcome ==
    ASSUME IInv, ReceiveBits PROVE \E r : Arrives(r) \/ Stops(r)
<1> DEFINE item == sent[Len(got) + 1]  n == sent[Len(got) + 1].n
           at == End(Len(got))  e == End(Len(got) + 1)  w == br.buffer
<1>1. /\ pc = "receive" /\ Len(got) < Len(sent)
      /\ item.order = order /\ item.kind = "bits"
  BY DEF ReceiveBits, Expects
<1>2. /\ Sendable(item) /\ at \in Nat /\ e \in Nat /\ e = EndAfter(at, item)
      /\ e <= 8 * Len(w) =>
           \A j \in 1 .. Len(BitsOf(item)) :
               StreamBit(w, order, at + j - 1) = BitsOf(item)[j]
      /\ part = << >>
  <2>1. item.kind # "bytes"
    BY <1>1
  <2> QED BY <1>1, <2>1, NextItem
<1>3. /\ order \in Orders /\ GoodReader(br, order) /\ Len(w) \in Nat
      /\ Position(br) = at
      /\ bs_reader_bits_left(br) = 8 * Len(w) - at
  <2>1. Len(part) = 0
    BY <1>2
  <2> QED BY <1>1, <1>2, <2>1, Standing
<1>4. /\ n \in 1 .. MaxBits /\ n \in Nat /\ Clean(item.value, n)
      /\ item.value \in Word(MaxBits)
      /\ BitsOf(item) = SentBits(order, item.value, n)
      /\ Len(BitsOf(item)) = n
      /\ e = at + n
      /\ item = Item("bits", n, item.value, << >>)
  <2>1. /\ n \in 1 .. MaxBits /\ n \in Nat /\ n \in 0 .. MaxBits
        /\ Clean(item.value, n) /\ item.value \in Word(MaxBits)
    BY <1>1, <1>2, WidthFacts DEF Sendable, ItemType
  <2>2. BitsOf(item) = SentBits(order, item.value, n)
    BY <1>1 DEF BitsOf
  <2>3. Len(SentBits(order, item.value, n)) = n
    BY <2>1, FieldIs
  <2>4. item = Item("bits", n, item.value, << >>)
    BY <1>1, <1>2, ItemIs
  <2>5. e = at + n
    BY <1>1, <1>2 DEF EndAfter
  <2> HIDE DEF item, n, e, at
  <2> QED BY <2>1, <2>2, <2>3, <2>4, <2>5
<1>5. CASE n <= bs_reader_bits_left(br)
  <2>1. PICK result \in Taking(n) :
          Receives(Item("bits", n, result.ret.value, << >>), result.bs)
    BY <1>5 DEF ReceiveBits
  <2>2. /\ GoodReader(result.bs, order) /\ result.bs.buffer = w
        /\ Position(result.bs) = at + n
        /\ result.ret.value = Field(w, order, at, n, MaxBits)
    BY <1>3, <1>4, <1>5, TakingTakes
  <2>3. e <= 8 * Len(w)
    BY <1>2, <1>3, <1>4, <1>5
  <2>4. Field(w, order, at, n, MaxBits) = item.value
    <3>1. \A j \in 1 .. n :
            StreamBit(w, order, at + j - 1) = SentBits(order, item.value, n)[j]
      BY <1>2, <1>4, <2>3
    <3> HIDE DEF item, n, at, w
    <3> QED BY <1>2, <1>3, <1>4, <3>1, FieldOfItem
  <2>5. Receives(item, result.bs)
    BY <1>4, <2>1, <2>2, <2>4
  <2>6. Arrives(result.bs)
    BY <1>1, <1>4, <2>2, <2>3, <2>5 DEF Arrives, Reached
  <2> QED BY <2>6
<1>6. CASE ~ (n <= bs_reader_bits_left(br))
  <2>1. StopsWith(br)
    BY <1>6 DEF ReceiveBits
  <2>2. e > 8 * Len(w)
    BY <1>2, <1>3, <1>4, <1>6
  <2>3. Stops(br)
    BY <1>3, <2>1, <2>2 DEF Stops, Reached
  <2> QED BY <2>3
<1> QED BY <1>5, <1>6

LEMMA ReceiveBoundaryOutcome ==
    ASSUME IInv, ReceiveBoundary PROVE \E r : Arrives(r)
<1> DEFINE item == sent[Len(got) + 1]  at == End(Len(got))
           e == End(Len(got) + 1)  w == br.buffer
           res == IF order = "msb" THEN bs_reader_align(br)
                                   ELSE bs_reader_align_lsb(br)
<1>1. /\ pc = "receive" /\ Len(got) < Len(sent)
      /\ item.order = order /\ item.kind = "boundary"
      /\ Receives(Boundary, res.bs)
  BY DEF ReceiveBoundary, Expects
<1>2. /\ Sendable(item) /\ at \in Nat /\ e \in Nat /\ e = EndAfter(at, item)
      /\ part = << >>
  <2>1. item.kind # "bytes"
    BY <1>1
  <2> QED BY <1>1, <2>1, NextItem
<1>3. /\ order \in Orders /\ GoodReader(br, order) /\ Len(w) \in Nat
      /\ Position(br) = at /\ at <= 8 * Len(w)
  <2>1. Len(part) = 0
    BY <1>2
  <2> QED BY <1>1, <1>2, <2>1, Standing
<1>4. /\ GoodReader(res.bs, order) /\ res.bs.buffer = w
      /\ Position(res.bs) = 8 * ((at + 7) \div 8)
  <2>1. 0 \in 0 .. MaxBits
    BY WidthFacts
  <2>2. CASE order = "msb"
    <3>1. GoodMsb(br) /\ res = bs_reader_align(br)
      BY <1>3, <2>2 DEF GoodReader
    <3>2. KeepsMsb(br, res) /\ Aligns(br, res)
      BY <2>1, <3>1, MsbCallsKeep, MsbCallsMeet
    <3> HIDE DEF res
    <3> QED BY <1>3, <2>2, <3>2 DEF GoodReader, KeepsMsb, Aligns
  <2>3. CASE order = "lsb"
    <3>1. GoodLsb(br) /\ res = bs_reader_align_lsb(br)
      BY <1>3, <2>3 DEF GoodReader
    <3>2. KeepsLsb(br, res) /\ Aligns(br, res)
      BY <2>1, <3>1, LsbCallsKeep, LsbCallsMeet
    <3> HIDE DEF res
    <3> QED BY <1>3, <2>3, <3>2 DEF GoodReader, KeepsLsb, Aligns
  <2> QED BY <1>3, <2>2, <2>3 DEF Orders
<1>5. e = 8 * ((at + 7) \div 8)
  BY <1>1, <1>2 DEF EndAfter
<1>6. e <= 8 * Len(w)
  BY <1>2, <1>3, <1>5
<1>7. item = Boundary
  BY <1>1, <1>2, ItemIs
<1>8. Arrives(res.bs)
  <2>1. Receives(item, res.bs)
    BY <1>1, <1>7
  <2> QED BY <1>1, <1>4, <1>5, <1>6, <2>1 DEF Arrives, Reached
<1> QED BY <1>8

\* The next byte is received, and is not the last one of its item.
ArrivesInPart(r) ==
    /\ pc = "receive"
    /\ Len(got) < Len(sent)
    /\ Reached(r, Position(br) + 8)
    /\ br' = r
    /\ part' = Append(part, sent[Len(got) + 1].bytes[Len(part) + 1])
    /\ part' \in Seq(Byte)
    /\ sent[Len(got) + 1].kind = "bytes"
    /\ sent[Len(got) + 1].order = order
    /\ Len(part) + 1 < sent[Len(got) + 1].n
    /\ UNCHANGED << bw, sent, ends, got, order, pc >>

\* A read of 8 bits that are there takes the next byte of the wire.
LEMMA ByteTaken ==
    ASSUME order \in Orders, GoodReader(br, order),
           8 <= bs_reader_bits_left(br), NEW p \in Nat, Position(br) = 8 * p,
           NEW read, read = IF order = "msb" THEN bs_read_bits(br, 8)
                                             ELSE bs_read_bits_lsb(br, 8)
    PROVE  /\ GoodReader(read.bs, order) /\ read.bs.buffer = br.buffer
           /\ Position(read.bs) = Position(br) + 8
           /\ Cast(read.ret.value, 8) = br.buffer[p + 1]
<1>1. 8 \in 1 .. MaxBits
  BY WidthFacts
<1>2. read \in Taking(8)
  <2>1. CASE order = "msb"
    BY <2>1 DEF Taking
  <2>2. CASE order # "msb"
    BY <2>2 DEF Taking
  <2> QED BY <2>1, <2>2
<1>3. /\ GoodReader(read.bs, order) /\ read.bs.buffer = br.buffer
      /\ Position(read.bs) = Position(br) + 8
      /\ read.ret.value = Field(br.buffer, order, Position(br), 8, MaxBits)
  BY <1>1, <1>2, TakingTakes
<1>4. br.buffer \in Seq(Byte) /\ p < Len(br.buffer)
  <2>1. Bounded(br)
    BY DEF GoodReader, GoodMsb, GoodLsb
  <2>2. bs_reader_bits_left(br) = 8 * Len(br.buffer) - 8 * p
    BY <2>1, BitsLeft
  <2> QED BY <2>1, <2>2 DEF Bounded, Readers
<1>5. Cast(Field(br.buffer, order, 8 * p, 8, MaxBits), 8) = br.buffer[p + 1]
  BY <1>4, FieldOfByte
<1> QED BY <1>3, <1>5

\* The numbers of a sequence of n bytes of which q have been received and m
\* have not: it starts at byte first, the reader stands at pos, and the wire
\* has len bytes.
LEMMA ByteNumbers ==
    ASSUME NEW at \in Nat, at % 8 = 0, NEW n \in Nat, NEW q \in Nat,
           NEW m, m = n - q, NEW len \in Nat, NEW e, e = at + 8 * n,
           NEW pos, pos = at + 8 * q, pos <= 8 * len,
           NEW left, left = 8 * len - pos, q < n \/ q = 0
    PROVE  /\ m \in Nat /\ left \in Nat /\ e \in Nat
           /\ e > 8 * len <=> 8 * m > left
           /\ e = pos + 8 * m
           /\ \E first \in Nat :
                /\ at = 8 * first /\ pos = 8 * (first + q)
                /\ e <= 8 * len <=> first + n <= len
<1> DEFINE first == at \div 8
<1>1. first \in Nat /\ at = 8 * first
  OBVIOUS
<1> HIDE DEF first
<1>2. m \in Nat /\ left \in Nat /\ e \in Nat
  OBVIOUS
<1>3. pos = 8 * (first + q) /\ (e <= 8 * len <=> first + n <= len)
  BY <1>1
<1>4. (e > 8 * len <=> 8 * m > left) /\ e = pos + 8 * m
  BY <1>2
<1> QED BY <1>1, <1>2, <1>3, <1>4

\* The bytes of the next item, as they lie on the wire: n of them, the
\* sequence c, of which q have been received and m have not.  The item ends
\* at e, the reader stands at pos with so many bits left of the len bytes w.
BytesAhead(item, e, q, w, n, m, c, left, pos, len) ==
    /\ n \in Nat /\ q \in Nat /\ m \in Nat /\ m = n - q
    /\ left \in Nat /\ e \in Nat /\ pos \in Nat /\ len \in Nat
    /\ c \in Seq(Byte) /\ Len(c) = n /\ item = Bytes(c)
    /\ part \in Seq(Byte)
    /\ \A j \in 1 .. q : part[j] = c[j]
    /\ e > 8 * len <=> 8 * m > left
    /\ e = pos + 8 * m
    /\ w \in Seq(Byte)
    /\ \E first \in Nat :
         /\ pos = 8 * (first + q)
         /\ e <= 8 * len <=> first + n <= len
         /\ e <= 8 * len => \A i \in 1 .. n : w[first + i] = c[i]

LEMMA NextBytes ==
    ASSUME IInv, pc # "send", Len(got) < Len(sent),
           NEW item, item = sent[Len(got) + 1],
           item.kind = "bytes", item.order = order
    PROVE  BytesAhead(item, End(Len(got) + 1), Len(part), br.buffer, item.n,
                      Missing, item.bytes, bs_reader_bits_left(br),
                      Position(br), Len(br.buffer))
<1>a. PICK e, q, w, n, m, c, left, pos, len :
        /\ e = End(Len(got) + 1)
        /\ q = Len(part) /\ w = br.buffer /\ n = item.n /\ m = Missing
        /\ c = item.bytes /\ left = bs_reader_bits_left(br)
        /\ pos = Position(br) /\ len = Len(br.buffer)
  OBVIOUS
<1>0. PICK at : at = End(Len(got))
  OBVIOUS
<1>1. /\ Sendable(item) /\ at \in Nat /\ e = EndAfter(at, item)
      /\ at % 8 = 0
      /\ e <= 8 * len =>
           \A j \in 1 .. Len(BitsOf(item)) :
               StreamBit(w, order, at + j - 1) = BitsOf(item)[j]
      /\ q < n \/ q = 0
      /\ \A j \in 1 .. q : part[j] = c[j]
  <2>1. part = << >> => Len(part) = 0
    OBVIOUS
  <2> QED BY <1>a, <1>0, <2>1, NextItem
<1>2. /\ order \in Orders /\ len \in Nat /\ w \in Seq(Byte)
      /\ pos = at + 8 * q /\ q \in Nat /\ pos \in Nat /\ pos <= 8 * len
      /\ left = 8 * len - pos
  BY <1>a, <1>0, Standing
<1>3. n \in Nat /\ c \in Seq(Byte) /\ Len(c) = n
  BY <1>a, <1>1 DEF Sendable, ItemType
<1>4. item = Bytes(c)
  BY <1>a, <1>1, ItemIs
<1>5. part \in Seq(Byte)
  BY DEF IInv, Receiver
<1>6. m = n - q
  BY <1>a DEF Missing
<1>7. e = at + 8 * n
  BY <1>a, <1>1 DEF EndAfter
<1>8. /\ m \in Nat /\ left \in Nat /\ e \in Nat
      /\ e > 8 * len <=> 8 * m > left
      /\ e = pos + 8 * m
      /\ \E first \in Nat :
           /\ at = 8 * first /\ pos = 8 * (first + q)
           /\ e <= 8 * len <=> first + n <= len
  <2>1. /\ at \in Nat /\ at % 8 = 0 /\ n \in Nat /\ q \in Nat
        /\ m = n - q /\ len \in Nat /\ e = at + 8 * n
        /\ pos = at + 8 * q /\ pos <= 8 * len /\ left = 8 * len - pos
        /\ q < n \/ q = 0
    BY <1>1, <1>2, <1>3, <1>6, <1>7
  <2> QED BY <2>1, ByteNumbers
<1>9. PICK first \in Nat :
        /\ at = 8 * first /\ pos = 8 * (first + q)
        /\ e <= 8 * len <=> first + n <= len
  BY <1>8
<1>10. ASSUME e <= 8 * len PROVE \A i \in 1 .. n : w[first + i] = c[i]
  <2>1. first + Len(c) <= Len(w)
    BY <1>a, <1>3, <1>9, <1>10
  <2>2. BitsOf(item) = CopyOf(order, c)
    BY <1>a DEF BitsOf
  <2>3. Len(CopyOf(order, c)) = 8 * Len(c)
    BY <1>3, CopyBits
  <2>4. \A j \in 1 .. 8 * Len(c) :
          StreamBit(w, order, 8 * first + j - 1) = CopyOf(order, c)[j]
    <3>1. \A j \in 1 .. Len(BitsOf(item)) :
            StreamBit(w, order, at + j - 1) = BitsOf(item)[j]
      BY <1>1, <1>10
    <3> QED BY <3>1, <1>9, <2>2, <2>3
  <2>5. \A i \in 1 .. Len(c) : w[first + i] = c[i]
    <3>1. /\ w \in Seq(Byte) /\ order \in Orders /\ first \in Nat
          /\ c \in Seq(Byte)
      BY <1>2, <1>3
    <3> QED BY <2>1, <2>4, <3>1, BytesOnWire
  <2> QED BY <1>3, <2>5
<1>11. BytesAhead(item, e, q, w, n, m, c, left, pos, len)
  BY <1>1, <1>2, <1>3, <1>4, <1>5, <1>6, <1>8, <1>9, <1>10 DEF BytesAhead
<1> QED BY <1>a, <1>11

LEMMA ReceiveByteOutcome ==
    ASSUME IInv, ReceiveByte
    PROVE  \E r : Arrives(r) \/ Stops(r) \/ ArrivesInPart(r)
<1>0. PICK item, e, q, w, n, m, c, left, pos, len, read, byte :
        /\ item = sent[Len(got) + 1] /\ e = End(Len(got) + 1)
        /\ q = Len(part) /\ w = br.buffer /\ n = item.n /\ m = Missing
        /\ c = item.bytes /\ left = bs_reader_bits_left(br)
        /\ pos = Position(br) /\ len = Len(br.buffer)
        /\ read = IF order = "msb" THEN bs_read_bits(br, 8)
                                   ELSE bs_read_bits_lsb(br, 8)
        /\ byte = Cast(read.ret.value, 8)
  OBVIOUS
<1>1. /\ pc = "receive" /\ Len(got) < Len(sent)
      /\ item.order = order /\ item.kind = "bytes" /\ m > 0
  BY <1>0 DEF ReceiveByte, Expects
<1>2. /\ IF 8 * m > left THEN StopsWith(br)
         ELSE IF m = 1 THEN Receives(Bytes(Append(part, byte)), read.bs)
         ELSE /\ br' = read.bs
              /\ part' = Append(part, byte)
              /\ UNCHANGED << bw, sent, ends, got, order, pc >>
  BY <1>0 DEF ReceiveByte
<1>3. /\ n \in Nat /\ q \in Nat /\ m \in Nat /\ m = n - q
      /\ left \in Nat /\ e \in Nat /\ pos \in Nat /\ len \in Nat
      /\ c \in Seq(Byte) /\ Len(c) = n /\ item = Bytes(c)
      /\ part \in Seq(Byte)
      /\ \A j \in 1 .. q : part[j] = c[j]
      /\ e > 8 * len <=> 8 * m > left
      /\ e = pos + 8 * m
      /\ w \in Seq(Byte)
      /\ \E first \in Nat :
           /\ pos = 8 * (first + q)
           /\ e <= 8 * len <=> first + n <= len
           /\ e <= 8 * len => \A i \in 1 .. n : w[first + i] = c[i]
  <2>1. pc # "send"
    BY <1>1
  <2>2. BytesAhead(item, e, q, w, n, m, c, left, pos, len)
    BY <1>0, <1>1, <2>1, NextBytes
  <2> QED BY <2>2 DEF BytesAhead
<1>4. order \in Orders /\ GoodReader(br, order)
  BY <1>1, Standing
<1>5. CASE 8 * m > left
  <2>1. StopsWith(br) /\ e > 8 * len
    BY <1>2, <1>3, <1>5
  <2>2. Stops(br)
    BY <1>0, <1>4, <2>1 DEF Stops, Reached
  <2> QED BY <2>2
<1>6. CASE ~ (8 * m > left)
  <2>1. e <= 8 * len
    BY <1>3, <1>6
  <2>2. PICK first \in Nat :
          /\ pos = 8 * (first + q) /\ first + n <= len
          /\ \A i \in 1 .. n : w[first + i] = c[i]
    BY <1>3, <2>1
  <2>3. 8 <= left /\ first + q \in Nat
    BY <1>1, <1>3, <1>6, <2>2
  <2>4. /\ GoodReader(read.bs, order) /\ read.bs.buffer = br.buffer
        /\ Position(read.bs) = pos + 8
        /\ byte = w[(first + q) + 1]
    BY <1>0, <1>4, <2>2, <2>3, ByteTaken
  <2>5. q + 1 \in 1 .. n /\ (first + q) + 1 = first + (q + 1)
    <3>1. /\ n \in Nat /\ q \in Nat /\ m \in Nat /\ m = n - q /\ m > 0
      BY <1>1, <1>3
    <3> QED BY <3>1
  <2>6. byte = c[q + 1] /\ c[q + 1] \in Byte
    BY <1>3, <2>2, <2>4, <2>5
  <2>7. /\ Append(part, byte) \in Seq(Byte)
        /\ Len(Append(part, byte)) = q + 1
        /\ \A j \in 1 .. q : Append(part, byte)[j] = part[j]
        /\ Append(part, byte)[q + 1] = byte
    <3>1. part \in Seq(Byte) /\ byte \in Byte /\ Len(part) = q
      BY <1>0, <1>3, <2>6
    <3> QED BY <3>1, AppendProperties
  <2>8. CASE m = 1
    <3>1. Receives(Bytes(Append(part, byte)), read.bs)
      BY <1>2, <1>6, <2>8
    <3>2. Append(part, byte) = c
      <4>1. n = q + 1
        BY <1>3, <2>8
      <4>2. \A j \in 1 .. q + 1 : Append(part, byte)[j] = c[j]
        <5> TAKE j \in 1 .. q + 1
        <5>1. CASE j = q + 1
          BY <5>1, <2>6, <2>7
        <5>2. CASE j # q + 1
          <6>1. j \in 1 .. q
            BY <5>2, <1>3
          <6> QED BY <6>1, <1>3, <2>7
        <5> QED BY <5>1, <5>2
      <4> QED BY <4>1, <4>2, <1>3, <2>7, SeqEqual
    <3>3. Receives(item, read.bs)
      BY <3>1, <3>2, <1>3
    <3>4. Position(read.bs) = e
      BY <1>3, <2>4, <2>8
    <3>5. Arrives(read.bs)
      BY <1>0, <1>1, <2>1, <2>4, <3>3, <3>4 DEF Arrives, Reached
    <3> QED BY <3>5
  <2>9. CASE m # 1
    <3>1. /\ br' = read.bs /\ part' = Append(part, byte)
          /\ UNCHANGED << bw, sent, ends, got, order, pc >>
      BY <1>2, <1>6, <2>9
    <3>2. q + 1 < n
      BY <1>1, <1>3, <2>9
    <3>3. ArrivesInPart(read.bs)
      BY <1>0, <1>1, <2>4, <2>6, <2>7, <3>1, <3>2 DEF ArrivesInPart, Reached
    <3> QED BY <3>3
  <2> QED BY <2>8, <2>9
<1> QED BY <1>5, <1>6

LEMMA ReceiveBytesOutcome ==
    ASSUME IInv, ReceiveBytes PROVE \E r : Arrives(r) \/ Stops(r)
<1>0. PICK item, e, q, w, n, m, c, left, pos, len, copy :
        /\ item = sent[Len(got) + 1] /\ e = End(Len(got) + 1)
        /\ q = Len(part) /\ w = br.buffer /\ n = item.n /\ m = Missing
        /\ c = item.bytes /\ left = bs_reader_bits_left(br)
        /\ pos = Position(br) /\ len = Len(br.buffer)
        /\ copy = bs_read_bytes(br, m)
  OBVIOUS
<1>1. /\ pc = "receive" /\ Len(got) < Len(sent)
      /\ item.order = order /\ item.kind = "bytes"
  BY <1>0 DEF ReceiveBytes, Expects
<1>2. IF copy.ret.ok THEN Receives(Bytes(part \o copy.ret.bytes), copy.bs)
                     ELSE StopsWith(copy.bs)
  BY <1>0 DEF ReceiveBytes
<1>3. /\ n \in Nat /\ q \in Nat /\ m \in Nat /\ m = n - q
      /\ left \in Nat /\ e \in Nat /\ pos \in Nat /\ len \in Nat
      /\ c \in Seq(Byte) /\ Len(c) = n /\ item = Bytes(c)
      /\ part \in Seq(Byte)
      /\ \A j \in 1 .. q : part[j] = c[j]
      /\ e > 8 * len <=> 8 * m > left
      /\ e = pos + 8 * m
      /\ w \in Seq(Byte)
      /\ \E first \in Nat :
           /\ pos = 8 * (first + q)
           /\ e <= 8 * len <=> first + n <= len
           /\ e <= 8 * len => \A i \in 1 .. n : w[first + i] = c[i]
  <2>1. pc # "send"
    BY <1>1
  <2>2. BytesAhead(item, e, q, w, n, m, c, left, pos, len)
    BY <1>0, <1>1, <2>1, NextBytes
  <2> QED BY <2>2 DEF BytesAhead
<1>4. order \in Orders /\ GoodReader(br, order) /\ Bounded(br)
  BY <1>1, Standing
<1>5. PICK first \in Nat :
        /\ pos = 8 * (first + q)
        /\ e <= 8 * len <=> first + n <= len
        /\ e <= 8 * len => \A i \in 1 .. n : w[first + i] = c[i]
  BY <1>3
<1>6. /\ pos % 8 = 0 /\ pos \div 8 = first + q
      /\ (first + q) + m = first + n
  BY <1>3, <1>5
<1>7. GoodReader(copy.bs, order) /\ copy.bs.buffer = w
  <2>1. /\ copy.bs.buffer = br.buffer
        /\ copy.bs = br \/ (GoodMsb(copy.bs) /\ GoodLsb(copy.bs))
    BY <1>0, <1>3, <1>4, ReadBytesKeeps
  <2> QED BY <1>0, <2>1, <1>4 DEF GoodReader
<1>8. Copies(br, m, copy)
  BY <1>0, <1>3, <1>4, ReadBytesMeets
<1>9. /\ Position(copy.bs) = IF e <= 8 * len THEN pos + 8 * m ELSE pos
      /\ copy.ret.ok <=> e <= 8 * len
      /\ e <= 8 * len =>
           copy.ret.bytes = SubSeq(w, (first + q) + 1, (first + q) + m)
  <2> DEFINE fits == (first + q) + m <= len
             bytes == SubSeq(w, (first + q) + 1, (first + q) + m)
  <2>1. /\ Position(copy.bs) = IF fits THEN pos + 8 * m ELSE pos
        /\ copy.ret = Copied(fits, IF fits THEN bytes ELSE << >>)
    BY <1>0, <1>6, <1>8 DEF Copies
  <2>2. fits <=> e <= 8 * len
    BY <1>5, <1>6
  <2> HIDE DEF fits, bytes
  <2>3. /\ copy.ret.ok = fits
        /\ copy.ret.bytes = IF fits THEN bytes ELSE << >>
    <3> DEFINE copied == IF fits THEN bytes ELSE << >>
    <3>1. copy.ret = Copied(fits, copied)
      BY <2>1
    <3> HIDE DEF copied
    <3>2. /\ Copied(fits, copied).ok = fits
          /\ Copied(fits, copied).bytes = copied
      BY Zenon DEF Copied, Ret
    <3>3. copy.ret.ok = fits
      BY <3>1, <3>2, Zenon
    <3>4. copy.ret.bytes = copied
      BY <3>1, <3>2
    <3> QED BY <3>3, <3>4 DEF copied
  <2> QED BY <2>1, <2>2, <2>3 DEF bytes
<1>10. CASE e <= 8 * len
  <2> DEFINE bytes == SubSeq(w, (first + q) + 1, (first + q) + m)
  <2>1. Receives(Bytes(part \o bytes), copy.bs)
    BY <1>2, <1>9, <1>10
  <2>2. first + n <= len /\ \A i \in 1 .. n : w[first + i] = c[i]
    BY <1>5, <1>10
  <2>3. /\ bytes \in Seq(Byte) /\ Len(bytes) = m
        /\ \A i \in 1 .. m : bytes[i] = w[(first + q) + i]
    <3>0. PICK a, b : a = (first + q) + 1 /\ b = (first + q) + m
      OBVIOUS
    <3>1. /\ a \in Int /\ b \in Int /\ \A i \in a .. b : i \in 1 .. len
          /\ (IF a <= b THEN b - a + 1 ELSE 0) = m
          /\ b - a + 1 = m
          /\ \A i \in 1 .. m : a + i - 1 = (first + q) + i
      BY <3>0, <1>3, <1>6, <2>2
    <3>2. \A i \in a .. b : w[i] \in Byte
      <4>1. w \in Seq(Byte) /\ len = Len(w)
        BY <1>0, <1>3
      <4> QED BY <3>1, <4>1
    <3>3. /\ SubSeq(w, a, b) \in Seq(Byte)
          /\ Len(SubSeq(w, a, b)) = IF a <= b THEN b - a + 1 ELSE 0
          /\ \A i \in 1 .. b - a + 1 : SubSeq(w, a, b)[i] = w[a + i - 1]
      BY <3>1, <3>2, SubSeqProperties
    <3> QED BY <3>0, <3>1, <3>3
  <2> HIDE DEF bytes
  <2>4. /\ part \o bytes \in Seq(Byte) /\ Len(part \o bytes) = n
        /\ \A i \in 1 .. n :
             (part \o bytes)[i] = IF i <= q THEN part[i] ELSE bytes[i - q]
    <3>1. q + m = n
      BY <1>3
    <3>2. /\ part \o bytes \in Seq(Byte)
          /\ Len(part \o bytes) = Len(part) + Len(bytes)
          /\ \A i \in 1 .. Len(part) + Len(bytes) :
               (part \o bytes)[i] = IF i <= Len(part) THEN part[i]
                                    ELSE bytes[i - Len(part)]
      BY <1>3, <2>3, ConcatProperties
    <3> QED BY <1>0, <2>3, <3>1, <3>2
  <2>5. \A i \in 1 .. n : (part \o bytes)[i] = c[i]
    <3> TAKE i \in 1 .. n
    <3>1. CASE i <= q
      <4>1. i \in 1 .. q
        BY <3>1, <1>3
      <4> QED BY <3>1, <4>1, <1>3, <2>4
    <3>2. CASE ~ (i <= q)
      <4>1. i - q \in 1 .. m /\ (first + q) + (i - q) = first + i
        BY <3>2, <1>3, <1>5
      <4> QED BY <3>2, <4>1, <2>2, <2>3, <2>4
    <3> QED BY <3>1, <3>2
  <2>6. part \o bytes = c
    BY <1>3, <2>4, <2>5, SeqEqual
  <2>7. Receives(item, copy.bs)
    BY <1>3, <2>1, <2>6
  <2>8. Position(copy.bs) = e
    BY <1>3, <1>9, <1>10
  <2>9. Arrives(copy.bs)
    BY <1>0, <1>1, <1>7, <1>10, <2>7, <2>8 DEF Arrives, Reached
  <2> QED BY <2>9
<1>11. CASE ~ (e <= 8 * len)
  <2>1. StopsWith(copy.bs)
    BY <1>2, <1>9, <1>11
  <2>2. e > 8 * len
    BY <1>3, <1>11
  <2>3. Stops(copy.bs)
    BY <1>0, <1>7, <1>9, <1>11, <2>1, <2>2 DEF Stops, Reached
  <2> QED BY <2>3
<1> QED BY <1>10, <1>11

---------------------------------------------------------------------------
\* The steps of the receiver keep the invariant.

\* What is on the wire is not touched.
LEMMA WireKeeps ==
    ASSUME IInv, pc # "send", pc' \in {"receive", "done"},
           br'.buffer = br.buffer, UNCHANGED << bw, sent, ends >>,
           order' \in Orders, Receiver'
    PROVE  IInv'
<1>1. Ended /\ OnWire /\ Padded /\ Within(bw)
  BY DEF IInv
<1>2. (\A k : End(k)' = End(k)) /\ Last' = Last
  BY DEF End, Last
<1>3. Ended'
  BY <1>1, <1>2 DEF Ended
<1>4. OnWire'
  BY <1>1, <1>2 DEF OnWire
<1>5. Padded'
  BY <1>1, <1>2 DEF Padded
<1>6. Within(bw)'
  BY <1>1
<1> QED BY <1>3, <1>4, <1>5, <1>6 DEF IInv

LEMMA ArrivesKeeps ==
    ASSUME IInv, pc = "receive", NEW r, Arrives(r) PROVE IInv'
<1>0. PICK N, item : N = Len(got) /\ item = sent[N + 1]
  OBVIOUS
<1>1. /\ N \in Nat /\ Len(sent) \in Nat /\ N + 1 \in 1 .. Len(sent)
      /\ got \in Seq(ItemType) /\ sent \in Seq(ItemType) /\ item \in ItemType
      /\ ends \in Seq(Nat) /\ Len(ends) = Len(sent)
      /\ \A k \in 1 .. N : got[k] = sent[k]
      /\ order \in Orders
  BY <1>0 DEF IInv, Ended, Receiver, Arrives
<1>2. /\ br' = r /\ got' = Append(got, item) /\ part' = << >>
      /\ UNCHANGED << bw, sent, ends, order, pc >>
      /\ r.buffer = br.buffer /\ GoodReader(r, order)
      /\ Position(r) = End(N + 1) /\ item.order = order
  BY <1>0 DEF Arrives, Receives, Reached
<1>3. /\ got' \in Seq(ItemType) /\ Len(got') = N + 1
      /\ \A k \in 1 .. N + 1 : got'[k] = sent[k]
  <2>1. /\ got' \in Seq(ItemType) /\ Len(got') = N + 1
        /\ \A k \in 1 .. N : got'[k] = got[k]
        /\ got'[N + 1] = item
    BY <1>0, <1>1, <1>2, AppendProperties
  <2>2. ASSUME NEW k \in 1 .. N + 1 PROVE got'[k] = sent[k]
    <3>1. CASE k = N + 1
      BY <3>1, <2>1, <1>0
    <3>2. CASE k # N + 1
      <4>1. k \in 1 .. N
        BY <3>2, <1>1
      <4> QED BY <4>1, <2>1, <1>1
    <3> QED BY <3>1, <3>2
  <2> QED BY <2>1, <2>2
<1>4. Position(br') = End(Len(got))' + 8 * Len(part')
  <2>1. End(Len(got))' = End(N + 1)
    BY <1>2, <1>3 DEF End
  <2>2. End(N + 1) \in Nat /\ Len(part') = 0
    BY <1>1, <1>2 DEF End
  <2> QED BY <1>2, <2>1, <2>2
<1>5. InOrder'
  BY <1>0, <1>2, <1>3 DEF InOrder
<1>6. PartOfNext' /\ part' \in Seq(Byte)
  BY <1>2 DEF PartOfNext
<1>7. GoodReader(br', order')
  BY <1>2
<1>8. Receiver'
  BY <1>1, <1>2, <1>3, <1>4, <1>5, <1>6, <1>7 DEF Receiver, GoodReader
<1> QED BY <1>1, <1>2, <1>8, WireKeeps

LEMMA ArrivesInPartKeeps ==
    ASSUME IInv, NEW r, ArrivesInPart(r) PROVE IInv'
<1>0. PICK item, q : item = sent[Len(got) + 1] /\ q = Len(part)
  OBVIOUS
<1>1. /\ pc = "receive" /\ br' = r /\ Len(got) < Len(sent)
      /\ part' = Append(part, item.bytes[q + 1]) /\ part' \in Seq(Byte)
      /\ UNCHANGED << bw, sent, ends, got, order, pc >>
      /\ r.buffer = br.buffer /\ GoodReader(r, order)
      /\ Position(r) = Position(br) + 8
      /\ item.kind = "bytes" /\ item.order = order /\ q + 1 < item.n
  BY <1>0 DEF ArrivesInPart, Reached
<1>2. pc # "send"
  BY <1>1
<1>3. /\ order \in Orders /\ Len(got) \in Nat /\ q \in Nat
      /\ Position(br) = End(Len(got)) + 8 * q /\ Position(br) \in Nat
  BY <1>0, <1>2, Standing
<1>4. /\ part \in Seq(Byte) /\ got \in Seq(ItemType) /\ Len(got) <= Len(sent)
      /\ \A k \in 1 .. Len(got) : got[k] = sent[k]
      /\ InOrder
  BY <1>2 DEF IInv, Receiver
<1>5. \A j \in 1 .. q : part[j] = item.bytes[j]
  BY <1>0, <1>1, <1>2, NextItem
<1>6. /\ Len(part') = q + 1
      /\ \A j \in 1 .. q + 1 : part'[j] = item.bytes[j]
  <2> DEFINE byte == item.bytes[q + 1]
  <2> HIDE DEF byte
  <2>1. part' = Append(part, byte) /\ part \in Seq(Byte)
    BY <1>1, <1>4 DEF byte
  <2>2. /\ Len(part') = q + 1 /\ part'[q + 1] = byte
        /\ \A j \in 1 .. q : part'[j] = part[j]
    <3>1. Sendable(item)
      BY <1>0, <1>1, <1>2, NextItem
    <3>2. item.bytes \in Seq(Byte) /\ Len(item.bytes) = item.n /\ item.n \in Nat
      BY <3>1, <1>1 DEF Sendable, ItemType
    <3>3. q + 1 \in 1 .. Len(item.bytes)
      BY <3>2, <1>1, <1>3
    <3>4. byte \in Byte
      BY <3>2, <3>3 DEF byte
    <3> QED BY <2>1, <3>4, <1>0, AppendProperties
  <2>3. ASSUME NEW j \in 1 .. q + 1 PROVE part'[j] = item.bytes[j]
    <3>1. CASE j = q + 1
      BY <3>1, <2>2 DEF byte
    <3>2. CASE j # q + 1
      <4>1. j \in 1 .. q
        BY <3>2, <1>3
      <4> QED BY <4>1, <2>2, <1>5
    <3> QED BY <3>1, <3>2
  <2> QED BY <2>2, <2>3
<1>7. PartOfNext'
  BY <1>0, <1>1, <1>6 DEF PartOfNext
<1>8. InOrder'
  BY <1>1, <1>4 DEF InOrder
<1>9. Position(br') = End(Len(got))' + 8 * Len(part')
  <2>1. End(Len(got))' = End(Len(got))
    BY <1>1 DEF End
  <2>2. End(Len(got)) \in Int
    <3>1. ends \in Seq(Nat) /\ Len(ends) = Len(sent)
      BY DEF IInv, Ended
    <3> QED BY <1>1, <1>3, <3>1 DEF End
  <2> QED BY <1>1, <1>3, <1>6, <2>1, <2>2
<1>10. GoodReader(br', order')
  BY <1>1
<1>11. Receiver'
  BY <1>1, <1>4, <1>7, <1>8, <1>9, <1>10 DEF Receiver, GoodReader
<1> QED BY <1>1, <1>2, <1>3, <1>11, WireKeeps

\* The receiver may look, or stop, and stands where it stood.
LEMMA StandsKeeps ==
    ASSUME IInv, pc # "send", pc' \in {"receive", "done"},
           Reached(br', Position(br)),
           UNCHANGED << bw, sent, ends, got, part, order >>
    PROVE  IInv'
<1>1. /\ br'.buffer = br.buffer /\ GoodReader(br', order)
      /\ Position(br') = Position(br)
  BY DEF Reached
<1>2. Receiver /\ order \in Orders
  BY DEF IInv
<1>3. End(Len(got))' = End(Len(got))
  BY DEF End
<1>4. InOrder' /\ PartOfNext'
  BY <1>2 DEF Receiver, InOrder, PartOfNext
<1>5. Receiver'
  BY <1>1, <1>2, <1>3, <1>4 DEF Receiver, GoodReader
<1> QED BY <1>1, <1>2, <1>5, WireKeeps

LEMMA StopsKeeps ==
    ASSUME IInv, pc = "receive", NEW r, Stops(r) PROVE IInv'
<1>1. /\ br' = r /\ pc' = "done" /\ Reached(r, Position(br))
      /\ UNCHANGED << bw, sent, ends, got, part, order >>
  BY DEF Stops, StopsWith
<1> QED BY <1>1, StandsKeeps

LEMMA GlanceKeeps ==
    ASSUME IInv, NEW n \in Counts, Glance(n) PROVE IInv'
<1> DEFINE res == IF order = "msb" THEN bs_peek_bits(br, n)
                                   ELSE bs_peek_bits_lsb(br, n)
<1>1. /\ pc = "receive" /\ br' = res.bs
      /\ UNCHANGED << bw, sent, ends, got, part, order, pc >>
  BY DEF Glance
<1>2. n \in 0 .. MaxBits
  BY TransferAssumption, WidthFacts
<1>3. order \in Orders /\ GoodReader(br, order)
  BY <1>1, Standing
<1>4. Reached(res.bs, Position(br))
  <2>1. CASE order = "msb"
    <3>1. GoodMsb(br) /\ res = bs_peek_bits(br, n)
      BY <1>3, <2>1 DEF GoodReader
    <3>2. /\ KeepsMsb(br, res)
          /\ Sees(br, "msb", n, res) \/ Refuses(br, n, res)
      BY <1>2, <3>1, MsbCallsKeep, MsbCallsMeet
    <3> HIDE DEF res
    <3> QED BY <2>1, <3>2 DEF Reached, GoodReader, KeepsMsb, Sees, Refuses
  <2>2. CASE order = "lsb"
    <3>1. GoodLsb(br) /\ res = bs_peek_bits_lsb(br, n)
      BY <1>3, <2>2 DEF GoodReader
    <3>2. /\ KeepsLsb(br, res)
          /\ Sees(br, "lsb", n, res) \/ Refuses(br, n, res)
      BY <1>2, <3>1, LsbCallsKeep, LsbCallsMeet
    <3> HIDE DEF res
    <3> QED BY <2>2, <3>2 DEF Reached, GoodReader, KeepsLsb, Sees, Refuses
  <2> QED BY <1>3, <2>1, <2>2 DEF Orders
<1> QED BY <1>1, <1>4, StandsKeeps

\* A copy of no byte at a byte boundary leaves a reader that is good for
\* either family, where it stood.
LEMMA NoByteCopied ==
    ASSUME NEW b, Bounded(b), Position(b) % 8 = 0
    PROVE  LET r == bs_read_bytes(b, 0).bs IN
           /\ GoodMsb(r) /\ GoodLsb(r) /\ r.buffer = b.buffer
           /\ Position(r) = Position(b)
<1> DEFINE p == b.byte_pos  c == b.bits_in_cache  len == Len(b.buffer)
           to == p - (c \div 8)  res == bs_read_bytes(b, 0)
<1>1. /\ b \in Readers /\ p \in Nat /\ c \in Nat /\ len \in Nat
      /\ p <= len /\ c <= 8 * p
  BY WidthFacts DEF Bounded, Readers
<1>2. Position(b) = 8 * p - c
  BY DEF Position
<1>3. c % 8 = 0 /\ to \in Nat
  BY <1>1, <1>2, GiveBack
<1>4. to \in 0 .. len /\ to + 0 = to /\ ~ (0 > len - to)
  BY <1>1, <1>3
<1>5. rewind(b) = Empty(b, to)
  BY DEF rewind
<1>6. Empty(Empty(b, to), to) = Empty(b, to)
  BY DEF Empty
<1>7. Empty(b, to).byte_pos = to /\ Empty(b, to).buffer = b.buffer
  BY DEF Empty
<1>8. res.bs = Empty(b, to)
  <2> HIDE DEF to
  <2>1. res = Result(Empty(Empty(b, to), to),
                     Copied(TRUE, SubSeq(b.buffer, to + 1, to + 0)))
    BY <1>3, <1>4, <1>5, <1>7 DEF bs_read_bytes
  <2> HIDE DEF res
  <2> QED BY <1>6, <2>1 DEF Result
<1>9. /\ GoodMsb(Empty(b, to)) /\ GoodLsb(Empty(b, to))
      /\ Empty(b, to).buffer = b.buffer
  BY <1>1, <1>4, EmptyGood
<1>10. Position(res.bs) = Position(b)
  <2>1. Position(b) = 8 * to
    BY <1>1, <1>2, <1>3, GiveBack
  <2>2. Position(Empty(b, to)) = 8 * to - 0
    BY DEF Position, Empty
  <2> HIDE DEF to, res
  <2> QED BY <1>8, <2>1, <2>2, <1>3
<1> QED BY <1>8, <1>9, <1>10

LEMMA ReceiverTurnsKeeps ==
    ASSUME IInv, ReceiverTurns PROVE IInv'
<1>0. PICK N : N = Len(got)
  OBVIOUS
<1>1. /\ pc = "receive" /\ N < Len(sent) /\ sent[N + 1].order # order
      /\ order' = sent[N + 1].order /\ br' = bs_read_bytes(br, 0).bs
      /\ UNCHANGED << bw, sent, ends, got, part, pc >>
  BY <1>0 DEF ReceiverTurns
<1>2. /\ Bounded(br) /\ N \in Nat /\ Len(sent) \in Nat
      /\ Position(br) <= 8 * Len(br.buffer) /\ Len(br.buffer) \in Nat
      /\ Position(br) = End(N) + 8 * Len(part)
  BY <1>0, <1>1, Standing
<1>3. Ended /\ OnWire /\ Receiver
  BY <1>1 DEF IInv
<1>4. N + 1 \in 1 .. Len(sent) /\ order' \in Orders
  <2>1. N + 1 \in 1 .. Len(sent)
    BY <1>1, <1>2
  <2>2. sent[N + 1] \in ItemType
    BY <1>3, <2>1 DEF Ended
  <2> QED BY <1>1, <2>1, <2>2 DEF ItemType
<1>5. part = << >> /\ Len(part) = 0
  BY <1>0, <1>1, <1>3 DEF Receiver, PartOfNext
<1>6. End(N) \in Nat
  BY <1>1, <1>2, <1>3 DEF Ended, End
<1>7. Position(br) = End(N)
  BY <1>2, <1>5, <1>6
<1>8. End(N) % 8 = 0
  <2>1. CASE N = 0
    BY <2>1 DEF End
  <2>2. CASE N # 0
    <3>1. order = sent[N].order
      BY <2>2, <1>0, <1>1, <1>3 DEF Receiver, InOrder
    <3>2. N \in 1 .. Len(sent) - 1
      BY <2>2, <1>1, <1>2
    <3>3. End(N) <= 8 * Len(br.buffer)
      BY <1>2, <1>7
    <3> QED BY <3>1, <3>2, <3>3, <1>1, <1>3 DEF OnWire
  <2> QED BY <2>1, <2>2
<1>9. /\ GoodMsb(br') /\ GoodLsb(br') /\ br'.buffer = br.buffer
      /\ Position(br') = Position(br)
  BY <1>1, <1>2, <1>7, <1>8, NoByteCopied
<1>10. Receiver'
  <2>1. GoodReader(br', order')
    BY <1>9 DEF GoodReader
  <2>2. Position(br') = End(Len(got))' + 8 * Len(part')
    BY <1>0, <1>1, <1>2, <1>9 DEF End
  <2>3. InOrder'
    BY <1>0, <1>1 DEF InOrder
  <2>4. PartOfNext'
    BY <1>1, <1>5 DEF PartOfNext
  <2> QED BY <1>1, <1>3, <2>1, <2>2, <2>3, <2>4 DEF Receiver, GoodReader
<1>11. pc # "send" /\ pc' \in {"receive", "done"}
  BY <1>1
<1> QED BY <1>1, <1>4, <1>9, <1>10, <1>11, WireKeeps

---------------------------------------------------------------------------
\* The invariant is inductive.

LEMMA IInvInit == Init => IInv
<1> SUFFICES ASSUME Init PROVE IInv
  OBVIOUS
<1>1. PICK m \in WireSizes :
        bw = bs_writer_init([k \in 1 .. m |-> [i \in 0 .. 7 |-> 1]])
  BY DEF Init
<1> DEFINE data == [k \in 1 .. m |-> [i \in 0 .. 7 |-> 1]]
<1>2. /\ br = bs_reader_init(<< >>) /\ sent = << >> /\ ends = << >>
      /\ got = << >> /\ part = << >> /\ order \in Orders /\ pc = "send"
  BY DEF Init
<1>3. data \in Seq(Byte)
  <2>1. m \in Nat
    BY TransferAssumption
  <2>2. [i \in 0 .. 7 |-> 1] \in Byte
    BY ByteBits DEF Bit
  <2> QED BY <2>1, <2>2
<1>4. bw = bs_writer_init(data)
  BY <1>1
<1> HIDE DEF data
<1>5. /\ Good(bw) /\ Size(bw) = 0 /\ bw.overflow = FALSE
  <2>1. Carries(bw, order, << >>, 0)
    BY <1>3, <1>4, OpenedCarries
  <2>2. bw.overflow = FALSE
    BY <1>4 DEF bs_writer_init
  <2> QED BY <2>1, <2>2 DEF Carries
<1>6. Len(sent) = 0 /\ Last = 0 /\ Len(ends) = 0
  BY <1>2 DEF Last, End
<1>7. Ended
  BY <1>2, <1>6 DEF Ended
<1>8. Sender
  <2>1. ~ Full(bw)
    BY <1>5 DEF Full
  <2>2. Kept /\ TurnsBetweenBytes(Len(bw.buffer))
    BY <1>6 DEF Kept, TurnsBetweenBytes
  <2> QED BY <1>2, <1>5, <1>6, <2>1, <2>2 DEF Sender
<1> QED BY <1>2, <1>5, <1>7, <1>8 DEF IInv, Good

LEMMA IInvStep == IInv /\ [Next]_vars => IInv'
<1> SUFFICES ASSUME IInv, [Next]_vars PROVE IInv'
  OBVIOUS
<1>1. ASSUME NEW value \in Values, NEW n \in Counts, SendBits(value, n)
      PROVE  IInv'
  BY <1>1, SendBitsKeeps
<1>2. CASE SendBoundary
  BY <1>2, SendBoundaryKeeps
<1>3. ASSUME NEW chunk \in Chunks, SendBytes(chunk) PROVE IInv'
  BY <1>3, SendBytesKeeps
<1>4. CASE SenderTurns
  BY <1>4, SenderTurnsKeeps
<1>5. CASE FlushAndOpen
  BY <1>5, FlushAndOpenKeeps
<1>6. CASE ReceiveBits
  <2>1. pc = "receive"
    BY <1>6 DEF ReceiveBits, Expects
  <2> QED BY <1>6, <2>1, ReceiveBitsOutcome, ArrivesKeeps, StopsKeeps
<1>7. CASE ReceiveBoundary
  <2>1. pc = "receive"
    BY <1>7 DEF ReceiveBoundary, Expects
  <2> QED BY <1>7, <2>1, ReceiveBoundaryOutcome, ArrivesKeeps
<1>8. CASE ReceiveBytes
  <2>1. pc = "receive"
    BY <1>8 DEF ReceiveBytes, Expects
  <2> QED BY <1>8, <2>1, ReceiveBytesOutcome, ArrivesKeeps, StopsKeeps
<1>9. CASE ReceiveByte
  <2>1. pc = "receive"
    BY <1>9 DEF ReceiveByte, Expects
  <2> QED BY <1>9, <2>1, ReceiveByteOutcome, ArrivesKeeps, StopsKeeps,
            ArrivesInPartKeeps
<1>10. ASSUME NEW n \in Counts, Glance(n) PROVE IInv'
  BY <1>10, GlanceKeeps
<1>11. CASE ReceiverTurns
  BY <1>11, ReceiverTurnsKeeps
<1>12. CASE ReceiveEnd
  <2>1. pc = "receive" /\ Len(got) = Len(sent) /\ StopsWith(br)
    BY <1>12 DEF ReceiveEnd
  <2>2. GoodReader(br, order)
    BY <2>1, Standing
  <2>3. Stops(br)
    BY <2>1, <2>2 DEF Stops, Reached
  <2> QED BY <2>1, <2>3, StopsKeeps
<1>13. CASE UNCHANGED vars
  BY <1>13 DEF vars, IInv, Ended, Last, End, Placed, Kept, NextOrder,
     TurnsBetweenBytes, Sender, OnWire, Padded, GoodReader, InOrder,
     PartOfNext, Receiver
<1> QED BY <1>1, <1>2, <1>3, <1>4, <1>5, <1>6, <1>7, <1>8, <1>9, <1>10,
           <1>11, <1>12, <1>13 DEF Next

\* What the invariant says of every state.
LEMMA IInvImplies == IInv => TypeOK /\ RestIsPadding
<1> SUFFICES ASSUME IInv PROVE TypeOK /\ RestIsPadding
  OBVIOUS
<1>1. TypeOK
  <2>1. bw \in Writers /\ bw.byte_pos <= Len(bw.buffer)
    BY DEF IInv, Within
  <2>2. br \in Readers /\ br.byte_pos <= Len(br.buffer) /\ Len(got) <= Len(sent)
    <3>1. CASE pc = "send"
      <4>1. br = bs_reader_init(<< >>) /\ got = << >> /\ Len(sent) \in Nat
        BY <3>1 DEF IInv, Sender, Ended
      <4>2. << >> \in Seq(Byte)
        OBVIOUS
      <4>3. GoodMsb(br)
        BY <4>1, <4>2, OpenedGood
      <4> QED BY <4>1, <4>3 DEF GoodMsb, Bounded
    <3>2. CASE pc # "send"
      BY <3>2, Standing DEF Bounded
    <3> QED BY <3>1, <3>2
  <2> QED BY <2>1, <2>2 DEF TypeOK
<1>2. RestIsPadding
  <2> SUFFICES ASSUME pc = "done", got = sent
               PROVE  /\ bs_reader_bits_left(br) < 8
                      /\ \A j \in Last .. 8 * Len(br.buffer) - 1 :
                           StreamBit(br.buffer, order, j) = 0
    BY DEF RestIsPadding, Last
  <2>1. /\ Padded /\ Receiver /\ Ended
    BY DEF IInv
  <2>2. /\ Position(br) \in Nat /\ Position(br) <= 8 * Len(br.buffer)
        /\ Len(br.buffer) \in Nat
        /\ bs_reader_bits_left(br) = 8 * Len(br.buffer) - Position(br)
        /\ Position(br) = Last + 8 * Len(part)
        /\ Len(got) = Len(sent) /\ Len(sent) \in Nat
    BY Standing DEF Last
  <2>3. part = << >> /\ Len(part) = 0
    BY <2>1, <2>2 DEF Receiver, PartOfNext
  <2>4. Last \in Nat
    BY <2>1, <2>2 DEF Ended, Last, End
  <2>5. Position(br) = Last /\ Last <= 8 * Len(br.buffer)
    BY <2>2, <2>3, <2>4
  <2>6. bs_reader_bits_left(br) < 8
    BY <2>1, <2>2, <2>5 DEF Padded
  <2>7. ASSUME NEW j \in Last .. 8 * Len(br.buffer) - 1
        PROVE  StreamBit(br.buffer, order, j) = 0
    <3>1. CASE sent = << >>
      <4>1. Last = 0
        BY <3>1 DEF Last, End
      <4>2. 8 * Len(br.buffer) < 8
        <5>1. bs_reader_bits_left(br) = 8 * Len(br.buffer)
          <6>1. /\ Position(br) = 0 /\ Len(br.buffer) \in Nat
                /\ bs_reader_bits_left(br) = 8 * Len(br.buffer) - Position(br)
            BY <2>2, <2>5, <4>1
          <6> QED BY <6>1
        <5> QED BY <5>1, <2>6
      <4> QED BY <2>2, <2>7, <4>1, <4>2
    <3>2. CASE sent # << >>
      <4>1. order = sent[Len(sent)].order
        <5>1. Len(sent) # 0
          BY <3>2, <2>1 DEF Ended
        <5> QED BY <5>1, <2>1, <2>2 DEF Receiver, InOrder
      <4>2. \A i \in Last .. 8 * Len(br.buffer) - 1 :
              StreamBit(br.buffer, sent[Len(sent)].order, i) = 0
        BY <3>2, <2>1, <2>5 DEF Padded
      <4> QED BY <4>1, <4>2, <2>7
    <3> QED BY <3>1, <3>2
  <2> QED BY <2>6, <2>7
<1> QED BY <1>1, <1>2

\* Type correctness: the writer and the reader of a transfer, whatever is
\* sent and in whichever way it is received, stay bounded by their memories.
THEOREM TransferTypeCorrect == Spec => []TypeOK
<1>1. Spec => []IInv
  BY IInvInit, IInvStep, PTL DEF Spec
<1> QED BY <1>1, IInvImplies, PTL

\* When all items have been received, what bs_reader_bits_left still counts
\* is less than a byte, and is the zero padding of the flush: no bit of what
\* the memory held before the transfer is left in the last byte.
THEOREM OnlyPaddingIsLeft == Spec => []RestIsPadding
<1>1. Spec => []IInv
  BY IInvInit, IInvStep, PTL DEF Spec
<1> QED BY <1>1, IInvImplies, PTL

---------------------------------------------------------------------------
\* The refinement.

LEMMA InitMaps == Init => Abstract!Init
<1> SUFFICES ASSUME Init PROVE Abstract!Init
  OBVIOUS
<1>1. sent = << >> /\ got = << >> /\ pc = "send"
  BY DEF Init
<1>2. bw.overflow = FALSE
  BY DEF Init, bs_writer_init
<1> QED BY <1>1, <1>2 DEF Abstract!Init

\* Sending an item, or having it refused, is sending in the channel.
LEMMA SendMaps ==
    ASSUME IInv, pc = "send", NEW d, Keeps(bw, d),
           \/ \E item : Sendable(item) /\ Sending(item, d)
           \/ bw' = d /\ UNCHANGED << sent, ends, br, got, part, order, pc >>
    PROVE  Abstract!Send
<1>1. Good(bw) /\ Good(d) /\ (bw.overflow => d.overflow)
  BY DEF IInv, Sender, Keeps, Appends
<1>2. bw.overflow \in BOOLEAN /\ d.overflow \in BOOLEAN
  BY <1>1, WriterFields DEF Good
<1>3. (~ d.overflow) \in {~ bw.overflow, FALSE}
  BY <1>1, <1>2
<1>4. bw' = d /\ got' = got /\ pc' = pc
  BY DEF Sending
<1>5. \/ sent' = sent
      \/ /\ sent' \in Seq(ItemType) /\ Len(sent') = Len(sent) + 1
         /\ SubSeq(sent', 1, Len(sent)) = sent
  <2>1. sent \in Seq(ItemType) /\ Len(sent) \in Nat
    BY DEF IInv, Ended
  <2>2. ASSUME NEW item, Sendable(item), Sending(item, d)
        PROVE  /\ sent' \in Seq(ItemType) /\ Len(sent') = Len(sent) + 1
               /\ SubSeq(sent', 1, Len(sent)) = sent
    <3>0. PICK L : L = Len(sent)
      OBVIOUS
    <3>1. sent' = Append(sent, item) /\ item \in ItemType
      BY <2>2 DEF Sending, Sendable
    <3>2. /\ sent' \in Seq(ItemType) /\ Len(sent') = L + 1
          /\ \A k \in 1 .. L : sent'[k] = sent[k]
      BY <2>1, <3>0, <3>1, AppendProperties
    <3>3. \A k \in 1 .. L : sent'[k] \in ItemType
      BY <2>1, <3>0, <3>2
    <3>4. /\ SubSeq(sent', 1, L) \in Seq(ItemType)
          /\ Len(SubSeq(sent', 1, L)) = IF 1 <= L THEN L - 1 + 1 ELSE 0
          /\ \A i \in 1 .. L - 1 + 1 : SubSeq(sent', 1, L)[i] = sent'[1 + i - 1]
      BY <2>1, <3>0, <3>3, SubSeqProperties
    <3>5. /\ (IF 1 <= L THEN L - 1 + 1 ELSE 0) = L /\ L - 1 + 1 = L
          /\ \A i \in 1 .. L : 1 + i - 1 = i
      BY <2>1, <3>0
    <3>6. SubSeq(sent', 1, L) = sent
      BY <2>1, <3>0, <3>2, <3>4, <3>5, SeqEqual
    <3> QED BY <3>0, <3>2, <3>6
  <2> QED BY <2>2
<1>6. (~ bw'.overflow) \in {~ bw.overflow, FALSE}
  BY <1>3, <1>4
<1>7. (IF pc = "send" THEN {} ELSE Whole)'
        = (IF pc = "send" THEN {} ELSE Whole)
  BY <1>4
<1> QED BY <1>4, <1>5, <1>6, <1>7 DEF Abstract!Send, ItemType

\* A flush and the opening of the memory is the closing of the channel.
LEMMA CloseMaps == ASSUME IInv, FlushAndOpen PROVE Abstract!Close
<1>0. PICK L : L = Len(sent)
  OBVIOUS
<1>1. /\ pc = "send" /\ pc' = "receive" /\ bw' = Flush(bw)
      /\ UNCHANGED << sent, ends, got, part, order >>
  BY DEF FlushAndOpen
<1>2. IInv'
  BY FlushAndOpenKeeps
<1>3. pc' # "send"
  BY <1>1
<1>4. OnWire' /\ Ended'
  BY <1>2, <1>3 DEF IInv
<1>5. /\ L \in Nat /\ ends \in Seq(Nat) /\ Len(ends) = L
      /\ \A k \in 1 .. L : \A i \in 1 .. k : ends[i] <= ends[k]
  BY <1>0 DEF IInv, Ended
<1>6. PICK size : size = 8 * Len(br'.buffer) /\ size \in Nat
  <2>1. Len(br'.buffer) \in Nat
    BY <1>4 DEF OnWire
  <2> QED BY <2>1
<1>7. Whole' = {k \in 1 .. L : ends[k] <= size}
  BY <1>0, <1>1, <1>5, <1>6 DEF Whole, End
<1>8. Whole' \subseteq 1 .. L
  BY <1>7
<1>9. ASSUME NEW k \in Whole' PROVE 1 .. k \subseteq Whole'
  <2>1. k \in 1 .. L /\ ends[k] <= size
    BY <1>7
  <2>2. ASSUME NEW i \in 1 .. k PROVE i \in Whole'
    <3>1. i \in 1 .. L /\ ends[i] <= ends[k]
      BY <1>5, <2>1
    <3>2. ends[i] \in Nat /\ ends[k] \in Nat
      BY <1>5, <2>1, <3>1
    <3>3. ends[i] <= size
      BY <1>6, <2>1, <3>1, <3>2
    <3> QED BY <1>7, <3>1, <3>3
  <2> QED BY <2>2
<1>10. ASSUME ~ bw'.overflow PROVE Whole' = 1 .. L
  <2>1. Last' <= size
    BY <1>4, <1>6, <1>10 DEF OnWire
  <2>2. L # 0 => Last' = ends[L]
    BY <1>0, <1>1 DEF Last, End
  <2>3. ASSUME NEW k \in 1 .. L PROVE ends[k] <= size
    <3>1. L # 0 /\ L \in 1 .. L /\ k \in 1 .. L
      BY <1>5
    <3>2. ends[k] <= ends[L] /\ ends[k] \in Nat /\ ends[L] \in Nat
      BY <1>5, <3>1
    <3> QED BY <1>6, <2>1, <2>2, <3>1, <3>2
  <2> QED BY <1>7, <2>3
<1>11. (~ bw'.overflow) \in {~ bw.overflow, FALSE}
  <2>1. order \in Orders /\ Good(bw)
    BY <1>1 DEF IInv, Sender
  <2>2. Good(bw') /\ (bw.overflow => bw'.overflow)
    BY <1>1, <2>1, BoundaryWritten DEF Drains, Keeps, Appends
  <2>3. bw.overflow \in BOOLEAN /\ bw'.overflow \in BOOLEAN
    BY <2>1, <2>2, WriterFields DEF Good
  <2> QED BY <2>2, <2>3
<1>12. (IF pc = "send" THEN {} ELSE Whole)' = Whole'
  BY <1>1
<1>13. (pc # "send")' = TRUE
  BY <1>1
<1> QED BY <1>0, <1>1, <1>8, <1>9, <1>10, <1>11, <1>12, <1>13
       DEF Abstract!Close

\* The items that are whole on the wire stay the same ones.
LEMMA WholeStays ==
    ASSUME br'.buffer = br.buffer, UNCHANGED << sent, ends >>
    PROVE  Whole' = Whole
BY DEF Whole, End

LEMMA ArrivesMaps ==
    ASSUME IInv, pc = "receive", NEW r, Arrives(r) PROVE Abstract!Receive
<1>1. /\ Len(got) \in Nat /\ Len(sent) \in Nat
  <2>1. pc # "send"
    OBVIOUS
  <2> QED BY <2>1, Standing
<1>2. /\ br' = r /\ got' = Append(got, sent[Len(got) + 1])
      /\ UNCHANGED << bw, sent, ends, order, pc >> /\ r.buffer = br.buffer
  BY DEF Arrives, Receives, Reached
<1>3. Len(got) + 1 \in Whole
  BY <1>1 DEF Arrives, Whole
<1>4. Whole' = Whole
  BY <1>2, WholeStays
<1>5. /\ (IF pc = "send" THEN {} ELSE Whole) = Whole
      /\ (IF pc = "send" THEN {} ELSE Whole)' = Whole
  BY <1>2, <1>4
<1> QED BY <1>2, <1>3, <1>5 DEF Abstract!Receive

LEMMA StopsMaps ==
    ASSUME IInv, pc = "receive", NEW r, Stops(r) PROVE Abstract!Stop
<1>1. /\ Len(got) \in Nat /\ Len(sent) \in Nat /\ Len(br.buffer) \in Nat
      /\ ends \in Seq(Nat) /\ Len(ends) = Len(sent)
  <2>1. pc # "send"
    OBVIOUS
  <2> QED BY <2>1, Standing DEF IInv, Ended
<1>2. /\ br' = r /\ pc' = "done" /\ r.buffer = br.buffer
      /\ UNCHANGED << bw, sent, ends, got, part, order >>
  BY DEF Stops, StopsWith, Reached
<1>3. Len(got) + 1 \notin Whole
  <2> SUFFICES ASSUME Len(got) + 1 \in Whole PROVE FALSE
    OBVIOUS
  <2>1. /\ Len(got) + 1 \in 1 .. Len(sent)
        /\ End(Len(got) + 1) <= 8 * Len(br.buffer)
    BY DEF Whole
  <2>2. End(Len(got) + 1) \in Nat
    BY <1>1, <2>1 DEF End
  <2>3. Len(got) = Len(sent) \/ End(Len(got) + 1) > 8 * Len(br.buffer)
    BY DEF Stops
  <2> QED BY <1>1, <2>1, <2>2, <2>3
<1>4. Whole' = Whole
  BY <1>2, WholeStays
<1>5. /\ (IF pc = "send" THEN {} ELSE Whole) = Whole
      /\ (IF pc = "send" THEN {} ELSE Whole)' = Whole
  BY <1>2, <1>4
<1> QED BY <1>2, <1>3, <1>5 DEF Abstract!Stop

\* The channel does not see the prefetching, the bytes of an item before the
\* last one, or a change of family.
LEMMA UnseenMaps ==
    ASSUME br'.buffer = br.buffer, UNCHANGED << bw, sent, ends, got, pc >>
    PROVE  UNCHANGED Abstract!vars
<1>1. Whole' = Whole
  BY WholeStays
<1> QED BY <1>1 DEF Abstract!vars

LEMMA StepMaps == IInv /\ [Next]_vars => [Abstract!Next]_(Abstract!vars)
<1> SUFFICES ASSUME IInv, [Next]_vars PROVE [Abstract!Next]_(Abstract!vars)
  OBVIOUS
<1>1. ASSUME pc = "receive", NEW r, Arrives(r) \/ Stops(r)
      PROVE  Abstract!Next
  BY <1>1, ArrivesMaps, StopsMaps DEF Abstract!Next
<1>2. ASSUME NEW value \in Values, NEW n \in Counts, SendBits(value, n)
      PROVE  Abstract!Next
  <2>1. pc = "send" /\ Good(bw) /\ order \in Orders
    BY <1>2 DEF SendBits, Sending, IInv, Sender
  <2>2. Sendable(Bits(n, value))
    BY <2>1, Shapes
  <2>3. PICK d : Keeps(bw, d) /\ Sending(Bits(n, value), d)
    <3>1. /\ LET d == IF order = "msb"
                      THEN bs_write_bits(bw, value, n, "masked")
                      ELSE bs_write_bits_lsb(bw, value, n, "masked")
             IN  Keeps(bw, d)
          /\ Clean(value, n) =>
             LET d == IF order = "msb"
                      THEN bs_write_bits_unchecked(bw, value, n, "masked")
                      ELSE bs_write_bits_lsb_unchecked(bw, value, n, "masked")
             IN  Keeps(bw, d)
      BY <2>1, FieldsWritten, Zenon
    <3> QED BY <1>2, <3>1, Zenon DEF SendBits
  <2> QED BY <2>1, <2>2, <2>3, SendMaps DEF Abstract!Next
<1>3. CASE SendBoundary
  <2>1. pc = "send" /\ Good(bw) /\ order \in Orders
    BY <1>3 DEF SendBoundary, Sending, IInv, Sender
  <2>2. PICK d \in {Align(bw), Flush(bw)} : Sending(Boundary, d)
    BY <1>3 DEF SendBoundary
  <2>3. Keeps(bw, d)
    BY <2>1, <2>2, BoundaryWritten DEF Drains
  <2>4. Sendable(Boundary)
    BY <2>1, Shapes
  <2> QED BY <2>1, <2>2, <2>3, <2>4, SendMaps DEF Abstract!Next
<1>4. ASSUME NEW chunk \in Chunks, SendBytes(chunk) PROVE Abstract!Next
  <2> DEFINE d == bs_write_bytes(bw, chunk)
  <2>1. pc = "send" /\ Good(bw) /\ order \in Orders
    BY <1>4 DEF SendBytes, Sending, IInv, Sender
  <2>2. chunk \in Seq(Byte)
    BY TransferAssumption
  <2>3. Keeps(bw, d)
    BY <2>1, <2>2, WriteBytesKeeps
  <2>4. Sendable(Bytes(chunk))
    BY <2>1, <2>2, Shapes
  <2>5. \/ Sending(Bytes(chunk), d)
        \/ bw' = d /\ UNCHANGED << sent, ends, br, got, part, order, pc >>
    BY <1>4 DEF SendBytes
  <2> HIDE DEF d
  <2> QED BY <2>1, <2>3, <2>4, <2>5, SendMaps DEF Abstract!Next
<1>5. CASE SenderTurns
  <2>1. br'.buffer = br.buffer /\ UNCHANGED << bw, sent, ends, got, pc >>
    BY <1>5 DEF SenderTurns
  <2> QED BY <2>1, UnseenMaps
<1>6. CASE FlushAndOpen
  BY <1>6, CloseMaps DEF Abstract!Next
<1>7. CASE ReceiveBits
  BY <1>1, <1>7, ReceiveBitsOutcome DEF ReceiveBits, Expects
<1>8. CASE ReceiveBoundary
  BY <1>1, <1>8, ReceiveBoundaryOutcome DEF ReceiveBoundary, Expects
<1>9. CASE ReceiveBytes
  BY <1>1, <1>9, ReceiveBytesOutcome DEF ReceiveBytes, Expects
<1>10. CASE ReceiveByte
  <2>1. ASSUME NEW r, ArrivesInPart(r) PROVE UNCHANGED Abstract!vars
    <3>1. br'.buffer = br.buffer /\ UNCHANGED << bw, sent, ends, got, pc >>
      BY <2>1 DEF ArrivesInPart, Reached
    <3> QED BY <3>1, UnseenMaps
  <2>2. pc = "receive"
    BY <1>10 DEF ReceiveByte, Expects
  <2> QED BY <1>1, <1>10, <2>1, <2>2, ReceiveByteOutcome
<1>11. ASSUME NEW n \in Counts, Glance(n) PROVE UNCHANGED Abstract!vars
  <2>1. UNCHANGED << bw, sent, ends, got, pc >> /\ pc = "receive"
    BY <1>11 DEF Glance
  <2>2. br'.buffer = br.buffer
    <3>1. n \in 0 .. MaxBits
      BY TransferAssumption, WidthFacts
    <3>2. order \in Orders /\ GoodReader(br, order)
      BY <2>1, Standing
    <3>3. CASE order = "msb"
      BY <1>11, <3>1, <3>2, <3>3, MsbCallsKeep DEF Glance, GoodReader, KeepsMsb
    <3>4. CASE order = "lsb"
      BY <1>11, <3>1, <3>2, <3>4, LsbCallsKeep DEF Glance, GoodReader, KeepsLsb
    <3> QED BY <3>2, <3>3, <3>4 DEF Orders
  <2> QED BY <2>1, <2>2, UnseenMaps
<1>12. CASE ReceiverTurns
  <2>1. /\ UNCHANGED << bw, sent, ends, got, pc >> /\ pc = "receive"
        /\ br' = bs_read_bytes(br, 0).bs
    BY <1>12 DEF ReceiverTurns
  <2>2. br'.buffer = br.buffer
    <3>1. Bounded(br) /\ 0 \in Nat
      BY <2>1, Standing
    <3> QED BY <2>1, <3>1, ReadBytesKeeps
  <2> QED BY <2>1, <2>2, UnseenMaps
<1>13. CASE ReceiveEnd
  <2>1. pc = "receive" /\ Len(got) = Len(sent) /\ StopsWith(br)
    BY <1>13 DEF ReceiveEnd
  <2>2. GoodReader(br, order)
    BY <2>1, Standing
  <2>3. Stops(br)
    BY <2>1, <2>2 DEF Stops, Reached
  <2> QED BY <1>1, <2>1, <2>3
<1>14. CASE UNCHANGED vars
  <2>1. br'.buffer = br.buffer /\ UNCHANGED << bw, sent, ends, got, pc >>
    BY <1>14 DEF vars
  <2> QED BY <2>1, UnseenMaps
<1> QED BY <1>2, <1>3, <1>4, <1>5, <1>6, <1>7, <1>8, <1>9, <1>10, <1>11,
           <1>12, <1>13, <1>14 DEF Next

\* A writer, a memory and a reader are a channel: whatever is sent, in
\* whichever family and by whichever calls, and however it is read, the items
\* that are whole on the wire arrive in order and as they were sent, the
\* receiver is stopped exactly at the first one that is not, and if the
\* writer has not reported overflow, none is missing.
THEOREM TransferImplementsChannel == Spec => ImplementsChannel
<1>1. Spec => []IInv
  BY IInvInit, IInvStep, PTL DEF Spec
<1> QED BY <1>1, InitMaps, StepMaps, PTL
       DEF Spec, ImplementsChannel, Abstract!Spec

=============================================================================
