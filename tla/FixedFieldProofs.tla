-------------------------- MODULE FixedFieldProofs --------------------------
(***************************************************************************)
(* The two example programs with fields of fixed widths.                   *)
(*                                                                         *)
(* SensorProtocol: for every batch of readings, every memory and every     *)
(* width of cache and value, the positions stay in their memories, a field *)
(* is decoded as it was encoded wherever it lies on the wire, and neither  *)
(* verdict of the program is given for nothing.                            *)
(*                                                                         *)
(* Mp3Header: for every header and every width of cache and value, the     *)
(* program reads the thirteen fields where they lie and shows a header     *)
(* exactly when its sync word is right.                                    *)
(***************************************************************************)
EXTENDS SensorProtocol, Mp3Header, CallLemmas

---------------------------------------------------------------------------
\* SensorProtocol.

\* The number of bits of the first k fields.
Sent(k) == IF k = 0 THEN 0 ELSE EndsAt(k)

\* Where the fields begin in a reading, and the field that covers an offset.
Begins == << 0, 4, 5, 15, 22 >>
Over(off) ==
    IF off < 4 THEN 1 ELSE IF off < 5 THEN 2 ELSE IF off < 15 THEN 3
    ELSE IF off < 22 THEN 4 ELSE 5

\* The bits of a batch as they are sent, then zeros.
StreamOf(batch) ==
    [j \in Nat \ {0} |->
        IF j <= 23 * Len(batch)
        THEN LET off == (j - 1) % 23  f == Over(off) IN
             batch[((j - 1) \div 23) + 1][f][Begins[f] + FieldBits[f] - 1 - off]
        ELSE 0]

---------------------------------------------------------------------------
(***************************************************************************)
(* The inductive invariant.  While the program encodes, the writer carries *)
(* the bits of the fields sent; afterwards, the memory of the reader       *)
(* is as much of these bits as the wire held.  Of the fields that did not  *)
(* get onto the wire, the first is cut off: it reads as zero, and what is  *)
(* read for those behind it is taken from its bits.  If it was zero, so    *)
(* are they; if not, the comparison of its reading fails.                  *)
(***************************************************************************)
Encoding ==
    /\ Carries(bw, "msb", StreamOf(readings), Sent(sent))
    /\ br.buffer = << >>
    /\ got = << >>

OnWire ==
    /\ Good(bw)
    /\ Len(br.buffer) = MinOf((23 * Len(readings) + 7) \div 8, Len(bw.buffer))
    /\ \A j \in 1 .. 8 * Len(br.buffer) :
        StreamBit(br.buffer, "msb", j - 1) = StreamOf(readings)[j]
    /\ bw.overflow <=> 23 * Len(readings) > 8 * Len(bw.buffer)

\* The first k fields are on the wire.
Whole(k) == Sent(k) <= 8 * Len(br.buffer)

InPlace == Whole(Len(got)) => Position(br) = Sent(Len(got))

InWidth == \A k \in 1 .. Len(got) : Clean(got[k], FieldBits[FieldOf(k)])

CutOff(c) == Whole(c - 1) /\ ~ Whole(c)

ZeroFrom(at) ==
    \A j \in at + 1 .. 8 * Len(br.buffer) : StreamOf(readings)[j] = 0

Shortfall ==
    \A k \in 1 .. Len(got) : ~ Whole(k) =>
        \E c \in 1 .. k :
            /\ CutOff(c)
            /\ got[c] = Zero(MaxBits)
            /\ Position(br) >= Sent(c - 1)
            /\ ZeroFrom(Sent(c - 1)) => got[k] = Zero(MaxBits)

\* The fields compared so far.
Compared ==
    CASE pc = "verified" -> Len(got)
      [] pc = "compare"  -> Len(got) - 5
      [] pc = "decode"   -> 5 * (Len(got) \div 5)
      [] OTHER           -> 0

Progress ==
    /\ pc \in {"encode", "decode", "compare", "verified", "mismatch"}
    /\ Len(got) <= Fields
    /\ pc = "decode" => Len(got) < Fields
    /\ pc \in {"compare", "verified"} => Len(got) >= 5 /\ Len(got) % 5 = 0
    /\ pc = "verified" => Len(got) = Fields
    /\ \A k \in 1 .. Compared : got[k] = Member(k)

IInv ==
    /\ readings \in Batches
    /\ sent \in 0 .. Fields
    /\ GoodMsb(br)
    /\ got \in Seq(Word(MaxBits))
    /\ pc = "encode" => Encoding
    /\ pc # "encode" => OnWire
    /\ InPlace /\ FieldsAreTheirOwn /\ InWidth /\ Shortfall
    /\ Progress
    /\ NoFalseAlarm

---------------------------------------------------------------------------
\* Where the fields lie.

LEMMA Place5 ==
    ASSUME NEW k \in Nat \ {0}
    PROVE  LET r == (k - 1) \div 5  f == FieldOf(k) IN
           /\ r \in Nat /\ f \in 1 .. 5 /\ k = 5 * r + f
           /\ EndsAt(k) = 23 * r + Begins[f] + FieldBits[f]
           /\ Begins[f] + FieldBits[f] \in 1 .. 23
<1> DEFINE r == (k - 1) \div 5  f == ((k - 1) % 5) + 1
<1>1. r \in Nat /\ f \in 1 .. 5 /\ k = 5 * r + f
  OBVIOUS
<1>2. FieldOf(k) = f /\ EndsAt(k) = 23 * r + << 4, 5, 15, 22, 23 >>[f]
  BY DEF FieldOf, EndsAt
<1> HIDE DEF r, f
<1>3. << 4, 5, 15, 22, 23 >>[f] = Begins[f] + FieldBits[f]
      /\ << 4, 5, 15, 22, 23 >>[f] \in 1 .. 23
  BY <1>1 DEF Begins, FieldBits
<1>4. Begins[f] \in Nat /\ FieldBits[f] \in Nat
  BY <1>1 DEF Begins, FieldBits
<1>5. EndsAt(k) = 23 * r + Begins[f] + FieldBits[f]
  BY <1>1, <1>2, <1>3, <1>4
<1>6. Begins[f] + FieldBits[f] \in 1 .. 23
  BY <1>3, Zenon
<1> QED BY <1>1, <1>2, <1>5, <1>6 DEF r

LEMMA FieldSizes ==
    \A f \in 1 .. 5 :
        /\ FieldBits[f] \in 1 .. 10 /\ MemberBits[f] \in 1 .. 16
        /\ FieldBits[f] <= MemberBits[f]
        /\ Begins[f] \in 0 .. 22 /\ Begins[f] + FieldBits[f] <= 23
        /\ f = 1 => Begins[f] = 0
        /\ f = 5 => Begins[f] + FieldBits[f] = 23
        /\ f > 1 => Begins[f] = Begins[f - 1] + FieldBits[f - 1]
BY DEF FieldBits, MemberBits, Begins

\* A field begins where the one before it ends, and batches are 23 bits a
\* reading.
LEMMA Places ==
    ASSUME NEW k \in Nat \ {0}
    PROVE  LET r == (k - 1) \div 5  f == FieldOf(k) IN
           /\ Sent(k) \in Nat /\ Sent(k - 1) \in Nat
           /\ Sent(k - 1) = 23 * r + Begins[f]
           /\ Sent(k) = Sent(k - 1) + FieldBits[f]
<1> DEFINE r == (k - 1) \div 5  f == FieldOf(k)
<1>1. /\ r \in Nat /\ f \in 1 .. 5 /\ k = 5 * r + f
      /\ EndsAt(k) = 23 * r + Begins[f] + FieldBits[f]
  BY Place5
<1>2. Sent(k) = EndsAt(k)
  BY DEF Sent
<1> HIDE DEF r, f
<1>3. /\ FieldBits[f] \in 1 .. 10 /\ Begins[f] \in 0 .. 22
      /\ f = 1 => Begins[f] = 0
      /\ f > 1 => Begins[f] = Begins[f - 1] + FieldBits[f - 1]
  BY <1>1, FieldSizes
<1>4. Sent(k - 1) = 23 * r + Begins[f]
  <2>1. CASE k = 1
    <3>1. r = 0 /\ f = 1 /\ Begins[f] = 0 /\ k - 1 = 0
      BY <2>1, <1>1, <1>3
    <3> QED BY <3>1 DEF Sent
  <2>2. CASE k # 1
    <3> DEFINE q == k - 1  r1 == (q - 1) \div 5  f1 == FieldOf(q)
    <3>1. q \in Nat \ {0} /\ q = k - 1
      BY <2>2
    <3> HIDE DEF q
    <3>2. /\ r1 \in Nat /\ f1 \in 1 .. 5 /\ q = 5 * r1 + f1
          /\ EndsAt(q) = 23 * r1 + Begins[f1] + FieldBits[f1]
      BY <3>1, Place5
    <3>3. Sent(q) = EndsAt(q)
      BY <3>1 DEF Sent
    <3> HIDE DEF r1, f1
    <3>4. CASE f > 1
      <4>1. r1 = r /\ f1 = f - 1
        BY <3>1, <3>2, <3>4, <1>1
      <4>2. Begins[f1] \in 0 .. 22 /\ FieldBits[f1] \in 1 .. 10
            /\ Begins[f] = Begins[f1] + FieldBits[f1]
        BY <4>1, <3>2, <3>4, <1>3, FieldSizes
      <4> QED BY <4>1, <4>2, <3>1, <3>2, <3>3, <1>1
    <3>5. CASE f = 1
      <4>1. r1 = r - 1 /\ f1 = 5
        BY <3>1, <3>2, <3>5, <1>1
      <4>2. Begins[f1] + FieldBits[f1] = 23 /\ Begins[f1] \in 0 .. 22
            /\ FieldBits[f1] \in 1 .. 10 /\ Begins[f] = 0
        BY <4>1, <3>5, <1>3, FieldSizes
      <4> QED BY <4>1, <4>2, <3>1, <3>2, <3>3, <1>1
    <3> QED BY <3>4, <3>5, <1>1
  <2> QED BY <2>1, <2>2
<1>5. Sent(k) \in Nat /\ Sent(k - 1) \in Nat /\ Sent(k) = Sent(k - 1) + FieldBits[f]
  BY <1>1, <1>2, <1>3, <1>4
<1> QED BY <1>4, <1>5 DEF r, f

LEMMA BatchEnds ==
    ASSUME NEW L \in Nat
    PROVE  /\ Sent(5 * L) = 23 * L
           /\ \A k \in 0 .. 5 * L : Sent(k) \in Nat /\ Sent(k) <= 23 * L
<1>1. Sent(0) = 0
  BY DEF Sent
<1>2. ASSUME NEW k \in 1 .. 5 * L
      PROVE  Sent(k) \in Nat /\ Sent(k) <= 23 * L
             /\ (k = 5 * L => Sent(k) = 23 * L)
  <2> DEFINE r == (k - 1) \div 5  f == FieldOf(k)
  <2>1. /\ Sent(k) \in Nat /\ Sent(k - 1) \in Nat
        /\ Sent(k - 1) = 23 * r + Begins[f]
        /\ Sent(k) = Sent(k - 1) + FieldBits[f]
    BY Places
  <2>2. r \in Nat /\ f \in 1 .. 5 /\ k = 5 * r + f
    BY Place5
  <2> HIDE DEF r, f
  <2>3. /\ FieldBits[f] \in 1 .. 10 /\ Begins[f] \in 0 .. 22
        /\ Begins[f] + FieldBits[f] <= 23
        /\ f = 5 => Begins[f] + FieldBits[f] = 23
    BY <2>2, FieldSizes
  <2>4. r <= L - 1 /\ (k = 5 * L => r = L - 1 /\ f = 5)
    BY <2>2
  <2> QED BY <2>1, <2>2, <2>3, <2>4
<1>3. Sent(5 * L) = 23 * L
  <2>1. CASE L = 0
    BY <2>1, <1>1
  <2>2. CASE L # 0
    <3>1. 5 * L \in 1 .. 5 * L
      BY <2>2
    <3> QED BY <3>1, <1>2
  <2> QED BY <2>1, <2>2
<1>4. ASSUME NEW k \in 0 .. 5 * L PROVE Sent(k) \in Nat /\ Sent(k) <= 23 * L
  <2>1. k = 0 \/ k \in 1 .. 5 * L
    OBVIOUS
  <2> QED BY <2>1, <1>1, <1>2
<1> QED BY <1>3, <1>4

---------------------------------------------------------------------------
\* The fields in the stream.

LEMMA BatchSizes ==
    ASSUME readings \in Batches
    PROVE  /\ readings \in Seq([1 .. 5 -> Word(MaxBits)])
           /\ Len(readings) \in Nat \ {0}
           /\ Fields = 5 * Len(readings) /\ Fields \in Nat
<1>1. readings \in Seq([1 .. 5 -> Word(MaxBits)]) /\ readings # << >>
  BY BatchAssumption
<1>2. Len(readings) \in Nat \ {0}
  BY <1>1
<1> QED BY <1>1, <1>2 DEF Fields

LEMMA MemberIs ==
    ASSUME readings \in Batches, NEW k \in 1 .. Fields
    PROVE  /\ FieldOf(k) \in 1 .. 5
           /\ Member(k) = readings[((k - 1) \div 5) + 1][FieldOf(k)]
           /\ Member(k) \in Word(MaxBits)
           /\ Clean(Member(k), MemberBits[FieldOf(k)])
<1> DEFINE i == ((k - 1) \div 5) + 1  f == FieldOf(k)
<1>1. /\ readings \in Seq([1 .. 5 -> Word(MaxBits)])
      /\ Len(readings) \in Nat \ {0} /\ Fields = 5 * Len(readings)
  BY BatchSizes
<1>2. i \in 1 .. Len(readings) /\ f \in 1 .. 5
  BY <1>1 DEF FieldOf
<1>3. Member(k) = readings[i][f]
  BY DEF Member
<1> HIDE DEF i, f
<1>4. readings[i] \in [1 .. 5 -> Word(MaxBits)]
  BY <1>1, <1>2
<1>5. readings[i][f] \in Word(MaxBits)
  BY <1>2, <1>4
<1>6. Clean(readings[i][f], MemberBits[f])
  <2>1. i \in DOMAIN readings
    BY <1>1, <1>2
  <2> QED BY <2>1, <1>2, BatchAssumption
<1> QED BY <1>2, <1>3, <1>5, <1>6 DEF i, f

LEMMA OverField ==
    ASSUME NEW f \in 1 .. 5, NEW j \in 1 .. FieldBits[f]
    PROVE  Over(Begins[f] + j - 1) = f
<1>1. CASE f = 1
  BY <1>1 DEF Over, Begins, FieldBits
<1>2. CASE f = 2
  BY <1>2 DEF Over, Begins, FieldBits
<1>3. CASE f = 3
  BY <1>3 DEF Over, Begins, FieldBits
<1>4. CASE f = 4
  BY <1>4 DEF Over, Begins, FieldBits
<1>5. CASE f = 5
  BY <1>5 DEF Over, Begins, FieldBits
<1> QED BY <1>1, <1>2, <1>3, <1>4, <1>5

LEMMA FieldInStream ==
    ASSUME readings \in Batches, NEW k \in 1 .. Fields,
           NEW j \in 1 .. FieldBits[FieldOf(k)]
    PROVE  StreamOf(readings)[Sent(k - 1) + j]
             = Member(k)[FieldBits[FieldOf(k)] - j]
<1> DEFINE r == (k - 1) \div 5  f == FieldOf(k)  n == FieldBits[f]
           at == Sent(k - 1) + j
<1>1. /\ Len(readings) \in Nat \ {0} /\ Fields = 5 * Len(readings)
      /\ k \in Nat \ {0} /\ k <= 5 * Len(readings)
  BY BatchSizes
<1>2. r \in Nat /\ f \in 1 .. 5 /\ k = 5 * r + f
  BY <1>1, Place5
<1>3. /\ Sent(k) \in Nat /\ Sent(k - 1) = 23 * r + Begins[f]
      /\ Sent(k) = Sent(k - 1) + n
  BY <1>1, Places
<1>4. Sent(k) <= 23 * Len(readings)
  BY <1>1, BatchEnds
<1>5. Member(k) = readings[r + 1][f]
  BY MemberIs
<1>6. StreamOf(readings)[at]
        = IF at <= 23 * Len(readings)
          THEN LET off == (at - 1) % 23  g == Over(off) IN
               readings[((at - 1) \div 23) + 1][g]
                       [Begins[g] + FieldBits[g] - 1 - off]
          ELSE 0
  <2>1. at \in Nat \ {0}
    <3>1. j \in 1 .. n
      OBVIOUS
    <3>2. n \in 1 .. 10 /\ Begins[f] \in 0 .. 22
      BY <1>2, FieldSizes
    <3> HIDE DEF n, f, r
    <3> QED BY <3>1, <3>2, <1>2, <1>3
  <2> HIDE DEF at
  <2> QED BY <2>1 DEF StreamOf
<1>7. j \in 1 .. n /\ n \in 1 .. 10 /\ Begins[f] \in 0 .. 22
      /\ Begins[f] + n <= 23 /\ Over(Begins[f] + j - 1) = f
  BY <1>2, FieldSizes, OverField
<1> HIDE DEF r, f, n
<1>8. /\ at <= 23 * Len(readings)
      /\ (at - 1) % 23 = Begins[f] + j - 1 /\ (at - 1) \div 23 = r
  <2> DEFINE B == Begins[f]  L == Len(readings)
  <2> DEFINE E == Sent(k)  S == Sent(k - 1)
  <2>0. /\ B \in 0 .. 22 /\ r \in Nat /\ n \in 1 .. 10 /\ j \in 1 .. n
        /\ L \in Nat /\ B + n <= 23
        /\ E <= 23 * L /\ S = 23 * r + B /\ E = S + n /\ at = S + j
    BY <1>1, <1>2, <1>3, <1>4, <1>7
  <2> HIDE DEF B, at, L, E, S
  <2>1. /\ at = 23 * r + B + j /\ B \in Nat /\ j \in Nat /\ r \in Nat
        /\ j >= 1 /\ B + j <= 23 /\ j <= n /\ L \in Nat
        /\ 23 * r + B + n <= 23 * L
    BY <2>0
  <2>2. B + j - 1 \in 0 .. 22 /\ at - 1 = 23 * r + (B + j - 1)
    BY <2>1
  <2>3. \A x \in Int, y \in 0 .. 22 :
          x = 23 * r + y => x % 23 = y /\ x \div 23 = r
    BY <2>1
  <2>4. at - 1 \in Int /\ at <= 23 * L
    BY <2>1, <1>7
  <2> QED BY <2>2, <2>3, <2>4 DEF B, L
<1>9. Begins[f] + n - 1 - (Begins[f] + j - 1) = n - j
  BY <1>7
<1> HIDE DEF at
<1>10. StreamOf(readings)[at] = readings[r + 1][f][n - j]
  BY <1>6, <1>7, <1>8, <1>9 DEF n
<1> QED BY <1>5, <1>10 DEF at, n, f

\* Behind the last field the stream is zero.
LEMMA StreamEnds ==
    ASSUME readings \in Batches, NEW j \in Nat \ {0}
    PROVE  StreamOf(readings)[23 * Len(readings) + j] = 0
<1>1. Len(readings) \in Nat
  BY BatchSizes
<1> DEFINE at == 23 * Len(readings) + j
<1>2. at \in Nat \ {0} /\ ~ (at <= 23 * Len(readings))
  BY <1>1
<1> HIDE DEF at
<1> QED BY <1>2 DEF StreamOf, at

---------------------------------------------------------------------------
\* The steps: encoding.

LEMMA IInvInit == Init => IInv
<1> SUFFICES ASSUME Init PROVE IInv
  OBVIOUS
<1>1. /\ readings \in Batches /\ sent = 0 /\ br = bs_reader_init(<< >>)
      /\ got = << >> /\ pc = "encode"
  BY DEF Init
<1>2. PICK n \in WireSizes : bw = bs_writer_init([k \in 1 .. n |-> Zero(8)])
  BY DEF Init
<1> DEFINE wire == [k \in 1 .. n |-> Zero(8)]
<1>3. n \in Nat /\ Zero(8) \in Byte
  BY BatchAssumption DEF Zero, Byte, Word, Bit
<1>4. wire \in Seq(Byte)
  BY <1>3
<1> HIDE DEF wire
<1>5. Carries(bw, "msb", StreamOf(readings), 0)
  BY <1>2, <1>4, OpenedCarries DEF wire
<1>6. GoodMsb(br) /\ br.buffer = << >>
  <2>1. << >> \in Seq(Byte)
    OBVIOUS
  <2> QED BY <2>1, <1>1, OpenedGood
<1>7. Position(br) = 0 /\ Sent(0) = 0 /\ Len(got) = 0
      /\ got \in Seq(Word(MaxBits))
  BY <1>1 DEF bs_reader_init, Position, Sent
<1>8. Fields \in Nat
  BY <1>1, BatchSizes
<1>9. Encoding
  BY <1>1, <1>5, <1>6, <1>7 DEF Encoding
<1>10. InPlace /\ FieldsAreTheirOwn /\ InWidth /\ Shortfall
  BY <1>7 DEF InPlace, FieldsAreTheirOwn, InWidth, Shortfall
<1>11. Progress
  BY <1>1, <1>7, <1>8 DEF Progress, Compared
<1>12. NoFalseAlarm
  BY <1>1 DEF NoFalseAlarm
<1> QED BY <1>1, <1>6, <1>7, <1>8, <1>9, <1>10, <1>11, <1>12 DEF IInv

\* A field written is the next of the stream.
LEMMA FieldSent ==
    ASSUME readings \in Batches, NEW k \in 1 .. Fields, NEW b,
           Carries(b, "msb", StreamOf(readings), Sent(k - 1))
    PROVE  Carries(bs_write_bits(b, Member(k), FieldBits[FieldOf(k)], "masked"),
                   "msb", StreamOf(readings), Sent(k))
<1> DEFINE n == FieldBits[FieldOf(k)]  v == Member(k)  at == Sent(k - 1)
           d == bs_write_bits(b, v, n, "masked")  bits == SentBits("msb", v, n)
           stream == StreamOf(readings)
<1>1. k \in Nat \ {0} /\ v \in Word(MaxBits) /\ FieldOf(k) \in 1 .. 5
  BY BatchSizes, MemberIs
<1>2. at \in Nat /\ Sent(k) = at + n
  BY <1>1, Places
<1>3. n \in 1 .. 10 /\ n \in 0 .. MaxBits
  <2>1. n \in 1 .. 10
    BY <1>1, FieldSizes
  <2> HIDE DEF n
  <2> QED BY <2>1, BatchAssumption, WidthFacts
<1>4. \A j \in 1 .. n : stream[at + j] = v[n - j]
  BY FieldInStream
<1>5. Good(b)
  BY DEF Carries
<1> HIDE DEF n, v, at, stream
<1>6. Keeps(b, d) /\ Longer(b, d, "msb", bits)
  BY <1>1, <1>3, <1>5, MsbWrites, WritesLonger
<1>7. /\ bits \in Seq(Bit) /\ Len(bits) = n
      /\ \A j \in 1 .. n : bits[j] = v[n - 1 - (j - 1)]
  BY <1>1, <1>3, FieldIs
<1> HIDE DEF bits, d
<1>8. ASSUME NEW j \in 1 .. Len(bits) PROVE bits[j] = stream[at + j]
  <2>1. j \in 1 .. n /\ n - 1 - (j - 1) = n - j
    BY <1>3, <1>7
  <2> QED BY <2>1, <1>4, <1>7
<1>9. Carries(b, "msb", stream, at)
  BY DEF stream, at
<1>10. Carries(d, "msb", stream, at + n)
  BY <1>2, <1>6, <1>7, <1>8, <1>9, CarriesMore
<1> QED BY <1>2, <1>10 DEF d, n, v, stream

LEMMA EncodeKeeps ==
    ASSUME IInv, EncodeField PROVE IInv'
<1>1. /\ pc = "encode" /\ sent < Fields /\ sent \in 0 .. Fields
      /\ readings \in Batches /\ Fields \in Nat
      /\ sent' = sent + 1 /\ UNCHANGED << readings, br, got, pc >>
  BY BatchSizes DEF IInv, EncodeField
<1>2. bw' = bs_write_bits(bw, Member(sent + 1),
                          FieldBits[FieldOf(sent + 1)], "masked")
  BY DEF EncodeField
<1>3. Encoding
  BY <1>1 DEF IInv
<1>4. Carries(bw', "msb", StreamOf(readings), Sent(sent + 1))
  <2> DEFINE k == sent + 1
  <2>1. k \in 1 .. Fields /\ k - 1 = sent
    BY <1>1
  <2> HIDE DEF k
  <2>2. Carries(bw, "msb", StreamOf(readings), Sent(k - 1))
    BY <2>1, <1>3 DEF Encoding
  <2> QED BY <2>1, <2>2, <1>1, <1>2, FieldSent DEF k
<1>5. Encoding'
  BY <1>1, <1>3, <1>4 DEF Encoding
<1>6. (sent \in 0 .. Fields)'
  BY <1>1 DEF Fields
<1>7. Fields' = Fields
  BY <1>1 DEF Fields
<1>8. InPlace' /\ FieldsAreTheirOwn' /\ InWidth' /\ Shortfall'
  <2>1. got' = << >> /\ Len(got') = 0 /\ got = << >> /\ br' = br
    BY <1>1, <1>3 DEF Encoding
  <2>2. InPlace'
    BY <2>1 DEF IInv, InPlace, Whole, Position
  <2> QED BY <2>1, <2>2 DEF FieldsAreTheirOwn, InWidth, Shortfall
<1>9. Progress'
  <2>1. Len(got) = 0 /\ got' = got /\ pc' = "encode"
    BY <1>1, <1>3 DEF Encoding
  <2> QED BY <2>1, <1>1, <1>7 DEF Progress, Compared
<1>10. NoFalseAlarm'
  BY <1>1 DEF NoFalseAlarm
<1> QED BY <1>1, <1>5, <1>6, <1>8, <1>9, <1>10 DEF IInv

\* A flush puts the stream on the wire, as far as it fits.
LEMMA FlushKeeps ==
    ASSUME IInv, FlushAndOpen PROVE IInv'
<1> DEFINE L == Len(readings)  cap == Len(bw.buffer)  d == bw'
           stream == StreamOf(readings)
<1>1. /\ pc = "encode" /\ sent = Fields /\ pc' = "decode"
      /\ readings \in Batches /\ UNCHANGED << readings, sent, got >>
      /\ sent \in 0 .. Fields
  BY DEF IInv, FlushAndOpen
<1>2. d = bs_writer_flush(bw, "masked") /\ br' = bs_reader_init(WireOf(d))
  BY DEF FlushAndOpen, WireOf
<1>3. L \in Nat \ {0} /\ Fields = 5 * L /\ Fields \in Nat
  BY <1>1, BatchSizes
<1>4. Carries(bw, "msb", stream, 23 * L) /\ got = << >>
  BY <1>1, <1>3, BatchEnds DEF IInv, Encoding
<1>5. \A j \in 1 .. 7 : stream[23 * L + j] = 0
  <2> TAKE j \in 1 .. 7
  <2>1. j \in Nat \ {0}
    OBVIOUS
  <2> QED BY <2>1, <1>1, StreamEnds
<1>6. Drains(bw, d) /\ Longer(bw, d, "msb", PadOf(bw))
  <2>1. Good(bw)
    BY <1>4 DEF Carries
  <2> QED BY <2>1, <1>2, FlushDrainsCall, FlushLonger
<1>7. 23 * L \in Nat
  BY <1>3
<1> DEFINE n == 23 * L  w == WireOf(d)
<1> HIDE DEF stream, d, n
<1>8. /\ Good(d) /\ Len(d.buffer) = cap /\ cap \in Nat
      /\ d.overflow <=> n > 8 * cap
      /\ w \in Seq(Byte) /\ Len(w) = MinOf((n + 7) \div 8, cap)
      /\ \A j \in 1 .. 8 * Len(w) : StreamBit(w, "msb", j - 1) = stream[j]
  <2>1. /\ n \in Nat /\ Carries(bw, "msb", stream, n)
        /\ \A j \in 1 .. 7 : stream[n + j] = 0
    BY <1>4, <1>5, <1>7 DEF n
  <2> QED BY <2>1, <1>6, FlushCarries
<1>9. GoodMsb(br') /\ br'.buffer = w
  BY <1>2, <1>8, OpenedGood
<1>10. Position(br') = 0
  BY <1>2 DEF bs_reader_init, Position
<1>11. L' = L /\ Fields' = Fields /\ stream' = stream
  BY <1>1 DEF Fields, stream
<1> HIDE DEF w, cap
<1>12. OnWire'
  <2>1. /\ Len(br'.buffer) = MinOf((23 * L' + 7) \div 8, Len(d.buffer))
        /\ d.overflow <=> 23 * L' > 8 * Len(d.buffer)
    BY <1>8, <1>9, <1>11 DEF n
  <2>2. \A j \in 1 .. 8 * Len(br'.buffer) :
          StreamBit(br'.buffer, "msb", j - 1) = StreamOf(readings')[j]
    BY <1>1, <1>8, <1>9 DEF stream
  <2> QED BY <2>1, <2>2, <1>8 DEF OnWire, d
<1>13. Len(got') = 0 /\ got' \in Seq(Word(MaxBits))
  BY <1>1, <1>4
<1>14. InPlace' /\ FieldsAreTheirOwn' /\ InWidth' /\ Shortfall'
  BY <1>10, <1>13
     DEF InPlace, FieldsAreTheirOwn, InWidth, Shortfall, Sent
<1>15. Progress'
  BY <1>1, <1>3, <1>11, <1>13 DEF Progress, Compared
<1>16. NoFalseAlarm'
  BY <1>1 DEF NoFalseAlarm
<1> QED BY <1>1, <1>9, <1>11, <1>12, <1>13, <1>14, <1>15, <1>16 DEF IInv

---------------------------------------------------------------------------
\* The steps: decoding.

\* What a read returns, by the stream: its bits at the reader's position,
\* or zero.
LEMMA Received ==
    ASSUME GoodMsb(br), OnWire, NEW n \in 1 .. 10, NEW m \in Nat, n <= m,
           MaxBits >= 16
    PROVE  LET res == bs_read_bits(br, n)
               val == Low(res.ret.value, m)
               at  == Position(br)
               fit == at + n <= 8 * Len(br.buffer)
           IN
           /\ GoodMsb(res.bs) /\ res.bs.buffer = br.buffer
           /\ at \in Nat
           /\ Position(res.bs) = IF fit THEN at + n ELSE at
           /\ val = [i \in 0 .. MaxBits - 1 |->
                        IF fit /\ i < n THEN StreamOf(readings)[at + n - i]
                                        ELSE 0]
           /\ val \in Word(MaxBits)
<1> DEFINE res == bs_read_bits(br, n)  val == Low(res.ret.value, m)
           at == Position(br)  size == 8 * Len(br.buffer)
           fit == at + n <= size  stream == StreamOf(readings)
<1>1. n \in 0 .. MaxBits /\ MaxBits \in Nat
  BY WidthFacts
<1>2. KeepsMsb(br, res) /\ (Takes(br, "msb", n, res) \/ Refuses(br, n, res))
  BY <1>1, MsbCallsKeep, MsbCallsMeet
<1>3. /\ GoodMsb(res.bs) /\ res.bs.buffer = br.buffer
      /\ res.ret.value \in Word(MaxBits)
  BY <1>2 DEF KeepsMsb, RetType
<1>4. /\ at \in Nat /\ size \in Nat /\ bs_reader_bits_left(br) = size - at
  <2>1. /\ br.byte_pos \in Nat /\ br.bits_in_cache \in Nat
        /\ Len(br.buffer) \in Nat /\ br.bits_in_cache <= 8 * br.byte_pos
    BY WidthFacts DEF GoodMsb, Bounded, Readers
  <2>2. bs_reader_bits_left(br) = size - at
    BY BitsLeft DEF GoodMsb
  <2> QED BY <2>1, <2>2 DEF Position
<1>5. /\ fit => ~ (n > bs_reader_bits_left(br))
      /\ ~ fit => ~ (n <= bs_reader_bits_left(br))
  BY <1>4
<1>6. val = [i \in 0 .. MaxBits - 1 |-> IF i < m THEN res.ret.value[i] ELSE 0]
  BY <1>3 DEF Low, Word
<1>7. \A j \in 1 .. size : StreamBit(br.buffer, "msb", j - 1) = stream[j]
  BY DEF OnWire
<1> HIDE DEF res, val, at, size, stream
<1>8. CASE fit
  <2> HIDE DEF fit
  <2>0. Takes(br, "msb", n, res)
    BY <1>2, <1>5, <1>8 DEF Refuses
  <2>1. Position(res.bs) = at + n
    BY <2>0 DEF Takes, at
  <2>2. res.ret.value
          = [i \in 0 .. MaxBits - 1 |->
                IF i < n THEN StreamBit(br.buffer, "msb", at + (n - 1 - i)) ELSE 0]
    BY <2>0 DEF Takes, Value, Ret, Field, FieldOffset, at
  <2>3. ASSUME NEW i \in 0 .. MaxBits - 1
        PROVE  (IF i < m THEN res.ret.value[i] ELSE 0)
                 = IF fit /\ i < n THEN stream[at + n - i] ELSE 0
    <3>1. CASE i < n
      <4> DEFINE j == at + n - i
      <4>1. j \in 1 .. size /\ j - 1 = at + (n - 1 - i) /\ i < m
        BY <3>1, <1>4, <1>8 DEF fit
      <4>2. res.ret.value[i] = StreamBit(br.buffer, "msb", at + (n - 1 - i))
        BY <2>2, <3>1
      <4> HIDE DEF j
      <4>3. StreamBit(br.buffer, "msb", j - 1) = stream[j]
        BY <4>1, <1>7
      <4> QED BY <4>1, <4>2, <4>3, <3>1, <1>8 DEF j
    <3>2. CASE ~ (i < n)
      BY <3>2, <2>2
    <3> QED BY <3>1, <3>2
  <2>4. val = [i \in 0 .. MaxBits - 1 |->
                  IF fit /\ i < n THEN stream[at + n - i] ELSE 0]
    BY <2>3, <1>6
  <2>5. val \in Word(MaxBits)
    BY <1>3, <1>6 DEF Word, Bit
  <2> QED BY <2>1, <2>4, <2>5, <1>3, <1>4, <1>8 DEF res, val, at, size, fit, stream
<1>9. CASE ~ fit
  <2> HIDE DEF fit
  <2>0. Refuses(br, n, res)
    BY <1>2, <1>5, <1>9 DEF Takes
  <2>1. Position(res.bs) = at
    BY <2>0 DEF Refuses, at
  <2>2. res.ret.value = Zero(MaxBits)
    BY <2>0 DEF Refuses, Nothing, Ret
  <2>3. val = [i \in 0 .. MaxBits - 1 |->
                  IF fit /\ i < n THEN stream[at + n - i] ELSE 0]
    BY <2>2, <1>6, <1>9 DEF Zero
  <2>4. val \in Word(MaxBits)
    BY <1>3, <1>6 DEF Word, Bit
  <2> QED BY <2>1, <2>3, <2>4, <1>3, <1>4, <1>9 DEF res, val, at, size, fit, stream
<1> QED BY <1>8, <1>9

\* The next field: where the wire holds it, it is what was sent; where it is
\* cut off, or all that is left is zero, it is zero.
LEMMA NextField ==
    ASSUME readings \in Batches, GoodMsb(br), OnWire, NEW k \in 1 .. Fields,
           Whole(k - 1) => Position(br) = Sent(k - 1)
    PROVE  LET f   == FieldOf(k)
               n   == FieldBits[f]
               res == bs_read_bits(br, n)
               v   == Low(res.ret.value, MemberBits[f])
           IN
           /\ GoodMsb(res.bs) /\ res.bs.buffer = br.buffer
           /\ v \in Word(MaxBits) /\ Clean(v, n)
           /\ Position(br) \in Nat /\ Position(res.bs) \in Nat
           /\ Position(res.bs) >= Position(br)
           /\ Whole(k) => /\ Position(res.bs) = Sent(k)
                          /\ v = Low(Member(k), n)
           /\ CutOff(k) => /\ v = Zero(MaxBits)
                           /\ Position(res.bs) = Sent(k - 1)
           /\ \A z \in Nat : z <= Position(br) /\ ZeroFrom(z) => v = Zero(MaxBits)
<1> DEFINE f == FieldOf(k)  n == FieldBits[f]  m == MemberBits[f]
           res == bs_read_bits(br, n)  v == Low(res.ret.value, m)
           at == Position(br)  size == 8 * Len(br.buffer)
           fit == at + n <= size  stream == StreamOf(readings)
<1>1. /\ k \in Nat \ {0} /\ f \in 1 .. 5 /\ MaxBits >= 16 /\ MaxBits \in Nat
      /\ Member(k) \in Word(MaxBits) /\ size \in Nat
  <2>1. br.buffer \in Seq(Byte)
    BY DEF GoodMsb, Bounded, Readers
  <2> QED BY <2>1, BatchSizes, MemberIs, BatchAssumption, WidthFacts
<1>2. n \in 1 .. 10 /\ m \in Nat /\ n <= m
  <2> HIDE DEF f
  <2>1. n \in 1 .. 10 /\ m \in 1 .. 16 /\ n <= m
    BY <1>1, FieldSizes
  <2> HIDE DEF n, m
  <2> QED BY <2>1
<1>3. /\ Sent(k) \in Nat /\ Sent(k - 1) \in Nat /\ Sent(k) = Sent(k - 1) + n
  BY <1>1, Places
<1>4. \A j \in 1 .. n : stream[Sent(k - 1) + j] = Member(k)[n - j]
  BY FieldInStream
<1>5. /\ Whole(k) <=> Sent(k) <= size
      /\ Whole(k - 1) <=> Sent(k - 1) <= size
  BY DEF Whole
<1>6. \A z : ZeroFrom(z) => \A j \in z + 1 .. size : stream[j] = 0
  BY DEF ZeroFrom
<1> HIDE DEF m, n, f, stream, size
<1>7. /\ GoodMsb(res.bs) /\ res.bs.buffer = br.buffer
      /\ at \in Nat
      /\ Position(res.bs) = IF fit THEN at + n ELSE at
      /\ v = [i \in 0 .. MaxBits - 1 |->
                IF fit /\ i < n THEN stream[at + n - i] ELSE 0]
      /\ v \in Word(MaxBits)
  BY <1>1, <1>2, Received DEF stream, size
<1> HIDE DEF res, v, at, fit
<1>8. Clean(v, n)
  BY <1>2, <1>7 DEF Clean
<1>9. ASSUME Whole(k)
      PROVE  Position(res.bs) = Sent(k) /\ v = Low(Member(k), n)
  <2>1. Whole(k - 1) /\ at = Sent(k - 1)
    BY <1>2, <1>3, <1>5, <1>9, <1>1 DEF at
  <2>2. fit
    BY <2>1, <1>3, <1>5, <1>9 DEF fit
  <2>3. Low(Member(k), n)
          = [i \in 0 .. MaxBits - 1 |-> IF i < n THEN Member(k)[i] ELSE 0]
    BY <1>1 DEF Low, Word
  <2>4. ASSUME NEW i \in 0 .. MaxBits - 1, i < n
        PROVE  stream[at + n - i] = Member(k)[i]
    <3> DEFINE j == n - i
    <3>1. j \in 1 .. n /\ n - j = i /\ Sent(k - 1) + j = at + n - i
      BY <2>4, <2>1, <1>2, <1>3, <1>7
    <3> HIDE DEF j
    <3> QED BY <3>1, <1>4
  <2>5. v = Low(Member(k), n)
    BY <2>2, <2>3, <2>4, <1>7
  <2> QED BY <2>1, <2>2, <2>5, <1>3, <1>7
<1>10. ASSUME CutOff(k)
       PROVE  v = Zero(MaxBits) /\ Position(res.bs) = Sent(k - 1)
  <2>1. at = Sent(k - 1) /\ ~ fit
    BY <1>3, <1>5, <1>10, <1>7 DEF CutOff, at, fit
  <2> QED BY <2>1, <1>7 DEF Zero
<1>11. ASSUME NEW z \in Nat, z <= at, ZeroFrom(z)
       PROVE  v = Zero(MaxBits)
  <2>1. ASSUME NEW i \in 0 .. MaxBits - 1, fit, i < n
        PROVE  stream[at + n - i] = 0
    <3> DEFINE j == at + n - i
    <3>1. j \in z + 1 .. size
      BY <2>1, <1>1, <1>2, <1>7, <1>11 DEF fit
    <3> HIDE DEF j
    <3>2. stream[j] = 0
      BY <3>1, <1>6, <1>11
    <3> QED BY <3>2 DEF j
  <2> QED BY <2>1, <1>7 DEF Zero
<1>12. Position(res.bs) \in Nat /\ Position(res.bs) >= at
  BY <1>2, <1>7
<1> QED BY <1>7, <1>8, <1>9, <1>10, <1>11, <1>12 DEF res, v, at, n, m, f

LEMMA DecodeKeeps ==
    ASSUME IInv, DecodeField PROVE IInv'
<1> DEFINE k == Len(got) + 1  f == FieldOf(k)  n == FieldBits[f]
           res == bs_read_bits(br, n)  v == Low(res.ret.value, MemberBits[f])
<1>1. /\ pc = "decode" /\ br' = res.bs /\ got' = Append(got, v)
      /\ pc' = IF f = 5 THEN "compare" ELSE "decode"
      /\ UNCHANGED << readings, bw, sent >>
  BY DEF DecodeField
<1>2. /\ readings \in Batches /\ GoodMsb(br) /\ OnWire /\ InPlace
      /\ got \in Seq(Word(MaxBits)) /\ Len(got) \in Nat /\ Len(got) < Fields
      /\ FieldsAreTheirOwn /\ InWidth /\ Shortfall /\ sent \in 0 .. Fields
      /\ \A j \in 1 .. 5 * (Len(got) \div 5) : got[j] = Member(j)
  BY <1>1 DEF IInv, Progress, Compared
<1>3. Fields \in Nat /\ Fields = 5 * Len(readings) /\ Len(readings) \in Nat
  BY <1>2, BatchSizes
<1>4. k \in 1 .. Fields /\ k - 1 = Len(got) /\ k \in Nat \ {0}
  BY <1>2, <1>3
<1>5. /\ f \in 1 .. 5 /\ (f = 5 <=> k % 5 = 0)
  <2> HIDE DEF k
  <2> QED BY <1>4 DEF FieldOf
<1>6. /\ got' \in Seq(Word(MaxBits)) \/ v \notin Word(MaxBits)
      /\ Len(got') = k
      /\ \A j \in 1 .. k : got'[j] = IF j = k THEN v ELSE got[j]
  BY <1>1, <1>2
<1>7. Whole(k - 1) => Position(br) = Sent(k - 1)
  <2> HIDE DEF k
  <2> QED BY <1>2, <1>4 DEF InPlace
<1> HIDE DEF k
<1>8. /\ GoodMsb(res.bs) /\ res.bs.buffer = br.buffer
      /\ v \in Word(MaxBits) /\ Clean(v, n)
      /\ Position(br) \in Nat /\ Position(res.bs) \in Nat
      /\ Position(res.bs) >= Position(br)
      /\ Whole(k) => /\ Position(res.bs) = Sent(k)
                     /\ v = Low(Member(k), n)
      /\ CutOff(k) => /\ v = Zero(MaxBits)
                      /\ Position(res.bs) = Sent(k - 1)
      /\ \A z \in Nat : z <= Position(br) /\ ZeroFrom(z) => v = Zero(MaxBits)
  BY <1>2, <1>4, <1>7, NextField
<1> HIDE DEF v, res, n, f
<1>9. /\ br'.buffer = br.buffer /\ GoodMsb(br') /\ got' \in Seq(Word(MaxBits))
      /\ readings' = readings /\ bw' = bw /\ Fields' = Fields
  BY <1>1, <1>6, <1>8 DEF Fields
<1>10. OnWire'
  BY <1>2, <1>9 DEF OnWire
<1>11. InPlace'
  <2>1. Sent(k) <= 8 * Len(br'.buffer) => Whole(k)
    BY <1>9 DEF Whole
  <2> QED BY <2>1, <1>1, <1>6, <1>8, <1>9 DEF InPlace, Whole, Position
<1>12. ASSUME NEW j \in 1 .. k, Whole(j)
       PROVE  got'[j] = Low(Member(j), FieldBits[FieldOf(j)])
  <2>1. CASE j = k
    BY <2>1, <1>6, <1>8, <1>12 DEF n, f
  <2>2. CASE j # k
    <3>1. j \in 1 .. Len(got) /\ j \in Nat \ {0}
      BY <2>2, <1>4
    <3>2. EndsAt(j) <= 8 * Len(br.buffer)
      BY <3>1, <1>12 DEF Whole, Sent
    <3> QED BY <3>1, <3>2, <2>2, <1>2, <1>6 DEF FieldsAreTheirOwn
  <2> QED BY <2>1, <2>2
<1>13. FieldsAreTheirOwn'
  <2> SUFFICES ASSUME NEW j \in 1 .. Len(got'),
                      EndsAt(j) <= 8 * Len(br'.buffer)
               PROVE  got'[j] = Low(Member(j)', FieldBits[FieldOf(j)])
    BY DEF FieldsAreTheirOwn
  <2>1. j \in 1 .. k /\ j # 0
    BY <1>6
  <2>2. Whole(j)
    BY <2>1, <1>9 DEF Whole, Sent
  <2>3. Member(j)' = Member(j)
    BY <1>9 DEF Member
  <2> QED BY <2>1, <2>2, <2>3, <1>12
<1>14. InWidth'
  <2> SUFFICES ASSUME NEW j \in 1 .. Len(got')
               PROVE  Clean(got'[j], FieldBits[FieldOf(j)])
    BY DEF InWidth
  <2>1. CASE j = k
    BY <2>1, <1>6, <1>8 DEF n, f
  <2>2. CASE j # k
    <3>1. j \in 1 .. Len(got) /\ got'[j] = got[j]
      BY <2>2, <1>4, <1>6
    <3> QED BY <3>1, <1>2 DEF InWidth
  <2> QED BY <2>1, <2>2
<1>15. ASSUME NEW j \in 1 .. k, ~ Whole(j)
       PROVE  \E c \in 1 .. j :
                 /\ CutOff(c)
                 /\ got'[c] = Zero(MaxBits)
                 /\ Position(br') >= Sent(c - 1)
                 /\ ZeroFrom(Sent(c - 1)) => got'[j] = Zero(MaxBits)
  <2>0. \A c \in 1 .. k : Sent(c - 1) \in Nat
    <3> TAKE c \in 1 .. k
    <3>1. c \in Nat \ {0}
      OBVIOUS
    <3> QED BY <3>1, Places
  <2>1. ASSUME j # k PROVE j \in 1 .. Len(got) /\ got'[j] = got[j]
    BY <2>1, <1>4, <1>6
  <2>2. CASE j # k
    <3>1. PICK c \in 1 .. j :
             /\ CutOff(c) /\ got[c] = Zero(MaxBits)
             /\ Position(br) >= Sent(c - 1)
             /\ ZeroFrom(Sent(c - 1)) => got[j] = Zero(MaxBits)
      BY <2>1, <2>2, <1>2, <1>15 DEF Shortfall
    <3>2. c \in 1 .. k /\ got'[c] = got[c]
      BY <2>1, <2>2, <1>6
    <3>3. Position(br') >= Sent(c - 1)
      BY <3>1, <3>2, <2>0, <1>1, <1>8
    <3> QED BY <3>1, <3>2, <3>3, <2>1, <2>2
  <2>3. CASE j = k /\ Whole(k - 1)
    <3>1. CutOff(k)
      BY <2>3, <1>15 DEF CutOff
    <3>2. /\ got'[k] = Zero(MaxBits) /\ Position(br') = Sent(k - 1)
          /\ Sent(k - 1) \in Nat
      BY <3>1, <2>0, <1>1, <1>4, <1>6, <1>8
    <3> QED BY <3>1, <3>2, <2>3
  <2>4. CASE j = k /\ ~ Whole(k - 1)
    <3>1. k - 1 \in 1 .. Len(got)
      <4>1. CASE k = 1
        <5>1. Whole(0)
          BY <1>2 DEF Whole, Sent, GoodMsb, Bounded, Readers
        <5> QED BY <5>1, <4>1, <2>4
      <4>2. CASE k # 1
        BY <4>2, <1>4
      <4> QED BY <4>1, <4>2
    <3>2. PICK c \in 1 .. k - 1 :
             /\ CutOff(c) /\ got[c] = Zero(MaxBits)
             /\ Position(br) >= Sent(c - 1)
      BY <3>1, <2>4, <1>2 DEF Shortfall
    <3>3. c \in 1 .. k /\ got'[c] = got[c] /\ got'[k] = v
      BY <3>1, <3>2, <1>4, <1>6
    <3>4. /\ Sent(c - 1) \in Nat /\ Position(br') >= Sent(c - 1)
          /\ ZeroFrom(Sent(c - 1)) => v = Zero(MaxBits)
      BY <3>2, <3>3, <2>0, <1>1, <1>8
    <3> QED BY <3>2, <3>3, <3>4, <2>4
  <2> QED BY <2>2, <2>3, <2>4
<1>16. Shortfall'
  <2>1. \A c : CutOff(c)' <=> CutOff(c)
    BY <1>9 DEF CutOff, Whole
  <2>2. \A z : ZeroFrom(z)' <=> ZeroFrom(z)
    BY <1>9 DEF ZeroFrom
  <2>3. \A j : Whole(j)' <=> Whole(j)
    BY <1>9 DEF Whole
  <2> QED BY <2>1, <2>2, <2>3, <1>6, <1>15 DEF Shortfall
<1>17. Progress'
  <2>1. /\ pc' = "compare" => k % 5 = 0 /\ k >= 5
                              /\ k - 5 = 5 * (Len(got) \div 5)
        /\ pc' = "decode"  => k < Fields
                              /\ 5 * (k \div 5) = 5 * (Len(got) \div 5)
        /\ pc' \in {"compare", "decode"}
    BY <1>1, <1>3, <1>4, <1>5
  <2>2. Compared' = 5 * (Len(got) \div 5)
    BY <2>1, <1>6 DEF Compared
  <2>3. ASSUME NEW j \in 1 .. 5 * (Len(got) \div 5)
        PROVE  got'[j] = Member(j)'
    <3>1. j \in 1 .. k /\ j # k
      BY <1>4
    <3>2. got'[j] = got[j]
      BY <3>1, <1>6
    <3>3. Member(j)' = Member(j)
      BY <1>9 DEF Member
    <3> QED BY <3>2, <3>3, <1>2
  <2>4. Len(got') <= Fields'
    BY <1>4, <1>6, <1>9
  <2> QED BY <2>1, <2>2, <2>3, <2>4, <1>6, <1>9 DEF Progress
<1>18. NoFalseAlarm'
  BY <1>1 DEF NoFalseAlarm
<1>19. readings' \in Batches /\ sent' \in 0 .. Fields' /\ pc' # "encode"
  BY <1>1, <1>2, <1>9
<1> QED BY <1>9, <1>10, <1>11, <1>13, <1>14, <1>16, <1>17, <1>18, <1>19 DEF IInv

---------------------------------------------------------------------------
\* The steps: comparing.

\* Only what a field has room for survives in it.
LEMMA LowIsClean ==
    ASSUME NEW x \in Word(MaxBits), NEW n \in Nat
    PROVE  Low(x, n) = x <=> Clean(x, n)
<1>1. MaxBits \in Nat /\ x \in [0 .. MaxBits - 1 -> Bit]
  BY WidthFacts DEF Word
<1>2. Low(x, n) = [i \in 0 .. MaxBits - 1 |-> IF i < n THEN x[i] ELSE 0]
  BY <1>1 DEF Low
<1>3. Clean(x, n) <=> \A i \in 0 .. MaxBits - 1 : i >= n => x[i] = 0
  BY <1>1 DEF Clean
<1>4. ASSUME Low(x, n) = x PROVE Clean(x, n)
  <2>1. ASSUME NEW i \in 0 .. MaxBits - 1, i >= n PROVE x[i] = 0
    <3>1. Low(x, n)[i] = 0
      BY <2>1, <1>1, <1>2
    <3> QED BY <3>1, <1>4
  <2> QED BY <2>1, <1>3
<1>5. ASSUME Clean(x, n) PROVE Low(x, n) = x
  <2>1. \A i \in 0 .. MaxBits - 1 : (IF i < n THEN x[i] ELSE 0) = x[i]
    BY <1>1, <1>3, <1>5
  <2>2. x = [i \in 0 .. MaxBits - 1 |-> x[i]]
    BY <1>1
  <2> QED BY <2>1, <2>2, <1>2
<1> QED BY <1>4, <1>5

\* A field that is not what was sent was out of range or is not on the wire.
LEMMA MismatchMeans ==
    ASSUME readings \in Batches, OnWire, FieldsAreTheirOwn, GoodMsb(br),
           Len(got) <= Fields, Len(got) \in Nat,
           NEW k \in 1 .. Len(got), got[k] # Member(k)
    PROVE  \/ \E j \in 1 .. Fields : ~ Clean(Member(j), FieldBits[FieldOf(j)])
           \/ bw.overflow /\ 23 * Len(readings) > 8 * Len(bw.buffer)
<1>1. /\ Fields = 5 * Len(readings) /\ Fields \in Nat /\ Len(readings) \in Nat
      /\ k \in 1 .. Fields /\ k # 0
  BY BatchSizes
<1>2. FieldOf(k) \in 1 .. 5 /\ Member(k) \in Word(MaxBits)
  BY <1>1, MemberIs
<1>3. FieldBits[FieldOf(k)] \in Nat
  BY <1>2, FieldSizes, SMTT(30)
<1>4. CASE EndsAt(k) <= 8 * Len(br.buffer)
  <2>1. got[k] = Low(Member(k), FieldBits[FieldOf(k)])
    BY <1>4 DEF FieldsAreTheirOwn
  <2>2. ~ Clean(Member(k), FieldBits[FieldOf(k)])
    BY <2>1, <1>2, <1>3, LowIsClean
  <2> QED BY <2>2, <1>1
<1>5. CASE ~ (EndsAt(k) <= 8 * Len(br.buffer))
  <2> DEFINE E == EndsAt(k)  w == Len(br.buffer)  cap == Len(bw.buffer)
             L == Len(readings)
  <2>1. E \in Nat /\ E <= 23 * L
    BY <1>1, BatchEnds DEF Sent
  <2>2. /\ w = MinOf((23 * L + 7) \div 8, cap)
        /\ bw.overflow <=> 23 * L > 8 * cap
        /\ cap \in Nat /\ w \in Nat
    BY WriterFields DEF OnWire, Good, GoodMsb, Bounded, Readers
  <2> HIDE DEF E, w, cap, L
  <2>3. E > 8 * w
    BY <2>1, <2>2, <1>5 DEF E, w
  <2>4. L \in Nat
    BY <1>1 DEF L
  <2>5. 23 * L > 8 * cap
    BY <2>1, <2>2, <2>3, <2>4 DEF MinOf
  <2> QED BY <2>2, <2>5 DEF L, cap
<1> QED BY <1>4, <1>5

LEMMA CompareKeeps ==
    ASSUME IInv, Compare PROVE IInv'
<1> DEFINE bad == \E k \in Len(got) - 4 .. Len(got) : got[k] # Member(k)
<1>1. /\ pc = "compare"
      /\ pc' = IF bad THEN "mismatch"
               ELSE IF Len(got) = Fields THEN "verified" ELSE "decode"
      /\ UNCHANGED << readings, bw, sent, br, got >>
  BY DEF Compare
<1>2. /\ readings \in Batches /\ GoodMsb(br) /\ OnWire /\ InPlace
      /\ got \in Seq(Word(MaxBits)) /\ Len(got) \in Nat /\ Len(got) <= Fields
      /\ FieldsAreTheirOwn /\ InWidth /\ Shortfall /\ sent \in 0 .. Fields
      /\ Len(got) >= 5 /\ Len(got) % 5 = 0
      /\ \A j \in 1 .. Len(got) - 5 : got[j] = Member(j)
  BY <1>1 DEF IInv, Progress, Compared
<1>3. Fields' = Fields /\ Fields \in Nat
  BY <1>1, <1>2, BatchSizes DEF Fields
<1>4. /\ readings' \in Batches /\ sent' \in 0 .. Fields' /\ GoodMsb(br')
      /\ got' \in Seq(Word(MaxBits)) /\ OnWire' /\ pc' # "encode"
  BY <1>1, <1>2, <1>3 DEF OnWire
<1>5. InPlace' /\ FieldsAreTheirOwn' /\ InWidth' /\ Shortfall'
  <2>1. InPlace'
    BY <1>1, <1>2 DEF InPlace, Whole, Position
  <2>2. FieldsAreTheirOwn'
    BY <1>1, <1>2 DEF FieldsAreTheirOwn, Member
  <2>3. InWidth'
    BY <1>1, <1>2 DEF InWidth
  <2>4. Shortfall'
    BY <1>1, <1>2 DEF Shortfall, CutOff, Whole, ZeroFrom, Position
  <2> QED BY <2>1, <2>2, <2>3, <2>4
<1>6. ASSUME ~ bad, NEW j \in 1 .. Len(got) PROVE got[j] = Member(j)
  <2>1. j \in 1 .. Len(got) - 5 \/ j \in Len(got) - 4 .. Len(got)
    BY <1>2
  <2> QED BY <2>1, <1>2, <1>6
<1>7. bad \in BOOLEAN
  OBVIOUS
<1>8. Progress'
  <2>1. CASE bad
    <3>1. pc' = "mismatch" /\ Compared' = 0
      BY <2>1, <1>1 DEF Compared
    <3> QED BY <3>1, <1>1, <1>2, <1>3 DEF Progress
  <2>2. CASE ~ bad
    <3>1. \A j \in 1 .. Len(got) : got'[j] = Member(j)'
      BY <2>2, <1>1, <1>6 DEF Member
    <3>2. /\ pc' \in {"verified", "decode"}
          /\ pc' = "verified" <=> Len(got) = Fields
      BY <2>2, <1>1
    <3> HIDE DEF bad
    <3>3. Compared' = Len(got)
      <4>1. CASE pc' = "verified"
        BY <4>1, <1>1 DEF Compared
      <4>2. CASE pc' = "decode"
        <5>1. 5 * (Len(got) \div 5) = Len(got)
          BY <1>2
        <5> QED BY <5>1, <4>2, <1>1 DEF Compared
      <4> QED BY <4>1, <4>2, <3>2
    <3> QED BY <3>1, <3>2, <3>3, <1>1, <1>2, <1>3 DEF Progress
  <2> QED BY <2>1, <2>2
<1>9. NoFalseAlarm'
  <2>1. CASE bad
    <3>1. PICK k \in Len(got) - 4 .. Len(got) : got[k] # Member(k)
      BY <2>1
    <3>2. k \in 1 .. Len(got)
      BY <1>2
    <3>3. \/ \E j \in 1 .. Fields : ~ Clean(Member(j), FieldBits[FieldOf(j)])
          \/ bw.overflow /\ 23 * Len(readings) > 8 * Len(bw.buffer)
      BY <3>1, <3>2, <1>2, MismatchMeans
    <3> QED BY <3>3, <1>1 DEF NoFalseAlarm, Member, Fields
  <2>2. CASE ~ bad
    BY <2>2, <1>1 DEF NoFalseAlarm
  <2> QED BY <2>1, <2>2
<1> QED BY <1>4, <1>5, <1>8, <1>9 DEF IInv

LEMMA IInvStep == IInv /\ [Next]_vars => IInv'
<1> SUFFICES ASSUME IInv, [Next]_vars PROVE IInv'
  OBVIOUS
<1>1. CASE UNCHANGED vars
  BY <1>1 DEF vars, IInv, Encoding, OnWire, InPlace, FieldsAreTheirOwn, InWidth,
              Shortfall, Progress, NoFalseAlarm, CutOff, Whole, ZeroFrom,
              Compared, Member, Fields, Position
<1> QED BY <1>1, EncodeKeeps, FlushKeeps, DecodeKeeps, CompareKeeps DEF Next

---------------------------------------------------------------------------
\* What the invariant says of the program.

LEMMA IInvTypes == IInv => TypeOK
<1> SUFFICES ASSUME IInv PROVE TypeOK
  OBVIOUS
<1>1. Good(bw)
  BY DEF IInv, Encoding, OnWire, Carries
<1> QED BY <1>1 DEF IInv, Good, Within, GoodMsb, Bounded, Progress, TypeOK

LEMMA IInvFields == IInv => FieldsAreTheirOwn /\ NoFalseAlarm
BY DEF IInv

\* A member that is zero is a field of zeros in the stream.
LEMMA ZeroMember ==
    ASSUME readings \in Batches, NEW c \in 1 .. Fields,
           Member(c) = Zero(MaxBits), ~ Whole(c), Len(br.buffer) \in Nat
    PROVE  ZeroFrom(Sent(c - 1))
<1> DEFINE at == Sent(c - 1)  n == FieldBits[FieldOf(c)]
<1>1. c \in Nat \ {0} /\ FieldOf(c) \in 1 .. 5
  BY BatchSizes, MemberIs
<1>2. n \in 1 .. 10
  BY <1>1, FieldSizes
<1>3. at \in Nat /\ Sent(c) = at + n /\ Sent(c) \in Nat
  BY <1>1, Places
<1>4. \A j \in 1 .. n : StreamOf(readings)[at + j] = Member(c)[n - j]
  BY FieldInStream
<1>5. \A i \in 0 .. MaxBits - 1 : Member(c)[i] = 0
  BY DEF Zero
<1>6. MaxBits \in Nat /\ MaxBits >= 16
  BY BatchAssumption, WidthFacts
<1> HIDE DEF at, n
<1>7. ASSUME NEW j \in at + 1 .. 8 * Len(br.buffer)
      PROVE  StreamOf(readings)[j] = 0
  <2> DEFINE i == j - at
  <2>1. i \in 1 .. n /\ at + i = j /\ n - i \in 0 .. MaxBits - 1
    BY <1>2, <1>3, <1>6 DEF Whole
  <2> HIDE DEF i
  <2> QED BY <2>1, <1>4, <1>5
<1> QED BY <1>7 DEF ZeroFrom, at

LEMMA IInvSuccess == IInv => SuccessLosesNothing
<1> SUFFICES ASSUME IInv, pc = "verified", NEW k \in 1 .. Fields
             PROVE  /\ Clean(Member(k), FieldBits[FieldOf(k)])
                    /\ EndsAt(k) > 8 * Len(bw.buffer) =>
                          Member(k) = Zero(MaxBits)
  BY DEF SuccessLosesNothing
<1>1. /\ readings \in Batches /\ GoodMsb(br) /\ OnWire /\ InWidth /\ Shortfall
      /\ Len(got) = Fields
      /\ \A j \in 1 .. Fields : got[j] = Member(j)
  BY DEF IInv, Progress, Compared
<1>2. Clean(Member(k), FieldBits[FieldOf(k)])
  BY <1>1 DEF InWidth
<1>3. ASSUME EndsAt(k) > 8 * Len(bw.buffer)
      PROVE  Member(k) = Zero(MaxBits)
  <2>1. k \in Nat \ {0} /\ Fields = 5 * Len(readings) /\ Len(readings) \in Nat
    BY <1>1, BatchSizes
  <2>2. ~ Whole(k)
    <3> DEFINE w == Len(br.buffer)  cap == Len(bw.buffer)  E == EndsAt(k)
               L == Len(readings)
    <3>1. E \in Nat /\ Sent(k) = E
      BY <2>1, BatchEnds DEF Sent
    <3>2. /\ w = MinOf((23 * L + 7) \div 8, cap)
          /\ cap \in Nat /\ w \in Nat /\ L \in Nat
      BY <1>1, <2>1, WriterFields DEF OnWire, Good, GoodMsb, Bounded, Readers
    <3> HIDE DEF w, cap, E, L
    <3>3. w <= cap
      BY <3>2 DEF MinOf
    <3>4. E > 8 * cap
      BY <1>3 DEF E, cap
    <3>5. ~ (E <= 8 * w)
      BY <3>1, <3>2, <3>3, <3>4
    <3> QED BY <3>1, <3>5 DEF Whole, w
  <2>3. PICK c \in 1 .. k :
           /\ CutOff(c) /\ got[c] = Zero(MaxBits)
           /\ ZeroFrom(Sent(c - 1)) => got[k] = Zero(MaxBits)
    BY <2>2, <1>1 DEF Shortfall
  <2>4. c \in 1 .. Fields /\ Len(br.buffer) \in Nat
    BY <1>1, <2>1 DEF GoodMsb, Bounded, Readers
  <2>5. Member(c) = Zero(MaxBits)
    BY <2>3, <2>4, <1>1
  <2>6. ZeroFrom(Sent(c - 1))
    BY <2>3, <2>4, <2>5, <1>1, ZeroMember DEF CutOff
  <2> QED BY <2>3, <2>6, <1>1
<1> QED BY <1>2, <1>3

---------------------------------------------------------------------------
LEMMA Invariance == Spec => []IInv
BY IInvInit, IInvStep, PTL DEF Spec

\* Whatever the batch and the memory, the positions of the writer and the
\* reader stay inside theirs.
THEOREM SensorTypeCorrect == Spec => []TypeOK
BY Invariance, IInvTypes, PTL

\* A field that lies on the wire is decoded as it was encoded, whatever the
\* members of other fields and wherever the wire ends.
THEOREM FieldsKeepTheirPlace == Spec => []FieldsAreTheirOwn
BY Invariance, IInvFields, PTL

\* The program reports success only for readings that lost nothing.
THEOREM SuccessIsEarned == Spec => []SuccessLosesNothing
BY Invariance, IInvSuccess, PTL

\* It reports a mismatch only for members out of range or a wire too short.
THEOREM AlarmsAreTrue == Spec => []NoFalseAlarm
BY Invariance, IInvFields, PTL

---------------------------------------------------------------------------
\* Mp3Header.

\* The k-th field of a header.
FieldAt(data, k) == Field(data, "msb", FieldEnd(k - 1), FieldWidths[k], MaxBits)

LEMMA FieldEnds ==
    /\ Len(FieldWidths) = 13 /\ FieldEnd(0) = 0 /\ FieldEnd(13) = 32
    /\ \A k \in 1 .. 13 : /\ FieldWidths[k] \in 1 .. 11
                          /\ FieldEnd(k - 1) \in 0 .. 32
                          /\ FieldEnd(k) = FieldEnd(k - 1) + FieldWidths[k]
                          /\ FieldEnd(k) \in 0 .. 32
BY DEF FieldEnd, FieldWidths

LEMMA HeaderBytes ==
    ASSUME NEW data \in RawHeaders
    PROVE  data \in Seq(Byte) /\ Len(data) = 4
<1>1. data \in [1 .. 4 -> Byte] /\ 4 \in Nat
  BY HeaderAssumption
<1>2. << data[1], data[2], data[3], data[4] >> \in Seq(Byte)
  BY <1>1
<1>3. data = << data[1], data[2], data[3], data[4] >>
  BY <1>1
<1>4. Len(<< data[1], data[2], data[3], data[4] >>) = 4
  OBVIOUS
<1> QED BY <1>2, <1>3, <1>4, Zenon

\* What remains of a header is what lies behind the reader's position.
LEMMA HeaderLeft ==
    ASSUME NEW b, GoodMsb(b), Len(b.buffer) = 4,
           NEW at \in 0 .. 32, Position(b) = at
    PROVE  bs_reader_bits_left(b) = 32 - at
<1>1. bs_reader_bits_left(b) = 8 * Len(b.buffer) - Position(b)
  BY BitsLeft DEF GoodMsb
<1> QED BY <1>1

\* A field that lies in the header is read, whole and from its place.
LEMMA FieldIsRead ==
    ASSUME NEW b, GoodMsb(b), Len(b.buffer) = 4, NEW k \in 1 .. 13,
           Position(b) = FieldEnd(k - 1)
    PROVE  LET res == bs_read_bits(b, FieldWidths[k]) IN
           /\ GoodMsb(res.bs) /\ res.bs.buffer = b.buffer
           /\ Position(res.bs) = FieldEnd(k)
           /\ res.ret.value = FieldAt(b.buffer, k)
           /\ res.ret.value \in Word(MaxBits)
<1> DEFINE n == FieldWidths[k]  res == bs_read_bits(b, n)
<1>1. /\ n \in 1 .. 11 /\ FieldEnd(k - 1) \in 0 .. 32
      /\ FieldEnd(k) = FieldEnd(k - 1) + n /\ FieldEnd(k) \in 0 .. 32
  BY FieldEnds
<1> HIDE DEF n
<1>2. n \in 0 .. MaxBits
  BY <1>1, HeaderAssumption, WidthAssumption
<1>3. KeepsMsb(b, res)
  BY <1>2, MsbCallsKeep
<1>4. Takes(b, "msb", n, res) \/ Refuses(b, n, res)
  BY <1>2, MsbCallsMeet
<1>5. bs_reader_bits_left(b) = 32 - FieldEnd(k - 1)
  BY <1>1, HeaderLeft
<1>6. ~ (n > bs_reader_bits_left(b))
  BY <1>1, <1>5
<1>7. Takes(b, "msb", n, res)
  BY <1>4, <1>6 DEF Refuses
<1>8. Position(res.bs) = FieldEnd(k)
  BY <1>1, <1>7 DEF Takes
<1>9. res.ret.value = FieldAt(b.buffer, k)
  BY <1>7 DEF Takes, Value, Ret, FieldAt, n
<1>10. res.ret.value \in Word(MaxBits)
  BY <1>3 DEF KeepsMsb, RetType
<1> QED BY <1>3, <1>8, <1>9, <1>10 DEF KeepsMsb, n

\* The sync word is the field of all ones exactly when its bits are set.
LEMMA SyncBits ==
    ASSUME NEW data \in Seq(Byte), Len(data) = 4
    PROVE  FieldAt(data, 1) = Ones(11)
             <=> \A j \in 0 .. 10 : StreamBit(data, "msb", j) = 1
<1>1. FieldAt(data, 1)
        = [i \in 0 .. MaxBits - 1 |->
            IF i < 11 THEN StreamBit(data, "msb", 0 + (11 - 1 - i)) ELSE 0]
  BY DEF FieldAt, Field, FieldEnd, FieldWidths, FieldOffset
<1>2. MaxBits \in Nat /\ MaxBits >= 11
  BY HeaderAssumption, WidthAssumption
<1>3. \A i \in 0 .. 10 : i \in 0 .. MaxBits - 1 /\ 0 + (11 - 1 - i) = 10 - i
                         /\ 10 - i \in 0 .. 10 /\ 10 - (10 - i) = i
  BY <1>2
<1>4. ASSUME FieldAt(data, 1) = Ones(11), NEW j \in 0 .. 10
      PROVE  StreamBit(data, "msb", j) = 1
  <2>1. FieldAt(data, 1)[10 - j] = StreamBit(data, "msb", j)
    <3> DEFINE i == 10 - j
    <3>1. i \in 0 .. MaxBits - 1 /\ i < 11 /\ 0 + (11 - 1 - i) = j
      BY <1>2
    <3> HIDE DEF i
    <3>2. FieldAt(data, 1)[i] = StreamBit(data, "msb", 0 + (11 - 1 - i))
      BY <1>1, <3>1
    <3> QED BY <3>1, <3>2 DEF i
  <2>2. Ones(11)[10 - j] = 1
    BY <1>3 DEF Ones
  <2> QED BY <2>1, <2>2, <1>4
<1>5. ASSUME \A j \in 0 .. 10 : StreamBit(data, "msb", j) = 1
      PROVE  FieldAt(data, 1) = Ones(11)
  <2>1. \A i \in 0 .. MaxBits - 1 :
          i < 11 => StreamBit(data, "msb", 0 + (11 - 1 - i)) = 1
    <3> TAKE i \in 0 .. MaxBits - 1
    <3>1. i < 11 => i \in 0 .. 10
      BY <1>2
    <3> QED BY <3>1, <1>3, <1>5
  <2> QED BY <2>1, <1>1 DEF Ones
<1> QED BY <1>4, <1>5

---------------------------------------------------------------------------
(***************************************************************************)
(* The inductive invariant: FieldsCoverHeader, with what the reader must   *)
(* be for the next field to be read right (good, on the header), with the  *)
(* number of fields at each place in the program, and with what the sync   *)
(* check has found.                                                        *)
(***************************************************************************)
HeaderInv ==
    /\ raw_header \in RawHeaders
    /\ GoodMsb(bs) /\ bs.buffer = raw_header
    /\ fields \in Seq(Word(MaxBits))
    /\ Len(fields) \in 0 .. 13
    /\ stage \in {"parse", "validate", "print", "done", "error"}
    /\ stage = "parse" <=> Len(fields) < 13
    /\ Position(bs) = FieldEnd(Len(fields))
    /\ \A k \in 1 .. Len(fields) : fields[k] = FieldAt(raw_header, k)
    /\ stage \in {"print", "done"} => fields[1] = Ones(11)
    /\ stage = "error" => fields[1] # Ones(11)

LEMMA HeaderInvInit == HeaderInit => HeaderInv
<1> SUFFICES ASSUME HeaderInit PROVE HeaderInv
  OBVIOUS
<1>1. /\ raw_header \in Seq(Byte) /\ bs = bs_reader_init(raw_header)
      /\ fields = << >> /\ stage = "parse" /\ raw_header \in RawHeaders
  BY HeaderBytes DEF HeaderInit
<1>2. GoodMsb(bs) /\ bs.buffer = raw_header
  BY <1>1, OpenedGood
<1>3. Position(bs) = 0
  BY <1>1 DEF bs_reader_init, Position
<1>4. Len(fields) = 0 /\ fields \in Seq(Word(MaxBits))
  BY <1>1
<1> QED BY <1>1, <1>2, <1>3, <1>4, FieldEnds DEF HeaderInv

LEMMA ParseKeeps ==
    ASSUME HeaderInv, ParseField PROVE HeaderInv'
<1> DEFINE i == Len(fields) + 1  read == bs_read_bits(bs, FieldWidths[i])
           v == read.ret.value
<1>1. /\ stage = "parse" /\ bs' = read.bs /\ fields' = Append(fields, v)
      /\ stage' = IF i = Len(FieldWidths) THEN "validate" ELSE "parse"
      /\ raw_header' = raw_header
  BY DEF ParseField
<1>2. /\ GoodMsb(bs) /\ bs.buffer = raw_header /\ raw_header \in RawHeaders
      /\ Len(bs.buffer) = 4 /\ fields \in Seq(Word(MaxBits))
      /\ Position(bs) = FieldEnd(Len(fields))
      /\ \A k \in 1 .. Len(fields) : fields[k] = FieldAt(raw_header, k)
  BY HeaderBytes DEF HeaderInv
<1>3. i \in 1 .. 13 /\ i - 1 = Len(fields)
  BY <1>1 DEF HeaderInv
<1>4. /\ GoodMsb(read.bs) /\ read.bs.buffer = bs.buffer
      /\ Position(read.bs) = FieldEnd(i)
      /\ v = FieldAt(bs.buffer, i) /\ v \in Word(MaxBits)
  <2> HIDE DEF i
  <2> QED BY <1>2, <1>3, FieldIsRead
<1> HIDE DEF read, v
<1>5. /\ fields' \in Seq(Word(MaxBits)) /\ Len(fields') = i
      /\ \A k \in 1 .. i : fields'[k] = IF k = i THEN v ELSE fields[k]
  BY <1>1, <1>2, <1>3, <1>4
<1>6. \A k \in 1 .. i : fields'[k] = FieldAt(raw_header, k)
  <2> TAKE k \in 1 .. i
  <2>1. CASE k = i
    BY <2>1, <1>2, <1>4, <1>5
  <2>2. CASE k # i
    <3>1. k \in 1 .. Len(fields)
      BY <2>2, <1>3
    <3> QED BY <3>1, <2>2, <1>2, <1>5
  <2> QED BY <2>1, <2>2
<1> HIDE DEF i
<1>7. stage' = IF i = 13 THEN "validate" ELSE "parse"
  BY <1>1, FieldEnds
<1>8. /\ stage' \in {"parse", "validate"} /\ (stage' = "parse" <=> i < 13)
  BY <1>3, <1>7
<1> QED BY <1>1, <1>2, <1>3, <1>4, <1>5, <1>6, <1>8 DEF HeaderInv

LEMMA HeaderInvStep == HeaderInv /\ [HeaderNext]_header_vars => HeaderInv'
<1> SUFFICES ASSUME HeaderInv, [HeaderNext]_header_vars PROVE HeaderInv'
  OBVIOUS
<1>1. CASE ParseField
  BY <1>1, ParseKeeps
<1>2. CASE ValidateSync
  <2>1. /\ stage = "validate" /\ UNCHANGED << raw_header, bs, fields >>
        /\ stage' = IF fields[1] # Ones(11) THEN "error" ELSE "print"
    BY <1>2 DEF ValidateSync
  <2> QED BY <2>1 DEF HeaderInv
<1>3. CASE PrintHeader
  <2>1. /\ stage = "print" /\ stage' = "done"
        /\ UNCHANGED << raw_header, bs, fields >>
    BY <1>3 DEF PrintHeader
  <2> QED BY <2>1 DEF HeaderInv
<1>4. CASE UNCHANGED header_vars
  BY <1>4 DEF header_vars, HeaderInv
<1> QED BY <1>1, <1>2, <1>3, <1>4 DEF HeaderNext

LEMMA HeaderInvImplies == HeaderInv => FieldsCoverHeader /\ ShowsOnlySynced
<1> SUFFICES ASSUME HeaderInv PROVE FieldsCoverHeader /\ ShowsOnlySynced
  OBVIOUS
<1>1. raw_header \in Seq(Byte) /\ Len(raw_header) = 4
  BY HeaderBytes DEF HeaderInv
<1>2. bs_reader_bits_left(bs) = 32 - FieldEnd(Len(fields))
  <2>1. /\ GoodMsb(bs) /\ Len(bs.buffer) = 4 /\ Len(fields) \in 0 .. 13
        /\ Position(bs) = FieldEnd(Len(fields))
    BY <1>1 DEF HeaderInv
  <2>2. FieldEnd(Len(fields)) \in 0 .. 32
    <3> DEFINE k == Len(fields)
    <3>1. k \in 0 .. 13 /\ (k = 0 \/ k \in 1 .. 13)
      BY <2>1
    <3> HIDE DEF k
    <3>2. FieldEnd(k) \in 0 .. 32
      BY <3>1, FieldEnds
    <3> QED BY <3>2 DEF k
  <2> QED BY <2>1, <2>2, HeaderLeft
<1>3. FieldsCoverHeader
  <2>1. ASSUME stage = "done" PROVE bs_reader_bits_left(bs) = 0
    <3>1. Len(fields) \in 0 .. 13 /\ ~ (Len(fields) < 13)
      BY <2>1 DEF HeaderInv
    <3> DEFINE k == Len(fields)
    <3>2. Len(fields) = 13
      <4>1. k \in 0 .. 13 /\ ~ (k < 13)
        BY <3>1
      <4> HIDE DEF k
      <4>2. k = 13
        BY <4>1
      <4> QED BY <4>2 DEF k
    <3>3. bs_reader_bits_left(bs) = 32 - FieldEnd(13)
      BY <3>2, <1>2, Zenon
    <3>4. FieldEnd(13) = 32
      BY FieldEnds
    <3> QED BY <3>3, <3>4
  <2> QED BY <1>2, <2>1 DEF FieldsCoverHeader, HeaderInv, FieldAt
<1>4. stage \in {"done", "error"} =>
        (stage = "done" <=> FieldAt(raw_header, 1) = Ones(11))
  BY DEF HeaderInv
<1>5. ShowsOnlySynced
  BY <1>1, <1>4, SyncBits DEF ShowsOnlySynced
<1> QED BY <1>3, <1>5

---------------------------------------------------------------------------
\* Whatever the header, each field read is the one that lies at its place,
\* and the thirteen of them leave nothing over.
THEOREM HeaderIsCovered == HeaderSpec => []FieldsCoverHeader
<1>1. HeaderSpec => []HeaderInv
  BY HeaderInvInit, HeaderInvStep, PTL DEF HeaderSpec
<1> QED BY <1>1, HeaderInvImplies, PTL

\* The program shows a header if its eleven sync bits are set, and reports
\* an error if not.
THEOREM OnlySyncedIsShown == HeaderSpec => []ShowsOnlySynced
<1>1. HeaderSpec => []HeaderInv
  BY HeaderInvInit, HeaderInvStep, PTL DEF HeaderSpec
<1> QED BY <1>1, HeaderInvImplies, PTL

=============================================================================
