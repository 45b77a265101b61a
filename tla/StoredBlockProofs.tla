------------------------- MODULE StoredBlockProofs -------------------------
(***************************************************************************)
(* The stored-block program keeps what it promises, for every literal,     *)
(* every memory and all widths.  The invariant says how much of the        *)
(* block's bits the encoder's writer carries, that a prefix of them is on  *)
(* the wire, in whole parts, and where on it the decoder stands: at the    *)
(* end of the part read last or, if that was not there, of the wire.       *)
(***************************************************************************)
EXTENDS StoredBlock, CallLemmas, TLAPS

\* The bits of a block in transmission order.
Stream ==
    [j \in Nat \ {0} |->
        IF j = 1 THEN final
        ELSE IF j <= 8  THEN 0
        ELSE IF j <= 24 THEN LenWord(literal)[j - 9]
        ELSE IF j <= 40 THEN Complement(LenWord(literal))[j - 25]
        ELSE CopyOf("lsb", literal)[j - 40]]

Encoder == {"put_header", "put_padding", "put_lengths", "put_literal"}

\* The bits enqueued before a part of the block is.
Before(part) ==
    IF part = "put_header" THEN 0
    ELSE IF part = "put_padding" THEN 3
    ELSE IF part = "put_lengths" THEN 8 ELSE 40

Decoder == {"get_header", "get_padding", "get_lengths", "get_literal",
            "verify", "done"}

Blocks == [is_final : Bit, len : Word(16), data : Seq(Byte)]

\* While it encodes, the writer carries the parts put so far.
Encoding ==
    pc \in Encoder =>
        Carries(bw, "lsb", Stream, Before(pc)) /\ block.data = << >>

\* The wire holds the block, or as much of the five bytes before the literal
\* as there is room for: a literal is on it as a whole or not at all.
OnWire ==
    pc \in Decoder =>
        /\ Len(br.buffer) = IF BlockFits THEN 5 + Len(literal)
                            ELSE MinOf(Len(bw.buffer), 5)
        /\ \A j \in 1 .. 8 * Len(br.buffer) :
            StreamBit(br.buffer, "lsb", j - 1) = Stream[j]

\* Where the decoder stands.  A part that is cut off is read to the end of
\* the wire, because it is read byte by byte.
InStep ==
    LET size == 8 * Len(br.buffer) IN
    /\ pc = "get_header"  => Position(br) = 0
    /\ pc = "get_padding" => Position(br) = MinOf(3, size)
    /\ pc = "get_lengths" => Position(br) = MinOf(8, size)
    /\ pc = "get_literal" => Position(br) = MinOf(40, size)

\* What it has made of a block that is there.
Decoded ==
    BlockFits =>
        /\ pc \in Decoder \ {"get_header"} => block.is_final = final
        /\ pc \in {"get_literal", "verify", "done"} =>
            block.len = LenWord(literal)
        /\ pc \in {"verify", "done"} => block.data = literal

IInv ==
    /\ build \in {"debug", "release"}
    /\ literal \in Literals
    /\ final \in Bit
    /\ pc \in Encoder \cup Decoder \cup {"aborted"}
    /\ Within(bw)
    /\ GoodLsb(br)
    /\ block \in Blocks
    /\ Encoding
    /\ OnWire
    /\ InStep
    /\ Decoded
    /\ AllOrNothing
    /\ AbortsWhenTooSmall

---------------------------------------------------------------------------
\* Words of 16 bits.

LEMMA NibbleIsNat ==
    ASSUME NEW x \in Word(16), NEW i \in 0 .. 12
    PROVE  Nibble(x, i) \in Nat
<1>1. /\ i \in 0 .. 15 /\ i + 1 \in 0 .. 15 /\ i + 2 \in 0 .. 15
      /\ i + 3 \in 0 .. 15
  OBVIOUS
<1>2. /\ x[i] \in Nat /\ x[i + 1] \in Nat /\ x[i + 2] \in Nat
      /\ x[i + 3] \in Nat
  BY <1>1 DEF Word, Bit
<1> QED BY <1>2 DEF Nibble

LEMMA NumberIsNat ==
    ASSUME NEW x \in Word(16) PROVE Number(x) \in Nat
<1>1. /\ Nibble(x, 0) \in Nat /\ Nibble(x, 4) \in Nat
      /\ Nibble(x, 8) \in Nat /\ Nibble(x, 12) \in Nat
  BY NibbleIsNat
<1> QED BY <1>1 DEF Number

\* Four bits of a number are its remainder by 16.
LEMMA NibbleIs ==
    ASSUME NEW x, NEW i \in 0 .. 12, NEW h \in Nat,
           x[i] = h % 2, x[i + 1] = (h \div 2) % 2,
           x[i + 2] = (h \div 4) % 2, x[i + 3] = (h \div 8) % 2
    PROVE  Nibble(x, i) = h % 16 /\ h = (h % 16) + 16 * (h \div 16)
<1>1. h = (h % 16) + 16 * (h \div 16)
  OBVIOUS
<1>2. (h % 2) + 2 * ((h \div 2) % 2) + 4 * ((h \div 4) % 2)
        + 8 * ((h \div 8) % 2) = h % 16
  OBVIOUS
<1> QED BY <1>1, <1>2 DEF Nibble

\* The bits of a length are a word, and their number is the length.
LEMMA LengthWord ==
    ASSUME NEW bytes \in Literals
    PROVE  /\ LenWord(bytes) \in Word(16)
           /\ Number(LenWord(bytes)) = Len(bytes)
<1>1. Len(bytes) \in Nat /\ Len(bytes) < 65536
  BY BlockAssumption
<1> DEFINE n == Len(bytes)  x == LenWord(bytes)
<1>2. ASSUME NEW i \in 0 .. 15 PROVE x[i] = (n \div Weight[i + 1]) % 2
  BY DEF LenWord
<1>3. DOMAIN x = 0 .. 15 /\ x = [i \in 0 .. 15 |-> x[i]]
  BY DEF LenWord
<1>4. n \in Nat /\ n < 65536
  BY <1>1
<1> HIDE DEF n, x
<1>5. x \in Word(16)
  <2>1. ASSUME NEW i \in 0 .. 15 PROVE x[i] \in Bit
    <3>1. \A k \in Nat : k % 2 \in {0, 1}
      OBVIOUS
    <3>2. \A k \in Nat \ {0} : n \div k \in Nat
      BY <1>4
    <3>3. Weight[i + 1] \in Nat \ {0}
      BY DEF Weight
    <3> QED BY <3>1, <3>2, <3>3, <1>2 DEF Bit
  <2> QED BY <2>1, <1>3 DEF Word
<1>6. PICK a \in Nat, b \in Nat, c \in Nat :
        a = n \div 16 /\ b = n \div 256 /\ c = n \div 4096
  BY <1>4
<1>7. n = Nibble(x, 0) + 16 * a
  <2>1. /\ x[0] = n % 2 /\ x[0 + 1] = (n \div 2) % 2
        /\ x[0 + 2] = (n \div 4) % 2 /\ x[0 + 3] = (n \div 8) % 2
    <3>1. n \div 1 = n
      BY <1>4
    <3> QED BY <1>2, <3>1 DEF Weight
  <2>2. Nibble(x, 0) = n % 16 /\ n = (n % 16) + 16 * (n \div 16)
    BY <2>1, <1>4, NibbleIs
  <2> QED BY <2>2, <1>6
<1>8. a = Nibble(x, 4) + 16 * b
  <2>1. /\ x[4] = a % 2 /\ x[4 + 1] = (a \div 2) % 2
        /\ x[4 + 2] = (a \div 4) % 2 /\ x[4 + 3] = (a \div 8) % 2
        /\ a \div 16 = b
    <3>1. /\ a \div 2 = n \div 32 /\ a \div 4 = n \div 64
          /\ a \div 8 = n \div 128 /\ a \div 16 = n \div 256
      BY <1>4, <1>6
    <3> QED BY <1>2, <1>6, <3>1 DEF Weight
  <2>2. Nibble(x, 4) = a % 16 /\ a = (a % 16) + 16 * (a \div 16)
    BY <2>1, NibbleIs
  <2> QED BY <2>1, <2>2
<1>9. b = Nibble(x, 8) + 16 * c
  <2>1. /\ x[8] = b % 2 /\ x[8 + 1] = (b \div 2) % 2
        /\ x[8 + 2] = (b \div 4) % 2 /\ x[8 + 3] = (b \div 8) % 2
        /\ b \div 16 = c
    <3>1. /\ b \div 2 = n \div 512 /\ b \div 4 = n \div 1024
          /\ b \div 8 = n \div 2048 /\ b \div 16 = n \div 4096
      BY <1>4, <1>6
    <3> QED BY <1>2, <1>6, <3>1 DEF Weight
  <2>2. Nibble(x, 8) = b % 16 /\ b = (b % 16) + 16 * (b \div 16)
    BY <2>1, NibbleIs
  <2> QED BY <2>1, <2>2
<1>10. c = Nibble(x, 12)
  <2>1. /\ x[12] = c % 2 /\ x[12 + 1] = (c \div 2) % 2
        /\ x[12 + 2] = (c \div 4) % 2 /\ x[12 + 3] = (c \div 8) % 2
        /\ c < 16
    <3>1. /\ c \div 2 = n \div 8192 /\ c \div 4 = n \div 16384
          /\ c \div 8 = n \div 32768 /\ c < 16
      BY <1>4, <1>6
    <3> QED BY <1>2, <1>6, <3>1 DEF Weight
  <2>2. Nibble(x, 12) = c % 16
    BY <2>1, NibbleIs
  <2> QED BY <2>1, <2>2
<1>11. /\ Nibble(x, 0) \in Nat /\ Nibble(x, 4) \in Nat
       /\ Nibble(x, 8) \in Nat /\ Nibble(x, 12) \in Nat
  BY <1>5, NibbleIsNat
<1>12. Number(x) = n
  BY <1>4, <1>7, <1>8, <1>9, <1>10, <1>11 DEF Number
<1> QED BY <1>5, <1>12 DEF x, n

LEMMA ComplementWord ==
    ASSUME NEW x \in Word(16)
    PROVE  Complement(x) \in Word(16)
<1>1. DOMAIN x = 0 .. 15 /\ \A i \in 0 .. 15 : x[i] \in Bit
  BY DEF Word
<1>2. \A i \in 0 .. 15 : 1 - x[i] \in Bit
  BY <1>1 DEF Bit
<1> QED BY <1>1, <1>2 DEF Complement, Word

---------------------------------------------------------------------------
\* The stream of a block, part by part.

LEMMA StreamParts ==
    ASSUME literal \in Literals, final \in Bit
    PROVE  /\ literal \in Seq(Byte) /\ Len(literal) \in Nat
           /\ LenWord(literal) \in Word(16)
           /\ Complement(LenWord(literal)) \in Word(16)
           /\ Stream[1] = final
           /\ \A j \in 2 .. 8 : Stream[j] = 0
           /\ \A i \in 0 .. 15 : Stream[9 + i] = LenWord(literal)[i]
           /\ \A i \in 0 .. 15 : Stream[25 + i] = Complement(LenWord(literal))[i]
           /\ \A j \in 1 .. 8 * Len(literal) :
                Stream[40 + j] = CopyOf("lsb", literal)[j]
<1>1. literal \in Seq(Byte) /\ Len(literal) \in Nat
  BY BlockAssumption
<1>2. LenWord(literal) \in Word(16)
  BY LengthWord
<1>3. Complement(LenWord(literal)) \in Word(16)
  BY <1>2, ComplementWord
<1>4. Stream[1] = final /\ \A j \in 2 .. 8 : Stream[j] = 0
  BY DEF Stream
<1>5. ASSUME NEW i \in 0 .. 15
      PROVE  /\ Stream[9 + i] = LenWord(literal)[i]
             /\ Stream[25 + i] = Complement(LenWord(literal))[i]
  <2>1. /\ 9 + i \in Nat \ {0} /\ 9 + i > 8 /\ 9 + i <= 24 /\ (9 + i) - 9 = i
        /\ 9 + i # 1
    OBVIOUS
  <2>2. /\ 25 + i \in Nat \ {0} /\ ~ (25 + i <= 24) /\ 25 + i <= 40
        /\ (25 + i) - 25 = i /\ 25 + i # 1
    OBVIOUS
  <2> DEFINE p == 9 + i  q == 25 + i
  <2>3. ~ (p <= 8) /\ ~ (q <= 8)
    OBVIOUS
  <2> HIDE DEF p, q
  <2>4. Stream[p] = LenWord(literal)[p - 9]
    BY <2>1, <2>3 DEF Stream, p
  <2>5. Stream[q] = Complement(LenWord(literal))[q - 25]
    BY <2>2, <2>3 DEF Stream, q
  <2> QED BY <2>1, <2>2, <2>4, <2>5 DEF p, q
<1>6. ASSUME NEW j \in 1 .. 8 * Len(literal)
      PROVE  Stream[40 + j] = CopyOf("lsb", literal)[j]
  <2> DEFINE p == 40 + j
  <2>1. p \in Nat \ {0} /\ p # 1 /\ ~ (p <= 8) /\ ~ (p <= 24) /\ ~ (p <= 40)
        /\ p - 40 = j
    BY <1>1
  <2> HIDE DEF p
  <2>2. Stream[p] = CopyOf("lsb", literal)[p - 40]
    BY <2>1 DEF Stream
  <2> QED BY <2>1, <2>2 DEF p
<1> QED BY <1>1, <1>2, <1>3, <1>4, <1>5, <1>6

---------------------------------------------------------------------------
\* What the encoder's steps do.

\* Bits put are the next of a stream.
LEMMA BitsPut ==
    ASSUME NEW b, NEW stream, NEW at \in Nat, Carries(b, "lsb", stream, at),
           NEW n \in 1 .. 8, NEW x, Cast(x, MaxBits) \in Word(MaxBits),
           \A i \in 0 .. n - 1 : stream[at + 1 + i] = Cast(x, MaxBits)[i]
    PROVE  Carries(PutBits(b, x, n), "lsb", stream, at + n)
<1> DEFINE v == Cast(x, MaxBits)  d == PutBits(b, x, n)
           bits == SentBits("lsb", v, n)
<1>1. Good(b)
  BY DEF Carries
<1>2. n \in 0 .. MaxBits /\ n \in Nat
  BY WidthFacts
<1>3. Keeps(b, d) /\ Longer(b, d, "lsb", bits)
  BY <1>1, <1>2, LsbWrites, WritesLonger DEF PutBits
<1>4. /\ bits \in Seq(Bit) /\ Len(bits) = n
      /\ \A j \in 1 .. n : bits[j] = v[j - 1]
  BY <1>2, FieldIs
<1> HIDE DEF bits, d, v
<1>5. ASSUME NEW j \in 1 .. Len(bits) PROVE bits[j] = stream[at + j]
  <2>1. j \in 1 .. n /\ j - 1 \in 0 .. n - 1 /\ at + 1 + (j - 1) = at + j
    BY <1>2, <1>4
  <2> QED BY <2>1, <1>4 DEF v
<1>6. Carries(d, "lsb", stream, at + n)
  BY <1>3, <1>4, <1>5, CarriesMore
<1> QED BY <1>6 DEF d

\* The two bytes of a word put are the next of a stream.
LEMMA WordPut ==
    ASSUME NEW b, NEW stream, NEW at \in Nat, Carries(b, "lsb", stream, at),
           NEW x \in Word(16), \A i \in 0 .. 15 : stream[at + 1 + i] = x[i]
    PROVE  Carries(PutWord(b, x), "lsb", stream, at + 16)
<1> DEFINE lo == Low(x, 8)  hi == Shr(x, 8)  c == PutBits(b, lo, 8)
<1>1. /\ DOMAIN x = 0 .. 15 /\ \A i \in 0 .. 15 : x[i] \in Bit
      /\ MaxBits \in Nat /\ MaxBits >= 16
  BY WidthFacts, BlockAssumption DEF Word
<1>2. /\ DOMAIN lo = 0 .. 15 /\ DOMAIN hi = 0 .. 15
      /\ \A i \in 0 .. 15 : lo[i] = IF i < 8 THEN x[i] ELSE 0
      /\ \A i \in 0 .. 15 : hi[i] = IF i + 8 \in 0 .. 15 THEN x[i + 8] ELSE 0
  BY <1>1 DEF Low, Shr
<1>3. /\ \A i \in 0 .. 15 : lo[i] \in Bit /\ hi[i] \in Bit
      /\ \A i \in 0 .. 7 : lo[i] = x[i] /\ hi[i] = x[i + 8]
  BY <1>1, <1>2 DEF Bit
<1> HIDE DEF lo, hi
<1>4. Cast(lo, MaxBits) \in Word(MaxBits) /\ Cast(hi, MaxBits) \in Word(MaxBits)
  BY <1>2, <1>3 DEF Cast, Word, Bit
<1>5. \A i \in 0 .. 7 : /\ Cast(lo, MaxBits)[i] = x[i]
                        /\ Cast(hi, MaxBits)[i] = x[i + 8]
  <2>1. \A i \in 0 .. 7 : i \in 0 .. MaxBits - 1 /\ i \in 0 .. 15
    BY <1>1
  <2> QED BY <2>1, <1>2, <1>3 DEF Cast
<1>6. Carries(c, "lsb", stream, at + 8)
  <2>1. \A i \in 0 .. 8 - 1 : stream[at + 1 + i] = Cast(lo, MaxBits)[i]
    BY <1>5
  <2>2. 8 \in 1 .. 8
    OBVIOUS
  <2> QED BY <2>1, <2>2, <1>4, BitsPut
<1> HIDE DEF c
<1>7. Carries(PutBits(c, hi, 8), "lsb", stream, (at + 8) + 8)
  <2>1. ASSUME NEW i \in 0 .. 8 - 1
        PROVE  stream[(at + 8) + 1 + i] = Cast(hi, MaxBits)[i]
    <3>1. i \in 0 .. 7 /\ i + 8 \in 0 .. 15 /\ (at + 8) + 1 + i = at + 1 + (i + 8)
      OBVIOUS
    <3> QED BY <3>1, <1>5
  <2>2. 8 \in 1 .. 8 /\ at + 8 \in Nat
    OBVIOUS
  <2> HIDE DEF PutBits
  <2> QED BY <2>1, <2>2, <1>4, <1>6, BitsPut
<1> QED BY <1>7 DEF PutWord, c, lo, hi

---------------------------------------------------------------------------
\* The initial state and the steps of the encoder.

LEMMA IInvInit == Init => IInv
<1> SUFFICES ASSUME Init PROVE IInv
  OBVIOUS
<1>1. /\ build \in {"debug", "release"} /\ literal \in Literals /\ final \in Bit
      /\ br = bs_reader_init(<< >>) /\ pc = "put_header"
      /\ block = [is_final |-> 0, len |-> Zero(16), data |-> << >>]
  BY DEF Init
<1>2. PICK n \in Capacities : bw = bs_writer_init(Memory(n))
  BY DEF Init
<1>3. Memory(n) \in Seq(Byte)
  <2>1. n \in Nat
    BY BlockAssumption
  <2>2. Zero(8) \in Byte
    BY DEF Zero, Byte, Word, Bit
  <2> QED BY <2>1, <2>2 DEF Memory
<1>4. Carries(bw, "lsb", Stream, 0)
  BY <1>2, <1>3, OpenedCarries
<1>5. GoodLsb(br)
  <2>1. << >> \in Seq(Byte)
    OBVIOUS
  <2> QED BY <2>1, <1>1, OpenedGood
<1>6. block \in Blocks /\ block.data = << >>
  <2>1. Zero(16) \in Word(16) /\ 0 \in Bit /\ << >> \in Seq(Byte)
    BY DEF Zero, Word, Bit
  <2> QED BY <2>1, <1>1 DEF Blocks
<1>7. pc \in Encoder /\ pc \notin Decoder
  BY <1>1 DEF Encoder, Decoder
<1>8. Encoding
  BY <1>1, <1>4, <1>6 DEF Encoding, Before
<1>9. Within(bw)
  BY <1>4 DEF Carries, Good
<1>10. OnWire /\ InStep /\ Decoded
  BY <1>1 DEF OnWire, InStep, Decoded, Decoder
<1>11. AllOrNothing /\ AbortsWhenTooSmall
  BY <1>1, <1>6 DEF AllOrNothing, AbortsWhenTooSmall
<1> QED BY <1>1, <1>5, <1>6, <1>7, <1>8, <1>9, <1>10, <1>11 DEF IInv

\* A part of the block is put.
LEMMA PartPut ==
    ASSUME IInv, pc \in Encoder, pc' \in Encoder,
           UNCHANGED << build, literal, final, br, block >>,
           Carries(bw', "lsb", Stream, Before(pc'))
    PROVE  IInv'
<1>1. /\ build' = build /\ literal' = literal /\ final' = final /\ br' = br
      /\ block' = block /\ Stream' = Stream /\ block.data = << >>
  BY DEF Stream, IInv, Encoding
<1>2. /\ build \in {"debug", "release"} /\ literal \in Literals
      /\ final \in Bit /\ GoodLsb(br) /\ block \in Blocks
  BY DEF IInv
<1>3. pc' \notin Decoder /\ pc' # "aborted"
      /\ pc' \notin {"get_header", "get_padding", "get_lengths", "get_literal",
                     "verify", "done"}
  BY DEF Encoder, Decoder
<1>4. Encoding'
  BY <1>1 DEF Encoding
<1>5. Within(bw')
  BY DEF Carries, Good
<1>6. OnWire' /\ InStep' /\ Decoded'
  BY <1>3 DEF OnWire, InStep, Decoded, Decoder
<1>7. AllOrNothing' /\ AbortsWhenTooSmall'
  BY <1>1, <1>3 DEF AllOrNothing, AbortsWhenTooSmall, Encoder
<1> QED BY <1>1, <1>2, <1>4, <1>5, <1>6, <1>7 DEF IInv

LEMMA PutHeaderKeeps == ASSUME IInv, PutHeader PROVE IInv'
<1>1. /\ pc = "put_header" /\ pc' = "put_padding"
      /\ bw' = PutBits(PutBits(bw, [i \in {0} |-> final], 1), Zero(8), 2)
      /\ UNCHANGED << build, literal, final, br, block >>
  BY DEF PutHeader
<1>2. pc \in Encoder /\ pc' \in Encoder /\ Before(pc) = 0 /\ Before(pc') = 3
  BY <1>1 DEF Encoder, Before
<1>3. Carries(bw, "lsb", Stream, 0) /\ literal \in Literals /\ final \in Bit
  BY <1>2 DEF IInv, Encoding
<1>4. Stream[1] = final /\ \A j \in 2 .. 8 : Stream[j] = 0
  BY <1>3, StreamParts
<1>5. MaxBits \in Nat /\ MaxBits >= 16
  BY WidthFacts, BlockAssumption
<1> DEFINE flag == [i \in {0} |-> final]  none == Zero(8)
           c == PutBits(bw, flag, 1)
<1>6. /\ Cast(flag, MaxBits) \in Word(MaxBits) /\ Cast(none, MaxBits) \in Word(MaxBits)
      /\ Cast(flag, MaxBits)[0] = final
      /\ Cast(none, MaxBits)[0] = 0 /\ Cast(none, MaxBits)[1] = 0
  BY <1>3, <1>5 DEF Cast, Word, Bit, Zero
<1> HIDE DEF flag, none
<1>7. Carries(c, "lsb", Stream, 0 + 1)
  <2>1. \A i \in 0 .. 1 - 1 : Stream[0 + 1 + i] = Cast(flag, MaxBits)[i]
    <3> TAKE i \in 0 .. 1 - 1
    <3>1. i = 0 /\ 0 + 1 + i = 1
      OBVIOUS
    <3> QED BY <3>1, <1>4, <1>6
  <2>2. 1 \in 1 .. 8 /\ 0 \in Nat
    OBVIOUS
  <2> QED BY <2>1, <2>2, <1>3, <1>6, BitsPut
<1> HIDE DEF c
<1>8. Carries(PutBits(c, none, 2), "lsb", Stream, 1 + 2)
  <2>1. \A i \in 0 .. 2 - 1 : Stream[1 + 1 + i] = Cast(none, MaxBits)[i]
    <3> TAKE i \in 0 .. 2 - 1
    <3>1. i \in {0, 1} /\ 1 + 1 + i \in 2 .. 8
      OBVIOUS
    <3> QED BY <3>1, <1>4, <1>6
  <2>2. 2 \in 1 .. 8 /\ 1 \in Nat /\ Carries(c, "lsb", Stream, 1)
    BY <1>7
  <2> QED BY <2>1, <2>2, <1>6, BitsPut
<1>9. Carries(bw', "lsb", Stream, Before(pc'))
  BY <1>1, <1>2, <1>8 DEF c, none, flag
<1> QED BY <1>1, <1>2, <1>9, PartPut

LEMMA PutPaddingKeeps == ASSUME IInv, PutPadding PROVE IInv'
<1>1. /\ pc = "put_padding" /\ pc' = "put_lengths"
      /\ bw' = bs_writer_align_lsb(bw, "masked")
      /\ UNCHANGED << build, literal, final, br, block >>
  BY DEF PutPadding
<1>2. pc \in Encoder /\ pc' \in Encoder /\ Before(pc) = 3 /\ Before(pc') = 8
  BY <1>1 DEF Encoder, Before
<1>3. Carries(bw, "lsb", Stream, 3) /\ literal \in Literals /\ final \in Bit
  BY <1>2 DEF IInv, Encoding
<1>4. \A j \in 2 .. 8 : Stream[j] = 0
  BY <1>3, StreamParts
<1>5. Good(bw) /\ Size(bw) = 3
  <2>1. Good(bw) /\ Len(bw.buffer) \in Nat
    BY <1>3, WriterFields DEF Carries, Good
  <2> QED BY <2>1, <1>3 DEF Carries
<1>6. Keeps(bw, bw') /\ Longer(bw, bw', "lsb", PadOf(bw))
  BY <1>1, <1>5, AlignDrains, AlignLonger DEF Drains
<1>7. PadOf(bw) = [j \in 1 .. 5 |-> 0]
  BY <1>5 DEF PadOf
<1>8. /\ PadOf(bw) \in Seq(Bit) /\ Len(PadOf(bw)) = 5
      /\ \A j \in 1 .. 5 : PadOf(bw)[j] = 0
  BY <1>7 DEF Bit
<1>9. \A j \in 1 .. Len(PadOf(bw)) : PadOf(bw)[j] = Stream[3 + j]
  <2> TAKE j \in 1 .. Len(PadOf(bw))
  <2>1. j \in 1 .. 5 /\ 3 + j \in 2 .. 8
    BY <1>8
  <2> QED BY <2>1, <1>4, <1>8
<1>10. Carries(bw', "lsb", Stream, 3 + 5)
  <2>1. 3 \in Nat
    OBVIOUS
  <2> QED BY <2>1, <1>3, <1>6, <1>8, <1>9, CarriesMore
<1>11. Carries(bw', "lsb", Stream, Before(pc'))
  BY <1>2, <1>10
<1> QED BY <1>1, <1>2, <1>11, PartPut

LEMMA PutLengthsKeeps == ASSUME IInv, PutLengths PROVE IInv'
<1> DEFINE x == LenWord(literal)  y == Complement(x)  c == PutWord(bw, x)
<1>1. /\ pc = "put_lengths" /\ pc' = "put_literal" /\ bw' = PutWord(c, y)
      /\ UNCHANGED << build, literal, final, br, block >>
  BY DEF PutLengths
<1>2. pc \in Encoder /\ pc' \in Encoder /\ Before(pc) = 8 /\ Before(pc') = 40
  BY <1>1 DEF Encoder, Before
<1>3. Carries(bw, "lsb", Stream, 8) /\ literal \in Literals /\ final \in Bit
  BY <1>2 DEF IInv, Encoding
<1>4. /\ x \in Word(16) /\ y \in Word(16)
      /\ \A i \in 0 .. 15 : Stream[9 + i] = x[i]
      /\ \A i \in 0 .. 15 : Stream[25 + i] = y[i]
  BY <1>3, StreamParts
<1> HIDE DEF x, y
<1>5. Carries(c, "lsb", Stream, 8 + 16)
  <2>1. 8 \in Nat /\ \A i \in 0 .. 15 : Stream[8 + 1 + i] = x[i]
    BY <1>4
  <2> QED BY <2>1, <1>3, <1>4, WordPut
<1> HIDE DEF c
<1>6. Carries(PutWord(c, y), "lsb", Stream, 24 + 16)
  <2>1. 24 \in Nat /\ \A i \in 0 .. 15 : Stream[24 + 1 + i] = y[i]
    BY <1>4
  <2>2. Carries(c, "lsb", Stream, 24)
    BY <1>5
  <2> QED BY <2>1, <2>2, <1>4, WordPut
<1>7. Carries(bw', "lsb", Stream, Before(pc'))
  BY <1>1, <1>2, <1>6
<1> QED BY <1>1, <1>2, <1>7, PartPut

\* The literal is copied if the whole block fits; otherwise the memory holds
\* what fitted of the five bytes before it, and the copy is refused.
LEMMA LiteralCopied ==
    ASSUME literal \in Literals, final \in Bit, Carries(bw, "lsb", Stream, 40)
    PROVE  LET d == bs_write_bytes(bw, literal)  w == WireOf(d) IN
           /\ can_write_bytes(bw, literal) <=> BlockFits
           /\ Good(d) /\ Len(d.buffer) = Len(bw.buffer)
           /\ BlockFits => ~ d.overflow
           /\ w \in Seq(Byte)
           /\ Len(w) = IF BlockFits THEN 5 + Len(literal)
                       ELSE MinOf(Len(bw.buffer), 5)
           /\ \A j \in 1 .. 8 * Len(w) : StreamBit(w, "lsb", j - 1) = Stream[j]
<1> DEFINE d == bs_write_bytes(bw, literal)  cap == Len(bw.buffer)
           n == Len(literal)  copy == CopyOf("lsb", literal)
           can == can_write_bytes(bw, literal)
<1>1. /\ literal \in Seq(Byte) /\ n \in Nat
      /\ \A j \in 1 .. 8 * n : Stream[40 + j] = copy[j]
  BY StreamParts
<1>2. /\ Good(bw) /\ Within(bw) /\ cap \in Nat /\ bw.byte_pos \in Nat
      /\ bw.byte_pos <= cap /\ bw.bits_in_cache \in Nat /\ bw \in Writers
      /\ bw.overflow \in BOOLEAN
  BY WriterFields DEF Carries, Good
<1>3. /\ bw.overflow <=> 40 >= 8 * (cap + 1)
      /\ Size(bw) = IF bw.overflow THEN 8 * cap ELSE 40
      /\ \A j \in 1 .. Size(bw) : BitAt(bw, "lsb", j) = Stream[j]
  BY DEF Carries
<1>4. BlockFits <=> 5 + n <= cap
  BY DEF BlockFits
<1>5. /\ Size(bw) = IF Full(bw) THEN 8 * bw.byte_pos
                    ELSE 8 * bw.byte_pos + bw.bits_in_cache
      /\ ~ Full(bw) => bw.bits_in_cache < 8
  BY <1>2 DEF Size, Good, Fits
<1>6. Keeps(bw, d)
  BY <1>1, <1>2, WriteBytesKeeps
<1>7. Good(d) /\ Within(d) /\ Len(d.buffer) = cap
  BY <1>6 DEF Keeps, Appends, Good
<1>8. can <=> Size(bw) % 8 = 0 /\ ~ bw.overflow /\ Size(bw) + 8 * n <= 8 * cap
  BY <1>1, <1>2, CopyGuards
<1>9. can <=> BlockFits
  <2> HIDE DEF can, cap, n
  <2>1. CASE bw.overflow
    BY <2>1, <1>1, <1>2, <1>3, <1>4, <1>8
  <2>2. CASE ~ bw.overflow
    BY <2>2, <1>1, <1>2, <1>3, <1>4, <1>8
  <2> QED BY <2>1, <2>2
<1>10. LET w == WireOf(d) IN
       /\ w \in Seq(Byte) /\ Len(w) = d.byte_pos
       /\ \A j \in 1 .. 8 * d.byte_pos :
            StreamBit(w, "lsb", j - 1) = BitAt(d, "lsb", j)
  BY <1>7, WireBits
<1>11. /\ d.byte_pos = IF BlockFits THEN 5 + n ELSE MinOf(cap, 5)
       /\ BlockFits => ~ d.overflow
       /\ \A j \in 1 .. 8 * d.byte_pos : BitAt(d, "lsb", j) = Stream[j]
  <2>1. CASE BlockFits
    <3>1. can /\ bw.bits_in_cache = 0 /\ ~ bw.overflow
      BY <2>1, <1>9 DEF can_write_bytes
    <3>2. bw.byte_pos = 5 /\ Size(bw) = 40
      BY <3>1, <1>2, <1>3, <1>5 DEF Full
    <3>3. d.byte_pos = 5 + n
      <4>1. d = [bw EXCEPT !.buffer = Store(bw, n, literal),
                           !.byte_pos = bw.byte_pos + n]
        BY <3>1 DEF bs_write_bytes
      <4>2. d.byte_pos = bw.byte_pos + n
        BY <4>1, <1>2, Rewritten
      <4> QED BY <4>2, <3>2
    <3>4. ~ d.overflow /\ KeptOf(d, "lsb") = KeptOf(bw, "lsb") \o copy
      BY <3>1, <1>1, <1>2, CopyLonger
    <3>5. /\ KeptOf(bw, "lsb") \in Seq(Bit) /\ Len(KeptOf(bw, "lsb")) = 40
          /\ copy \in Seq(Bit) /\ Len(copy) = 8 * n
          /\ Len(KeptOf(d, "lsb")) = Size(d)
      BY <1>1, <1>2, <1>7, <3>2, KeptBits, CopyBits
    <3>6. /\ \A j \in 1 .. 40 : KeptOf(bw, "lsb")[j] = BitAt(bw, "lsb", j)
          /\ \A j \in 1 .. Size(d) : KeptOf(d, "lsb")[j] = BitAt(d, "lsb", j)
      BY <3>2 DEF KeptOf
    <3> DEFINE s == KeptOf(bw, "lsb")
    <3> HIDE DEF copy, s, n, d
    <3>7. /\ Len(s \o copy) = 40 + 8 * n /\ Size(d) = 40 + 8 * n
          /\ \A i \in 1 .. 40 + 8 * n :
                (s \o copy)[i] = IF i <= 40 THEN s[i] ELSE copy[i - 40]
      <4>1. /\ s \in Seq(Bit) /\ Len(s) = 40
            /\ copy \in Seq(Bit) /\ Len(copy) = 8 * n
        BY <3>5 DEF s
      <4>2. /\ Len(s \o copy) = Len(s) + Len(copy)
            /\ \A i \in 1 .. Len(s) + Len(copy) :
                (s \o copy)[i] = IF i <= Len(s) THEN s[i] ELSE copy[i - Len(s)]
        <5>1. s \in Seq(Bit) /\ copy \in Seq(Bit)
          BY <4>1
        <5> QED BY <5>1, ConcatProperties, SMTT(30)
      <4>3. Size(d) = Len(s \o copy)
        BY <3>4, <3>5 DEF s
      <4> QED BY <4>1, <4>2, <4>3
    <3>8. ASSUME NEW j \in 1 .. 8 * (5 + n)
          PROVE  BitAt(d, "lsb", j) = Stream[j]
      <4>1. j \in 1 .. Size(d) /\ j \in 1 .. 40 + 8 * n
        BY <3>7, <1>1
      <4>2. BitAt(d, "lsb", j) = (s \o copy)[j]
        BY <4>1, <3>4, <3>6 DEF s
      <4>3. CASE j <= 40
        <5>1. (s \o copy)[j] = s[j] /\ j \in 1 .. 40
          BY <4>1, <4>3, <3>7, <1>1
        <5> QED BY <5>1, <4>2, <3>2, <3>6, <1>3 DEF s
      <4>4. CASE j > 40
        <5>1. (s \o copy)[j] = copy[j - 40] /\ j - 40 \in 1 .. 8 * n
              /\ 40 + (j - 40) = j
          BY <4>1, <4>4, <3>7, <1>1
        <5> QED BY <5>1, <4>2, <1>1
      <4> QED BY <4>1, <4>3, <4>4
    <3> QED BY <2>1, <3>3, <3>4, <3>8
  <2>2. CASE ~ BlockFits
    <3>1. ~ can
      BY <2>2, <1>9
    <3>2. /\ d = IF bw.bits_in_cache = 0 THEN [bw EXCEPT !.overflow = TRUE]
                 ELSE bw
      BY <3>1 DEF bs_write_bytes
    <3>3. /\ d.byte_pos = bw.byte_pos /\ d.buffer = bw.buffer
          /\ d.bit_cache = bw.bit_cache /\ d.bits_in_cache = bw.bits_in_cache
      BY <3>2, <1>2 DEF Writers
    <3>4. bw.byte_pos = MinOf(cap, 5) /\ 8 * bw.byte_pos <= Size(bw)
      <4> HIDE DEF cap
      <4>1. CASE bw.overflow
        BY <4>1, <1>2, <1>3, <1>5 DEF MinOf, Full, cap
      <4>2. CASE ~ bw.overflow
        BY <4>2, <1>2, <1>3, <1>5 DEF MinOf, Full
      <4> QED BY <4>1, <4>2
    <3>5. \A j \in 1 .. 8 * d.byte_pos :
            BitAt(d, "lsb", j) = BitAt(bw, "lsb", j) /\ j \in 1 .. Size(bw)
      <4>1. Size(bw) \in Nat
        BY <1>2, KeptBits
      <4> QED BY <4>1, <3>3, <3>4, <1>2 DEF BitAt
    <3> QED BY <2>2, <3>3, <3>4, <3>5, <1>3
  <2> QED BY <2>1, <2>2
<1> HIDE DEF d, n, cap
<1> QED BY <1>7, <1>9, <1>10, <1>11 DEF d, n, cap

LEMMA PutLiteralKeeps == ASSUME IInv, PutLiteral PROVE IInv'
<1> DEFINE d == bs_write_bytes(bw, literal)  w == WireOf(d)
<1>1. /\ pc = "put_literal" /\ bw' = d /\ br' = bs_reader_init(w)
      /\ pc' = IF build = "debug"
                  /\ ~ (can_write_bytes(bw, literal) /\ ~ d.overflow)
               THEN "aborted" ELSE "get_header"
      /\ UNCHANGED << build, literal, final, block >>
  BY DEF PutLiteral, AssertThen, WireOf
<1>2. pc \in Encoder /\ Before(pc) = 40
  BY <1>1 DEF Encoder, Before
<1>3. /\ Carries(bw, "lsb", Stream, 40) /\ block.data = << >>
      /\ literal \in Literals /\ final \in Bit
      /\ build \in {"debug", "release"} /\ block \in Blocks
  BY <1>2 DEF IInv, Encoding
<1>4. /\ can_write_bytes(bw, literal) <=> BlockFits
      /\ Good(d) /\ Len(d.buffer) = Len(bw.buffer)
      /\ BlockFits => ~ d.overflow
      /\ w \in Seq(Byte)
      /\ Len(w) = IF BlockFits THEN 5 + Len(literal)
                  ELSE MinOf(Len(bw.buffer), 5)
      /\ \A j \in 1 .. 8 * Len(w) : StreamBit(w, "lsb", j - 1) = Stream[j]
  BY <1>3, LiteralCopied
<1>5. pc' = IF build = "debug" /\ ~ BlockFits THEN "aborted" ELSE "get_header"
  BY <1>1, <1>4
<1> HIDE DEF d, w
<1>6. GoodLsb(br') /\ br'.buffer = w /\ Position(br') = 0
  <2>1. GoodLsb(br') /\ br'.buffer = w
    BY <1>1, <1>4, OpenedGood
  <2> QED BY <2>1, <1>1 DEF bs_reader_init, Position
<1>7. BlockFits' <=> BlockFits
  BY <1>1, <1>4 DEF BlockFits
<1>8. Stream' = Stream
  BY <1>1 DEF Stream
<1>9. Within(bw')
  BY <1>1, <1>4 DEF Good
<1>10. pc' \in Decoder \cup {"aborted"} /\ pc' \notin Encoder
  BY <1>5 DEF Decoder, Encoder
<1>11. OnWire'
  BY <1>1, <1>4, <1>6, <1>7, <1>8 DEF OnWire
<1>12. InStep' /\ Decoded'
  <2>1. pc' \notin {"get_padding", "get_lengths", "get_literal", "verify", "done"}
        /\ pc' \notin Decoder \ {"get_header"}
    BY <1>5 DEF Decoder
  <2> QED BY <2>1, <1>6 DEF InStep, Decoded
<1>13. Encoding' /\ AllOrNothing'
  BY <1>1, <1>3, <1>10 DEF Encoding, AllOrNothing
<1>14. AbortsWhenTooSmall'
  BY <1>1, <1>3, <1>5, <1>7 DEF AbortsWhenTooSmall
<1> QED BY <1>1, <1>3, <1>6, <1>9, <1>10, <1>11, <1>12, <1>13, <1>14 DEF IInv

---------------------------------------------------------------------------
\* What the decoder's calls do.

\* Bits got are those at the reader's position, or zeros.
LEMMA BitsGot ==
    ASSUME NEW b, GoodLsb(b), NEW n \in 1 .. 8
    PROVE  LET res  == GetBits(b, n)
               at   == Position(b)
               size == 8 * Len(b.buffer)
           IN
           /\ GoodLsb(res.bs) /\ res.bs.buffer = b.buffer
           /\ Position(res.bs) = IF at + n <= size THEN at + n ELSE at
           /\ res.ret.value \in Word(MaxBits)
           /\ \A i \in 0 .. MaxBits - 1 :
                res.ret.value[i] = IF at + n <= size /\ i < n
                                   THEN StreamBit(b.buffer, "lsb", at + i) ELSE 0
<1> DEFINE res == GetBits(b, n)  at == Position(b)  size == 8 * Len(b.buffer)
           fit == at + n <= size
<1>1. n \in 0 .. MaxBits
  BY WidthFacts
<1>2. KeepsLsb(b, res) /\ (Takes(b, "lsb", n, res) \/ Refuses(b, n, res))
  BY <1>1, LsbCallsKeep, LsbCallsMeet DEF GetBits
<1>3. /\ GoodLsb(res.bs) /\ res.bs.buffer = b.buffer
      /\ res.ret.value \in Word(MaxBits)
  BY <1>2 DEF KeepsLsb, RetType
<1>4. at \in Int /\ size \in Nat /\ bs_reader_bits_left(b) = size - at
  <2>1. b.byte_pos \in Nat /\ b.bits_in_cache \in Nat /\ Len(b.buffer) \in Nat
    BY WidthFacts DEF GoodLsb, Bounded, Readers
  <2>2. bs_reader_bits_left(b) = size - at
    BY BitsLeft DEF GoodLsb
  <2> QED BY <2>1, <2>2 DEF Position
<1>5. /\ fit => ~ (n > bs_reader_bits_left(b))
      /\ ~ fit => ~ (n <= bs_reader_bits_left(b))
  BY <1>4
<1> HIDE DEF res, at, size, fit
<1>6. CASE fit
  <2>1. Takes(b, "lsb", n, res)
    BY <1>2, <1>5, <1>6 DEF Refuses
  <2>2. Position(res.bs) = at + n
        /\ res.ret.value = [i \in 0 .. MaxBits - 1 |->
                IF i < n THEN StreamBit(b.buffer, "lsb", at + i) ELSE 0]
    BY <2>1 DEF Takes, Value, Ret, Field, FieldOffset, at
  <2> QED BY <2>2, <1>3, <1>6 DEF res, at, size, fit
<1>7. CASE ~ fit
  <2>1. Refuses(b, n, res)
    BY <1>2, <1>5, <1>7 DEF Takes
  <2>2. Position(res.bs) = at /\ res.ret.value = Zero(MaxBits)
    BY <2>1 DEF Refuses, Nothing, Ret, at
  <2> QED BY <2>2, <1>3, <1>7 DEF res, at, size, fit, Zero
<1> QED BY <1>6, <1>7

\* A reader that has got the bytes before byte p of a block, or all there are.
ByteAt(b, p) == GoodLsb(b) /\ Position(b) = 8 * MinOf(p, Len(b.buffer))

LEMMA ByteGot ==
    ASSUME NEW b, NEW p \in Nat, ByteAt(b, p)
    PROVE  LET res == GetBits(b, 8) IN
           /\ ByteAt(res.bs, p + 1) /\ res.bs.buffer = b.buffer
           /\ res.ret.value \in Word(MaxBits)
           /\ \A i \in 0 .. MaxBits - 1 :
                res.ret.value[i] = IF p < Len(b.buffer) /\ i < 8
                                   THEN StreamBit(b.buffer, "lsb", 8 * p + i)
                                   ELSE 0
<1> DEFINE res == GetBits(b, 8)  at == Position(b)  L == Len(b.buffer)
           fit == at + 8 <= 8 * L
<1>1. GoodLsb(b) /\ at = 8 * MinOf(p, L) /\ L \in Nat
  BY DEF ByteAt, GoodLsb, Bounded, Readers
<1>2. /\ GoodLsb(res.bs) /\ res.bs.buffer = b.buffer
      /\ Position(res.bs) = IF fit THEN at + 8 ELSE at
      /\ res.ret.value \in Word(MaxBits)
      /\ \A i \in 0 .. MaxBits - 1 :
            res.ret.value[i] = IF fit /\ i < 8
                               THEN StreamBit(b.buffer, "lsb", at + i) ELSE 0
  <2>1. 8 \in 1 .. 8
    OBVIOUS
  <2> QED BY <2>1, <1>1, BitsGot
<1> HIDE DEF res, at, L
<1>3. (fit <=> p < L) /\ (fit => at = 8 * p)
  BY <1>1 DEF MinOf
<1>4. Position(res.bs) = 8 * MinOf(p + 1, L)
  BY <1>1, <1>2, <1>3 DEF MinOf
<1>5. ByteAt(res.bs, p + 1)
  BY <1>2, <1>4 DEF ByteAt, L
<1> HIDE DEF fit
<1> QED BY <1>2, <1>3, <1>5 DEF res, L

LEMMA WordGot ==
    ASSUME NEW b, NEW p \in Nat, ByteAt(b, p)
    PROVE  LET g == GetWord(b) IN
           /\ ByteAt(g.bs, p + 2) /\ g.bs.buffer = b.buffer
           /\ g.word \in Word(16)
           /\ p + 2 <= Len(b.buffer) =>
                \A i \in 0 .. 15 :
                    g.word[i] = StreamBit(b.buffer, "lsb", 8 * p + i)
<1> DEFINE lo == GetBits(b, 8)  hi == GetBits(lo.bs, 8)  g == GetWord(b)
           x == lo.ret.value  y == hi.ret.value
<1>1. /\ ByteAt(lo.bs, p + 1) /\ lo.bs.buffer = b.buffer
      /\ x \in Word(MaxBits)
      /\ \A i \in 0 .. MaxBits - 1 :
            x[i] = IF p < Len(b.buffer) /\ i < 8
                   THEN StreamBit(b.buffer, "lsb", 8 * p + i) ELSE 0
  BY ByteGot
<1>2. g.bs = hi.bs /\ g.word = Cast(Or(x, Shl(y, 8)), 16)
  BY DEF GetWord
<1> HIDE DEF lo, x
<1>3. /\ ByteAt(hi.bs, (p + 1) + 1) /\ hi.bs.buffer = b.buffer
      /\ y \in Word(MaxBits)
      /\ \A i \in 0 .. MaxBits - 1 :
            y[i] = IF p + 1 < Len(b.buffer) /\ i < 8
                   THEN StreamBit(b.buffer, "lsb", 8 * (p + 1) + i) ELSE 0
  <2>1. p + 1 \in Nat /\ ByteAt(lo.bs, p + 1) /\ lo.bs.buffer = b.buffer
    BY <1>1
  <2> QED BY <2>1, ByteGot, SMTT(30)
<1> HIDE DEF hi, y, g
<1>4. ByteAt(g.bs, p + 2) /\ g.bs.buffer = b.buffer
  <2>1. (p + 1) + 1 = p + 2
    OBVIOUS
  <2> QED BY <2>1, <1>2, <1>3
<1>5. MaxBits \in Nat /\ MaxBits >= 16
  BY WidthFacts, BlockAssumption
<1>6. \A i \in 0 .. MaxBits - 1 : x[i] \in Bit /\ y[i] \in Bit
  BY <1>1, <1>3 DEF Word
<1>7. DOMAIN x = 0 .. MaxBits - 1 /\ DOMAIN y = 0 .. MaxBits - 1
  BY <1>1, <1>3 DEF Word
<1>8. /\ g.word = [i \in 0 .. 15 |-> Or(x, Shl(y, 8))[i]]
      /\ \A i \in 0 .. 15 : i \in 0 .. MaxBits - 1
  <2>1. DOMAIN Or(x, Shl(y, 8)) = 0 .. MaxBits - 1
    BY <1>7 DEF Or
  <2>2. \A i \in 0 .. 15 : i \in 0 .. MaxBits - 1
    BY <1>5
  <2> DEFINE z == Or(x, Shl(y, 8))
  <2> HIDE DEF z
  <2>3. Cast(z, 16) = [i \in 0 .. 15 |-> z[i]]
    <3>1. 16 - 1 = 15
      OBVIOUS
    <3> QED BY <3>1, <2>1, <2>2 DEF Cast, z
  <2> QED BY <2>2, <2>3, <1>2 DEF z
<1>9. ASSUME NEW i \in 0 .. 15
      PROVE  Or(x, Shl(y, 8))[i]
               = IF x[i] = 1 THEN 1 ELSE IF i < 8 THEN 0 ELSE y[i - 8]
  <2>1. i \in 0 .. MaxBits - 1
    BY <1>8
  <2> QED BY <2>1, <1>7 DEF Or, Shl
<1>10. g.word \in Word(16)
  <2>1. \A i \in 0 .. 15 : i < 8 \/ i - 8 \in 0 .. MaxBits - 1
    BY <1>5
  <2>2. \A i \in 0 .. 15 : Or(x, Shl(y, 8))[i] \in Bit
    BY <2>1, <1>6, <1>9 DEF Bit
  <2> QED BY <2>2, <1>8 DEF Word
<1>11. ASSUME p + 2 <= Len(b.buffer), NEW i \in 0 .. 15
       PROVE  g.word[i] = StreamBit(b.buffer, "lsb", 8 * p + i)
  <2>1. /\ p < Len(b.buffer) /\ p + 1 < Len(b.buffer)
        /\ i \in 0 .. MaxBits - 1
        /\ g.word[i] = IF x[i] = 1 THEN 1 ELSE IF i < 8 THEN 0 ELSE y[i - 8]
    <3>1. Len(b.buffer) \in Nat
      BY DEF ByteAt, GoodLsb, Bounded, Readers
    <3>2. p < Len(b.buffer) /\ p + 1 < Len(b.buffer)
      BY <3>1, <1>11
    <3>3. g.word[i] = Or(x, Shl(y, 8))[i]
      BY <1>8
    <3> QED BY <3>2, <3>3, <1>8, <1>9
  <2>2. CASE i < 8
    BY <2>1, <2>2, <1>1, <1>6 DEF Bit
  <2>3. CASE ~ (i < 8)
    <3>1. i - 8 \in 0 .. MaxBits - 1 /\ i - 8 < 8 /\ 8 * (p + 1) + (i - 8) = 8 * p + i
      BY <2>3, <1>5
    <3>2. x[i] = 0
      BY <2>1, <2>3, <1>1
    <3>3. y[i - 8] = StreamBit(b.buffer, "lsb", 8 * (p + 1) + (i - 8))
      BY <3>1, <2>1, <1>3
    <3> QED BY <2>1, <2>3, <3>1, <3>2, <3>3
  <2> QED BY <2>2, <2>3
<1> QED BY <1>4, <1>10, <1>11 DEF g

---------------------------------------------------------------------------
\* The steps of the decoder.

\* The wire, whole or cut.
LEMMA WireSize ==
    ASSUME IInv, pc \in Decoder
    PROVE  /\ literal \in Seq(Byte) /\ Len(literal) \in Nat
           /\ final \in Bit /\ literal \in Literals
           /\ GoodLsb(br) /\ br.buffer \in Seq(Byte) /\ Len(br.buffer) \in Nat
           /\ Len(br.buffer) = IF BlockFits THEN 5 + Len(literal)
                               ELSE MinOf(Len(bw.buffer), 5)
           /\ ~ BlockFits => Len(br.buffer) <= 5
           /\ \A j \in 1 .. 8 * Len(br.buffer) :
                StreamBit(br.buffer, "lsb", j - 1) = Stream[j]
           /\ block \in Blocks
           /\ build = "debug" => BlockFits
<1>1. /\ literal \in Literals /\ final \in Bit /\ GoodLsb(br) /\ block \in Blocks
      /\ OnWire /\ AbortsWhenTooSmall /\ Within(bw)
  BY DEF IInv
<1>2. literal \in Seq(Byte) /\ Len(literal) \in Nat
  BY <1>1, StreamParts
<1>3. br.buffer \in Seq(Byte) /\ Len(br.buffer) \in Nat
  BY <1>1 DEF GoodLsb, Bounded, Readers
<1>4. /\ Len(br.buffer) = IF BlockFits THEN 5 + Len(literal)
                          ELSE MinOf(Len(bw.buffer), 5)
      /\ \A j \in 1 .. 8 * Len(br.buffer) :
            StreamBit(br.buffer, "lsb", j - 1) = Stream[j]
  BY <1>1 DEF OnWire
<1>5. ~ BlockFits => Len(br.buffer) <= 5
  <2>1. Len(bw.buffer) \in Nat
    BY <1>1, WriterFields
  <2> QED BY <2>1, <1>4 DEF MinOf
<1>6. build = "debug" => BlockFits
  BY <1>1 DEF AbortsWhenTooSmall, Decoder
<1> QED BY <1>1, <1>2, <1>3, <1>4, <1>5, <1>6

\* A part of the block is read.
LEMMA PartGot ==
    ASSUME IInv, pc \in Decoder, pc' \in Decoder,
           UNCHANGED << build, literal, final, bw >>,
           GoodLsb(br'), br'.buffer = br.buffer, block' \in Blocks,
           InStep', Decoded', AllOrNothing'
    PROVE  IInv'
<1>1. /\ build' = build /\ literal' = literal /\ final' = final /\ bw' = bw
      /\ Stream' = Stream /\ (BlockFits' <=> BlockFits)
  BY DEF Stream, BlockFits
<1>2. /\ build \in {"debug", "release"} /\ literal \in Literals
      /\ final \in Bit /\ Within(bw)
  BY DEF IInv
<1>3. pc' \notin Encoder /\ pc' # "aborted"
  BY DEF Encoder, Decoder
<1>4. Encoding'
  BY <1>3 DEF Encoding
<1>5. OnWire'
  BY <1>1, WireSize DEF OnWire
<1>6. AbortsWhenTooSmall'
  BY <1>1, <1>3, WireSize DEF AbortsWhenTooSmall
<1> QED BY <1>1, <1>2, <1>4, <1>5, <1>6 DEF IInv

LEMMA GetHeaderKeeps == ASSUME IInv, GetHeader PROVE IInv'
<1> DEFINE f == GetBits(br, 1)  t == GetBits(f.bs, 2)  L == Len(br.buffer)
<1>1. /\ pc = "get_header" /\ br' = t.bs
      /\ block' = [block EXCEPT !.is_final = f.ret.value[0]]
      /\ pc' = IF build = "debug" /\ ~ (t.ret.value = Zero(MaxBits))
               THEN "aborted" ELSE "get_padding"
      /\ UNCHANGED << build, literal, final, bw >>
  BY DEF GetHeader, AssertThen
<1>2. pc \in Decoder
  BY <1>1 DEF Decoder
<1>3. /\ GoodLsb(br) /\ L \in Nat /\ block \in Blocks /\ final \in Bit
      /\ literal \in Literals /\ Len(literal) \in Nat
      /\ BlockFits => L = 5 + Len(literal)
      /\ \A j \in 1 .. 8 * L : StreamBit(br.buffer, "lsb", j - 1) = Stream[j]
  BY <1>2, WireSize
<1>4. Position(br) = 0
  BY <1>1 DEF IInv, InStep
<1>5. Stream[1] = final /\ \A j \in 2 .. 8 : Stream[j] = 0
  BY <1>3, StreamParts
<1>6. MaxBits \in Nat /\ MaxBits >= 16
  BY WidthFacts, BlockAssumption
<1>7. /\ GoodLsb(f.bs) /\ f.bs.buffer = br.buffer
      /\ Position(f.bs) = IF 0 + 1 <= 8 * L THEN 0 + 1 ELSE 0
      /\ f.ret.value \in Word(MaxBits)
      /\ \A i \in 0 .. MaxBits - 1 :
            f.ret.value[i] = IF 0 + 1 <= 8 * L /\ i < 1
                             THEN StreamBit(br.buffer, "lsb", 0 + i) ELSE 0
  <2>1. 1 \in 1 .. 8
    OBVIOUS
  <2> QED BY <2>1, <1>3, <1>4, BitsGot
<1> HIDE DEF f, L
<1>8. Position(f.bs) = IF L >= 1 THEN 1 ELSE 0
  BY <1>3, <1>7
<1>9. LET at == Position(f.bs) IN
       /\ GoodLsb(t.bs) /\ t.bs.buffer = br.buffer
       /\ Position(t.bs) = IF at + 2 <= 8 * L THEN at + 2 ELSE at
       /\ t.ret.value \in Word(MaxBits)
       /\ \A i \in 0 .. MaxBits - 1 :
            t.ret.value[i] = IF at + 2 <= 8 * L /\ i < 2
                             THEN StreamBit(br.buffer, "lsb", at + i) ELSE 0
  <2>1. 2 \in 1 .. 8
    OBVIOUS
  <2> QED BY <2>1, <1>7, BitsGot DEF L
<1> HIDE DEF t
<1>10. Position(t.bs) = MinOf(3, 8 * L)
  BY <1>3, <1>8, <1>9 DEF MinOf
<1>11. t.ret.value = Zero(MaxBits)
  <2>1. ASSUME NEW i \in 0 .. MaxBits - 1 PROVE t.ret.value[i] = 0
    <3>1. CASE L >= 1 /\ i < 2
      <4>1. /\ Position(f.bs) = 1 /\ i + 2 \in 1 .. 8 * L /\ i + 2 \in 2 .. 8
            /\ (i + 2) - 1 = 1 + i
        BY <3>1, <1>3, <1>6, <1>8
      <4>2. StreamBit(br.buffer, "lsb", 1 + i) = 0
        BY <4>1, <1>3, <1>5
      <4> QED BY <4>1, <4>2, <1>9
    <3>2. CASE ~ (L >= 1 /\ i < 2)
      BY <3>2, <1>3, <1>8, <1>9
    <3> QED BY <3>1, <3>2
  <2> QED BY <2>1, <1>9 DEF Word, Zero
<1>12. pc' = "get_padding"
  BY <1>1, <1>11
<1>13. L >= 1 => f.ret.value[0] = final
  <2>1. ASSUME L >= 1 PROVE f.ret.value[0] = final
    <3>1. 0 \in 0 .. MaxBits - 1 /\ 0 + 1 <= 8 * L /\ 1 \in 1 .. 8 * L /\ 0 + 0 = 1 - 1
      BY <2>1, <1>3, <1>6
    <3>2. f.ret.value[0] = StreamBit(br.buffer, "lsb", 1 - 1)
      BY <3>1, <1>7
    <3> QED BY <3>1, <3>2, <1>3, <1>5
  <2> QED BY <2>1
<1>14. f.ret.value[0] \in Bit
  BY <1>6, <1>7 DEF Word
<1>15. /\ block' \in Blocks /\ block'.is_final = f.ret.value[0]
       /\ block'.len = block.len /\ block'.data = block.data
  BY <1>1, <1>3, <1>14 DEF Blocks
<1>16. AllOrNothing'
  BY <1>1, <1>15 DEF IInv, AllOrNothing
<1>17. InStep'
  BY <1>1, <1>9, <1>10, <1>12 DEF InStep, L
<1>18. Decoded'
  <2>1. BlockFits' => BlockFits
    BY <1>1 DEF BlockFits
  <2>2. BlockFits => L >= 1
    BY <1>3
  <2> QED BY <2>1, <2>2, <1>1, <1>12, <1>13, <1>15 DEF Decoded
<1>19. pc' \in Decoder
  BY <1>12 DEF Decoder
<1> QED BY <1>1, <1>2, <1>9, <1>15, <1>16, <1>17, <1>18, <1>19, PartGot

LEMMA GetPaddingKeeps == ASSUME IInv, GetPadding PROVE IInv'
<1> DEFINE res == bs_reader_align_lsb(br)  L == Len(br.buffer)
<1>1. /\ pc = "get_padding" /\ pc' = "get_lengths" /\ br' = res.bs
      /\ UNCHANGED << build, literal, final, bw, block >>
  BY DEF GetPadding
<1>2. pc \in Decoder /\ pc' \in Decoder
  BY <1>1 DEF Decoder
<1>3. GoodLsb(br) /\ L \in Nat /\ block \in Blocks
  BY <1>2, WireSize
<1>4. Position(br) = MinOf(3, 8 * L)
  BY <1>1 DEF IInv, InStep
<1>5. KeepsLsb(br, res) /\ Aligns(br, res)
  <2>1. 0 \in 0 .. MaxBits
    BY WidthFacts
  <2> QED BY <2>1, <1>3, LsbCallsKeep, LsbCallsMeet
<1>6. GoodLsb(br') /\ br'.buffer = br.buffer
  BY <1>1, <1>5 DEF KeepsLsb
<1> HIDE DEF L
<1>7. Position(br') = MinOf(8, 8 * L)
  <2>1. Position(br') = 8 * ((MinOf(3, 8 * L) + 7) \div 8)
    BY <1>1, <1>4, <1>5 DEF Aligns
  <2> QED BY <2>1, <1>3 DEF MinOf
<1>8. InStep'
  BY <1>1, <1>6, <1>7 DEF InStep, L
<1>9. Decoded' /\ AllOrNothing'
  BY <1>1, <1>2 DEF IInv, Decoded, AllOrNothing, BlockFits
<1> QED BY <1>1, <1>2, <1>3, <1>6, <1>8, <1>9, PartGot

LEMMA GetLengthsKeeps == ASSUME IInv, GetLengths PROVE IInv'
<1> DEFINE len == GetWord(br)  nlen == GetWord(len.bs)  L == Len(br.buffer)
           x == LenWord(literal)
<1>1. /\ pc = "get_lengths" /\ br' = nlen.bs
      /\ block' = [block EXCEPT !.len = len.word]
      /\ pc' = IF build = "debug" /\ ~ (nlen.word = Complement(len.word))
               THEN "aborted" ELSE "get_literal"
      /\ UNCHANGED << build, literal, final, bw >>
  BY DEF GetLengths, AssertThen
<1>2. pc \in Decoder
  BY <1>1 DEF Decoder
<1>3. /\ GoodLsb(br) /\ L \in Nat /\ block \in Blocks /\ final \in Bit
      /\ literal \in Literals /\ Len(literal) \in Nat
      /\ BlockFits => L = 5 + Len(literal)
      /\ build = "debug" => BlockFits
      /\ \A j \in 1 .. 8 * L : StreamBit(br.buffer, "lsb", j - 1) = Stream[j]
  BY <1>2, WireSize
<1>4. Position(br) = MinOf(8, 8 * L)
  BY <1>1 DEF IInv, InStep
<1>5. /\ x \in Word(16) /\ Complement(x) \in Word(16)
      /\ \A i \in 0 .. 15 : Stream[9 + i] = x[i]
      /\ \A i \in 0 .. 15 : Stream[25 + i] = Complement(x)[i]
  BY <1>3, StreamParts
<1>6. ByteAt(br, 1)
  <2> HIDE DEF L
  <2>1. MinOf(8, 8 * L) = 8 * MinOf(1, L)
    BY <1>3 DEF MinOf
  <2> QED BY <2>1, <1>3, <1>4 DEF ByteAt, L
<1>7. /\ ByteAt(len.bs, 1 + 2) /\ len.bs.buffer = br.buffer
      /\ len.word \in Word(16)
      /\ 1 + 2 <= L => \A i \in 0 .. 15 :
            len.word[i] = StreamBit(br.buffer, "lsb", 8 * 1 + i)
  BY <1>6, WordGot
<1> HIDE DEF len
<1>8. /\ ByteAt(nlen.bs, 3 + 2) /\ nlen.bs.buffer = br.buffer
      /\ nlen.word \in Word(16)
      /\ 3 + 2 <= L => \A i \in 0 .. 15 :
            nlen.word[i] = StreamBit(br.buffer, "lsb", 8 * 3 + i)
  <2>1. ByteAt(len.bs, 3)
    BY <1>7
  <2> QED BY <2>1, <1>7, WordGot
<1> HIDE DEF nlen, L, x
<1>9. ASSUME L >= 5 PROVE len.word = x /\ nlen.word = Complement(x)
  <2>1. ASSUME NEW i \in 0 .. 15
        PROVE  len.word[i] = x[i] /\ nlen.word[i] = Complement(x)[i]
    <3>1. /\ 9 + i \in 1 .. 8 * L /\ (9 + i) - 1 = 8 * 1 + i
          /\ 25 + i \in 1 .. 8 * L /\ (25 + i) - 1 = 8 * 3 + i
          /\ 1 + 2 <= L /\ 3 + 2 <= L
      BY <1>3, <1>9
    <3> QED BY <3>1, <1>3, <1>5, <1>7, <1>8
  <2>2. /\ len.word = [i \in 0 .. 15 |-> len.word[i]]
        /\ x = [i \in 0 .. 15 |-> x[i]]
    BY <1>5, <1>7 DEF Word
  <2>3. /\ nlen.word = [i \in 0 .. 15 |-> nlen.word[i]]
        /\ Complement(x) = [i \in 0 .. 15 |-> Complement(x)[i]]
    BY <1>5, <1>8 DEF Word
  <2> QED BY <2>1, <2>2, <2>3
<1>10. BlockFits => len.word = x /\ nlen.word = Complement(x)
  BY <1>3, <1>9
<1>11. pc' = "get_literal"
  BY <1>1, <1>3, <1>10
<1>12. /\ block' \in Blocks /\ block'.is_final = block.is_final
       /\ block'.len = len.word /\ block'.data = block.data
  BY <1>1, <1>3, <1>7 DEF Blocks
<1>13. GoodLsb(br') /\ br'.buffer = br.buffer /\ Position(br') = 8 * MinOf(5, L)
  <2>1. ByteAt(br', 5) /\ br'.buffer = br.buffer
    BY <1>1, <1>8
  <2> QED BY <2>1 DEF ByteAt, L
<1>14. InStep'
  <2>1. 8 * MinOf(5, L) = MinOf(40, 8 * L)
    BY <1>3 DEF MinOf
  <2> QED BY <2>1, <1>11, <1>13 DEF InStep, L
<1>15. AllOrNothing'
  BY <1>1, <1>12 DEF IInv, AllOrNothing
<1>16. Decoded'
  <2>1. BlockFits' => BlockFits
    BY <1>1 DEF BlockFits
  <2>2. BlockFits => block.is_final = final
    BY <1>1 DEF IInv, Decoded, Decoder
  <2>3. x' = x
    BY <1>1 DEF x
  <2> QED BY <2>1, <2>2, <2>3, <1>1, <1>10, <1>11, <1>12 DEF Decoded, x
<1>17. pc' \in Decoder
  BY <1>11 DEF Decoder
<1> QED BY <1>1, <1>2, <1>12, <1>13, <1>14, <1>15, <1>16, <1>17, PartGot

\* On a wire that was cut the decoder stands at the end, where a copy of a
\* byte or more is refused, whatever length the cut block has shown.
LEMMA GetLiteralKeeps == ASSUME IInv, GetLiteral PROVE IInv'
<1> DEFINE n == Number(block.len)  copy == bs_read_bytes(br, n)
           L == Len(br.buffer)
<1>1. /\ pc = "get_literal" /\ br' = copy.bs
      /\ block' = [block EXCEPT !.data = copy.ret.bytes]
      /\ pc' = IF build = "debug" /\ ~ copy.ret.ok THEN "aborted" ELSE "verify"
      /\ UNCHANGED << build, literal, final, bw >>
  BY DEF GetLiteral, AssertThen
<1>2. pc \in Decoder
  BY <1>1 DEF Decoder
<1>3. /\ GoodLsb(br) /\ br.buffer \in Seq(Byte) /\ L \in Nat
      /\ block \in Blocks /\ final \in Bit
      /\ literal \in Literals /\ literal \in Seq(Byte) /\ Len(literal) \in Nat
      /\ BlockFits => L = 5 + Len(literal)
      /\ ~ BlockFits => L <= 5
      /\ build = "debug" => BlockFits
      /\ \A j \in 1 .. 8 * L : StreamBit(br.buffer, "lsb", j - 1) = Stream[j]
  BY <1>2, WireSize
<1>4. Position(br) = MinOf(40, 8 * L)
  BY <1>1 DEF IInv, InStep
<1>5. BlockFits => block.is_final = final /\ block.len = LenWord(literal)
  BY <1>1 DEF IInv, Decoded, Decoder
<1>6. n \in Nat
  BY <1>3, NumberIsNat DEF Blocks
<1>7. BlockFits => n = Len(literal)
  BY <1>3, <1>5, LengthWord
<1> HIDE DEF n
<1>8. /\ copy.bs.buffer = br.buffer /\ GoodLsb(copy.bs)
      /\ copy.ret \in RetType /\ Copies(br, n, copy)
  <2>1. Bounded(br)
    BY <1>3 DEF GoodLsb
  <2> QED BY <2>1, <1>3, <1>6, ReadBytesKeeps, ReadBytesMeets
<1> DEFINE first == Position(br) \div 8
           fits  == Position(br) % 8 = 0 /\ first + n <= L
           part  == IF fits THEN SubSeq(br.buffer, first + 1, first + n)
                    ELSE << >>
<1>9. first = MinOf(5, L) /\ (fits <=> first + n <= L)
  <2>1. MinOf(40, 8 * L) = 8 * MinOf(5, L) /\ MinOf(5, L) \in Nat
    <3> HIDE DEF L
    <3> QED BY <1>3 DEF MinOf
  <2>2. \A k \in Nat : (8 * k) \div 8 = k /\ (8 * k) % 8 = 0
    OBVIOUS
  <2> QED BY <2>1, <2>2, <1>4
<1>10. copy.ret.ok = fits /\ copy.ret.bytes = part
  <2>1. copy.ret = Copied(fits, part)
    BY <1>8 DEF Copies
  <2>2. Copied(fits, part).ok = fits /\ Copied(fits, part).bytes = part
    BY Zenon DEF Copied, Ret
  <2> QED BY <2>1, <2>2, Zenon
<1>11. fits \in BOOLEAN
  OBVIOUS
<1> HIDE DEF copy, fits, first, L
<1>12. CASE BlockFits
  <2>1. first = 5 /\ fits /\ first + n = L /\ n = Len(literal)
    BY <1>3, <1>7, <1>9, <1>12 DEF MinOf
  <2>2. ASSUME NEW j \in 1 .. 8 * Len(literal)
        PROVE  StreamBit(br.buffer, "lsb", 8 * 5 + j - 1)
                 = CopyOf("lsb", literal)[j]
    <3>1. 40 + j \in 1 .. 8 * L /\ (40 + j) - 1 = 8 * 5 + j - 1
      BY <1>3, <1>12
    <3>2. StreamBit(br.buffer, "lsb", (40 + j) - 1) = Stream[40 + j]
      BY <3>1, <1>3
    <3>3. Stream[40 + j] = CopyOf("lsb", literal)[j]
      BY <1>3, StreamParts
    <3> QED BY <3>1, <3>2, <3>3
  <2>3. \A i \in 1 .. Len(literal) : br.buffer[5 + i] = literal[i]
    <3>1. 5 + Len(literal) <= Len(br.buffer) /\ 5 \in Nat /\ "lsb" \in Orders
      BY <2>1, <1>3 DEF L, Orders
    <3> QED BY <3>1, <2>2, <1>3, BytesOnWire
  <2>4. part = SubSeq(br.buffer, 5 + 1, 5 + Len(literal))
    BY <2>1
  <2>5. part = literal
    <3> DEFINE s == SubSeq(br.buffer, 5 + 1, 5 + Len(literal))
    <3>1. 5 + Len(literal) <= Len(br.buffer)
      BY <2>1, <1>3 DEF L
    <3>2. /\ s \in Seq(Byte) /\ Len(s) = Len(literal)
          /\ \A i \in 1 .. Len(literal) : s[i] = br.buffer[5 + i]
      BY <3>1, <1>3, SubSeqProperties
    <3> HIDE DEF s
    <3>3. s = literal
      BY <3>2, <2>3, <1>3, SeqEqual
    <3> QED BY <3>3, <2>4 DEF s
  <2>6. copy.ret.ok /\ copy.ret.bytes = literal
    BY <2>1, <2>5, <1>10
  <2>7. pc' = "verify"
    BY <2>6, <1>1
  <2>8. /\ block' \in Blocks /\ block'.is_final = block.is_final
        /\ block'.len = block.len /\ block'.data = literal
    BY <2>6, <1>1, <1>3 DEF Blocks
  <2>9. InStep' /\ pc' \in Decoder
    BY <2>7 DEF InStep, Decoder
  <2>10. AllOrNothing'
    BY <2>8, <1>1 DEF AllOrNothing
  <2>11. Decoded'
    BY <2>8, <1>1, <1>5, <1>12 DEF Decoded
  <2> QED BY <2>8, <2>9, <2>10, <2>11, <1>1, <1>2, <1>8, PartGot
<1>13. CASE ~ BlockFits
  <2>1. pc' = "verify"
    BY <1>1, <1>3, <1>13
  <2>2. part = << >>
    <3>1. CASE fits
      <4>1. first = L /\ n = 0
        BY <3>1, <1>3, <1>6, <1>9, <1>13 DEF MinOf
      <4>2. SubSeq(br.buffer, L + 1, L + 0) = << >>
        <5>1. L + 0 < L + 1 /\ L + 0 \in Int /\ L + 1 \in Int
          BY <1>3
        <5> QED BY <5>1, <1>3, SubSeqProperties, EmptySeq
      <4> QED BY <4>1, <4>2, <3>1
    <3>2. CASE ~ fits
      BY <3>2
    <3> QED BY <3>1, <3>2
  <2>3. copy.ret.bytes = << >>
    BY <2>2, <1>10
  <2>4. << >> \in Seq(Byte)
    OBVIOUS
  <2>5. block' \in Blocks /\ block'.data = << >>
    BY <2>3, <2>4, <1>1, <1>3 DEF Blocks
  <2>6. InStep' /\ pc' \in Decoder
    BY <2>1 DEF InStep, Decoder
  <2>7. AllOrNothing'
    BY <2>5 DEF AllOrNothing
  <2>8. Decoded'
    BY <1>1, <1>13 DEF Decoded, BlockFits
  <2> QED BY <2>5, <2>6, <2>7, <2>8, <1>1, <1>2, <1>8, PartGot
<1> QED BY <1>12, <1>13

LEMMA VerifyKeeps == ASSUME IInv, Verify PROVE IInv'
<1> DEFINE whole == [is_final |-> final, len |-> LenWord(literal),
                     data |-> literal]
<1>1. /\ pc = "verify"
      /\ pc' = IF build = "debug" /\ ~ (block = whole) THEN "aborted" ELSE "done"
      /\ UNCHANGED << build, literal, final, bw, br, block >>
  BY DEF Verify, AssertThen
<1>2. pc \in Decoder
  BY <1>1 DEF Decoder
<1>3. GoodLsb(br) /\ block \in Blocks /\ (build = "debug" => BlockFits)
  BY <1>2, WireSize
<1>4. BlockFits => block = whole
  <2>1. BlockFits => /\ block.is_final = final /\ block.len = LenWord(literal)
                     /\ block.data = literal
    BY <1>1 DEF IInv, Decoded, Decoder
  <2> QED BY <2>1, <1>3 DEF Blocks
<1>5. pc' = "done"
  BY <1>1, <1>3, <1>4
<1>6. InStep' /\ AllOrNothing' /\ pc' \in Decoder
  BY <1>1, <1>5 DEF IInv, InStep, AllOrNothing, Decoder
<1>7. Decoded'
  <2>1. BlockFits' => BlockFits
    BY <1>1 DEF BlockFits
  <2>2. BlockFits => /\ block.is_final = final /\ block.len = LenWord(literal)
                     /\ block.data = literal
    BY <1>1 DEF IInv, Decoded, Decoder
  <2> QED BY <2>1, <2>2, <1>1 DEF Decoded
<1>8. GoodLsb(br') /\ br'.buffer = br.buffer /\ block' \in Blocks
  BY <1>1, <1>3
<1> QED BY <1>1, <1>2, <1>6, <1>7, <1>8, PartGot

---------------------------------------------------------------------------
\* The theorems.

LEMMA IInvStep == IInv /\ [Next]_vars => IInv'
<1> SUFFICES ASSUME IInv, [Next]_vars PROVE IInv'
  OBVIOUS
<1>1. CASE PutHeader
  BY <1>1, PutHeaderKeeps
<1>2. CASE PutPadding
  BY <1>2, PutPaddingKeeps
<1>3. CASE PutLengths
  BY <1>3, PutLengthsKeeps
<1>4. CASE PutLiteral
  BY <1>4, PutLiteralKeeps
<1>5. CASE GetHeader
  BY <1>5, GetHeaderKeeps
<1>6. CASE GetPadding
  BY <1>6, GetPaddingKeeps
<1>7. CASE GetLengths
  BY <1>7, GetLengthsKeeps
<1>8. CASE GetLiteral
  BY <1>8, GetLiteralKeeps
<1>9. CASE Verify
  BY <1>9, VerifyKeeps
<1>10. CASE UNCHANGED vars
  <2>1. /\ build' = build /\ literal' = literal /\ final' = final /\ bw' = bw
        /\ br' = br /\ block' = block /\ pc' = pc
    BY <1>10 DEF vars
  <2>2. Stream' = Stream /\ (BlockFits' <=> BlockFits)
    BY <2>1 DEF Stream, BlockFits
  <2>3. Encoding' <=> Encoding
    BY <2>1, <2>2 DEF Encoding
  <2>4. OnWire' <=> OnWire
    BY <2>1, <2>2 DEF OnWire
  <2>5. InStep' <=> InStep
    BY <2>1 DEF InStep
  <2>6. Decoded' <=> Decoded
    BY <2>1, <2>2 DEF Decoded
  <2>7. (AllOrNothing' <=> AllOrNothing)
        /\ (AbortsWhenTooSmall' <=> AbortsWhenTooSmall)
    BY <2>1, <2>2 DEF AllOrNothing, AbortsWhenTooSmall
  <2> QED BY <2>1, <2>3, <2>4, <2>5, <2>6, <2>7 DEF IInv
<1> QED BY <1>1, <1>2, <1>3, <1>4, <1>5, <1>6, <1>7, <1>8, <1>9, <1>10 DEF Next

LEMMA IInvHolds == Spec => []IInv
<1>1. Init => IInv
  BY IInvInit
<1>2. IInv /\ [Next]_vars => IInv'
  BY IInvStep
<1> QED BY <1>1, <1>2, PTL DEF Spec

\* For every literal, every memory and either build,
\* the writer's and the reader's positions stay within their memories.
THEOREM BlockTypeCorrect == Spec => []TypeOK
<1>1. IInv => TypeOK
  BY DEF IInv, TypeOK, Within, GoodLsb, Bounded, Blocks
<1> QED BY <1>1, IInvHolds, PTL

\* A block that fits the memory decodes to what was encoded, however much of
\* the literal the reader has prefetched before it is copied.
THEOREM BlocksRoundTrip == Spec => []RoundTrip
<1>1. ASSUME IInv PROVE RoundTrip
  <2>1. ASSUME pc = "done", BlockFits
        PROVE  block = [is_final |-> final, len |-> LenWord(literal),
                        data |-> literal]
    <3>1. /\ block.is_final = final /\ block.len = LenWord(literal)
          /\ block.data = literal /\ block \in Blocks
      BY <1>1, <2>1 DEF IInv, Decoded, Decoder
    <3> QED BY <3>1 DEF Blocks
  <2> QED BY <2>1 DEF RoundTrip
<1> QED BY <1>1, IInvHolds, PTL

\* The assertions of a debug build stop the program exactly when the memory
\* is too small for the block.
THEOREM AssertionsAreExact == Spec => []AbortsWhenTooSmall
<1>1. IInv => AbortsWhenTooSmall
  BY DEF IInv
<1> QED BY <1>1, IInvHolds, PTL

\* Also without the assertions, whatever the decoder finds on a wire that was
\* cut, it takes no other bytes for the literal.
THEOREM LiteralsAreWhole == Spec => []AllOrNothing
<1>1. IInv => AllOrNothing
  BY DEF IInv
<1> QED BY <1>1, IInvHolds, PTL

=============================================================================
