------------------------- MODULE PrefixCodecProofs -------------------------
(***************************************************************************)
(* For every message, memory, output size and width of cache and value:    *)
(* the four decoders stay in step with the encoder as long as the codes    *)
(* fit the wire, consume as many bits as the codes of what they put out    *)
(* have, and end with a verdict that can be relied on.                     *)
(***************************************************************************)
EXTENDS PrefixCodec, CallLemmas, FiniteSetTheorems

\* What is sent: the message and the sentinel.
Sent == Append(message, Sentinel)

\* The bits of the codes of the first k symbols of a text, each as the pair
\* of the number of its symbol and its own.
Cells(text, k) ==
    {p \in (1 .. k) \X (1 .. MaxCodeLen) : p[2] <= CodeLen(text[p[1]])}

\* Where the k-th code ends.
Ends(text, k) == Cardinality(Cells(text, k))

\* Bit at of the text is in the k-th code.
Covers(text, k, at) == Ends(text, k - 1) < at /\ at <= Ends(text, k)

\* The bits of a text as they are sent, then zeros.
StreamOf(text) ==
    [at \in Nat \ {0} |->
        IF \E k \in 1 .. Len(text) : Covers(text, k, at)
        THEN LET k == CHOOSE k \in 1 .. Len(text) : Covers(text, k, at) IN
             CodeBit(text[k], at - Ends(text, k - 1) - 1)
        ELSE 0]

---------------------------------------------------------------------------
(***************************************************************************)
(* The inductive invariant.  While the program encodes, the writer carries *)
(* the codes sent.  Afterwards, unless they did not fit, the memory of the *)
(* reader holds all of them, and the reader stands where the codes of what *)
(* has been decoded end; that place is a boundary of the codes sent, so    *)
(* the next of them is whole ahead of it.  On a wire cut short, decoding   *)
(* still consumes as many bits as the codes of what it puts out have.      *)
(***************************************************************************)
Encoding ==
    /\ Carries(bw, PackingOf(codec), StreamOf(Sent),
               Ends(Sent, IF pc = "flush" THEN Len(message) + 1 ELSE sent))
    /\ out = << >>
    /\ Position(br) = 0

OnWire ==
    /\ Good(bw)
    /\ bw.overflow <=> TotalBits > 8 * Len(bw.buffer)
    /\ Len(br.buffer) <= Len(bw.buffer)
    /\ ~ bw.overflow =>
        /\ TotalBits <= 8 * Len(br.buffer)
        /\ \A j \in 1 .. 8 * Len(br.buffer) :
            StreamBit(br.buffer, PackingOf(codec), j - 1) = StreamOf(Sent)[j]

GoodReader(b) == IF codec = "lsb" THEN GoodLsb(b) ELSE GoodMsb(b)

\* What has been decoded is what the message starts with.
Started ==
    /\ Len(out) <= Len(message)
    /\ \A k \in 1 .. Len(out) : out[k] = message[k]

\* What the program may conclude once it has stopped decoding.
Concluded ==
    /\ pc = "verify" /\ ~ bw.overflow => Len(out) = Len(message) \/ room = 0
    /\ pc = "verified" => out = message
    /\ pc = "mismatch" => bw.overflow \/ Len(message) > Len(out) + room

\* huffman_decode_safe and huffman_decode_fast see no wire that was cut.
Fitted == pc = "decode" /\ codec \in {"safe", "fast"} => ~ bw.overflow

IInv ==
    /\ codec \in Codecs /\ message \in Messages /\ room \in Nat
    /\ sent \in 0 .. Len(message) /\ out \in Seq(Text)
    /\ pc \in {"encode", "flush", "decode", "verify", "verified", "mismatch",
               "refused"}
    /\ GoodReader(br)
    /\ pc \in {"encode", "flush"} => Encoding
    /\ pc \notin {"encode", "flush"} => OnWire
    /\ BitsOf(out) <= Position(br)
    /\ pc = "decode" => Position(br) = BitsOf(out)
    /\ pc \in {"decode", "verify"} /\ ~ bw.overflow => Started
    /\ Concluded /\ Fitted

---------------------------------------------------------------------------
\* Where the codes lie.

LEMMA CodeLens ==
    \A s \in Symbols : CodeLen(s) \in 1 .. 6 /\ (s < Sentinel => CodeLen(s) = s)
BY DEF Symbols, Sentinel, CodeLen, MaxCodeLen, MinOf

LEMMA CellsFinite ==
    ASSUME NEW text, NEW k \in Nat
    PROVE  /\ IsFiniteSet(Cells(text, k)) /\ Ends(text, k) \in Nat
           /\ Ends(text, 0) = 0
<1>1. IsFiniteSet(1 .. k) /\ IsFiniteSet(1 .. MaxCodeLen)
  <2>1. 1 \in Int /\ k \in Int /\ MaxCodeLen \in Int
    BY DEF MaxCodeLen
  <2>2. IsFiniteSet(1 .. k)
    BY <2>1, FS_Interval
  <2>3. IsFiniteSet(1 .. MaxCodeLen)
    BY <2>1, FS_Interval
  <2> QED BY <2>2, <2>3
<1>2. IsFiniteSet((1 .. k) \X (1 .. MaxCodeLen))
  BY <1>1, FS_Product
<1>3. Cells(text, k) \in SUBSET ((1 .. k) \X (1 .. MaxCodeLen))
  BY DEF Cells
<1>4. IsFiniteSet(Cells(text, k))
  BY <1>2, <1>3, FS_Subset
<1>5. Cells(text, 0) = {}
  BY DEF Cells
<1> QED BY <1>4, <1>5, FS_CardinalityType, FS_EmptySet DEF Ends

\* A code ends as many bits behind the one before as it has.
LEMMA NextEnd ==
    ASSUME NEW text, NEW k \in Nat, text[k + 1] \in Symbols
    PROVE  Ends(text, k + 1) = Ends(text, k) + CodeLen(text[k + 1])
<1> DEFINE n == CodeLen(text[k + 1])  A == Cells(text, k)
           B == {k + 1} \X (1 .. n)
<1>1. n \in 1 .. 6
  BY CodeLens
<1>2. Cells(text, k + 1) = A \cup B
  <2>1. ASSUME NEW i, NEW j
        PROVE  << i, j >> \in Cells(text, k + 1) <=> << i, j >> \in A \cup B
    <3>1. << i, j >> \in Cells(text, k + 1)
            <=> i \in 1 .. k + 1 /\ j \in 1 .. 6 /\ j <= CodeLen(text[i])
      BY DEF Cells, MaxCodeLen
    <3>2. << i, j >> \in A
            <=> i \in 1 .. k /\ j \in 1 .. 6 /\ j <= CodeLen(text[i])
      BY DEF Cells, MaxCodeLen
    <3>3. << i, j >> \in B <=> i = k + 1 /\ j \in 1 .. n
      OBVIOUS
    <3>4. i \in 1 .. k + 1 <=> i \in 1 .. k \/ i = k + 1
      OBVIOUS
    <3>5. j \in 1 .. n <=> j \in 1 .. 6 /\ j <= n
      BY <1>1
    <3> HIDE DEF A, B
    <3> QED BY <3>1, <3>2, <3>3, <3>4, <3>5
  <2>2. \A p \in Cells(text, k + 1) : p = << p[1], p[2] >>
    BY DEF Cells
  <2>3. \A p \in A \cup B : p = << p[1], p[2] >>
    BY DEF Cells
  <2> HIDE DEF A, B
  <2> QED BY <2>1, <2>2, <2>3
<1>3. A \cap B = {}
  BY DEF Cells
<1>4. IsFiniteSet(A) /\ Cardinality(A) = Ends(text, k) /\ Ends(text, k) \in Nat
  BY CellsFinite DEF Ends
<1>5. IsFiniteSet(B) /\ Cardinality(B) = n
  <2>1. IsFiniteSet({k + 1}) /\ Cardinality({k + 1}) = 1
    BY FS_Singleton
  <2>2. IsFiniteSet(1 .. n) /\ Cardinality(1 .. n) = n
    <3>1. 1 \in Int /\ n \in Int /\ n >= 1
      BY <1>1
    <3> HIDE DEF n
    <3>2. /\ IsFiniteSet(1 .. n)
          /\ Cardinality(1 .. n) = IF 1 > n THEN 0 ELSE n - 1 + 1
      BY <3>1, FS_Interval
    <3> QED BY <3>1, <3>2
  <2>3. n \in Int
    BY <1>1
  <2> HIDE DEF n
  <2>4. /\ IsFiniteSet({k + 1} \X (1 .. n))
        /\ Cardinality({k + 1} \X (1 .. n))
             = Cardinality({k + 1}) * Cardinality(1 .. n)
    BY <2>1, <2>2, FS_Product
  <2>5. Cardinality({k + 1} \X (1 .. n)) = n
    BY <2>1, <2>2, <2>3, <2>4
  <2> QED BY <2>4, <2>5
<1> HIDE DEF A, B, n
<1>6. Cardinality(A \cup B) = Cardinality(A) + Cardinality(B) - 0
  <2>1. Cardinality(A \cap B) = 0
    BY <1>3, FS_EmptySet
  <2>2. Cardinality(A \cup B)
          = Cardinality(A) + Cardinality(B) - Cardinality(A \cap B)
    BY <1>4, <1>5, FS_Union
  <2> QED BY <2>1, <2>2
<1>7. Ends(text, k + 1) = Cardinality(A \cup B)
  BY <1>2 DEF Ends
<1>8. Ends(text, k + 1) = Ends(text, k) + n
  BY <1>1, <1>4, <1>5, <1>6, <1>7
<1> QED BY <1>8 DEF n

LEMMA EndsGrow ==
    ASSUME NEW text, NEW k \in Nat, NEW l \in Nat, k <= l
    PROVE  Ends(text, k) <= Ends(text, l)
<1>1. Cells(text, k) \in SUBSET Cells(text, l)
  BY DEF Cells
<1> QED BY <1>1, CellsFinite, FS_Subset DEF Ends

\* Only the symbols before it decide where a code ends.
LEMMA EndsAgree ==
    ASSUME NEW text, NEW other, NEW k \in Nat,
           \A i \in 1 .. k : text[i] = other[i]
    PROVE  Ends(text, k) = Ends(other, k)
<1>1. Cells(text, k) = Cells(other, k)
  BY DEF Cells
<1> QED BY <1>1 DEF Ends

LEMMA BitsAreEnds == ASSUME NEW text PROVE BitsOf(text) = Ends(text, Len(text))
BY DEF BitsOf, Ends, Cells

\* The j-th bit of a code is at the j-th place behind the code before.
LEMMA CodeInStream ==
    ASSUME NEW text \in Seq(Symbols), NEW k \in 1 .. Len(text),
           NEW j \in 1 .. CodeLen(text[k])
    PROVE  StreamOf(text)[Ends(text, k - 1) + j] = CodeBit(text[k], j - 1)
<1> DEFINE at == Ends(text, k - 1) + j
<1>1. /\ Len(text) \in Nat /\ k - 1 \in Nat /\ (k - 1) + 1 = k
      /\ text[k] \in Symbols
  OBVIOUS
<1>2. /\ Ends(text, k - 1) \in Nat /\ CodeLen(text[k]) \in 1 .. 6
      /\ Ends(text, k) = Ends(text, k - 1) + CodeLen(text[k])
  BY <1>1, CellsFinite, NextEnd, CodeLens
<1>3. Covers(text, k, at) /\ at \in Nat \ {0}
  BY <1>2 DEF Covers
<1>4. ASSUME NEW l \in 1 .. Len(text), Covers(text, l, at) PROVE l = k
  <2>1. l \in Nat /\ l - 1 \in Nat /\ k \in Nat
    BY <1>1
  <2>2. /\ Ends(text, l) \in Nat /\ Ends(text, l - 1) \in Nat
        /\ Ends(text, k) \in Nat
    BY <2>1, CellsFinite
  <2>3. k < l => Ends(text, k) <= Ends(text, l - 1)
    BY <2>1, EndsGrow
  <2>4. l < k => Ends(text, l) <= Ends(text, k - 1)
    BY <2>1, <1>1, EndsGrow
  <2> HIDE DEF at
  <2>5. /\ Ends(text, l - 1) < at /\ at <= Ends(text, l)
        /\ Ends(text, k - 1) < at /\ at <= Ends(text, k)
    BY <1>3, <1>4 DEF Covers
  <2> QED BY <2>1, <2>2, <2>3, <2>4, <2>5, <1>2, <1>3
<1>5. (CHOOSE l \in 1 .. Len(text) : Covers(text, l, at)) = k
  <2> HIDE DEF at
  <2> QED BY <1>3, <1>4
<1>6. at - Ends(text, k - 1) - 1 = j - 1
  BY <1>2
<1> HIDE DEF at
<1>7. StreamOf(text)[at] = CodeBit(text[k], at - Ends(text, k - 1) - 1)
  BY <1>3, <1>5 DEF StreamOf
<1> QED BY <1>6, <1>7 DEF at

\* Behind the last code the stream is zero.
LEMMA StreamEnds ==
    ASSUME NEW text \in Seq(Symbols), NEW j \in Nat \ {0}
    PROVE  StreamOf(text)[Ends(text, Len(text)) + j] = 0
<1> DEFINE at == Ends(text, Len(text)) + j
<1>1. Len(text) \in Nat
  OBVIOUS
<1>2. Ends(text, Len(text)) \in Nat
  BY <1>1, CellsFinite
<1>3. at \in Nat \ {0} /\ at > Ends(text, Len(text)) /\ at \in Nat
  BY <1>2
<1> HIDE DEF at
<1>4. ASSUME NEW k \in 1 .. Len(text) PROVE ~ Covers(text, k, at)
  <2>1. k \in Nat /\ k <= Len(text)
    BY <1>1
  <2>2. Ends(text, k) \in Nat /\ Ends(text, k) <= Ends(text, Len(text))
    BY <2>1, <1>1, CellsFinite, EndsGrow
  <2> QED BY <2>2, <1>2, <1>3 DEF Covers
<1>5. StreamOf(text)[at] = 0
  BY <1>3, <1>4 DEF StreamOf
<1> QED BY <1>5 DEF at

---------------------------------------------------------------------------
\* What is sent.

LEMMA SentIs ==
    ASSUME message \in Messages
    PROVE  /\ message \in Seq(Text) /\ Len(message) \in Nat
           /\ Sent \in Seq(Symbols) /\ Len(Sent) = Len(message) + 1
           /\ Sent[Len(message) + 1] = Sentinel
           /\ \A k \in 1 .. Len(message) : Sent[k] = message[k] /\ Sent[k] \in Text
           /\ \A k \in 1 .. Len(message) + 1 : Sent[k] \in Symbols
<1>1. message \in Seq(Text) /\ Len(message) \in Nat
  BY CodecAssumption
<1>2. Sentinel \in Symbols /\ Text \subseteq Symbols
  BY DEF Sentinel, Symbols, Text
<1>3. message \in Seq(Symbols)
  BY <1>1, <1>2
<1>4. Sent \in Seq(Symbols) /\ Len(Sent) = Len(message) + 1
  BY <1>2, <1>3 DEF Sent
<1>5. Sent[Len(message) + 1] = Sentinel
  BY <1>2, <1>3 DEF Sent
<1>6. \A k \in 1 .. Len(message) : Sent[k] = message[k] /\ Sent[k] \in Text
  BY <1>1, <1>2, <1>3 DEF Sent
<1>7. \A k \in 1 .. Len(message) + 1 : Sent[k] \in Symbols
  BY <1>4
<1> QED BY <1>1, <1>4, <1>5, <1>6, <1>7

\* The codes of the message end where they do when the sentinel follows.
LEMMA Totals ==
    ASSUME message \in Messages
    PROVE  /\ Ends(Sent, Len(message)) = BitsOf(message)
           /\ Ends(Sent, Len(message) + 1) = TotalBits
           /\ TotalBits = BitsOf(message) + 6
           /\ BitsOf(message) \in Nat
<1>1. /\ Len(message) \in Nat /\ Sent[Len(message) + 1] = Sentinel
      /\ \A k \in 1 .. Len(message) : Sent[k] = message[k]
  BY SentIs
<1>2. CodeLen(Sentinel) = 6 /\ Sentinel \in Symbols
  BY DEF CodeLen, Sentinel, MaxCodeLen, MinOf, Symbols
<1>3. Ends(Sent, Len(message)) = Ends(message, Len(message))
  BY <1>1, EndsAgree
<1>4. Ends(Sent, Len(message) + 1) = Ends(Sent, Len(message)) + CodeLen(Sentinel)
  BY <1>1, <1>2, NextEnd
<1>5. Ends(Sent, Len(message)) \in Nat
  BY <1>1, CellsFinite
<1> QED BY <1>2, <1>3, <1>4, <1>5, BitsAreEnds DEF TotalBits

LEMMA CodeWord ==
    ASSUME NEW s \in Symbols
    PROVE  /\ Code(s) \in Word(MaxBits)
           /\ \A i \in 0 .. MaxBits - 1 : Code(s)[i] =
                IF i < CodeLen(s)
                THEN CodeBit(s, IF codec = "lsb" THEN i ELSE CodeLen(s) - 1 - i)
                ELSE 0
<1>1. \A i : CodeBit(s, i) \in Bit
  BY DEF CodeBit, Bit
<1>2. \A i : FieldOffset(PackingOf(codec), CodeLen(s), i)
               = IF codec = "lsb" THEN i ELSE CodeLen(s) - 1 - i
  BY DEF PackingOf, FieldOffset
<1>3. Code(s) \in Word(MaxBits)
  BY <1>1 DEF Code, Word, Bit
<1>4. \A i \in 0 .. MaxBits - 1 : Code(s)[i] =
        IF i < CodeLen(s)
        THEN CodeBit(s, IF codec = "lsb" THEN i ELSE CodeLen(s) - 1 - i) ELSE 0
  BY <1>2 DEF Code
<1> QED BY <1>3, <1>4

\* In either order, the bits of a code leave the writer first to last.
LEMMA CodeSends ==
    ASSUME NEW s \in Symbols
    PROVE  LET bits == SentBits(PackingOf(codec), Code(s), CodeLen(s)) IN
           /\ bits \in Seq(Bit) /\ Len(bits) = CodeLen(s)
           /\ \A j \in 1 .. CodeLen(s) : bits[j] = CodeBit(s, j - 1)
<1> DEFINE n == CodeLen(s)  o == PackingOf(codec)  bits == SentBits(o, Code(s), n)
<1>1. n \in 1 .. 6 /\ MaxBits \in Nat /\ MaxBits >= 6
  BY CodeLens, WidthFacts
<1>2. /\ Code(s) \in Word(MaxBits)
      /\ \A i \in 0 .. MaxBits - 1 : Code(s)[i] =
           IF i < n THEN CodeBit(s, IF codec = "lsb" THEN i ELSE n - 1 - i) ELSE 0
  BY CodeWord
<1> HIDE DEF n
<1>3. o = IF codec = "lsb" THEN "lsb" ELSE "msb"
  BY DEF PackingOf
<1> HIDE DEF o
<1>4. n \in 0 .. MaxBits
  BY <1>1
<1>5. /\ bits \in Seq(Bit) /\ Len(bits) = n
      /\ \A j \in 1 .. n : bits[j]
           = Code(s)[IF o = "msb" THEN n - 1 - (j - 1) ELSE j - 1]
  BY <1>2, <1>4, FieldIs
<1> HIDE DEF bits
<1>6. ASSUME NEW j \in 1 .. n PROVE bits[j] = CodeBit(s, j - 1)
  <2>1. CASE codec = "lsb"
    <3>1. bits[j] = Code(s)[j - 1]
      BY <2>1, <1>3, <1>5
    <3>2. j - 1 \in 0 .. MaxBits - 1 /\ j - 1 < n
      BY <1>1
    <3> QED BY <2>1, <3>1, <3>2, <1>2
  <2>2. CASE codec # "lsb"
    <3>1. bits[j] = Code(s)[n - 1 - (j - 1)]
      BY <2>2, <1>3, <1>5
    <3>2. /\ n - 1 - (j - 1) \in 0 .. MaxBits - 1 /\ n - 1 - (j - 1) < n
          /\ n - 1 - (n - 1 - (j - 1)) = j - 1
      BY <1>1
    <3> QED BY <2>2, <3>1, <3>2, <1>2
  <2> QED BY <2>1, <2>2
<1> QED BY <1>5, <1>6 DEF n, o, bits

\* A code written is the next of the stream.
LEMMA CodeWritten ==
    ASSUME message \in Messages, NEW k \in 1 .. Len(message) + 1,
           Carries(bw, PackingOf(codec), StreamOf(Sent), Ends(Sent, k - 1))
    PROVE  /\ Carries(WriteCode(Sent[k]), PackingOf(codec), StreamOf(Sent),
                      Ends(Sent, k))
           /\ Len(WriteCode(Sent[k]).buffer) = Len(bw.buffer)
<1> DEFINE s == Sent[k]  n == CodeLen(s)  o == PackingOf(codec)
           bits == SentBits(o, Code(s), n)  d == WriteCode(s)
           stream == StreamOf(Sent)  at == Ends(Sent, k - 1)
<1>1. /\ Len(message) \in Nat /\ Sent \in Seq(Symbols)
      /\ Len(Sent) = Len(message) + 1 /\ s \in Symbols
  BY SentIs
<1>2. k - 1 \in Nat /\ (k - 1) + 1 = k /\ k \in 1 .. Len(Sent)
  BY <1>1
<1>3. at \in Nat /\ Ends(Sent, k) = at + n
  BY <1>1, <1>2, CellsFinite, NextEnd
<1>4. n \in 1 .. 6 /\ MaxBits \in Nat /\ MaxBits >= 6
  BY <1>1, CodeLens, WidthFacts
<1>5. /\ bits \in Seq(Bit) /\ Len(bits) = n
      /\ \A j \in 1 .. n : bits[j] = CodeBit(s, j - 1)
  BY <1>1, CodeSends
<1>6. \A j \in 1 .. n : stream[at + j] = CodeBit(s, j - 1)
  BY <1>1, <1>2, CodeInStream
<1>7. Code(s) \in Word(MaxBits)
  BY <1>1, CodeWord
<1>8. Good(bw)
  BY DEF Carries
<1>9. Keeps(bw, d) /\ Longer(bw, d, o, bits)
  <2>1. n \in 0 .. MaxBits
    BY <1>4
  <2> HIDE DEF n, s
  <2>2. CASE codec = "lsb"
    BY <2>1, <2>2, <1>7, <1>8, LsbWrites, WritesLonger DEF WriteCode, PackingOf, n
  <2>3. CASE codec # "lsb"
    BY <2>1, <2>3, <1>7, <1>8, MsbWrites, WritesLonger DEF WriteCode, PackingOf, n
  <2> QED BY <2>2, <2>3
<1>10. Carries(bw, o, stream, at)
  OBVIOUS
<1> HIDE DEF s, n, o, bits, d, stream, at
<1>11. Carries(d, o, stream, at + Len(bits))
  BY <1>3, <1>5, <1>6, <1>9, <1>10, CarriesMore
<1>12. Len(d.buffer) = Len(bw.buffer)
  BY <1>9 DEF Keeps, Appends
<1> QED BY <1>3, <1>5, <1>11, <1>12 DEF d, o, stream, s

---------------------------------------------------------------------------
\* The code is a prefix code, and complete.

LEMMA PrefixFree ==
    ASSUME NEW s \in Symbols, NEW t \in Symbols,
           \A j \in 0 .. MinOf(CodeLen(s), CodeLen(t)) - 1 :
                CodeBit(s, j) = CodeBit(t, j)
    PROVE  s = t
<1>1. ASSUME NEW x \in Symbols, NEW y \in Symbols, x < y,
             \A j \in 0 .. MinOf(CodeLen(x), CodeLen(y)) - 1 :
                CodeBit(x, j) = CodeBit(y, j)
      PROVE  FALSE
  <2>1. x - 1 \in 0 .. MinOf(CodeLen(x), CodeLen(y)) - 1
    BY <1>1 DEF Symbols, Sentinel, CodeLen, MaxCodeLen, MinOf
  <2>2. CodeBit(x, x - 1) = 0 /\ CodeBit(y, x - 1) = 1
    BY <1>1 DEF Symbols, Sentinel, CodeBit
  <2> QED BY <2>1, <2>2, <1>1
<1>2. MinOf(CodeLen(s), CodeLen(t)) = MinOf(CodeLen(t), CodeLen(s))
  BY CodeLens DEF MinOf
<1>3. s < t \/ t < s \/ s = t
  BY DEF Symbols, Sentinel
<1>4. ~ (s < t)
  BY <1>1
<1>5. ~ (t < s)
  BY <1>1, <1>2
<1> QED BY <1>3, <1>4, <1>5

\* Six bits start with a code.
LEMMA SomeCode ==
    ASSUME NEW x, \A j \in 0 .. 5 : x[j] \in Bit
    PROVE  \E s \in Symbols : \A j \in 0 .. CodeLen(s) - 1 : x[j] = CodeBit(s, j)
<1>1. ASSUME NEW m \in 0 .. 5, x[m] = 0, \A j \in 0 .. m - 1 : x[j] = 1
      PROVE  \A j \in 0 .. CodeLen(m + 1) - 1 : x[j] = CodeBit(m + 1, j)
  BY <1>1 DEF CodeLen, CodeBit, MaxCodeLen, MinOf
<1>2. \A m \in 0 .. 5 : m + 1 \in Symbols
  BY DEF Symbols, Sentinel
<1>3. ASSUME \A j \in 0 .. 5 : x[j] = 1
      PROVE  \A j \in 0 .. CodeLen(7) - 1 : x[j] = CodeBit(7, j)
  BY <1>3 DEF CodeLen, CodeBit, MaxCodeLen, MinOf
<1>4. 7 \in Symbols
  BY DEF Symbols, Sentinel
<1>5. \/ \A j \in 0 .. 5 : x[j] = 1
      \/ \E m \in 0 .. 5 : x[m] = 0 /\ \A j \in 0 .. m - 1 : x[j] = 1
  <2> DEFINE Ones(m) == \A j \in 0 .. m - 1 : x[j] = 1
             Found == \E m \in 0 .. 5 : x[m] = 0 /\ Ones(m)
  <2>1. ASSUME NEW m \in 0 .. 5, Ones(m) PROVE Found \/ Ones(m + 1)
    <3>1. x[m] = 0 \/ x[m] = 1
      BY DEF Bit
    <3>2. \A j \in 0 .. m : j \in 0 .. m - 1 \/ j = m
      OBVIOUS
    <3> QED BY <3>1, <3>2, <2>1
  <2>2. Ones(0) /\ (Ones(6) => \A j \in 0 .. 5 : x[j] = 1)
    OBVIOUS
  <2> HIDE DEF Ones, Found
  <2>3. Found \/ Ones(6)
    BY <2>1, <2>2
  <2> QED BY <2>2, <2>3 DEF Found, Ones
<1> QED BY <1>1, <1>2, <1>3, <1>4, <1>5

---------------------------------------------------------------------------
\* The table.

\* The reader is about to read the code of s.
Ahead(b, o, s) ==
    \A j \in 0 .. CodeLen(s) - 1 :
        StreamBit(b.buffer, o, Position(b) + j) = CodeBit(s, j)

LEMMA OnlyEntry ==
    ASSUME NEW entries \in SUBSET Symbols, NEW s \in entries,
           \A t \in entries : t = s
    PROVE  First(entries) = s
<1>1. s <= s
  BY DEF Symbols, Sentinel
<1> QED BY <1>1 DEF First

LEMMA MsbMatch ==
    ASSUME codec # "lsb", NEW w \in Word(MaxBits), Clean(w, 6), NEW s \in Symbols
    PROVE  s \in MatchTop(w)
             <=> \A j \in 0 .. CodeLen(s) - 1 : w[5 - j] = CodeBit(s, j)
<1> DEFINE n == CodeLen(s)  h == 6 - n
<1>1. n \in 1 .. 6 /\ h \in 0 .. 5 /\ n + h = 6 /\ MaxBits \in Nat /\ MaxBits >= 6
  BY CodeLens, WidthFacts
<1>2. /\ Code(s) \in [0 .. MaxBits - 1 -> Bit]
      /\ \A i \in 0 .. MaxBits - 1 : Code(s)[i] =
           IF i < n THEN CodeBit(s, n - 1 - i) ELSE 0
  BY CodeWord DEF Word
<1>3. /\ Shr(w, h) = [i \in 0 .. MaxBits - 1 |->
                        IF i + h \in 0 .. MaxBits - 1 THEN w[i + h] ELSE 0]
      /\ \A i \in 0 .. MaxBits - 1 : i >= 6 => w[i] = 0
  BY DEF Shr, Word, Clean
<1>4. s \in MatchTop(w) <=> Shr(w, h) = Code(s)
  BY DEF MatchTop, MaxCodeLen
<1> HIDE DEF h, n
<1>5. ASSUME NEW i \in 0 .. MaxBits - 1
      PROVE  Shr(w, h)[i] = IF i < n THEN w[i + h] ELSE 0
  <2>1. CASE i < n
    <3>1. i + h \in 0 .. MaxBits - 1
      BY <2>1, <1>1
    <3> QED BY <3>1, <2>1, <1>3
  <2>2. CASE ~ (i < n)
    <3>1. i + h >= 6
      BY <2>2, <1>1
    <3> QED BY <3>1, <2>2, <1>3
  <2> QED BY <2>1, <2>2
<1>6. Shr(w, h) = Code(s) <=> \A i \in 0 .. MaxBits - 1 : Shr(w, h)[i] = Code(s)[i]
  <2>1. Code(s) = [i \in 0 .. MaxBits - 1 |-> Code(s)[i]]
    BY <1>2
  <2> QED BY <2>1, <1>3
<1>7. ASSUME \A i \in 0 .. MaxBits - 1 : Shr(w, h)[i] = Code(s)[i],
             NEW j \in 0 .. n - 1
      PROVE  w[5 - j] = CodeBit(s, j)
  <2> DEFINE i == n - 1 - j
  <2>1. i \in 0 .. MaxBits - 1 /\ i < n /\ i + h = 5 - j /\ n - 1 - i = j
    BY <1>1
  <2> HIDE DEF i
  <2> QED BY <2>1, <1>2, <1>5, <1>7
<1>8. ASSUME \A j \in 0 .. n - 1 : w[5 - j] = CodeBit(s, j),
             NEW i \in 0 .. MaxBits - 1
      PROVE  Shr(w, h)[i] = Code(s)[i]
  <2>1. CASE i < n
    <3> DEFINE j == n - 1 - i
    <3>1. j \in 0 .. n - 1 /\ 5 - j = i + h
      BY <2>1, <1>1
    <3>2. w[5 - j] = CodeBit(s, j)
      BY <3>1, <1>8
    <3> QED BY <2>1, <3>1, <3>2, <1>2, <1>5
  <2>2. CASE ~ (i < n)
    BY <2>2, <1>2, <1>5
  <2> QED BY <2>1, <2>2
<1> QED BY <1>4, <1>6, <1>7, <1>8 DEF n

LEMMA LsbMatch ==
    ASSUME codec = "lsb", NEW w \in Word(MaxBits), NEW s \in Symbols,
           NEW width
    PROVE  s \in MatchBottom(w, width)
             <=> /\ CodeLen(s) <= width
                 /\ \A j \in 0 .. CodeLen(s) - 1 : w[j] = CodeBit(s, j)
<1> DEFINE n == CodeLen(s)
<1>1. n \in 1 .. 6 /\ MaxBits \in Nat /\ MaxBits >= 6
  BY CodeLens, WidthFacts
<1>2. /\ Code(s) \in [0 .. MaxBits - 1 -> Bit]
      /\ \A i \in 0 .. MaxBits - 1 : Code(s)[i] = IF i < n THEN CodeBit(s, i) ELSE 0
  BY CodeWord DEF Word
<1>3. Low(w, n) = [i \in 0 .. MaxBits - 1 |-> IF i < n THEN w[i] ELSE 0]
  BY DEF Low, Word
<1>4. s \in MatchBottom(w, width) <=> n <= width /\ Low(w, n) = Code(s)
  BY DEF MatchBottom
<1> HIDE DEF n
<1>5. Code(s) = [i \in 0 .. MaxBits - 1 |-> IF i < n THEN CodeBit(s, i) ELSE 0]
  BY <1>2
<1>6. ASSUME Low(w, n) = Code(s), NEW j \in 0 .. n - 1 PROVE w[j] = CodeBit(s, j)
  <2>1. j \in 0 .. MaxBits - 1 /\ j < n
    BY <1>1
  <2>2. Low(w, n)[j] = w[j] /\ Code(s)[j] = CodeBit(s, j)
    BY <2>1, <1>2, <1>3
  <2> QED BY <2>2, <1>6
<1>7. ASSUME \A j \in 0 .. n - 1 : w[j] = CodeBit(s, j) PROVE Low(w, n) = Code(s)
  <2>1. \A i \in 0 .. MaxBits - 1 :
          (IF i < n THEN w[i] ELSE 0) = (IF i < n THEN CodeBit(s, i) ELSE 0)
    BY <1>1, <1>7
  <2> QED BY <2>1, <1>3, <1>5
<1> QED BY <1>4, <1>6, <1>7 DEF n

\* One entry matches a full window, that of the code the window starts with.
LEMMA MsbFirst ==
    ASSUME codec # "lsb", NEW w \in Word(MaxBits), Clean(w, 6)
    PROVE  LET s == First(MatchTop(w)) IN
           /\ s \in Symbols
           /\ \A j \in 0 .. CodeLen(s) - 1 : w[5 - j] = CodeBit(s, j)
           /\ \A t \in Symbols :
                (\A j \in 0 .. CodeLen(t) - 1 : w[5 - j] = CodeBit(t, j)) => s = t
<1> DEFINE x == [j \in 0 .. 5 |-> w[5 - j]]
<1>1. MaxBits \in Nat /\ MaxBits >= 6
  BY WidthFacts
<1>2. \A j \in 0 .. 5 : x[j] = w[5 - j] /\ x[j] \in Bit
  BY <1>1 DEF Word
<1> HIDE DEF x
<1>3. PICK s \in Symbols : \A j \in 0 .. CodeLen(s) - 1 : x[j] = CodeBit(s, j)
  BY <1>2, SomeCode
<1>4. ASSUME NEW t \in Symbols, NEW j \in 0 .. CodeLen(t) - 1
      PROVE  x[j] = w[5 - j]
  <2>1. j \in 0 .. 5
    BY CodeLens
  <2> QED BY <2>1, <1>2
<1>5. \A t \in Symbols : t \in MatchTop(w)
        <=> \A j \in 0 .. CodeLen(t) - 1 : w[5 - j] = CodeBit(t, j)
  BY MsbMatch
<1>6. s \in MatchTop(w)
  BY <1>3, <1>4, <1>5
<1>7. ASSUME NEW t \in MatchTop(w) PROVE t = s
  <2>1. t \in Symbols
    BY DEF MatchTop
  <2>2. \A j \in 0 .. CodeLen(t) - 1 : x[j] = CodeBit(t, j)
    BY <2>1, <1>4, <1>5
  <2>3. CodeLen(s) \in Nat /\ CodeLen(t) \in Nat
    BY <2>1, CodeLens
  <2>4. \A j \in 0 .. MinOf(CodeLen(s), CodeLen(t)) - 1 :
          CodeBit(s, j) = CodeBit(t, j)
    BY <2>2, <2>3, <1>3 DEF MinOf
  <2> QED BY <2>1, <2>4, PrefixFree
<1>8. First(MatchTop(w)) = s
  <2>1. MatchTop(w) \in SUBSET Symbols
    BY DEF MatchTop
  <2> QED BY <2>1, <1>6, <1>7, OnlyEntry
<1> QED BY <1>5, <1>6, <1>7, <1>8

LEMMA LsbFirst ==
    ASSUME codec = "lsb", NEW w \in Word(MaxBits), NEW width,
           MatchBottom(w, width) # {}
    PROVE  LET s == First(MatchBottom(w, width)) IN
           /\ s \in Symbols /\ CodeLen(s) <= width
           /\ \A t \in Symbols :
                /\ CodeLen(t) <= width
                /\ \A j \in 0 .. CodeLen(t) - 1 : w[j] = CodeBit(t, j)
                => s = t
<1>1. PICK s \in MatchBottom(w, width) : TRUE
  OBVIOUS
<1>2. MatchBottom(w, width) \in SUBSET Symbols
  BY DEF MatchBottom
<1>3. \A t \in Symbols : t \in MatchBottom(w, width)
        <=> /\ CodeLen(t) <= width
            /\ \A j \in 0 .. CodeLen(t) - 1 : w[j] = CodeBit(t, j)
  BY LsbMatch
<1>4. ASSUME NEW t \in MatchBottom(w, width) PROVE t = s
  <2>1. s \in Symbols /\ t \in Symbols
    BY <1>1, <1>2
  <2>2. CodeLen(s) \in Nat /\ CodeLen(t) \in Nat
    BY <2>1, CodeLens
  <2>3. \A j \in 0 .. MinOf(CodeLen(s), CodeLen(t)) - 1 :
          CodeBit(s, j) = CodeBit(t, j)
    BY <2>1, <2>2, <1>1, <1>3 DEF MinOf
  <2> QED BY <2>1, <2>3, PrefixFree
<1>5. First(MatchBottom(w, width)) = s
  BY <1>1, <1>2, <1>4, OnlyEntry
<1> QED BY <1>1, <1>2, <1>3, <1>4, <1>5

---------------------------------------------------------------------------
\* One symbol decoded: r is b without the bits of a code, that of s, and
\* with a full window ahead s is the symbol whose code b was about to read.
Decoded(b, o, s, r) ==
    /\ s \in Symbols
    /\ r.buffer = b.buffer
    /\ Position(r) = Position(b) + CodeLen(s)
    /\ bs_reader_bits_left(b) >= 6 =>
            \A t \in Symbols : Ahead(b, o, t) => s = t

LEMMA WindowIs ==
    ASSUME NEW data, NEW at \in Nat, NEW n \in 0 .. 6
    PROVE  LET m == Field(data, "msb", at, 6, MaxBits)
               l == Field(data, "lsb", at, n, MaxBits)
           IN
           /\ Clean(m, 6)
           /\ \A j \in 0 .. 5 : m[5 - j] = StreamBit(data, "msb", at + j)
           /\ \A j \in 0 .. n - 1 : l[j] = StreamBit(data, "lsb", at + j)
<1> DEFINE m == Field(data, "msb", at, 6, MaxBits)
           l == Field(data, "lsb", at, n, MaxBits)
<1>1. MaxBits \in Nat /\ MaxBits >= 6
  BY CodecAssumption, WidthFacts DEF MaxCodeLen
<1>2. /\ DOMAIN m = 0 .. MaxBits - 1
      /\ \A i \in 0 .. MaxBits - 1 : m[i] =
           IF i < 6 THEN StreamBit(data, "msb", at + (6 - 1 - i)) ELSE 0
  BY DEF Field, FieldOffset
<1>3. \A i \in 0 .. MaxBits - 1 : l[i] =
        IF i < n THEN StreamBit(data, "lsb", at + i) ELSE 0
  BY DEF Field, FieldOffset
<1> HIDE DEF m, l
<1>4. Clean(m, 6)
  BY <1>1, <1>2 DEF Clean
<1>5. ASSUME NEW j \in 0 .. 5 PROVE m[5 - j] = StreamBit(data, "msb", at + j)
  <2>1. 5 - j \in 0 .. MaxBits - 1 /\ 5 - j < 6 /\ 6 - 1 - (5 - j) = j
    BY <1>1
  <2> QED BY <2>1, <1>2
<1>6. ASSUME NEW j \in 0 .. n - 1 PROVE l[j] = StreamBit(data, "lsb", at + j)
  <2>1. j \in 0 .. MaxBits - 1 /\ j < n
    BY <1>1
  <2> QED BY <2>1, <1>3
<1> QED BY <1>4, <1>5, <1>6 DEF m, l

LEMMA PositionNat ==
    ASSUME NEW b, Bounded(b)
    PROVE  /\ Position(b) \in Nat /\ Len(b.buffer) \in Nat
           /\ Position(b) <= 8 * Len(b.buffer)
           /\ bs_reader_bits_left(b) = 8 * Len(b.buffer) - Position(b)
<1>1. /\ b.byte_pos \in Nat /\ b.bits_in_cache \in Nat
      /\ Len(b.buffer) \in Nat /\ b.byte_pos <= Len(b.buffer)
      /\ b.bits_in_cache <= 8 * b.byte_pos
  BY WidthFacts DEF Bounded, Readers
<1> QED BY <1>1, BitsLeft DEF Position

\* A skip that neither the end of the stream nor the cache clips is exact.
LEMMA SkipsExactly ==
    ASSUME NEW b, Bounded(b), NEW n \in 0 .. 6, n <= bs_reader_bits_left(b),
           NEW res, Skips(b, n, res)
    PROVE  Position(res.bs) = Position(b) + n
<1> DEFINE left == bs_reader_bits_left(b)  due == MinOf(n, left)
<1>1. left \in Nat
  BY PositionNat
<1>2. CacheBits - 7 \in Nat /\ n <= CacheBits - 7 /\ Position(b) \in Nat
  BY CodecAssumption, WidthFacts, PositionNat DEF MaxCodeLen
<1>3. n <= left
  OBVIOUS
<1>4. PICK d \in MinOf(due, CacheBits - 7) .. due :
         Position(res.bs) = Position(b) + d
  BY DEF Skips
<1> HIDE DEF left
<1>5. due = n /\ MinOf(due, CacheBits - 7) = n
  BY <1>1, <1>2, <1>3 DEF MinOf
<1> HIDE DEF due
<1>6. d = n
  BY <1>4, <1>5
<1> QED BY <1>4, <1>6

\* A full window decodes to the symbol ahead.
LEMMA FullWindow ==
    ASSUME codec # "lsb", NEW b, GoodMsb(b),
           NEW w \in Word(MaxBits), w = Field(b.buffer, "msb", Position(b), 6, MaxBits)
    PROVE  LET s == First(MatchTop(w)) IN
           s \in Symbols /\ \A t \in Symbols : Ahead(b, "msb", t) => s = t
<1> DEFINE s == First(MatchTop(w))
<1>1. Position(b) \in Nat
  BY PositionNat DEF GoodMsb
<1>2. /\ Clean(w, 6)
      /\ \A j \in 0 .. 5 : w[5 - j] = StreamBit(b.buffer, "msb", Position(b) + j)
  <2>1. 0 \in 0 .. 6
    OBVIOUS
  <2> QED BY <2>1, <1>1, WindowIs
<1>3. /\ s \in Symbols
      /\ \A t \in Symbols :
           (\A j \in 0 .. CodeLen(t) - 1 : w[5 - j] = CodeBit(t, j)) => s = t
  BY <1>2, MsbFirst
<1> HIDE DEF s
<1>4. ASSUME NEW t \in Symbols, Ahead(b, "msb", t) PROVE s = t
  <2>1. ASSUME NEW j \in 0 .. CodeLen(t) - 1 PROVE w[5 - j] = CodeBit(t, j)
    <3>1. j \in 0 .. 5
      BY CodeLens
    <3> QED BY <3>1, <1>2, <1>4 DEF Ahead
  <2> QED BY <2>1, <1>3
<1> QED BY <1>3, <1>4 DEF s

\* What is left of an empty window decodes to the symbol with the code 0.
LEMMA ZeroWindow ==
    ASSUME codec # "lsb"
    PROVE  First(MatchTop(Zero(MaxBits))) = 1 /\ CodeLen(1) = 1
<1> DEFINE w == Zero(MaxBits)
<1>1. w \in Word(MaxBits) /\ Clean(w, 6)
  BY ZeroClean
<1>2. MaxBits \in Nat /\ MaxBits >= 6
  BY WidthFacts
<1>3. w[5] = 0
  BY <1>2 DEF Zero
<1> HIDE DEF w
<1>4. 1 \in Symbols /\ CodeLen(1) = 1 /\ CodeBit(1, 0) = 0
  BY DEF Symbols, Sentinel, CodeLen, MaxCodeLen, MinOf, CodeBit
<1>5. \A j \in 0 .. CodeLen(1) - 1 : w[5 - j] = CodeBit(1, j)
  <2>1. \A j \in 0 .. CodeLen(1) - 1 : j = 0
    BY <1>4
  <2> QED BY <2>1, <1>3, <1>4
<1>6. First(MatchTop(w)) = 1
  BY <1>1, <1>4, <1>5, MsbFirst
<1> QED BY <1>4, <1>6 DEF w

LEMMA MsbDecodes ==
    ASSUME codec # "lsb", NEW b, GoodMsb(b), bs_reader_bits_left(b) > 0
    PROVE  LET peek == bs_peek_bits(b, MaxCodeLen)
               s    == First(MatchTop(peek.ret.value))
               r    == bs_skip_bits(peek.bs, CodeLen(s)).bs
           IN  GoodMsb(r) /\ Decoded(b, "msb", s, r)
<1> DEFINE peek == bs_peek_bits(b, 6)  w == peek.ret.value
           s == First(MatchTop(w))  res == bs_skip_bits(peek.bs, CodeLen(s))
           left == bs_reader_bits_left(b)
<1>1. 6 \in 0 .. MaxBits
  BY WidthFacts
<1>2. GoodMsb(peek.bs) /\ peek.bs.buffer = b.buffer /\ peek.ret \in RetType
  BY <1>1, MsbCallsKeep DEF KeepsMsb
<1>3. Sees(b, "msb", 6, peek) \/ Refuses(b, 6, peek)
  BY <1>1, MsbCallsMeet
<1>4. w \in Word(MaxBits)
  BY <1>2 DEF RetType
<1>5. Position(peek.bs) = Position(b)
  BY <1>3 DEF Sees, Refuses
<1> HIDE DEF peek
<1>6. /\ left \in Nat /\ left > 0 /\ Position(b) \in Nat
      /\ bs_reader_bits_left(peek.bs) = left
  <2>1. Bounded(b) /\ Bounded(peek.bs)
    BY <1>2 DEF GoodMsb
  <2>2. /\ left = 8 * Len(b.buffer) - Position(b) /\ Position(b) \in Nat
        /\ Len(b.buffer) \in Nat /\ Position(b) <= 8 * Len(b.buffer)
    BY <2>1, PositionNat
  <2>3. bs_reader_bits_left(peek.bs) = 8 * Len(b.buffer) - Position(b)
    BY <2>1, <1>2, <1>5, PositionNat
  <2> QED BY <2>2, <2>3
<1>7. /\ s \in Symbols /\ CodeLen(s) \in 0 .. 6 /\ CodeLen(s) <= left
      /\ left >= 6 => \A t \in Symbols : Ahead(b, "msb", t) => s = t
  <2>1. CASE Sees(b, "msb", 6, peek)
    <3>1. w = Field(b.buffer, "msb", Position(b), 6, MaxBits) /\ 6 <= left
      BY <2>1 DEF Sees, Value, Ret
    <3>2. s \in Symbols /\ \A t \in Symbols : Ahead(b, "msb", t) => s = t
      BY <3>1, <1>4, FullWindow
    <3> HIDE DEF s, left
    <3> QED BY <3>1, <3>2, <1>6, CodeLens
  <2>2. CASE Refuses(b, 6, peek)
    <3>1. w = Zero(MaxBits) /\ 6 > left
      BY <2>2 DEF Refuses, Nothing, Ret
    <3>2. s = 1 /\ CodeLen(1) = 1
      BY <3>1, ZeroWindow
    <3>3. 1 \in Symbols
      BY DEF Symbols, Sentinel
    <3> HIDE DEF s, left
    <3> QED BY <3>1, <3>2, <3>3, <1>6
  <2> QED BY <2>1, <2>2, <1>3
<1> HIDE DEF s, w, left
<1>8. /\ GoodMsb(res.bs) /\ res.bs.buffer = b.buffer
      /\ Position(res.bs) = Position(b) + CodeLen(s)
  <2>1. CodeLen(s) \in Nat /\ Bounded(peek.bs)
    BY <1>2, <1>7 DEF GoodMsb
  <2>2. KeepsMsb(peek.bs, res)
    BY <2>1, <1>1, <1>2, MsbCallsKeep
  <2>3. Skips(peek.bs, CodeLen(s), res)
    BY <2>1, <1>1, <1>2, MsbCallsMeet
  <2> HIDE DEF res
  <2>4. Position(res.bs) = Position(peek.bs) + CodeLen(s)
    BY <2>1, <2>3, <1>6, <1>7, SkipsExactly
  <2> QED BY <2>2, <2>4, <1>2, <1>5 DEF KeepsMsb
<1> HIDE DEF res
<1>9. GoodMsb(res.bs) /\ Decoded(b, "msb", s, res.bs)
  BY <1>7, <1>8 DEF Decoded, left
<1> QED BY <1>9 DEF res, s, w, peek, MaxCodeLen

LEMMA FastDecodes ==
    ASSUME codec # "lsb", NEW b, GoodMsb(b), bs_reader_bits_left(b) >= 6
    PROVE  LET peek == bs_peek_bits_unchecked(b, MaxCodeLen)
               s    == First(MatchTop(peek.ret.value))
               r    == bs_skip_bits_unchecked(peek.bs, CodeLen(s)).bs
           IN  GoodMsb(r) /\ Decoded(b, "msb", s, r)
<1> DEFINE peek == bs_peek_bits_unchecked(b, 6)  w == peek.ret.value
           s == First(MatchTop(w))
           res == bs_skip_bits_unchecked(peek.bs, CodeLen(s))
           left == bs_reader_bits_left(b)
<1>1. 6 \in 0 .. MaxBits
  BY WidthFacts
<1>2. left \in Nat /\ left >= 6 /\ 6 <= left
  BY PositionNat DEF GoodMsb
<1>3. GoodMsb(peek.bs) /\ peek.bs.buffer = b.buffer /\ peek.ret \in RetType
  BY <1>1, <1>2, MsbCallsKeep DEF KeepsMsb
<1>4. Sees(b, "msb", 6, peek)
  BY <1>1, <1>2, MsbCallsMeet
<1>5. 6 <= peek.bs.bits_in_cache
  BY <1>1, <1>2, LoadedMsb DEF bs_peek_bits_unchecked, Result
<1> HIDE DEF peek
<1>6. /\ w \in Word(MaxBits)
      /\ w = Field(b.buffer, "msb", Position(b), 6, MaxBits)
      /\ Position(peek.bs) = Position(b)
  BY <1>3, <1>4 DEF RetType, Sees, Value, Ret
<1>7. s \in Symbols /\ \A t \in Symbols : Ahead(b, "msb", t) => s = t
  BY <1>6, FullWindow
<1> HIDE DEF s, w
<1>8. /\ CodeLen(s) \in 0 .. 6 /\ CodeLen(s) \in 0 .. MaxBits
      /\ CodeLen(s) <= peek.bs.bits_in_cache
      /\ CodeLen(s) <= left
  <2>1. peek.bs.bits_in_cache \in Nat /\ MaxBits \in Nat
    BY <1>3, WidthFacts DEF GoodMsb, Bounded, Readers
  <2> HIDE DEF left
  <2> QED BY <2>1, <1>1, <1>2, <1>5, <1>7, CodeLens
<1>9. bs_reader_bits_left(peek.bs) = left /\ Bounded(peek.bs)
  BY <1>3, <1>6, PositionNat DEF GoodMsb
<1> HIDE DEF left
<1>10. /\ GoodMsb(res.bs) /\ res.bs.buffer = b.buffer
       /\ Position(res.bs) = Position(b) + CodeLen(s)
  <2>1. KeepsMsb(peek.bs, res)
    BY <1>3, <1>8, MsbCallsKeep
  <2>2. Skips(peek.bs, CodeLen(s), res)
    BY <1>3, <1>8, MsbCallsMeet
  <2> HIDE DEF res
  <2>3. Position(res.bs) = Position(peek.bs) + CodeLen(s)
    BY <2>2, <1>8, <1>9, SkipsExactly
  <2> QED BY <2>1, <2>3, <1>3, <1>6 DEF KeepsMsb
<1> HIDE DEF res
<1>11. GoodMsb(res.bs) /\ Decoded(b, "msb", s, res.bs)
  BY <1>7, <1>10 DEF Decoded
<1> QED BY <1>11 DEF res, s, w, peek, MaxCodeLen

LEMMA LsbDecodes ==
    ASSUME codec = "lsb", NEW b, GoodLsb(b)
    PROVE  LET width   == MinOf(bs_reader_bits_left(b), MaxCodeLen)
               peek    == bs_peek_bits_lsb(b, width)
               entries == MatchBottom(peek.ret.value, width)
               s       == First(entries)
               r       == bs_skip_bits_lsb(peek.bs, CodeLen(s)).bs
           IN
           /\ entries # {} => GoodLsb(r) /\ Decoded(b, "lsb", s, r)
           /\ bs_reader_bits_left(b) >= 6
                => width = 6 /\ \A t \in Symbols : Ahead(b, "lsb", t) => t \in entries
<1> DEFINE left == bs_reader_bits_left(b)  width == MinOf(left, 6)
           peek == bs_peek_bits_lsb(b, width)  w == peek.ret.value
           entries == MatchBottom(w, width)  s == First(entries)
           res == bs_skip_bits_lsb(peek.bs, CodeLen(s))
<1>1. left \in Nat /\ MaxBits \in Nat /\ MaxBits >= 6 /\ Position(b) \in Nat
  BY WidthFacts, PositionNat DEF GoodLsb
<1>2. /\ width \in 0 .. 6 /\ width \in 0 .. MaxBits /\ width <= left
      /\ left >= 6 => width = 6
  <2> HIDE DEF left
  <2> QED BY <1>1 DEF MinOf
<1> HIDE DEF width
<1>3. GoodLsb(peek.bs) /\ peek.bs.buffer = b.buffer /\ peek.ret \in RetType
  BY <1>2, LsbCallsKeep DEF KeepsLsb
<1>4. Sees(b, "lsb", width, peek)
  <2>1. Sees(b, "lsb", width, peek) \/ Refuses(b, width, peek)
    BY <1>2, LsbCallsMeet
  <2>2. ~ (width > left)
    <3> HIDE DEF left
    <3> QED BY <1>1, <1>2
  <2> QED BY <2>1, <2>2 DEF Refuses
<1> HIDE DEF peek
<1>5. /\ w \in Word(MaxBits)
      /\ w = Field(b.buffer, "lsb", Position(b), width, MaxBits)
      /\ Position(peek.bs) = Position(b)
  BY <1>3, <1>4 DEF RetType, Sees, Value, Ret
<1> HIDE DEF w
<1>6. \A j \in 0 .. width - 1 :
        w[j] = StreamBit(b.buffer, "lsb", Position(b) + j)
  BY <1>1, <1>2, <1>5, WindowIs
<1>7. ASSUME left >= 6, NEW t \in Symbols, Ahead(b, "lsb", t)
      PROVE  /\ CodeLen(t) <= width
             /\ \A j \in 0 .. CodeLen(t) - 1 : w[j] = CodeBit(t, j)
  <2>1. width = 6 /\ CodeLen(t) \in 1 .. 6
    BY <1>2, <1>7, CodeLens
  <2>2. \A j \in 0 .. CodeLen(t) - 1 : j \in 0 .. width - 1
    BY <2>1
  <2> QED BY <2>1, <2>2, <1>6, <1>7 DEF Ahead
<1>8. ASSUME left >= 6, NEW t \in Symbols, Ahead(b, "lsb", t)
      PROVE  t \in entries
  BY <1>5, <1>7, <1>8, LsbMatch
<1>9. ASSUME entries # {} PROVE GoodLsb(res.bs) /\ Decoded(b, "lsb", s, res.bs)
  <2>1. /\ s \in Symbols /\ CodeLen(s) <= width
        /\ \A t \in Symbols :
             /\ CodeLen(t) <= width
             /\ \A j \in 0 .. CodeLen(t) - 1 : w[j] = CodeBit(t, j)
             => s = t
    BY <1>5, <1>9, LsbFirst
  <2> HIDE DEF entries, s
  <2>2. CodeLen(s) \in 0 .. 6 /\ CodeLen(s) \in Nat /\ CodeLen(s) <= left
    <3> HIDE DEF left
    <3> QED BY <2>1, <1>1, <1>2, CodeLens
  <2>3. bs_reader_bits_left(peek.bs) = left /\ Bounded(peek.bs)
    BY <1>3, <1>5, PositionNat DEF GoodLsb
  <2>4. KeepsLsb(peek.bs, res) /\ Skips(peek.bs, CodeLen(s), res)
    BY <2>2, <1>2, <1>3, LsbCallsKeep, LsbCallsMeet
  <2> HIDE DEF res
  <2>5. Position(res.bs) = Position(peek.bs) + CodeLen(s)
    <3> HIDE DEF left
    <3> QED BY <2>2, <2>3, <2>4, SkipsExactly
  <2>6. left >= 6 => \A t \in Symbols : Ahead(b, "lsb", t) => s = t
    BY <2>1, <1>7
  <2> QED BY <2>1, <2>4, <2>5, <2>6, <1>3, <1>5 DEF KeepsLsb, Decoded
<1>10. /\ entries # {} => GoodLsb(res.bs) /\ Decoded(b, "lsb", s, res.bs)
       /\ left >= 6
            => width = 6 /\ \A t \in Symbols : Ahead(b, "lsb", t) => t \in entries
  BY <1>2, <1>8, <1>9
<1> QED BY <1>10 DEF res, s, entries, w, peek, width, left, MaxCodeLen

---------------------------------------------------------------------------
\* The steps: encoding.

LEMMA NothingOut == BitsOf(<< >>) = 0
<1>1. Len(<< >>) = 0
  OBVIOUS
<1> QED BY <1>1, BitsAreEnds, CellsFinite

LEMMA IInvInit == Init => IInv
<1> SUFFICES ASSUME Init PROVE IInv
  OBVIOUS
<1>1. /\ codec \in Codecs /\ message \in Messages /\ room \in OutSizes
      /\ sent = 0 /\ br = bs_reader_init(<< >>) /\ out = << >> /\ pc = "encode"
  BY DEF Init
<1>2. PICK n \in WireSizes : bw = bs_writer_init(Wire(n))
  BY DEF Init
<1>3. n \in Nat /\ Zero(8) \in Byte
  BY CodecAssumption DEF Zero, Byte, Word, Bit
<1>4. Wire(n) \in Seq(Byte)
  BY <1>3 DEF Wire
<1>5. Carries(bw, PackingOf(codec), StreamOf(Sent), 0)
  BY <1>2, <1>4, OpenedCarries
<1>6. Ends(Sent, 0) = 0
  BY CellsFinite
<1>7. GoodReader(br)
  <2>1. << >> \in Seq(Byte)
    OBVIOUS
  <2> QED BY <2>1, <1>1, OpenedGood DEF GoodReader
<1>8. Position(br) = 0
  BY <1>1 DEF bs_reader_init, Position
<1>9. Encoding
  BY <1>1, <1>5, <1>6, <1>8 DEF Encoding
<1>10. BitsOf(out) <= Position(br)
  BY <1>1, <1>8, NothingOut
<1>11. Len(message) \in Nat /\ room \in Nat /\ out \in Seq(Text)
  BY <1>1, SentIs, CodecAssumption
<1>12. Concluded
  BY <1>1 DEF Concluded
<1> QED BY <1>1, <1>7, <1>9, <1>10, <1>11, <1>12 DEF IInv, Fitted

LEMMA EncodeKeeps ==
    ASSUME IInv, EncodeSymbol \/ EncodeSentinel PROVE IInv'
<1> DEFINE k == sent + 1
<1>1. /\ pc = "encode" /\ message \in Messages /\ Len(message) \in Nat
      /\ sent \in 0 .. Len(message) /\ Encoding
      /\ UNCHANGED << codec, message, br, room, out >>
  BY SentIs DEF IInv, EncodeSymbol, EncodeSentinel
<1>2. k \in 1 .. Len(message) + 1 /\ k - 1 = sent
  BY <1>1
<1>3. /\ bw' = WriteCode(Sent[k])
      /\ \/ pc' = "encode" /\ sent' = k /\ k <= Len(message)
         \/ pc' = "flush" /\ sent' = sent /\ k = Len(message) + 1
  <2>1. CASE EncodeSymbol
    <3>1. sent < Len(message) /\ bw' = WriteCode(message[k])
          /\ sent' = k /\ pc' = pc
      BY <2>1 DEF EncodeSymbol
    <3>2. k \in 1 .. Len(message)
      BY <3>1, <1>1
    <3>3. Sent[k] = message[k]
      BY <3>2, <1>1, SentIs
    <3> QED BY <3>1, <3>2, <3>3, <1>1
  <2>2. CASE EncodeSentinel
    <3>1. sent = Len(message) /\ bw' = WriteCode(Sentinel)
          /\ sent' = sent /\ pc' = "flush"
      BY <2>2 DEF EncodeSentinel
    <3>2. Sent[k] = Sentinel
      BY <3>1, <1>1, SentIs
    <3> QED BY <3>1, <3>2
  <2> QED BY <2>1, <2>2
<1> HIDE DEF k
<1>4. Carries(bw', PackingOf(codec), StreamOf(Sent), Ends(Sent, k))
  <2>1. Carries(bw, PackingOf(codec), StreamOf(Sent), Ends(Sent, k - 1))
    BY <1>1, <1>2 DEF Encoding
  <2> QED BY <2>1, <1>1, <1>2, <1>3, CodeWritten
<1>5. Sent' = Sent
  BY <1>1 DEF Sent
<1>6. Encoding'
  <2>1. Ends(Sent', IF pc' = "flush" THEN Len(message') + 1 ELSE sent')
          = Ends(Sent, k)
    BY <1>1, <1>3, <1>5
  <2>2. Carries(bw', PackingOf(codec'), StreamOf(Sent'), Ends(Sent, k))
    BY <1>1, <1>4, <1>5
  <2>3. out' = << >> /\ Position(br') = 0
    BY <1>1 DEF Encoding
  <2> QED BY <2>1, <2>2, <2>3 DEF Encoding
<1>7. (sent \in 0 .. Len(message))'
  BY <1>1, <1>2, <1>3
<1>8. GoodReader(br)' /\ BitsOf(out') <= Position(br')
  BY <1>1 DEF IInv, GoodReader
<1>9. Concluded'
  BY <1>3 DEF Concluded
<1> QED BY <1>1, <1>3, <1>6, <1>7, <1>8, <1>9 DEF IInv, Fitted

\* A flush puts the codes on the wire, as far as they fit.
LEMMA FlushKeeps ==
    ASSUME IInv, FlushAndOpen PROVE IInv'
<1> DEFINE n == TotalBits  cap == Len(bw.buffer)  d == bw'  w == WireOf(d)
           o == PackingOf(codec)  stream == StreamOf(Sent)
<1>1. /\ pc = "flush" /\ message \in Messages /\ codec \in Codecs
      /\ room \in Nat /\ sent \in 0 .. Len(message) /\ Encoding
      /\ UNCHANGED << codec, message, sent, room, out >>
      /\ pc' \in {"refused", "decode"}
  BY DEF IInv, FlushAndOpen
<1>2. /\ d = IF codec = "lsb" THEN bs_writer_flush_lsb(bw, "masked")
             ELSE bs_writer_flush(bw, "masked")
      /\ br' = bs_reader_init(IF d.overflow /\ codec = "lsb" THEN << >> ELSE w)
      /\ pc' = IF d.overflow /\ codec \in {"safe", "fast"}
               THEN "refused" ELSE "decode"
  BY DEF FlushAndOpen, WireOf
<1>3. /\ n = Ends(Sent, Len(message) + 1) /\ n \in Nat
      /\ Len(Sent) = Len(message) + 1 /\ Sent \in Seq(Symbols)
  BY <1>1, Totals, SentIs
<1>4. Carries(bw, o, stream, n) /\ out = << >>
  BY <1>1, <1>3 DEF Encoding
<1>5. \A j \in 1 .. 7 : stream[n + j] = 0
  <2> TAKE j \in 1 .. 7
  <2>1. j \in Nat \ {0}
    OBVIOUS
  <2> HIDE DEF n
  <2> QED BY <2>1, <1>3, StreamEnds
<1>6. Drains(bw, d) /\ Longer(bw, d, o, PadOf(bw))
  <2>1. Good(bw)
    BY <1>4 DEF Carries
  <2> QED BY <2>1, <1>2, FlushDrainsCall, FlushLonger DEF PackingOf
<1>7. Sent' = Sent /\ TotalBits' = n /\ o' = o /\ stream' = stream
  BY <1>1 DEF Sent, TotalBits
<1> HIDE DEF n, d, o, stream
<1>8. /\ Good(d) /\ Len(d.buffer) = cap /\ cap \in Nat
      /\ d.overflow <=> n > 8 * cap
      /\ w \in Seq(Byte) /\ Len(w) = MinOf((n + 7) \div 8, cap)
      /\ \A j \in 1 .. 8 * Len(w) : StreamBit(w, o, j - 1) = stream[j]
  <2>1. n \in Nat /\ Carries(bw, o, stream, n) /\ \A j \in 1 .. 7 : stream[n + j] = 0
    BY <1>3, <1>4, <1>5
  <2> QED BY <2>1, <1>6, FlushCarries
<1> HIDE DEF w, cap
<1>9. Len(w) \in Nat /\ Len(w) <= cap
  BY <1>3, <1>8 DEF MinOf
<1>10. /\ GoodReader(br') /\ Position(br') = 0
       /\ Len(br'.buffer) <= cap
       /\ ~ d.overflow => br'.buffer = w
  <2> DEFINE data == IF d.overflow /\ codec = "lsb" THEN << >> ELSE w
  <2>1. data \in Seq(Byte) /\ Len(data) <= cap
    BY <1>8, <1>9
  <2>2. ~ d.overflow => data = w
    OBVIOUS
  <2>3. br' = bs_reader_init(data)
    BY <1>2
  <2> HIDE DEF data
  <2>4. GoodReader(br') /\ br'.buffer = data
    BY <2>1, <2>3, OpenedGood DEF GoodReader
  <2>5. Position(br') = 0
    BY <2>3 DEF bs_reader_init, Position
  <2> QED BY <2>1, <2>2, <2>4, <2>5
<1>11. ~ d.overflow => n <= 8 * Len(w)
  <2>1. ASSUME ~ d.overflow PROVE Len(w) = (n + 7) \div 8
    <3>1. n <= 8 * cap
      BY <2>1, <1>3, <1>8
    <3>2. (n + 7) \div 8 <= cap
      BY <3>1, <1>3, <1>8
    <3> QED BY <3>2, <1>8 DEF MinOf
  <2> QED BY <2>1, <1>3
<1>12. OnWire'
  <2>1. /\ Good(bw')
        /\ bw'.overflow <=> TotalBits' > 8 * Len(bw'.buffer)
        /\ Len(br'.buffer) <= Len(bw'.buffer)
    BY <1>7, <1>8, <1>10 DEF d
  <2>2. ASSUME ~ bw'.overflow
        PROVE  /\ TotalBits' <= 8 * Len(br'.buffer)
               /\ \A j \in 1 .. 8 * Len(br'.buffer) :
                    StreamBit(br'.buffer, PackingOf(codec'), j - 1)
                      = StreamOf(Sent')[j]
    <3>1. PackingOf(codec') = o /\ StreamOf(Sent') = stream
      BY <1>1, <1>7 DEF o, stream
    <3> QED BY <2>2, <3>1, <1>7, <1>8, <1>10, <1>11 DEF d
  <2> QED BY <2>1, <2>2 DEF OnWire
<1>13. Position(br') = BitsOf(out')
  BY <1>1, <1>4, <1>10, NothingOut
<1>14. Started' /\ out' \in Seq(Text)
  BY <1>1, <1>4, SentIs DEF Started
<1>15. Concluded'
  BY <1>1 DEF Concluded
<1>16. GoodReader(br)'
  BY <1>1, <1>10 DEF GoodReader
<1>17. BitsOf(out') <= Position(br')
  BY <1>10, <1>13
<1>18. Fitted'
  BY <1>1, <1>2 DEF Fitted, d
<1> QED BY <1>1, <1>12, <1>13, <1>14, <1>15, <1>16, <1>17, <1>18 DEF IInv

---------------------------------------------------------------------------
\* The steps: decoding.

LEMMA BitsGrow ==
    ASSUME NEW text \in Seq(Text), NEW s \in Text
    PROVE  BitsOf(Append(text, s)) = BitsOf(text) + CodeLen(s)
<1> DEFINE longer == Append(text, s)  L == Len(text)
<1>1. /\ L \in Nat /\ Len(longer) = L + 1 /\ longer[L + 1] = s
      /\ \A i \in 1 .. L : longer[i] = text[i]
      /\ s \in Symbols
  BY DEF Text
<1> HIDE DEF longer, L
<1>2. Ends(longer, L + 1) = Ends(longer, L) + CodeLen(longer[L + 1])
  BY <1>1, NextEnd
<1>3. Ends(longer, L) = Ends(text, L)
  BY <1>1, EndsAgree
<1>4. BitsOf(longer) = Ends(longer, L + 1) /\ BitsOf(text) = Ends(text, L)
  BY <1>1, BitsAreEnds DEF L
<1> QED BY <1>1, <1>2, <1>3, <1>4 DEF longer

LEMMA ReaderBounded ==
    ASSUME NEW b, GoodReader(b)
    PROVE  /\ Bounded(b)
           /\ codec = "lsb" => GoodLsb(b)
           /\ codec # "lsb" => GoodMsb(b)
BY DEF GoodReader, GoodMsb, GoodLsb

\* Between two symbols the next code is ahead, and a full window with it.
LEMMA Boundary ==
    ASSUME IInv, pc = "decode", ~ bw.overflow
    PROVE  LET t == Sent[Len(out) + 1] IN
           /\ t \in Symbols
           /\ Ahead(br, PackingOf(codec), t)
           /\ bs_reader_bits_left(br) >= 6
<1> DEFINE K == Len(out)  t == Sent[K + 1]  n == CodeLen(t)  E == Ends(Sent, K)
           W == Len(br.buffer)  o == PackingOf(codec)
<1>1. /\ message \in Messages /\ out \in Seq(Text) /\ K \in Nat
      /\ GoodReader(br) /\ Position(br) = BitsOf(out) /\ Started /\ OnWire
  BY DEF IInv
<1>2. /\ Len(message) \in Nat /\ Sent \in Seq(Symbols)
      /\ Len(Sent) = Len(message) + 1
      /\ \A k \in 1 .. Len(message) : Sent[k] = message[k]
      /\ \A k \in 1 .. Len(message) + 1 : Sent[k] \in Symbols
  BY <1>1, SentIs
<1>3. /\ K <= Len(message) /\ K + 1 \in 1 .. Len(Sent) /\ t \in Symbols
      /\ \A k \in 1 .. K : out[k] = Sent[k]
  BY <1>1, <1>2 DEF Started
<1>4. Position(br) = E
  BY <1>1, <1>3, BitsAreEnds, EndsAgree
<1>5. n \in 1 .. 6 /\ E \in Nat /\ Ends(Sent, K + 1) = E + n
  BY <1>1, <1>3, CodeLens, CellsFinite, NextEnd
<1>6. /\ TotalBits \in Nat /\ E <= TotalBits - 6 /\ E + n <= TotalBits
  <2>1. /\ Ends(Sent, Len(message)) = TotalBits - 6
        /\ Ends(Sent, Len(message) + 1) = TotalBits /\ TotalBits \in Nat
    BY <1>1, Totals
  <2>2. E <= Ends(Sent, Len(message))
    BY <1>1, <1>2, <1>3, EndsGrow
  <2>3. Ends(Sent, K + 1) <= Ends(Sent, Len(message) + 1)
    <3>1. K + 1 \in Nat /\ Len(message) + 1 \in Nat /\ K + 1 <= Len(message) + 1
      BY <1>1, <1>2, <1>3
    <3> QED BY <3>1, EndsGrow
  <2> HIDE DEF E, n
  <2> QED BY <2>1, <2>2, <2>3, <1>5
<1>7. /\ TotalBits <= 8 * W
      /\ \A j \in 1 .. 8 * W : StreamBit(br.buffer, o, j - 1) = StreamOf(Sent)[j]
  BY <1>1 DEF OnWire
<1>8. W \in Nat /\ bs_reader_bits_left(br) = 8 * W - E
  BY <1>1, <1>4, ReaderBounded, PositionNat
<1>9. \A j \in 1 .. n : StreamOf(Sent)[E + j] = CodeBit(t, j - 1)
  <2> DEFINE k == K + 1
  <2>1. k \in 1 .. Len(Sent) /\ k - 1 = K
    BY <1>1, <1>3
  <2> HIDE DEF k
  <2>2. \A j \in 1 .. CodeLen(Sent[k]) :
          StreamOf(Sent)[Ends(Sent, k - 1) + j] = CodeBit(Sent[k], j - 1)
    BY <2>1, <1>2, CodeInStream
  <2> QED BY <2>1, <2>2 DEF k
<1>10. Ahead(br, o, t)
  <2> SUFFICES ASSUME NEW j \in 0 .. n - 1
               PROVE  StreamBit(br.buffer, o, Position(br) + j) = CodeBit(t, j)
    BY DEF Ahead
  <2> HIDE DEF E, n, W, t, o, K
  <2> DEFINE i == E + (j + 1)
  <2>1. j + 1 \in 1 .. n /\ i \in 1 .. 8 * W /\ i - 1 = E + j /\ (j + 1) - 1 = j
    BY <1>5, <1>6, <1>7, <1>8
  <2>2. StreamOf(Sent)[i] = CodeBit(t, (j + 1) - 1)
    BY <2>1, <1>9
  <2> HIDE DEF i
  <2>3. StreamBit(br.buffer, o, i - 1) = StreamOf(Sent)[i]
    BY <2>1, <1>7
  <2> QED BY <2>1, <2>2, <2>3, <1>4
<1>11. bs_reader_bits_left(br) >= 6
  <2> HIDE DEF E, W
  <2> QED BY <1>5, <1>6, <1>7, <1>8
<1> QED BY <1>3, <1>10, <1>11

\* What every decoder does with a symbol.
LEMMA TakeKeeps ==
    ASSUME IInv, pc = "decode", room # 0, NEW s, NEW r, GoodReader(r),
           Decoded(br, PackingOf(codec), s, r), Take(s, r),
           UNCHANGED << codec, message, bw, sent >>
    PROVE  IInv' /\ bs_reader_bits_left(br') < bs_reader_bits_left(br)
<1>1. /\ codec \in Codecs /\ message \in Messages /\ room \in Nat \ {0}
      /\ sent \in 0 .. Len(message) /\ out \in Seq(Text) /\ Len(out) \in Nat
      /\ GoodReader(br) /\ OnWire /\ Position(br) = BitsOf(out)
      /\ ~ bw.overflow => Started
  BY DEF IInv
<1>2. /\ s \in Symbols /\ CodeLen(s) \in 1 .. 6 /\ r.buffer = br.buffer
      /\ Position(r) = Position(br) + CodeLen(s)
      /\ br' = r
  BY CodeLens DEF Decoded, Take
<1>3. /\ Position(br) \in Nat /\ Position(r) \in Nat /\ Len(br.buffer) \in Nat
      /\ bs_reader_bits_left(br) = 8 * Len(br.buffer) - Position(br)
      /\ bs_reader_bits_left(r) = 8 * Len(br.buffer) - Position(r)
  BY <1>1, <1>2, ReaderBounded, PositionNat
<1>4. bs_reader_bits_left(br') < bs_reader_bits_left(br)
  BY <1>2, <1>3
<1>5. /\ Len(message) \in Nat /\ Sent[Len(message) + 1] = Sentinel
      /\ \A k \in 1 .. Len(message) : Sent[k] = message[k] /\ Sent[k] \in Text
  BY <1>1, SentIs
<1>6. ~ bw.overflow => s = Sent[Len(out) + 1]
  BY Boundary DEF Decoded
<1>7. OnWire'
  BY <1>1, <1>2 DEF OnWire, TotalBits, Sent
<1>8. GoodReader(br)'
  BY <1>2 DEF GoodReader
<1>9. CASE s = Sentinel
  <2>1. out' = out /\ room' = room /\ pc' = "verify"
    BY <1>9 DEF Take
  <2>2. ASSUME ~ bw.overflow PROVE Started /\ Len(out) = Len(message)
    <3>1. Started /\ Len(out) <= Len(message) /\ Sent[Len(out) + 1] = Sentinel
      BY <2>2, <1>1, <1>6, <1>9 DEF Started
    <3>2. ~ (Len(out) + 1 \in 1 .. Len(message))
      <4>1. Sentinel \notin Text
        BY DEF Text
      <4> QED BY <4>1, <3>1, <1>5
    <3> QED BY <3>1, <3>2, <1>1, <1>5
  <2>3. Started' <=> Started
    BY <2>1 DEF Started
  <2>4. Concluded'
    BY <2>1, <2>2 DEF Concluded
  <2>5. BitsOf(out') <= Position(br')
    BY <2>1, <1>1, <1>2, <1>3
  <2> QED BY <2>1, <2>2, <2>3, <2>4, <2>5, <1>1, <1>4, <1>7, <1>8
          DEF IInv, Fitted
<1>10. CASE s # Sentinel
  <2>1. out' = Append(out, s) /\ room' = room - 1 /\ pc' = "decode"
    BY <1>10 DEF Take
  <2>2. s \in Text /\ room' \in Nat
    BY <2>1, <1>1, <1>2, <1>10 DEF Text
  <2>3. /\ out' \in Seq(Text) /\ Len(out') = Len(out) + 1
        /\ out'[Len(out) + 1] = s
        /\ \A k \in 1 .. Len(out) : out'[k] = out[k]
    BY <2>1, <2>2, <1>1
  <2>4. Position(br') = BitsOf(out')
    BY <2>1, <2>2, <1>1, <1>2, BitsGrow
  <2>5. ASSUME ~ bw.overflow PROVE Started'
    <3>1. Started /\ Len(out) <= Len(message) /\ s = Sent[Len(out) + 1]
      BY <2>5, <1>1, <1>6 DEF Started
    <3>2. Len(out) # Len(message)
      BY <3>1, <1>5, <1>10
    <3>3. Len(out) + 1 \in 1 .. Len(message)
      BY <3>1, <3>2, <1>1, <1>5
    <3>4. s = message[Len(out) + 1]
      BY <3>1, <3>3, <1>5
    <3>5. ASSUME NEW k \in 1 .. Len(out) + 1 PROVE out'[k] = message[k]
      <4>1. k \in 1 .. Len(out) \/ k = Len(out) + 1
        BY <1>1
      <4> QED BY <4>1, <2>3, <3>1, <3>4 DEF Started
    <3> QED BY <3>3, <3>5, <2>3, <1>1, <1>5 DEF Started
  <2>6. Concluded'
    BY <2>1 DEF Concluded
  <2>7. BitsOf(out') <= Position(br')
    BY <2>4, <1>2, <1>3
  <2>8. Fitted'
    BY DEF IInv, Fitted
  <2> QED BY <2>1, <2>2, <2>3, <2>4, <2>5, <2>6, <2>7, <2>8, <1>1, <1>4, <1>7,
             <1>8 DEF IInv
<1> QED BY <1>9, <1>10

\* What every decoder does when it stops: it has no room left, or, only on
\* a wire that was cut, found no code.
LEMMA StopKeeps ==
    ASSUME IInv, pc = "decode", room = 0 \/ bw.overflow, Stop("verify"),
           UNCHANGED << codec, message, bw, sent >>
    PROVE  IInv' /\ pc' # "decode"
<1>1. pc' = "verify" /\ UNCHANGED << codec, message, bw, sent, br, out, room >>
  BY DEF Stop
<1>2. OnWire' /\ GoodReader(br)'
  BY <1>1 DEF IInv, OnWire, GoodReader, TotalBits, Sent
<1>3. Started' <=> Started
  BY <1>1 DEF Started
<1>4. Concluded'
  BY <1>1 DEF Concluded
<1>5. BitsOf(out') <= Position(br')
  BY <1>1 DEF IInv
<1> QED BY <1>1, <1>2, <1>3, <1>4, <1>5 DEF IInv, Fitted

LEMMA DecodeKeeps ==
    ASSUME IInv, Decode
    PROVE  /\ IInv'
           /\ \/ pc' # "decode"
              \/ bs_reader_bits_left(br') < bs_reader_bits_left(br)
<1>1. /\ pc = "decode" /\ UNCHANGED << codec, message, bw, sent >>
      /\ GoodReader(br) /\ codec \in Codecs
      /\ DecodeHuffman \/ DecodeSafe \/ DecodeFast \/ DecodeLsb
  BY DEF IInv, Decode
<1>2. ~ bw.overflow => bs_reader_bits_left(br) >= 6
  BY <1>1, Boundary
<1>3. /\ Position(br) \in Nat /\ Len(br.buffer) \in Nat
      /\ bs_reader_bits_left(br) \in Nat
      /\ codec # "lsb" => GoodMsb(br)
      /\ codec = "lsb" => GoodLsb(br)
  BY <1>1, ReaderBounded, PositionNat
<1>4. ASSUME codec # "lsb", room # 0, bs_reader_bits_left(br) > 0, decode_symbol
      PROVE  IInv' /\ bs_reader_bits_left(br') < bs_reader_bits_left(br)
  <2> DEFINE peek == bs_peek_bits(br, MaxCodeLen)
             s    == First(MatchTop(peek.ret.value))
             r    == bs_skip_bits(peek.bs, CodeLen(s)).bs
  <2>1. GoodMsb(r) /\ Decoded(br, "msb", s, r)
    BY <1>3, <1>4, MsbDecodes
  <2>2. Take(s, r)
    BY <1>4 DEF decode_symbol
  <2> HIDE DEF s, r
  <2>3. GoodReader(r) /\ PackingOf(codec) = "msb"
    BY <2>1, <1>4 DEF GoodReader, PackingOf
  <2> QED BY <2>1, <2>2, <2>3, <1>1, <1>4, TakeKeeps
<1>5. CASE DecodeHuffman
  <2>1. codec = "huffman"
    BY <1>5 DEF DecodeHuffman
  <2>2. CASE bs_reader_eof(br) \/ room = 0
    <3>1. bs_reader_eof(br) => bs_reader_bits_left(br) = 0
      BY DEF bs_reader_eof, bs_reader_bits_left
    <3>2. room = 0 \/ bw.overflow
      BY <3>1, <2>2, <1>2
    <3>3. Stop("verify")
      BY <2>2, <1>5 DEF DecodeHuffman
    <3> QED BY <3>2, <3>3, <1>1, StopKeeps
  <2>3. CASE ~ (bs_reader_eof(br) \/ room = 0)
    <3>1. decode_symbol
      BY <2>3, <1>5 DEF DecodeHuffman
    <3>2. bs_reader_bits_left(br) > 0
      <4>1. /\ br.byte_pos \in Nat /\ br.bits_in_cache \in Nat
            /\ Len(br.buffer) \in Nat
        BY <1>1, ReaderBounded, WidthFacts DEF Bounded, Readers
      <4> QED BY <4>1, <2>3 DEF bs_reader_eof, bs_reader_bits_left
    <3> QED BY <3>1, <3>2, <2>1, <2>3, <1>4
  <2> QED BY <2>2, <2>3
<1>6. ASSUME codec \in {"safe", "fast"} PROVE ~ bw.overflow
  BY <1>1, <1>6 DEF IInv, Fitted
<1>7. CASE DecodeSafe
  <2>1. codec = "safe"
    BY <1>7 DEF DecodeSafe
  <2>2. CASE room = 0
    <3>1. Stop("verify")
      BY <2>2, <1>7 DEF DecodeSafe
    <3> QED BY <3>1, <2>2, <1>1, StopKeeps
  <2>3. CASE room # 0
    <3>1. decode_symbol
      BY <2>3, <1>7 DEF DecodeSafe
    <3>2. bs_reader_bits_left(br) > 0
      BY <2>1, <1>2, <1>3, <1>6
    <3> QED BY <3>1, <3>2, <2>1, <2>3, <1>4
  <2> QED BY <2>2, <2>3
<1>8. CASE DecodeFast
  <2>1. codec = "fast"
    BY <1>8 DEF DecodeFast
  <2>2. CASE room = 0
    <3>1. Stop("verify")
      BY <2>2, <1>8 DEF DecodeFast
    <3> QED BY <3>1, <2>2, <1>1, StopKeeps
  <2>3. CASE room # 0
    <3> DEFINE peek == bs_peek_bits_unchecked(br, MaxCodeLen)
               s    == First(MatchTop(peek.ret.value))
               r    == bs_skip_bits_unchecked(peek.bs, CodeLen(s)).bs
    <3>1. bs_reader_bits_left(br) >= 6 /\ ~ (bs_reader_bits_left(br) < MaxCodeLen)
      BY <2>1, <1>2, <1>3, <1>6 DEF MaxCodeLen
    <3>2. Take(s, r)
      BY <3>1, <2>3, <1>8 DEF DecodeFast
    <3>3. GoodMsb(r) /\ Decoded(br, "msb", s, r)
      BY <3>1, <2>1, <1>3, FastDecodes
    <3> HIDE DEF s, r
    <3>4. GoodReader(r) /\ PackingOf(codec) = "msb"
      BY <3>3, <2>1 DEF GoodReader, PackingOf
    <3> QED BY <3>2, <3>3, <3>4, <2>3, <1>1, TakeKeeps
  <2> QED BY <2>2, <2>3
<1>9. CASE DecodeLsb
  <2> DEFINE width   == MinOf(bs_reader_bits_left(br), MaxCodeLen)
             peek    == bs_peek_bits_lsb(br, width)
             entries == MatchBottom(peek.ret.value, width)
             s       == First(entries)
             r       == bs_skip_bits_lsb(peek.bs, CodeLen(s)).bs
  <2>1. /\ codec = "lsb"
        /\ IF room = 0 \/ width = 0 \/ entries = {} THEN Stop("verify")
           ELSE Take(s, r)
    BY <1>9 DEF DecodeLsb
  <2>2. /\ entries # {} => GoodLsb(r) /\ Decoded(br, "lsb", s, r)
        /\ bs_reader_bits_left(br) >= 6
             => /\ width = 6
                /\ \A t \in Symbols : Ahead(br, "lsb", t) => t \in entries
    BY <2>1, <1>3, LsbDecodes
  <2>3. PackingOf(codec) = "lsb"
    BY <2>1 DEF PackingOf
  <2> HIDE DEF width, entries, s, r
  <2>4. ~ bw.overflow => width = 6 /\ entries # {}
    BY <2>2, <2>3, <1>1, Boundary
  <2>5. CASE room = 0 \/ width = 0 \/ entries = {}
    <3>1. room = 0 \/ bw.overflow
      BY <2>4, <2>5
    <3> QED BY <3>1, <2>1, <2>5, <1>1, StopKeeps
  <2>6. CASE ~ (room = 0 \/ width = 0 \/ entries = {})
    <3>1. GoodReader(r) /\ Decoded(br, PackingOf(codec), s, r)
      BY <2>1, <2>2, <2>3, <2>6 DEF GoodReader
    <3> QED BY <3>1, <2>1, <2>6, <1>1, TakeKeeps
  <2> QED BY <2>5, <2>6
<1> QED BY <1>1, <1>5, <1>7, <1>8, <1>9

LEMMA VerifyKeeps ==
    ASSUME IInv, Verify PROVE IInv'
<1>1. /\ pc = "verify" /\ UNCHANGED << codec, message, bw, sent, br, room, out >>
      /\ pc' = IF out = message THEN "verified" ELSE "mismatch"
  BY DEF Verify
<1>2. /\ message \in Seq(Text) /\ out \in Seq(Text) /\ room \in Nat
      /\ Len(out) \in Nat /\ Len(message) \in Nat
  BY SentIs DEF IInv
<1>3. ASSUME ~ bw.overflow, out # message PROVE Len(message) > Len(out) + room
  <2>1. Started /\ (Len(out) = Len(message) \/ room = 0)
    BY <1>1, <1>3 DEF IInv, Concluded
  <2>2. Len(out) # Len(message)
    <3>1. ASSUME Len(out) = Len(message) PROVE out = message
      BY <3>1, <2>1, <1>2 DEF Started
    <3> QED BY <3>1, <1>3
  <2> QED BY <2>1, <2>2, <1>2 DEF Started
<1>4. Concluded'
  BY <1>1, <1>3 DEF Concluded
<1>5. OnWire' /\ GoodReader(br)'
  BY <1>1 DEF IInv, OnWire, GoodReader, TotalBits, Sent
<1>6. BitsOf(out') <= Position(br')
  BY <1>1 DEF IInv
<1> QED BY <1>1, <1>4, <1>5, <1>6 DEF IInv, Fitted

LEMMA IInvStep == IInv /\ [Next]_vars => IInv'
<1> SUFFICES ASSUME IInv, [Next]_vars PROVE IInv'
  OBVIOUS
<1>1. CASE UNCHANGED vars
  BY <1>1 DEF vars, IInv, Encoding, OnWire, GoodReader, Started, Concluded,
              Fitted, TotalBits, Sent
<1> QED BY <1>1, EncodeKeeps, FlushKeeps, DecodeKeeps, VerifyKeeps DEF Next

---------------------------------------------------------------------------
\* What the invariant says of the programs.

LEMMA IInvTypes == IInv => TypeOK
<1> SUFFICES ASSUME IInv PROVE TypeOK
  OBVIOUS
<1>1. Good(bw)
  BY DEF IInv, Encoding, OnWire, Carries
<1>2. Bounded(br)
  BY ReaderBounded DEF IInv
<1> QED BY <1>1, <1>2 DEF IInv, Good, Within, Bounded, TypeOK

LEMMA StartedIs ==
    ASSUME IInv, Started
    PROVE  Len(out) <= Len(message) /\ out = SubSeq(message, 1, Len(out))
<1>1. /\ message \in Seq(Text) /\ out \in Seq(Text)
      /\ Len(out) \in Nat /\ Len(message) \in Nat
  BY SentIs DEF IInv
<1> QED BY <1>1 DEF Started

LEMMA IInvInStep == IInv => InStep
<1> SUFFICES ASSUME IInv, pc = "decode", ~ bw.overflow
             PROVE  /\ Len(out) <= Len(message)
                    /\ out = SubSeq(message, 1, Len(out))
                    /\ 8 * Len(br.buffer) - bs_reader_bits_left(br) = BitsOf(out)
  BY DEF InStep
<1>1. Started /\ Position(br) = BitsOf(out) /\ GoodReader(br)
  BY DEF IInv
<1>2. /\ Position(br) \in Nat /\ Len(br.buffer) \in Nat
      /\ bs_reader_bits_left(br) = 8 * Len(br.buffer) - Position(br)
  BY <1>1, ReaderBounded, PositionNat
<1>3. 8 * Len(br.buffer) - bs_reader_bits_left(br) = BitsOf(out)
  BY <1>1, <1>2
<1> QED BY <1>1, <1>3, StartedIs

LEMMA IInvRoundTrip == IInv => RoundTrip
<1> SUFFICES ASSUME IInv, pc = "verify", ~ bw.overflow
             PROVE  out = SubSeq(message, 1, MinOf(Len(message), Len(out) + room))
  BY DEF RoundTrip
<1>1. /\ Started /\ (Len(out) = Len(message) \/ room = 0) /\ room \in Nat
      /\ Len(out) \in Nat /\ Len(message) \in Nat
  BY SentIs DEF IInv, Concluded
<1>2. Len(out) <= Len(message) /\ out = SubSeq(message, 1, Len(out))
  BY <1>1, StartedIs
<1>3. MinOf(Len(message), Len(out) + room) = Len(out)
  <2>1. \A l, m, n \in Nat : l <= m /\ (l = m \/ n = 0) => MinOf(m, l + n) = l
    BY DEF MinOf
  <2> QED BY <2>1, <1>1, <1>2
<1> QED BY <1>2, <1>3

LEMMA IInvEnds == IInv => NeverAborts /\ OverflowIsExact
BY DEF IInv, NeverAborts, OverflowIsExact, OnWire

LEMMA IInvVerdict == IInv => VerdictIsHonest
<1> SUFFICES ASSUME IInv PROVE VerdictIsHonest
  OBVIOUS
<1>1. ASSUME pc = "verified" PROVE BitsOf(message) <= 8 * Len(bw.buffer)
  <2>1. /\ out = message /\ BitsOf(out) <= Position(br) /\ OnWire
        /\ GoodReader(br) /\ message \in Messages
    BY <1>1 DEF IInv, Concluded
  <2>2. /\ Position(br) <= 8 * Len(br.buffer) /\ Position(br) \in Nat
        /\ Len(br.buffer) \in Nat
    BY <2>1, ReaderBounded, PositionNat
  <2>3. Len(br.buffer) <= Len(bw.buffer) /\ Len(bw.buffer) \in Nat
    BY <2>1, WriterFields DEF OnWire, Good
  <2>4. BitsOf(message) \in Nat
    BY <2>1, Totals
  <2>5. BitsOf(message) <= Position(br)
    BY <2>1
  <2> QED BY <2>2, <2>3, <2>4, <2>5
<1>2. pc = "mismatch" => bw.overflow \/ Len(message) > Len(out) + room
  BY DEF IInv, Concluded
<1> QED BY <1>1, <1>2 DEF VerdictIsHonest

---------------------------------------------------------------------------
LEMMA Invariance == Spec => []IInv
BY IInvInit, IInvStep, PTL DEF Spec

\* Whatever the message and the memories, the writer and the reader of every
\* codec stay well formed.
THEOREM CodecTypeCorrect == Spec => []TypeOK
BY Invariance, IInvTypes, PTL

\* Until they stop, all four decoding loops are at a boundary of the codes
\* sent, and have put out the symbols before it.
THEOREM DecodersStayInStep == Spec => []InStep
BY Invariance, IInvInStep, PTL

\* A decoder stops at the end of the message or of its output, never at, or
\* behind, anything else.
THEOREM CodesRoundTrip == Spec => []RoundTrip
BY Invariance, IInvRoundTrip, PTL

\* huffman_decode_fast never comes to fewer bits than it asserts there are.
THEOREM FastNeverAborts == Spec => []NeverAborts
BY Invariance, IInvEnds, PTL

\* The flush reports an overflow for the messages that are too long for the
\* memory, and for no other.
THEOREM OverflowIsReported == Spec => []OverflowIsExact
BY Invariance, IInvEnds, PTL

\* What a program says at its end is so, also when it has ignored an
\* overflow.
THEOREM VerdictsAreHonest == Spec => []VerdictIsHonest
BY Invariance, IInvVerdict, PTL

\* No decoding loop goes round without consuming bits.
THEOREM DecodersAdvance == Spec => Advances
<1>1. IInv /\ [Next]_vars
        => [Decode => pc' # "decode"
                      \/ bs_reader_bits_left(br') < bs_reader_bits_left(br)]_vars
  BY DecodeKeeps
<1> QED BY <1>1, Invariance, PTL DEF Spec, Advances

=============================================================================
