----------------------------- MODULE CallLemmas -----------------------------
(***************************************************************************)
(* What the calls of bitstream.h do, for every width, memory and argument. *)
(*                                                                         *)
(* To a reader: they keep it well formed and its cache in agreement with   *)
(* the buffer, and each consumes, returns or refuses the bits at the       *)
(* reader's position in the stream.                                        *)
(*                                                                         *)
(* To a writer, for either outcome of the shifts an overrun makes          *)
(* undefined: they keep it well formed, only append to the memory, and     *)
(* each appends certain bits to those the writer keeps.  Kept are the bits *)
(* stored and, unless the memory has been overrun, those enqueued.         *)
(***************************************************************************)
EXTENDS BitReader, BitWriter, TLAPS, SequenceTheorems

---------------------------------------------------------------------------
\* Readers.

\* What holds of a reader between two calls, one formula per family.
Bounded(b) ==
    /\ b \in Readers
    /\ b.byte_pos <= Len(b.buffer)
    /\ b.bits_in_cache <= 8 * b.byte_pos

GoodMsb(b) == Bounded(b) /\ CacheMirrorsMsb(b)
GoodLsb(b) == Bounded(b) /\ CacheMirrorsLsb(b)

RetType == [value : Word(MaxBits), ok : BOOLEAN, bytes : Seq(Byte)]

\* The number of bytes a refill loads fits the cache and the buffer.
LEMMA LoadBounds ==
    ASSUME NEW b, Bounded(b)
    PROVE  /\ bytes_to_load(b) \in Nat
           /\ b.bits_in_cache + 8 * bytes_to_load(b) <= CacheBits
           /\ b.byte_pos + bytes_to_load(b) <= Len(b.buffer)
           /\ \/ b.bits_in_cache + 8 * bytes_to_load(b) > CacheBits - 8
              \/ b.byte_pos + bytes_to_load(b) = Len(b.buffer)
<1> DEFINE L == Len(b.buffer)  p == b.byte_pos  n == b.bits_in_cache
<1>1. /\ L \in Nat /\ p \in Nat /\ n \in Nat /\ n <= CacheBits /\ p <= L
      /\ CacheBits \in Nat
  BY WidthAssumption DEF Bounded, Readers
<1>2. bytes_to_load(b) = IF (CacheBits - n) \div 8 <= L - p
                         THEN (CacheBits - n) \div 8 ELSE L - p
  BY DEF bytes_to_load, MinOf
<1> HIDE DEF L, p, n
<1>3. (CacheBits - n) \div 8 \in Nat /\ 8 * ((CacheBits - n) \div 8) <= CacheBits - n
      /\ 8 * ((CacheBits - n) \div 8) > CacheBits - n - 8
  BY <1>1
<1>4. bytes_to_load(b) \in Nat
      /\ n + 8 * bytes_to_load(b) <= CacheBits
      /\ p + bytes_to_load(b) <= L
      /\ (n + 8 * bytes_to_load(b) > CacheBits - 8 \/ p + bytes_to_load(b) = L)
  BY <1>1, <1>2, <1>3
<1> QED BY <1>4 DEF L, p, n

\* Bytes of the buffer have bits.
LEMMA BufferBit ==
    ASSUME NEW b \in Readers, NEW j \in 1 .. Len(b.buffer), NEW m \in 0 .. 7
    PROVE  b.buffer[j][m] \in Bit
<1>1. b.buffer \in Seq(Byte)
  BY DEF Readers
<1>2. b.buffer[j] \in Byte
  BY <1>1
<1> QED BY <1>2 DEF Byte, Word

---------------------------------------------------------------------------
\* Where a bit of the cache sits in the buffer, byte and bit index.

LEMMA MsbIndex ==
    ASSUME NEW q \in Nat, NEW i \in Nat, i < 8 * q
    PROVE  /\ ((8 * q - 1 - i) \div 8) + 1 = q - (i \div 8)
           /\ 7 - ((8 * q - 1 - i) % 8) = i % 8
OBVIOUS

LEMMA LsbIndex ==
    ASSUME NEW p \in Nat, NEW m \in Nat
    PROVE  /\ ((8 * p + m) \div 8) + 1 = p + 1 + (m \div 8)
           /\ (8 * p + m) % 8 = m % 8
OBVIOUS

LEMMA ByteIndex ==
    ASSUME NEW q \in Nat, NEW i \in Nat, i < 8 * q
    PROVE  i \div 8 \in 0 .. q - 1 /\ i % 8 \in 0 .. 7
OBVIOUS

---------------------------------------------------------------------------
\* A refill consumes nothing, loads as much as fits, and keeps the family's
\* agreement between the cache and the buffer.
LEMMA RefillMsb ==
    ASSUME NEW b, GoodMsb(b)
    PROVE  /\ GoodMsb(refill(b))
           /\ refill(b).buffer = b.buffer
           /\ Position(refill(b)) = Position(b)
           /\ refill(b).bits_in_cache >= b.bits_in_cache
           /\ \/ refill(b).bits_in_cache > CacheBits - 8
              \/ refill(b).byte_pos = Len(b.buffer)
<1> DEFINE k == bytes_to_load(b)  p == b.byte_pos  n == b.bits_in_cache
           L == Len(b.buffer)  q == p + k  m == n + 8 * k  r == refill(b)
<1>1. /\ b \in Readers /\ Bounded(b) /\ p \in Nat /\ n \in 0 .. CacheBits
      /\ n <= 8 * p /\ CacheBits \in Nat /\ L \in Nat
      /\ b.bit_cache \in Word(CacheBits) /\ b.buffer \in Seq(Byte)
  BY WidthAssumption DEF GoodMsb, Bounded, Readers
<1>2. /\ k \in Nat
      /\ n + 8 * k <= CacheBits
      /\ p + k <= L
      /\ n + 8 * k > CacheBits - 8 \/ p + k = L
  BY <1>1, LoadBounds
<1>3. /\ r.buffer = b.buffer
      /\ r.byte_pos = q
      /\ r.bits_in_cache = m
  BY DEF refill
<1>4. r.bit_cache = [i \in 0 .. CacheBits - 1 |->
                       IF i < 8 * k THEN b.buffer[q - (i \div 8)][i % 8]
                                    ELSE b.bit_cache[i - 8 * k]]
  BY DEF refill
<1>5. r = [buffer |-> r.buffer, byte_pos |-> r.byte_pos,
           bit_cache |-> r.bit_cache, bits_in_cache |-> r.bits_in_cache]
  BY DEF refill
<1>6. \A i \in 0 .. n - 1 :
        b.bit_cache[i] = StreamBit(b.buffer, "msb", 8 * p - 1 - i)
  BY DEF GoodMsb, CacheMirrorsMsb
<1>6a. q = p + k /\ m = n + 8 * k /\ q \in Nat /\ m \in Nat /\ m <= CacheBits
  BY <1>1, <1>2
<1> HIDE DEF k, p, n, L, r, q, m
<1>7. ASSUME NEW i \in 0 .. CacheBits - 1, i < 8 * k
      PROVE  /\ r.bit_cache[i] = b.buffer[q - (i \div 8)][i % 8]
             /\ r.bit_cache[i] \in Bit
  <2>1. q - (i \div 8) \in 1 .. L /\ i % 8 \in 0 .. 7
    BY <1>7, <1>1, <1>2, <1>6a, ByteIndex
  <2>2. b.buffer[q - (i \div 8)][i % 8] \in Bit
    BY <2>1, <1>1, BufferBit DEF L
  <2> QED BY <2>2, <1>4, <1>7
<1>8. ASSUME NEW i \in 0 .. CacheBits - 1, i >= 8 * k
      PROVE  /\ r.bit_cache[i] = b.bit_cache[i - 8 * k]
             /\ r.bit_cache[i] \in Bit
  <2>1. i - 8 * k \in 0 .. CacheBits - 1 /\ ~ (i < 8 * k)
    BY <1>8, <1>1, <1>2
  <2>2. r.bit_cache[i] = b.bit_cache[i - 8 * k]
    BY <2>1, <1>4
  <2> QED BY <2>1, <2>2, <1>1 DEF Word
<1>9. r.bit_cache \in Word(CacheBits)
  <2>1. \A i \in 0 .. CacheBits - 1 : r.bit_cache[i] \in Bit
    BY <1>7, <1>8, <1>1, <1>2
  <2> QED BY <2>1, <1>4 DEF Word
<1>10. Bounded(r)
  <2>1. r \in Readers
    BY <1>1, <1>2, <1>3, <1>5, <1>9, <1>6a DEF Readers
  <2> QED BY <2>1, <1>1, <1>2, <1>3, <1>6a DEF Bounded, L
<1>11. ASSUME NEW i \in 0 .. m - 1
       PROVE  r.bit_cache[i] = StreamBit(b.buffer, "msb", 8 * q - 1 - i)
  <2>1. i \in 0 .. CacheBits - 1 /\ i \in Nat /\ i < 8 * q
    BY <1>1, <1>2, <1>6a
  <2>2. CASE i < 8 * k
    <3>1. StreamBit(b.buffer, "msb", 8 * q - 1 - i) = b.buffer[q - (i \div 8)][i % 8]
      <4>1. /\ ((8 * q - 1 - i) \div 8) + 1 = q - (i \div 8)
            /\ 7 - ((8 * q - 1 - i) % 8) = i % 8
        BY <2>1, <1>6a, MsbIndex
      <4>2. StreamBit(b.buffer, "msb", 8 * q - 1 - i)
              = b.buffer[((8 * q - 1 - i) \div 8) + 1][7 - ((8 * q - 1 - i) % 8)]
        BY Zenon DEF StreamBit
      <4> QED BY <4>1, <4>2
    <3>2. r.bit_cache[i] = b.buffer[q - (i \div 8)][i % 8]
      BY <2>1, <2>2, <1>7, <1>6a
    <3> QED BY <3>1, <3>2
  <2>3. CASE i >= 8 * k
    <3>1. i - 8 * k \in 0 .. n - 1 /\ 8 * p - 1 - (i - 8 * k) = 8 * q - 1 - i
      BY <2>3, <2>1, <1>1, <1>2, <1>6a
    <3>2. b.bit_cache[i - 8 * k]
            = StreamBit(b.buffer, "msb", 8 * p - 1 - (i - 8 * k))
      BY <3>1, <1>6
    <3> QED BY <3>1, <3>2, <2>1, <2>3, <1>8
  <2> QED BY <2>1, <2>2, <2>3, <1>2
<1>12. CacheMirrorsMsb(r)
  <2>1. \A i \in 0 .. m - 1 :
          r.bit_cache[i] = StreamBit(b.buffer, "msb", 8 * q - 1 - i)
    BY <1>11
  <2>2. \A i \in 0 .. r.bits_in_cache - 1 :
          r.bit_cache[i] = StreamBit(r.buffer, "msb", 8 * r.byte_pos - 1 - i)
    BY <2>1, <1>3, Zenon
  <2> QED BY <2>2, Zenon DEF CacheMirrorsMsb
<1>13. Position(r) = 8 * p - n
  BY <1>1, <1>2, <1>3, <1>6a, SMTT(30) DEF Position
<1>14. r.bits_in_cache >= n
  BY <1>1, <1>2, <1>3, <1>6a
<1> QED BY <1>2, <1>3, <1>6a, <1>10, <1>12, <1>13, <1>14
        DEF GoodMsb, Position, r, p, n, L

LEMMA RefillLsb ==
    ASSUME NEW b, GoodLsb(b)
    PROVE  /\ GoodLsb(refill_lsb(b))
           /\ refill_lsb(b).buffer = b.buffer
           /\ Position(refill_lsb(b)) = Position(b)
           /\ refill_lsb(b).bits_in_cache >= b.bits_in_cache
           /\ \/ refill_lsb(b).bits_in_cache > CacheBits - 8
              \/ refill_lsb(b).byte_pos = Len(b.buffer)
<1> DEFINE k == bytes_to_load(b)  p == b.byte_pos  n == b.bits_in_cache
           L == Len(b.buffer)  q == p + k  m == n + 8 * k  r == refill_lsb(b)
           In(i) == b.buffer[p + 1 + ((i - n) \div 8)][(i - n) % 8]
<1>1. /\ b \in Readers /\ Bounded(b) /\ p \in Nat /\ n \in 0 .. CacheBits
      /\ n <= 8 * p /\ CacheBits \in Nat /\ L \in Nat
      /\ b.bit_cache \in Word(CacheBits) /\ b.buffer \in Seq(Byte)
  BY WidthAssumption DEF GoodLsb, Bounded, Readers
<1>2. /\ k \in Nat
      /\ n + 8 * k <= CacheBits
      /\ p + k <= L
      /\ n + 8 * k > CacheBits - 8 \/ p + k = L
  BY <1>1, LoadBounds
<1>3. /\ r.buffer = b.buffer
      /\ r.byte_pos = q
      /\ r.bits_in_cache = m
  BY DEF refill_lsb
<1>4. r.bit_cache = [i \in 0 .. CacheBits - 1 |->
                       IF b.bit_cache[i] = 1 THEN 1
                       ELSE IF n <= i /\ i < n + 8 * k THEN In(i) ELSE 0]
  BY <1>1 DEF refill_lsb, Or, Word
<1>5. r = [buffer |-> r.buffer, byte_pos |-> r.byte_pos,
           bit_cache |-> r.bit_cache, bits_in_cache |-> r.bits_in_cache]
  BY DEF refill_lsb
<1>6. /\ \A i \in 0 .. n - 1 :
            b.bit_cache[i] = StreamBit(b.buffer, "lsb", 8 * p - n + i)
      /\ \A i \in 0 .. CacheBits - 1 : i >= n => b.bit_cache[i] = 0
      /\ \A i \in 0 .. CacheBits - 1 : b.bit_cache[i] \in {0, 1}
  BY <1>1 DEF GoodLsb, CacheMirrorsLsb, Position, Clean, Word, Bit
<1>6a. q = p + k /\ m = n + 8 * k /\ q \in Nat /\ m \in Nat /\ m <= CacheBits
  BY <1>1, <1>2
<1> HIDE DEF k, p, n, L, r, In, q, m
\* The cache in three parts: as it was, loaded, and clear.
<1>7. ASSUME NEW i \in 0 .. CacheBits - 1, i < n
      PROVE  r.bit_cache[i] = b.bit_cache[i]
  BY <1>7, <1>1, <1>4, <1>6
<1>8. ASSUME NEW i \in 0 .. CacheBits - 1, n <= i, i < n + 8 * k
      PROVE  r.bit_cache[i] = In(i) /\ In(i) \in Bit
  <2>1. i - n \in Nat /\ i - n < 8 * k
    BY <1>8, <1>1, <1>2
  <2>2. p + 1 + ((i - n) \div 8) \in 1 .. L /\ (i - n) % 8 \in 0 .. 7
    <3>1. (i - n) \div 8 \in 0 .. k - 1 /\ (i - n) % 8 \in 0 .. 7
      BY <2>1, <1>2, ByteIndex
    <3> QED BY <3>1, <1>1, <1>2
  <2>3. In(i) \in Bit
    BY <2>2, <1>1, BufferBit DEF L, In
  <2>4. b.bit_cache[i] = 0
    BY <1>8, <1>1, <1>6
  <2> QED BY <2>3, <2>4, <1>4, <1>8
<1>9. ASSUME NEW i \in 0 .. CacheBits - 1, i >= n + 8 * k
      PROVE  r.bit_cache[i] = 0
  <2>1. i >= n /\ ~ (i < n + 8 * k)
    BY <1>9, <1>1, <1>2
  <2>2. b.bit_cache[i] = 0
    BY <2>1, <1>6
  <2> QED BY <2>1, <2>2, <1>4
<1>10. r.bit_cache \in Word(CacheBits)
  <2>1. \A i \in 0 .. CacheBits - 1 : r.bit_cache[i] \in Bit
    BY <1>6, <1>7, <1>8, <1>9, <1>1, <1>2 DEF Bit
  <2> QED BY <2>1, <1>4 DEF Word
<1>11. Bounded(r)
  <2>1. r \in Readers
    BY <1>1, <1>2, <1>3, <1>5, <1>10, <1>6a DEF Readers
  <2> QED BY <2>1, <1>1, <1>2, <1>3, <1>6a DEF Bounded, L
<1>12. ASSUME NEW i \in 0 .. m - 1
       PROVE  r.bit_cache[i] = StreamBit(b.buffer, "lsb", 8 * q - m + i)
  <2>1. i \in 0 .. CacheBits - 1 /\ i \in Nat
    BY <1>1, <1>2, <1>6a
  <2>2. CASE i < n
    <3>1. i \in 0 .. n - 1 /\ 8 * q - m + i = 8 * p - n + i
      BY <2>1, <2>2, <1>1, <1>2, <1>6a
    <3> QED BY <3>1, <2>1, <2>2, <1>6, <1>7
  <2>3. CASE i >= n
    <3>1. i - n \in Nat /\ 8 * q - m + i = 8 * p + (i - n)
      BY <2>1, <2>3, <1>1, <1>2, <1>6a
    <3>2. StreamBit(b.buffer, "lsb", 8 * p + (i - n)) = In(i)
      BY <3>1, <1>1, LsbIndex DEF StreamBit, In
    <3>3. r.bit_cache[i] = In(i)
      BY <2>1, <2>3, <1>1, <1>2, <1>8, <1>6a
    <3> QED BY <3>1, <3>2, <3>3
  <2> QED BY <2>1, <2>2, <2>3, <1>1
<1>13. Clean(r.bit_cache, m)
  <2>1. DOMAIN r.bit_cache = 0 .. CacheBits - 1
    BY <1>4
  <2> QED BY <2>1, <1>9, <1>6a DEF Clean
<1>14. CacheMirrorsLsb(r)
  <2>1. \A i \in 0 .. m - 1 :
          r.bit_cache[i] = StreamBit(b.buffer, "lsb", 8 * q - m + i)
    BY <1>12
  <2>2. \A i \in 0 .. r.bits_in_cache - 1 :
          r.bit_cache[i] = StreamBit(r.buffer, "lsb",
                                     8 * r.byte_pos - r.bits_in_cache + i)
    BY <2>1, <1>3, Zenon
  <2> QED BY <2>2, <1>3, <1>13, Zenon DEF CacheMirrorsLsb, Position
<1>15. Position(r) = 8 * p - n
  BY <1>1, <1>2, <1>3, <1>6a, SMTT(30) DEF Position
<1>16. r.bits_in_cache >= n
  BY <1>1, <1>2, <1>3, <1>6a
<1> QED BY <1>2, <1>3, <1>6a, <1>11, <1>14, <1>15, <1>16
        DEF GoodLsb, Position, r, p, n, L

---------------------------------------------------------------------------
\* Consuming n loaded bits advances the position by n and keeps agreement.
LEMMA DropKeeps ==
    ASSUME NEW b, GoodMsb(b), NEW n \in 0 .. b.bits_in_cache
    PROVE  /\ GoodMsb(Drop(b, n))
           /\ Drop(b, n).buffer = b.buffer
           /\ Drop(b, n).bits_in_cache = b.bits_in_cache - n
           /\ Position(Drop(b, n)) = Position(b) + n
<1> DEFINE d == Drop(b, n)  p == b.byte_pos  c == b.bits_in_cache
<1>1. /\ b \in Readers /\ p \in Nat /\ c \in 0 .. CacheBits /\ n \in 0 .. c
      /\ c <= 8 * p /\ CacheBits \in Nat /\ p <= Len(b.buffer)
  BY WidthAssumption DEF GoodMsb, Bounded, Readers
<1>2. /\ d.buffer = b.buffer /\ d.byte_pos = p /\ d.bit_cache = b.bit_cache
      /\ d.bits_in_cache = c - n /\ d \in Readers
  BY <1>1 DEF Drop, Readers
<1>3. \A i \in 0 .. c - 1 :
        b.bit_cache[i] = StreamBit(b.buffer, "msb", 8 * p - 1 - i)
  BY DEF GoodMsb, CacheMirrorsMsb
<1> HIDE DEF d, p, c
<1>4. c - n \in 0 .. CacheBits /\ c - n <= 8 * p
  BY <1>1
<1>5. Bounded(d)
  BY <1>1, <1>2, <1>4 DEF Bounded
<1>6. CacheMirrorsMsb(d)
  <2>1. \A i \in 0 .. (c - n) - 1 : i \in 0 .. c - 1
    BY <1>1
  <2> QED BY <2>1, <1>2, <1>3 DEF CacheMirrorsMsb
<1>7. Position(d) = (8 * p - c) + n
  BY <1>1, <1>2 DEF Position
<1> QED BY <1>2, <1>5, <1>6, <1>7 DEF GoodMsb, Position, d, p, c

LEMMA DropLsbKeeps ==
    ASSUME NEW b, GoodLsb(b), NEW n \in 0 .. b.bits_in_cache
    PROVE  /\ GoodLsb(DropLsb(b, n))
           /\ DropLsb(b, n).buffer = b.buffer
           /\ DropLsb(b, n).bits_in_cache = b.bits_in_cache - n
           /\ Position(DropLsb(b, n)) = Position(b) + n
<1> DEFINE d == DropLsb(b, n)  p == b.byte_pos  c == b.bits_in_cache
           x == b.bit_cache
<1>1. /\ b \in Readers /\ p \in Nat /\ c \in 0 .. CacheBits /\ n \in 0 .. c
      /\ c <= 8 * p /\ CacheBits \in Nat /\ p <= Len(b.buffer)
      /\ x \in Word(CacheBits)
  BY WidthAssumption DEF GoodLsb, Bounded, Readers
<1>2. /\ d = [buffer |-> b.buffer, byte_pos |-> p, bit_cache |-> Shr(x, n),
               bits_in_cache |-> c - n]
      /\ d.buffer = b.buffer /\ d.byte_pos = p /\ d.bit_cache = Shr(x, n)
      /\ d.bits_in_cache = c - n
  BY DEF DropLsb
<1>3. /\ \A i \in 0 .. c - 1 :
            x[i] = StreamBit(b.buffer, "lsb", 8 * p - c + i)
      /\ \A i \in 0 .. CacheBits - 1 : i >= c => x[i] = 0
  BY <1>1 DEF GoodLsb, CacheMirrorsLsb, Position, Clean, Word
<1>4. /\ Shr(x, n) \in Word(CacheBits)
      /\ \A i \in 0 .. CacheBits - 1 :
            Shr(x, n)[i] = IF i + n \in 0 .. CacheBits - 1 THEN x[i + n] ELSE 0
  BY <1>1 DEF Shr, Word, Bit
<1>5. b.buffer \in Seq(Byte)
  BY <1>1 DEF Readers
<1> HIDE DEF d, p, c, x
<1>6. c - n \in 0 .. CacheBits /\ c - n <= 8 * p
  BY <1>1
<1>7. Bounded(d)
  <2>1. d \in Readers
    BY <1>1, <1>2, <1>4, <1>5, <1>6 DEF Readers
  <2> QED BY <2>1, <1>1, <1>2, <1>6 DEF Bounded
<1>8. \A i \in 0 .. (c - n) - 1 :
        Shr(x, n)[i] = StreamBit(b.buffer, "lsb", 8 * p - (c - n) + i)
  <2> TAKE i \in 0 .. (c - n) - 1
  <2>1. /\ i \in 0 .. CacheBits - 1 /\ i + n \in 0 .. CacheBits - 1
        /\ i + n \in 0 .. c - 1
        /\ 8 * p - c + (i + n) = 8 * p - (c - n) + i
    BY <1>1
  <2>2. Shr(x, n)[i] = x[i + n]
    BY <2>1, <1>4
  <2>3. x[i + n] = StreamBit(b.buffer, "lsb", 8 * p - c + (i + n))
    BY <2>1, <1>3
  <2> QED BY <2>1, <2>2, <2>3
<1>9. Clean(Shr(x, n), c - n)
  <2>1. DOMAIN Shr(x, n) = 0 .. CacheBits - 1
    BY <1>4 DEF Word
  <2> QED BY <2>1, <1>1, <1>3, <1>4 DEF Clean
<1>10. CacheMirrorsLsb(d)
  BY <1>2, <1>8, <1>9 DEF CacheMirrorsLsb, Position
<1>11. Position(d) = (8 * p - c) + n
  BY <1>1, <1>2 DEF Position
<1> QED BY <1>2, <1>7, <1>10, <1>11 DEF GoodLsb, Position, d, p, c

\* The value a call extracts is a word of the width it returns.
LEMMA ValueWord ==
    ASSUME NEW b \in Readers, NEW n \in Nat
    PROVE  /\ n <= b.bits_in_cache => Top(b, n) \in Word(MaxBits)
           /\ Bottom(b, n) \in Word(MaxBits)
<1>1. b.bit_cache \in Word(CacheBits) /\ b.bits_in_cache \in Nat
  BY WidthAssumption DEF Readers
<1>2. ASSUME NEW x \in Word(CacheBits)
      PROVE  Cast(Low(x, n), MaxBits) \in Word(MaxBits)
  <2>1. Low(x, n) \in Word(CacheBits)
    BY DEF Low, Word, Bit
  <2> QED BY <2>1 DEF Cast, Word, Bit
<1>3. ASSUME n <= b.bits_in_cache
      PROVE  Shr(b.bit_cache, b.bits_in_cache - n) \in Word(CacheBits)
  BY <1>1, <1>3 DEF Shr, Word, Bit
<1> QED BY <1>1, <1>2, <1>3 DEF Top, Bottom

---------------------------------------------------------------------------
\* A request that the stream can serve is loaded by the refill before it:
\* either the cache has no room for another byte, and then it holds more
\* than MaxBits bits, or it holds everything that is left.
LEMMA BitsLeft ==
    ASSUME NEW b, Bounded(b)
    PROVE  bs_reader_bits_left(b) = 8 * Len(b.buffer) - Position(b)
<1> DEFINE L == Len(b.buffer)  p == b.byte_pos  c == b.bits_in_cache
<1>1. L \in Nat /\ p \in Nat /\ c \in Nat /\ p <= L
  BY WidthAssumption DEF Bounded, Readers
<1>2. bs_reader_bits_left(b) = IF p >= L THEN c ELSE 8 * (L - p) + c
  BY DEF bs_reader_bits_left
<1> HIDE DEF L, p, c
<1>3. bs_reader_bits_left(b) = 8 * L - (8 * p - c)
  BY <1>1, <1>2
<1> QED BY <1>3 DEF Position, L, p, c

LEMMA LoadedMsb ==
    ASSUME NEW b, GoodMsb(b), NEW n \in 0 .. MaxBits,
           n <= bs_reader_bits_left(b)
    PROVE  n <= refill(b).bits_in_cache
<1> DEFINE r == refill(b)
<1>1. /\ GoodMsb(r) /\ r.buffer = b.buffer /\ Position(r) = Position(b)
      /\ r.bits_in_cache > CacheBits - 8 \/ r.byte_pos = Len(b.buffer)
  BY RefillMsb
<1>2. /\ r.bits_in_cache \in Nat /\ r.byte_pos \in Nat /\ Len(b.buffer) \in Nat
      /\ CacheBits \in Nat /\ MaxBits \in Nat /\ MaxBits + 7 <= CacheBits
  BY <1>1, WidthAssumption DEF GoodMsb, Bounded, Readers
<1>3. n <= 8 * Len(b.buffer) - (8 * r.byte_pos - r.bits_in_cache)
  BY <1>1, BitsLeft DEF GoodMsb, Position
<1> HIDE DEF r
<1>4. n <= r.bits_in_cache
  BY <1>1, <1>2, <1>3
<1> QED BY <1>4 DEF r

LEMMA LoadedLsb ==
    ASSUME NEW b, GoodLsb(b), NEW n \in 0 .. MaxBits,
           n <= bs_reader_bits_left(b)
    PROVE  n <= refill_lsb(b).bits_in_cache
<1> DEFINE r == refill_lsb(b)
<1>1. /\ GoodLsb(r) /\ r.buffer = b.buffer /\ Position(r) = Position(b)
      /\ r.bits_in_cache > CacheBits - 8 \/ r.byte_pos = Len(b.buffer)
  BY RefillLsb
<1>2. /\ r.bits_in_cache \in Nat /\ r.byte_pos \in Nat /\ Len(b.buffer) \in Nat
      /\ CacheBits \in Nat /\ MaxBits \in Nat /\ MaxBits + 7 <= CacheBits
  BY <1>1, WidthAssumption DEF GoodLsb, Bounded, Readers
<1>3. n <= 8 * Len(b.buffer) - (8 * r.byte_pos - r.bits_in_cache)
  BY <1>1, BitsLeft DEF GoodLsb, Position
<1> HIDE DEF r
<1>4. n <= r.bits_in_cache
  BY <1>1, <1>2, <1>3
<1> QED BY <1>4 DEF r

---------------------------------------------------------------------------
\* Each call keeps what holds between calls.
KeepsMsb(b, res) ==
    GoodMsb(res.bs) /\ res.bs.buffer = b.buffer /\ res.ret \in RetType

KeepsLsb(b, res) ==
    GoodLsb(res.bs) /\ res.bs.buffer = b.buffer /\ res.ret \in RetType

LEMMA NothingType == Nothing \in RetType
<1>1. Zero(MaxBits) \in Word(MaxBits)
  BY DEF Zero, Word, Bit
<1> QED BY <1>1 DEF Nothing, Ret, RetType

LEMMA ValueType == ASSUME NEW v \in Word(MaxBits) PROVE Value(v) \in RetType
BY DEF Value, Ret, RetType

LEMMA ResultFields ==
    ASSUME NEW b, NEW r PROVE Result(b, r).bs = b /\ Result(b, r).ret = r
BY DEF Result

LEMMA MsbCallsKeep ==
    ASSUME NEW b, GoodMsb(b), NEW n \in 0 .. MaxBits
    PROVE  /\ KeepsMsb(b, bs_read_bits(b, n))
           /\ KeepsMsb(b, bs_peek_bits(b, n))
           /\ \A m \in Nat : KeepsMsb(b, bs_skip_bits(b, m))
           /\ n <= bs_reader_bits_left(b) =>
                /\ KeepsMsb(b, bs_read_bits_unchecked(b, n))
                /\ KeepsMsb(b, bs_peek_bits_unchecked(b, n))
           /\ n <= b.bits_in_cache => KeepsMsb(b, bs_skip_bits_unchecked(b, n))
           /\ KeepsMsb(b, bs_reader_align(b))
<1> DEFINE r == refill(b)
<1>1. GoodMsb(r) /\ r.buffer = b.buffer
  BY RefillMsb
<1>2. /\ r \in Readers /\ r.bits_in_cache \in Nat /\ b.bits_in_cache \in Nat
      /\ n \in Nat
  BY <1>1, WidthAssumption DEF GoodMsb, Bounded, Readers
<1> HIDE DEF r
<1>3. ASSUME n <= r.bits_in_cache
      PROVE  /\ KeepsMsb(b, Result(Drop(r, n), Value(Top(r, n))))
             /\ KeepsMsb(b, Result(r, Value(Top(r, n))))
  <2>1. n \in 0 .. r.bits_in_cache
    BY <1>2, <1>3
  <2>2. GoodMsb(Drop(r, n)) /\ Drop(r, n).buffer = b.buffer
    BY <2>1, <1>1, DropKeeps
  <2>3. Value(Top(r, n)) \in RetType
    BY <1>2, <1>3, ValueWord, ValueType
  <2> QED BY <2>2, <2>3, <1>1, ResultFields DEF KeepsMsb
<1>4. KeepsMsb(b, Result(b, Nothing)) /\ KeepsMsb(b, Result(r, Nothing))
  BY <1>1, NothingType, ResultFields DEF KeepsMsb
<1>5. ASSUME NEW m \in 0 .. r.bits_in_cache
      PROVE  KeepsMsb(b, Result(Drop(r, m), Nothing))
  BY <1>1, DropKeeps, NothingType, ResultFields DEF KeepsMsb
<1>6. ASSUME NEW m \in 0 .. b.bits_in_cache
      PROVE  KeepsMsb(b, Result(Drop(b, m), Nothing))
  BY DropKeeps, NothingType, ResultFields DEF KeepsMsb
<1>7. KeepsMsb(b, bs_read_bits(b, n)) /\ KeepsMsb(b, bs_peek_bits(b, n))
  BY <1>2, <1>3, <1>4 DEF bs_read_bits, bs_peek_bits, r
<1>8. ASSUME NEW m \in Nat PROVE KeepsMsb(b, bs_skip_bits(b, m))
  <2>1. MinOf(m, r.bits_in_cache) \in 0 .. r.bits_in_cache
    BY <1>2 DEF MinOf
  <2> QED BY <2>1, <1>4, <1>5 DEF bs_skip_bits, r
<1>9. ASSUME n <= bs_reader_bits_left(b)
      PROVE  /\ KeepsMsb(b, bs_read_bits_unchecked(b, n))
             /\ KeepsMsb(b, bs_peek_bits_unchecked(b, n))
  <2>1. n <= r.bits_in_cache
    BY <1>9, LoadedMsb DEF r
  <2> QED BY <2>1, <1>3 DEF bs_read_bits_unchecked, bs_peek_bits_unchecked, r
<1>10. n <= b.bits_in_cache => KeepsMsb(b, bs_skip_bits_unchecked(b, n))
  BY <1>2, <1>6 DEF bs_skip_bits_unchecked
<1>11. KeepsMsb(b, bs_reader_align(b))
  <2>1. b.bits_in_cache % 8 \in 0 .. b.bits_in_cache
    BY <1>2
  <2> QED BY <2>1, <1>6 DEF bs_reader_align
<1> QED BY <1>7, <1>8, <1>9, <1>10, <1>11

LEMMA EmptyGood ==
    ASSUME NEW b \in Readers, NEW q \in 0 .. Len(b.buffer)
    PROVE  /\ GoodMsb(Empty(b, q)) /\ GoodLsb(Empty(b, q))
           /\ Empty(b, q).buffer = b.buffer
<1> DEFINE e == Empty(b, q)
<1>1. Zero(CacheBits) \in Word(CacheBits)
  BY DEF Zero, Word, Bit
<1>2. /\ e.buffer = b.buffer /\ e.byte_pos = q /\ e.bits_in_cache = 0
      /\ e.bit_cache = Zero(CacheBits)
  BY DEF Empty
<1>3. Bounded(e)
  <2>1. b.buffer \in Seq(Byte) /\ Len(b.buffer) \in Nat /\ CacheBits \in Nat
    BY WidthAssumption DEF Readers
  <2>2. e \in Readers
    BY <1>1, <2>1 DEF Empty, Readers
  <2> QED BY <1>2, <2>1, <2>2 DEF Bounded
<1>4. CacheMirrorsMsb(e)
  BY <1>2 DEF CacheMirrorsMsb
<1>5. CacheMirrorsLsb(e)
  BY <1>2 DEF CacheMirrorsLsb, Clean, Zero
<1> QED BY <1>2, <1>3, <1>4, <1>5 DEF GoodMsb, GoodLsb

LEMMA LsbCallsKeep ==
    ASSUME NEW b, GoodLsb(b), NEW n \in 0 .. MaxBits
    PROVE  /\ KeepsLsb(b, bs_read_bits_lsb(b, n))
           /\ KeepsLsb(b, bs_peek_bits_lsb(b, n))
           /\ \A m \in Nat : KeepsLsb(b, bs_skip_bits_lsb(b, m))
           /\ n <= bs_reader_bits_left(b) =>
                /\ KeepsLsb(b, bs_read_bits_lsb_unchecked(b, n))
                /\ KeepsLsb(b, bs_peek_bits_lsb_unchecked(b, n))
           /\ n <= b.bits_in_cache =>
                KeepsLsb(b, bs_skip_bits_lsb_unchecked(b, n))
           /\ KeepsLsb(b, bs_reader_align_lsb(b))
<1> DEFINE r == refill_lsb(b)
<1>1. GoodLsb(r) /\ r.buffer = b.buffer
  BY RefillLsb
<1>2. /\ r \in Readers /\ r.bits_in_cache \in Nat /\ b.bits_in_cache \in Nat
      /\ n \in Nat /\ r.byte_pos \in 0 .. Len(r.buffer)
  BY <1>1, WidthAssumption DEF GoodLsb, Bounded, Readers
<1> HIDE DEF r
<1>3. ASSUME n <= r.bits_in_cache
      PROVE  /\ KeepsLsb(b, Result(DropLsb(r, n), Value(Bottom(r, n))))
             /\ KeepsLsb(b, Result(r, Value(Bottom(r, n))))
  <2>1. n \in 0 .. r.bits_in_cache
    BY <1>2, <1>3
  <2>2. GoodLsb(DropLsb(r, n)) /\ DropLsb(r, n).buffer = b.buffer
    BY <2>1, <1>1, DropLsbKeeps
  <2>3. Value(Bottom(r, n)) \in RetType
    BY <1>2, ValueWord, ValueType
  <2> QED BY <2>2, <2>3, <1>1, ResultFields DEF KeepsLsb
<1>4. KeepsLsb(b, Result(b, Nothing)) /\ KeepsLsb(b, Result(r, Nothing))
  BY <1>1, NothingType, ResultFields DEF KeepsLsb
<1>5. ASSUME NEW m \in 0 .. b.bits_in_cache
      PROVE  KeepsLsb(b, Result(DropLsb(b, m), Nothing))
  BY DropLsbKeeps, NothingType, ResultFields DEF KeepsLsb
<1>6. KeepsLsb(b, Result(Empty(r, r.byte_pos), Nothing))
  BY <1>1, <1>2, EmptyGood, NothingType, ResultFields DEF KeepsLsb
<1>7. KeepsLsb(b, bs_read_bits_lsb(b, n)) /\ KeepsLsb(b, bs_peek_bits_lsb(b, n))
  BY <1>2, <1>3, <1>4 DEF bs_read_bits_lsb, bs_peek_bits_lsb, r
<1>8. ASSUME NEW m \in Nat PROVE KeepsLsb(b, bs_skip_bits_lsb(b, m))
  <2>1. ASSUME m <= r.bits_in_cache
        PROVE  KeepsLsb(b, Result(DropLsb(r, m), Nothing))
    <3>1. m \in 0 .. r.bits_in_cache
      BY <1>2, <2>1
    <3>2. GoodLsb(DropLsb(r, m)) /\ DropLsb(r, m).buffer = b.buffer
      BY <3>1, <1>1, DropLsbKeeps
    <3> QED BY <3>2, NothingType, ResultFields DEF KeepsLsb
  <2> QED BY <2>1, <1>2, <1>4, <1>6 DEF bs_skip_bits_lsb, r
<1>9. ASSUME n <= bs_reader_bits_left(b)
      PROVE  /\ KeepsLsb(b, bs_read_bits_lsb_unchecked(b, n))
             /\ KeepsLsb(b, bs_peek_bits_lsb_unchecked(b, n))
  <2>1. n <= r.bits_in_cache
    BY <1>9, LoadedLsb DEF r
  <2> QED
    BY <2>1, <1>3 DEF bs_read_bits_lsb_unchecked, bs_peek_bits_lsb_unchecked, r
<1>10. n <= b.bits_in_cache => KeepsLsb(b, bs_skip_bits_lsb_unchecked(b, n))
  BY <1>2, <1>5 DEF bs_skip_bits_lsb_unchecked
<1>11. KeepsLsb(b, bs_reader_align_lsb(b))
  <2>1. b.bits_in_cache % 8 \in 0 .. b.bits_in_cache
    BY <1>2
  <2> QED BY <2>1, <1>5 DEF bs_reader_align_lsb
<1> QED BY <1>7, <1>8, <1>9, <1>10, <1>11

\* A bulk copy gives back no byte that was not fetched, and copies only
\* bytes of the buffer; a failed one leaves a reader that is empty, or as
\* it was.
LEMMA ReadBytesKeeps ==
    ASSUME NEW b, Bounded(b), NEW n \in Nat
    PROVE  LET res == bs_read_bytes(b, n) IN
           /\ res.bs.buffer = b.buffer /\ res.ret \in RetType
           /\ res.bs = b \/ (GoodMsb(res.bs) /\ GoodLsb(res.bs))
<1> DEFINE q == b.byte_pos - (b.bits_in_cache \div 8)
           L == Len(b.buffer)
           r == rewind(b)
           out == SubSeq(r.buffer, r.byte_pos + 1, r.byte_pos + n)
<1>1. /\ b \in Readers /\ b.byte_pos \in Nat /\ b.bits_in_cache \in Nat
      /\ b.bits_in_cache <= 8 * b.byte_pos /\ b.byte_pos <= L /\ L \in Nat
      /\ b.buffer \in Seq(Byte)
  BY WidthAssumption DEF Bounded, Readers
<1>2. q \in 0 .. L
  BY <1>1
<1>3. r = Empty(b, q) /\ r.buffer = b.buffer /\ r.byte_pos = q
  BY DEF rewind, Empty
<1> HIDE DEF q, L, r
<1>4. r \in Readers /\ GoodMsb(r) /\ GoodLsb(r)
  BY <1>1, <1>2, <1>3, EmptyGood DEF L, GoodMsb, Bounded
<1>5. \A bytes \in Seq(Byte) :
        Copied(TRUE, bytes) \in RetType /\ Copied(FALSE, bytes) \in RetType
  <2>1. Zero(MaxBits) \in Word(MaxBits)
    BY DEF Zero, Word, Bit
  <2> QED BY <2>1 DEF Copied, Ret, RetType
<1>6. Copied(FALSE, << >>) \in RetType
  <2>1. << >> \in Seq(Byte)
    OBVIOUS
  <2> QED BY <2>1, <1>5
<1>7. CASE b.bits_in_cache % 8 # 0
  BY <1>6, <1>7, ResultFields DEF bs_read_bytes
<1>8. CASE b.bits_in_cache % 8 = 0 /\ n > L - q
  <2>1. bs_read_bytes(b, n) = Result(r, Copied(FALSE, << >>))
    BY <1>3, <1>8 DEF bs_read_bytes, r, L
  <2>2. /\ bs_read_bytes(b, n).bs = r
        /\ bs_read_bytes(b, n).ret = Copied(FALSE, << >>)
    BY <2>1, ResultFields, ZenonT(30)
  <2> QED BY <2>2, <1>3, <1>4, <1>6
<1>9. CASE b.bits_in_cache % 8 = 0 /\ ~ (n > L - q)
  <2>1. bs_read_bytes(b, n) = Result(Empty(r, q + n), Copied(TRUE, out))
    BY <1>3, <1>9 DEF bs_read_bytes, r, L
  <2>2. q + n \in 0 .. Len(r.buffer)
    BY <1>1, <1>2, <1>3, <1>9 DEF L
  <2>3. /\ GoodMsb(Empty(r, q + n)) /\ GoodLsb(Empty(r, q + n))
        /\ Empty(r, q + n).buffer = r.buffer
    BY <2>2, <1>4, EmptyGood
  <2>4. out \in Seq(Byte)
    <3>1. \A j \in (q + 1) .. (q + n) : b.buffer[j] \in Byte
      BY <1>1, <1>2, <1>9 DEF L
    <3> QED BY <3>1, <1>1, <1>2, <1>3, <1>9 DEF L
  <2>5. Copied(TRUE, out) \in RetType
    BY <2>4, <1>5
  <2> HIDE DEF out
  <2>6. /\ bs_read_bytes(b, n).bs = Empty(r, q + n)
        /\ bs_read_bytes(b, n).ret = Copied(TRUE, out)
    BY <2>1, ResultFields, ZenonT(30)
  <2> QED BY <2>3, <2>5, <2>6, <1>3
<1> QED BY <1>7, <1>8, <1>9

\* A reader just opened.
LEMMA OpenedGood ==
    ASSUME NEW data \in Seq(Byte)
    PROVE  /\ GoodMsb(bs_reader_init(data)) /\ GoodLsb(bs_reader_init(data))
           /\ bs_reader_init(data).buffer = data
<1> DEFINE e == bs_reader_init(data)
<1>1. Len(data) \in Nat /\ CacheBits \in Nat
  BY WidthAssumption
<1>2. Zero(CacheBits) \in Word(CacheBits)
  BY DEF Zero, Word, Bit
<1>3. e \in Readers /\ e.buffer = data
  BY <1>1, <1>2 DEF bs_reader_init, Readers
<1>4. e = Empty(e, 0)
  BY DEF bs_reader_init, Empty
<1> QED BY <1>1, <1>3, <1>4, EmptyGood

---------------------------------------------------------------------------
\* The value cut out of a cache that agrees with its buffer is the field of
\* the buffer at the reader's position.

LEMMA TopIsField ==
    ASSUME NEW b, GoodMsb(b), NEW n \in 0 .. b.bits_in_cache
    PROVE  Top(b, n) = Field(b.buffer, "msb", Position(b), n, MaxBits)
<1> DEFINE c == b.bits_in_cache  p == b.byte_pos  x == b.bit_cache
           at == Position(b)
<1>1. /\ c \in 0 .. CacheBits /\ p \in Nat /\ x \in Word(CacheBits)
      /\ n \in 0 .. c /\ c <= 8 * p
      /\ CacheBits \in Nat /\ MaxBits \in Nat /\ MaxBits + 7 <= CacheBits
  BY WidthAssumption DEF GoodMsb, Bounded, Readers
<1>2. \A i \in 0 .. c - 1 : x[i] = StreamBit(b.buffer, "msb", 8 * p - 1 - i)
  BY DEF GoodMsb, CacheMirrorsMsb
<1>3. at = 8 * p - c
  BY DEF Position
<1>4. Top(b, n) = Cast(Low(Shr(x, c - n), n), MaxBits)
  BY DEF Top
<1> HIDE DEF c, p, x, at
<1>5. /\ DOMAIN x = 0 .. CacheBits - 1
      /\ DOMAIN Shr(x, c - n) = 0 .. CacheBits - 1
      /\ DOMAIN Low(Shr(x, c - n), n) = 0 .. CacheBits - 1
  BY <1>1 DEF Shr, Low, Word
<1>6. Top(b, n) = [i \in 0 .. MaxBits - 1 |->
                     IF i \in 0 .. CacheBits - 1
                     THEN Low(Shr(x, c - n), n)[i] ELSE 0]
  BY <1>4, <1>5 DEF Cast
<1>7. ASSUME NEW i \in 0 .. MaxBits - 1
      PROVE  Top(b, n)[i]
               = IF i < n THEN StreamBit(b.buffer, "msb", at + (n - 1 - i))
                          ELSE 0
  <2>1. i \in 0 .. CacheBits - 1
    BY <1>1
  <2>2. Top(b, n)[i] = IF i < n THEN Shr(x, c - n)[i] ELSE 0
    BY <2>1, <1>5, <1>6 DEF Low
  <2>3. CASE i < n
    <3>1. /\ i + (c - n) \in 0 .. CacheBits - 1
          /\ i + (c - n) \in 0 .. c - 1
          /\ 8 * p - 1 - (i + (c - n)) = at + (n - 1 - i)
      BY <2>1, <2>3, <1>1, <1>3
    <3>2. Shr(x, c - n)[i] = x[i + (c - n)]
      BY <2>1, <3>1, <1>5 DEF Shr
    <3>3. x[i + (c - n)]
            = StreamBit(b.buffer, "msb", 8 * p - 1 - (i + (c - n)))
      BY <3>1, <1>2
    <3> QED BY <2>2, <2>3, <3>1, <3>2, <3>3
  <2> QED BY <2>2, <2>3
<1>8. Field(b.buffer, "msb", at, n, MaxBits)
        = [i \in 0 .. MaxBits - 1 |->
             IF i < n THEN StreamBit(b.buffer, "msb", at + (n - 1 - i)) ELSE 0]
  BY DEF Field, FieldOffset
<1>9. Top(b, n) = [i \in 0 .. MaxBits - 1 |-> Top(b, n)[i]]
  BY <1>6
<1>10. Top(b, n) = Field(b.buffer, "msb", at, n, MaxBits)
  BY <1>7, <1>8, <1>9, Zenon
<1> QED BY <1>10 DEF at

LEMMA BottomIsField ==
    ASSUME NEW b, GoodLsb(b), NEW n \in 0 .. b.bits_in_cache
    PROVE  Bottom(b, n) = Field(b.buffer, "lsb", Position(b), n, MaxBits)
<1> DEFINE c == b.bits_in_cache  x == b.bit_cache  at == Position(b)
<1>1. /\ c \in 0 .. CacheBits /\ x \in Word(CacheBits) /\ n \in 0 .. c
      /\ CacheBits \in Nat /\ MaxBits \in Nat /\ MaxBits + 7 <= CacheBits
  BY WidthAssumption DEF GoodLsb, Bounded, Readers
<1>2. \A i \in 0 .. c - 1 : x[i] = StreamBit(b.buffer, "lsb", at + i)
  BY DEF GoodLsb, CacheMirrorsLsb
<1>3. Bottom(b, n) = Cast(Low(x, n), MaxBits)
  BY DEF Bottom
<1> HIDE DEF c, x, at
<1>4. DOMAIN x = 0 .. CacheBits - 1 /\ DOMAIN Low(x, n) = 0 .. CacheBits - 1
  BY <1>1 DEF Low, Word
<1>5. Bottom(b, n) = [i \in 0 .. MaxBits - 1 |->
                        IF i \in 0 .. CacheBits - 1 THEN Low(x, n)[i] ELSE 0]
  BY <1>3, <1>4 DEF Cast
<1>6. ASSUME NEW i \in 0 .. MaxBits - 1
      PROVE  Bottom(b, n)[i]
               = IF i < n THEN StreamBit(b.buffer, "lsb", at + i) ELSE 0
  <2>1. i \in 0 .. CacheBits - 1 /\ (i < n => i \in 0 .. c - 1)
    BY <1>1
  <2>2. Bottom(b, n)[i] = IF i < n THEN x[i] ELSE 0
    BY <2>1, <1>4, <1>5 DEF Low
  <2> QED BY <2>1, <2>2, <1>2
<1>7. Field(b.buffer, "lsb", at, n, MaxBits)
        = [i \in 0 .. MaxBits - 1 |->
             IF i < n THEN StreamBit(b.buffer, "lsb", at + i) ELSE 0]
  BY DEF Field, FieldOffset
<1>8. Bottom(b, n) = [i \in 0 .. MaxBits - 1 |-> Bottom(b, n)[i]]
  BY <1>5
<1>9. Bottom(b, n) = Field(b.buffer, "lsb", at, n, MaxBits)
  BY <1>6, <1>7, <1>8, Zenon
<1> QED BY <1>9 DEF at

\* The field of no bits.
LEMMA EmptyField ==
    ASSUME NEW data, NEW o, NEW at
    PROVE  Field(data, o, at, 0, MaxBits) = Zero(MaxBits)
<1>1. \A i \in 0 .. MaxBits - 1 : ~ (i < 0)
  BY WidthAssumption
<1> QED BY <1>1 DEF Field, Zero

---------------------------------------------------------------------------
\* What a call does to the position and what it returns, for a reader b that
\* uses the packing order o.

Takes(b, o, n, res) ==
    /\ n <= bs_reader_bits_left(b)
    /\ Position(res.bs) = Position(b) + n
    /\ res.ret = Value(Field(b.buffer, o, Position(b), n, MaxBits))

Sees(b, o, n, res) ==
    /\ n <= bs_reader_bits_left(b)
    /\ Position(res.bs) = Position(b)
    /\ res.ret = Value(Field(b.buffer, o, Position(b), n, MaxBits))

Refuses(b, n, res) ==
    /\ n > bs_reader_bits_left(b)
    /\ Position(res.bs) = Position(b)
    /\ res.ret = Nothing

\* A skip is exact as far as the bits a refill is sure to load.
Skips(b, n, res) ==
    LET due == MinOf(n, bs_reader_bits_left(b)) IN
    /\ \E d \in MinOf(due, CacheBits - 7) .. due :
            Position(res.bs) = Position(b) + d
    /\ res.ret = Nothing

Aligns(b, res) ==
    /\ Position(res.bs) = 8 * ((Position(b) + 7) \div 8)
    /\ res.ret = Nothing

\* The numbers of a reader that has just refilled: what it holds is part of
\* what is left, and is all of it or more than any one call asks for.
LEMMA Holds ==
    ASSUME NEW b, Bounded(b), NEW r, Bounded(r),
           r.buffer = b.buffer, Position(r) = Position(b),
           r.bits_in_cache > CacheBits - 8 \/ r.byte_pos = Len(b.buffer)
    PROVE  /\ bs_reader_bits_left(b) \in Nat
           /\ r.bits_in_cache \in Nat
           /\ r.bits_in_cache <= bs_reader_bits_left(b)
           /\ \/ r.bits_in_cache >= CacheBits - 7
              \/ r.bits_in_cache = bs_reader_bits_left(b)
<1> DEFINE L == Len(b.buffer)  p == r.byte_pos  c == r.bits_in_cache
           left == bs_reader_bits_left(b)
<1>1. /\ L \in Nat /\ p \in Nat /\ c \in Nat /\ p <= L /\ CacheBits \in Nat
      /\ c > CacheBits - 8 \/ p = L
  BY WidthAssumption DEF Bounded, Readers
<1>2. left = 8 * L - (8 * p - c)
  BY BitsLeft DEF Position
<1> HIDE DEF L, p, c, left
<1>3. /\ left \in Nat /\ c \in Nat /\ c <= left
      /\ c >= CacheBits - 7 \/ c = left
  BY <1>1, <1>2
<1> QED BY <1>3 DEF left, c

\* Clipping at what is loaded is exact up to CacheBits - 7 bits.
LEMMA Clip ==
    ASSUME NEW n \in Nat, NEW left \in Nat, NEW c \in Nat, c <= left,
           c >= CacheBits - 7 \/ c = left
    PROVE  MinOf(n, c) \in MinOf(MinOf(n, left), CacheBits - 7) .. MinOf(n, left)
BY WidthAssumption DEF MinOf

\* Dropping the bits of a partly consumed byte rounds the position up.
LEMMA RoundUp ==
    ASSUME NEW p \in Nat, NEW c \in Nat, c <= 8 * p
    PROVE  (8 * p - c) + (c % 8) = 8 * (((8 * p - c) + 7) \div 8)
OBVIOUS

\* A field of no bits is what a call on no bits returns, whatever is left.
LEMMA NoBits ==
    ASSUME NEW b, Bounded(b), NEW o
    PROVE  /\ Takes(b, o, 0, Result(b, Nothing))
           /\ Sees(b, o, 0, Result(b, Nothing))
           /\ Skips(b, 0, Result(b, Nothing))
<1>1. /\ Position(b) \in Nat /\ CacheBits \in Nat /\ CacheBits >= 7
      /\ bs_reader_bits_left(b) \in Nat
  <2>1. /\ b.byte_pos \in Nat /\ b.bits_in_cache \in Nat
        /\ Len(b.buffer) \in Nat /\ b.byte_pos <= Len(b.buffer)
        /\ CacheBits \in Nat /\ CacheBits >= 7
        /\ b.bits_in_cache <= 8 * b.byte_pos
    BY WidthAssumption DEF Bounded, Readers
  <2> QED BY <2>1 DEF Position, bs_reader_bits_left
<1>2. Value(Field(b.buffer, o, Position(b), 0, MaxBits)) = Nothing
  BY EmptyField DEF Value, Nothing
<1>3. Result(b, Nothing).bs = b /\ Result(b, Nothing).ret = Nothing
  BY ResultFields
<1>4. 0 \in MinOf(MinOf(0, bs_reader_bits_left(b)), CacheBits - 7)
              .. MinOf(0, bs_reader_bits_left(b))
  BY <1>1 DEF MinOf
<1>5. Position(b) = Position(b) + 0 /\ 0 <= bs_reader_bits_left(b)
  BY <1>1
<1> QED BY <1>2, <1>3, <1>4, <1>5, Zenon DEF Takes, Sees, Skips

---------------------------------------------------------------------------
\* The checked and unchecked calls of each family.

LEMMA MsbCallsMeet ==
    ASSUME NEW b, GoodMsb(b), NEW n \in 0 .. MaxBits
    PROVE  /\ \/ Takes(b, "msb", n, bs_read_bits(b, n))
              \/ Refuses(b, n, bs_read_bits(b, n))
           /\ \/ Sees(b, "msb", n, bs_peek_bits(b, n))
              \/ Refuses(b, n, bs_peek_bits(b, n))
           /\ \A m \in Nat : Skips(b, m, bs_skip_bits(b, m))
           /\ n <= bs_reader_bits_left(b) =>
                /\ Takes(b, "msb", n, bs_read_bits_unchecked(b, n))
                /\ Sees(b, "msb", n, bs_peek_bits_unchecked(b, n))
           /\ n <= b.bits_in_cache => Skips(b, n, bs_skip_bits_unchecked(b, n))
           /\ Aligns(b, bs_reader_align(b))
<1> DEFINE r == refill(b)  left == bs_reader_bits_left(b)
           v == Field(b.buffer, "msb", Position(b), n, MaxBits)
<1>1. /\ GoodMsb(r) /\ r.buffer = b.buffer /\ Position(r) = Position(b)
      /\ r.bits_in_cache >= b.bits_in_cache
      /\ r.bits_in_cache > CacheBits - 8 \/ r.byte_pos = Len(b.buffer)
  BY RefillMsb
<1>2. /\ Bounded(b) /\ Bounded(r) /\ n \in Nat /\ b.bits_in_cache \in Nat
      /\ b.byte_pos \in Nat /\ b.bits_in_cache <= 8 * b.byte_pos
      /\ MaxBits \in Nat /\ CacheBits \in Nat /\ MaxBits <= CacheBits - 7
  BY <1>1, WidthAssumption DEF GoodMsb, Bounded, Readers
<1>3. /\ left \in Nat /\ r.bits_in_cache \in Nat /\ r.bits_in_cache <= left
      /\ r.bits_in_cache >= CacheBits - 7 \/ r.bits_in_cache = left
  BY <1>1, <1>2, Holds
<1>4. n <= r.bits_in_cache <=> n <= left
  BY <1>2, <1>3
<1> HIDE DEF r, left, v
<1>5. ASSUME n <= left
      PROVE  /\ Takes(b, "msb", n, Result(Drop(r, n), Value(Top(r, n))))
             /\ Sees(b, "msb", n, Result(r, Value(Top(r, n))))
  <2>1. n \in 0 .. r.bits_in_cache
    BY <1>2, <1>3, <1>4, <1>5
  <2>2. Top(r, n) = v
    BY <2>1, <1>1, TopIsField DEF v
  <2>3. Position(Drop(r, n)) = Position(b) + n
    BY <2>1, <1>1, DropKeeps
  <2> QED BY <2>2, <2>3, <1>1, <1>5, ResultFields DEF Takes, Sees, left, v
<1>6. ASSUME n > left PROVE Refuses(b, n, Result(r, Nothing))
  BY <1>1, <1>6, ResultFields DEF Refuses, left
<1>7. n = 0 => /\ Takes(b, "msb", n, Result(b, Nothing))
               /\ Sees(b, "msb", n, Result(b, Nothing))
  BY <1>2, NoBits
<1>8. \/ Takes(b, "msb", n, bs_read_bits(b, n))
      \/ Refuses(b, n, bs_read_bits(b, n))
  BY <1>2, <1>3, <1>4, <1>5, <1>6, <1>7 DEF bs_read_bits, r
<1>9. \/ Sees(b, "msb", n, bs_peek_bits(b, n))
      \/ Refuses(b, n, bs_peek_bits(b, n))
  BY <1>2, <1>3, <1>4, <1>5, <1>6, <1>7 DEF bs_peek_bits, r
<1>10. ASSUME NEW m \in Nat PROVE Skips(b, m, bs_skip_bits(b, m))
  <2>1. CASE m = 0
    BY <2>1, <1>2, NoBits DEF bs_skip_bits
  <2>2. CASE m # 0
    <3> DEFINE d == MinOf(m, r.bits_in_cache)
    <3>1. d \in 0 .. r.bits_in_cache
      BY <1>3 DEF MinOf
    <3>2. d \in MinOf(MinOf(m, left), CacheBits - 7) .. MinOf(m, left)
      BY <1>3, Clip
    <3>3. Position(Drop(r, d)) = Position(b) + d
      BY <3>1, <1>1, DropKeeps
    <3>4. bs_skip_bits(b, m) = Result(Drop(r, d), Nothing)
      BY <2>2 DEF bs_skip_bits, r
    <3> HIDE DEF d
    <3> QED BY <3>2, <3>3, <3>4, ResultFields DEF Skips, left
  <2> QED BY <2>1, <2>2
<1>11. n <= left => /\ Takes(b, "msb", n, bs_read_bits_unchecked(b, n))
                    /\ Sees(b, "msb", n, bs_peek_bits_unchecked(b, n))
  BY <1>5 DEF bs_read_bits_unchecked, bs_peek_bits_unchecked, r
<1>12. n <= b.bits_in_cache => Skips(b, n, bs_skip_bits_unchecked(b, n))
  <2> SUFFICES ASSUME n <= b.bits_in_cache
               PROVE  Skips(b, n, bs_skip_bits_unchecked(b, n))
    OBVIOUS
  <2>1. Position(Drop(b, n)) = Position(b) + n
    BY <1>2, DropKeeps
  <2>2. n \in MinOf(MinOf(n, left), CacheBits - 7) .. MinOf(n, left)
    BY <1>1, <1>2, <1>3 DEF MinOf
  <2>3. bs_skip_bits_unchecked(b, n) = Result(Drop(b, n), Nothing)
    BY DEF bs_skip_bits_unchecked
  <2> QED BY <2>1, <2>2, <2>3, ResultFields DEF Skips, left
<1>13. Aligns(b, bs_reader_align(b))
  <2> DEFINE d == b.bits_in_cache % 8
  <2>1. d \in 0 .. b.bits_in_cache
    BY <1>2
  <2>2. Position(Drop(b, d)) = Position(b) + d
    BY <2>1, DropKeeps
  <2>3. Position(b) + d = 8 * ((Position(b) + 7) \div 8)
    BY <1>2, RoundUp DEF Position
  <2> QED BY <2>2, <2>3, ResultFields DEF Aligns, bs_reader_align
<1> QED BY <1>8, <1>9, <1>10, <1>11, <1>12, <1>13 DEF left

LEMMA LsbCallsMeet ==
    ASSUME NEW b, GoodLsb(b), NEW n \in 0 .. MaxBits
    PROVE  /\ \/ Takes(b, "lsb", n, bs_read_bits_lsb(b, n))
              \/ Refuses(b, n, bs_read_bits_lsb(b, n))
           /\ \/ Sees(b, "lsb", n, bs_peek_bits_lsb(b, n))
              \/ Refuses(b, n, bs_peek_bits_lsb(b, n))
           /\ \A m \in Nat : Skips(b, m, bs_skip_bits_lsb(b, m))
           /\ n <= bs_reader_bits_left(b) =>
                /\ Takes(b, "lsb", n, bs_read_bits_lsb_unchecked(b, n))
                /\ Sees(b, "lsb", n, bs_peek_bits_lsb_unchecked(b, n))
           /\ n <= b.bits_in_cache =>
                Skips(b, n, bs_skip_bits_lsb_unchecked(b, n))
           /\ Aligns(b, bs_reader_align_lsb(b))
<1> DEFINE r == refill_lsb(b)  left == bs_reader_bits_left(b)
           v == Field(b.buffer, "lsb", Position(b), n, MaxBits)
<1>1. /\ GoodLsb(r) /\ r.buffer = b.buffer /\ Position(r) = Position(b)
      /\ r.bits_in_cache >= b.bits_in_cache
      /\ r.bits_in_cache > CacheBits - 8 \/ r.byte_pos = Len(b.buffer)
  BY RefillLsb
<1>2. /\ Bounded(b) /\ Bounded(r) /\ n \in Nat /\ b.bits_in_cache \in Nat
      /\ b.byte_pos \in Nat /\ b.bits_in_cache <= 8 * b.byte_pos
      /\ r.byte_pos \in Nat
      /\ MaxBits \in Nat /\ CacheBits \in Nat /\ MaxBits <= CacheBits - 7
  BY <1>1, WidthAssumption DEF GoodLsb, Bounded, Readers
<1>3. /\ left \in Nat /\ r.bits_in_cache \in Nat /\ r.bits_in_cache <= left
      /\ r.bits_in_cache >= CacheBits - 7 \/ r.bits_in_cache = left
  BY <1>1, <1>2, Holds
<1>4. n <= r.bits_in_cache <=> n <= left
  BY <1>2, <1>3
<1> HIDE DEF r, left, v
<1>5. ASSUME n <= left
      PROVE  /\ Takes(b, "lsb", n, Result(DropLsb(r, n), Value(Bottom(r, n))))
             /\ Sees(b, "lsb", n, Result(r, Value(Bottom(r, n))))
  <2>1. n \in 0 .. r.bits_in_cache
    BY <1>2, <1>3, <1>4, <1>5
  <2>2. Bottom(r, n) = v
    BY <2>1, <1>1, BottomIsField DEF v
  <2>3. Position(DropLsb(r, n)) = Position(b) + n
    BY <2>1, <1>1, DropLsbKeeps
  <2> QED BY <2>2, <2>3, <1>1, <1>5, ResultFields DEF Takes, Sees, left, v
<1>6. ASSUME n > left PROVE Refuses(b, n, Result(r, Nothing))
  BY <1>1, <1>6, ResultFields DEF Refuses, left
<1>7. n = 0 => /\ Takes(b, "lsb", n, Result(b, Nothing))
               /\ Sees(b, "lsb", n, Result(b, Nothing))
  BY <1>2, NoBits
<1>8. \/ Takes(b, "lsb", n, bs_read_bits_lsb(b, n))
      \/ Refuses(b, n, bs_read_bits_lsb(b, n))
  BY <1>2, <1>3, <1>4, <1>5, <1>6, <1>7 DEF bs_read_bits_lsb, r
<1>9. \/ Sees(b, "lsb", n, bs_peek_bits_lsb(b, n))
      \/ Refuses(b, n, bs_peek_bits_lsb(b, n))
  BY <1>2, <1>3, <1>4, <1>5, <1>6, <1>7 DEF bs_peek_bits_lsb, r
\* A clipped skip empties the cache: all that was loaded is consumed.
<1>10. ASSUME NEW m \in Nat PROVE Skips(b, m, bs_skip_bits_lsb(b, m))
  <2>1. CASE m = 0
    BY <2>1, <1>2, NoBits DEF bs_skip_bits_lsb
  <2>2. CASE m # 0
    <3> DEFINE d == MinOf(m, r.bits_in_cache)
               e == IF r.bits_in_cache < m THEN Empty(r, r.byte_pos)
                                           ELSE DropLsb(r, m)
    <3>1. d \in MinOf(MinOf(m, left), CacheBits - 7) .. MinOf(m, left)
      BY <1>3, Clip
    <3>2. Position(e) = Position(b) + d
      <4>1. CASE r.bits_in_cache < m
        <5>1. e = Empty(r, r.byte_pos) /\ d = r.bits_in_cache
          BY <4>1, <1>3 DEF MinOf
        <5>2. Position(Empty(r, r.byte_pos)) = 8 * r.byte_pos
          BY <1>2 DEF Position, Empty
        <5> QED BY <5>1, <5>2, <1>1, <1>2, <1>3, SMTT(30) DEF Position
      <4>2. CASE ~ (r.bits_in_cache < m)
        <5>1. m \in 0 .. r.bits_in_cache /\ e = DropLsb(r, m) /\ d = m
          BY <4>2, <1>3 DEF MinOf
        <5> QED BY <5>1, <1>1, DropLsbKeeps
      <4> QED BY <4>1, <4>2
    <3>3. bs_skip_bits_lsb(b, m) = Result(e, Nothing)
      BY <2>2 DEF bs_skip_bits_lsb, r
    <3> HIDE DEF d, e
    <3> QED BY <3>1, <3>2, <3>3, ResultFields DEF Skips, left
  <2> QED BY <2>1, <2>2
<1>11. n <= left => /\ Takes(b, "lsb", n, bs_read_bits_lsb_unchecked(b, n))
                    /\ Sees(b, "lsb", n, bs_peek_bits_lsb_unchecked(b, n))
  BY <1>5 DEF bs_read_bits_lsb_unchecked, bs_peek_bits_lsb_unchecked, r
<1>12. n <= b.bits_in_cache => Skips(b, n, bs_skip_bits_lsb_unchecked(b, n))
  <2> SUFFICES ASSUME n <= b.bits_in_cache
               PROVE  Skips(b, n, bs_skip_bits_lsb_unchecked(b, n))
    OBVIOUS
  <2>1. Position(DropLsb(b, n)) = Position(b) + n
    BY <1>2, DropLsbKeeps
  <2>2. n \in MinOf(MinOf(n, left), CacheBits - 7) .. MinOf(n, left)
    BY <1>1, <1>2, <1>3 DEF MinOf
  <2>3. bs_skip_bits_lsb_unchecked(b, n) = Result(DropLsb(b, n), Nothing)
    BY DEF bs_skip_bits_lsb_unchecked
  <2> QED BY <2>1, <2>2, <2>3, ResultFields DEF Skips, left
<1>13. Aligns(b, bs_reader_align_lsb(b))
  <2> DEFINE d == b.bits_in_cache % 8
  <2>1. d \in 0 .. b.bits_in_cache
    BY <1>2
  <2>2. Position(DropLsb(b, d)) = Position(b) + d
    BY <2>1, DropLsbKeeps
  <2>3. Position(b) + d = 8 * ((Position(b) + 7) \div 8)
    BY <1>2, RoundUp DEF Position
  <2> QED BY <2>2, <2>3, ResultFields DEF Aligns, bs_reader_align_lsb
<1> QED BY <1>8, <1>9, <1>10, <1>11, <1>12, <1>13 DEF left

---------------------------------------------------------------------------
\* The bulk copy hands out the bytes at the position, or nothing.

Copies(b, n, res) ==
    LET first == Position(b) \div 8
        fits  == Position(b) % 8 = 0 /\ first + n <= Len(b.buffer)
    IN
    /\ Position(res.bs) = IF fits THEN Position(b) + 8 * n ELSE Position(b)
    /\ res.ret = Copied(fits, IF fits
                              THEN SubSeq(b.buffer, first + 1, first + n)
                              ELSE << >>)

\* Giving back the prefetched whole bytes of a byte-aligned reader.
LEMMA GiveBack ==
    ASSUME NEW p \in Nat, NEW c \in Nat, c <= 8 * p
    PROVE  /\ (8 * p - c) % 8 = 0 <=> c % 8 = 0
           /\ c % 8 = 0 => /\ (8 * p - c) \div 8 = p - (c \div 8)
                           /\ 8 * (p - (c \div 8)) = 8 * p - c
           /\ p - (c \div 8) \in Nat
OBVIOUS

LEMMA ReadBytesMeets ==
    ASSUME NEW b, Bounded(b), NEW n \in Nat
    PROVE  Copies(b, n, bs_read_bytes(b, n))
<1> DEFINE p == b.byte_pos  c == b.bits_in_cache  L == Len(b.buffer)
           q == p - (c \div 8)  r == rewind(b)  res == bs_read_bytes(b, n)
<1>1. /\ p \in Nat /\ c \in Nat /\ c <= 8 * p /\ L \in Nat /\ p <= L
  BY WidthAssumption DEF Bounded, Readers
<1>2. /\ r.buffer = b.buffer /\ r.byte_pos = q /\ r.bits_in_cache = 0
      /\ Empty(r, q + n).byte_pos = q + n
      /\ Empty(r, q + n).bits_in_cache = 0
  BY DEF rewind, Empty
<1>3. Position(b) = 8 * p - c
  BY DEF Position
<1>4. res = IF c % 8 # 0 THEN Result(b, Copied(FALSE, << >>))
            ELSE IF n > L - q THEN Result(r, Copied(FALSE, << >>))
            ELSE Result(Empty(r, q + n),
                        Copied(TRUE, SubSeq(b.buffer, q + 1, q + n)))
  BY <1>2 DEF bs_read_bytes
<1> HIDE DEF p, c, L, r, res
<1>5. /\ Position(b) % 8 = 0 <=> c % 8 = 0
      /\ c % 8 = 0 => Position(b) \div 8 = q /\ 8 * q = Position(b)
      /\ q \in Nat
  BY <1>1, <1>3, GiveBack
<1> HIDE DEF q
<1>6. CASE c % 8 # 0
  <2>1. ~ (Position(b) % 8 = 0 /\ (Position(b) \div 8) + n <= L)
    BY <1>5, <1>6
  <2>2. res.bs = b /\ res.ret = Copied(FALSE, << >>)
    BY <1>4, <1>6, ResultFields
  <2> QED BY <2>1, <2>2 DEF Copies, L, res
<1>7. CASE c % 8 = 0 /\ n > L - q
  <2>1. ~ (Position(b) % 8 = 0 /\ (Position(b) \div 8) + n <= L)
    BY <1>1, <1>5, <1>7
  <2>2. res.bs = r /\ res.ret = Copied(FALSE, << >>)
    BY <1>4, <1>7, ResultFields
  <2>3. Position(r) = Position(b)
    BY <1>2, <1>5, <1>7 DEF Position
  <2> QED BY <2>1, <2>2, <2>3 DEF Copies, L, res
<1>8. CASE c % 8 = 0 /\ ~ (n > L - q)
  <2>1. /\ Position(b) % 8 = 0 /\ Position(b) \div 8 = q
        /\ (Position(b) \div 8) + n <= L
    BY <1>1, <1>5, <1>8
  <2>2. /\ res.bs = Empty(r, q + n)
        /\ res.ret = Copied(TRUE, SubSeq(b.buffer, q + 1, q + n))
    BY <1>4, <1>8, ResultFields
  <2>3. Position(Empty(r, q + n)) = Position(b) + 8 * n
    BY <1>2, <1>5, <1>8 DEF Position
  <2>4. Position(b) % 8 = 0 /\ (Position(b) \div 8) + n <= Len(b.buffer)
    BY <2>1 DEF L
  <2> QED BY <2>1, <2>2, <2>3, <2>4 DEF Copies, res
<1> QED BY <1>6, <1>7, <1>8 DEF res

---------------------------------------------------------------------------
\* Writers.

\* A writer between two calls is in one of two conditions.  Fits: less than
\* a byte is enqueued, in a cache that is clear above it.  Full: the memory
\* is full and overrun; the cache is then of no more use.
Fits(b) == b.bits_in_cache < 8 /\ Clean(b.bit_cache, b.bits_in_cache)
Full(b) == b.overflow /\ b.byte_pos = Len(b.buffer)

Within(b) == b \in Writers /\ b.byte_pos <= Len(b.buffer)

Good(b) == Within(b) /\ (Full(b) \/ Fits(b))

\* In the middle of a call, with n more bits enqueued and none dumped yet.
Enqueued(b) ==
    /\ Within(b)
    /\ \/ Full(b)
       \/ b.bits_in_cache <= CacheBits /\ Clean(b.bit_cache, b.bits_in_cache)

\* What a call may do to the memory and to the overflow report.
Appends(b, d) ==
    /\ d.byte_pos >= b.byte_pos
    /\ Len(d.buffer) = Len(b.buffer)
    /\ \A j \in 1 .. Len(b.buffer) :
        j <= b.byte_pos \/ j > d.byte_pos => d.buffer[j] = b.buffer[j]
    /\ b.overflow => d.overflow

LEMMA WidthFacts ==
    /\ CacheBits \in Nat /\ MaxBits \in Nat /\ CountMod \in Nat
    /\ MaxBits >= 8 /\ MaxBits + 7 <= CacheBits /\ CacheBits < CountMod
    /\ CacheBits >= 15
BY WidthAssumption, CountAssumption

LEMMA WriterFields ==
    ASSUME NEW b, Within(b)
    PROVE  /\ b \in Writers
           /\ b.buffer \in Seq(Byte) /\ Len(b.buffer) \in Nat
           /\ b.byte_pos \in Nat /\ b.byte_pos <= Len(b.buffer)
           /\ b.bit_cache \in Word(CacheBits)
           /\ b.bits_in_cache \in Nat /\ b.bits_in_cache < CountMod
           /\ b.overflow \in BOOLEAN
BY WidthFacts DEF Within, Writers

LEMMA AppendsTransitive ==
    ASSUME NEW b, Within(b), NEW c, Within(c), NEW d, Within(d),
           Appends(b, c), Appends(c, d)
    PROVE  Appends(b, d)
<1>1. /\ b.byte_pos \in Nat /\ c.byte_pos \in Nat /\ d.byte_pos \in Nat
      /\ Len(b.buffer) \in Nat
  BY WriterFields
<1>2. ASSUME NEW j \in 1 .. Len(b.buffer), j <= b.byte_pos \/ j > d.byte_pos
      PROVE  d.buffer[j] = b.buffer[j]
  <2>1. j <= c.byte_pos \/ j > d.byte_pos
    BY <1>1, <1>2 DEF Appends
  <2>2. j <= b.byte_pos \/ j > c.byte_pos
    BY <1>1, <1>2 DEF Appends
  <2> QED BY <2>1, <2>2 DEF Appends
<1> QED BY <1>1, <1>2 DEF Appends

\* Storing count bytes at the write position.
LEMMA StoreKeeps ==
    ASSUME NEW b, Within(b), NEW count \in Nat,
           b.byte_pos + count <= Len(b.buffer),
           NEW src, \A i \in 1 .. count : src[i] \in Byte
    PROVE  /\ Store(b, count, src) \in Seq(Byte)
           /\ Len(Store(b, count, src)) = Len(b.buffer)
           /\ \A j \in 1 .. Len(b.buffer) :
                Store(b, count, src)[j]
                  = IF b.byte_pos < j /\ j <= b.byte_pos + count
                    THEN src[j - b.byte_pos] ELSE b.buffer[j]
<1> DEFINE L == Len(b.buffer)  p == b.byte_pos  s == Store(b, count, src)
<1>1. L \in Nat /\ p \in Nat /\ p <= L /\ b.buffer \in Seq(Byte)
  BY WriterFields
<1>2. s = [j \in 1 .. L |-> IF p < j /\ j <= p + count
                            THEN src[j - p] ELSE b.buffer[j]]
  BY DEF Store
<1>3. \A j \in 1 .. L : b.buffer[j] \in Byte
  BY <1>1
<1> HIDE DEF L, p, s
<1>4. ASSUME NEW j \in 1 .. L
      PROVE  s[j] \in Byte
  <2>1. CASE p < j /\ j <= p + count
    <3>1. j - p \in 1 .. count
      BY <2>1, <1>1
    <3> QED BY <3>1, <2>1, <1>2
  <2>2. CASE ~ (p < j /\ j <= p + count)
    BY <2>2, <1>2, <1>3
  <2> QED BY <2>1, <2>2
<1>5. s \in [1 .. L -> Byte]
  BY <1>2, <1>4
<1>6. s \in Seq(Byte) /\ Len(s) = L
  BY <1>1, <1>5
<1>7. \A j \in 1 .. L : s[j] = IF p < j /\ j <= p + count
                               THEN src[j - p] ELSE b.buffer[j]
  BY <1>2
<1> QED BY <1>6, <1>7 DEF L, p, s

---------------------------------------------------------------------------
\* Dump.

LEMMA DumpBounds ==
    ASSUME NEW b, Within(b)
    PROVE  LET k == bytes_to_dump(b)  rest == b.bits_in_cache - 8 * k IN
           /\ k \in Nat /\ rest \in Nat /\ rest < CountMod
           /\ b.byte_pos + k \in Nat /\ b.byte_pos + k <= Len(b.buffer)
           /\ 8 * k <= b.bits_in_cache
           /\ rest < 8 \/ b.byte_pos + k = Len(b.buffer)
           /\ Full(b) => k = 0
<1> DEFINE L == Len(b.buffer)  p == b.byte_pos  c == b.bits_in_cache
           k == bytes_to_dump(b)
<1>1. L \in Nat /\ p \in Nat /\ p <= L /\ c \in Nat /\ c < CountMod
      /\ CountMod \in Nat
  BY WriterFields, WidthFacts
<1>2. k = IF c \div 8 <= L - p THEN c \div 8 ELSE L - p
  BY DEF bytes_to_dump, MinOf
<1>3. Full(b) => p = L
  BY DEF Full
<1> HIDE DEF L, p, c, k
<1>4. c \div 8 \in Nat /\ 8 * (c \div 8) <= c /\ c - 8 * (c \div 8) < 8
  BY <1>1
<1>5. /\ k \in Nat /\ c - 8 * k \in Nat /\ c - 8 * k < CountMod
      /\ p + k \in Nat /\ p + k <= L /\ 8 * k <= c
      /\ c - 8 * k < 8 \/ p + k = L
      /\ p = L => k = 0
  BY <1>1, <1>2, <1>4
<1> QED BY <1>3, <1>5 DEF L, p, c, k

\* What either dump does besides the cache: d is b after it.
LEMMA Dumped ==
    ASSUME NEW b, Enqueued(b), NEW src, NEW d,
           \A i \in 1 .. bytes_to_dump(b) : src[i] \in Byte,
           NEW cache \in Word(CacheBits),
           LET k == bytes_to_dump(b)  rest == b.bits_in_cache - 8 * k IN
           /\ d = [buffer |-> Store(b, k, src), byte_pos |-> b.byte_pos + k,
                   bit_cache |-> cache, bits_in_cache |-> rest,
                   overflow |-> overruns(b, rest)]
           /\ ~ Full(b) /\ rest < 8 => Clean(cache, rest)
    PROVE  /\ Good(d)
           /\ Appends(b, d)
           /\ d.overflow \/ d.bits_in_cache < 8
           /\ d.bits_in_cache % 8 = b.bits_in_cache % 8
<1> DEFINE L == Len(b.buffer)  p == b.byte_pos  c == b.bits_in_cache
           k == bytes_to_dump(b)  rest == c - 8 * k  s == Store(b, k, src)
<1>1. Within(b) /\ L \in Nat /\ p \in Nat /\ p <= L /\ c \in Nat
      /\ b.overflow \in BOOLEAN
  BY WriterFields DEF Enqueued
<1>2. /\ k \in Nat /\ rest \in Nat /\ rest < CountMod
      /\ p + k \in Nat /\ p + k <= L /\ 8 * k <= c
      /\ rest < 8 \/ p + k = L
      /\ Full(b) => k = 0
  BY <1>1, DumpBounds
<1>3. /\ s \in Seq(Byte) /\ Len(s) = L
      /\ \A j \in 1 .. L : s[j] = IF p < j /\ j <= p + k
                                  THEN src[j - p] ELSE b.buffer[j]
  <2>1. \A i \in 1 .. k : src[i] \in Byte
    OBVIOUS
  <2> HIDE DEF k
  <2> QED BY <2>1, <1>1, <1>2, StoreKeeps
<1>4. /\ d.buffer = s /\ d.byte_pos = p + k /\ d.bit_cache = cache
      /\ d.bits_in_cache = rest /\ d.overflow = (b.overflow \/ rest >= 8)
      /\ d = [buffer |-> s, byte_pos |-> p + k, bit_cache |-> cache,
              bits_in_cache |-> rest, overflow |-> (b.overflow \/ rest >= 8)]
      /\ ~ Full(b) /\ rest < 8 => Clean(cache, rest)
  BY DEF overruns
<1>5. /\ Full(b) => b.overflow /\ p = L
      /\ b.overflow \/ rest >= 8 => d.overflow
      /\ d.overflow => b.overflow \/ rest >= 8
  BY <1>4, Zenon DEF Full
<1> HIDE DEF L, p, c, k, s
<1>6. Within(d)
  <2>1. rest \in 0 .. CountMod - 1
    BY <1>2, WidthFacts
  <2>2. d.overflow \in BOOLEAN
    BY <1>4
  <2>3. d \in Writers
    BY <1>2, <1>3, <1>4, <2>1, <2>2 DEF Writers
  <2> QED BY <2>3, <1>2, <1>3, <1>4 DEF Within
<1>7. Full(d) \/ Fits(d)
  <2>1. Len(d.buffer) = L
    BY <1>3, <1>4
  <2>2. CASE Full(b)
    <3>1. d.byte_pos = L
      BY <2>2, <1>1, <1>2, <1>4, <1>5
    <3> QED BY <3>1, <2>1, <2>2, <1>5, Zenon DEF Full
  <2>3. CASE ~ Full(b) /\ rest < 8
    BY <2>3, <1>4, Zenon DEF Fits
  <2>4. CASE ~ (rest < 8)
    <3>1. rest >= 8 /\ d.byte_pos = L
      BY <2>4, <1>2, <1>4
    <3> QED BY <3>1, <2>1, <1>5, Zenon DEF Full
  <2> QED BY <2>2, <2>3, <2>4
<1>8. Appends(b, d)
  <2>1. \A j \in 1 .. L : j <= p \/ j > p + k => s[j] = b.buffer[j]
    BY <1>1, <1>2, <1>3
  <2> QED BY <2>1, <1>1, <1>2, <1>3, <1>4 DEF Appends, L, p
<1>9. d.overflow \/ d.bits_in_cache < 8
  <2>1. rest < 8 \/ rest >= 8
    BY <1>2
  <2>2. d.bits_in_cache = rest
    BY <1>4
  <2> QED BY <2>1, <2>2, <1>5, Zenon
<1>10. rest % 8 = c % 8
  BY <1>1, <1>2
<1> QED BY <1>4, <1>6, <1>7, <1>8, <1>9, <1>10 DEF Good, c

LEMMA ByteBits == Byte = [0 .. 7 -> Bit]
<1>1. 8 - 1 = 7
  OBVIOUS
<1> QED BY <1>1, Zenon DEF Byte, Word

LEMMA ByteWithin ==
    ASSUME NEW c \in Nat, NEW k \in Nat, 8 * k <= c, c <= CacheBits,
           NEW i \in 1 .. k, NEW m \in 0 .. 7
    PROVE  /\ c - 8 * i + m \in 0 .. CacheBits - 1
           /\ 8 * (i - 1) + m \in 0 .. CacheBits - 1
BY WidthFacts

LEMMA MsbDumpKeeps ==
    ASSUME NEW b, Enqueued(b), NEW ub
    PROVE  LET d == dump(b, ub) IN
           /\ Good(d)
           /\ Appends(b, d)
           /\ d.overflow \/ d.bits_in_cache < 8
           /\ d.bits_in_cache % 8 = b.bits_in_cache % 8
<1> DEFINE c == b.bits_in_cache  k == bytes_to_dump(b)  rest == c - 8 * k
           src == [i \in 1 .. k |-> dumped_byte(b, i)]
           cache == masked(b.bit_cache, rest, ub)
<1>1. /\ Within(b) /\ c \in Nat /\ b.bit_cache \in Word(CacheBits)
      /\ ~ Full(b) => c <= CacheBits
  BY WriterFields DEF Enqueued
<1>2. k \in Nat /\ rest \in Nat /\ 8 * k <= c /\ (Full(b) => k = 0)
  BY <1>1, DumpBounds
<1>3. \A i \in 1 .. k : src[i] = [m \in 0 .. 7 |-> b.bit_cache[c - 8 * i + m]]
  BY DEF dumped_byte
<1>4. dump(b, ub) = [buffer |-> Store(b, k, src), byte_pos |-> b.byte_pos + k,
                     bit_cache |-> cache, bits_in_cache |-> rest,
                     overflow |-> overruns(b, rest)]
  BY DEF dump
<1>5. cache = Low(b.bit_cache, Shift(rest, ub))
  BY DEF masked
<1> HIDE DEF c, k, src, cache
<1>6. \A i \in 1 .. k : src[i] \in Byte
  <2> TAKE i \in 1 .. k
  <2>1. c <= CacheBits
    BY <1>1, <1>2
  <2>2. \A m \in 0 .. 7 : c - 8 * i + m \in 0 .. CacheBits - 1
    BY <2>1, <1>1, <1>2, ByteWithin
  <2>3. [m \in 0 .. 7 |-> b.bit_cache[c - 8 * i + m]] \in [0 .. 7 -> Bit]
    BY <2>2, <1>1 DEF Word
  <2> QED BY <2>3, <1>3, ByteBits
<1>7. cache \in Word(CacheBits)
  BY <1>1, <1>5 DEF Low, Word, Bit
<1>8. rest < 8 => Clean(cache, rest)
  <2>1. rest < 8 => Shift(rest, ub) = rest
    BY <1>2, WidthFacts DEF Shift
  <2>2. rest < 8 => cache = Low(b.bit_cache, rest)
    BY <2>1, <1>5
  <2>3. DOMAIN Low(b.bit_cache, rest) = 0 .. CacheBits - 1
    BY <1>1 DEF Low, Word
  <2>4. \A i \in 0 .. CacheBits - 1 :
          i >= rest => Low(b.bit_cache, rest)[i] = 0
    BY <1>1, <1>2, WidthFacts DEF Low, Word
  <2> QED BY <2>2, <2>3, <2>4, Zenon DEF Clean
<1>9. /\ \A i \in 1 .. bytes_to_dump(b) : src[i] \in Byte
      /\ rest = b.bits_in_cache - 8 * bytes_to_dump(b)
      /\ dump(b, ub) = [buffer |-> Store(b, bytes_to_dump(b), src),
                        byte_pos |-> b.byte_pos + bytes_to_dump(b),
                        bit_cache |-> cache, bits_in_cache |-> rest,
                        overflow |-> overruns(b, rest)]
  BY <1>4, <1>6 DEF k, c
<1> HIDE DEF rest
<1> QED BY <1>7, <1>8, <1>9, Dumped

LEMMA LsbDumpKeeps ==
    ASSUME NEW b, Enqueued(b)
    PROVE  LET d == dump_lsb(b) IN
           /\ Good(d)
           /\ Appends(b, d)
           /\ d.overflow \/ d.bits_in_cache < 8
           /\ d.bits_in_cache % 8 = b.bits_in_cache % 8
<1> DEFINE c == b.bits_in_cache  k == bytes_to_dump(b)  rest == c - 8 * k
           src == [i \in 1 .. k |-> dumped_byte_lsb(b, i)]
           cache == Shr(b.bit_cache, 8 * k)
<1>1. /\ Within(b) /\ c \in Nat /\ b.bit_cache \in Word(CacheBits)
      /\ ~ Full(b) => c <= CacheBits /\ Clean(b.bit_cache, c)
  BY WriterFields DEF Enqueued
<1>2. k \in Nat /\ rest \in Nat /\ 8 * k <= c /\ (Full(b) => k = 0)
  BY <1>1, DumpBounds
<1>3. \A i \in 1 .. k : src[i] = [m \in 0 .. 7 |-> b.bit_cache[8 * (i - 1) + m]]
  BY DEF dumped_byte_lsb
<1>4. dump_lsb(b) = [buffer |-> Store(b, k, src), byte_pos |-> b.byte_pos + k,
                     bit_cache |-> cache, bits_in_cache |-> rest,
                     overflow |-> overruns(b, rest)]
  BY DEF dump_lsb
<1> HIDE DEF c, k, src
<1>5. \A i \in 1 .. k : src[i] \in Byte
  <2> TAKE i \in 1 .. k
  <2>1. c <= CacheBits
    BY <1>1, <1>2
  <2>2. \A m \in 0 .. 7 : 8 * (i - 1) + m \in 0 .. CacheBits - 1
    BY <2>1, <1>1, <1>2, ByteWithin
  <2>3. [m \in 0 .. 7 |-> b.bit_cache[8 * (i - 1) + m]] \in [0 .. 7 -> Bit]
    BY <2>2, <1>1 DEF Word
  <2> QED BY <2>3, <1>3, ByteBits
<1>6. cache \in Word(CacheBits)
  BY <1>1, <1>2 DEF Shr, Word, Bit
<1>7. ~ Full(b) => Clean(cache, rest)
  <2> SUFFICES ASSUME ~ Full(b) PROVE Clean(cache, rest)
    OBVIOUS
  <2>1. \A i \in 0 .. CacheBits - 1 : i >= c => b.bit_cache[i] = 0
    BY <1>1 DEF Clean, Word
  <2>2. cache = [i \in 0 .. CacheBits - 1 |->
                   IF i + 8 * k \in 0 .. CacheBits - 1
                   THEN b.bit_cache[i + 8 * k] ELSE 0]
    BY <1>1 DEF Shr, Word
  <2>3. \A i \in 0 .. CacheBits - 1 : i >= rest => cache[i] = 0
    BY <2>1, <2>2, <1>1, <1>2, WidthFacts
  <2> QED BY <2>2, <2>3 DEF Clean
<1> HIDE DEF cache
<1>8. /\ \A i \in 1 .. bytes_to_dump(b) : src[i] \in Byte
      /\ rest = b.bits_in_cache - 8 * bytes_to_dump(b)
      /\ dump_lsb(b) = [buffer |-> Store(b, bytes_to_dump(b), src),
                        byte_pos |-> b.byte_pos + bytes_to_dump(b),
                        bit_cache |-> cache, bits_in_cache |-> rest,
                        overflow |-> overruns(b, rest)]
  BY <1>4, <1>5 DEF k, c
<1> HIDE DEF rest
<1> QED BY <1>6, <1>7, <1>8, Dumped

---------------------------------------------------------------------------
\* Enqueuing n bits of a value that has no others.

QueuedMsb(b, value, n) ==
    [b EXCEPT !.bit_cache = Or(Shl(@, n), value),
              !.bits_in_cache = (@ + n) % CountMod]

QueuedLsb(b, value, n, ub) ==
    [b EXCEPT !.bit_cache = Or(@, Shl(Cast(value, CacheBits),
                                      Shift(b.bits_in_cache, ub))),
              !.bits_in_cache = (@ + n) % CountMod]

LEMMA Recached ==
    ASSUME NEW b \in Writers, NEW cache, NEW count
    PROVE  [b EXCEPT !.bit_cache = cache, !.bits_in_cache = count]
             = [buffer |-> b.buffer, byte_pos |-> b.byte_pos,
                bit_cache |-> cache, bits_in_cache |-> count,
                overflow |-> b.overflow]
<1>1. b = [buffer |-> b.buffer, byte_pos |-> b.byte_pos,
           bit_cache |-> b.bit_cache, bits_in_cache |-> b.bits_in_cache,
           overflow |-> b.overflow]
  BY DEF Writers
<1>2. [b EXCEPT !.bit_cache = cache]
        = [buffer |-> b.buffer, byte_pos |-> b.byte_pos,
           bit_cache |-> cache, bits_in_cache |-> b.bits_in_cache,
           overflow |-> b.overflow]
  BY <1>1
<1>3. [b EXCEPT !.bit_cache = cache, !.bits_in_cache = count]
        = [[b EXCEPT !.bit_cache = cache] EXCEPT !.bits_in_cache = count]
  OBVIOUS
<1>4. [[buffer |-> b.buffer, byte_pos |-> b.byte_pos,
        bit_cache |-> cache, bits_in_cache |-> b.bits_in_cache,
        overflow |-> b.overflow] EXCEPT !.bits_in_cache = count]
        = [buffer |-> b.buffer, byte_pos |-> b.byte_pos,
           bit_cache |-> cache, bits_in_cache |-> count,
           overflow |-> b.overflow]
  OBVIOUS
<1> QED BY <1>2, <1>3, <1>4, Zenon

LEMMA Queued ==
    ASSUME NEW b, Good(b), NEW n \in 1 .. MaxBits,
           NEW cache \in Word(CacheBits), NEW q,
           q = [buffer |-> b.buffer, byte_pos |-> b.byte_pos,
                bit_cache |-> cache,
                bits_in_cache |-> (b.bits_in_cache + n) % CountMod,
                overflow |-> b.overflow],
           Fits(b) => Clean(cache, b.bits_in_cache + n)
    PROVE  /\ Enqueued(q)
           /\ q.buffer = b.buffer /\ q.byte_pos = b.byte_pos
           /\ q.overflow = b.overflow /\ q.bit_cache = cache
           /\ Fits(b) => q.bits_in_cache = b.bits_in_cache + n
           /\ Full(q) <=> Full(b)
<1>1. Within(b) /\ (Full(b) \/ Fits(b))
  BY DEF Good
<1>2. /\ b.bits_in_cache \in Nat /\ b \in Writers
      /\ b.byte_pos <= Len(b.buffer)
  BY <1>1, WriterFields
<1>3. /\ q.buffer = b.buffer /\ q.byte_pos = b.byte_pos
      /\ q.overflow = b.overflow /\ q.bit_cache = cache
      /\ q.bits_in_cache = (b.bits_in_cache + n) % CountMod
  BY <1>2 DEF Writers
<1>4. (b.bits_in_cache + n) % CountMod \in 0 .. CountMod - 1
  BY <1>2, WidthFacts
<1>5. q \in Writers
  BY <1>2, <1>4 DEF Writers
<1>6. Within(q)
  BY <1>2, <1>3, <1>5 DEF Within
<1>7. ASSUME Fits(b)
      PROVE  q.bits_in_cache = b.bits_in_cache + n /\ q.bits_in_cache <= CacheBits
  <2>1. /\ b.bits_in_cache + n \in Nat /\ b.bits_in_cache + n < CountMod
        /\ b.bits_in_cache + n <= CacheBits
    BY <1>2, <1>7, WidthFacts DEF Fits
  <2>2. (b.bits_in_cache + n) % CountMod = b.bits_in_cache + n
    BY <2>1, WidthFacts
  <2> QED BY <2>1, <2>2, <1>3
<1>8. Full(q) <=> Full(b)
  BY <1>3, Zenon DEF Full
<1>9. Enqueued(q)
  <2>1. CASE Full(b)
    BY <2>1, <1>6, <1>8 DEF Enqueued
  <2>2. CASE Fits(b)
    BY <2>2, <1>3, <1>6, <1>7 DEF Enqueued
  <2> QED BY <2>1, <2>2, <1>1
<1> QED BY <1>3, <1>7, <1>8, <1>9

\* The new bits go below the others in MSB order and above them in LSB.
LEMMA MsbCache ==
    ASSUME NEW b, Within(b), NEW n \in 1 .. MaxBits,
           NEW value \in Word(MaxBits), Clean(value, n)
    PROVE  LET cache == Or(Shl(b.bit_cache, n), value) IN
           /\ cache \in Word(CacheBits)
           /\ \A i \in 0 .. CacheBits - 1 :
                cache[i] = IF i < n THEN value[i] ELSE b.bit_cache[i - n]
           /\ Fits(b) => Clean(cache, b.bits_in_cache + n)
<1> DEFINE x == b.bit_cache  s == Shl(x, n)  cache == Or(s, value)
<1>1. /\ x \in Word(CacheBits) /\ b.bits_in_cache \in Nat /\ n \in Nat
      /\ CacheBits \in Nat /\ MaxBits \in Nat /\ n <= MaxBits
      /\ MaxBits <= CacheBits
  BY WriterFields, WidthFacts
<1>2. Fits(b) => Clean(x, b.bits_in_cache)
  BY DEF Fits
<1> HIDE DEF x
<1>3. /\ s = [i \in 0 .. CacheBits - 1 |-> IF i < n THEN 0 ELSE x[i - n]]
      /\ DOMAIN s = 0 .. CacheBits - 1
  BY <1>1 DEF Shl, Word
<1> HIDE DEF s
<1>4. cache = [i \in 0 .. CacheBits - 1 |->
                 IF s[i] = 1 THEN 1
                 ELSE IF i \in 0 .. MaxBits - 1 THEN value[i] ELSE 0]
  BY <1>3 DEF Or, Word
<1> HIDE DEF cache
<1>5. ASSUME NEW i \in 0 .. CacheBits - 1
      PROVE  /\ cache[i] = IF i < n THEN value[i] ELSE x[i - n]
             /\ cache[i] \in Bit
  <2>1. CASE i < n
    <3>1. i \in 0 .. MaxBits - 1 /\ s[i] = 0
      BY <2>1, <1>1, <1>3
    <3> QED BY <3>1, <2>1, <1>4 DEF Word
  <2>2. CASE i >= n
    <3>1. i - n \in 0 .. CacheBits - 1 /\ s[i] = x[i - n] /\ ~ (i < n)
      BY <2>2, <1>1, <1>3
    <3>2. x[i - n] \in {0, 1}
      BY <3>1, <1>1 DEF Word, Bit
    <3>3. i \in 0 .. MaxBits - 1 => value[i] = 0
      BY <2>2 DEF Clean, Word
    <3> QED BY <3>1, <3>2, <3>3, <1>4 DEF Bit
  <2> QED BY <2>1, <2>2, <1>1
<1>6. cache \in Word(CacheBits)
  BY <1>4, <1>5 DEF Word
<1>7. ASSUME Fits(b) PROVE Clean(cache, b.bits_in_cache + n)
  <2> SUFFICES ASSUME NEW i \in 0 .. CacheBits - 1, i >= b.bits_in_cache + n
               PROVE  cache[i] = 0
    BY <1>4 DEF Clean
  <2>1. /\ i - n \in 0 .. CacheBits - 1 /\ i - n >= b.bits_in_cache
        /\ ~ (i < n)
    BY <1>1
  <2>2. x[i - n] = 0
    BY <2>1, <1>1, <1>2, <1>7 DEF Clean, Word
  <2> QED BY <2>1, <2>2, <1>5
<1> QED BY <1>5, <1>6, <1>7 DEF cache, s, x

LEMMA LsbCache ==
    ASSUME NEW b, Within(b), NEW n \in 1 .. MaxBits,
           NEW value \in Word(MaxBits), Clean(value, n), NEW ub
    PROVE  LET c     == b.bits_in_cache
               cache == Or(b.bit_cache,
                           Shl(Cast(value, CacheBits), Shift(c, ub)))
           IN
           /\ cache \in Word(CacheBits)
           /\ Fits(b) =>
                /\ \A i \in 0 .. CacheBits - 1 :
                    /\ i < c => cache[i] = b.bit_cache[i]
                    /\ c <= i /\ i < c + n => cache[i] = value[i - c]
                /\ Clean(cache, c + n)
<1> DEFINE x == b.bit_cache  c == b.bits_in_cache  h == Shift(c, ub)
           w == Cast(value, CacheBits)  s == Shl(w, h)  cache == Or(x, s)
<1>1. /\ x \in Word(CacheBits) /\ c \in Nat /\ n \in Nat
      /\ CacheBits \in Nat /\ MaxBits \in Nat /\ n <= MaxBits
      /\ MaxBits <= CacheBits /\ MaxBits + 7 <= CacheBits /\ CacheBits > 0
  BY WriterFields, WidthFacts
<1>2. Fits(b) => c < 8 /\ Clean(x, c)
  BY DEF Fits
<1>3. h \in Nat /\ (c < 8 => h = c)
  BY <1>1, WidthFacts DEF Shift
<1> HIDE DEF x, c, h
<1>4. /\ w = [i \in 0 .. CacheBits - 1 |->
                IF i \in 0 .. MaxBits - 1 THEN value[i] ELSE 0]
      /\ DOMAIN w = 0 .. CacheBits - 1
      /\ \A i \in 0 .. CacheBits - 1 : w[i] \in {0, 1}
  BY DEF Cast, Word, Bit
<1> HIDE DEF w
<1>5. /\ s = [i \in 0 .. CacheBits - 1 |-> IF i < h THEN 0 ELSE w[i - h]]
      /\ DOMAIN s = 0 .. CacheBits - 1
  BY <1>4 DEF Shl
<1> HIDE DEF s
<1>6. cache = [i \in 0 .. CacheBits - 1 |-> IF x[i] = 1 THEN 1 ELSE s[i]]
  BY <1>1, <1>5 DEF Or, Word
<1> HIDE DEF cache
<1>7. \A i \in 0 .. CacheBits - 1 : x[i] \in {0, 1} /\ s[i] \in {0, 1}
  <2> TAKE i \in 0 .. CacheBits - 1
  <2>1. x[i] \in {0, 1}
    BY <1>1 DEF Word, Bit
  <2>2. i >= h => i - h \in 0 .. CacheBits - 1
    BY <1>1, <1>3
  <2> QED BY <2>1, <2>2, <1>3, <1>4, <1>5
<1>8. cache \in Word(CacheBits)
  BY <1>6, <1>7 DEF Word, Bit
<1>9. ASSUME Fits(b)
      PROVE  /\ \A i \in 0 .. CacheBits - 1 :
                 /\ i < c => cache[i] = x[i]
                 /\ c <= i /\ i < c + n => cache[i] = value[i - c]
             /\ Clean(cache, c + n)
  <2>1. c < 8 /\ h = c /\ \A i \in 0 .. CacheBits - 1 : i >= c => x[i] = 0
    BY <1>1, <1>2, <1>3, <1>9 DEF Clean, Word
  <2>2. ASSUME NEW i \in 0 .. CacheBits - 1, i < c
        PROVE  cache[i] = x[i]
    BY <2>1, <2>2, <1>5, <1>6, <1>7
  <2>3. ASSUME NEW i \in 0 .. CacheBits - 1, c <= i
        PROVE  cache[i] = w[i - c] /\ i - c \in 0 .. CacheBits - 1
    <3>1. x[i] = 0 /\ ~ (i < h) /\ i - c \in 0 .. CacheBits - 1
      BY <2>1, <2>3, <1>1
    <3> QED BY <3>1, <2>1, <1>5, <1>6
  <2>4. ASSUME NEW i \in 0 .. CacheBits - 1, c <= i, i < c + n
        PROVE  cache[i] = value[i - c]
    <3>1. i - c \in 0 .. MaxBits - 1
      BY <2>4, <1>1
    <3> QED BY <3>1, <2>3, <2>4, <1>4
  <2>5. ASSUME NEW i \in 0 .. CacheBits - 1, i >= c + n
        PROVE  cache[i] = 0
    <3>1. c <= i /\ i - c >= n
      BY <2>5, <1>1
    <3>2. w[i - c] = 0
      <4>1. i - c \in 0 .. MaxBits - 1 => value[i - c] = 0
        BY <3>1 DEF Clean, Word
      <4> QED BY <4>1, <3>1, <2>3, <1>4
    <3> QED BY <3>1, <3>2, <2>3
  <2>6. Clean(cache, c + n)
    <3>1. DOMAIN cache = 0 .. CacheBits - 1
      BY <1>6
    <3> QED BY <3>1, <2>5 DEF Clean
  <2> QED BY <2>2, <2>4, <2>6
<1> QED BY <1>8, <1>9 DEF cache, s, w, h, c, x

\* A call that enqueues n bits leaves a writer between two calls, with the
\* whole bytes moved out or overflow reported.
Returns(b, n, d) ==
    /\ Good(d)
    /\ Appends(b, d)
    /\ d.overflow \/ d.bits_in_cache = (b.bits_in_cache + n) % 8

LEMMA DumpReturns ==
    ASSUME NEW b, Good(b), NEW n \in 1 .. MaxBits, NEW q, Enqueued(q),
           q.buffer = b.buffer, q.byte_pos = b.byte_pos,
           q.overflow = b.overflow,
           Fits(b) => q.bits_in_cache = b.bits_in_cache + n,
           Full(q) <=> Full(b),
           NEW d, Good(d), Appends(q, d), d.overflow \/ d.bits_in_cache < 8,
           d.bits_in_cache % 8 = q.bits_in_cache % 8
    PROVE  Returns(b, n, d)
<1>1. Appends(b, d)
  BY Zenon DEF Appends
<1>2. d.bits_in_cache \in Nat
  BY WriterFields DEF Good
<1>3. CASE Full(b)
  BY <1>1, <1>3, Zenon DEF Full, Appends, Returns
<1>4. CASE Fits(b)
  <2>1. d.overflow \/ d.bits_in_cache = d.bits_in_cache % 8
    BY <1>2
  <2> QED BY <2>1, <1>1, <1>4, Zenon DEF Returns
<1> QED BY <1>3, <1>4 DEF Good

LEMMA MsbEnqueue ==
    ASSUME NEW b, Good(b), NEW n \in 1 .. MaxBits,
           NEW value \in Word(MaxBits), Clean(value, n), NEW ub
    PROVE  Returns(b, n, enqueue(b, value, n, ub))
<1> DEFINE q == QueuedMsb(b, value, n)  d == enqueue(b, value, n, ub)
           cache == Or(Shl(b.bit_cache, n), value)
<1>1. b \in Writers /\ Within(b)
  BY WriterFields DEF Good
<1>2. cache \in Word(CacheBits) /\ (Fits(b) => Clean(cache, b.bits_in_cache + n))
  BY <1>1, MsbCache
<1>3. q = [buffer |-> b.buffer, byte_pos |-> b.byte_pos,
           bit_cache |-> cache,
           bits_in_cache |-> (b.bits_in_cache + n) % CountMod,
           overflow |-> b.overflow]
  BY <1>1, Recached DEF QueuedMsb
<1>4. d = IF q.bits_in_cache >= 8 THEN dump(q, ub) ELSE q
  BY DEF enqueue, QueuedMsb
<1> HIDE DEF q, d, cache
<1>5. /\ Enqueued(q)
      /\ q.buffer = b.buffer /\ q.byte_pos = b.byte_pos
      /\ q.overflow = b.overflow /\ q.bit_cache = cache
      /\ Fits(b) => q.bits_in_cache = b.bits_in_cache + n
      /\ Full(q) <=> Full(b)
  BY <1>2, <1>3, Queued
<1>6. q.bits_in_cache \in Nat /\ Within(q) /\ b.bits_in_cache \in Nat
  BY <1>1, <1>5, WriterFields DEF Enqueued
<1>7. CASE q.bits_in_cache >= 8
  <2>1. /\ d = dump(q, ub) /\ Good(d) /\ Appends(q, d)
        /\ d.overflow \/ d.bits_in_cache < 8
        /\ d.bits_in_cache % 8 = q.bits_in_cache % 8
    BY <1>4, <1>5, <1>7, MsbDumpKeeps
  <2> QED BY <2>1, <1>5, DumpReturns DEF d
<1>8. CASE ~ (q.bits_in_cache >= 8)
  <2>1. d = q /\ d.bits_in_cache < 8
    BY <1>4, <1>6, <1>8
  <2>2. Good(q)
    <3>1. Full(q) \/ Fits(q)
      BY <2>1, <1>5 DEF Enqueued, Fits
    <3> QED BY <3>1, <1>6 DEF Good
  <2>3. Appends(q, d)
    BY <2>1, <1>6, WriterFields DEF Appends
  <2> QED BY <2>1, <2>2, <2>3, <1>5, DumpReturns DEF d
<1> QED BY <1>7, <1>8

LEMMA LsbEnqueue ==
    ASSUME NEW b, Good(b), NEW n \in 1 .. MaxBits,
           NEW value \in Word(MaxBits), Clean(value, n), NEW ub
    PROVE  Returns(b, n, enqueue_lsb(b, value, n, ub))
<1> DEFINE q == QueuedLsb(b, value, n, ub)  d == enqueue_lsb(b, value, n, ub)
           cache == Or(b.bit_cache, Shl(Cast(value, CacheBits),
                                        Shift(b.bits_in_cache, ub)))
<1>1. b \in Writers /\ Within(b)
  BY WriterFields DEF Good
<1>2. cache \in Word(CacheBits) /\ (Fits(b) => Clean(cache, b.bits_in_cache + n))
  BY <1>1, LsbCache
<1>3. q = [buffer |-> b.buffer, byte_pos |-> b.byte_pos,
           bit_cache |-> cache,
           bits_in_cache |-> (b.bits_in_cache + n) % CountMod,
           overflow |-> b.overflow]
  BY <1>1, Recached DEF QueuedLsb
<1>4. d = IF q.bits_in_cache >= 8 THEN dump_lsb(q) ELSE q
  BY DEF enqueue_lsb, QueuedLsb
<1> HIDE DEF q, d, cache
<1>5. /\ Enqueued(q)
      /\ q.buffer = b.buffer /\ q.byte_pos = b.byte_pos
      /\ q.overflow = b.overflow /\ q.bit_cache = cache
      /\ Fits(b) => q.bits_in_cache = b.bits_in_cache + n
      /\ Full(q) <=> Full(b)
  BY <1>2, <1>3, Queued
<1>6. q.bits_in_cache \in Nat /\ Within(q) /\ b.bits_in_cache \in Nat
  BY <1>1, <1>5, WriterFields DEF Enqueued
<1>7. CASE q.bits_in_cache >= 8
  <2>1. /\ d = dump_lsb(q) /\ Good(d) /\ Appends(q, d)
        /\ d.overflow \/ d.bits_in_cache < 8
        /\ d.bits_in_cache % 8 = q.bits_in_cache % 8
    BY <1>4, <1>5, <1>7, LsbDumpKeeps
  <2> QED BY <2>1, <1>5, DumpReturns DEF d
<1>8. CASE ~ (q.bits_in_cache >= 8)
  <2>1. d = q /\ d.bits_in_cache < 8
    BY <1>4, <1>6, <1>8
  <2>2. Good(q)
    <3>1. Full(q) \/ Fits(q)
      BY <2>1, <1>5 DEF Enqueued, Fits
    <3> QED BY <3>1, <1>6 DEF Good
  <2>3. Appends(q, d)
    BY <2>1, <1>6, WriterFields DEF Appends
  <2> QED BY <2>1, <2>2, <2>3, <1>5, DumpReturns DEF d
<1> QED BY <1>7, <1>8

---------------------------------------------------------------------------
\* The calls.  A writer they leave is good; an align or a flush drains it.

Keeps(b, d)  == Good(d) /\ Appends(b, d)
Drains(b, d) == Keeps(b, d) /\ (d.overflow \/ d.bits_in_cache = 0)

LEMMA SameKept == ASSUME NEW b, Good(b) PROVE Keeps(b, b)
<1>1. b.byte_pos \in Nat
  BY WriterFields DEF Good
<1> QED BY <1>1 DEF Keeps, Appends

LEMMA LowClean ==
    ASSUME NEW value \in Word(MaxBits), NEW n \in Nat
    PROVE  Low(value, n) \in Word(MaxBits) /\ Clean(Low(value, n), n)
<1>1. Low(value, n) \in Word(MaxBits)
  BY DEF Low, Word, Bit
<1>2. Low(value, n) = [i \in 0 .. MaxBits - 1 |-> IF i < n THEN value[i] ELSE 0]
  BY DEF Low, Word
<1>3. \A i \in 0 .. MaxBits - 1 : i >= n => Low(value, n)[i] = 0
  BY <1>2, WidthFacts
<1> QED BY <1>1, <1>2, <1>3 DEF Clean

LEMMA ZeroClean ==
    ASSUME NEW n \in Nat
    PROVE  /\ Zero(MaxBits) \in Word(MaxBits)
           /\ Clean(Zero(MaxBits), n)
           /\ Low(Zero(MaxBits), n) = Zero(MaxBits)
<1>1. Zero(MaxBits) \in Word(MaxBits) /\ Clean(Zero(MaxBits), n)
  BY DEF Zero, Word, Bit, Clean
<1>2. Low(Zero(MaxBits), n) = Zero(MaxBits)
  BY DEF Low, Zero
<1> QED BY <1>1, <1>2

LEMMA MsbWrites ==
    ASSUME NEW b, Good(b), NEW n \in 0 .. MaxBits, NEW value \in Word(MaxBits),
           NEW ub
    PROVE  /\ n > 0 => Returns(b, n, bs_write_bits(b, value, n, ub))
           /\ n = 0 => bs_write_bits(b, value, n, ub) = b
           /\ Keeps(b, bs_write_bits(b, value, n, ub))
           /\ Keeps(b, bs_write_bit(b, value, ub))
           /\ n > 0 /\ Clean(value, n) =>
                Keeps(b, bs_write_bits_unchecked(b, value, n, ub))
<1>1. n \in Nat /\ (n > 0 => n \in 1 .. MaxBits) /\ 1 \in 1 .. MaxBits
  BY WidthFacts
<1>2. /\ Low(value, n) \in Word(MaxBits) /\ Clean(Low(value, n), n)
      /\ Low(value, 1) \in Word(MaxBits) /\ Clean(Low(value, 1), 1)
  BY <1>1, LowClean
<1>3. n > 0 => Returns(b, n, bs_write_bits(b, value, n, ub))
  BY <1>1, <1>2, MsbEnqueue DEF bs_write_bits
<1>4. n = 0 => bs_write_bits(b, value, n, ub) = b
  BY DEF bs_write_bits
<1>5. Keeps(b, bs_write_bit(b, value, ub))
  BY <1>1, <1>2, MsbEnqueue DEF bs_write_bit, Returns, Keeps
<1>6. n > 0 /\ Clean(value, n) =>
        Keeps(b, bs_write_bits_unchecked(b, value, n, ub))
  BY <1>1, MsbEnqueue DEF bs_write_bits_unchecked, Returns, Keeps
<1>7. Keeps(b, bs_write_bits(b, value, n, ub))
  BY <1>1, <1>3, <1>4, SameKept DEF Returns, Keeps
<1> QED BY <1>3, <1>4, <1>5, <1>6, <1>7

LEMMA LsbWrites ==
    ASSUME NEW b, Good(b), NEW n \in 0 .. MaxBits, NEW value \in Word(MaxBits),
           NEW ub
    PROVE  /\ n > 0 => Returns(b, n, bs_write_bits_lsb(b, value, n, ub))
           /\ n = 0 => bs_write_bits_lsb(b, value, n, ub) = b
           /\ Keeps(b, bs_write_bits_lsb(b, value, n, ub))
           /\ n > 0 /\ Clean(value, n) =>
                Keeps(b, bs_write_bits_lsb_unchecked(b, value, n, ub))
<1>1. n \in Nat /\ (n > 0 => n \in 1 .. MaxBits)
  BY WidthFacts
<1>2. Low(value, n) \in Word(MaxBits) /\ Clean(Low(value, n), n)
  BY <1>1, LowClean
<1>3. n > 0 => Returns(b, n, bs_write_bits_lsb(b, value, n, ub))
  BY <1>1, <1>2, LsbEnqueue DEF bs_write_bits_lsb
<1>4. n = 0 => bs_write_bits_lsb(b, value, n, ub) = b
  BY DEF bs_write_bits_lsb
<1>5. n > 0 /\ Clean(value, n) =>
        Keeps(b, bs_write_bits_lsb_unchecked(b, value, n, ub))
  BY <1>1, LsbEnqueue DEF bs_write_bits_lsb_unchecked, Returns, Keeps
<1>6. Keeps(b, bs_write_bits_lsb(b, value, n, ub))
  BY <1>1, <1>3, <1>4, SameKept DEF Returns, Keeps
<1> QED BY <1>3, <1>4, <1>5, <1>6

LEMMA GoodEnqueued == ASSUME NEW b, Good(b) PROVE Enqueued(b)
<1>1. Within(b) /\ (Full(b) \/ Fits(b))
  BY DEF Good
<1>2. Fits(b) => b.bits_in_cache <= CacheBits /\ Clean(b.bit_cache, b.bits_in_cache)
  BY <1>1, WriterFields, WidthFacts DEF Fits
<1> QED BY <1>1, <1>2 DEF Enqueued

LEMMA RoundsUp ==
    ASSUME NEW c \in Nat
    PROVE  /\ c % 8 \in 0 .. 7
           /\ c % 8 # 0 => /\ 8 - (c % 8) \in 1 .. 8
                           /\ (c + (8 - (c % 8))) % 8 = 0
           /\ c < 8 /\ c % 8 = 0 => c = 0
OBVIOUS

LEMMA AlignDrains ==
    ASSUME NEW b, Good(b), NEW ub
    PROVE  /\ Drains(b, bs_writer_align(b, ub))
           /\ Drains(b, bs_writer_align_lsb(b, ub))
<1> DEFINE res == b.bits_in_cache % 8
<1>1. b.bits_in_cache \in Nat
  BY WriterFields DEF Good
<1>2. /\ res \in 0 .. 7
      /\ res # 0 => 8 - res \in 1 .. 8 /\ (b.bits_in_cache + (8 - res)) % 8 = 0
      /\ b.bits_in_cache < 8 /\ res = 0 => b.bits_in_cache = 0
  BY <1>1, RoundsUp
<1>3. /\ bs_writer_align(b, ub)
           = IF res = 0 THEN b ELSE bs_write_bits(b, Zero(MaxBits), 8 - res, ub)
      /\ bs_writer_align_lsb(b, ub)
           = IF res = 0 THEN b
             ELSE bs_write_bits_lsb(b, Zero(MaxBits), 8 - res, ub)
  BY DEF bs_writer_align, bs_writer_align_lsb
<1> HIDE DEF res
<1>4. CASE res = 0
  <2>1. b.overflow \/ b.bits_in_cache = 0
    BY <1>2, <1>4 DEF Good, Full, Fits
  <2> QED BY <2>1, <1>3, <1>4, SameKept DEF Drains
<1>5. CASE res # 0
  <2>1. 8 - res \in 0 .. MaxBits /\ 8 - res > 0
    BY <1>2, <1>5, WidthFacts
  <2>2. Zero(MaxBits) \in Word(MaxBits)
    BY ZeroClean
  <2>3. /\ Returns(b, 8 - res, bs_writer_align(b, ub))
        /\ Returns(b, 8 - res, bs_writer_align_lsb(b, ub))
    BY <2>1, <2>2, <1>3, <1>5, MsbWrites, LsbWrites
  <2> QED BY <2>3, <1>2, <1>5 DEF Returns, Drains, Keeps
<1> QED BY <1>4, <1>5

LEMMA Reported ==
    ASSUME NEW b, Good(b)
    PROVE  LET e == [b EXCEPT !.overflow = TRUE] IN
           /\ Keeps(b, e) /\ e.overflow
           /\ e.buffer = b.buffer /\ e.byte_pos = b.byte_pos
           /\ e.bit_cache = b.bit_cache /\ e.bits_in_cache = b.bits_in_cache
<1> DEFINE e == [b EXCEPT !.overflow = TRUE]
<1>1. /\ b \in Writers /\ b.byte_pos <= Len(b.buffer) /\ b.byte_pos \in Nat
      /\ Full(b) \/ Fits(b)
  BY WriterFields DEF Good, Within
<1>2. /\ e.buffer = b.buffer /\ e.byte_pos = b.byte_pos /\ e.overflow = TRUE
      /\ e.bit_cache = b.bit_cache /\ e.bits_in_cache = b.bits_in_cache
      /\ e \in Writers
  BY <1>1 DEF Writers
<1> HIDE DEF e
<1>3. Full(e) \/ Fits(e)
  BY <1>1, <1>2 DEF Full, Fits
<1>4. Good(e)
  BY <1>1, <1>2, <1>3 DEF Good, Within
<1>5. Appends(b, e)
  BY <1>1, <1>2 DEF Appends
<1> QED BY <1>2, <1>4, <1>5 DEF Keeps, e

LEMMA FlushDrainsCall ==
    ASSUME NEW b, Good(b), NEW ub
    PROVE  /\ Drains(b, bs_writer_flush(b, ub))
           /\ Drains(b, bs_writer_flush_lsb(b, ub))
<1>1. b.bits_in_cache = 0 => Drains(b, b)
  BY SameKept DEF Drains
<1>2. ASSUME NEW d, Keeps(b, d)
      PROVE  /\ d.bits_in_cache \in Nat
             /\ d.bits_in_cache = 0 => Drains(b, d)
             /\ Drains(b, [d EXCEPT !.overflow = TRUE])
             /\ d.bits_in_cache # 0 /\ ~ (d.bits_in_cache >= 8) =>
                  /\ Drains(b, bs_write_bits(d, Zero(MaxBits),
                                             8 - d.bits_in_cache, ub))
                  /\ Drains(b, bs_write_bits_lsb(d, Zero(MaxBits),
                                                 8 - d.bits_in_cache, ub))
  <2>1. Good(d) /\ d.bits_in_cache \in Nat
    BY <1>2, WriterFields DEF Keeps, Good
  <2>2. ASSUME NEW e, Keeps(d, e) PROVE Keeps(b, e)
    <3>1. Within(b) /\ Within(d) /\ Within(e)
      BY <2>2, <1>2 DEF Keeps, Good
    <3> QED BY <3>1, <2>2, <1>2, AppendsTransitive DEF Keeps
  <2>3. Drains(b, [d EXCEPT !.overflow = TRUE])
    BY <2>1, <2>2, Reported DEF Drains
  <2>4. ASSUME d.bits_in_cache # 0, ~ (d.bits_in_cache >= 8)
        PROVE  /\ Drains(b, bs_write_bits(d, Zero(MaxBits),
                                          8 - d.bits_in_cache, ub))
               /\ Drains(b, bs_write_bits_lsb(d, Zero(MaxBits),
                                              8 - d.bits_in_cache, ub))
    <3> DEFINE n == 8 - d.bits_in_cache
    <3>1. n \in 0 .. MaxBits /\ n > 0 /\ (d.bits_in_cache + n) % 8 = 0
      BY <2>1, <2>4, WidthFacts
    <3>2. Zero(MaxBits) \in Word(MaxBits)
      BY ZeroClean
    <3> HIDE DEF n
    <3>3. /\ Returns(d, n, bs_write_bits(d, Zero(MaxBits), n, ub))
          /\ Returns(d, n, bs_write_bits_lsb(d, Zero(MaxBits), n, ub))
      BY <2>1, <3>1, <3>2, MsbWrites, LsbWrites
    <3>4. /\ Drains(b, bs_write_bits(d, Zero(MaxBits), n, ub))
          /\ Drains(b, bs_write_bits_lsb(d, Zero(MaxBits), n, ub))
      BY <2>2, <3>1, <3>3 DEF Returns, Drains, Keeps
    <3> QED BY <3>4 DEF n
  <2> QED BY <2>1, <2>3, <2>4, <1>2 DEF Drains
<1>3. Keeps(b, b) /\ Keeps(b, dump(b, ub)) /\ Keeps(b, dump_lsb(b))
  BY GoodEnqueued, SameKept, MsbDumpKeeps, LsbDumpKeeps DEF Keeps
<1>4. Drains(b, bs_writer_flush(b, ub))
  BY <1>1, <1>2, <1>3 DEF bs_writer_flush
<1>5. Drains(b, bs_writer_flush_lsb(b, ub))
  BY <1>1, <1>2, <1>3 DEF bs_writer_flush_lsb
<1> QED BY <1>4, <1>5

LEMMA Rewritten ==
    ASSUME NEW b \in Writers, NEW data, NEW pos
    PROVE  [b EXCEPT !.buffer = data, !.byte_pos = pos]
             = [buffer |-> data, byte_pos |-> pos,
                bit_cache |-> b.bit_cache, bits_in_cache |-> b.bits_in_cache,
                overflow |-> b.overflow]
<1>1. b = [buffer |-> b.buffer, byte_pos |-> b.byte_pos,
           bit_cache |-> b.bit_cache, bits_in_cache |-> b.bits_in_cache,
           overflow |-> b.overflow]
  BY DEF Writers
<1>2. [b EXCEPT !.buffer = data]
        = [buffer |-> data, byte_pos |-> b.byte_pos,
           bit_cache |-> b.bit_cache, bits_in_cache |-> b.bits_in_cache,
           overflow |-> b.overflow]
  BY <1>1
<1>3. [b EXCEPT !.buffer = data, !.byte_pos = pos]
        = [[b EXCEPT !.buffer = data] EXCEPT !.byte_pos = pos]
  OBVIOUS
<1>4. [[buffer |-> data, byte_pos |-> b.byte_pos,
        bit_cache |-> b.bit_cache, bits_in_cache |-> b.bits_in_cache,
        overflow |-> b.overflow] EXCEPT !.byte_pos = pos]
        = [buffer |-> data, byte_pos |-> pos,
           bit_cache |-> b.bit_cache, bits_in_cache |-> b.bits_in_cache,
           overflow |-> b.overflow]
  OBVIOUS
<1> QED BY <1>2, <1>3, <1>4, Zenon

LEMMA WriteBytesKeeps ==
    ASSUME NEW b, Good(b), NEW bytes \in Seq(Byte)
    PROVE  Keeps(b, bs_write_bytes(b, bytes))
<1>1. /\ b \in Writers /\ Within(b) /\ b.byte_pos \in Nat
      /\ b.byte_pos <= Len(b.buffer) /\ Len(b.buffer) \in Nat
      /\ Full(b) \/ Fits(b)
  BY WriterFields DEF Good
<1>2. CASE can_write_bytes(b, bytes)
  <2> DEFINE n == Len(bytes)  s == Store(b, n, bytes)
             d == [b EXCEPT !.buffer = s, !.byte_pos = @ + n]
  <2>1. /\ n \in Nat /\ b.byte_pos + n <= Len(b.buffer) /\ ~ b.overflow
        /\ \A i \in 1 .. n : bytes[i] \in Byte
    BY <1>1, <1>2 DEF can_write_bytes
  <2>2. bs_write_bytes(b, bytes) = d
    BY <1>2 DEF bs_write_bytes
  <2> HIDE DEF n
  <2>3. /\ s \in Seq(Byte) /\ Len(s) = Len(b.buffer)
        /\ \A j \in 1 .. Len(b.buffer) :
             s[j] = IF b.byte_pos < j /\ j <= b.byte_pos + n
                    THEN bytes[j - b.byte_pos] ELSE b.buffer[j]
    BY <1>1, <2>1, StoreKeeps
  <2> HIDE DEF s
  <2>4. /\ d.buffer = s /\ d.byte_pos = b.byte_pos + n
        /\ d.bit_cache = b.bit_cache /\ d.bits_in_cache = b.bits_in_cache
        /\ d.overflow = b.overflow /\ d \in Writers
    <3>1. d = [buffer |-> s, byte_pos |-> b.byte_pos + n,
               bit_cache |-> b.bit_cache, bits_in_cache |-> b.bits_in_cache,
               overflow |-> b.overflow]
      BY <1>1, Rewritten
    <3>2. b.byte_pos + n \in Nat
      BY <1>1, <2>1
    <3> QED BY <3>1, <3>2, <1>1, <2>3 DEF Writers
  <2> HIDE DEF d
  <2>5. Fits(d)
    BY <1>1, <2>1, <2>4 DEF Full, Fits
  <2>6. Good(d)
    BY <1>1, <2>1, <2>3, <2>4, <2>5 DEF Good, Within
  <2>7. Appends(b, d)
    BY <1>1, <2>1, <2>3, <2>4 DEF Appends
  <2> QED BY <2>2, <2>6, <2>7 DEF Keeps
<1>3. CASE ~ can_write_bytes(b, bytes)
  BY <1>3, SameKept, Reported DEF bs_write_bytes
<1> QED BY <1>2, <1>3

---------------------------------------------------------------------------
\* The j-th bit (from 1) of all that is stored and enqueued.
BitAt(b, o, j) ==
    IF j <= 8 * b.byte_pos THEN StreamBit(b.buffer, o, j - 1)
    ELSE b.bit_cache[IF o = "msb"
                     THEN b.bits_in_cache - (j - 8 * b.byte_pos)
                     ELSE (j - 8 * b.byte_pos) - 1]

Size(b) ==
    IF Full(b) THEN 8 * b.byte_pos ELSE 8 * b.byte_pos + b.bits_in_cache

KeptOf(b, o) == [j \in 1 .. Size(b) |-> BitAt(b, o, j)]

\* d is b after bits have been appended, as the sink appends them.
Longer(b, d, o, bits) ==
    LET s == KeptOf(b, o) \o bits  cap == Len(b.buffer) IN
    /\ d.overflow <=> b.overflow \/ Len(s) >= 8 * (cap + 1)
    /\ KeptOf(d, o) = IF d.overflow /\ Len(s) >= 8 * cap
                      THEN SubSeq(s, 1, MinOf(Len(s), 8 * cap)) ELSE s

---------------------------------------------------------------------------
\* The bits kept.

LEMMA StreamIndex ==
    ASSUME NEW p \in Nat, NEW j \in 1 .. 8 * p
    PROVE  /\ ((j - 1) \div 8) + 1 \in 1 .. p
           /\ (j - 1) % 8 \in 0 .. 7 /\ 7 - ((j - 1) % 8) \in 0 .. 7
           /\ j - 1 = 8 * ((j - 1) \div 8) + ((j - 1) % 8)
OBVIOUS

LEMMA StreamBits ==
    ASSUME NEW data \in Seq(Byte), NEW o, NEW j \in 1 .. 8 * Len(data)
    PROVE  StreamBit(data, o, j - 1) \in Bit
<1>1. Len(data) \in Nat
  OBVIOUS
<1>2. /\ ((j - 1) \div 8) + 1 \in 1 .. Len(data)
      /\ (j - 1) % 8 \in 0 .. 7 /\ 7 - ((j - 1) % 8) \in 0 .. 7
  BY <1>1, StreamIndex
<1>3. data[((j - 1) \div 8) + 1] \in [0 .. 7 -> Bit]
  BY <1>2, ByteBits
<1> QED BY <1>2, <1>3 DEF StreamBit

LEMMA KeptBits ==
    ASSUME NEW b, Good(b), NEW o
    PROVE  /\ Size(b) \in Nat
           /\ \A j \in 1 .. Size(b) : BitAt(b, o, j) \in Bit
           /\ KeptOf(b, o) \in Seq(Bit) /\ Len(KeptOf(b, o)) = Size(b)
<1> DEFINE p == b.byte_pos  c == b.bits_in_cache  x == b.bit_cache
<1>1. /\ p \in Nat /\ c \in Nat /\ x \in [0 .. CacheBits - 1 -> Bit]
      /\ b.buffer \in Seq(Byte) /\ p <= Len(b.buffer) /\ Len(b.buffer) \in Nat
      /\ ~ Full(b) => c < 8
  BY WriterFields DEF Good, Fits, Word
<1>2. Size(b) = IF Full(b) THEN 8 * p ELSE 8 * p + c
  BY DEF Size
<1>3. ASSUME NEW j
      PROVE  BitAt(b, o, j)
               = IF j <= 8 * p THEN StreamBit(b.buffer, o, j - 1)
                 ELSE x[IF o = "msb" THEN c - (j - 8 * p) ELSE (j - 8 * p) - 1]
  BY DEF BitAt
<1> HIDE DEF p, c, x
<1>4. Size(b) \in Nat
  BY <1>1, <1>2
<1>5. ASSUME NEW j \in 1 .. Size(b)
      PROVE  BitAt(b, o, j) \in Bit
  <2>1. CASE j <= 8 * p
    <3>1. j \in 1 .. 8 * Len(b.buffer)
      BY <2>1, <1>1
    <3>2. StreamBit(b.buffer, o, j - 1) \in Bit
      BY <3>1, <1>1, StreamBits
    <3> QED BY <3>2, <2>1, <1>3
  <2>2. CASE ~ (j <= 8 * p)
    <3>1. /\ c - (j - 8 * p) \in 0 .. CacheBits - 1
          /\ (j - 8 * p) - 1 \in 0 .. CacheBits - 1
      BY <2>2, <1>1, <1>2, WidthFacts
    <3> QED BY <3>1, <2>2, <1>1, <1>3
  <2> QED BY <2>1, <2>2
<1>6. KeptOf(b, o) \in [1 .. Size(b) -> Bit]
  BY <1>5 DEF KeptOf
<1> QED BY <1>4, <1>5, <1>6

\* The mapping of module Writer is the bits kept.
LEMMA KeptIs ==
    ASSUME NEW b, Good(b), NEW o
    PROVE  (IF b.overflow /\ b.byte_pos = Len(b.buffer)
            THEN [j \in 1 .. 8 * b.byte_pos |-> StreamBit(b.buffer, o, j - 1)]
            ELSE [j \in 1 .. 8 * b.byte_pos |-> StreamBit(b.buffer, o, j - 1)]
                 \o [j \in 1 .. b.bits_in_cache |->
                       b.bit_cache[IF o = "msb" THEN b.bits_in_cache - j
                                   ELSE j - 1]])
             = KeptOf(b, o)
<1> DEFINE p == b.byte_pos  c == b.bits_in_cache  x == b.bit_cache
           stored == [j \in 1 .. 8 * p |-> StreamBit(b.buffer, o, j - 1)]
           pending == [j \in 1 .. c |-> x[IF o = "msb" THEN c - j ELSE j - 1]]
<1>1. /\ p \in Nat /\ c \in Nat /\ x \in [0 .. CacheBits - 1 -> Bit]
      /\ b.buffer \in Seq(Byte) /\ p <= Len(b.buffer) /\ Len(b.buffer) \in Nat
      /\ ~ Full(b) => c < 8
  BY WriterFields DEF Good, Fits, Word
<1>2. /\ Size(b) = IF Full(b) THEN 8 * p ELSE 8 * p + c
      /\ Full(b) <=> b.overflow /\ p = Len(b.buffer)
      /\ \A j \in 1 .. Size(b) : KeptOf(b, o)[j]
           = IF j <= 8 * p THEN StreamBit(b.buffer, o, j - 1)
             ELSE x[IF o = "msb" THEN c - (j - 8 * p) ELSE (j - 8 * p) - 1]
  BY DEF Size, Full, KeptOf, BitAt
<1>3. KeptOf(b, o) \in Seq(Bit) /\ Len(KeptOf(b, o)) = Size(b)
  BY KeptBits
<1> HIDE DEF p, c, x
<1>4. stored \in Seq(Bit) /\ Len(stored) = 8 * p
  <2>1. \A j \in 1 .. 8 * p : StreamBit(b.buffer, o, j - 1) \in Bit
    BY <1>1, StreamBits
  <2>2. stored \in [1 .. 8 * p -> Bit]
    BY <2>1
  <2> QED BY <2>2, <1>1
<1>5. CASE Full(b)
  <2>1. stored = KeptOf(b, o)
    <3>1. \A j \in 1 .. 8 * p : stored[j] = KeptOf(b, o)[j]
      BY <1>2, <1>5
    <3>2. Len(KeptOf(b, o)) = 8 * p
      BY <1>2, <1>3, <1>5
    <3> HIDE DEF stored
    <3> QED BY <3>1, <3>2, <1>3, <1>4, SeqEqual
  <2> QED BY <2>1, <1>2, <1>5 DEF p, c, x
<1>6. CASE ~ Full(b)
  <2>1. pending \in Seq(Bit) /\ Len(pending) = c
    <3>1. \A j \in 1 .. c : c - j \in 0 .. CacheBits - 1 /\ j - 1 \in 0 .. CacheBits - 1
      BY <1>1, <1>6, WidthFacts
    <3>2. pending \in [1 .. c -> Bit]
      BY <3>1, <1>1
    <3> QED BY <3>2, <1>1
  <2>2. /\ \A j \in 1 .. 8 * p : stored[j] = StreamBit(b.buffer, o, j - 1)
        /\ \A j \in 1 .. c : pending[j] = x[IF o = "msb" THEN c - j ELSE j - 1]
    OBVIOUS
  <2> HIDE DEF stored, pending
  <2>3. /\ stored \o pending \in Seq(Bit)
        /\ Len(stored \o pending) = 8 * p + c
        /\ \A j \in 1 .. 8 * p + c :
             (stored \o pending)[j] = IF j <= 8 * p THEN stored[j]
                                      ELSE pending[j - 8 * p]
    <3>1. /\ stored \o pending \in Seq(Bit)
          /\ Len(stored \o pending) = Len(stored) + Len(pending)
          /\ \A j \in 1 .. Len(stored) + Len(pending) :
               (stored \o pending)[j] = IF j <= Len(stored) THEN stored[j]
                                        ELSE pending[j - Len(stored)]
      BY <1>4, <2>1, ConcatProperties
    <3> QED BY <3>1, <1>4, <2>1
  <2>4. ASSUME NEW j \in 1 .. 8 * p + c
        PROVE  (stored \o pending)[j] = KeptOf(b, o)[j]
    <3>1. CASE j <= 8 * p
      BY <3>1, <2>2, <2>3, <1>1, <1>2, <1>6
    <3>2. CASE ~ (j <= 8 * p)
      <4>1. j - 8 * p \in 1 .. c
        BY <3>2, <1>1
      <4> QED BY <4>1, <3>2, <2>2, <2>3, <1>2, <1>6
    <3> QED BY <3>1, <3>2
  <2>5. Len(KeptOf(b, o)) = 8 * p + c
    BY <1>2, <1>3, <1>6
  <2>6. stored \o pending = KeptOf(b, o)
    BY <2>3, <2>4, <2>5, <1>3, SeqEqual
  <2> QED BY <2>6, <1>2, <1>6 DEF stored, pending, p, c, x
<1> QED BY <1>5, <1>6

---------------------------------------------------------------------------
\* Appending, bit by bit.

LEMMA Appended ==
    ASSUME NEW b, Good(b), NEW o, NEW bits \in Seq(Bit)
    PROVE  LET s == KeptOf(b, o) \o bits IN
           /\ s \in Seq(Bit) /\ Len(s) = Size(b) + Len(bits)
           /\ Size(b) \in Nat /\ Len(bits) \in Nat
           /\ \A j \in 1 .. Size(b) + Len(bits) :
                s[j] = IF j <= Size(b) THEN BitAt(b, o, j) ELSE bits[j - Size(b)]
<1> DEFINE t == KeptOf(b, o)  N == Size(b)  m == Len(bits)
<1>1. t \in Seq(Bit) /\ Len(t) = N /\ N \in Nat /\ m \in Nat
  BY KeptBits
<1>2. \A j \in 1 .. N : t[j] = BitAt(b, o, j)
  BY DEF KeptOf
<1> HIDE DEF t, N
<1>3. /\ t \o bits \in Seq(Bit) /\ Len(t \o bits) = Len(t) + Len(bits)
      /\ \A j \in 1 .. Len(t) + Len(bits) :
           (t \o bits)[j] = IF j <= Len(t) THEN t[j] ELSE bits[j - Len(t)]
  BY <1>1, ConcatProperties
<1>4. \A j \in 1 .. N + m :
        (t \o bits)[j] = IF j <= N THEN BitAt(b, o, j) ELSE bits[j - N]
  <2> TAKE j \in 1 .. N + m
  <2>1. (t \o bits)[j] = IF j <= N THEN t[j] ELSE bits[j - N]
    BY <1>1, <1>3
  <2>2. j <= N => t[j] = BitAt(b, o, j)
    BY <1>1, <1>2
  <2> QED BY <2>1, <2>2
<1> QED BY <1>1, <1>3, <1>4 DEF t, N

LEMMA LongerIs ==
    ASSUME NEW b, Good(b), NEW d, Good(d), Len(d.buffer) = Len(b.buffer),
           NEW o, NEW bits \in Seq(Bit), NEW n, n = Size(b) + Len(bits),
           d.overflow <=> b.overflow \/ n >= 8 * (Len(b.buffer) + 1),
           Size(d) = IF d.overflow /\ n >= 8 * Len(b.buffer)
                     THEN 8 * Len(b.buffer) ELSE n,
           \A j \in 1 .. Size(d) :
               BitAt(d, o, j) = IF j <= Size(b) THEN BitAt(b, o, j)
                                ELSE bits[j - Size(b)]
    PROVE  Longer(b, d, o, bits)
<1> DEFINE s == KeptOf(b, o) \o bits  L == Len(b.buffer)  t == KeptOf(d, o)
<1>1. /\ s \in Seq(Bit) /\ Len(s) = n /\ n \in Nat /\ Size(b) \in Nat
      /\ \A j \in 1 .. n : s[j] = IF j <= Size(b) THEN BitAt(b, o, j)
                                  ELSE bits[j - Size(b)]
  <2>1. /\ s \in Seq(Bit) /\ Len(s) = Size(b) + Len(bits)
        /\ Size(b) \in Nat /\ Len(bits) \in Nat
        /\ \A j \in 1 .. Size(b) + Len(bits) :
             s[j] = IF j <= Size(b) THEN BitAt(b, o, j) ELSE bits[j - Size(b)]
    BY Appended
  <2> HIDE DEF s
  <2> QED BY <2>1
<1>2. /\ t \in Seq(Bit) /\ Len(t) = Size(d) /\ Size(d) \in Nat
  BY KeptBits
<1>3. \A j \in 1 .. Size(d) : t[j] = BitAt(d, o, j)
  BY DEF KeptOf
<1>4. L \in Nat
  BY WriterFields DEF Good
<1>5. Size(d) <= n
  BY <1>1, <1>4
<1>6. \A j \in 1 .. Size(d) : j \in 1 .. n /\ t[j] = s[j]
  BY <1>1, <1>2, <1>3, <1>5, SMTT(30)
<1>7. t = IF d.overflow /\ n >= 8 * L THEN SubSeq(s, 1, MinOf(n, 8 * L)) ELSE s
  <2>1. CASE d.overflow /\ n >= 8 * L
    <3>1. Size(d) = 8 * L /\ MinOf(n, 8 * L) = 8 * L
      <4>1. Size(d) = 8 * L
        BY <2>1, Zenon
      <4>2. MinOf(n, 8 * L) = 8 * L
        BY <2>1, <1>1, <1>4 DEF MinOf
      <4> QED BY <4>1, <4>2
    <3> HIDE DEF s, t
    <3>2. /\ 1 \in Int /\ 8 * L \in Int /\ \A i \in 1 .. 8 * L : s[i] \in Bit
      BY <2>1, <1>1, <1>4
    <3>3. /\ SubSeq(s, 1, 8 * L) \in Seq(Bit)
          /\ Len(SubSeq(s, 1, 8 * L)) = 8 * L
          /\ \A i \in 1 .. 8 * L : SubSeq(s, 1, 8 * L)[i] = s[i]
      <4> DEFINE w == 8 * L
      <4>1. w \in Nat /\ w \in Int /\ 1 \in Int
        BY <1>4
      <4>2. \A i \in 1 .. w : s[i] \in Bit
        BY <3>2
      <4> HIDE DEF w
      <4>3. /\ SubSeq(s, 1, w) \in Seq(Bit)
            /\ Len(SubSeq(s, 1, w)) = IF 1 <= w THEN w - 1 + 1 ELSE 0
            /\ \A i \in 1 .. w - 1 + 1 : SubSeq(s, 1, w)[i] = s[1 + i - 1]
        BY <4>1, <4>2, SubSeqProperties
      <4>4. \A i \in 1 .. w : SubSeq(s, 1, w)[i] = s[i]
        <5> TAKE i \in 1 .. w
        <5>1. i \in 1 .. w - 1 + 1 /\ 1 + i - 1 = i
          BY <4>1
        <5> QED BY <5>1, <4>3
      <4> QED BY <4>1, <4>3, <4>4 DEF w
    <3>4. t = SubSeq(s, 1, 8 * L)
      BY <3>1, <3>3, <1>2, <1>6, SeqEqual, SMTT(30)
    <3> QED BY <3>1, <3>4, <2>1
  <2>2. CASE ~ (d.overflow /\ n >= 8 * L)
    <3>1. Size(d) = n
      BY <2>2
    <3> HIDE DEF s, t
    <3>2. t = s
      BY <3>1, <1>1, <1>2, <1>6, SeqEqual, SMTT(30)
    <3> QED BY <3>2, <2>2
  <2> QED BY <2>1, <2>2
<1> HIDE DEF s, t, L
<1> QED BY <1>1, <1>7 DEF Longer, s, t, L

---------------------------------------------------------------------------
\* A dump moves bits without changing them, unless the memory is overrun.

\* Place of the t-th enqueued bit (from 1) of n in the cache.
Place(o, n, t) == IF o = "msb" THEN n - t ELSE t - 1

\* What holds of d when q has been dumped.
Moved(q, d, o) ==
    LET k == bytes_to_dump(q)  rest == q.bits_in_cache - 8 * k IN
    /\ Len(d.buffer) = Len(q.buffer)
    /\ d.byte_pos = q.byte_pos + k
    /\ d.bits_in_cache = rest
    /\ d.overflow <=> q.overflow \/ rest >= 8
    /\ \A j \in 1 .. 8 * (q.byte_pos + k) + rest :
        j <= 8 * (q.byte_pos + k) \/ rest < 8 => BitAt(d, o, j) = BitAt(q, o, j)

\* d is q after a dump that stores the bytes src and leaves cache: each is
\* the enqueued bits at its place.
Dumps(q, d, o, src, cache) ==
    LET k == bytes_to_dump(q)  rest == q.bits_in_cache - 8 * k IN
    /\ d = [buffer |-> Store(q, k, src), byte_pos |-> q.byte_pos + k,
            bit_cache |-> cache, bits_in_cache |-> rest,
            overflow |-> overruns(q, rest)]
    /\ \A i \in 1 .. k, m \in 0 .. 7 :
        src[i][IF o = "msb" THEN 7 - m ELSE m]
          = q.bit_cache[Place(o, q.bits_in_cache, 8 * (i - 1) + m + 1)]
    /\ rest < 8 => \A t \in 1 .. rest :
        cache[Place(o, rest, t)]
          = q.bit_cache[Place(o, q.bits_in_cache, 8 * k + t)]

LEMMA MovedIs ==
    ASSUME NEW q, Within(q), NEW o \in Orders, NEW src, NEW cache, NEW d,
           \A i \in 1 .. bytes_to_dump(q) : src[i] \in Byte,
           Dumps(q, d, o, src, cache)
    PROVE  Moved(q, d, o)
<1> DEFINE L == Len(q.buffer)  p == q.byte_pos  n == q.bits_in_cache
           x == q.bit_cache  k == bytes_to_dump(q)  rest == n - 8 * k
           s == Store(q, k, src)
<1>1. /\ L \in Nat /\ p \in Nat /\ p <= L /\ n \in Nat
      /\ k \in Nat /\ rest \in Nat /\ p + k <= L
  BY WriterFields, DumpBounds
<1>2. /\ Len(s) = L
      /\ \A j \in 1 .. L : s[j] = IF p < j /\ j <= p + k
                                  THEN src[j - p] ELSE q.buffer[j]
  <2>1. \A i \in 1 .. k : src[i] \in Byte
    OBVIOUS
  <2> HIDE DEF k
  <2> QED BY <2>1, <1>1, StoreKeeps, SMTT(30)
<1>3. /\ d.buffer = s /\ d.byte_pos = p + k /\ d.bit_cache = cache
      /\ d.bits_in_cache = rest
      /\ d.overflow = (q.overflow \/ rest >= 8)
  BY DEF overruns, Dumps
<1>4. /\ \A i \in 1 .. k, m \in 0 .. 7 :
           src[i][IF o = "msb" THEN 7 - m ELSE m]
             = x[Place(o, n, 8 * (i - 1) + m + 1)]
      /\ rest < 8 => \A t \in 1 .. rest :
           cache[Place(o, rest, t)] = x[Place(o, n, 8 * k + t)]
  BY DEF Dumps
<1>5. ASSUME NEW j
      PROVE  /\ BitAt(q, o, j) = IF j <= 8 * p THEN StreamBit(q.buffer, o, j - 1)
                                 ELSE x[Place(o, n, j - 8 * p)]
             /\ BitAt(d, o, j) = IF j <= 8 * (p + k) THEN StreamBit(s, o, j - 1)
                                 ELSE cache[Place(o, rest, j - 8 * (p + k))]
  BY <1>3 DEF BitAt, Place
<1>6. ASSUME NEW data, NEW j
      PROVE  StreamBit(data, o, j - 1)
               = data[((j - 1) \div 8) + 1][IF o = "msb" THEN 7 - ((j - 1) % 8)
                                           ELSE (j - 1) % 8]
  BY DEF StreamBit
<1> HIDE DEF L, p, n, x, k, rest, s
<1>7. ASSUME NEW j \in 1 .. 8 * (p + k) + rest,
             j <= 8 * (p + k) \/ rest < 8
      PROVE  BitAt(d, o, j) = BitAt(q, o, j)
  <2> DEFINE byte == ((j - 1) \div 8) + 1  m == (j - 1) % 8
  <2>1. CASE j <= 8 * (p + k)
    <3>1. /\ byte \in 1 .. p + k /\ m \in 0 .. 7
          /\ j = 8 * (byte - 1) + m + 1
      BY <2>1, <1>1, StreamIndex
    <3>2. /\ BitAt(d, o, j) = s[byte][IF o = "msb" THEN 7 - m ELSE m]
          /\ j <= 8 * p =>
               BitAt(q, o, j) = q.buffer[byte][IF o = "msb" THEN 7 - m ELSE m]
          /\ ~ (j <= 8 * p) => BitAt(q, o, j) = x[Place(o, n, j - 8 * p)]
      BY <2>1, <1>5, <1>6
    <3> HIDE DEF byte, m
    <3>3. CASE j <= 8 * p
      <4>1. byte \in 1 .. L /\ ~ (p < byte /\ byte <= p + k)
        BY <3>1, <3>3, <1>1
      <4>2. s[byte] = q.buffer[byte]
        BY <4>1, <1>2
      <4> QED BY <4>2, <3>2, <3>3
    <3>4. CASE ~ (j <= 8 * p)
      <4>1. /\ byte \in 1 .. L /\ p < byte /\ byte <= p + k
            /\ byte - p \in 1 .. k
            /\ 8 * ((byte - p) - 1) + m + 1 = j - 8 * p
        BY <3>1, <3>4, <1>1
      <4>2. s[byte] = src[byte - p]
        BY <4>1, <1>2
      <4>3. src[byte - p][IF o = "msb" THEN 7 - m ELSE m]
              = x[Place(o, n, 8 * ((byte - p) - 1) + m + 1)]
        BY <4>1, <3>1, <1>4
      <4> QED BY <4>1, <4>2, <4>3, <3>2, <3>4
    <3> QED BY <3>3, <3>4
  <2>2. CASE ~ (j <= 8 * (p + k))
    <3> DEFINE t == j - 8 * (p + k)
    <3>1. /\ rest < 8 /\ t \in 1 .. rest /\ 8 * k + t = j - 8 * p
          /\ ~ (j <= 8 * p)
      BY <2>2, <1>1, <1>7
    <3>2. /\ BitAt(d, o, j) = cache[Place(o, rest, t)]
          /\ BitAt(q, o, j) = x[Place(o, n, j - 8 * p)]
      BY <3>1, <2>2, <1>5
    <3> HIDE DEF t
    <3>3. cache[Place(o, rest, t)] = x[Place(o, n, 8 * k + t)]
      BY <3>1, <1>4
    <3> QED BY <3>1, <3>2, <3>3
  <2> QED BY <2>1, <2>2
<1>8. d.overflow <=> q.overflow \/ rest >= 8
  BY <1>3, Zenon
<1> QED BY <1>2, <1>3, <1>7, <1>8 DEF Moved, L, p, n, k, rest

LEMMA MsbDumpMoves ==
    ASSUME NEW q, Enqueued(q), ~ Full(q), NEW ub
    PROVE  Moved(q, dump(q, ub), "msb")
<1> DEFINE n == q.bits_in_cache  x == q.bit_cache  k == bytes_to_dump(q)
           rest == n - 8 * k
           src == [i \in 1 .. k |-> dumped_byte(q, i)]
           cache == masked(x, rest, ub)
<1>1. /\ Within(q) /\ n \in Nat /\ x \in [0 .. CacheBits - 1 -> Bit]
      /\ n <= CacheBits
  BY WriterFields DEF Enqueued, Word
<1>2. k \in Nat /\ rest \in Nat /\ 8 * k <= n /\ rest = n - 8 * k
  BY <1>1, DumpBounds
<1>3. \A i \in 1 .. k : src[i] = [m \in 0 .. 7 |-> x[n - 8 * i + m]]
  BY DEF dumped_byte
<1>4. dump(q, ub) = [buffer |-> Store(q, k, src), byte_pos |-> q.byte_pos + k,
                     bit_cache |-> cache, bits_in_cache |-> rest,
                     overflow |-> overruns(q, rest)]
  BY DEF dump
<1>5. cache = Low(x, Shift(rest, ub))
  BY DEF masked
<1> HIDE DEF n, x, k, rest, src, cache
<1>6. ASSUME NEW i \in 1 .. k, NEW m \in 0 .. 7
      PROVE  /\ src[i] \in Byte
             /\ src[i][7 - m] = x[Place("msb", n, 8 * (i - 1) + m + 1)]
  <2>1. \A l \in 0 .. 7 : n - 8 * i + l \in 0 .. CacheBits - 1
    BY <1>1, <1>2, ByteWithin
  <2>2. src[i] = [l \in 0 .. 7 |-> x[n - 8 * i + l]]
    BY <1>3
  <2>3. src[i] \in [0 .. 7 -> Bit]
    BY <2>1, <2>2, <1>1
  <2>4. 7 - m \in 0 .. 7 /\ n - 8 * i + (7 - m) = n - (8 * (i - 1) + m + 1)
    BY <1>1, <1>2
  <2>5. src[i][7 - m] = x[n - 8 * i + (7 - m)]
    BY <2>2, <2>4
  <2> QED BY <2>3, <2>4, <2>5, ByteBits DEF Place
<1>7. ASSUME rest < 8, NEW t \in 1 .. rest
      PROVE  cache[Place("msb", rest, t)] = x[Place("msb", n, 8 * k + t)]
  <2>1. Shift(rest, ub) = rest
    BY <1>2, <1>7, WidthFacts DEF Shift
  <2>2. cache = [i \in 0 .. CacheBits - 1 |-> IF i < rest THEN x[i] ELSE 0]
    BY <2>1, <1>1, <1>5 DEF Low
  <2>3. /\ rest - t \in 0 .. CacheBits - 1 /\ rest - t < rest
        /\ rest - t = n - (8 * k + t)
    BY <1>1, <1>2, WidthFacts
  <2>4. cache[rest - t] = x[n - (8 * k + t)]
    BY <2>2, <2>3
  <2> QED BY <2>4 DEF Place
<1>8. "msb" \in Orders /\ \A i \in 1 .. k : src[i] \in Byte
  <2>1. 0 \in 0 .. 7
    OBVIOUS
  <2> QED BY <2>1, <1>6 DEF Orders
<1>9. /\ \A i \in 1 .. k, m \in 0 .. 7 :
           src[i][7 - m] = x[Place("msb", n, 8 * (i - 1) + m + 1)]
      /\ rest < 8 => \A t \in 1 .. rest :
           cache[Place("msb", rest, t)] = x[Place("msb", n, 8 * k + t)]
  BY <1>6, <1>7
<1>10. Dumps(q, dump(q, ub), "msb", src, cache)
  BY <1>4, <1>9 DEF Dumps, n, x, k, rest
<1>11. \A i \in 1 .. bytes_to_dump(q) : src[i] \in Byte
  BY <1>8 DEF k
<1> QED BY <1>1, <1>8, <1>10, <1>11, MovedIs

LEMMA LsbDumpMoves ==
    ASSUME NEW q, Enqueued(q), ~ Full(q)
    PROVE  Moved(q, dump_lsb(q), "lsb")
<1> DEFINE n == q.bits_in_cache  x == q.bit_cache  k == bytes_to_dump(q)
           rest == n - 8 * k
           src == [i \in 1 .. k |-> dumped_byte_lsb(q, i)]
           cache == Shr(x, 8 * k)
<1>1. /\ Within(q) /\ n \in Nat /\ x \in [0 .. CacheBits - 1 -> Bit]
      /\ n <= CacheBits
  BY WriterFields DEF Enqueued, Word
<1>2. k \in Nat /\ rest \in Nat /\ 8 * k <= n /\ rest = n - 8 * k
  BY <1>1, DumpBounds
<1>3. \A i \in 1 .. k : src[i] = [m \in 0 .. 7 |-> x[8 * (i - 1) + m]]
  BY DEF dumped_byte_lsb
<1>4. dump_lsb(q) = [buffer |-> Store(q, k, src), byte_pos |-> q.byte_pos + k,
                     bit_cache |-> cache, bits_in_cache |-> rest,
                     overflow |-> overruns(q, rest)]
  BY DEF dump_lsb
<1> HIDE DEF n, x, k, rest, src
<1>5. cache = [i \in 0 .. CacheBits - 1 |->
                 IF i + 8 * k \in 0 .. CacheBits - 1 THEN x[i + 8 * k] ELSE 0]
  BY <1>1 DEF Shr
<1> HIDE DEF cache
<1>6. ASSUME NEW i \in 1 .. k, NEW m \in 0 .. 7
      PROVE  /\ src[i] \in Byte
             /\ src[i][m] = x[Place("lsb", n, 8 * (i - 1) + m + 1)]
  <2>1. \A l \in 0 .. 7 : 8 * (i - 1) + l \in 0 .. CacheBits - 1
    BY <1>1, <1>2, ByteWithin
  <2>2. src[i] = [l \in 0 .. 7 |-> x[8 * (i - 1) + l]]
    BY <1>3
  <2>3. src[i] \in [0 .. 7 -> Bit]
    BY <2>1, <2>2, <1>1
  <2>4. (8 * (i - 1) + m + 1) - 1 = 8 * (i - 1) + m
    BY <1>2
  <2>5. src[i][m] = x[8 * (i - 1) + m]
    BY <2>2
  <2> QED BY <2>3, <2>4, <2>5, ByteBits DEF Place
<1>7. ASSUME rest < 8, NEW t \in 1 .. rest
      PROVE  cache[Place("lsb", rest, t)] = x[Place("lsb", n, 8 * k + t)]
  <2>1. /\ t - 1 \in 0 .. CacheBits - 1
        /\ (t - 1) + 8 * k \in 0 .. CacheBits - 1
        /\ (t - 1) + 8 * k = (8 * k + t) - 1
    BY <1>1, <1>2, WidthFacts
  <2>2. cache[t - 1] = x[(8 * k + t) - 1]
    BY <2>1, <1>5
  <2> QED BY <2>2 DEF Place
<1>8. "lsb" \in Orders /\ \A i \in 1 .. k : src[i] \in Byte
  <2>1. 0 \in 0 .. 7
    OBVIOUS
  <2> QED BY <2>1, <1>6 DEF Orders
<1>9. /\ \A i \in 1 .. k, m \in 0 .. 7 :
           src[i][IF "lsb" = "msb" THEN 7 - m ELSE m]
             = x[Place("lsb", n, 8 * (i - 1) + m + 1)]
      /\ rest < 8 => \A t \in 1 .. rest :
           cache[Place("lsb", rest, t)] = x[Place("lsb", n, 8 * k + t)]
  BY <1>6, <1>7
<1>10. Dumps(q, dump_lsb(q), "lsb", src, cache)
  BY <1>4, <1>9 DEF Dumps, n, x, k, rest
<1>11. \A i \in 1 .. bytes_to_dump(q) : src[i] \in Byte
  BY <1>8 DEF k
<1> QED BY <1>1, <1>8, <1>10, <1>11, MovedIs

---------------------------------------------------------------------------
\* Enqueuing bits appends them.

SentBits(o, value, n) == [j \in 1 .. n |-> value[FieldOffset(o, n, j - 1)]]

LEMMA FieldIs ==
    ASSUME NEW value \in Word(MaxBits), NEW n \in 0 .. MaxBits, NEW o
    PROVE  /\ SentBits(o, value, n) \in Seq(Bit)
           /\ Len(SentBits(o, value, n)) = n
           /\ \A j \in 1 .. n : SentBits(o, value, n)[j]
                = value[IF o = "msb" THEN n - 1 - (j - 1) ELSE j - 1]
           /\ SentBits(o, Low(value, n), n) = SentBits(o, value, n)
<1>1. n \in Nat /\ n <= MaxBits /\ MaxBits \in Nat
  BY WidthFacts
<1>2. ASSUME NEW j \in 1 .. n
      PROVE  /\ FieldOffset(o, n, j - 1) \in 0 .. MaxBits - 1
             /\ FieldOffset(o, n, j - 1) < n
             /\ value[FieldOffset(o, n, j - 1)] \in Bit
  <2>1. /\ FieldOffset(o, n, j - 1) \in 0 .. MaxBits - 1
        /\ FieldOffset(o, n, j - 1) < n
    BY <1>1 DEF FieldOffset
  <2> QED BY <2>1 DEF Word
<1>3. SentBits(o, value, n) \in [1 .. n -> Bit]
  BY <1>2 DEF SentBits
<1>4. \A j \in 1 .. n : SentBits(o, value, n)[j]
        = value[IF o = "msb" THEN n - 1 - (j - 1) ELSE j - 1]
  BY DEF SentBits, FieldOffset
<1>5. \A j \in 1 .. n : Low(value, n)[FieldOffset(o, n, j - 1)]
                          = value[FieldOffset(o, n, j - 1)]
  <2>1. Low(value, n) = [i \in 0 .. MaxBits - 1 |-> IF i < n THEN value[i] ELSE 0]
    BY DEF Low, Word
  <2> QED BY <2>1, <1>2
<1>6. SentBits(o, Low(value, n), n) = SentBits(o, value, n)
  BY <1>5 DEF SentBits
<1> QED BY <1>1, <1>3, <1>4, <1>6

\* q is b with bits enqueued and none dumped yet.
Holding(b, q, o, bits) ==
    /\ Enqueued(q)
    /\ q.buffer = b.buffer /\ q.byte_pos = b.byte_pos
    /\ q.overflow = b.overflow
    /\ q.bits_in_cache = b.bits_in_cache + Len(bits)
    /\ \A j \in 1 .. 8 * b.byte_pos + (b.bits_in_cache + Len(bits)) :
        BitAt(q, o, j) = IF j <= 8 * b.byte_pos + b.bits_in_cache
                         THEN BitAt(b, o, j)
                         ELSE bits[j - (8 * b.byte_pos + b.bits_in_cache)]

LEMMA HeldMsb ==
    ASSUME NEW b, Good(b), Fits(b), NEW n \in 1 .. MaxBits,
           NEW value \in Word(MaxBits), Clean(value, n)
    PROVE  Holding(b, QueuedMsb(b, value, n), "msb", SentBits("msb", value, n))
<1> DEFINE q == QueuedMsb(b, value, n)  bits == SentBits("msb", value, n)
           p == b.byte_pos  c == b.bits_in_cache  x == b.bit_cache
           cache == Or(Shl(b.bit_cache, n), value)
<1>1. /\ b \in Writers /\ Within(b) /\ p \in Nat /\ c \in Nat /\ c < 8
      /\ n \in Nat /\ n <= MaxBits /\ MaxBits + 7 <= CacheBits
      /\ CacheBits \in Nat /\ MaxBits \in Nat
  BY WriterFields, WidthFacts DEF Good, Fits
<1>2. /\ cache \in Word(CacheBits) /\ Clean(cache, c + n)
      /\ \A i \in 0 .. CacheBits - 1 :
           cache[i] = IF i < n THEN value[i] ELSE x[i - n]
  BY <1>1, MsbCache
<1>3. q = [buffer |-> b.buffer, byte_pos |-> b.byte_pos,
           bit_cache |-> cache,
           bits_in_cache |-> (b.bits_in_cache + n) % CountMod,
           overflow |-> b.overflow]
  BY <1>1, Recached DEF QueuedMsb
<1> HIDE DEF q, cache
<1>4. /\ Enqueued(q)
      /\ q.buffer = b.buffer /\ q.byte_pos = p
      /\ q.overflow = b.overflow /\ q.bit_cache = cache
      /\ q.bits_in_cache = c + n
  BY <1>2, <1>3, Queued
<1>5. /\ Len(bits) = n
      /\ \A j \in 1 .. n : bits[j] = value[n - 1 - (j - 1)]
  <2>1. n \in 0 .. MaxBits
    BY <1>1
  <2> QED BY <2>1, FieldIs
<1> HIDE DEF bits
<1>6. ASSUME NEW j
      PROVE  /\ BitAt(b, "msb", j) = IF j <= 8 * p
                                     THEN StreamBit(b.buffer, "msb", j - 1)
                                     ELSE x[c - (j - 8 * p)]
             /\ BitAt(q, "msb", j) = IF j <= 8 * p
                                     THEN StreamBit(b.buffer, "msb", j - 1)
                                     ELSE cache[(c + n) - (j - 8 * p)]
  BY <1>4 DEF BitAt
<1> HIDE DEF p, c, x
<1>7. ASSUME NEW j \in 1 .. 8 * p + (c + n)
      PROVE  BitAt(q, "msb", j) = IF j <= 8 * p + c THEN BitAt(b, "msb", j)
                                  ELSE bits[j - (8 * p + c)]
  <2>1. CASE j <= 8 * p
    <3>1. j <= 8 * p + c
      BY <2>1, <1>1
    <3> QED BY <3>1, <2>1, <1>6
  <2>2. CASE ~ (j <= 8 * p) /\ j <= 8 * p + c
    <3>1. /\ (c + n) - (j - 8 * p) \in 0 .. CacheBits - 1
          /\ ~ ((c + n) - (j - 8 * p) < n)
          /\ (c + n) - (j - 8 * p) - n = c - (j - 8 * p)
      BY <2>2, <1>1
    <3>2. cache[(c + n) - (j - 8 * p)] = x[c - (j - 8 * p)]
      BY <3>1, <1>2
    <3> QED BY <3>2, <2>2, <1>6
  <2>3. CASE ~ (j <= 8 * p + c)
    <3>1. /\ (c + n) - (j - 8 * p) \in 0 .. CacheBits - 1
          /\ (c + n) - (j - 8 * p) < n
          /\ ~ (j <= 8 * p) /\ j - (8 * p + c) \in 1 .. n
          /\ (c + n) - (j - 8 * p) = n - 1 - ((j - (8 * p + c)) - 1)
      BY <2>3, <1>1
    <3>2. cache[(c + n) - (j - 8 * p)] = value[(c + n) - (j - 8 * p)]
      BY <3>1, <1>2
    <3>3. bits[j - (8 * p + c)] = value[n - 1 - ((j - (8 * p + c)) - 1)]
      BY <3>1, <1>5
    <3> QED BY <3>1, <3>2, <3>3, <2>3, <1>6
  <2> QED BY <2>1, <2>2, <2>3
<1> QED BY <1>4, <1>5, <1>7 DEF Holding, q, bits, p, c

LEMMA HeldLsb ==
    ASSUME NEW b, Good(b), Fits(b), NEW n \in 1 .. MaxBits,
           NEW value \in Word(MaxBits), Clean(value, n), NEW ub
    PROVE  Holding(b, QueuedLsb(b, value, n, ub), "lsb",
                   SentBits("lsb", value, n))
<1> DEFINE q == QueuedLsb(b, value, n, ub)  bits == SentBits("lsb", value, n)
           p == b.byte_pos  c == b.bits_in_cache  x == b.bit_cache
           cache == Or(b.bit_cache, Shl(Cast(value, CacheBits),
                                        Shift(b.bits_in_cache, ub)))
<1>1. /\ b \in Writers /\ Within(b) /\ p \in Nat /\ c \in Nat /\ c < 8
      /\ n \in Nat /\ n <= MaxBits /\ MaxBits + 7 <= CacheBits
      /\ CacheBits \in Nat /\ MaxBits \in Nat
  BY WriterFields, WidthFacts DEF Good, Fits
<1>2. /\ cache \in Word(CacheBits) /\ Clean(cache, c + n)
      /\ \A i \in 0 .. CacheBits - 1 :
           /\ i < c => cache[i] = x[i]
           /\ c <= i /\ i < c + n => cache[i] = value[i - c]
  BY <1>1, LsbCache
<1>3. q = [buffer |-> b.buffer, byte_pos |-> b.byte_pos,
           bit_cache |-> cache,
           bits_in_cache |-> (b.bits_in_cache + n) % CountMod,
           overflow |-> b.overflow]
  BY <1>1, Recached DEF QueuedLsb
<1> HIDE DEF q, cache
<1>4. /\ Enqueued(q)
      /\ q.buffer = b.buffer /\ q.byte_pos = p
      /\ q.overflow = b.overflow /\ q.bit_cache = cache
      /\ q.bits_in_cache = c + n
  BY <1>2, <1>3, Queued
<1>5. /\ Len(bits) = n
      /\ \A j \in 1 .. n : bits[j] = value[j - 1]
  <2>1. n \in 0 .. MaxBits
    BY <1>1
  <2> QED BY <2>1, FieldIs
<1> HIDE DEF bits
<1>6. ASSUME NEW j
      PROVE  /\ BitAt(b, "lsb", j) = IF j <= 8 * p
                                     THEN StreamBit(b.buffer, "lsb", j - 1)
                                     ELSE x[(j - 8 * p) - 1]
             /\ BitAt(q, "lsb", j) = IF j <= 8 * p
                                     THEN StreamBit(b.buffer, "lsb", j - 1)
                                     ELSE cache[(j - 8 * p) - 1]
  BY <1>4 DEF BitAt
<1> HIDE DEF p, c, x
<1>7. ASSUME NEW j \in 1 .. 8 * p + (c + n)
      PROVE  BitAt(q, "lsb", j) = IF j <= 8 * p + c THEN BitAt(b, "lsb", j)
                                  ELSE bits[j - (8 * p + c)]
  <2>1. CASE j <= 8 * p
    <3>1. j <= 8 * p + c
      BY <2>1, <1>1
    <3> QED BY <3>1, <2>1, <1>6
  <2>2. CASE ~ (j <= 8 * p) /\ j <= 8 * p + c
    <3>1. (j - 8 * p) - 1 \in 0 .. CacheBits - 1 /\ (j - 8 * p) - 1 < c
      BY <2>2, <1>1
    <3>2. cache[(j - 8 * p) - 1] = x[(j - 8 * p) - 1]
      BY <3>1, <1>2
    <3> QED BY <3>2, <2>2, <1>6
  <2>3. CASE ~ (j <= 8 * p + c)
    <3>1. /\ (j - 8 * p) - 1 \in 0 .. CacheBits - 1
          /\ c <= (j - 8 * p) - 1 /\ (j - 8 * p) - 1 < c + n
          /\ ~ (j <= 8 * p) /\ j - (8 * p + c) \in 1 .. n
          /\ ((j - 8 * p) - 1) - c = (j - (8 * p + c)) - 1
      BY <2>3, <1>1
    <3>2. cache[(j - 8 * p) - 1] = value[(j - (8 * p + c)) - 1]
      BY <3>1, <1>2
    <3>3. bits[j - (8 * p + c)] = value[(j - (8 * p + c)) - 1]
      BY <3>1, <1>5
    <3> QED BY <3>1, <3>2, <3>3, <2>3, <1>6
  <2> QED BY <2>1, <2>2, <2>3
<1> QED BY <1>4, <1>5, <1>7 DEF Holding, q, bits, p, c

\* Whatever has been enqueued has been appended once it has been dumped.
LEMMA HeldLonger ==
    ASSUME NEW b, Good(b), Fits(b), ~ Full(b), NEW o, NEW bits \in Seq(Bit),
           NEW q, Holding(b, q, o, bits), NEW d, Good(d),
           Moved(q, d, o) \/ (d = q /\ q.bits_in_cache < 8)
    PROVE  Longer(b, d, o, bits)
<1> DEFINE L == Len(b.buffer)  p == b.byte_pos  c == b.bits_in_cache
           m == Len(bits)  N == 8 * p + c
<1>1. /\ L \in Nat /\ p \in Nat /\ p <= L /\ c \in Nat /\ c < 8 /\ m \in Nat
      /\ b.overflow \in BOOLEAN /\ d.overflow \in BOOLEAN
  BY WriterFields DEF Good, Fits
<1>2. /\ Enqueued(q) /\ q.bits_in_cache = c + m
      /\ q.buffer = b.buffer /\ q.byte_pos = p /\ q.overflow = b.overflow
      /\ \A j \in 1 .. 8 * p + (c + m) :
           BitAt(q, o, j) = IF j <= N THEN BitAt(b, o, j) ELSE bits[j - N]
  BY DEF Holding
<1>3. ~ Full(b) => ~ b.overflow \/ p # L
  BY DEF Full
<1>4. Size(b) = N
  BY DEF Size
<1>5. CASE d = q /\ q.bits_in_cache < 8
  <2>1. /\ d.byte_pos = p /\ d.bits_in_cache = c + m
        /\ Len(d.buffer) = L /\ d.overflow = b.overflow
    BY <1>2, <1>5, Zenon
  <2>2. Size(d) = N + m
    <3>1. ~ Full(d)
      BY <2>1, <1>3, Zenon DEF Full
    <3>2. Size(d) = 8 * p + (c + m)
      BY <2>1, <3>1 DEF Size
    <3> QED BY <3>2, <1>1
  <2>3. N + m < 8 * (L + 1) /\ (p # L => N + m < 8 * L)
    BY <1>1, <1>2, <1>5, SMTT(30)
  <2>4. /\ ~ (N + m >= 8 * (L + 1))
        /\ d.overflow => ~ (N + m >= 8 * L)
    <3>1. ~ (N + m >= 8 * (L + 1)) /\ (p # L => ~ (N + m >= 8 * L))
      BY <2>3, <1>1
    <3> QED BY <3>1, <2>1, <1>3, Zenon
  <2>5. ASSUME NEW j \in 1 .. Size(d)
        PROVE  BitAt(d, o, j) = IF j <= N THEN BitAt(b, o, j) ELSE bits[j - N]
    <3>1. j \in 1 .. 8 * p + (c + m)
      BY <2>2, <1>1
    <3> QED BY <3>1, <1>2, <1>5
  <2> HIDE DEF L, p, c, N, m
  <2>6. /\ d.overflow <=> b.overflow \/ N + m >= 8 * (L + 1)
        /\ Size(d) = IF d.overflow /\ N + m >= 8 * L THEN 8 * L ELSE N + m
    BY <2>1, <2>2, <2>4, Zenon
  <2> QED BY <2>1, <2>5, <2>6, <1>4, LongerIs DEF L, m
<1>6. CASE Moved(q, d, o)
  <2> DEFINE k == bytes_to_dump(q)  rest == (c + m) - 8 * k
  <2>1. /\ Len(d.buffer) = L /\ d.byte_pos = p + k /\ d.bits_in_cache = rest
        /\ d.overflow <=> b.overflow \/ rest >= 8
        /\ \A j \in 1 .. 8 * (p + k) + rest :
             j <= 8 * (p + k) \/ rest < 8 => BitAt(d, o, j) = BitAt(q, o, j)
    <3>1. /\ Len(d.buffer) = Len(q.buffer)
          /\ d.byte_pos = q.byte_pos + k
          /\ d.bits_in_cache = q.bits_in_cache - 8 * k
          /\ d.overflow <=> q.overflow \/ q.bits_in_cache - 8 * k >= 8
          /\ \A j \in 1 .. 8 * (q.byte_pos + k) + (q.bits_in_cache - 8 * k) :
               j <= 8 * (q.byte_pos + k) \/ q.bits_in_cache - 8 * k < 8
                 => BitAt(d, o, j) = BitAt(q, o, j)
      BY <1>6 DEF Moved
    <3> HIDE DEF k
    <3> QED BY <3>1, <1>2
  <2>2. /\ k \in Nat /\ rest \in Nat /\ p + k <= L
        /\ rest < 8 \/ p + k = L
    <3>1. Within(q)
      BY <1>2 DEF Enqueued
    <3> QED BY <3>1, <1>2, DumpBounds
  <2>3. rest = (c + m) - 8 * k
    OBVIOUS
  <2> HIDE DEF k, rest, L, p, c, m
  <2>4. N + m = 8 * (p + k) + rest
    BY <2>2, <2>3, <1>1
  <2>5. /\ rest >= 8 <=> N + m >= 8 * (L + 1)
        /\ p + k = L => N + m >= 8 * L
        /\ p + k # L => ~ (N + m >= 8 * L)
        /\ p + k # L => ~ (rest >= 8)
    BY <2>2, <2>4, <1>1
  <2> HIDE DEF N
  <2>6. d.overflow <=> b.overflow \/ N + m >= 8 * (L + 1)
    BY <2>1, <2>5, Zenon
  <2>7. Full(d) <=> d.overflow /\ p + k = L
    BY <2>1, Zenon DEF Full
  <2>8. Size(d) = IF Full(d) THEN 8 * L ELSE N + m
    <3>1. Full(d) => Size(d) = 8 * (p + k) /\ p + k = L
      BY <2>1, <2>7, Zenon DEF Size
    <3>2. ~ Full(d) => Size(d) = 8 * (p + k) + rest
      BY <2>1 DEF Size
    <3> QED BY <3>1, <3>2, <2>4
  <2>9. Size(d) = IF d.overflow /\ N + m >= 8 * L THEN 8 * L ELSE N + m
    BY <2>5, <2>7, <2>8, Zenon
  <2>10. ASSUME NEW j \in 1 .. Size(d)
         PROVE  BitAt(d, o, j) = IF j <= N THEN BitAt(b, o, j) ELSE bits[j - N]
    <3>1. ~ (rest < 8) => Full(d)
      <4>1. ~ (rest < 8) => rest >= 8 /\ p + k = L
        BY <2>2
      <4> QED BY <4>1, <2>1, <2>7, Zenon
    <3>2. /\ j \in 1 .. 8 * (p + k) + rest
          /\ j <= 8 * (p + k) \/ rest < 8
      <4>1. CASE Full(d)
        <5>1. Size(d) = 8 * (p + k)
          BY <4>1, <2>7, <2>8
        <5> QED BY <5>1, <2>2, <1>1
      <4>2. CASE ~ Full(d)
        BY <4>2, <3>1, <2>4, <2>8
      <4> QED BY <4>1, <4>2
    <3>3. BitAt(d, o, j) = BitAt(q, o, j)
      BY <3>2, <2>1
    <3>4. j \in 1 .. 8 * p + (c + m)
      BY <3>2, <2>4, <2>2, <1>1 DEF N
    <3> QED BY <3>3, <3>4, <1>2
  <2> QED BY <2>1, <2>6, <2>9, <2>10, <1>4, LongerIs DEF L, m
<1> QED BY <1>5, <1>6

\* A writer that has overrun its memory keeps what it has.
LEMMA FullLonger ==
    ASSUME NEW b, Good(b), Full(b), NEW d, Keeps(b, d), NEW o,
           NEW bits \in Seq(Bit)
    PROVE  Longer(b, d, o, bits)
<1> DEFINE L == Len(b.buffer)
<1>1. /\ L \in Nat /\ b.byte_pos = L /\ Good(d) /\ d.byte_pos = L
      /\ Len(d.buffer) = L /\ Len(bits) \in Nat
      /\ \A j \in 1 .. L : d.buffer[j] = b.buffer[j]
  <2>1. /\ L \in Nat /\ b.byte_pos = L
        /\ Good(d) /\ d.byte_pos \in Nat /\ d.byte_pos <= Len(d.buffer)
    BY WriterFields DEF Good, Full, Keeps
  <2>2. /\ Len(d.buffer) = L /\ d.byte_pos >= b.byte_pos
        /\ \A j \in 1 .. L : j <= b.byte_pos => d.buffer[j] = b.buffer[j]
    BY DEF Keeps, Appends
  <2> QED BY <2>1, <2>2
<1>2. b.overflow /\ d.overflow
  BY Zenon DEF Full, Keeps, Appends
<1>3. Size(b) = 8 * L /\ Size(d) = 8 * L
  <2>1. Full(d)
    BY <1>1, <1>2 DEF Full
  <2> QED BY <2>1, <1>1 DEF Size
<1> HIDE DEF L
<1>4. ASSUME NEW j \in 1 .. 8 * L
      PROVE  BitAt(d, o, j) = BitAt(b, o, j)
  <2>1. ((j - 1) \div 8) + 1 \in 1 .. L
    BY <1>1
  <2>2. d.buffer[((j - 1) \div 8) + 1] = b.buffer[((j - 1) \div 8) + 1]
    BY <2>1, <1>1
  <2> QED BY <2>2, <1>1 DEF BitAt, StreamBit
<1>5. 8 * L + Len(bits) >= 8 * L
  BY <1>1
<1>6. /\ d.overflow <=> b.overflow \/ 8 * L + Len(bits) >= 8 * (L + 1)
      /\ Size(d) = IF d.overflow /\ 8 * L + Len(bits) >= 8 * L
                   THEN 8 * L ELSE 8 * L + Len(bits)
  BY <1>2, <1>3, <1>5, Zenon
<1>7. \A j \in 1 .. Size(d) :
        BitAt(d, o, j) = IF j <= 8 * L THEN BitAt(b, o, j) ELSE bits[j - 8 * L]
  BY <1>1, <1>3, <1>4
<1> QED BY <1>1, <1>3, <1>6, <1>7, LongerIs DEF L

LEMMA NothingLonger ==
    ASSUME NEW b, Good(b), NEW o, NEW bits \in Seq(Bit), Len(bits) = 0
    PROVE  Longer(b, b, o, bits)
<1>1. CASE Full(b)
  BY <1>1, SameKept, FullLonger
<1>2. CASE ~ Full(b)
  <2> DEFINE L == Len(b.buffer)  p == b.byte_pos  n == Size(b)
  <2>1. /\ L \in Nat /\ p \in Nat /\ p <= L /\ b.bits_in_cache \in Nat
        /\ b.bits_in_cache < 8 /\ b.overflow \in BOOLEAN
    BY <1>2, WriterFields DEF Good, Fits
  <2>2. n = 8 * p + b.bits_in_cache
    BY <1>2 DEF Size
  <2>3. /\ ~ (n >= 8 * (L + 1)) /\ (p # L => ~ (n >= 8 * L))
        /\ n = n + Len(bits) /\ n \in Nat
    BY <2>1, <2>2
  <2>4. ~ b.overflow \/ p # L
    BY <1>2 DEF Full
  <2> HIDE DEF L, p, n
  <2>5. /\ b.overflow <=> b.overflow \/ n >= 8 * (L + 1)
        /\ n = IF b.overflow /\ n >= 8 * L THEN 8 * L ELSE n
    BY <2>3, <2>4, Zenon
  <2>6. \A j \in 1 .. n : BitAt(b, o, j) = IF j <= n THEN BitAt(b, o, j)
                                           ELSE bits[j - n]
    BY <2>3
  <2> QED BY <2>3, <2>5, <2>6, LongerIs DEF L, n
<1> QED BY <1>1, <1>2

LEMMA NotFull ==
    ASSUME NEW b, Good(b), NEW q, q.buffer = b.buffer,
           q.byte_pos = b.byte_pos, q.overflow = b.overflow, ~ Full(b)
    PROVE  Fits(b) /\ ~ Full(q)
BY Zenon DEF Good, Full

LEMMA MsbEnqueueLonger ==
    ASSUME NEW b, Good(b), NEW n \in 1 .. MaxBits,
           NEW value \in Word(MaxBits), Clean(value, n), NEW ub
    PROVE  Longer(b, enqueue(b, value, n, ub), "msb", SentBits("msb", value, n))
<1> DEFINE q == QueuedMsb(b, value, n)  d == enqueue(b, value, n, ub)
           bits == SentBits("msb", value, n)
<1>1. Keeps(b, d)
  BY MsbEnqueue DEF Returns, Keeps
<1>2. bits \in Seq(Bit)
  <2>1. n \in 0 .. MaxBits
    BY WidthFacts
  <2> QED BY <2>1, FieldIs
<1>3. d = IF q.bits_in_cache >= 8 THEN dump(q, ub) ELSE q
  BY DEF enqueue, QueuedMsb
<1>4. Fits(b) => Holding(b, q, "msb", bits)
  BY HeldMsb
<1> HIDE DEF q, d, bits
<1>5. CASE Full(b)
  BY <1>1, <1>2, <1>5, FullLonger DEF d, bits
<1>6. CASE ~ Full(b)
  <2>1. Fits(b)
    BY <1>6 DEF Good
  <2>2. Holding(b, q, "msb", bits)
    BY <2>1, <1>4
  <2>3. /\ Enqueued(q) /\ ~ Full(q) /\ q.bits_in_cache \in Nat
    BY <2>2, <1>6, NotFull, WriterFields DEF Holding, Enqueued
  <2>4. Moved(q, d, "msb") \/ (d = q /\ q.bits_in_cache < 8)
    BY <2>3, <1>3, MsbDumpMoves
  <2>5. Good(d)
    BY <1>1 DEF Keeps
  <2> QED BY <2>1, <2>2, <2>4, <2>5, <1>2, <1>6, HeldLonger DEF d, bits
<1> QED BY <1>5, <1>6

LEMMA LsbEnqueueLonger ==
    ASSUME NEW b, Good(b), NEW n \in 1 .. MaxBits,
           NEW value \in Word(MaxBits), Clean(value, n), NEW ub
    PROVE  Longer(b, enqueue_lsb(b, value, n, ub), "lsb",
                  SentBits("lsb", value, n))
<1> DEFINE q == QueuedLsb(b, value, n, ub)  d == enqueue_lsb(b, value, n, ub)
           bits == SentBits("lsb", value, n)
<1>1. Keeps(b, d)
  BY LsbEnqueue DEF Returns, Keeps
<1>2. bits \in Seq(Bit)
  <2>1. n \in 0 .. MaxBits
    BY WidthFacts
  <2> QED BY <2>1, FieldIs
<1>3. d = IF q.bits_in_cache >= 8 THEN dump_lsb(q) ELSE q
  BY DEF enqueue_lsb, QueuedLsb
<1>4. Fits(b) => Holding(b, q, "lsb", bits)
  BY HeldLsb
<1> HIDE DEF q, d, bits
<1>5. CASE Full(b)
  BY <1>1, <1>2, <1>5, FullLonger DEF d, bits
<1>6. CASE ~ Full(b)
  <2>1. Fits(b)
    BY <1>6 DEF Good
  <2>2. Holding(b, q, "lsb", bits)
    BY <2>1, <1>4
  <2>3. /\ Enqueued(q) /\ ~ Full(q) /\ q.bits_in_cache \in Nat
    BY <2>2, <1>6, NotFull, WriterFields DEF Holding, Enqueued
  <2>4. Moved(q, d, "lsb") \/ (d = q /\ q.bits_in_cache < 8)
    BY <2>3, <1>3, LsbDumpMoves
  <2>5. Good(d)
    BY <1>1 DEF Keeps
  <2> QED BY <2>1, <2>2, <2>4, <2>5, <1>2, <1>6, HeldLonger DEF d, bits
<1> QED BY <1>5, <1>6

---------------------------------------------------------------------------
\* The calls, by the bits they append.

LEMMA WritesLonger ==
    ASSUME NEW b, Good(b), NEW n \in 0 .. MaxBits, NEW value \in Word(MaxBits),
           NEW ub
    PROVE  /\ Longer(b, bs_write_bits(b, value, n, ub), "msb",
                     SentBits("msb", value, n))
           /\ Longer(b, bs_write_bits_lsb(b, value, n, ub), "lsb",
                     SentBits("lsb", value, n))
           /\ Longer(b, bs_write_bit(b, value, ub), "msb",
                     SentBits("msb", value, 1))
           /\ n > 0 /\ Clean(value, n) =>
                /\ Longer(b, bs_write_bits_unchecked(b, value, n, ub), "msb",
                          SentBits("msb", value, n))
                /\ Longer(b, bs_write_bits_lsb_unchecked(b, value, n, ub), "lsb",
                          SentBits("lsb", value, n))
<1>1. n \in Nat /\ (n > 0 => n \in 1 .. MaxBits) /\ 1 \in 1 .. MaxBits
      /\ 1 \in 0 .. MaxBits
  BY WidthFacts
<1>2. /\ Low(value, n) \in Word(MaxBits) /\ Clean(Low(value, n), n)
      /\ Low(value, 1) \in Word(MaxBits) /\ Clean(Low(value, 1), 1)
  BY <1>1, LowClean
<1>3. ASSUME NEW o
      PROVE  /\ SentBits(o, Low(value, n), n) = SentBits(o, value, n)
             /\ SentBits(o, Low(value, 1), 1) = SentBits(o, value, 1)
             /\ SentBits(o, value, n) \in Seq(Bit)
             /\ Len(SentBits(o, value, n)) = n
  BY <1>1, FieldIs
<1>4. CASE n = 0
  <2>1. Longer(b, b, "msb", SentBits("msb", value, n))
        /\ Longer(b, b, "lsb", SentBits("lsb", value, n))
    BY <1>3, <1>4, NothingLonger
  <2>2. Longer(b, bs_write_bit(b, value, ub), "msb", SentBits("msb", value, 1))
    BY <1>1, <1>2, <1>3, MsbEnqueueLonger DEF bs_write_bit
  <2> QED BY <2>1, <2>2, <1>4 DEF bs_write_bits, bs_write_bits_lsb
<1>5. CASE n > 0
  <2>1. Longer(b, bs_write_bit(b, value, ub), "msb", SentBits("msb", value, 1))
    BY <1>1, <1>2, <1>3, MsbEnqueueLonger DEF bs_write_bit
  <2>2. /\ Longer(b, enqueue(b, Low(value, n), n, ub), "msb",
                  SentBits("msb", value, n))
        /\ Longer(b, enqueue_lsb(b, Low(value, n), n, ub), "lsb",
                  SentBits("lsb", value, n))
    BY <1>1, <1>2, <1>3, <1>5, MsbEnqueueLonger, LsbEnqueueLonger
  <2>3. Clean(value, n) =>
          /\ Longer(b, enqueue(b, value, n, ub), "msb", SentBits("msb", value, n))
          /\ Longer(b, enqueue_lsb(b, value, n, ub), "lsb",
                    SentBits("lsb", value, n))
    BY <1>1, <1>5, MsbEnqueueLonger, LsbEnqueueLonger
  <2> QED BY <2>1, <2>2, <2>3, <1>5
          DEF bs_write_bits, bs_write_bits_lsb, bs_write_bits_unchecked,
              bs_write_bits_lsb_unchecked
<1> QED BY <1>1, <1>4, <1>5

\* Zeros up to the next byte boundary.
PadOf(b) == [j \in 1 .. (8 - (Size(b) % 8)) % 8 |-> 0]

LEMMA PadIs ==
    ASSUME NEW b, Good(b), NEW o
    PROVE  LET c == b.bits_in_cache IN
           /\ PadOf(b) \in Seq(Bit)
           /\ ~ Full(b) => c \in 0 .. 7
           /\ ~ Full(b) /\ c = 0 => Len(PadOf(b)) = 0
           /\ ~ Full(b) /\ c # 0 => PadOf(b) = SentBits(o, Zero(MaxBits), 8 - c)
<1> DEFINE c == b.bits_in_cache  p == b.byte_pos  m == (8 - (Size(b) % 8)) % 8
<1>1. p \in Nat /\ c \in Nat /\ Size(b) \in Nat /\ (~ Full(b) => c < 8)
  BY WriterFields, KeptBits DEF Good, Fits
<1>2. ~ Full(b) => Size(b) = 8 * p + c
  BY DEF Size
<1> HIDE DEF c, p
<1>3. /\ m \in Nat
      /\ ~ Full(b) /\ c = 0 => m = 0
      /\ ~ Full(b) /\ c # 0 => m = 8 - c
  <2>1. ASSUME NEW s \in Nat
        PROVE  /\ (8 - (s % 8)) % 8 \in Nat
               /\ s % 8 = 0 => (8 - (s % 8)) % 8 = 0
               /\ s % 8 # 0 => (8 - (s % 8)) % 8 = 8 - (s % 8)
    OBVIOUS
  <2>2. c < 8 => (8 * p + c) % 8 = c
    BY <1>1
  <2> QED BY <2>1, <2>2, <1>1, <1>2
<1> HIDE DEF m
<1>4. PadOf(b) = [j \in 1 .. m |-> 0]
  BY DEF PadOf, m
<1>5. PadOf(b) \in Seq(Bit) /\ Len(PadOf(b)) = m
  BY <1>3, <1>4 DEF Bit
<1>6. ASSUME ~ Full(b), c # 0
      PROVE  PadOf(b) = SentBits(o, Zero(MaxBits), 8 - c)
  <2>1. \A j \in 1 .. 8 - c : FieldOffset(o, 8 - c, j - 1) \in 0 .. MaxBits - 1
    BY <1>1, <1>6, WidthFacts DEF FieldOffset
  <2>2. \A j \in 1 .. 8 - c : Zero(MaxBits)[FieldOffset(o, 8 - c, j - 1)] = 0
    BY <2>1 DEF Zero
  <2> QED BY <2>2, <1>3, <1>4, <1>6 DEF SentBits
<1> QED BY <1>1, <1>3, <1>5, <1>6 DEF c

LEMMA PadLonger ==
    ASSUME NEW b, Good(b), ~ Full(b), b.bits_in_cache # 0, NEW ub
    PROVE  LET n == 8 - b.bits_in_cache IN
           /\ Longer(b, bs_write_bits(b, Zero(MaxBits), n, ub), "msb", PadOf(b))
           /\ Longer(b, bs_write_bits_lsb(b, Zero(MaxBits), n, ub), "lsb",
                     PadOf(b))
<1> DEFINE n == 8 - b.bits_in_cache
<1>1. /\ PadOf(b) = SentBits("msb", Zero(MaxBits), n)
      /\ PadOf(b) = SentBits("lsb", Zero(MaxBits), n)
      /\ b.bits_in_cache \in 0 .. 7
  BY PadIs
<1>2. n \in 0 .. MaxBits /\ Zero(MaxBits) \in Word(MaxBits)
  <2>1. n \in 0 .. MaxBits
    BY <1>1, WidthFacts
  <2>2. 0 \in Nat
    OBVIOUS
  <2> QED BY <2>1, <2>2, ZeroClean
<1> HIDE DEF n
<1>3. /\ Longer(b, bs_write_bits(b, Zero(MaxBits), n, ub), "msb", PadOf(b))
      /\ Longer(b, bs_write_bits_lsb(b, Zero(MaxBits), n, ub), "lsb", PadOf(b))
  BY <1>1, <1>2, WritesLonger
<1> QED BY <1>3 DEF n

LEMMA AlignLonger ==
    ASSUME NEW b, Good(b), NEW ub
    PROVE  /\ Longer(b, bs_writer_align(b, ub), "msb", PadOf(b))
           /\ Longer(b, bs_writer_align_lsb(b, ub), "lsb", PadOf(b))
<1>1. PadOf(b) \in Seq(Bit)
  BY PadIs
<1>2. CASE Full(b)
  BY <1>1, <1>2, AlignDrains, FullLonger DEF Drains
<1>3. CASE ~ Full(b)
  <2>1. b.bits_in_cache \in 0 .. 7
    BY <1>3, PadIs
  <2>2. b.bits_in_cache % 8 = b.bits_in_cache
    BY <2>1
  <2>3. CASE b.bits_in_cache = 0
    <3>1. Len(PadOf(b)) = 0
      BY <2>3, <1>3, PadIs
    <3>2. Longer(b, b, "msb", PadOf(b)) /\ Longer(b, b, "lsb", PadOf(b))
      BY <3>1, <1>1, NothingLonger
    <3> QED BY <3>2, <2>2, <2>3 DEF bs_writer_align, bs_writer_align_lsb
  <2>4. CASE b.bits_in_cache # 0
    BY <2>2, <2>4, <1>3, PadLonger DEF bs_writer_align, bs_writer_align_lsb
  <2> QED BY <2>3, <2>4
<1> QED BY <1>2, <1>3

\* The same bits, held by another writer on a memory of the same size.
Same(b, d, o) ==
    /\ Good(d)
    /\ Full(d) <=> Full(b)
    /\ Len(d.buffer) = Len(b.buffer) /\ d.overflow = b.overflow
    /\ d.bits_in_cache = b.bits_in_cache /\ Size(d) = Size(b)
    /\ KeptOf(d, o) = KeptOf(b, o)

\* The dump a flush tries first finds nothing, unless the memory is overrun.
LEMMA NothingDumped ==
    ASSUME NEW b, Good(b), ~ Full(b), NEW o, NEW d, Good(d), Moved(b, d, o)
    PROVE  Same(b, d, o)
<1> DEFINE p == b.byte_pos  c == b.bits_in_cache  k == bytes_to_dump(b)
<1>1. /\ Within(b) /\ p \in Nat /\ c \in Nat /\ c < 8
      /\ b.overflow \in BOOLEAN /\ d.overflow \in BOOLEAN
  BY WriterFields DEF Good, Fits
<1>2. k = 0
  <2>1. k \in Nat /\ 8 * k <= c
    BY <1>1, DumpBounds
  <2> QED BY <2>1, <1>1
<1>3. /\ Len(d.buffer) = Len(b.buffer)
      /\ d.byte_pos = p + k /\ d.bits_in_cache = c - 8 * k
      /\ d.overflow <=> b.overflow \/ c - 8 * k >= 8
      /\ \A j \in 1 .. 8 * (p + k) + (c - 8 * k) :
           j <= 8 * (p + k) \/ c - 8 * k < 8 => BitAt(d, o, j) = BitAt(b, o, j)
  BY DEF Moved
<1>4. p + 0 = p /\ c - 8 * 0 = c /\ ~ (c >= 8)
  BY <1>1
<1> HIDE DEF p, c, k
<1>5. /\ d.byte_pos = p /\ d.bits_in_cache = c /\ d.overflow = b.overflow
      /\ \A j \in 1 .. 8 * p + c : BitAt(d, o, j) = BitAt(b, o, j)
  <2>1. d.byte_pos = p /\ d.bits_in_cache = c
    BY <1>2, <1>3, <1>4
  <2>2. d.overflow = b.overflow
    BY <1>1, <1>2, <1>3, <1>4
  <2>3. \A j \in 1 .. 8 * p + c : BitAt(d, o, j) = BitAt(b, o, j)
    BY <1>1, <1>2, <1>3, <1>4
  <2> QED BY <2>1, <2>2, <2>3
<1>6. Full(d) <=> Full(b)
  BY <1>3, <1>5, Zenon DEF Full, p
<1>7. Size(d) = 8 * p + c /\ Size(b) = 8 * p + c
  BY <1>5, <1>6 DEF Size, p, c
<1>8. KeptOf(d, o) = KeptOf(b, o)
  BY <1>5, <1>7 DEF KeptOf
<1> QED BY <1>3, <1>5, <1>6, <1>7, <1>8, Zenon DEF Same, c

LEMMA SameLonger ==
    ASSUME NEW b, NEW d, NEW o, Same(b, d, o), NEW e, NEW bits,
           Longer(d, e, o, bits)
    PROVE  Longer(b, e, o, bits)
BY Zenon DEF Same, Longer

LEMMA FlushLonger ==
    ASSUME NEW b, Good(b), NEW ub
    PROVE  /\ Longer(b, bs_writer_flush(b, ub), "msb", PadOf(b))
           /\ Longer(b, bs_writer_flush_lsb(b, ub), "lsb", PadOf(b))
<1>1. PadOf(b) \in Seq(Bit)
  BY PadIs
<1>2. CASE Full(b)
  BY <1>1, <1>2, FlushDrainsCall, FullLonger DEF Drains
<1>3. CASE ~ Full(b) /\ b.bits_in_cache = 0
  <2>1. Len(PadOf(b)) = 0
    BY <1>3, PadIs
  <2>2. Longer(b, b, "msb", PadOf(b)) /\ Longer(b, b, "lsb", PadOf(b))
    BY <2>1, <1>1, NothingLonger
  <2> QED BY <2>2, <1>3 DEF bs_writer_flush, bs_writer_flush_lsb
<1>4. CASE ~ Full(b) /\ b.bits_in_cache # 0
  <2>1. b.bits_in_cache \in 0 .. 7
    BY <1>4, PadIs
  <2>2. ASSUME NEW d, NEW o, Same(b, d, o)
        PROVE  /\ o = "msb" =>
                    Longer(b, bs_write_bits(d, Zero(MaxBits),
                                            8 - d.bits_in_cache, ub),
                           o, PadOf(b))
               /\ o = "lsb" =>
                    Longer(b, bs_write_bits_lsb(d, Zero(MaxBits),
                                                8 - d.bits_in_cache, ub),
                           o, PadOf(b))
    <3>1. Good(d) /\ ~ Full(d) /\ d.bits_in_cache # 0
      BY <2>2, <1>4 DEF Same
    <3>2. PadOf(d) = PadOf(b)
      BY <2>2 DEF Same, PadOf
    <3>3. /\ Longer(d, bs_write_bits(d, Zero(MaxBits), 8 - d.bits_in_cache, ub),
                    "msb", PadOf(b))
          /\ Longer(d, bs_write_bits_lsb(d, Zero(MaxBits),
                                         8 - d.bits_in_cache, ub),
                    "lsb", PadOf(b))
      BY <3>1, <3>2, PadLonger
    <3> QED BY <3>3, <2>2, SameLonger
  <2>3. Same(b, b, "msb") /\ Same(b, b, "lsb")
    BY DEF Same
  <2>4. Same(b, dump(b, ub), "msb") /\ Same(b, dump_lsb(b), "lsb")
    BY <1>4, GoodEnqueued, MsbDumpKeeps, LsbDumpKeeps, MsbDumpMoves,
       LsbDumpMoves, NothingDumped
  <2>5. ASSUME NEW d, NEW o, Same(b, d, o)
        PROVE  d.bits_in_cache # 0 /\ ~ (d.bits_in_cache >= 8)
    BY <2>1, <2>5, <1>4 DEF Same
  <2>6. Longer(b, bs_writer_flush(b, ub), "msb", PadOf(b))
    BY <2>2, <2>3, <2>4, <2>5, <1>4 DEF bs_writer_flush
  <2>7. Longer(b, bs_writer_flush_lsb(b, ub), "lsb", PadOf(b))
    BY <2>2, <2>3, <2>4, <2>5, <1>4 DEF bs_writer_flush_lsb
  <2> QED BY <2>6, <2>7
<1> QED BY <1>2, <1>3, <1>4

---------------------------------------------------------------------------
\* The bulk copy, and the change of packing order.

CopyOf(o, bytes) == [j \in 1 .. 8 * Len(bytes) |-> StreamBit(bytes, o, j - 1)]

\* Where the sink takes a bulk copy: aligned, with room.
LEMMA CopyGuards ==
    ASSUME NEW b, Good(b), NEW bytes \in Seq(Byte)
    PROVE  LET aligned == Size(b) % 8 = 0
               room    == Size(b) + 8 * Len(bytes) <= 8 * Len(b.buffer)
           IN  /\ can_write_bytes(b, bytes) <=> aligned /\ ~ b.overflow /\ room
               /\ b.bits_in_cache = 0 => aligned
               /\ b.bits_in_cache # 0 => b.overflow \/ ~ aligned
<1> DEFINE p == b.byte_pos  c == b.bits_in_cache  L == Len(b.buffer)
           n == Len(bytes)
<1>1. /\ p \in Nat /\ c \in Nat /\ L \in Nat /\ n \in Nat /\ p <= L
      /\ ~ Full(b) => c < 8
  BY WriterFields DEF Good, Fits
<1>2. Size(b) = IF Full(b) THEN 8 * p ELSE 8 * p + c
  BY DEF Size
<1>3. /\ can_write_bytes(b, bytes) <=> c = 0 /\ ~ b.overflow /\ n <= L - p
      /\ Full(b) => b.overflow
  BY DEF can_write_bytes, Full
<1> HIDE DEF p, c, L, n
<1>4. /\ (8 * p) % 8 = 0 /\ (c < 8 => (8 * p + c) % 8 = c)
      /\ 8 * p + 0 + 8 * n <= 8 * L <=> n <= L - p
  BY <1>1
<1>5. CASE Full(b)
  BY <1>1, <1>2, <1>3, <1>4, <1>5 DEF p, c, L, n
<1>6. CASE ~ Full(b)
  <2>1. Size(b) = 8 * p + c /\ Size(b) % 8 = c
    BY <1>1, <1>2, <1>4, <1>6
  <2>2. c = 0 => (Size(b) + 8 * n <= 8 * L <=> n <= L - p)
    BY <2>1, <1>1
  <2>3. /\ can_write_bytes(b, bytes)
             <=> Size(b) % 8 = 0 /\ ~ b.overflow /\ Size(b) + 8 * n <= 8 * L
        /\ c = 0 => Size(b) % 8 = 0
        /\ c # 0 => ~ (Size(b) % 8 = 0)
    BY <2>1, <2>2, <1>3
  <2> QED BY <2>3 DEF p, c, L, n
<1> QED BY <1>5, <1>6

LEMMA CopyBits ==
    ASSUME NEW bytes \in Seq(Byte), NEW o
    PROVE  /\ CopyOf(o, bytes) \in Seq(Bit)
           /\ Len(CopyOf(o, bytes)) = 8 * Len(bytes)
<1>1. \A j \in 1 .. 8 * Len(bytes) : StreamBit(bytes, o, j - 1) \in Bit
  BY StreamBits
<1>2. CopyOf(o, bytes) \in [1 .. 8 * Len(bytes) -> Bit]
  BY <1>1 DEF CopyOf
<1> QED BY <1>2

\* A copy that is made appends the bits of the bytes.
LEMMA CopyLonger ==
    ASSUME NEW b, Good(b), NEW bytes \in Seq(Byte), NEW o,
           can_write_bytes(b, bytes)
    PROVE  LET d == bs_write_bytes(b, bytes) IN
           /\ Len(d.buffer) = Len(b.buffer) /\ d.overflow = b.overflow
           /\ KeptOf(d, o) = KeptOf(b, o) \o CopyOf(o, bytes)
<1> DEFINE p == b.byte_pos  n == Len(bytes)  s == Store(b, n, bytes)
           d == bs_write_bytes(b, bytes)  t == CopyOf(o, bytes)
           u == KeptOf(b, o) \o t
<1>1. /\ b \in Writers /\ Within(b) /\ p \in Nat /\ p <= Len(b.buffer)
      /\ Len(b.buffer) \in Nat /\ n \in Nat
      /\ b.bits_in_cache = 0 /\ ~ b.overflow /\ p + n <= Len(b.buffer)
      /\ \A i \in 1 .. n : bytes[i] \in Byte
  BY WriterFields DEF Good, can_write_bytes
<1>2. /\ d.buffer = s /\ d.byte_pos = p + n /\ d.bits_in_cache = 0
      /\ d.overflow = b.overflow
  <2>1. d = [b EXCEPT !.buffer = s, !.byte_pos = p + n]
    BY DEF bs_write_bytes
  <2> HIDE DEF d, s
  <2>2. d = [buffer |-> s, byte_pos |-> p + n, bit_cache |-> b.bit_cache,
             bits_in_cache |-> b.bits_in_cache, overflow |-> b.overflow]
    BY <2>1, <1>1, Rewritten
  <2> QED BY <2>2, <1>1
<1>3. Good(d)
  BY WriteBytesKeeps DEF Keeps
<1>4. /\ t \in Seq(Bit) /\ Len(t) = 8 * n
      /\ \A j \in 1 .. 8 * n : t[j] = StreamBit(bytes, o, j - 1)
  <2>1. t \in Seq(Bit) /\ Len(t) = 8 * n
    BY CopyBits
  <2> QED BY <2>1 DEF CopyOf
<1>5. /\ Len(s) = Len(b.buffer)
      /\ \A j \in 1 .. Len(b.buffer) :
           s[j] = IF p < j /\ j <= p + n THEN bytes[j - p] ELSE b.buffer[j]
  <2> HIDE DEF n
  <2> QED BY <1>1, StoreKeeps, SMTT(30)
<1>6. Size(b) = 8 * p /\ Size(d) = 8 * (p + n)
  <2>1. ~ Full(b) /\ ~ Full(d)
    BY <1>1, <1>2 DEF Full
  <2> HIDE DEF d, n
  <2>2. Size(b) = 8 * p + 0 /\ Size(d) = 8 * (p + n) + 0
    BY <2>1, <1>1, <1>2 DEF Size
  <2> QED BY <2>2, <1>1
<1> HIDE DEF t
<1>7. /\ u \in Seq(Bit) /\ Len(u) = 8 * p + 8 * n
      /\ \A j \in 1 .. 8 * p + 8 * n :
           u[j] = IF j <= 8 * p THEN BitAt(b, o, j) ELSE t[j - 8 * p]
  <2>1. /\ u \in Seq(Bit) /\ Len(u) = Size(b) + Len(t)
        /\ \A j \in 1 .. Size(b) + Len(t) :
             u[j] = IF j <= Size(b) THEN BitAt(b, o, j) ELSE t[j - Size(b)]
    BY <1>4, Appended
  <2> HIDE DEF u, p, n
  <2> QED BY <2>1, <1>4, <1>6
<1>8. KeptOf(d, o) \in Seq(Bit) /\ Len(KeptOf(d, o)) = 8 * (p + n)
      /\ \A j \in 1 .. 8 * (p + n) : KeptOf(d, o)[j] = BitAt(d, o, j)
  <2>1. KeptOf(d, o) \in Seq(Bit) /\ Len(KeptOf(d, o)) = Size(d)
    BY <1>3, KeptBits
  <2> QED BY <2>1, <1>6 DEF KeptOf
<1>9. /\ \A j \in 1 .. 8 * p : BitAt(b, o, j) = StreamBit(b.buffer, o, j - 1)
      /\ \A j \in 1 .. 8 * (p + n) : BitAt(d, o, j) = StreamBit(s, o, j - 1)
  BY <1>2 DEF BitAt
<1>10. ASSUME NEW data, NEW j
       PROVE  StreamBit(data, o, j - 1)
                = data[((j - 1) \div 8) + 1][IF o = "msb" THEN 7 - ((j - 1) % 8)
                                             ELSE (j - 1) % 8]
  BY DEF StreamBit
<1> HIDE DEF u, s, d, n, p
<1>11. ASSUME NEW j \in 1 .. 8 * (p + n)
       PROVE  KeptOf(d, o)[j] = u[j]
  <2> DEFINE byte == ((j - 1) \div 8) + 1  m == (j - 1) % 8
  <2>1. /\ byte \in 1 .. p + n /\ byte \in 1 .. Len(b.buffer)
        /\ j \in 1 .. 8 * p + 8 * n
    BY <1>1, StreamIndex
  <2>2. KeptOf(d, o)[j] = s[byte][IF o = "msb" THEN 7 - m ELSE m]
    BY <1>8, <1>9, <1>10
  <2>3. CASE j <= 8 * p
    <3>1. j \in 1 .. 8 * p /\ ~ (p < byte)
      BY <2>3, <1>1
    <3>2. s[byte] = b.buffer[byte]
      BY <3>1, <2>1, <1>5
    <3>3. u[j] = b.buffer[byte][IF o = "msb" THEN 7 - m ELSE m]
      BY <3>1, <2>1, <2>3, <1>7, <1>9, <1>10
    <3> QED BY <3>2, <3>3, <2>2
  <2>4. CASE ~ (j <= 8 * p)
    <3>1. /\ j - 8 * p \in 1 .. 8 * n /\ p < byte
          /\ ((j - 8 * p - 1) \div 8) + 1 = byte - p
          /\ (j - 8 * p - 1) % 8 = m
      BY <2>4, <1>1
    <3>2. s[byte] = bytes[byte - p]
      BY <3>1, <2>1, <1>5
    <3>3. u[j] = StreamBit(bytes, o, (j - 8 * p) - 1)
      BY <3>1, <2>1, <2>4, <1>4, <1>7
    <3>4. u[j] = bytes[byte - p][IF o = "msb" THEN 7 - m ELSE m]
      BY <3>1, <3>3, <1>10
    <3> QED BY <3>2, <3>4, <2>2
  <2> QED BY <2>3, <2>4
<1>12. KeptOf(d, o) = u
  <2>1. Len(u) = Len(KeptOf(d, o))
    BY <1>1, <1>7, <1>8
  <2> QED BY <2>1, <1>7, <1>8, <1>11, SeqEqual
<1> QED BY <1>2, <1>5, <1>12 DEF d, u, t, s

\* A copy that is not made keeps the bits kept, and is reported when the
\* writer is aligned.
LEMMA NoCopyKeeps ==
    ASSUME NEW b, Good(b), NEW bytes \in Seq(Byte), NEW o,
           ~ can_write_bytes(b, bytes)
    PROVE  LET d == bs_write_bytes(b, bytes) IN
           /\ Len(d.buffer) = Len(b.buffer)
           /\ d.overflow <=> b.overflow \/ b.bits_in_cache = 0
           /\ KeptOf(d, o) = KeptOf(b, o)
<1> DEFINE d == bs_write_bytes(b, bytes)
<1>1. CASE b.bits_in_cache # 0
  <2>1. d = b
    BY <1>1 DEF bs_write_bytes
  <2> QED BY <2>1, <1>1
<1>2. CASE b.bits_in_cache = 0
  <2>1. d = [b EXCEPT !.overflow = TRUE]
    BY <1>2 DEF bs_write_bytes
  <2>2. /\ d.buffer = b.buffer /\ d.byte_pos = b.byte_pos
        /\ d.bit_cache = b.bit_cache /\ d.bits_in_cache = 0
        /\ d.overflow = TRUE
    BY <2>1, <1>2, WriterFields DEF Good, Writers
  <2> HIDE DEF d
  <2>3. 8 * b.byte_pos + 0 = 8 * b.byte_pos
    BY WriterFields DEF Good
  <2>4. Size(d) = 8 * b.byte_pos /\ Size(b) = 8 * b.byte_pos
    BY <2>2, <2>3, <1>2 DEF Size
  <2>5. KeptOf(d, o) = KeptOf(b, o)
    BY <2>2, <2>4 DEF KeptOf, BitAt
  <2> QED BY <2>2, <2>5, <1>2 DEF d
<1> QED BY <1>1, <1>2

\* The same bytes read in the other order.
OtherWay(s) == [j \in 1 .. Len(s) |-> s[8 * ((j - 1) \div 8) + 8 - ((j - 1) % 8)]]

LEMMA OtherOrder ==
    ASSUME NEW b, Good(b), b.bits_in_cache = 0,
           NEW o \in Orders, NEW o2 \in Orders
    PROVE  /\ Size(b) % 8 = 0
           /\ KeptOf(b, o2) = IF o2 = o THEN KeptOf(b, o)
                              ELSE OtherWay(KeptOf(b, o))
<1> DEFINE p == b.byte_pos  s == KeptOf(b, o)
<1>1. p \in Nat
  BY WriterFields DEF Good
<1>2. Size(b) = 8 * p
  <2>1. 8 * p + 0 = 8 * p
    BY <1>1
  <2> QED BY <2>1 DEF Size
<1>3. /\ s \in Seq(Bit) /\ Len(s) = 8 * p
      /\ \A j \in 1 .. 8 * p : s[j] = StreamBit(b.buffer, o, j - 1)
  <2>1. s \in Seq(Bit) /\ Len(s) = Size(b)
    BY KeptBits
  <2>2. s = [j \in 1 .. Size(b) |-> BitAt(b, o, j)]
    BY DEF KeptOf
  <2>3. \A j \in 1 .. 8 * p : BitAt(b, o, j) = StreamBit(b.buffer, o, j - 1)
    BY DEF BitAt
  <2> HIDE DEF s, p
  <2> QED BY <2>1, <2>2, <2>3, <1>2
<1>4. KeptOf(b, o2) = [j \in 1 .. 8 * p |-> StreamBit(b.buffer, o2, j - 1)]
  BY <1>2 DEF KeptOf, BitAt
<1>5. OtherWay(s)
        = [j \in 1 .. 8 * p |-> s[8 * ((j - 1) \div 8) + 8 - ((j - 1) % 8)]]
  BY <1>3 DEF OtherWay
<1> HIDE DEF p, s
<1>6. ASSUME o2 # o, NEW j \in 1 .. 8 * p
      PROVE  StreamBit(b.buffer, o2, j - 1)
               = s[8 * ((j - 1) \div 8) + 8 - ((j - 1) % 8)]
  <2> DEFINE q == (j - 1) \div 8  m == (j - 1) % 8  i == 8 * q + 8 - m
  <2>1. q \in Nat /\ q + 1 \in 1 .. p /\ m \in 0 .. 7
    BY <1>1, StreamIndex
  <2> HIDE DEF q, m
  <2>2. /\ i \in 1 .. 8 * p /\ i - 1 = 8 * q + (7 - m)
    BY <2>1, <1>1
  <2>3. (i - 1) \div 8 = q /\ (i - 1) % 8 = 7 - m /\ 7 - (7 - m) = m
    BY <2>1, <2>2
  <2>4. s[i] = StreamBit(b.buffer, o, i - 1)
    BY <2>2, <1>3
  <2> HIDE DEF i
  <2>5. s[i] = b.buffer[q + 1][IF o = "msb" THEN m ELSE 7 - m]
    BY <2>3, <2>4 DEF StreamBit
  <2>6. StreamBit(b.buffer, o2, j - 1)
          = b.buffer[q + 1][IF o2 = "msb" THEN 7 - m ELSE m]
    BY DEF StreamBit, q, m
  <2>7. o2 = "msb" <=> o # "msb"
    BY <1>6 DEF Orders
  <2> QED BY <2>5, <2>6, <2>7 DEF i, q, m
<1>7. (8 * p) % 8 = 0
  BY <1>1
<1>8. CASE o2 = o
  BY <1>2, <1>7, <1>8 DEF s
<1>9. CASE o2 # o
  <2>1. KeptOf(b, o2) = OtherWay(s)
    BY <1>4, <1>5, <1>6, <1>9
  <2> QED BY <2>1, <1>2, <1>7, <1>9 DEF s
<1> QED BY <1>8, <1>9

---------------------------------------------------------------------------
(***************************************************************************)
(* A stream sent piece by piece, flushed, and opened again.  stream is     *)
(* defined on all positions from 1 on; Carries says that the writer has    *)
(* been given its first n bits.                                            *)
(***************************************************************************)
Carries(b, o, stream, n) ==
    /\ Good(b)
    /\ b.overflow <=> n >= 8 * (Len(b.buffer) + 1)
    /\ Size(b) = IF b.overflow THEN 8 * Len(b.buffer) ELSE n
    /\ \A j \in 1 .. Size(b) : BitAt(b, o, j) = stream[j]

\* What a reader sees of the memory of a writer.
WireOf(b) == SubSeq(b.buffer, 1, bs_writer_bytes_written(b))

\* Longer, read bit by bit.
LEMMA LongerBits ==
    ASSUME NEW b, Good(b), NEW d, Good(d), NEW o, NEW bits \in Seq(Bit),
           Longer(b, d, o, bits)
    PROVE  LET n == Size(b) + Len(bits)  cap == Len(b.buffer) IN
           /\ n \in Nat
           /\ d.overflow <=> b.overflow \/ n >= 8 * (cap + 1)
           /\ Size(d) = IF d.overflow /\ n >= 8 * cap THEN 8 * cap ELSE n
           /\ \A j \in 1 .. Size(d) :
                BitAt(d, o, j) = IF j <= Size(b) THEN BitAt(b, o, j)
                                 ELSE bits[j - Size(b)]
<1> DEFINE s == KeptOf(b, o) \o bits  L == Len(b.buffer)  t == KeptOf(d, o)
           n == Size(b) + Len(bits)
<1>1. /\ s \in Seq(Bit) /\ Len(s) = n /\ n \in Nat /\ Size(b) \in Nat
      /\ \A j \in 1 .. n : s[j] = IF j <= Size(b) THEN BitAt(b, o, j)
                                  ELSE bits[j - Size(b)]
  <2>1. /\ s \in Seq(Bit) /\ Len(s) = Size(b) + Len(bits)
        /\ Size(b) \in Nat /\ Len(bits) \in Nat
        /\ \A j \in 1 .. Size(b) + Len(bits) :
             s[j] = IF j <= Size(b) THEN BitAt(b, o, j) ELSE bits[j - Size(b)]
    BY Appended
  <2> HIDE DEF s
  <2> QED BY <2>1
<1>2. /\ t \in Seq(Bit) /\ Len(t) = Size(d) /\ Size(d) \in Nat
  BY KeptBits
<1>3. \A j \in 1 .. Size(d) : t[j] = BitAt(d, o, j)
  BY DEF KeptOf
<1>4. L \in Nat
  BY WriterFields DEF Good
<1>5. /\ d.overflow <=> b.overflow \/ Len(s) >= 8 * (L + 1)
      /\ t = IF d.overflow /\ Len(s) >= 8 * L
             THEN SubSeq(s, 1, MinOf(Len(s), 8 * L)) ELSE s
  BY Zenon DEF Longer
<1> HIDE DEF s, L, t, n
<1>6. CASE d.overflow /\ n >= 8 * L
  <2> DEFINE w == 8 * L
  <2>1. w \in Nat /\ w \in Int /\ 1 \in Int /\ w <= n /\ MinOf(n, 8 * L) = w
    BY <1>1, <1>4, <1>6 DEF MinOf
  <2>2. t = SubSeq(s, 1, w)
    <3>1. t = SubSeq(s, 1, MinOf(Len(s), 8 * L))
      BY <1>1, <1>5, <1>6, Zenon
    <3> QED BY <3>1, <2>1, <1>1, Zenon
  <2> HIDE DEF w
  <2>3. \A i \in 1 .. w : s[i] \in Bit
    BY <2>1, <1>1
  <2>4. /\ Len(SubSeq(s, 1, w)) = IF 1 <= w THEN w - 1 + 1 ELSE 0
        /\ \A i \in 1 .. w - 1 + 1 : SubSeq(s, 1, w)[i] = s[1 + i - 1]
    BY <2>1, <2>3, SubSeqProperties
  <2>5. Len(t) = w /\ \A i \in 1 .. w : t[i] = s[i]
    <3>1. Len(t) = w
      BY <2>1, <2>2, <2>4
    <3>2. ASSUME NEW i \in 1 .. w PROVE t[i] = s[i]
      <4>1. i \in 1 .. w - 1 + 1 /\ 1 + i - 1 = i
        BY <2>1
      <4> QED BY <4>1, <2>2, <2>4
    <3> QED BY <3>1, <3>2
  <2>6. Size(d) = w
    BY <2>5, <1>2
  <2>7. ASSUME NEW j \in 1 .. Size(d)
        PROVE  BitAt(d, o, j) = IF j <= Size(b) THEN BitAt(b, o, j)
                                ELSE bits[j - Size(b)]
    <3>1. j \in 1 .. w /\ j \in 1 .. n
      BY <2>1, <2>6, <1>1
    <3> QED BY <3>1, <2>5, <1>1, <1>3
  <2> QED BY <2>6, <2>7, <1>1, <1>5, <1>6 DEF w, n, L
<1>7. CASE ~ (d.overflow /\ n >= 8 * L)
  <2>1. t = s
    BY <1>1, <1>5, <1>7, Zenon
  <2>2. Size(d) = n
    BY <2>1, <1>1, <1>2
  <2>3. ASSUME NEW j \in 1 .. Size(d)
        PROVE  BitAt(d, o, j) = IF j <= Size(b) THEN BitAt(b, o, j)
                                ELSE bits[j - Size(b)]
    BY <2>1, <2>2, <1>1, <1>3
  <2> QED BY <2>2, <2>3, <1>1, <1>5, <1>7 DEF n, L
<1> QED BY <1>6, <1>7 DEF n, L

\* A writer just opened has been sent nothing.
LEMMA OpenedCarries ==
    ASSUME NEW data \in Seq(Byte), NEW o, NEW stream
    PROVE  LET b == bs_writer_init(data) IN
           Carries(b, o, stream, 0) /\ b.buffer = data
<1> DEFINE b == bs_writer_init(data)
<1>1. Zero(CacheBits) \in Word(CacheBits) /\ Clean(Zero(CacheBits), 0)
  BY DEF Zero, Word, Bit, Clean
<1>2. Len(data) \in Nat /\ 0 \in 0 .. CountMod - 1
  BY WidthFacts
<1>3. /\ b.buffer = data /\ b.byte_pos = 0 /\ b.bits_in_cache = 0
      /\ b.overflow = FALSE /\ b.bit_cache = Zero(CacheBits) /\ b \in Writers
  BY <1>1, <1>2 DEF bs_writer_init, Writers
<1> HIDE DEF b
<1>4. Good(b)
  BY <1>1, <1>2, <1>3 DEF Good, Within, Fits
<1>5. Size(b) = 0
  BY <1>3 DEF Size
<1>6. Carries(b, o, stream, 0)
  BY <1>2, <1>3, <1>4, <1>5 DEF Carries
<1> QED BY <1>3, <1>6 DEF b

\* The next bits of the stream are appended to it.
LEMMA CarriesMore ==
    ASSUME NEW b, NEW o, NEW stream, NEW n \in Nat, Carries(b, o, stream, n),
           NEW d, Keeps(b, d), NEW bits \in Seq(Bit), Longer(b, d, o, bits),
           \A j \in 1 .. Len(bits) : bits[j] = stream[n + j]
    PROVE  Carries(d, o, stream, n + Len(bits))
<1> DEFINE L == Len(b.buffer)  m == Len(bits)  N == Size(b) + m
<1>1. /\ Good(b) /\ Good(d) /\ Len(d.buffer) = L /\ L \in Nat /\ m \in Nat
      /\ b.overflow => d.overflow
  BY WriterFields DEF Carries, Keeps, Appends, Good
<1>2. /\ b.overflow <=> n >= 8 * (L + 1)
      /\ Size(b) = IF b.overflow THEN 8 * L ELSE n
      /\ \A j \in 1 .. Size(b) : BitAt(b, o, j) = stream[j]
  BY DEF Carries
<1>3. /\ N \in Nat
      /\ d.overflow <=> b.overflow \/ N >= 8 * (L + 1)
      /\ Size(d) = IF d.overflow /\ N >= 8 * L THEN 8 * L ELSE N
      /\ \A j \in 1 .. Size(d) :
           BitAt(d, o, j) = IF j <= Size(b) THEN BitAt(b, o, j)
                            ELSE bits[j - Size(b)]
  BY <1>1, LongerBits
<1>4. Size(b) \in Nat
  BY <1>1, KeptBits
<1> HIDE DEF L, m
<1>5. CASE b.overflow
  <2>1. d.overflow /\ Size(b) = 8 * L /\ n >= 8 * (L + 1)
    BY <1>5, <1>1, <1>2
  <2>2. N >= 8 * L /\ n + m >= 8 * (L + 1)
    BY <2>1, <1>1
  <2>3. Size(d) = 8 * L
    BY <2>1, <2>2, <1>3
  <2>4. \A j \in 1 .. Size(d) : BitAt(d, o, j) = stream[j]
    BY <2>1, <2>3, <1>1, <1>2, <1>3
  <2> QED BY <2>1, <2>2, <2>3, <2>4, <1>1 DEF Carries, m
<1>6. CASE ~ b.overflow
  <2>1. Size(b) = n /\ N = n + m
    BY <1>6, <1>2
  <2>2. d.overflow <=> n + m >= 8 * (L + 1)
    BY <2>1, <1>6, <1>3
  <2>3. Size(d) = IF d.overflow THEN 8 * L ELSE n + m
    <3>1. CASE d.overflow
      <4>1. N >= 8 * L
        BY <3>1, <2>1, <2>2, <1>1
      <4> QED BY <4>1, <3>1, <1>3
    <3>2. CASE ~ d.overflow
      BY <3>2, <2>1, <1>3
    <3> QED BY <3>1, <3>2
  <2>4. Size(d) <= n + m
    BY <2>2, <2>3, <1>1
  <2>5. ASSUME NEW j \in 1 .. Size(d) PROVE BitAt(d, o, j) = stream[j]
    <3>1. CASE j <= n
      <4>1. j \in 1 .. Size(b)
        BY <3>1, <2>1, <1>1
      <4> QED BY <4>1, <3>1, <2>1, <1>2, <1>3
    <3>2. CASE ~ (j <= n)
      <4> DEFINE i == j - n
      <4>1. i \in 1 .. m /\ n + i = j
        BY <3>2, <2>4, <1>1, <2>3, <2>1, <1>3
      <4>2. BitAt(d, o, j) = bits[i]
        BY <3>2, <2>1, <1>3
      <4> HIDE DEF i
      <4> QED BY <4>1, <4>2 DEF m
    <3> QED BY <3>1, <3>2
  <2> QED BY <2>2, <2>3, <2>5, <1>1 DEF Carries, m
<1> QED BY <1>5, <1>6

\* What is stored is what the memory cut at the write position holds.
LEMMA WireBits ==
    ASSUME NEW d, Within(d), NEW o
    PROVE  LET w == WireOf(d) IN
           /\ w \in Seq(Byte) /\ Len(w) = d.byte_pos
           /\ \A j \in 1 .. 8 * d.byte_pos : StreamBit(w, o, j - 1) = BitAt(d, o, j)
<1> DEFINE w == WireOf(d)  p == d.byte_pos
<1>1. /\ d.buffer \in Seq(Byte) /\ p \in Nat /\ p \in Int /\ 1 \in Int
      /\ p <= Len(d.buffer) /\ Len(d.buffer) \in Nat
  BY WriterFields
<1>2. \A i \in 1 .. p : d.buffer[i] \in Byte
  BY <1>1
<1>3. w = SubSeq(d.buffer, 1, p)
  BY DEF WireOf, bs_writer_bytes_written
<1>4. \A j : j <= 8 * p => BitAt(d, o, j) = StreamBit(d.buffer, o, j - 1)
  BY DEF BitAt
<1> HIDE DEF w, p
<1>5. /\ SubSeq(d.buffer, 1, p) \in Seq(Byte)
      /\ Len(SubSeq(d.buffer, 1, p)) = IF 1 <= p THEN p - 1 + 1 ELSE 0
      /\ \A i \in 1 .. p - 1 + 1 : SubSeq(d.buffer, 1, p)[i] = d.buffer[1 + i - 1]
  BY <1>1, <1>2, SubSeqProperties
<1>6. w \in Seq(Byte) /\ Len(w) = p
  BY <1>1, <1>3, <1>5
<1>7. ASSUME NEW i \in 1 .. p PROVE w[i] = d.buffer[i]
  <2>1. i \in 1 .. p - 1 + 1 /\ 1 + i - 1 = i
    BY <1>1
  <2> QED BY <2>1, <1>3, <1>5
<1>8. ASSUME NEW j \in 1 .. 8 * p
      PROVE  StreamBit(w, o, j - 1) = BitAt(d, o, j)
  <2>1. ((j - 1) \div 8) + 1 \in 1 .. p /\ j <= 8 * p
    BY <1>1, StreamIndex
  <2>2. StreamBit(w, o, j - 1) = StreamBit(d.buffer, o, j - 1)
    BY <2>1, <1>7 DEF StreamBit
  <2> QED BY <2>1, <2>2, <1>4
<1> QED BY <1>6, <1>8 DEF w, p

\* After a flush, the memory holds the bits sent, filled up with zeros, or
\* as many of them as it has room for; overflow tells the two apart.
LEMMA FlushCarries ==
    ASSUME NEW b, NEW o, NEW stream, NEW n \in Nat, Carries(b, o, stream, n),
           \A j \in 1 .. 7 : stream[n + j] = 0,
           NEW d, Drains(b, d), Longer(b, d, o, PadOf(b))
    PROVE  LET w == WireOf(d)  cap == Len(b.buffer) IN
           /\ Good(d) /\ Len(d.buffer) = cap /\ cap \in Nat
           /\ d.overflow <=> n > 8 * cap
           /\ w \in Seq(Byte) /\ Len(w) = MinOf((n + 7) \div 8, cap)
           /\ \A j \in 1 .. 8 * Len(w) : StreamBit(w, o, j - 1) = stream[j]
<1> DEFINE w == WireOf(d)  cap == Len(b.buffer)  m == Len(PadOf(b))
           up == (n + 7) \div 8  p == d.byte_pos  c == d.bits_in_cache
<1>1. /\ Good(b) /\ Keeps(b, d) /\ Good(d) /\ Len(d.buffer) = cap /\ cap \in Nat
      /\ d.overflow \/ c = 0
      /\ p \in Nat /\ c \in Nat /\ p <= cap
  BY WriterFields DEF Carries, Drains, Keeps, Appends, Good
<1>2. /\ PadOf(b) \in Seq(Bit) /\ m = (8 - (Size(b) % 8)) % 8
      /\ \A j \in 1 .. m : PadOf(b)[j] = 0
      /\ Size(b) \in Nat
  <2>1. Size(b) \in Nat
    BY <1>1, KeptBits
  <2>2. (8 - (Size(b) % 8)) % 8 \in Nat
    BY <2>1
  <2>3. \A j \in 1 .. (8 - (Size(b) % 8)) % 8 : PadOf(b)[j] = 0
    BY DEF PadOf
  <2>4. PadOf(b) \in Seq(Bit)
    BY <1>1, PadIs
  <2>5. DOMAIN PadOf(b) = 1 .. (8 - (Size(b) % 8)) % 8
    BY DEF PadOf
  <2>6. m = (8 - (Size(b) % 8)) % 8
    BY <2>2, <2>4, <2>5
  <2> QED BY <2>1, <2>3, <2>4, <2>6
<1>3. /\ b.overflow <=> n >= 8 * (cap + 1)
      /\ Size(b) = IF b.overflow THEN 8 * cap ELSE n
  BY DEF Carries
<1> HIDE DEF cap, m, up, w, p, c
<1>4. \A k \in Nat : /\ (8 - (k % 8)) % 8 \in 0 .. 7
                     /\ k + ((8 - (k % 8)) % 8) = 8 * ((k + 7) \div 8)
                     /\ (8 - ((8 * k) % 8)) % 8 = 0
  OBVIOUS
<1>5. m \in 0 .. 7
  BY <1>2, <1>4
<1>6. ASSUME NEW j \in 1 .. m PROVE PadOf(b)[j] = stream[n + j]
  <2>1. j \in 1 .. 7
    BY <1>5
  <2>2. stream[n + j] = 0
    BY <2>1
  <2> QED BY <2>2, <1>2
<1>7. Carries(d, o, stream, n + m)
  BY <1>1, <1>2, <1>6, CarriesMore DEF m
<1>8. /\ d.overflow <=> n + m >= 8 * (cap + 1)
      /\ Size(d) = IF d.overflow THEN 8 * cap ELSE n + m
      /\ \A j \in 1 .. Size(d) : BitAt(d, o, j) = stream[j]
  BY <1>1, <1>7 DEF Carries
<1>9. /\ b.overflow => m = 0
      /\ ~ b.overflow => n + m = 8 * up
  <2>1. b.overflow => m = 0
    BY <1>1, <1>2, <1>3, <1>4
  <2>2. ~ b.overflow => n + m = 8 * up
    BY <1>2, <1>3, <1>4 DEF up
  <2> QED BY <2>1, <2>2
<1>10. up \in Nat /\ 8 * up >= n /\ 8 * up < n + 8
  BY DEF up
<1>11. d.overflow <=> n > 8 * cap
  BY <1>1, <1>3, <1>5, <1>8, <1>9, <1>10
<1>12. Size(d) = IF d.overflow THEN 8 * cap ELSE 8 * up
  BY <1>1, <1>3, <1>5, <1>8, <1>9, <1>10
<1>13. Size(d) = IF d.overflow /\ p = cap THEN 8 * p ELSE 8 * p + c
  BY <1>1 DEF Size, Full, p, c
<1>14. ~ (d.overflow /\ p = cap) => c < 8
  BY <1>1 DEF Good, Full, Fits, p, c
<1>15. p = MinOf(up, cap)
  <2>1. CASE d.overflow
    BY <2>1, <1>1, <1>10, <1>11, <1>12, <1>13, <1>14 DEF MinOf
  <2>2. CASE ~ d.overflow
    BY <2>2, <1>1, <1>10, <1>11, <1>12, <1>13, <1>14 DEF MinOf
  <2> QED BY <2>1, <2>2
<1>16. /\ w \in Seq(Byte) /\ Len(w) = p
       /\ \A j \in 1 .. 8 * p : StreamBit(w, o, j - 1) = BitAt(d, o, j)
  <2>1. Within(d)
    BY <1>1 DEF Good
  <2> QED BY <2>1, WireBits DEF w, p
<1>17. ASSUME NEW j \in 1 .. 8 * p PROVE StreamBit(w, o, j - 1) = stream[j]
  <2>1. j \in 1 .. Size(d)
    BY <1>1, <1>13
  <2> QED BY <2>1, <1>8, <1>16
<1> QED BY <1>1, <1>11, <1>15, <1>16, <1>17 DEF cap, w, up, p

\* Bytes that lie on the wire at a byte boundary are bytes of the memory.
LEMMA BytesOnWire ==
    ASSUME NEW w \in Seq(Byte), NEW o \in Orders, NEW first \in Nat,
           NEW c \in Seq(Byte), first + Len(c) <= Len(w),
           \A j \in 1 .. 8 * Len(c) :
               StreamBit(w, o, 8 * first + j - 1) = CopyOf(o, c)[j]
    PROVE  \A i \in 1 .. Len(c) : w[first + i] = c[i]
<1> TAKE i \in 1 .. Len(c)
<1>1. first + i \in 1 .. Len(w) /\ Len(c) \in Nat /\ i \in Nat
  OBVIOUS
<1>2. w[first + i] \in [0 .. 7 -> Bit] /\ c[i] \in [0 .. 7 -> Bit]
  BY <1>1, ByteBits
<1>3. ASSUME NEW m \in 0 .. 7 PROVE w[first + i][m] = c[i][m]
  <2> DEFINE t == IF o = "msb" THEN 7 - m ELSE m
             j == 8 * (i - 1) + t + 1
  <2>1. t \in 0 .. 7 /\ (IF o = "msb" THEN 7 - t ELSE t) = m
    OBVIOUS
  <2> HIDE DEF t
  <2>2. /\ j \in 1 .. 8 * Len(c) /\ j - 1 = 8 * (i - 1) + t
        /\ 8 * first + j - 1 = 8 * (first + (i - 1)) + t
    BY <2>1, <1>1
  <2>3. /\ ((8 * (i - 1) + t) \div 8) + 1 = i
        /\ (8 * (i - 1) + t) % 8 = t
        /\ ((8 * (first + (i - 1)) + t) \div 8) + 1 = first + i
        /\ (8 * (first + (i - 1)) + t) % 8 = t
    <3>1. /\ i - 1 \in Nat /\ first + (i - 1) \in Nat /\ t \in Nat
          /\ t \div 8 = 0 /\ t % 8 = t
      BY <2>1, <1>1
    <3>2. ASSUME NEW a \in Nat
          PROVE  /\ ((8 * a + t) \div 8) + 1 = a + 1
                 /\ (8 * a + t) % 8 = t
      BY <3>1, LsbIndex
    <3>3. (i - 1) + 1 = i /\ (first + (i - 1)) + 1 = first + i
      BY <1>1
    <3> QED BY <3>1, <3>2, <3>3
  <2> HIDE DEF j
  <2>4. StreamBit(w, o, 8 * first + j - 1) = StreamBit(c, o, j - 1)
    BY <2>2 DEF CopyOf
  <2>5. /\ StreamBit(w, o, 8 * first + j - 1) = w[first + i][m]
        /\ StreamBit(c, o, j - 1) = c[i][m]
    BY <2>1, <2>2, <2>3 DEF StreamBit
  <2> QED BY <2>4, <2>5
<1>4. /\ w[first + i] = [m \in 0 .. 7 |-> w[first + i][m]]
      /\ c[i] = [m \in 0 .. 7 |-> c[i][m]]
  BY <1>2
<1> QED BY <1>3, <1>4
=============================================================================
