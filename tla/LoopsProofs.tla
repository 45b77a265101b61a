---------------------------- MODULE LoopsProofs ----------------------------
(***************************************************************************)
(* For every width and every memory: the four loops of bitstream.h compute *)
(* the closed forms modules BitReader and BitWriter use for them.  One     *)
(* iteration leaves the closed form of what remains unchanged, and where   *)
(* a loop is left nothing remains.                                         *)
(***************************************************************************)
EXTENDS Loops, TLAPS

\* A reader inside a refill loop, and a writer inside a dump loop.
Reading(b) == b \in R!Readers /\ b.byte_pos <= Len(b.buffer)

Writing(b) ==
    /\ b \in W!Writers
    /\ b.byte_pos <= Len(b.buffer)
    /\ b.byte_pos < Len(b.buffer) => b.bits_in_cache <= CacheBits

LEMMA ReaderFields ==
    ASSUME NEW b, Reading(b)
    PROVE  /\ b = [buffer |-> b.buffer, byte_pos |-> b.byte_pos,
                   bit_cache |-> b.bit_cache,
                   bits_in_cache |-> b.bits_in_cache]
           /\ b.buffer \in Seq(Byte) /\ Len(b.buffer) \in Nat
           /\ b.byte_pos \in Nat /\ b.byte_pos <= Len(b.buffer)
           /\ b.bit_cache \in Word(CacheBits)
           /\ b.bits_in_cache \in Nat /\ b.bits_in_cache <= CacheBits
           /\ CacheBits \in Nat /\ CacheBits >= 15
<1>1. /\ R!Byte = Byte /\ R!Word(CacheBits) = Word(CacheBits)
  BY DEF R!Byte, R!Word, R!Bit, Byte, Word, Bit
<1> QED BY <1>1, WidthAssumption DEF Reading, R!Readers

LEMMA WriterFields ==
    ASSUME NEW b, Writing(b)
    PROVE  /\ b = [buffer |-> b.buffer, byte_pos |-> b.byte_pos,
                   bit_cache |-> b.bit_cache,
                   bits_in_cache |-> b.bits_in_cache,
                   overflow |-> b.overflow]
           /\ b.buffer \in Seq(Byte) /\ Len(b.buffer) \in Nat
           /\ b.byte_pos \in Nat /\ b.byte_pos <= Len(b.buffer)
           /\ b.bit_cache \in Word(CacheBits)
           /\ b.bits_in_cache \in Nat /\ b.bits_in_cache < CountMod
           /\ b.byte_pos < Len(b.buffer) => b.bits_in_cache <= CacheBits
           /\ b.overflow \in BOOLEAN
           /\ CacheBits \in Nat /\ CacheBits >= 15 /\ CountMod \in Nat
<1>1. /\ W!Byte = Byte /\ W!Word(CacheBits) = Word(CacheBits)
  BY DEF W!Byte, W!Word, W!Bit, Byte, Word, Bit
<1> QED BY <1>1, WidthAssumption DEF Writing, W!Writers

LEMMA BytesAre ==
    ASSUME NEW data \in Seq(Byte), NEW j \in 1 .. Len(data)
    PROVE  data[j] \in [0 .. 7 -> {0, 1}]
<1>1. data[j] \in Byte /\ 8 - 1 = 7
  OBVIOUS
<1> QED BY <1>1 DEF Byte, Word, Bit

---------------------------------------------------------------------------
\* Refill, MSB first.

LEMMA RefillRest ==
    ASSUME NEW b, Reading(b)
    PROVE  LET k == R!bytes_to_load(b) IN
           /\ k \in Nat
           /\ k <= Len(b.buffer) - b.byte_pos
           /\ has_room(b) /\ b.byte_pos < Len(b.buffer) => k > 0
           /\ ~ has_room(b) \/ b.byte_pos >= Len(b.buffer) => k = 0
           /\ b.bits_in_cache + 8 * k <= CacheBits
<1> DEFINE L == Len(b.buffer)  p == b.byte_pos  n == b.bits_in_cache
           k == R!bytes_to_load(b)
<1>1. /\ L \in Nat /\ p \in Nat /\ p <= L /\ n \in Nat /\ n <= CacheBits
      /\ CacheBits \in Nat
  BY ReaderFields
<1>2. k = IF (CacheBits - n) \div 8 <= L - p THEN (CacheBits - n) \div 8
                                             ELSE L - p
  BY DEF R!bytes_to_load, R!MinOf
<1>3. has_room(b) <=> n <= CacheBits - 8
  BY DEF has_room
<1> HIDE DEF L, p, n, k
<1>4. /\ k \in Nat /\ k <= L - p
      /\ n <= CacheBits - 8 /\ p < L => k > 0
      /\ ~ (n <= CacheBits - 8) \/ p >= L => k = 0
      /\ n + 8 * k <= CacheBits
  <2>1. /\ (CacheBits - n) \div 8 \in Nat
        /\ 8 * ((CacheBits - n) \div 8) <= CacheBits - n
        /\ n <= CacheBits - 8 <=> (CacheBits - n) \div 8 > 0
    BY <1>1
  <2> QED BY <2>1, <1>1, <1>2
<1> QED BY <1>3, <1>4 DEF L, p, n, k

\* The rest of the loop after an iteration is one byte shorter.
LEMMA LoadRest ==
    ASSUME NEW b, Reading(b), has_room(b), b.byte_pos < Len(b.buffer),
           NEW c, Reading(c), c.buffer = b.buffer,
           c.byte_pos = b.byte_pos + 1, c.bits_in_cache = b.bits_in_cache + 8
    PROVE  R!bytes_to_load(c) = R!bytes_to_load(b) - 1
<1> DEFINE L == Len(b.buffer)  p == b.byte_pos  n == b.bits_in_cache
<1>1. /\ L \in Nat /\ p \in Nat /\ p < L /\ n \in Nat /\ n <= CacheBits
      /\ CacheBits \in Nat /\ n <= CacheBits - 8
  BY ReaderFields DEF has_room
<1>2. /\ R!bytes_to_load(b)
           = IF (CacheBits - n) \div 8 <= L - p THEN (CacheBits - n) \div 8
                                                ELSE L - p
      /\ R!bytes_to_load(c)
           = IF (CacheBits - (n + 8)) \div 8 <= L - (p + 1)
             THEN (CacheBits - (n + 8)) \div 8 ELSE L - (p + 1)
  BY DEF R!bytes_to_load, R!MinOf
<1> HIDE DEF L, p, n
<1>3. (CacheBits - (n + 8)) \div 8 = ((CacheBits - n) \div 8) - 1
      /\ (CacheBits - n) \div 8 \in Nat
  BY <1>1
<1> QED BY <1>1, <1>2, <1>3

LEMMA Loaded ==
    ASSUME NEW b, Reading(b), has_room(b), b.byte_pos < Len(b.buffer)
    PROVE  LET c == load(b) IN
           /\ Reading(c)
           /\ c.buffer = b.buffer /\ c.byte_pos = b.byte_pos + 1
           /\ c.bits_in_cache = b.bits_in_cache + 8
           /\ \A i \in 0 .. CacheBits - 1 :
                c.bit_cache[i] = IF i < 8 THEN b.buffer[b.byte_pos + 1][i]
                                          ELSE b.bit_cache[i - 8]
<1> DEFINE x == b.bit_cache  y == next_byte(b)  s == Shl(x, 8)
           cache == Or(s, y)  c == load(b)
<1>1. /\ b.buffer \in Seq(Byte) /\ Len(b.buffer) \in Nat /\ b.byte_pos \in Nat
      /\ x \in [0 .. CacheBits - 1 -> {0, 1}] /\ b.bits_in_cache \in Nat
      /\ CacheBits \in Nat /\ CacheBits >= 15
      /\ b.bits_in_cache + 8 <= CacheBits
  BY ReaderFields DEF has_room, Word, Bit
<1>2. y = b.buffer[b.byte_pos + 1] /\ y \in [0 .. 7 -> {0, 1}]
  <2>1. b.byte_pos + 1 \in 1 .. Len(b.buffer)
    BY <1>1
  <2> QED BY <2>1, <1>1, BytesAre DEF next_byte
<1> HIDE DEF x, y
<1>3. s = [i \in 0 .. CacheBits - 1 |-> IF i < 8 THEN 0 ELSE x[i - 8]]
  BY <1>1 DEF Shl
<1>4. DOMAIN s = 0 .. CacheBits - 1
  BY <1>3
<1> HIDE DEF s
<1>5. cache = [i \in 0 .. CacheBits - 1 |->
                 IF s[i] = 1 THEN 1 ELSE IF i \in 0 .. 7 THEN y[i] ELSE 0]
  BY <1>2, <1>4 DEF Or
<1> HIDE DEF cache
<1>6. \A i \in 0 .. CacheBits - 1 :
        /\ cache[i] = IF i < 8 THEN y[i] ELSE x[i - 8]
        /\ cache[i] \in {0, 1}
  <2> TAKE i \in 0 .. CacheBits - 1
  <2>1. CASE i < 8
    <3>1. i \in 0 .. 7 /\ s[i] = 0
      BY <2>1, <1>3
    <3>2. cache[i] = y[i]
      BY <3>1, <1>5
    <3>3. y[i] \in {0, 1}
      BY <3>1, <1>2
    <3> QED BY <2>1, <3>2, <3>3
  <2>2. CASE ~ (i < 8)
    <3>1. i - 8 \in 0 .. CacheBits - 1 /\ i \notin 0 .. 7
      BY <2>2, <1>1
    <3>2. s[i] = x[i - 8] /\ x[i - 8] \in {0, 1}
      BY <3>1, <2>2, <1>1, <1>3
    <3> QED BY <3>1, <3>2, <2>2, <1>5
  <2> QED BY <2>1, <2>2
<1>7. cache \in R!Word(CacheBits)
  BY <1>5, <1>6 DEF R!Word, R!Bit
<1>8. /\ c.buffer = b.buffer /\ c.byte_pos = b.byte_pos + 1
      /\ c.bit_cache = cache /\ c.bits_in_cache = b.bits_in_cache + 8
      /\ c \in R!Readers
  <2>1. b \in R!Readers
    BY DEF Reading
  <2>2. c = [b EXCEPT !.bit_cache = cache,
                      !.bits_in_cache = b.bits_in_cache + 8,
                      !.byte_pos = b.byte_pos + 1]
    BY DEF load, cache, s, x, y
  <2>3. b.bits_in_cache + 8 \in 0 .. CacheBits /\ b.byte_pos + 1 \in Nat
    BY <1>1
  <2> HIDE DEF c
  <2> QED BY <2>1, <2>2, <2>3, <1>7 DEF R!Readers
<1> HIDE DEF c
<1>9. Reading(c)
  BY <1>1, <1>8 DEF Reading
<1> QED BY <1>2, <1>6, <1>8, <1>9 DEF c, x

LEMMA LoadKeepsRefill ==
    ASSUME NEW b, Reading(b), has_room(b), b.byte_pos < Len(b.buffer)
    PROVE  R!refill(load(b)) = R!refill(b)
<1> DEFINE c == load(b)  k == R!bytes_to_load(b)
           p == b.byte_pos  n == b.bits_in_cache  x == b.bit_cache  z == c.bit_cache
           before == [i \in 0 .. CacheBits - 1 |->
                        IF i < 8 * k THEN b.buffer[(p + k) - (i \div 8)][i % 8]
                                     ELSE x[i - 8 * k]]
           after == [i \in 0 .. CacheBits - 1 |->
                       IF i < 8 * (k - 1)
                       THEN b.buffer[((p + 1) + (k - 1)) - (i \div 8)][i % 8]
                       ELSE z[i - 8 * (k - 1)]]
<1>1. /\ Reading(c) /\ c.buffer = b.buffer /\ c.byte_pos = p + 1
      /\ c.bits_in_cache = n + 8
      /\ \A i \in 0 .. CacheBits - 1 :
           z[i] = IF i < 8 THEN b.buffer[p + 1][i] ELSE x[i - 8]
  BY Loaded
<1>2. R!bytes_to_load(c) = k - 1 /\ k \in Nat /\ k > 0
  BY <1>1, LoadRest, RefillRest
<1>3. p \in Nat /\ n \in Nat /\ CacheBits \in Nat
  BY ReaderFields
<1>4. R!refill(b) = [buffer |-> b.buffer, byte_pos |-> p + k,
                     bit_cache |-> before, bits_in_cache |-> n + 8 * k]
  BY DEF R!refill
<1>5. R!refill(c) = [buffer |-> b.buffer, byte_pos |-> (p + 1) + (k - 1),
                     bit_cache |-> after,
                     bits_in_cache |-> (n + 8) + 8 * (k - 1)]
  BY <1>1, <1>2 DEF R!refill
<1> HIDE DEF c, k, p, n, x, z
<1>6. /\ (p + 1) + (k - 1) = p + k
      /\ (n + 8) + 8 * (k - 1) = n + 8 * k
  BY <1>2, <1>3
<1>7. after = before
  <2> SUFFICES ASSUME NEW i \in 0 .. CacheBits - 1
               PROVE  after[i] = before[i]
    OBVIOUS
  <2>1. CASE i < 8 * (k - 1)
    <3>1. i < 8 * k
      BY <2>1, <1>2
    <3> QED BY <3>1, <2>1, <1>6
  <2>2. CASE ~ (i < 8 * (k - 1)) /\ i < 8 * k
    <3>1. i - 8 * (k - 1) \in 0 .. 7 /\ i \div 8 = k - 1 /\ i % 8 = i - 8 * (k - 1)
      BY <2>2, <1>2
    <3>2. (p + k) - (i \div 8) = p + 1
      BY <3>1, <1>2, <1>3
    <3>3. i - 8 * (k - 1) \in 0 .. CacheBits - 1 /\ i - 8 * (k - 1) < 8
      BY <3>1, <2>2, <1>2, <1>3
    <3>4. z[i - 8 * (k - 1)] = b.buffer[p + 1][i - 8 * (k - 1)]
      BY <3>3, <1>1
    <3>5. /\ after[i] = z[i - 8 * (k - 1)]
          /\ before[i] = b.buffer[(p + k) - (i \div 8)][i % 8]
      BY <2>2
    <3> QED BY <3>1, <3>2, <3>4, <3>5
  <2>3. CASE ~ (i < 8 * k)
    <3>1. /\ ~ (i < 8 * (k - 1)) /\ i - 8 * (k - 1) \in 0 .. CacheBits - 1
          /\ ~ (i - 8 * (k - 1) < 8) /\ (i - 8 * (k - 1)) - 8 = i - 8 * k
      BY <2>3, <1>2, <1>3
    <3>2. z[i - 8 * (k - 1)] = x[(i - 8 * (k - 1)) - 8]
      BY <3>1, <1>1
    <3>3. after[i] = z[i - 8 * (k - 1)] /\ before[i] = x[i - 8 * k]
      BY <3>1, <2>3
    <3> QED BY <3>1, <3>2, <3>3
  <2> QED BY <2>1, <2>2, <2>3
<1> HIDE DEF before, after
<1> QED BY <1>4, <1>5, <1>6, <1>7 DEF c

\* A loop that is left has nothing to do.
LEMMA NothingToLoad ==
    ASSUME NEW b, Reading(b), ~ has_room(b) \/ b.byte_pos >= Len(b.buffer)
    PROVE  R!refill(b) = b /\ R!refill_lsb(b) = b
<1> DEFINE x == b.bit_cache  p == b.byte_pos  n == b.bits_in_cache
           zeros == [i \in 0 .. CacheBits - 1 |->
                       IF n <= i /\ i < n + 8 * 0
                       THEN b.buffer[p + 1 + ((i - n) \div 8)][(i - n) % 8]
                       ELSE 0]
<1>1. /\ b = [buffer |-> b.buffer, byte_pos |-> p, bit_cache |-> x,
              bits_in_cache |-> n]
      /\ x \in [0 .. CacheBits - 1 -> {0, 1}] /\ p \in Nat /\ n \in Nat
      /\ CacheBits \in Nat
  BY ReaderFields DEF Word, Bit
<1>2. R!bytes_to_load(b) = 0
  BY RefillRest
<1>3. R!refill(b) = [buffer |-> b.buffer, byte_pos |-> p + 0,
                     bit_cache |-> [i \in 0 .. CacheBits - 1 |->
                        IF i < 8 * 0 THEN b.buffer[(p + 0) - (i \div 8)][i % 8]
                                     ELSE x[i - 8 * 0]],
                     bits_in_cache |-> n + 8 * 0]
  BY <1>2 DEF R!refill
<1>4. R!refill_lsb(b) = [buffer |-> b.buffer, byte_pos |-> p + 0,
                         bit_cache |-> R!Or(x, zeros),
                         bits_in_cache |-> n + 8 * 0]
  BY <1>2 DEF R!refill_lsb
<1> HIDE DEF x, p, n
<1>5. [i \in 0 .. CacheBits - 1 |->
         IF i < 8 * 0 THEN b.buffer[(p + 0) - (i \div 8)][i % 8]
                      ELSE x[i - 8 * 0]] = x
  <2>1. \A i \in 0 .. CacheBits - 1 : ~ (i < 8 * 0) /\ i - 8 * 0 = i
    BY <1>1
  <2> QED BY <2>1, <1>1
<1>6. zeros = [i \in 0 .. CacheBits - 1 |-> 0]
  <2>1. \A i \in 0 .. CacheBits - 1 : ~ (n <= i /\ i < n + 8 * 0)
    BY <1>1
  <2> QED BY <2>1
<1> HIDE DEF zeros
<1>7. R!Or(x, zeros) = x
  <2>1. R!Or(x, zeros) = [i \in 0 .. CacheBits - 1 |-> IF x[i] = 1 THEN 1 ELSE 0]
    BY <1>1, <1>6 DEF R!Or
  <2> QED BY <2>1, <1>1
<1>8. p + 0 = p /\ n + 8 * 0 = n
  BY <1>1
<1>9. R!refill(b) = b
  BY <1>1, <1>3, <1>5, <1>8, Zenon
<1>10. R!refill_lsb(b) = b
  BY <1>1, <1>4, <1>7, <1>8, Zenon
<1> QED BY <1>9, <1>10

---------------------------------------------------------------------------
\* Refill, LSB first.

LEMMA LoadedLsb ==
    ASSUME NEW b, Reading(b), has_room(b), b.byte_pos < Len(b.buffer)
    PROVE  LET c == load_lsb(b)  n == b.bits_in_cache IN
           /\ Reading(c)
           /\ c.buffer = b.buffer /\ c.byte_pos = b.byte_pos + 1
           /\ c.bits_in_cache = n + 8
           /\ \A i \in 0 .. CacheBits - 1 :
                c.bit_cache[i] =
                    IF b.bit_cache[i] = 1 THEN 1
                    ELSE IF n <= i /\ i < n + 8
                    THEN b.buffer[b.byte_pos + 1][i - n] ELSE 0
<1> DEFINE x == b.bit_cache  y == next_byte(b)  n == b.bits_in_cache
           w == Cast(y, CacheBits)  s == Shl(w, n)
           cache == Or(x, s)  c == load_lsb(b)
<1>1. /\ b.buffer \in Seq(Byte) /\ Len(b.buffer) \in Nat /\ b.byte_pos \in Nat
      /\ x \in [0 .. CacheBits - 1 -> {0, 1}] /\ n \in Nat
      /\ CacheBits \in Nat /\ CacheBits >= 15
      /\ n + 8 <= CacheBits
  BY ReaderFields DEF has_room, Word, Bit
<1>2. y = b.buffer[b.byte_pos + 1] /\ y \in [0 .. 7 -> {0, 1}]
  <2>1. b.byte_pos + 1 \in 1 .. Len(b.buffer)
    BY <1>1
  <2> QED BY <2>1, <1>1, BytesAre DEF next_byte
<1>3. b \in R!Readers
  BY DEF Reading
<1>4. c = [b EXCEPT !.bit_cache = cache, !.bits_in_cache = n + 8,
                    !.byte_pos = b.byte_pos + 1]
  BY DEF load_lsb
<1> HIDE DEF x, y, n, c
<1>5. /\ w = [i \in 0 .. CacheBits - 1 |-> IF i \in 0 .. 7 THEN y[i] ELSE 0]
      /\ DOMAIN w = 0 .. CacheBits - 1
  BY <1>2 DEF Cast
<1> HIDE DEF w
<1>6. /\ s = [i \in 0 .. CacheBits - 1 |-> IF i < n THEN 0 ELSE w[i - n]]
      /\ DOMAIN s = 0 .. CacheBits - 1
  BY <1>5 DEF Shl
<1> HIDE DEF s
<1>7. cache = [i \in 0 .. CacheBits - 1 |-> IF x[i] = 1 THEN 1 ELSE s[i]]
  BY <1>1, <1>6 DEF Or
<1> HIDE DEF cache
<1>8. ASSUME NEW i \in 0 .. CacheBits - 1
      PROVE  /\ s[i] = IF n <= i /\ i < n + 8 THEN y[i - n] ELSE 0
             /\ s[i] \in {0, 1}
  <2>1. CASE i < n
    BY <2>1, <1>1, <1>6
  <2>2. CASE ~ (i < n)
    <3>1. i - n \in 0 .. CacheBits - 1 /\ (i < n + 8 <=> i - n \in 0 .. 7) /\ n <= i
      BY <2>2, <1>1
    <3>2. s[i] = w[i - n]
      BY <2>2, <1>6
    <3>3. w[i - n] = IF i - n \in 0 .. 7 THEN y[i - n] ELSE 0
      BY <3>1, <1>5
    <3>4. i - n \in 0 .. 7 => y[i - n] \in {0, 1}
      BY <1>2
    <3> QED BY <3>1, <3>2, <3>3, <3>4
  <2> QED BY <2>1, <2>2
<1>9. cache \in R!Word(CacheBits)
  <2>1. \A i \in 0 .. CacheBits - 1 : cache[i] \in {0, 1}
    BY <1>1, <1>7, <1>8
  <2> QED BY <2>1, <1>7 DEF R!Word, R!Bit
<1>10. /\ c.buffer = b.buffer /\ c.byte_pos = b.byte_pos + 1
       /\ c.bit_cache = cache /\ c.bits_in_cache = n + 8
       /\ c \in R!Readers
  <2>1. n + 8 \in 0 .. CacheBits /\ b.byte_pos + 1 \in Nat
    BY <1>1
  <2> QED BY <2>1, <1>3, <1>4, <1>9 DEF R!Readers
<1>11. Reading(c)
  BY <1>1, <1>10 DEF Reading
<1>12. \A i \in 0 .. CacheBits - 1 :
         cache[i] = IF x[i] = 1 THEN 1
                    ELSE IF n <= i /\ i < n + 8 THEN y[i - n] ELSE 0
  BY <1>7, <1>8
<1> QED BY <1>2, <1>10, <1>11, <1>12 DEF c, x, n

LEMMA LoadKeepsRefillLsb ==
    ASSUME NEW b, Reading(b), has_room(b), b.byte_pos < Len(b.buffer)
    PROVE  R!refill_lsb(load_lsb(b)) = R!refill_lsb(b)
<1> DEFINE c == load_lsb(b)  k == R!bytes_to_load(b)
           p == b.byte_pos  n == b.bits_in_cache  x == b.bit_cache  z == c.bit_cache
           now == [i \in 0 .. CacheBits - 1 |->
                     IF n <= i /\ i < n + 8 * k
                     THEN b.buffer[p + 1 + ((i - n) \div 8)][(i - n) % 8]
                     ELSE 0]
           next == [i \in 0 .. CacheBits - 1 |->
                      IF n + 8 <= i /\ i < n + 8 + 8 * (k - 1)
                      THEN b.buffer[p + 1 + 1 + ((i - (n + 8)) \div 8)]
                                   [(i - (n + 8)) % 8]
                      ELSE 0]
<1>1. /\ Reading(c) /\ c.buffer = b.buffer /\ c.byte_pos = p + 1
      /\ c.bits_in_cache = n + 8
      /\ \A i \in 0 .. CacheBits - 1 :
           z[i] = IF x[i] = 1 THEN 1
                  ELSE IF n <= i /\ i < n + 8 THEN b.buffer[p + 1][i - n] ELSE 0
  BY LoadedLsb
<1>2. R!bytes_to_load(c) = k - 1 /\ k \in Nat /\ k > 0
  BY <1>1, LoadRest, RefillRest
<1>3. /\ p \in Nat /\ n \in Nat /\ CacheBits \in Nat
      /\ x \in [0 .. CacheBits - 1 -> {0, 1}]
      /\ z \in [0 .. CacheBits - 1 -> {0, 1}]
  BY <1>1, ReaderFields DEF Word, Bit
<1>4. R!refill_lsb(b) = [buffer |-> b.buffer, byte_pos |-> p + k,
                         bit_cache |-> R!Or(x, now),
                         bits_in_cache |-> n + 8 * k]
  BY DEF R!refill_lsb
<1>5. R!refill_lsb(c) = [buffer |-> b.buffer, byte_pos |-> (p + 1) + (k - 1),
                         bit_cache |-> R!Or(z, next),
                         bits_in_cache |-> (n + 8) + 8 * (k - 1)]
  BY <1>1, <1>2 DEF R!refill_lsb
<1>6. p + 1 \in 1 .. Len(b.buffer) /\ b.buffer \in Seq(Byte)
  BY ReaderFields
<1>7. b.buffer[p + 1] \in [0 .. 7 -> {0, 1}]
  BY <1>6, BytesAre
<1> HIDE DEF c, k, p, n, x, z
<1>8. /\ (p + 1) + (k - 1) = p + k
      /\ (n + 8) + 8 * (k - 1) = n + 8 * k
  BY <1>2, <1>3
<1>9. /\ R!Or(x, now) = [i \in 0 .. CacheBits - 1 |->
                           IF x[i] = 1 THEN 1 ELSE now[i]]
      /\ R!Or(z, next) = [i \in 0 .. CacheBits - 1 |->
                            IF z[i] = 1 THEN 1 ELSE next[i]]
  BY <1>3 DEF R!Or
<1>10. ASSUME NEW i \in 0 .. CacheBits - 1
       PROVE  (IF z[i] = 1 THEN 1 ELSE next[i])
                = (IF x[i] = 1 THEN 1 ELSE now[i])
  <2>1. z[i] = IF x[i] = 1 THEN 1
               ELSE IF n <= i /\ i < n + 8 THEN b.buffer[p + 1][i - n] ELSE 0
    BY <1>1
  <2>2. CASE x[i] = 1
    BY <2>1, <2>2
  <2>3. CASE x[i] # 1 /\ n <= i /\ i < n + 8
    <3>1. /\ i - n \in 0 .. 7 /\ (i - n) \div 8 = 0 /\ (i - n) % 8 = i - n
          /\ i < n + 8 * k /\ ~ (n + 8 <= i) /\ p + 1 + 0 = p + 1
      BY <2>3, <1>2, <1>3
    <3>2. now[i] = b.buffer[p + 1][i - n] /\ next[i] = 0
      BY <3>1, <2>3
    <3>3. b.buffer[p + 1][i - n] \in {0, 1}
      BY <3>1, <1>7
    <3> QED BY <2>1, <2>3, <3>2, <3>3
  <2>4. CASE x[i] # 1 /\ ~ (n <= i /\ i < n + 8)
    <3>1. z[i] = 0
      BY <2>1, <2>4
    <3>2. CASE n + 8 <= i /\ i < n + 8 * k
      <4>1. /\ (i - (n + 8)) \div 8 = ((i - n) \div 8) - 1
            /\ (i - (n + 8)) % 8 = (i - n) % 8
            /\ (i - n) \div 8 \in Nat
            /\ i < n + 8 + 8 * (k - 1) /\ n <= i
        BY <3>2, <1>2, <1>3
      <4>2. p + 1 + 1 + (((i - n) \div 8) - 1) = p + 1 + ((i - n) \div 8)
        BY <4>1, <1>3
      <4>3. /\ now[i] = b.buffer[p + 1 + ((i - n) \div 8)][(i - n) % 8]
            /\ next[i] = b.buffer[p + 1 + 1 + ((i - (n + 8)) \div 8)]
                                 [(i - (n + 8)) % 8]
        BY <3>2, <4>1
      <4>4. next[i] = now[i]
        BY <4>1, <4>2, <4>3
      <4> QED BY <4>4, <3>1, <2>4
    <3>3. CASE ~ (n + 8 <= i /\ i < n + 8 * k)
      <4>1. /\ ~ (n + 8 <= i /\ i < n + 8 + 8 * (k - 1))
            /\ ~ (n <= i /\ i < n + 8 * k)
        BY <3>3, <2>4, <1>2, <1>3
      <4>2. next[i] = 0 /\ now[i] = 0
        BY <4>1
      <4> QED BY <4>2, <3>1, <2>4
    <3> QED BY <3>2, <3>3
  <2> QED BY <2>2, <2>3, <2>4
<1> HIDE DEF now, next
<1>11. R!Or(z, next) = R!Or(x, now)
  BY <1>9, <1>10
<1> QED BY <1>4, <1>5, <1>8, <1>11 DEF c

---------------------------------------------------------------------------
\* Dump, both orders.

LEMMA DumpRest ==
    ASSUME NEW b, Writing(b)
    PROVE  LET k == W!bytes_to_dump(b) IN
           /\ k \in Nat
           /\ k <= Len(b.buffer) - b.byte_pos
           /\ 8 * k <= b.bits_in_cache
           /\ b.bits_in_cache >= 8 /\ b.byte_pos < Len(b.buffer) => k > 0
           /\ b.bits_in_cache < 8 \/ b.byte_pos >= Len(b.buffer) => k = 0
<1> DEFINE L == Len(b.buffer)  p == b.byte_pos  n == b.bits_in_cache
           k == W!bytes_to_dump(b)
<1>1. L \in Nat /\ p \in Nat /\ p <= L /\ n \in Nat
  BY WriterFields
<1>2. k = IF n \div 8 <= L - p THEN n \div 8 ELSE L - p
  BY DEF W!bytes_to_dump, W!MinOf
<1> HIDE DEF L, p, n, k
<1>3. n \div 8 \in Nat /\ 8 * (n \div 8) <= n /\ (n >= 8 <=> n \div 8 > 0)
  BY <1>1
<1>4. /\ k \in Nat /\ k <= L - p /\ 8 * k <= n
      /\ n >= 8 /\ p < L => k > 0
      /\ n < 8 \/ p >= L => k = 0
  BY <1>1, <1>2, <1>3
<1> QED BY <1>4 DEF L, p, n, k

\* The rest of the loop after an iteration is one byte shorter.
LEMMA PutRest ==
    ASSUME NEW b, Writing(b), b.bits_in_cache >= 8,
           b.byte_pos < Len(b.buffer), NEW c, Len(c.buffer) = Len(b.buffer),
           c.byte_pos = b.byte_pos + 1, c.bits_in_cache = b.bits_in_cache - 8
    PROVE  W!bytes_to_dump(c) = W!bytes_to_dump(b) - 1
<1> DEFINE L == Len(b.buffer)  p == b.byte_pos  n == b.bits_in_cache
<1>1. /\ L \in Nat /\ p \in Nat /\ p < L /\ n \in Nat /\ n >= 8
  BY WriterFields
<1>2. /\ W!bytes_to_dump(b) = IF n \div 8 <= L - p THEN n \div 8 ELSE L - p
      /\ W!bytes_to_dump(c) = IF (n - 8) \div 8 <= L - (p + 1)
                              THEN (n - 8) \div 8 ELSE L - (p + 1)
  BY DEF W!bytes_to_dump, W!MinOf
<1> HIDE DEF L, p, n
<1>3. (n - 8) \div 8 = (n \div 8) - 1 /\ n \div 8 \in Nat
  BY <1>1
<1> QED BY <1>1, <1>2, <1>3

\* One iteration, whatever byte it stores and cache it leaves.
After(b, byte, cache) ==
    [buffer |-> [b.buffer EXCEPT ![b.byte_pos + 1] = byte],
     byte_pos |-> b.byte_pos + 1, bit_cache |-> cache,
     bits_in_cache |-> b.bits_in_cache - 8, overflow |-> b.overflow]

LEMMA AfterWrites ==
    ASSUME NEW b, Writing(b), b.bits_in_cache >= 8,
           b.byte_pos < Len(b.buffer),
           NEW byte \in Byte, NEW cache \in Word(CacheBits)
    PROVE  LET c == After(b, byte, cache) IN
           /\ Writing(c)
           /\ Len(c.buffer) = Len(b.buffer)
           /\ \A j \in 1 .. Len(b.buffer) :
                c.buffer[j] = IF j = b.byte_pos + 1 THEN byte ELSE b.buffer[j]
           /\ c.byte_pos = b.byte_pos + 1 /\ c.bit_cache = cache
           /\ c.bits_in_cache = b.bits_in_cache - 8
           /\ c.overflow = b.overflow
<1> DEFINE c == After(b, byte, cache)
           data == [b.buffer EXCEPT ![b.byte_pos + 1] = byte]
<1>1. /\ b.buffer \in Seq(Byte) /\ Len(b.buffer) \in Nat
      /\ b.byte_pos \in Nat /\ b.bits_in_cache \in Nat
      /\ b.bits_in_cache < CountMod /\ b.bits_in_cache <= CacheBits
      /\ b.overflow \in BOOLEAN /\ CountMod \in Nat /\ CacheBits \in Nat
  BY WriterFields
<1>2. b.byte_pos + 1 \in 1 .. Len(b.buffer)
  BY <1>1
<1>3. /\ data \in Seq(Byte) /\ Len(data) = Len(b.buffer)
      /\ \A j \in 1 .. Len(b.buffer) :
           data[j] = IF j = b.byte_pos + 1 THEN byte ELSE b.buffer[j]
  BY <1>1, <1>2
<1>4. /\ c.buffer = data /\ c.byte_pos = b.byte_pos + 1 /\ c.bit_cache = cache
      /\ c.bits_in_cache = b.bits_in_cache - 8 /\ c.overflow = b.overflow
      /\ c = [buffer |-> data, byte_pos |-> b.byte_pos + 1,
              bit_cache |-> cache, bits_in_cache |-> b.bits_in_cache - 8,
              overflow |-> b.overflow]
  BY Zenon DEF After
<1> HIDE DEF data, c
<1>5. c \in W!Writers
  <2>1. W!Byte = Byte /\ W!Word(CacheBits) = Word(CacheBits)
    BY DEF W!Byte, W!Word, W!Bit, Byte, Word, Bit
  <2>2. /\ b.bits_in_cache - 8 \in 0 .. CountMod - 1
        /\ b.byte_pos + 1 \in Nat
    BY <1>1
  <2> QED BY <2>1, <2>2, <1>1, <1>3, <1>4 DEF W!Writers
<1>6. Writing(c)
  BY <1>1, <1>2, <1>3, <1>4, <1>5 DEF Writing
<1> QED BY <1>3, <1>4, <1>6 DEF c

\* Storing the first of k bytes and then the others is storing the k bytes.
LEMMA StoreRest ==
    ASSUME NEW b, Writing(b), NEW k \in Nat, k > 0,
           b.byte_pos + k <= Len(b.buffer), NEW c,
           Len(c.buffer) = Len(b.buffer), c.byte_pos = b.byte_pos + 1,
           NEW src, NEW rest,
           \A j \in 1 .. Len(b.buffer) :
               c.buffer[j] = IF j = b.byte_pos + 1 THEN src[1] ELSE b.buffer[j],
           \A i \in 1 .. k - 1 : rest[i] = src[i + 1]
    PROVE  W!Store(c, k - 1, rest) = W!Store(b, k, src)
<1> DEFINE L == Len(b.buffer)  p == b.byte_pos
<1>1. L \in Nat /\ p \in Nat /\ p + k <= L
  BY WriterFields
<1>2. W!Store(b, k, src) = [j \in 1 .. L |-> IF p < j /\ j <= p + k
                                             THEN src[j - p] ELSE b.buffer[j]]
  BY DEF W!Store
<1>3. W!Store(c, k - 1, rest)
        = [j \in 1 .. L |-> IF p + 1 < j /\ j <= p + 1 + (k - 1)
                            THEN rest[j - (p + 1)] ELSE c.buffer[j]]
  BY DEF W!Store
<1> HIDE DEF L, p
<1>4. ASSUME NEW j \in 1 .. L
      PROVE  (IF p + 1 < j /\ j <= p + 1 + (k - 1)
              THEN rest[j - (p + 1)] ELSE c.buffer[j])
               = IF p < j /\ j <= p + k THEN src[j - p] ELSE b.buffer[j]
  <2>1. CASE p + 1 < j /\ j <= p + k
    <3>1. /\ j <= p + 1 + (k - 1) /\ j - (p + 1) \in 1 .. k - 1
          /\ (j - (p + 1)) + 1 = j - p /\ p < j
      BY <2>1, <1>1
    <3>2. rest[j - (p + 1)] = src[j - p]
      BY <3>1
    <3> QED BY <3>1, <3>2, <2>1
  <2>2. CASE j = p + 1
    <3>1. ~ (p + 1 < j) /\ p < j /\ j <= p + k /\ j - p = 1
      BY <2>2, <1>1
    <3>2. c.buffer[j] = src[1]
      BY <2>2 DEF L, p
    <3> QED BY <3>1, <3>2
  <2>3. CASE ~ (p + 1 < j /\ j <= p + k) /\ j # p + 1
    <3>1. /\ ~ (p + 1 < j /\ j <= p + 1 + (k - 1))
          /\ ~ (p < j /\ j <= p + k)
      BY <2>3, <1>1
    <3>2. c.buffer[j] = b.buffer[j]
      BY <2>3 DEF L, p
    <3> QED BY <3>1, <3>2
  <2> QED BY <2>1, <2>2, <2>3
<1> QED BY <1>2, <1>3, <1>4

LEMMA PutIsAfter ==
    ASSUME NEW b, Writing(b), NEW byte, NEW cache
    PROVE  /\ put(b, byte) = After(b, byte, b.bit_cache)
           /\ [put(b, byte) EXCEPT !.bit_cache = cache] = After(b, byte, cache)
<1> DEFINE data == [b.buffer EXCEPT ![b.byte_pos + 1] = byte]
<1>1. b = [buffer |-> b.buffer, byte_pos |-> b.byte_pos,
           bit_cache |-> b.bit_cache, bits_in_cache |-> b.bits_in_cache,
           overflow |-> b.overflow]
  BY WriterFields
<1>2. put(b, byte)
        = [[[b EXCEPT !.buffer = data] EXCEPT !.byte_pos = b.byte_pos + 1]
              EXCEPT !.bits_in_cache = b.bits_in_cache - 8]
  BY DEF put
<1> HIDE DEF data
<1>3. [b EXCEPT !.buffer = data]
        = [buffer |-> data, byte_pos |-> b.byte_pos,
           bit_cache |-> b.bit_cache, bits_in_cache |-> b.bits_in_cache,
           overflow |-> b.overflow]
  BY <1>1
<1>4. [[b EXCEPT !.buffer = data] EXCEPT !.byte_pos = b.byte_pos + 1]
        = [buffer |-> data, byte_pos |-> b.byte_pos + 1,
           bit_cache |-> b.bit_cache, bits_in_cache |-> b.bits_in_cache,
           overflow |-> b.overflow]
  <2>1. [[buffer |-> data, byte_pos |-> b.byte_pos,
          bit_cache |-> b.bit_cache, bits_in_cache |-> b.bits_in_cache,
          overflow |-> b.overflow] EXCEPT !.byte_pos = b.byte_pos + 1]
          = [buffer |-> data, byte_pos |-> b.byte_pos + 1,
             bit_cache |-> b.bit_cache, bits_in_cache |-> b.bits_in_cache,
             overflow |-> b.overflow]
    OBVIOUS
  <2> QED BY <2>1, <1>3, Zenon
<1>5. put(b, byte) = [buffer |-> data, byte_pos |-> b.byte_pos + 1,
                      bit_cache |-> b.bit_cache,
                      bits_in_cache |-> b.bits_in_cache - 8,
                      overflow |-> b.overflow]
  BY <1>2, <1>4
<1>6. [put(b, byte) EXCEPT !.bit_cache = cache]
        = [buffer |-> data, byte_pos |-> b.byte_pos + 1,
           bit_cache |-> cache, bits_in_cache |-> b.bits_in_cache - 8,
           overflow |-> b.overflow]
  BY <1>5
<1> QED BY <1>5, <1>6, Zenon DEF After, data

---------------------------------------------------------------------------
\* Dump, MSB first.

LEMMA PutKeepsDump ==
    ASSUME NEW b, Writing(b), b.bits_in_cache >= 8,
           b.byte_pos < Len(b.buffer)
    PROVE  LET c == put(b, top_byte(b)) IN
           /\ Writing(c)
           /\ \A ub \in W!Builds : W!dump(c, ub) = W!dump(b, ub)
<1> DEFINE x == b.bit_cache  n == b.bits_in_cache  p == b.byte_pos
           k == W!bytes_to_dump(b)  y == top_byte(b)  c == put(b, y)
           src == [i \in 1 .. k |-> W!dumped_byte(b, i)]
           rest == [i \in 1 .. k - 1 |-> W!dumped_byte(c, i)]
<1>1. /\ x \in [0 .. CacheBits - 1 -> {0, 1}] /\ n \in Nat /\ n >= 8
      /\ p \in Nat /\ Len(b.buffer) \in Nat /\ p < Len(b.buffer)
      /\ n <= CacheBits /\ CacheBits \in Nat /\ CacheBits >= 15
      /\ x \in Word(CacheBits)
  BY WriterFields DEF Word, Bit
<1>2. /\ k \in Nat /\ k > 0 /\ k <= Len(b.buffer) - p /\ 8 * k <= n
  BY DumpRest
<1>3. y = [m \in 0 .. 7 |-> x[n - 8 + m]] /\ y \in Byte
  <2> DEFINE s == Shr(x, n - 8)  t == Low(s, 8)
  <2>1. /\ s = [i \in 0 .. CacheBits - 1 |->
                  IF i + (n - 8) \in 0 .. CacheBits - 1
                  THEN x[i + (n - 8)] ELSE 0]
        /\ DOMAIN s = 0 .. CacheBits - 1
    BY <1>1 DEF Shr
  <2>2. y = Cast(t, 8)
    BY DEF top_byte
  <2> HIDE DEF s, x, n, y
  <2>3. /\ t = [i \in 0 .. CacheBits - 1 |-> IF i < 8 THEN s[i] ELSE 0]
        /\ DOMAIN t = 0 .. CacheBits - 1
    BY <2>1 DEF Low
  <2> HIDE DEF t
  <2>4. 8 - 1 = 7
    OBVIOUS
  <2>5. y = [m \in 0 .. 7 |-> IF m \in 0 .. CacheBits - 1 THEN t[m] ELSE 0]
    BY <2>2, <2>3, <2>4 DEF Cast
  <2>6. ASSUME NEW m \in 0 .. 7
        PROVE  /\ (IF m \in 0 .. CacheBits - 1 THEN t[m] ELSE 0) = x[n - 8 + m]
               /\ x[n - 8 + m] \in {0, 1}
    <3>1. /\ m \in 0 .. CacheBits - 1 /\ m < 8
          /\ m + (n - 8) \in 0 .. CacheBits - 1 /\ m + (n - 8) = n - 8 + m
      BY <1>1
    <3>2. t[m] = x[n - 8 + m]
      BY <3>1, <2>1, <2>3
    <3> QED BY <3>1, <3>2, <1>1
  <2>7. y = [m \in 0 .. 7 |-> x[n - 8 + m]]
    BY <2>5, <2>6
  <2>8. y \in [0 .. 7 -> {0, 1}]
    BY <2>6, <2>7
  <2> QED BY <2>4, <2>7, <2>8, Zenon DEF Byte, Word, Bit
<1>4. c = After(b, y, x)
  BY PutIsAfter
<1>5. /\ Writing(c) /\ Len(c.buffer) = Len(b.buffer)
      /\ \A j \in 1 .. Len(b.buffer) :
           c.buffer[j] = IF j = p + 1 THEN y ELSE b.buffer[j]
      /\ c.byte_pos = p + 1 /\ c.bit_cache = x /\ c.bits_in_cache = n - 8
      /\ c.overflow = b.overflow
  <2> HIDE DEF x, n, p, y, c
  <2>1. /\ n = b.bits_in_cache /\ p = b.byte_pos
        /\ y \in Byte /\ x \in Word(CacheBits)
    BY <1>1, <1>3 DEF n, p
  <2> QED BY <2>1, <1>1, <1>4, AfterWrites
<1> HIDE DEF c
<1>6. W!bytes_to_dump(c) = k - 1
  BY <1>5, PutRest
<1>7. (n - 8) - 8 * (k - 1) = n - 8 * k /\ (p + 1) + (k - 1) = p + k
  BY <1>1, <1>2
<1>8. src[1] = y
  <2>1. 1 \in 1 .. k /\ n - 8 * 1 = n - 8
    BY <1>1, <1>2
  <2>2. src[1] = [m \in 0 .. 7 |-> x[n - 8 * 1 + m]]
    BY <2>1 DEF W!dumped_byte
  <2> QED BY <2>1, <2>2, <1>3
<1>9. \A i \in 1 .. k - 1 : rest[i] = src[i + 1]
  <2> TAKE i \in 1 .. k - 1
  <2>1. i + 1 \in 1 .. k /\ n - 8 * (i + 1) = (n - 8) - 8 * i
    BY <1>1, <1>2
  <2>2. src[i + 1] = [m \in 0 .. 7 |-> x[n - 8 * (i + 1) + m]]
    BY <2>1 DEF W!dumped_byte
  <2>3. rest[i] = [m \in 0 .. 7 |-> x[(n - 8) - 8 * i + m]]
    BY <1>5 DEF W!dumped_byte
  <2> QED BY <2>1, <2>2, <2>3
<1> HIDE DEF src, rest, y
<1>10. W!Store(c, k - 1, rest) = W!Store(b, k, src)
  <2>1. p + k <= Len(b.buffer)
    BY <1>1, <1>2
  <2>2. \A j \in 1 .. Len(b.buffer) :
          c.buffer[j] = IF j = b.byte_pos + 1 THEN src[1] ELSE b.buffer[j]
    BY <1>5, <1>8
  <2>3. Len(c.buffer) = Len(b.buffer) /\ c.byte_pos = b.byte_pos + 1
    BY <1>5
  <2>4. k \in Nat /\ k > 0 /\ b.byte_pos + k <= Len(b.buffer)
    BY <2>1, <1>2
  <2> HIDE DEF x, n, p, k
  <2> QED BY <2>2, <2>3, <2>4, <1>9, StoreRest, SMTT(30)
<1>11. ASSUME NEW ub \in W!Builds
       PROVE  W!dump(c, ub) = W!dump(b, ub)
  <2>1. W!dump(b, ub)
          = [buffer |-> W!Store(b, k, src), byte_pos |-> p + k,
             bit_cache |-> W!masked(x, n - 8 * k, ub),
             bits_in_cache |-> n - 8 * k,
             overflow |-> W!overruns(b, n - 8 * k)]
    BY DEF W!dump, src
  <2>2. W!dump(c, ub)
          = [buffer |-> W!Store(c, k - 1, rest),
             byte_pos |-> (p + 1) + (k - 1),
             bit_cache |-> W!masked(x, (n - 8) - 8 * (k - 1), ub),
             bits_in_cache |-> (n - 8) - 8 * (k - 1),
             overflow |-> W!overruns(c, (n - 8) - 8 * (k - 1))]
    BY <1>5, <1>6 DEF W!dump, rest
  <2>3. W!overruns(c, n - 8 * k) = W!overruns(b, n - 8 * k)
    BY <1>5, Zenon DEF W!overruns
  <2> QED BY <2>1, <2>2, <2>3, <1>7, <1>10, Zenon
<1> QED BY <1>5, <1>11 DEF c, y

\* A loop that is left has nothing to store; the function reports and masks.
LEMMA NothingToDump ==
    ASSUME NEW b, Writing(b),
           b.bits_in_cache < 8 \/ b.byte_pos >= Len(b.buffer)
    PROVE  /\ \A ub \in W!Builds :
                W!dump(b, ub)
                  = [b EXCEPT !.overflow = @ \/ b.bits_in_cache >= 8,
                              !.bit_cache =
                                  Low(@, W!Shift(b.bits_in_cache, ub))]
           /\ W!dump_lsb(b) = [b EXCEPT !.overflow = @ \/ b.bits_in_cache >= 8,
                                        !.bit_cache = @]
<1> DEFINE x == b.bit_cache  n == b.bits_in_cache  p == b.byte_pos
           full == b.overflow \/ n >= 8
<1>1. /\ b = [buffer |-> b.buffer, byte_pos |-> p, bit_cache |-> x,
              bits_in_cache |-> n, overflow |-> b.overflow]
      /\ x \in [0 .. CacheBits - 1 -> {0, 1}] /\ p \in Nat /\ n \in Nat
      /\ b.buffer \in Seq(Byte) /\ Len(b.buffer) \in Nat /\ CacheBits \in Nat
  BY WriterFields DEF Word, Bit
<1>2. W!bytes_to_dump(b) = 0
  BY DumpRest
<1>3. n - 8 * 0 = n /\ p + 0 = p
  BY <1>1
<1>4. ASSUME NEW src PROVE W!Store(b, 0, src) = b.buffer
  <2>1. W!Store(b, 0, src)
          = [j \in 1 .. Len(b.buffer) |-> IF p < j /\ j <= p + 0
                                          THEN src[j - p] ELSE b.buffer[j]]
    BY DEF W!Store
  <2>2. \A j \in 1 .. Len(b.buffer) : ~ (p < j /\ j <= p + 0)
    BY <1>1
  <2>3. W!Store(b, 0, src) = [j \in 1 .. Len(b.buffer) |-> b.buffer[j]]
    BY <2>1, <2>2
  <2> QED BY <2>3, <1>1
<1>5. W!Shr(x, 8 * 0) = x
  <2>1. W!Shr(x, 8 * 0)
          = [i \in 0 .. CacheBits - 1 |->
               IF i + 8 * 0 \in 0 .. CacheBits - 1 THEN x[i + 8 * 0] ELSE 0]
    BY <1>1 DEF W!Shr
  <2>2. \A i \in 0 .. CacheBits - 1 : i + 8 * 0 = i
    OBVIOUS
  <2> QED BY <2>1, <2>2, <1>1, SMTT(30)
<1>6. W!overruns(b, n) = full
  BY DEF W!overruns
<1>7. ASSUME NEW cache
      PROVE  [b EXCEPT !.overflow = full, !.bit_cache = cache]
               = [buffer |-> b.buffer, byte_pos |-> p, bit_cache |-> cache,
                  bits_in_cache |-> n, overflow |-> full]
  <2> HIDE DEF x, n, p, full
  <2>1. [b EXCEPT !.overflow = full, !.bit_cache = cache]
          = [[b EXCEPT !.overflow = full] EXCEPT !.bit_cache = cache]
    OBVIOUS
  <2>2. [[buffer |-> b.buffer, byte_pos |-> p, bit_cache |-> x,
          bits_in_cache |-> n, overflow |-> b.overflow]
            EXCEPT !.overflow = full]
          = [buffer |-> b.buffer, byte_pos |-> p, bit_cache |-> x,
             bits_in_cache |-> n, overflow |-> full]
    OBVIOUS
  <2>3. [[buffer |-> b.buffer, byte_pos |-> p, bit_cache |-> x,
          bits_in_cache |-> n, overflow |-> full]
            EXCEPT !.bit_cache = cache]
          = [buffer |-> b.buffer, byte_pos |-> p, bit_cache |-> cache,
             bits_in_cache |-> n, overflow |-> full]
    OBVIOUS
  <2> QED BY <1>1, <2>1, <2>2, <2>3, Zenon
<1>8. ASSUME NEW ub \in W!Builds
      PROVE  W!dump(b, ub)
               = [b EXCEPT !.overflow = full, !.bit_cache = Low(x, W!Shift(n, ub))]
  <2> DEFINE src == [i \in 1 .. 0 |-> W!dumped_byte(b, i)]
  <2>1. W!dump(b, ub)
          = [buffer |-> W!Store(b, 0, src), byte_pos |-> p + 0,
             bit_cache |-> W!masked(x, n - 8 * 0, ub),
             bits_in_cache |-> n - 8 * 0,
             overflow |-> W!overruns(b, n - 8 * 0)]
    BY <1>2 DEF W!dump
  <2>2. W!masked(x, n, ub) = Low(x, W!Shift(n, ub))
    BY DEF W!masked, W!Low, Low
  <2> HIDE DEF src, x, n, p, full
  <2> QED BY <2>1, <2>2, <1>3, <1>4, <1>6, <1>7, Zenon
<1>9. W!dump_lsb(b) = [b EXCEPT !.overflow = full, !.bit_cache = x]
  <2> DEFINE src == [i \in 1 .. 0 |-> W!dumped_byte_lsb(b, i)]
  <2>1. W!dump_lsb(b)
          = [buffer |-> W!Store(b, 0, src), byte_pos |-> p + 0,
             bit_cache |-> W!Shr(x, 8 * 0),
             bits_in_cache |-> n - 8 * 0,
             overflow |-> W!overruns(b, n - 8 * 0)]
    BY <1>2 DEF W!dump_lsb
  <2> HIDE DEF src
  <2> QED BY <2>1, <1>3, <1>4, <1>5, <1>6, <1>7, Zenon
<1> QED BY <1>8, <1>9

---------------------------------------------------------------------------
\* Dump, LSB first.

LEMMA PutKeepsDumpLsb ==
    ASSUME NEW b, Writing(b), b.bits_in_cache >= 8,
           b.byte_pos < Len(b.buffer)
    PROVE  LET c == [put(b, bottom_byte(b)) EXCEPT !.bit_cache = Shr(@, 8)] IN
           Writing(c) /\ W!dump_lsb(c) = W!dump_lsb(b)
<1> DEFINE x == b.bit_cache  n == b.bits_in_cache  p == b.byte_pos
           k == W!bytes_to_dump(b)  y == bottom_byte(b)  z == Shr(x, 8)
           c == [put(b, y) EXCEPT !.bit_cache = Shr(@, 8)]
           src == [i \in 1 .. k |-> W!dumped_byte_lsb(b, i)]
           rest == [i \in 1 .. k - 1 |-> W!dumped_byte_lsb(c, i)]
<1>1. /\ x \in [0 .. CacheBits - 1 -> {0, 1}] /\ n \in Nat /\ n >= 8
      /\ p \in Nat /\ Len(b.buffer) \in Nat /\ p < Len(b.buffer)
      /\ n <= CacheBits /\ CacheBits \in Nat /\ CacheBits >= 15
  BY WriterFields DEF Word, Bit
<1>2. /\ k \in Nat /\ k > 0 /\ k <= Len(b.buffer) - p /\ 8 * k <= n
  BY DumpRest
<1>3. y = [m \in 0 .. 7 |-> x[m]] /\ y \in Byte
  <2> DEFINE t == Low(x, 8)
  <2>1. y = Cast(t, 8)
    BY DEF bottom_byte
  <2> HIDE DEF x, y
  <2>2. /\ t = [i \in 0 .. CacheBits - 1 |-> IF i < 8 THEN x[i] ELSE 0]
        /\ DOMAIN t = 0 .. CacheBits - 1
    BY <1>1 DEF Low
  <2> HIDE DEF t
  <2>3. 8 - 1 = 7
    OBVIOUS
  <2>4. y = [m \in 0 .. 7 |-> IF m \in 0 .. CacheBits - 1 THEN t[m] ELSE 0]
    BY <2>1, <2>2, <2>3 DEF Cast
  <2>5. ASSUME NEW m \in 0 .. 7
        PROVE  /\ (IF m \in 0 .. CacheBits - 1 THEN t[m] ELSE 0) = x[m]
               /\ x[m] \in {0, 1}
    <3>1. m \in 0 .. CacheBits - 1 /\ m < 8
      BY <1>1
    <3> QED BY <3>1, <2>2, <1>1
  <2>6. y = [m \in 0 .. 7 |-> x[m]] /\ y \in [0 .. 7 -> {0, 1}]
    BY <2>4, <2>5
  <2> QED BY <2>3, <2>6, Zenon DEF Byte, Word, Bit
<1>4. /\ z = [i \in 0 .. CacheBits - 1 |->
                IF i + 8 \in 0 .. CacheBits - 1 THEN x[i + 8] ELSE 0]
      /\ z \in Word(CacheBits)
  <2>1. z = [i \in 0 .. CacheBits - 1 |->
               IF i + 8 \in 0 .. CacheBits - 1 THEN x[i + 8] ELSE 0]
    BY <1>1 DEF Shr
  <2> HIDE DEF z
  <2> QED BY <2>1, <1>1 DEF Word, Bit
<1>5. c = After(b, y, z)
  <2>1. put(b, y) = After(b, y, x)
    BY PutIsAfter
  <2>2. put(b, y).bit_cache = x
    BY <2>1 DEF After
  <2>3. c = [put(b, y) EXCEPT !.bit_cache = z]
    BY <2>2
  <2>4. [put(b, y) EXCEPT !.bit_cache = z] = After(b, y, z)
    BY PutIsAfter
  <2> QED BY <2>3, <2>4, Zenon
<1>6. /\ Writing(c) /\ Len(c.buffer) = Len(b.buffer)
      /\ \A j \in 1 .. Len(b.buffer) :
           c.buffer[j] = IF j = p + 1 THEN y ELSE b.buffer[j]
      /\ c.byte_pos = p + 1 /\ c.bit_cache = z /\ c.bits_in_cache = n - 8
      /\ c.overflow = b.overflow
  <2> HIDE DEF x, n, p, y, z, c
  <2>1. /\ n = b.bits_in_cache /\ p = b.byte_pos
        /\ y \in Byte /\ z \in Word(CacheBits)
    BY <1>3, <1>4 DEF n, p
  <2> QED BY <2>1, <1>1, <1>5, AfterWrites
<1> HIDE DEF c, z
<1>7. W!bytes_to_dump(c) = k - 1
  BY <1>6, PutRest
<1>8. (n - 8) - 8 * (k - 1) = n - 8 * k /\ (p + 1) + (k - 1) = p + k
  BY <1>1, <1>2
<1>9. src[1] = y
  <2>1. 1 \in 1 .. k /\ \A m \in 0 .. 7 : 8 * (1 - 1) + m = m
    BY <1>1, <1>2
  <2>2. src[1] = [m \in 0 .. 7 |-> x[8 * (1 - 1) + m]]
    BY <2>1 DEF W!dumped_byte_lsb
  <2> QED BY <2>1, <2>2, <1>3
<1>10. \A i \in 1 .. k - 1 : rest[i] = src[i + 1]
  <2> TAKE i \in 1 .. k - 1
  <2>1. i + 1 \in 1 .. k
    BY <1>1, <1>2
  <2>2. src[i + 1] = [m \in 0 .. 7 |-> x[8 * ((i + 1) - 1) + m]]
    BY <2>1 DEF W!dumped_byte_lsb
  <2>3. rest[i] = [m \in 0 .. 7 |-> z[8 * (i - 1) + m]]
    BY <1>6 DEF W!dumped_byte_lsb
  <2> HIDE DEF src, rest, x, n, k
  <2>4. ASSUME NEW m \in 0 .. 7
        PROVE  z[8 * (i - 1) + m] = x[8 * ((i + 1) - 1) + m]
    <3>1. /\ 8 * (i - 1) + m \in 0 .. CacheBits - 1
          /\ (8 * (i - 1) + m) + 8 = 8 * ((i + 1) - 1) + m
          /\ 8 * ((i + 1) - 1) + m \in 0 .. CacheBits - 1
      BY <1>1, <1>2
    <3> QED BY <3>1, <1>4
  <2> QED BY <2>2, <2>3, <2>4
<1> HIDE DEF src, rest, y
<1>11. W!Store(c, k - 1, rest) = W!Store(b, k, src)
  <2>1. \A j \in 1 .. Len(b.buffer) :
          c.buffer[j] = IF j = b.byte_pos + 1 THEN src[1] ELSE b.buffer[j]
    BY <1>6, <1>9
  <2>2. Len(c.buffer) = Len(b.buffer) /\ c.byte_pos = b.byte_pos + 1
    BY <1>6
  <2>3. k \in Nat /\ k > 0 /\ b.byte_pos + k <= Len(b.buffer)
    BY <1>1, <1>2
  <2> HIDE DEF x, n, p, k
  <2> QED BY <2>1, <2>2, <2>3, <1>10, StoreRest, SMTT(30)
<1>12. W!Shr(z, 8 * (k - 1)) = W!Shr(x, 8 * k)
  <2> HIDE DEF x, n, p, k
  <2>1. DOMAIN z = 0 .. CacheBits - 1
    BY <1>4
  <2>2. /\ W!Shr(z, 8 * (k - 1))
             = [i \in 0 .. CacheBits - 1 |->
                  IF i + 8 * (k - 1) \in 0 .. CacheBits - 1
                  THEN z[i + 8 * (k - 1)] ELSE 0]
        /\ W!Shr(x, 8 * k)
             = [i \in 0 .. CacheBits - 1 |->
                  IF i + 8 * k \in 0 .. CacheBits - 1 THEN x[i + 8 * k] ELSE 0]
    BY <2>1, <1>1 DEF W!Shr
  <2>3. ASSUME NEW i \in 0 .. CacheBits - 1
        PROVE  (IF i + 8 * (k - 1) \in 0 .. CacheBits - 1
                THEN z[i + 8 * (k - 1)] ELSE 0)
                 = IF i + 8 * k \in 0 .. CacheBits - 1 THEN x[i + 8 * k] ELSE 0
    <3>1. /\ (i + 8 * (k - 1)) + 8 = i + 8 * k
          /\ i + 8 * k \in 0 .. CacheBits - 1
               => i + 8 * (k - 1) \in 0 .. CacheBits - 1
      BY <1>1, <1>2
    <3> QED BY <3>1, <1>4
  <2> QED BY <2>2, <2>3
<1>13. W!dump_lsb(c) = W!dump_lsb(b)
  <2>1. W!dump_lsb(b)
          = [buffer |-> W!Store(b, k, src), byte_pos |-> p + k,
             bit_cache |-> W!Shr(x, 8 * k), bits_in_cache |-> n - 8 * k,
             overflow |-> W!overruns(b, n - 8 * k)]
    BY DEF W!dump_lsb, src
  <2>2. W!dump_lsb(c)
          = [buffer |-> W!Store(c, k - 1, rest),
             byte_pos |-> (p + 1) + (k - 1),
             bit_cache |-> W!Shr(z, 8 * (k - 1)),
             bits_in_cache |-> (n - 8) - 8 * (k - 1),
             overflow |-> W!overruns(c, (n - 8) - 8 * (k - 1))]
    BY <1>6, <1>7 DEF W!dump_lsb, rest
  <2>3. W!overruns(c, n - 8 * k) = W!overruns(b, n - 8 * k)
    BY <1>6, Zenon DEF W!overruns
  <2> QED BY <2>1, <2>2, <2>3, <1>8, <1>11, <1>12, Zenon
<1> QED BY <1>6, <1>13 DEF c, y

---------------------------------------------------------------------------
(***************************************************************************)
(* The inductive invariant: what the closed forms say of the loop, and     *)
(* that the reader or writer in the loop is one they are right for.        *)
(***************************************************************************)
IInv ==
    /\ pc \in {"loop", "done"}
    /\ loop \in RefillLoops \cup DumpLoops
    /\ loop \in RefillLoops => Reading(bs)
    /\ loop \in DumpLoops /\ pc = "loop" => Writing(bs)
    /\ LoopIsRefill
    /\ LeavesRefilled
    /\ LoopIsDump
    /\ LeavesDumped

LEMMA IInvInit == Init => IInv
<1> SUFFICES ASSUME Init PROVE IInv
  OBVIOUS
<1>1. /\ bs = start /\ pc = "loop"
      /\ \/ loop \in RefillLoops /\ Reading(bs)
         \/ loop \in DumpLoops /\ Writing(bs)
  BY StartsAssumption DEF Init, Reading, Writing
<1>2. LoopIsRefill /\ LoopIsDump /\ LeavesRefilled /\ LeavesDumped
  BY <1>1 DEF LoopIsRefill, LoopIsDump, LeavesRefilled, LeavesDumped
<1> QED BY <1>1, <1>2 DEF IInv, RefillLoops, DumpLoops

\* A step that goes on keeps the closed form of the rest; one that leaves
\* the loop has no rest.
LEMMA IInvStep == IInv /\ [Next]_vars => IInv'
<1> SUFFICES ASSUME IInv, [Next]_vars PROVE IInv'
  OBVIOUS
<1>1. CASE LoadByte
  <2>1. /\ pc = "loop" /\ pc' = "loop" /\ start' = start /\ loop' = loop
        /\ loop \in {"refill", "refill_lsb"}
        /\ Reading(bs) /\ has_room(bs) /\ bs.byte_pos < Len(bs.buffer)
        /\ loop = "refill" => bs' = load(bs)
        /\ loop = "refill_lsb" => bs' = load_lsb(bs)
    BY <1>1 DEF LoadByte, IInv, RefillLoops
  <2>2. /\ Reading(load(bs)) /\ R!refill(load(bs)) = R!refill(bs)
        /\ Reading(load_lsb(bs)) /\ R!refill_lsb(load_lsb(bs)) = R!refill_lsb(bs)
    BY <2>1, Loaded, LoadedLsb, LoadKeepsRefill, LoadKeepsRefillLsb
  <2>3. Reading(bs')
    BY <2>1, <2>2
  <2>4. LoopIsRefill'
    BY <2>1, <2>2 DEF IInv, LoopIsRefill
  <2>5. LoopIsDump' /\ LeavesRefilled' /\ LeavesDumped'
    BY <2>1 DEF LoopIsDump, LeavesRefilled, LeavesDumped
  <2> QED BY <2>1, <2>3, <2>4, <2>5 DEF IInv, RefillLoops, DumpLoops
<1>2. CASE LeaveRefill
  <2>1. /\ pc' = "done" /\ start' = start /\ loop' = loop /\ bs' = bs
        /\ loop \in {"refill", "refill_lsb"}
        /\ Reading(bs)
        /\ ~ has_room(bs) \/ bs.byte_pos >= Len(bs.buffer)
    BY <1>2 DEF LeaveRefill, IInv, RefillLoops
  <2>2. R!refill(bs) = bs /\ R!refill_lsb(bs) = bs
    BY <2>1, NothingToLoad
  <2>3. LoopIsRefill' /\ LeavesRefilled'
    BY <2>1, <2>2 DEF IInv, LoopIsRefill, LeavesRefilled
  <2>4. LoopIsDump' /\ LeavesDumped'
    BY <2>1 DEF LoopIsDump, LeavesDumped
  <2> QED BY <2>1, <2>3, <2>4 DEF IInv, RefillLoops, DumpLoops
<1>3. CASE StoreByte
  <2> DEFINE c == [put(bs, bottom_byte(bs)) EXCEPT !.bit_cache = Shr(@, 8)]
  <2>1. /\ pc = "loop" /\ pc' = "loop" /\ start' = start /\ loop' = loop
        /\ loop \in {"dump", "dump_lsb"}
        /\ Writing(bs) /\ bs.bits_in_cache >= 8 /\ bs.byte_pos < Len(bs.buffer)
        /\ loop = "dump" => bs' = put(bs, top_byte(bs))
        /\ loop = "dump_lsb" => bs' = c
    BY <1>3 DEF StoreByte, IInv, DumpLoops
  <2>2. /\ Writing(put(bs, top_byte(bs)))
        /\ \A ub \in W!Builds :
             W!dump(put(bs, top_byte(bs)), ub) = W!dump(bs, ub)
        /\ Writing(c) /\ W!dump_lsb(c) = W!dump_lsb(bs)
    BY <2>1, PutKeepsDump, PutKeepsDumpLsb
  <2> HIDE DEF c
  <2>3. Writing(bs')
    BY <2>1, <2>2
  <2>4. LoopIsDump'
    BY <2>1, <2>2 DEF IInv, LoopIsDump
  <2>5. LoopIsRefill' /\ LeavesRefilled' /\ LeavesDumped'
    BY <2>1 DEF LoopIsRefill, LeavesRefilled, LeavesDumped
  <2> QED BY <2>1, <2>3, <2>4, <2>5 DEF IInv, RefillLoops, DumpLoops
<1>4. CASE \E ub \in W!Builds : LeaveDump(ub)
  <2>1. PICK ub \in W!Builds : LeaveDump(ub)
    BY <1>4
  <2>2. /\ pc = "loop" /\ pc' = "done" /\ start' = start /\ loop' = loop
        /\ loop \in {"dump", "dump_lsb"} /\ Writing(bs)
        /\ bs.bits_in_cache < 8 \/ bs.byte_pos >= Len(bs.buffer)
        /\ bs' = [bs EXCEPT !.overflow = @ \/ bs.bits_in_cache >= 8,
                            !.bit_cache = Masked(bs, ub)]
    BY <2>1 DEF LeaveDump, IInv, DumpLoops
  <2>3. /\ loop = "dump" =>
             Masked(bs, ub) = Low(bs.bit_cache, W!Shift(bs.bits_in_cache, ub))
        /\ loop = "dump_lsb" => Masked(bs, ub) = bs.bit_cache
    BY DEF Masked
  <2>4. /\ loop = "dump" => bs' = W!dump(bs, ub)
        /\ loop = "dump_lsb" => bs' = W!dump_lsb(bs)
    <3>1. /\ W!dump(bs, ub)
               = [bs EXCEPT !.overflow = @ \/ bs.bits_in_cache >= 8,
                            !.bit_cache =
                                Low(@, W!Shift(bs.bits_in_cache, ub))]
          /\ W!dump_lsb(bs) = [bs EXCEPT !.overflow = @ \/ bs.bits_in_cache >= 8,
                                         !.bit_cache = @]
      BY <2>2, NothingToDump
    <3> QED BY <3>1, <2>2, <2>3, Zenon
  <2>5. /\ loop = "dump" => W!dump(bs, ub) = W!dump(start, ub)
        /\ loop = "dump_lsb" => W!dump_lsb(bs) = W!dump_lsb(start)
    BY <2>2 DEF IInv, LoopIsDump
  <2>6. LeavesDumped'
    BY <2>2, <2>4, <2>5 DEF LeavesDumped
  <2>7. LoopIsRefill' /\ LoopIsDump' /\ LeavesRefilled'
    BY <2>2 DEF LoopIsRefill, LoopIsDump, LeavesRefilled
  <2> QED BY <2>2, <2>6, <2>7 DEF IInv, RefillLoops, DumpLoops
<1>5. CASE UNCHANGED vars
  BY <1>5 DEF vars, IInv, LoopIsRefill, LoopIsDump, LeavesRefilled,
              LeavesDumped
<1> QED BY <1>1, <1>2, <1>3, <1>4, <1>5 DEF Next

LEMMA Invariant == Spec => []IInv
BY IInvInit, IInvStep, PTL DEF Spec

---------------------------------------------------------------------------
\* Whatever reader a refill loop is entered with, an iteration leaves the
\* closed form of the rest of the loop as it was.
THEOREM RefillLoopsAreClosed == Spec => []LoopIsRefill
BY Invariant, PTL DEF IInv

\* A refill loop that has been left has loaded every byte its closed form
\* says, in the order it says, and no other.
THEOREM RefillLoopsCompute == Spec => []LeavesRefilled
BY Invariant, PTL DEF IInv

\* Whatever writer a dump loop is entered with, an iteration leaves the
\* closed form of the rest of the loop as it was.
THEOREM DumpLoopsAreClosed == Spec => []LoopIsDump
BY Invariant, PTL DEF IInv

\* A dump function that has returned has stored the bytes its closed form
\* says, masked the cache and reported overflow as it says, also when the
\* memory was full from the start and the count was past the cache width.
THEOREM DumpLoopsCompute == Spec => []LeavesDumped
BY Invariant, PTL DEF IInv

=============================================================================
