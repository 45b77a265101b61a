------------------------------ MODULE MCLoops ------------------------------
(***************************************************************************)
(* Loops on a scaled, 24-bit cache, so that up to three bytes are moved.   *)
(* Refill loops are entered with every fill of the cache at every position *)
(* of memories of 0 to 4 bytes; dump loops with every count that fits the  *)
(* cache, and with counts past it over a memory that is full, as they can  *)
(* only then arise.                                                        *)
(***************************************************************************)
EXTENDS Loops

ByteOf(v) == [i \in 0 .. 7 |-> (v \div 2 ^ i) % 2]

Pattern == << 181, 78, 23, 226 >>

Prefix(n) == [k \in 1 .. n |-> ByteOf(Pattern[k])]
Memory(n) == [k \in 1 .. n |-> ByteOf(165)]

\* A cache whose bits from n on are set, above others of one or the other
\* pattern, and one where they are clear.
Ones(n)  == [i \in 0 .. CacheBits - 1 |-> IF i >= n THEN 1 ELSE i % 2]
Stale(n) == [i \in 0 .. CacheBits - 1 |-> IF i >= n THEN 1 ELSE (i \div 2) % 2]
Fresh(n) == Low(Ones(0), n)

MCReaderStarts ==
    {b \in {[buffer |-> Prefix(s), byte_pos |-> p, bit_cache |-> c,
             bits_in_cache |-> n] :
                s \in {0, 1, 4}, p \in 0 .. 4, n \in 0 .. 24,
                c \in {Ones(12), Fresh(24), Zero(CacheBits)}} :
        b.byte_pos <= Len(b.buffer)}

MCWriterStarts ==
    {b \in {[buffer |-> Memory(s), byte_pos |-> p, bit_cache |-> c,
             bits_in_cache |-> n, overflow |-> o] :
                s \in {0, 1, 3}, p \in 0 .. 3, n \in 0 .. 31,
                c \in {Stale(9), Stale(24)}, o \in BOOLEAN} :
        /\ b.byte_pos <= Len(b.buffer)
        /\ b.byte_pos < Len(b.buffer) => b.bits_in_cache <= CacheBits}
=============================================================================
