---------------------------- MODULE BitVectors ----------------------------
(***************************************************************************)
(* The C integer operators bitstream.h is written with, on bit vectors: a  *)
(* w-bit unsigned word is a function from bit index (0 is the least        *)
(* significant) to a bit.  Widths are therefore kept exactly, and a bit    *)
(* shifted past the end of a word is lost, as in C.                        *)
(***************************************************************************)
EXTENDS Naturals, Sequences

Bit == {0, 1}

Word(w) == [0 .. w - 1 -> Bit]

Byte == Word(8)

Zero(w) == [i \in 0 .. w - 1 |-> 0]

\* x << n, in the width of x.
Shl(x, n) == [i \in DOMAIN x |-> IF i < n THEN 0 ELSE x[i - n]]

\* x >> n.
Shr(x, n) == [i \in DOMAIN x |-> IF i + n \in DOMAIN x THEN x[i + n] ELSE 0]

\* x & ((1 << n) - 1): the n low bits of x.
Low(x, n) == [i \in DOMAIN x |-> IF i < n THEN x[i] ELSE 0]

\* x | y, in the width of x.
Or(x, y) ==
    [i \in DOMAIN x |-> IF x[i] = 1 THEN 1
                        ELSE IF i \in DOMAIN y THEN y[i] ELSE 0]

\* (uint<w>_t) x: truncates a wider word, zero-extends a narrower one.
Cast(x, w) == [i \in 0 .. w - 1 |-> IF i \in DOMAIN x THEN x[i] ELSE 0]

\* x has no bit set at or above position n.
Clean(x, n) == \A i \in DOMAIN x : i >= n => x[i] = 0

MinOf(a, b) == IF a <= b THEN a ELSE b

---------------------------------------------------------------------------
(***************************************************************************)
(* The bits of a byte sequence in transmission order.  Packed MSB-first,   *)
(* stream position j is bit 7 - j % 8 of byte j \div 8; packed LSB-first,  *)
(* it is bit j % 8.                                                        *)
(***************************************************************************)
Orders == {"msb", "lsb"}

StreamBit(bytes, order, j) ==
    bytes[(j \div 8) + 1][IF order = "msb" THEN 7 - (j % 8) ELSE j % 8]

\* Transmission index of bit i of an n-bit field: MSB-first sends the most
\* significant bit of a field first, LSB-first the least significant one.
FieldOffset(order, n, i) == IF order = "msb" THEN n - 1 - i ELSE i

\* The n-bit field that starts at stream position at, as a w-bit word.
Field(bytes, order, at, n, w) ==
    [i \in 0 .. w - 1 |->
        IF i < n THEN StreamBit(bytes, order, at + FieldOffset(order, n, i))
                 ELSE 0]
===========================================================================
