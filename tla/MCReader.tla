------------------------------ MODULE MCReader ------------------------------
(***************************************************************************)
(* Readers at the widths of the code (64-bit cache, 32-bit values), on     *)
(* buffers shorter than, as long as and longer than the cache.  Skips also *)
(* go beyond the documented 32 bits, around the 57 that a refill is sure   *)
(* to load and around the width of the cache.                              *)
(*   MCReader       every reader call                                      *)
(*   MCSkipPastEnd  skips of 100 bits, the count of the repository's test  *)
(***************************************************************************)
EXTENDS Reader

\* A byte whose bits are those of the number v.
ByteOf(v) == [i \in 0 .. 7 |-> (v \div 2 ^ i) % 2]

\* Eleven bytes no two of which agree under a shift or a reversal.
Pattern == << 181, 78, 23, 226, 9, 107, 240, 53, 154, 198, 61 >>

Prefix(n) == [k \in 1 .. n |-> ByteOf(Pattern[k])]

MCBuffers    == {Prefix(n) : n \in {0, 1, 3, 8, 11}}
MCCounts     == {0, 1, 7, 8, 25, 32}
MCSkipCounts == MCCounts \cup {33, 57, 58, 63, 65, 100}
FarSkips     == {100}
MCByteCounts == {0, 1, 2, 9}

\* The state but for the last request, which only the properties read: two
\* states that differ in it alone have the same steps but for the tick, and
\* every step is checked whether or not the state it leads to is new.
StateView == << bs, order, ret >>
===========================================================================
