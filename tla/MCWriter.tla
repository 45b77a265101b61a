------------------------------ MODULE MCWriter ------------------------------
(***************************************************************************)
(* Writers for three questions, each with a .cfg of its own:               *)
(*   MCWriter  every call sequence on a memory of two bytes; shorter ones  *)
(*             are driven on after they are full, until more bits are      *)
(*             enqueued than the cache is wide                             *)
(*   MCWrap    and until the count of enqueued bits wraps around           *)
(*   MCShifts  the widths of the code, writing on after an overflow        *)
(* The first two scale the widths to a 16-bit cache and 8-bit values.      *)
(***************************************************************************)
EXTENDS Writer

\* A word of w bits with the bits of the number v.
WordOf(v, w) == [i \in 0 .. w - 1 |-> (v \div 2 ^ i) % 2]

Dirty(n) == [k \in 1 .. n |-> WordOf(165, 8)]

MCBuffers  == {Dirty(n) : n \in 0 .. 2}
Short      == {Dirty(n) : n \in {0, 1}}

MCPending   == [n \in 0 .. 2 |-> IF n = 2 THEN 7 ELSE 16]
WrapPending == [n \in 0 .. 2 |-> 23]
WidePending == [n \in 0 .. 1 |-> 63]

OneValue   == {WordOf(203, 8)}
ZeroValue  == {WordOf(0, 8)}
Wide       == {[i \in 0 .. 31 |-> IF i \in {3, 11, 12, 29, 30} THEN 1 ELSE 0]}
MCCounts   == {0, 1, 8}
WideCounts == {1, 32}
\* The state but for the last request, which only the properties read.
StateView == << bs, order, ok >>

MCChunks   == {<< >>, << WordOf(98, 8) >>, << WordOf(98, 8), WordOf(7, 8) >>}
===========================================================================
