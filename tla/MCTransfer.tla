----------------------------- MODULE MCTransfer -----------------------------
(***************************************************************************)
(* Transfers of up to four items, with two configurations:                 *)
(*   MCTransfer    a 16-bit cache and 8-bit values, memories of up to four *)
(*                 bytes: the cache is refilled up to twice, and items end *)
(*                 inside, at and beyond the end of the memory             *)
(*   MCTransfer64  the widths of the code, fields of up to 32 bits and     *)
(*                 bulk copies longer than the cache                       *)
(***************************************************************************)
EXTENDS Transfer

ByteOf(v) == [i \in 0 .. 7 |-> (v \div 2 ^ i) % 2]

MCWireSizes == {1, 2, 4}
MCValues    == {ByteOf(203)}
MCCounts    == {3, 8}
MCChunks    == {<< ByteOf(98) >>, << ByteOf(7), ByteOf(178) >>}

WideWireSizes == {5, 10, 20}
WideValues    == {[i \in 0 .. 31 |-> IF i \in {3, 11, 12, 29, 30} THEN 1 ELSE 0]}
WideCounts    == {7, 32}
WideChunks    == {[k \in 1 .. 9 |-> ByteOf(37 * k)]}
===========================================================================
