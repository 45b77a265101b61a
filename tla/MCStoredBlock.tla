--------------------------- MODULE MCStoredBlock ---------------------------
(***************************************************************************)
(* Literals that are prefetched wholly, partly and (256 bytes, a length    *)
(* with a high byte) hardly, in memories of every size around the parts of *)
(* a block, at the widths of the code.                                     *)
(***************************************************************************)
EXTENDS StoredBlock

Text(n) == [k \in 1 .. n |-> [i \in 0 .. 7 |-> ((37 * k) \div 2 ^ i) % 2]]

MCLiterals   == {Text(n) : n \in {0, 1, 3, 4, 9, 256}}
MCCapacities == (0 .. 9) \cup {13, 14, 260, 261, 300}
===========================================================================
