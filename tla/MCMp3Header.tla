---------------------------- MODULE MCMp3Header ----------------------------
(***************************************************************************)
(* The header of the program, FF FB 90 44, and others that differ in each  *)
(* of the fields, with a sync word that is right, wrong in its last bits,  *)
(* and wrong.                                                              *)
(***************************************************************************)
EXTENDS Mp3Header

ByteOf(v) == [i \in 0 .. 7 |-> (v \div 2 ^ i) % 2]

MCRawHeaders ==
    {<< ByteOf(a), ByteOf(b), ByteOf(c), ByteOf(d) >> :
        a \in {255, 127}, b \in {251, 228, 218}, c \in {144, 75, 228},
        d \in {68, 178, 255}}
===========================================================================
