--------------------------- MODULE MCPrefixCodec ---------------------------
(***************************************************************************)
(* All messages of up to three symbols with codes of 1, 2, 5 and 6 bits,   *)
(* and longer ones, over wire memories that hold them, nearly hold them    *)
(* and do not hold them.  A 16-bit cache is refilled within a message.     *)
(***************************************************************************)
EXTENDS PrefixCodec

MCMessages ==
    UNION {[1 .. n -> {1, 2, 5, 6}] : n \in 0 .. 3}
        \cup {<< 6, 6, 6, 6, 1 >>, << 4, 3, 2, 1, 5, 6 >>}

MCWireSizes == {1, 2, 3, 5}
MCOutSizes  == {2, 8}
===========================================================================
