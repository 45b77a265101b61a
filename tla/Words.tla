------------------------------- MODULE Words --------------------------------
(***************************************************************************)
(* The two word widths of bitstream.h that readers and writers share.      *)
(***************************************************************************)
EXTENDS BitVectors

CONSTANTS
    CacheBits,  \* width of bit_cache: 64 in the code
    MaxBits     \* width of the value a call takes or returns: 32 in the code

ASSUME WidthAssumption ==
    /\ CacheBits \in Nat
    /\ CacheBits % 8 = 0
    /\ MaxBits \in Nat \ {0}
    /\ MaxBits + 7 <= CacheBits
=============================================================================
