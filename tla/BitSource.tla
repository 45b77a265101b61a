----------------------------- MODULE BitSource -----------------------------
(***************************************************************************)
(* What the reader half of bitstream.h promises, without its cache: a bit  *)
(* sequence and a position in it.  What the caller asks for is part of the *)
(* state (request), so that every call is answered as asked: a read of n   *)
(* bits moves the position by n and returns the n bits at it, a call that  *)
(* asks for more than is left fails and leaves the position alone, except  *)
(* that a skip stops at the end.  Only a skip of more than Reach bits may  *)
(* consume fewer than it is asked to.                                      *)
(***************************************************************************)
EXTENDS BitVectors

CONSTANTS
    MaxBits, Buffers, Counts, SkipCounts, ByteCounts,  \* as in Reader
    Reach  \* a skip of up to so many bits is exact

VARIABLES
    data,   \* the bytes being read
    at,     \* the position, in bits from the start of data
    order,  \* the packing order the caller reads with
    request, \* the last call: its name, its argument, and a tick that
            \* changes with each, so that no call is taken for a step that
            \* did not happen
    ret     \* what the last call returned

svars == << data, at, order, request, ret >>

Left == 8 * Len(data) - at

Outcome(value, ok, bytes) == [value |-> value, ok |-> ok, bytes |-> bytes]
None == Outcome(Zero(MaxBits), TRUE, << >>)

Next_n_bits(n) == Outcome(Field(data, order, at, n, MaxBits), TRUE, << >>)

Asked(op, n) == request' = [op |-> op, n |-> n, tick |-> 1 - request.tick]

Init ==
    /\ data \in Buffers
    /\ at = 0
    /\ order \in Orders
    /\ request = [op |-> "init", n |-> 0, tick |-> 0]
    /\ ret = None

Reopen ==
    /\ Asked("init", 0)
    /\ data' \in Buffers
    /\ at' = 0
    /\ order' \in Orders
    /\ ret' = None

Read(n) ==
    /\ Asked("read", n)
    /\ n <= Left
    /\ at' = at + n
    /\ ret' = Next_n_bits(n)
    /\ UNCHANGED << data, order >>

Peek(n) ==
    /\ Asked("peek", n)
    /\ n <= Left
    /\ ret' = Next_n_bits(n)
    /\ UNCHANGED << data, at, order >>

\* A read or a peek of more bits than are left.
Fail(op, n) ==
    /\ Asked(op, n)
    /\ n > Left
    /\ ret' = None
    /\ UNCHANGED << data, at, order >>

Skip(n) ==
    /\ Asked("skip", n)
    /\ LET due == MinOf(n, Left) IN
       \E d \in MinOf(due, Reach) .. due : at' = at + d
    /\ ret' = None
    /\ UNCHANGED << data, order >>

Align ==
    /\ Asked("align", 0)
    /\ at' = 8 * ((at + 7) \div 8)
    /\ ret' = None
    /\ UNCHANGED << data, order >>

CopyBytes(n) ==
    LET first == at \div 8
        fits  == at % 8 = 0 /\ first + n <= Len(data)
    IN
    /\ Asked("read_bytes", n)
    /\ at' = IF fits THEN at + 8 * n ELSE at
    /\ ret' = Outcome(Zero(MaxBits), fits,
                      IF fits THEN SubSeq(data, first + 1, first + n)
                              ELSE << >>)
    /\ UNCHANGED << data, order >>

\* The caller goes over to the other packing order at a byte boundary.
ChangeOrder ==
    /\ at % 8 = 0
    /\ order' \in Orders
    /\ UNCHANGED << data, at, request, ret >>

Next ==
    \/ Reopen
    \/ \E n \in Counts :
        \/ Read(n) \/ Peek(n)
        \/ \E op \in {"read", "peek"} : Fail(op, n)
    \/ \E n \in Counts \cup SkipCounts : Skip(n)
    \/ Align
    \/ \E n \in ByteCounts : CopyBytes(n)
    \/ ChangeOrder

Spec == Init /\ [][Next]_svars
===========================================================================
