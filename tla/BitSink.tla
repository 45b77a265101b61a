------------------------------ MODULE BitSink ------------------------------
(***************************************************************************)
(* What the writer half of bitstream.h promises, without its cache: an     *)
(* append-only stream of bits over a memory of cap bytes.  Bits are kept   *)
(* in the order they were written until a whole byte of them has no room;  *)
(* from then on overflow is reported for good, the stream ends with the    *)
(* memory, and nothing that was written before is lost.  What the caller   *)
(* asks for is part of the state (request): every call adds the bits of    *)
(* its own arguments.                                                      *)
(***************************************************************************)
EXTENDS BitVectors

CONSTANTS MaxBits, Values, Counts, Chunks

VARIABLES
    cap,      \* capacity of the memory, in bytes
    stream,   \* the bits kept so far, in transmission order
    overflow, \* some bits, or a bulk copy, did not fit
    order,    \* the packing order the caller writes with
    request,  \* the last call: its name and arguments, and a tick that
              \* changes with each
    ok        \* whether the last bulk copy succeeded

kvars == << cap, stream, overflow, order, request, ok >>

Asked(op, value, n, bytes) ==
    request' = [op |-> op, value |-> value, n |-> n, bytes |-> bytes,
                tick |-> 1 - request.tick]

Cut(s, n) == SubSeq(s, 1, MinOf(Len(s), n))

\* The low n bits of a value as they are sent.
FieldBits(value, n) ==
    [j \in 1 .. n |-> value[FieldOffset(order, n, j - 1)]]

ByteBits(bytes) ==
    [j \in 1 .. 8 * Len(bytes) |-> StreamBit(bytes, order, j - 1)]

Zeros(n) == [j \in 1 .. n |-> 0]

\* The same bytes, each read in the other order.
Reversed(s) == [j \in 1 .. Len(s) |-> s[8 * ((j - 1) \div 8) + 8 - ((j - 1) % 8)]]

Append_bits(bits) ==
    LET s == stream \o bits IN
    /\ overflow' = (overflow \/ Len(s) >= 8 * (cap + 1))
    /\ stream' = IF overflow' /\ Len(s) >= 8 * cap THEN Cut(s, 8 * cap) ELSE s
    /\ UNCHANGED << cap, order >>

Init ==
    /\ cap \in Nat
    /\ stream = << >>
    /\ overflow = FALSE
    /\ order \in Orders
    /\ request = [op |-> "init", value |-> Zero(MaxBits), n |-> 0,
                  bytes |-> << >>, tick |-> 0]
    /\ ok = TRUE

Write(value, n) ==
    /\ Asked("write", value, n, << >>)
    /\ Append_bits(FieldBits(value, n))
    /\ ok' = TRUE

\* Align and flush: zeros up to the next byte boundary.
Pad ==
    /\ Asked("pad", Zero(MaxBits), 0, << >>)
    /\ Append_bits(Zeros((8 - (Len(stream) % 8)) % 8))
    /\ ok' = TRUE

\* All the bytes or none, and only at a byte boundary.
WriteBytes(bytes) ==
    LET aligned == Len(stream) % 8 = 0
        room    == Len(stream) + 8 * Len(bytes) <= 8 * cap
    IN
    /\ Asked("write_bytes", Zero(MaxBits), 0, bytes)
    /\ ok' = (aligned /\ ~ overflow /\ room)
    /\ stream' = IF ok' THEN stream \o ByteBits(bytes) ELSE stream
    /\ overflow' = (overflow \/ (aligned /\ ~ room))
    /\ UNCHANGED << cap, order >>

\* The caller goes over to the other packing order at a byte boundary.
ChangeOrder ==
    /\ Len(stream) % 8 = 0
    /\ order' \in Orders
    /\ stream' = IF order' = order THEN stream ELSE Reversed(stream)
    /\ UNCHANGED << cap, overflow, request, ok >>

Next ==
    \/ \E value \in Values, n \in Counts : Write(value, n)
    \/ Pad
    \/ \E bytes \in Chunks : WriteBytes(bytes)
    \/ ChangeOrder

Spec == Init /\ [][Next]_kvars
===========================================================================
