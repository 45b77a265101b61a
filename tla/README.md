# bitstream.h in TLA+

`bitstream.h` is a single-header C99 library that reads and writes fields of 1
to 32 bits in a byte buffer, most significant bit first or least significant
bit first. This directory models the library and the example programs that use
it, checks the models with TLC and proves what it can with TLAPS.

## 1. The system

| Component | State | Operations |
|---|---|---|
| Reader (`bs_reader_t`) | `buffer`, `size`, `byte_pos`, a 64-bit `bit_cache`, `bits_in_cache` | init; read, peek, skip, align, each in an MSB and an LSB form, most also unchecked; `bs_read_bytes`; `bs_reader_eof`, `bs_reader_bits_left` |
| Writer (`bs_writer_t`) | the same five and `overflow` | init; write, align, flush in two forms, write also unchecked; `bs_write_bytes`; `bs_writer_bytes_written` |
| Refill and dump loops | that of the reader or writer they run on | `_bs_reader_refill[_lsb]` moves whole bytes into the cache, `_bs_writer_dump[_lsb]` out of it |
| Prefix-code programs | a writer, then a reader; the message and the output | `huffman_decode.c`, `fast_decode.c` (two decoders), `deflate_codes.c` |
| Stored-block program | a writer, then a reader | `deflate_block.c` |
| Fixed-field programs | a writer, then a reader; readings and decoded fields | `sensor_protocol.c`, `decode_mp3_header.c` |
| Round trips | a writer, the bytes it leaves, a reader on them | any calls of the library, as in `tests/test_integration.c` |
| Tests, Makefile | none | |

A reader and a writer never share state: they meet only through memory, when
the bytes a writer has produced are opened by a reader. There are no threads,
callbacks, I/O or persistence. What makes the code hard is elsewhere:

* **Prefetching.** The reader is always ahead of its caller by up to 64 bits.
  Position, end of stream, alignment and bulk copies all have to subtract what
  was fetched and not consumed. A caller must not be able to tell.
* **What lies outside the valid bits of the cache.** The MSB reader leaves
  consumed bits there, the LSB reader must not, because its refill ORs. The MSB
  writer has to mask after each dump. One forgotten mask shows only several
  calls later.
* **The end of the memory.** A read, peek, skip, bulk read, write, flush or
  bulk write may meet it, in the middle of a field, and each has its own rule
  about what is left behind. A writer can be driven on after it has failed,
  until `bits_in_cache` exceeds the cache and in the end wraps around.
* **Contracts between calls.** The unchecked calls rest on what an earlier
  checked call did; the two families may be mixed only at certain points.
* **Decoders that look further than the stream goes.** A prefix decoder peeks
  the longest code where only a short one may be left. A fixed-width decoder
  reads past a short stream: a failed read consumes nothing, so the bits of
  the field cut off become the next narrower one.
* **Programs that do not look at `overflow`.** Several notice a wire too short
  only by comparing what they have decoded.

Correct means, for each component:

* reader: it is a bit sequence and a position (module `BitSource`), and the
  cache always is a copy of the buffer;
* writer: it is an append-only bit stream over bounded memory (module
  `BitSink`), it reports exactly the writes that do not fit, and it never
  touches a byte it has written;
* loops: they compute the closed forms the other modules use, and end;
* programs: they decode what they encode, their assertions hold, they do not
  decode the padding, overflow is noticed exactly when there is one, and the
  verdict they report accounts for everything that was lost;
* round trips: what was sent arrives in order up to the first item that did
  not fit (module `Channel`), in whichever way it is read.

## 2. Modules

| Module | Models | Builds on |
|---|---|---|
| `BitVectors` | C's `<<`, `>>`, `&`, `\|` and conversions on words of a fixed width; bits of a byte sequence in transmission order | |
| `Words` | the widths of the cache and of values, and what is assumed of them | |
| `BitReader` | every reader function, as an operator from a reader to a reader and a result | `BitVectors`, `Words` |
| `BitSource` | abstract: what a reader promises | `BitVectors` |
| `Reader` | a caller that makes any sequence of reader calls | `BitReader`, instance of `BitSource` |
| `ReaderProofs` | theorems about `Reader` | `Reader`, `CallLemmas` |
| `BitWriter` | every writer function, as an operator | `BitVectors`, `Words` |
| `BitSink` | abstract: what a writer promises | `BitVectors` |
| `Writer` | a caller that makes any sequence of writer calls | `BitWriter`, instance of `BitSink` |
| `WriterProofs` | theorems about `Writer` | `Writer`, `CallLemmas` |
| `CallLemmas` | lemmas: what each function does to the cache and the memory, to the reader's position in the stream, and to the bits the writer keeps | `BitReader`, `BitWriter` |
| `Loops` | the four internal loops, one iteration a step | instances of `BitReader` and `BitWriter` |
| `LoopsProofs` | theorems about `Loops` | `Loops` |
| `StoredBlock` | the stored-block program: encoder and decoder, debug and release builds | `BitReader`, `BitWriter` |
| `StoredBlockProofs` | theorems about `StoredBlock` | `StoredBlock`, `CallLemmas` |
| `PrefixCodec` | the prefix-code programs: encoder, wire memory, decoder | `BitReader`, `BitWriter` |
| `PrefixCodecProofs` | theorems about `PrefixCodec` | `PrefixCodec`, `CallLemmas` |
| `SensorProtocol` | the sensor program: packing, decoding and comparing five fields a reading | `BitReader`, `BitWriter` |
| `Mp3Header` | the MP3 program: thirteen fields of a header and its sync test | `BitReader` |
| `FixedFieldProofs` | theorems about `SensorProtocol` and `Mp3Header` | `SensorProtocol`, `Mp3Header`, `CallLemmas` |
| `Channel` | abstract: what a writer, a memory and a reader promise together | |
| `Transfer` | a sender's writer calls, the memory, a receiver's reader calls | `BitReader`, `BitWriter`, instance of `Channel` |
| `TransferProofs` | theorems about `Transfer` | `Transfer`, `CallLemmas` |
| `MC...` | values of the constants for TLC | the module they are named after |

**State.** A `bs_reader_t` or `bs_writer_t` is a record with the fields of the
struct; `buffer` is the sequence of bytes in memory and `size` its length. A
word is a function from bit index to bit, so widths are exact: a bit shifted
past the end of `bit_cache` is lost, as in C. `CacheBits` and `MaxBits` are 64
and 32 in the code; they are parameters so that small instances fill a cache
quickly and so that the proofs do not depend on them. `bits_in_cache` of a
writer counts modulo `CountMod`, 2^32 in the code.

**Actions.** The library has no concurrency and its calls do not block, so a
call is one step (`Call`); the loops inside a call are modelled on their own
in `Loops`, which also justifies the closed forms `refill`, `refill_lsb`, `dump`
and `dump_lsb`. The unchecked calls are made only where
the `@pre` in the header allows them: for `bs_skip_bits_unchecked`, that the
bits are in the cache.

`order` in `Reader` and `Writer` is not a field of the struct. It is the family
of functions the caller is using. `ChangeOrder` is the point at which a caller
may go over to the other family: a writer whenever no bit is enqueued, a reader
only when its cache word is zero as well, which is after init or
`bs_read_bytes`, since otherwise the LSB refill ORs new bytes into what MSB
calls have left. In `Transfer` the two ends turn together: the sender may go
over whenever nothing is enqueued, and the receiver gives its prefetched bytes
back with a bulk copy of no byte first.

`request` is not a field of the struct either. It is the call last made, with
its arguments, in `Reader` and `Writer` and in the abstract specifications
alike. With it the refinement has each call answered as it was asked: a read
of 8 bits that takes 7, a refusal without a reason, or a write that drops its
bits would otherwise be a step of the specification too, only for other
arguments. Names are those the specification knows: `bs_read_bit`,
`bs_read_bits` and the unchecked and LSB forms are all a "read", an align and
a flush of a writer both a "pad". A tick in the record changes with each call,
so that a call that does nothing is not taken for a step that did not happen.

Skips have their own set of counts, `SkipCounts`: the documentation bounds the
counts of reads and peeks to 32 and leaves those of skips open. Only the cache
width itself is left out, by which the LSB skip would shift: what such a call
does is undefined and no property speaks of it.

The programs take one field, symbol or part of a block a step. `Transfer`
takes one item a step: a bit field (any of the four ways to take it that
`Taking` lists), a boundary (an align, or a flush in mid-stream), or bytes
(copied in bulk, or read as fields of 8 bits, one a step, with the rest copied
in bulk at any time). Two of its variables are history: `sent`, and `ends`,
where on the wire each item ends. A receiver knows kinds and
widths, as the programs do, and never values. It may peek at any time
(`Glance`), so that any prefetch is possible before an align, a bulk copy or a
change of family.

**Undefined behaviour.** After an overflow, `1ULL << bits_in_cache` and
`value << bits_in_cache` may shift by 64 or more. Such a shift is a choice
(`Builds`): the count is taken modulo the width, or everything is shifted out.
A call out of contract in any other way is not made.

**Slips.** Each module defines, before an operator, variants of it with a
plausible mistake in (comment "Slip"). Nothing uses them: each is a version of
the code that some property must reject, and shows that it does.

## 3. Runs

All run with `tlc -config <cfg> <module>`; times are with two workers.

| Run (`cfg`) | Question | Instance | Result |
|---|---|---|---|
| `reader` (`MCReader`) | Is prefetching invisible? | 64/32 bits; buffers of 0, 1, 3, 8 and 11 bytes; counts 0, 1, 7, 8, 25, 32, skips also of 33, 57, 58, 63, 65, 100; 6 761 states, 20 s | holds |
| `writer` (`MCWriter`) | Is the writer an append-only stream, also when it is driven past its memory and past its cache? | 16/8 bits; 0, 1 and 2 bytes; counts 0, 1, 8; up to 16 bits enqueued before a write on the shorter memories; 101 116 states, 55 s | holds |
| `writer_wrap` (`MCWrap`) | Also when the count of enqueued bits wraps? | the count modulo 24; 0 to 2 bytes; 1 224 states | holds |
| `loops` (`MCLoops`) | Are the closed forms the loops, and do the loops end? | 24-bit cache; refill: every fill and position, buffers of 0, 1 and 4 bytes, clean and stale caches; dump: counts 0 to 31, memories of 0, 1 and 3 bytes; 7 012 states | holds |
| `prefix_codec` (`MCPrefixCodec`) | Do the programs decode what they encode, and say so rightly? | 87 messages, wires of 1, 2, 3 and 5 bytes, outputs of 2 and 8 symbols, 16-bit cache; 25 531 states | holds |
| `stored_block` (`MCStoredBlock`) | Do bit fields, alignment and bulk copies compose? | 64/32 bits; literals of 0 to 256 bytes, 15 capacities; 3 080 states | holds |
| `sensor_protocol` (`MCSensorProtocol`) | Do packed fields stay apart, and is a loss noticed? | 64/32 bits; the program's batch and 42 others, wires of 0 to 6, 11, 12 and 32 bytes; 8 704 states | holds |
| `mp3_header` (`MCMp3Header`) | Do thirteen widths cover a header exactly? | 64/32 bits; 54 headers; 828 states | holds |
| `transfer` (`MCTransfer`) | Are a writer and a reader a channel? | 16/8 bits; wires of 1, 2 and 4 bytes; fields of 3 and 8 bits, bulk copies of 1 and 2 bytes; up to 4 items; 201 664 states, 30 s | holds |
| `transfer64` (`MCTransfer64`) | Also at the widths of the code? | 64/32 bits; wires of 5, 10 and 20 bytes; fields of 7 and 32 bits, a bulk copy of 9 bytes; up to 3 items; 14 788 states, 35 s | holds |
| `skip_past_end` (`MCSkipPastEnd`) | Does a long skip clip at EOF? | 64/32 bits, skip of 100, the buffers of `reader` | **violated** |
| `shifts` (`MCShifts`) | Is every shift by `bits_in_cache` defined? | 64/32 bits, writes of 1 and 32 bits, memories of 0 and 1 bytes | **violated** |

What the properties say:

* `CacheMirrorsBuffer`: the valid cache bits are the buffer's bits at the
  position, and never more than was fetched. Every value returned rests on it,
  and it is violated several calls before a wrong value is returned.
* `PeekLoads`: the contract of the unchecked skips.
* `ImplementsSource`, `ImplementsSink`: refinement. Every call is answered as
  asked: a read or peek returns the bits it was asked for and fails only if
  fewer are left, a write adds its own bits, a bulk copy all its bytes or none,
  and each consumes what it should. The mapping forgets the cache: the source's
  position is the number of bits less `bs_reader_bits_left`, the sink's stream
  is the bytes stored followed by the bits enqueued. An overrun writer's
  enqueued bits are not part of it, because they can never reach the memory.
  The sink also fixes *when* overflow is reported: at the first whole byte
  without room, and not before. A skip of up to `Reach` bits is exact in the
  source; `Reach` is 57 for a 64-bit cache, since a refill fills it but for 7
  bits. A longer skip consumes at least that and at most what it asks.
* `PendingFits`: until a writer has overrun a full memory, less than a byte is
  enqueued and the cache is clear above it, also after a bulk copy that failed
  with room to spare. That is why a 64-bit cache takes any 32-bit write.
* `OnlyAppends`, `FlushDrains`: bytes behind and beyond the write position do
  not change, overflow is never withdrawn, and after a flush or align
  everything is in memory or overflow is reported.
* `LoopIsRefill`, `LoopIsDump`: the closed form of the loop is invariant under
  its iterations; with `Leaves...` it is the value computed.
* `InStep`: while decoding, the output is a prefix of the message and the
  reader stands exactly where the codes of that prefix end. `RoundTrip`,
  `NeverAborts`, `OverflowIsExact`, `Advances` are what the programs need.
  `VerdictIsHonest`: no program calls a message verified whose codes are not
  all on the wire, although two of them decode on after an overflow. For
  `fast_decode.c`, whose comparison is an assertion, this is so of builds with
  assertions, the only ones the Makefile makes of the examples; built with
  `NDEBUG` it prints "Verified" whatever was decoded.
* `RoundTrip`, `AbortsWhenTooSmall`, `AllOrNothing` of `StoredBlock`: what was
  prefetched is given back before the bulk copy, at literals that are
  prefetched wholly, partly and hardly; in a release build, where the
  assertions are gone, a block cut off anywhere decodes to no literal at all
  rather than to other bytes. The decoder itself checks no bound before the copy
  at `deflate_block.c:118`; that its 256 bytes of `data` suffice is an
  assumption on the literals (`BlockAssumption`).
* `FieldsAreTheirOwn`: every field that is whole on the wire is decoded to its
  member cut to the width of the field, whatever the members before it hold.
  `SuccessLosesNothing`, `NoFalseAlarm`: the comparison at the end of the sensor
  program reports success only if every member is in range and every field
  lost is zero anyway, and failure only if a member is out of range or the
  writer has set `overflow`.
* `FieldsCoverHeader`, `ShowsOnlySynced`: each field is the bits of the header
  at the sum of the widths before it, none is left over, and a header is shown
  exactly when its first eleven bits are set.
* `ImplementsChannel`: refinement. The mapping forgets bits and bytes: the
  items that are to arrive are those whose end is on the wire, fixed when the
  sender closes; they arrive in order, the receiver stops
  exactly at the first that is not, and none is missing if `overflow` is clear.
  It covers what neither component shows alone: a short count from
  `bs_writer_bytes_written`, writes after a refused bulk copy, changes of family
  with bytes prefetched, any mixture of bulk and bitwise calls at the two ends.
  `RestIsPadding`: what is left after the last item is less than a byte, zero,
  and not what the memory held before.

**Views.** `reader`, `writer`, `skip_past_end`, `writer_wrap` and `shifts` are
run with a `VIEW` that leaves out `request`, on which nothing a caller can do
next depends: no guard reads it, and the tick only changes. TLC takes states
that differ in it for one and therefore explores each reader and writer once.
The invariants but `TypeOK` do not mention `request`, and properties of steps,
refinement included, are checked of every step TLC makes, those that lead to a
state already seen among them.

**Bounds.** All state is finite except the writer's pending count: `MaxPending`
stops a caller from writing with more bits enqueued, and is given for each size
of the memory. 7 is as many as a writer that has not overrun can have; 16
(`writer`, memories of 0 and 1 bytes) takes the count past the scaled cache; 23
(`writer_wrap`) together with `CountMod` = 24 takes it around. In the composed
modules, where `bits_in_cache` cannot get that far in the few calls made,
`CountMod` is any larger number. Buffers of 11 bytes are the shortest that need
two refills at counts that are not multiples of 8; the byte pattern has no
shift or reversal that agrees with itself. In `writer_wrap` all values are
zero, because what it asks depends on counts alone. In `prefix_codec` the cache
is 16 bits wide, so that refills happen inside messages of a few symbols; codes
are those of the programs. In `transfer`, `MaxItems` bounds the calls: four are
enough for a field that leaves a residue, a refused bulk copy, a change of
family and an item after it; in `transfer64`, three are more than the cache of
either end can hold. Shifts made undefined by an overrun have one outcome there
(the other is checked in `writer`).

**Fairness.** Only `Loops` states any: weak fairness of its next step,
since a loop that waits for nothing runs on. `CHECK_DEADLOCK FALSE` is
given where a loop or a program ends. In `PrefixCodec` termination is stated as
an action property, `Advances` (each iteration consumes bits or is the last).

**Findings.** (1) `bs_skip_bits` and its LSB form compare `n` with the bits in
the cache, not with the bits remaining. A skip of 100 bits on a stream longer
than the cache drops at most 64 bits and does not reach EOF; the documentation
and a test with a one-byte stream say that it clips at EOF. (2) No write
function looks at `overflow`; writes after it make `bits_in_cache` reach 64,
and the shifts at lines 708, 578 and 769 are undefined. `writer` and
`writer_wrap` show that for either outcome of these shifts no byte written
before is damaged and overflow stays reported.

Two observations that no run is needed for. The comment above the header in
`decode_mp3_header.c` (lines 49 and 51) lists other fields and other bytes than
the array on line 53, `FF FB 90 44`. The temperature conversion at
`sensor_protocol.c:43` truncates a product of doubles, and for 41 of the 1024
tenths of a degree the raw value comes out one step low (-39.7 as 2, not 3).

## 4. Proofs

Every module of theorems defines `IInv`, proves that it holds initially
(`IInvInit`), that every step keeps it (`IInvStep`, one case per action) and
that it implies each property; the theorem itself is one temporal step. All
hold for every value of the constants that satisfies the assumptions, which are
checked by TLC on the instances of the runs.

| Module | Theorem | States |
|---|---|---|
| `ReaderProofs` | `TypeCorrect`, `CacheCorrect`, `PeekLoadsCorrect` | `[]TypeOK`, `[]CacheMirrorsBuffer`, `PeekLoads` |
| | `ReaderImplementsSource` | `ImplementsSource`: the reader is a `BitSource` |
| `WriterProofs` | `WriterTypeCorrect`, `PendingAlwaysFits`, `AppendOnly`, `FlushAlwaysDrains` | `[]TypeOK`, `[]PendingFits`, `OnlyAppends`, `FlushDrains` |
| | `WriterImplementsSink` | `ImplementsSink`: the writer is a `BitSink` |
| `LoopsProofs` | `RefillLoopsAreClosed`, `RefillLoopsCompute` | `[]LoopIsRefill`, `[]LeavesRefilled` |
| | `DumpLoopsAreClosed`, `DumpLoopsCompute` | `[]LoopIsDump`, `[]LeavesDumped` |
| `FixedFieldProofs` | `HeaderIsCovered`, `OnlySyncedIsShown` | `[]FieldsCoverHeader`, `[]ShowsOnlySynced` |
| | `SensorTypeCorrect`, `FieldsKeepTheirPlace` | `[]TypeOK`, `[]FieldsAreTheirOwn` |
| | `SuccessIsEarned`, `AlarmsAreTrue` | `[]SuccessLosesNothing`, `[]NoFalseAlarm` |
| `PrefixCodecProofs` | `CodecTypeCorrect`, `DecodersStayInStep`, `CodesRoundTrip` | `[]TypeOK`, `[]InStep`, `[]RoundTrip` |
| | `FastNeverAborts`, `OverflowIsReported`, `VerdictsAreHonest`, `DecodersAdvance` | `[]NeverAborts`, `[]OverflowIsExact`, `[]VerdictIsHonest`, `Advances` |
| `TransferProofs` | `TransferTypeCorrect`, `OnlyPaddingIsLeft` | `[]TypeOK`, `[]RestIsPadding` |
| | `TransferImplementsChannel` | `ImplementsChannel`: a writer and a reader are a `Channel` |
| `StoredBlockProofs` | `BlockTypeCorrect`, `BlocksRoundTrip` | `[]TypeOK`, `[]RoundTrip` |
| | `AssertionsAreExact`, `LiteralsAreWhole` | `[]AbortsWhenTooSmall`, `[]AllOrNothing` |

**Assumptions.** `WidthAssumption`: the cache is whole bytes, and a value fits
a cache that still has a partial byte in it (64 and 32 bits do).
`CountAssumption`: the count of enqueued bits wraps at a multiple of 8 beyond
the cache width (2^32 does), and a value is at least a byte. Buffers, batches,
messages and memories are arbitrary: any set of finite sequences, of any
length. Counts are those documented, skips any but the cache width. The
programs assume values wide enough for what they write (32 bits are), and
`BatchAssumption` that readings hold what the C types of the members can hold,
and `BlockAssumption` that a literal has at most the 256 bytes the decoder's
`data` has room for.
`FixedFieldProofs` extends both of its programs, and each of its theorems
mentions only the constants and assumptions of one.

**The reader.** `TypeOK` is not inductive: that giving prefetched bytes back
stays within the buffer needs `bits_in_cache <= 8 * byte_pos`, and the LSB
refill, which ORs, needs a cache that is clear above its valid bits. `IInv` is
both, per family (`GoodMsb`, `GoodLsb`). `CallLemmas` has one lemma for each
thing a call does to the cache (refill, drop, empty) in each order and composes
them into one for each function; a second layer says what each function
returns and consumes in terms of the position `8 * byte_pos - bits_in_cache`
and the buffer alone. `ReaderImplementsSource` then goes action by action: each
call, with the name and the argument it was made with, is that call of the
source (`Meets`, `ToSource`), and a change of family is one of the source.

**The writer.** A writer between two calls is `Good`: it `Fits` (less than a
byte enqueued, the cache clear above it) or it is `Full` (its memory is full
and overrun). `TypeOK` alone is not inductive, since a dump stays inside the
cache only if no more is enqueued than the cache holds; that is what `Fits`
gives, and a full memory has nothing to dump. This also disposes of the
undefined shifts: they happen only to `Full` writers, whose cache never reaches
the memory again, so the proofs hold for either outcome and any count. For the
sink, `KeptOf` is the bits stored and, unless overrun, those enqueued, and
every write, align and flush is shown to make it longer by the bits of its
argument or to cut it at the end of the memory (`Longer`). The arguments are
those in `request`, so that the step is the sink's for the same call.

**The loops.** Invariant under an iteration is the closed form applied to what
remains. For that the number of bytes left to move goes down by one each time,
and the closed form that moves k bytes is one byte followed by k - 1, with the
masks, the undefined shift and the overflow report at the end. A dump may start
with the memory full and any count; with room, at most a full cache. With these
theorems `refill`, `refill_lsb`, `dump` and `dump_lsb`, on which every other
module rests, are no longer assumptions.

**The MP3 program.** `IInv` adds to `FieldsCoverHeader` that the position is the
sum of the widths read. The 32 bits of a header are one refill at the widths of
the code and several at others.

**The sensor program.** While it encodes, the writer carries the first bits of
the batch's stream (`Encoding`), and the flush puts a prefix of that stream and
its padding on the wire (`OnWire`). Up to the first field that is not whole on
the wire, fields are read in place. From there on the reader is out of step,
and that no loss is taken for success rests on `Shortfall`: the field cut off
has been read as zero and consumed nothing; if it really was zero, all the
reader can still see from there is zeros, so that every later field is zero as
well, and the comparison fails for any that was not.

**The prefix codes.** Where the k-th code ends is the number of the bits of the
first k codes, as the cardinality of a set (`Ends`): a sum that needs no
recursion. The code is prefix-free and complete (`PrefixFree`, `SomeCode`), so
that the one entry of the table that matches is the symbol sent, for the search
from the first entry, from the last, and for the 6-bit look-up
(`MsbDecodes`, `LsbDecodes`, `FastDecodes`). While a message is not over, the
next code and the sentinel are ahead (`Boundary`), which is why the 6-bit peek
of the fast decoder never fails. On a wire that was cut short, `IInv` keeps only
that the bits consumed are those of the codes of what was put out, which is
enough for the verdict and for `Advances`.

**The round trip.** The invariant (`IInv`) says what the wire *means*. `Ended`:
the recorded ends are the running sums of the widths, boundaries rounded up.
While the sender sends, the bits its writer keeps are, item by item, those the
items stand for, each in its own family, and as long as nothing has overrun they
end where the last item ends (`Kept`); between two families
the stream is at a byte boundary, where the position of a bit does not
depend on the family (`TurnsBetweenBytes`). The flush turns that into a
statement about the reader's memory (`OnWire`, `Padded`): every item whose end
is on the wire has its bits there, and if overflow is clear that is all of
them. While the receiver receives, its cache is a copy of the buffer
(`GoodReader`), what it has got is a prefix of what was sent, the reader stands
where that prefix ends (`InOrder`), further on by the bytes received of the
next item (`PartOfNext`). Each way of taking a field then returns its bits
because of where the reader stands and not of what it has prefetched:
`PeekThenSkip` is the one fact about two calls that this needs, `BytesOnWire`
that a bulk copy and fields of 8 bits see the same bytes in either family, and
`NoByteCopied` that a copy of no byte gives back all that is prefetched at a
boundary, so that the reader is good in the other family too. The refinement
goes action by action: a send is a send, a refused copy, a turn, a glance and a
part of the bytes stutter, a receipt is the abstract one because the item's
end is on the wire, and the receiver stops only where the abstract one may,
because a count of bits left that is too small means an end beyond the wire.

**The stored block.** The block is one sequence of bits (`Stream`), of which the
writer carries what has been put so far (`Encoding`). On a memory too small,
the bits go as far as there is room, but the literal is copied as a whole or
refused, so the wire is either the block or its first five bytes cut off
somewhere (`OnWire`). The decoder reads the part before the literal in fields
of at most a byte that do not cross a byte boundary, and therefore stands at
the smaller of the end of the part and the end of the wire (`InStep`). What it
has read up to there is the block if the block is there (`Decoded`); if not, it
stands at the end of the wire when it comes to the literal, and whatever length
it has made out of a cut one, a copy of a byte or more is refused. That is
`AllOrNothing` without the assertions, and with them the reason why the
decoder's never fail: the encoder's have stopped the program before.

**What the proofs changed in the models.** `CountMod` has to exceed the cache
width, or a legal count could wrap. The abstract skip of `BitSource` has to
allow all the counts the caller may use, not only those of reads. The starts of
`Loops` needed to be named as readers and writers (`StartsAssumption`).
Recursive sums became the cardinality of a set (`BitsOf`), a table (`FieldEnd`)
and a sum of four terms of four bits (`Number`). In `Transfer` the sum of the
widths up to an item became the history `ends`; the fields of 8 bits by which
bytes are received became one step each, where one step had read them all; and
`Channel`, which had a limit chosen beforehand, fixes the set of items that are
to arrive when the sender closes, since a wire cut short keeps a prefix of the
bits and later items of no bits (boundaries, empty copies) with it.

**Model-checked only.** `Terminates` of `Loops`: it is liveness under fairness,
which the provers do not reach, nor `ENABLED`. The two runs that show a
disagreement need no proof: a counterexample is one.

## 5. Not modelled

* The tests, whose assertions were read as statements of intent, and the
  Makefile.
* Floating point and output: `SensorProtocol` starts from raw temperatures and
  ends with the verdict; `Mp3Header` ends with whether the header is shown, and
  leaves out the tables and the text it is shown with.
* Arithmetic on `size_t` is in Nat: `bytes_left * 8` wraps only on memories that
  do not exist.
* An LSB skip of exactly the cache width, which is undefined, and other
  arguments outside the documented ranges, except long skips. Reading through
  a null pointer or a wrong `size` is outside the contract of init.
* Faults of a medium. Nothing is persisted or transmitted by this code; the one
  fault it meets, a memory that is too short anywhere, is in every model.
* Termination of the programs as a liveness property. They are straight lines
  and counted loops; the one loop that is not counted has `Advances`.

## 6. Plan

1. Done: the reader, the writer, their abstract specifications, the loops, all
   six example programs, the round trip and its abstract channel.
2. Done: proofs of all safety properties the runs check, and of the
   refinements of `BitSource`, `BitSink` and `Channel`.
3. Should the code grow: a new call belongs in `BitReader` or `BitWriter`, with
   its lemmas in `CallLemmas` and an action in `Reader` or `Writer`; a new
   program is a module like `StoredBlock`, whose invariant is the stream, how
   much of it the writer carries, and where the decoder stands on it.
