------------------------------- MODULE Framing -------------------------------
(***************************************************************************)
(* The container of src/src/codec.cpp and format.h, as a sequence of       *)
(* pieces: one header, then either the payload of a single block or a      *)
(* frame for each of several blocks.                                       *)
(*                                                                         *)
(* A stretch of the input is named by where it starts and how long it is,  *)
(* so two different stretches are never confused; encodeBlock is a         *)
(* function of the stretch it is given, and is left opaque.                *)
(***************************************************************************)
EXTENDS Integers, Sequences

CONSTANT U32        \* 2^32 in the code: one more than a length field can hold

Least(a, b)    == IF a < b THEN a ELSE b
Greatest(a, b) == IF a > b THEN a ELSE b

\* resolveThreadCount: zero or less asks the hardware, which may not know.
ResolveThreadCount(requested, hardware) ==
    IF requested > 0 THEN requested ELSE IF hardware = 0 THEN 1 ELSE hardware

\* Mutant: an input that is a whole number of blocks gets an empty one as well.
BlockCountFor_OneMore(size, blockSize) == size \div blockSize + 1

BlockCountFor(size, blockSize) == (size + blockSize - 1) \div blockSize

\* A block size of 0 disables blocking.
ShouldBlock(size, blockSize) == blockSize > 0 /\ size > blockSize

Stretch(from, len) == [from |-> from, len |-> len]

\* The stretch that is block k of an input.
BlockOf(k, size, blockSize) ==
    Stretch(k * blockSize, Least(blockSize, size - k * blockSize))

\* EncodedBlock: what encodeBlock makes of a stretch, and one never assigned.
EncodeBlock(stretch) == [encodes |-> stretch]
NoBlock == EncodeBlock(Stretch(0, 0))

\* putHeader.  "single" is whichever method encodeBlock chose.
Header(method, size) == [piece |-> "header", method |-> method, size |-> size]

\* appendBlock: the uncompressed length is cast to uint32.
Frame(len, block) == [piece |-> "frame", uncompressed |-> len % U32, block |-> block]

SingleBlock(size) ==
    IF size = 0
    THEN <<Header("stored", 0)>>
    ELSE <<Header("single", size),
           [piece |-> "payload", block |-> EncodeBlock(Stretch(0, size))]>>

Blocked(size, blockSize) ==
    [p \in 1 .. 1 + BlockCountFor(size, blockSize) |->
        IF p = 1
        THEN Header("blocked", size)
        ELSE LET stretch == BlockOf(p - 2, size, blockSize)
             IN  Frame(stretch.len, EncodeBlock(stretch))]

\* The one container that an input of this size has for this block size.
Container(size, blockSize) ==
    IF ShouldBlock(size, blockSize) THEN Blocked(size, blockSize) ELSE SingleBlock(size)
==============================================================================
