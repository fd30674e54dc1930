--------------------------------- MODULE BitIO ---------------------------------
(***************************************************************************)
(* BitWriter of src/src/bitio.h: values of any number of bits packed into  *)
(* bytes, most significant bit first.  A byte has ByteBits bits, the       *)
(* accumulator has AccBits, and the bits above the pending ones are never  *)
(* cleared.                                                                *)
(***************************************************************************)
EXTENDS Bits

CONSTANTS
    ByteBits,   \* 8 in the code
    AccBits,    \* 64 in the code
    MaxCount    \* 32 in the code: the most bits of one write

\* "Worst case here is 7 + 32 = 39 bits, which is why acc_ is 64 bits wide."
ASSUME BitIOAssumption ==
    /\ ByteBits \in Nat \ {0}
    /\ MaxCount \in Nat
    /\ AccBits \in Nat
    /\ ByteBits - 1 + MaxCount <= AccBits
    /\ PowersDouble(AccBits) /\ PowersDouble(2 * ByteBits)

Byte == 0 .. 2 ^ ByteBits - 1

NewWriter == [out |-> << >>, acc |-> 0, nbits |-> 0]

\* (acc_ << count) | masked
Appended(acc, value, count) == ((acc * 2 ^ count) + (value % 2 ^ count)) % 2 ^ AccBits

\* The bytes that leave an accumulator of n bits.
Emitted(acc, n) ==
    [j \in 1 .. n \div ByteBits |-> (acc \div 2 ^ (n - j * ByteBits)) % 2 ^ ByteBits]

\* writeBits.  Writing no bits at all changes nothing.
Wrote(writer, value, count) ==
    LET acc == Appended(writer.acc, value, count)
        n   == writer.nbits + count
    IN  [out   |-> writer.out \o Emitted(acc, n),
         acc   |-> acc,
         nbits |-> n % ByteBits]

\* Mutant: the pending bits are not moved up to the top of the last byte.
Flushed_Low(writer) ==
    IF writer.nbits > 0 THEN Append(writer.out, writer.acc % 2 ^ ByteBits) ELSE writer.out

\* flush and take: the last byte is padded with zeros.
Flushed(writer) ==
    IF writer.nbits > 0
    THEN Append(writer.out, (writer.acc * 2 ^ (ByteBits - writer.nbits)) % 2 ^ ByteBits)
    ELSE writer.out

------------------------------------------------------------------------------
(***************************************************************************)
(* What a writer holds: the bits in its bytes, and those pending.          *)
(***************************************************************************)
Held(writer) == UnpackedBits(writer.out, ByteBits) \o LowBits(writer.acc, writer.nbits)
==============================================================================
