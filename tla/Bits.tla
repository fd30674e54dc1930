---------------------------------- MODULE Bits ----------------------------------
(***************************************************************************)
(* Streams of bits, most significant first, as sequences, and the bits of  *)
(* a stream of bytes of byteBits bits, in the order in which BitReader     *)
(* takes them out (src/src/bitio.h:75-115).                                *)
(***************************************************************************)
EXTENDS Integers, Sequences

\* Arithmetic, assumed of the widths below because the provers know nothing of powers.
PowersDouble(width) ==
    /\ 2 ^ 0 = 1
    /\ \A n \in 0 .. width : 2 ^ n \in Nat \ {0} /\ 2 ^ (n + 1) = 2 * 2 ^ n

\* The low n bits of a value.
LowBits(value, n) == [i \in 1 .. n |-> (value \div 2 ^ (n - i)) % 2]

\* The value of bits.
Value(bits) ==
    LET value[k \in 0 .. Len(bits)] == IF k = 0 THEN 0 ELSE 2 * value[k - 1] + bits[k]
    IN  value[Len(bits)]

BytesFor(bitCount, byteBits) == (bitCount + byteBits - 1) \div byteBits

UnpackedBits(bytes, byteBits) ==
    [k \in 1 .. Len(bytes) * byteBits |->
        LowBits(bytes[1 + (k - 1) \div byteBits], byteBits)[1 + ((k - 1) % byteBits)]]
==============================================================================
