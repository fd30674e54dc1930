----------------------------- MODULE DeflateTables -----------------------------
(***************************************************************************)
(* The length and distance codes of src/src/deflate.cpp:15-120.  A code    *)
(* stands for a range of values; a value is written as the code and its    *)
(* place in the range ("extra" bits).  The encoder finds the code of a     *)
(* value in tables that a constructor fills range after range, so an entry *)
(* holds the last code written to it, and distances above Direct share     *)
(* entries in buckets.                                                     *)
(*                                                                         *)
(* Codes are numbered from 0, the sequences below from 1.                  *)
(***************************************************************************)
EXTENDS Integers, Sequences, FiniteSetsExt

CONSTANTS
    LengthBase, LengthExtra,    \* kLengthBase, kLengthExtra
    DistBase, DistExtra,        \* kDistBase, kDistExtra
    MaxMatch,                   \* kMaxMatch: 258
    MaxDistance,                \* 1 << kMaxWindowBits: 32768
    FirstLengthSymbol,          \* kFirstLengthSymbol: 257
    Direct,                     \* 256: distances with an entry of their own
    BucketSize                  \* 128: how many distances share one above that

MinMatch == LengthBase[1]

LengthCodes   == 0 .. Len(LengthBase) - 1
DistanceCodes == 0 .. Len(DistBase) - 1

LastLength(i)   == IF i + 1 \in LengthCodes THEN LengthBase[i + 2] - 1 ELSE MaxMatch
LastDistance(c) == IF c + 1 \in DistanceCodes THEN DistBase[c + 2] - 1 ELSE MaxDistance

\* Ranges that follow each other, each of which fits its extra bits.
AreRanges(base, extra, last(_)) ==
    /\ base \in Seq(Nat \ {0}) /\ base # << >>
    /\ extra \in Seq(Nat) /\ Len(extra) = Len(base)
    /\ \A i \in 0 .. Len(base) - 1 :
          last(i) \in Nat /\ last(i) - base[i + 1] \in 0 .. 2 ^ extra[i + 1] - 1

\* No two ranges share a bucket.
ASSUME TablesAssumption ==
    /\ AreRanges(LengthBase, LengthExtra, LastLength)
    /\ AreRanges(DistBase, DistExtra, LastDistance)
    /\ DistBase[1] = 1
    /\ FirstLengthSymbol \in Nat \ {0}
    /\ Direct \in Nat /\ BucketSize \in Nat \ {0}
    /\ \A c \in DistanceCodes :
          DistBase[c + 1] > Direct => (DistBase[c + 1] - 1) % BucketSize = 0

\* What the loops leave in an entry written for some codes, in order.
Entry(codes) == IF codes = {} THEN 0 ELSE Max(codes)

LengthIndex ==
    [length \in MinMatch .. MaxMatch |->
        Entry({i \in LengthCodes : length \in LengthBase[i + 1] .. LastLength(i)})]

DistLow ==
    [n \in 0 .. Direct - 1 |->
        Entry({c \in DistanceCodes : n + 1 \in DistBase[c + 1] .. LastDistance(c)})]

\* Mutant: buckets twice as wide.
Bucket_Wide(distance) == (distance - 1) \div (2 * BucketSize)

Bucket(distance) == (distance - 1) \div BucketSize

DistHigh ==
    [b \in 0 .. Bucket(MaxDistance) |->
        Entry({c \in DistanceCodes :
            LET low == Max({DistBase[c + 1], Direct + 1})
            IN  low <= LastDistance(c) /\ b \in Bucket(low) .. Bucket(LastDistance(c))})]

Split(symbol, extraBits, extraValue) ==
    [symbol |-> symbol, extraBits |-> extraBits, extraValue |-> extraValue]

\* splitLength and splitDistance throw on anything else.
SplittableLength(length)     == length \in MinMatch .. MaxMatch
SplittableDistance(distance) == distance \in 1 .. MaxDistance

SplitLength(length) ==
    LET index == LengthIndex[length]
    IN  Split(FirstLengthSymbol + index, LengthExtra[index + 1], length - LengthBase[index + 1])

SplitDistance(distance) ==
    LET code == IF distance <= Direct THEN DistLow[distance - 1] ELSE DistHigh[Bucket(distance)]
    IN  Split(code, DistExtra[code + 1], distance - DistBase[code + 1])

\* What the decoder looks up.
LengthStart(symbol)     == LengthBase[symbol - FirstLengthSymbol + 1]
LengthExtraBits(symbol) == LengthExtra[symbol - FirstLengthSymbol + 1]
DistanceStart(code)     == DistBase[code + 1]
DistanceExtraBits(code) == DistExtra[code + 1]

\* The symbol is the last of its codes whose range begins at or before the value.
LastBegun(base, value) == Max({n \in DOMAIN base : base[n] <= value}) - 1

LengthsJoin ==
    \A length \in MinMatch .. MaxMatch :
        LET split == SplitLength(length)
        IN  /\ LengthStart(split.symbol) + split.extraValue = length
            /\ split.extraValue \in 0 .. 2 ^ split.extraBits - 1
            /\ split.extraBits = LengthExtraBits(split.symbol)
            /\ split.symbol - FirstLengthSymbol = LastBegun(LengthBase, length)

DistancesJoin ==
    \A distance \in 1 .. MaxDistance :
        LET split == SplitDistance(distance)
        IN  /\ DistanceStart(split.symbol) + split.extraValue = distance
            /\ split.extraValue \in 0 .. 2 ^ split.extraBits - 1
            /\ split.extraBits = DistanceExtraBits(split.symbol)
            /\ split.symbol = LastBegun(DistBase, distance)
==============================================================================
