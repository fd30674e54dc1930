\* Every input of up to 9 bits: more than two windows of 4, and the shortest on
\* which looking ahead finds a longer match; the tables of DEFLATE as they are.
CONSTANTS
    Alphabet = {0, 1}
    MaxSize = 9
    Hashes <- MCHashes
    Buckets = {0, 1, 2, 3}
    MinWindowBits = 2
    MaxWindowBits = 4
    WindowBits = {2,3}
    MinMatches = {3, 4}
    ChainLengths = {0, 1, 8}
    MaxExtra = 2
    LengthBase <- RealLengthBase
    LengthExtra <- RealLengthExtra
    DistBase <- RealDistBase
    DistExtra <- RealDistExtra
    MaxMatch = 258
    MaxDistance = 32768
    FirstLengthSymbol = 257
    Direct = 256
    BucketSize = 128
SPECIFICATION Spec
INVARIANTS
    ChainsSound
    Inv
    SearchExact
    LookaheadRepeats
    RoundTrip
    SplitJoins
PROPERTIES
    WalkGoesBack
    Contract
