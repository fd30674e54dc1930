\* Every block or parse of a few bytes, every payload of up to 7 bytes for the
\* LZ77 and Huffman decoders, every small table for the DEFLATE one.
CONSTANTS
    AlphabetSize = 6
    Frequencies = {0, 1, 2, 4, 8}
    ByteBits = 2
    AccBits = 4
    MaxCount = 3
    MaxCodeLength = 3
    LengthBase <- SmallLengthBase
    LengthExtra <- SmallLengthExtra
    DistBase <- SmallDistBase
    DistExtra <- SmallDistExtra
    MaxMatch = 4
    MaxDistance = 4
    FirstLengthSymbol = 2
    Direct = 2
    BucketSize = 2
    Windows <- MCWindows
    MinMatches <- MCMinMatches
    Configs <- MCConfigs
    Blocks <- MCBlocks
    Parses <- MCParses
    Budgets <- MCBudgets
    Foreign <- MCForeign
    Originals <- MCOriginals
SPECIFICATION MCSpec
INVARIANTS
    Inv
    PrefixCode
    CodesDecode
    Optimal
    BlockKept
    Lossless
    DecodesSoundly
