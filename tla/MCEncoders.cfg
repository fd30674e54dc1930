\* Every input of up to 7 bytes, block sizes 0 (the default, or no blocking) to 3,
\* up to 3 threads, streams shorter and longer than declared.
CONSTANTS
    U32 = 16
    MaxTotal = 7
    MaxBlockSize = 3
    MaxThreads = 3
    DefaultBlockSize = 2
    Hardware = 2
    MemoryHardware = 0
SPECIFICATION MCSpec
INVARIANTS
    SlotsRight
    ShortInputReported
    FailedBatchUnwritten
    ReadAheadBounded
PROPERTY OneContainer
