\* The same options given to compressStream and to compress.
CONSTANTS
    U32 = 16
    MaxTotal = 3
    MaxBlockSize = 1
    MaxThreads = 1
    DefaultBlockSize = 2
    Hardware = 1
SPECIFICATION Spec
INVARIANT SameAsMemory
