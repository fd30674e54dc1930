\* Blocked containers followed by something else.
CONSTANTS
    U32 = 16
    FrameHeader = 2
    Foreign <- MCForeign
    MaxMade = 6
    MaxMadeBlock = 3
SPECIFICATION Spec
INVARIANT OnlyWholeFiles
