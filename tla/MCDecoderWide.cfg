\* A block longer than its length field can say.
CONSTANTS
    U32 = 4
    FrameHeader = 2
    Foreign <- NoForeign
    MaxMade = 12
    MaxMadeBlock = 6
SPECIFICATION Spec
INVARIANT OwnFilesDecode
