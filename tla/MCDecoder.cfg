\* Every foreign file of up to two small frames cut off anywhere, and every
\* file made here from up to 6 bytes.
CONSTANTS
    U32 = 16
    FrameHeader = 2
    Foreign <- MCForeign
    MaxMade = 6
    MaxMadeBlock = 3
SPECIFICATION FairSpec
INVARIANTS
    VerdictRight
    DecodersAgree
    Inv
    OwnFilesDecode
PROPERTY Terminates
