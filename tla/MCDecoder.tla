------------------------------- MODULE MCDecoder -------------------------------
\* Small instances of Decoder for TLC.
EXTENDS Decoder

\* Stored frames of every pair of lengths, coded frames that decode to some
\* lengths or to none, and a frame that claims to be blocked itself.
StoredFrames == [uncompressed : 0 .. 2, compressed : 0 .. 2, method : {"stored"}, yields : {{}}]
CodedFrames  == [uncompressed : 0 .. 2, compressed : {1}, method : {"coded"},
                 yields : {{}, {0, 2}, {0, 1, 2}}]
NestedFrames == [uncompressed : {1}, compressed : {1}, method : {"blocked"}, yields : {{0, 1}}]
Frames       == StoredFrames \cup CodedFrames \cup NestedFrames

FrameLists == {<< >>} \cup {<<f>> : f \in Frames} \cup {<<f, g>> : f \in Frames, g \in Frames}

\* Blocked containers cut off anywhere, or followed by less than a header.
ForeignBlocked ==
    UNION {[header : {"whole"}, method : {"blocked"}, size : 0 .. 3, yields : {{}},
            frames : {frames}, length : 0 .. FrameBytes(frames) + FrameHeader - 1, ours : {FALSE}] :
           frames \in FrameLists}

ForeignSingle ==
    [header : {"whole", "short", "magic", "version"},
     method : {"stored", "coded", "unknown"}, size : 0 .. 2, yields : {{}, {0, 2}, {0, 1, 2}},
     frames : {<< >>}, length : 0 .. 2, ours : {FALSE}]

MCForeign == ForeignBlocked \cup ForeignSingle

\* No file but the codec's own.
NoForeign == {}
==============================================================================
