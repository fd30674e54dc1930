-------------------------------- MODULE Decoder --------------------------------
(***************************************************************************)
(* decompress and decompressStream (src/src/codec.cpp:110-136, 164-176,    *)
(* 252-300) given the same file, each a loop over the frames of a blocked  *)
(* container, or one call of decodeBlock for any other method.  decompress *)
(* returns all or nothing; decompressStream writes each block as soon as   *)
(* it is decoded.                                                          *)
(*                                                                         *)
(* A file is its header, then frames laid one after the other, cut off at  *)
(* some length.  What decodeBlock does with a payload is the set of        *)
(* lengths it can be decoded to; the stored method has exactly one.        *)
(***************************************************************************)
EXTENDS Framing

CONSTANTS
    FrameHeader,    \* kBlockHeaderSize: 9 in the code
    Foreign,        \* files from elsewhere
    MaxMade,        \* bound: the largest input compressed here
    MaxMadeBlock    \* bound: the largest block size it was compressed with

\* What the first n frames of a list take up and hold.
Totals(frames) ==
    LET Sum[n \in 0 .. Len(frames)] ==
            IF n = 0 THEN [bytes |-> 0, plain |-> 0]
            ELSE [bytes |-> Sum[n - 1].bytes + FrameHeader + frames[n].compressed,
                  plain |-> Sum[n - 1].plain + frames[n].uncompressed]
    IN  Sum

FrameBytes(frames) == Totals(frames)[Len(frames)].bytes

\* The frames of a blocked file are all those that its length leaves a header of.
IsFile(f) ==
    /\ f.size \in Nat /\ f.length \in Nat /\ Len(f.frames) \in Nat
    /\ \A n \in 1 .. Len(f.frames) :
          f.frames[n].uncompressed \in Nat /\ f.frames[n].compressed \in Nat
    /\ f.method = "blocked" => f.length < FrameBytes(f.frames) + FrameHeader

ASSUME DecoderAssumption ==
    /\ U32 \in Nat \ {0} /\ FrameHeader \in Nat \ {0}
    /\ MaxMade \in Nat /\ MaxMadeBlock \in Nat
    /\ \A f \in Foreign : IsFile(f) /\ ~f.ours

VARIABLES
    file,
    pc,             \* of each decoder
    verdict,        \* of each decoder: "running", "ok", or what it threw
    at,             \* bytes of the file consumed, after the header
    k,              \* frames consumed
    produced,       \* bytes produced
    out             \* the blocks delivered: which frame, how many bytes

vars == <<file, pc, verdict, at, k, produced, out>>

Decoders == {"memory", "stream"}

Block(frame, length) == [frame |-> frame, length |-> length]

\* decodeBlock either throws, or returns exactly the bytes asked of it.
Decodes(method, compressed, uncompressed, yields) ==
    \/ method = "stored" /\ compressed = uncompressed
    \/ method = "coded"  /\ uncompressed \in yields

FrameDecodes(f) == Decodes(f.method, f.compressed, f.uncompressed, f.yields)

------------------------------------------------------------------------------
\* The files that compress and compressStream make.

\* encodeBlock: a payload shorter than the block, or the block stored.  Huffman
\* codes one byte at a time, so its payload decodes to any beginning as well.
Payload(length, packed) ==
    IF packed
    THEN [method |-> "coded", compressed |-> 1, yields |-> 0 .. length]
    ELSE [method |-> "stored", compressed |-> length, yields |-> {}]

MadeFrame(piece, packed) ==
    LET payload == Payload(piece.block.encodes.len, packed)
    IN  [uncompressed |-> piece.uncompressed, compressed |-> payload.compressed,
         method |-> payload.method, yields |-> payload.yields]

Made(size, blockSize, packed) ==
    LET pieces == Container(size, blockSize)
        single == Payload(size, packed)
    IN  IF pieces[1].method = "blocked"
        THEN LET frames == [n \in 1 .. Len(pieces) - 1 |-> MadeFrame(pieces[n + 1], packed)]
             IN  [header |-> "whole", method |-> "blocked", size |-> size, yields |-> {},
                  frames |-> frames, length |-> FrameBytes(frames), ours |-> TRUE]
        ELSE [header |-> "whole", method |-> IF size = 0 THEN "stored" ELSE single.method,
              size |-> size, yields |-> single.yields, frames |-> << >>,
              length |-> IF size = 0 THEN 0 ELSE single.compressed, ours |-> TRUE]

\* A stored payload too long for its own length field is left out: what a
\* decoder finds after it depends on the bytes of the payload.
MadeWith ==
    {m \in [size : 0 .. MaxMade, blockSize : 0 .. MaxMadeBlock, packed : BOOLEAN] :
        m.packed \/ m.blockSize < U32}

MadeFiles == {Made(m.size, m.blockSize, m.packed) : m \in MadeWith}

------------------------------------------------------------------------------

TypeOK ==
    /\ pc \in [Decoders -> {"open", "blocks", "ended"}]
    /\ verdict \in [Decoders -> {"running", "ok", "corrupt", "write"}]
    /\ \A d \in Decoders :
          /\ at[d] \in 0 .. file.length
          /\ produced[d] \in 0 .. file.size
          /\ k[d] \in 0 .. Len(file.frames)

Init ==
    /\ file \in Foreign \cup MadeFiles
    /\ pc = [d \in Decoders |-> "open"]
    /\ verdict = [d \in Decoders |-> "running"]
    /\ at = [d \in Decoders |-> 0]
    /\ k = [d \in Decoders |-> 0]
    /\ produced = [d \in Decoders |-> 0]
    /\ out = [d \in Decoders |-> << >>]

End(d, why) ==
    /\ pc' = [pc EXCEPT ![d] = "ended"]
    /\ verdict' = [verdict EXCEPT ![d] = why]
    /\ UNCHANGED <<file, at, k>>

\* CorruptInput, or a failed write: decompress then returns nothing, and what
\* decompressStream has written stays written.
Throw(d, why) ==
    /\ End(d, why)
    /\ produced' = IF d = "memory" THEN [produced EXCEPT ![d] = 0] ELSE produced
    /\ out' = IF d = "memory" THEN [out EXCEPT ![d] = << >>] ELSE out

Return(d) == End(d, "ok") /\ UNCHANGED <<produced, out>>

RefuseHeader(d) ==
    /\ pc[d] = "open"
    /\ file.header # "whole"
    /\ Throw(d, "corrupt")

\* Any method but blocked: one block takes up the rest of the file.
WholeDecodes == Decodes(file.method, file.length, file.size, file.yields)

DecodeWhole(d) ==
    /\ pc[d] = "open"
    /\ file.header = "whole"
    /\ file.method # "blocked"
    /\ WholeDecodes
    /\ End(d, "ok")
    /\ produced' = [produced EXCEPT ![d] = file.size]
    /\ out' = [out EXCEPT ![d] = <<Block(0, file.size)>>]

DecodeWholeFails(d) ==
    /\ pc[d] = "open"
    /\ file.header = "whole"
    /\ file.method # "blocked"
    /\ \/ ~WholeDecodes /\ Throw(d, "corrupt")
       \/ WholeDecodes /\ d = "stream" /\ file.size > 0 /\ Throw(d, "write")

OpenBlocked(d) ==
    /\ pc[d] = "open"
    /\ file.header = "whole"
    /\ file.method = "blocked"
    /\ pc' = [pc EXCEPT ![d] = "blocks"]
    /\ UNCHANGED <<file, verdict, at, k, produced, out>>

\* Mutant: the loop goes on to the end of the file.
MoreBlocks_ToTheEnd(d) == at[d] < file.length

MoreBlocks(d) == produced[d] < file.size

EndBlocks(d) ==
    /\ pc[d] = "blocks"
    /\ ~MoreBlocks(d)
    /\ Return(d)

Remaining(d) == file.length - at[d]

HeaderWhole(d) == Remaining(d) >= FrameHeader

NextFrame(d) == file.frames[k[d] + 1]

PayloadWhole(d) == Remaining(d) >= FrameHeader + NextFrame(d).compressed

Fits(d) == NextFrame(d).uncompressed <= file.size - produced[d]

Advance(d) ==
    /\ at' = [at EXCEPT ![d] = @ + FrameHeader + NextFrame(d).compressed]
    /\ k' = [k EXCEPT ![d] = @ + 1]
    /\ produced' = [produced EXCEPT ![d] = @ + NextFrame(d).uncompressed]
    /\ out' = [out EXCEPT ![d] = Append(@, Block(k[d] + 1, NextFrame(d).uncompressed))]
    /\ UNCHANGED <<file, pc, verdict>>

\* One turn of either loop.  The two ask the same questions in another order:
\* decompressStream cannot know that a payload is short before it reads it.
MemoryBlock ==
    /\ pc["memory"] = "blocks"
    /\ MoreBlocks("memory")
    /\ IF HeaderWhole("memory") /\ PayloadWhole("memory") /\ Fits("memory")
          /\ FrameDecodes(NextFrame("memory"))
       THEN Advance("memory")
       ELSE Throw("memory", "corrupt")

\* Mutant: a block is written before it is known to decode.
StreamBlock_Eager ==
    /\ pc["stream"] = "blocks"
    /\ MoreBlocks("stream")
    /\ IF HeaderWhole("stream") /\ Fits("stream") /\ PayloadWhole("stream")
       THEN Advance("stream")
       ELSE Throw("stream", "corrupt")

\* Mutant: a block that does not decode is skipped.
StreamBlock_Skips ==
    /\ pc["stream"] = "blocks"
    /\ MoreBlocks("stream")
    /\ IF HeaderWhole("stream") /\ Fits("stream") /\ PayloadWhole("stream")
       THEN \/ FrameDecodes(NextFrame("stream")) /\ Advance("stream")
            \/ /\ ~FrameDecodes(NextFrame("stream"))
               /\ at' = [at EXCEPT !["stream"] = @ + FrameHeader + NextFrame("stream").compressed]
               /\ k' = [k EXCEPT !["stream"] = @ + 1]
               /\ UNCHANGED <<file, pc, verdict, produced, out>>
       ELSE Throw("stream", "corrupt")

\* Mutant: a short read is tried again.
StreamBlock_WaitsForMore ==
    /\ pc["stream"] = "blocks"
    /\ MoreBlocks("stream")
    /\ IF HeaderWhole("stream") /\ Fits("stream") /\ PayloadWhole("stream")
          /\ FrameDecodes(NextFrame("stream"))
       THEN Advance("stream")
       ELSE UNCHANGED vars

StreamBlock ==
    /\ pc["stream"] = "blocks"
    /\ MoreBlocks("stream")
    /\ IF HeaderWhole("stream") /\ Fits("stream") /\ PayloadWhole("stream")
          /\ FrameDecodes(NextFrame("stream"))
       THEN \/ Advance("stream")
            \/ NextFrame("stream").uncompressed > 0 /\ Throw("stream", "write")
       ELSE Throw("stream", "corrupt")

Over ==
    /\ \A d \in Decoders : pc[d] = "ended"
    /\ UNCHANGED vars

Run(d) ==
    \/ RefuseHeader(d)
    \/ DecodeWhole(d)
    \/ DecodeWholeFails(d)
    \/ OpenBlocked(d)
    \/ EndBlocks(d)

Step == MemoryBlock \/ StreamBlock \/ \E d \in Decoders : Run(d)

Next == Step \/ Over

Spec == Init /\ [][Next]_vars

\* Each decoder is one sequential call.
FairSpec == Spec /\ WF_vars(Step)

------------------------------------------------------------------------------
\* Properties

Upto == Totals(file.frames)

\* The first n frames are the file: they are whole, they decode, and they make
\* up the declared size and not before the last of them.
IsTheFile(n) ==
    /\ Upto[n].plain = file.size
    /\ Upto[n].bytes <= file.length
    /\ \A m \in 1 .. n : Upto[m - 1].plain < file.size /\ FrameDecodes(file.frames[m])

Decodable ==
    /\ file.header = "whole"
    /\ IF file.method = "blocked"
       THEN \E n \in 0 .. Len(file.frames) : IsTheFile(n)
       ELSE WholeDecodes

(***************************************************************************)
(* Each decoder succeeds exactly on the files of which some first frames   *)
(* are whole, decode and add up to the declared size, whatever order it    *)
(* asks its questions in (codec.cpp:117-134, 277-299).  What follows those *)
(* frames is not looked at, against codec.h:46-47: see OnlyWholeFiles.     *)
(***************************************************************************)
VerdictRight ==
    \A d \in Decoders :
        /\ verdict[d] = "ok" => Decodable /\ produced[d] = file.size
        /\ verdict[d] = "corrupt" => ~Decodable

(***************************************************************************)
(* decompress "throws CorruptInput on anything this codec did not produce" *)
(* (codec.h:46-47): a blocked container made here ends with the last frame *)
(* it needs, so one that goes on is refused.  The loops end at the         *)
(* declared size and do not see it (codec.cpp:117, 277).                   *)
(***************************************************************************)
OnlyWholeFiles ==
    file.method = "blocked" => \A d \in Decoders : verdict[d] = "ok" => at[d] = file.length

(***************************************************************************)
(* The two decoders, two code paths that are supposed to agree, do         *)
(* (codec.h:54-57): same verdict, same bytes, unless a write failed.       *)
(***************************************************************************)
DecodersAgree ==
    (\A d \in Decoders : verdict[d] \in {"ok", "corrupt"}) =>
        /\ verdict["memory"] = verdict["stream"]
        /\ verdict["memory"] = "ok" => out["memory"] = out["stream"]

(***************************************************************************)
(* What decompressStream wrote before it threw is the blocks before the    *)
(* bad one, every one of them whole and decoded: a reader of a file that   *)
(* turns out corrupt has a true beginning of it (codec.cpp:294-298).       *)
(***************************************************************************)
WrittenIsDecoded ==
    file.method = "blocked" =>
        /\ Len(out["stream"]) = k["stream"]
        /\ \A n \in DOMAIN out["stream"] :
              /\ out["stream"][n] = Block(n, file.frames[n].uncompressed)
              /\ FrameDecodes(file.frames[n])

(***************************************************************************)
(* Neither decoder reads past its file or produces more than was declared, *)
(* and what was written before an error is right (codec.cpp:116-129,       *)
(* 275-299).                                                               *)
(***************************************************************************)
Inv == TypeOK /\ WrittenIsDecoded

(***************************************************************************)
(* decompress "reverses compress(), whichever method it chose"             *)
(* (codec.h:46), and decompressStream does too.                            *)
(***************************************************************************)
OwnFilesDecode ==
    file.ours => \A d \in Decoders :
        /\ verdict[d] # "corrupt"
        /\ verdict[d] = "ok" => at[d] = file.length \/ file.method # "blocked"

(***************************************************************************)
(* Both decoders return or throw, on any file.                             *)
(***************************************************************************)
Terminates == <>(\A d \in Decoders : pc[d] = "ended")
==============================================================================
