------------------------------ MODULE MCBlockCodec ------------------------------
(***************************************************************************)
(* What a block is coded with and what it is coded to, one or the other in *)
(* a behaviour: Huffman makes the lengths of a code, or BlockCodec codes a *)
(* block.  Bytes have 2 bits and codes up to 3; the tables of lengths and  *)
(* distances have three codes each.  The lengths are 2 .. 4, of which the  *)
(* greatest also fits in the range before it, as 258 does; the distances   *)
(* are 1 .. 4.                                                             *)
(***************************************************************************)
EXTENDS Huffman, BlockCodec

SmallLengthBase  == <<2, 3, 4>>
SmallLengthExtra == <<0, 1, 0>>
SmallDistBase    == <<1, 2, 3>>
SmallDistExtra   == <<0, 0, 1>>

MCWindows    == [lz77 |-> {1, 3}, deflate |-> {1, 2}]
MCMinMatches == [lz77 |-> {2, 3}]
MCConfigs ==
    [deflate |-> [windowBits : {1, 2, 3}, minMatch : {2}]
                    \cup {[windowBits |-> 2, minMatch |-> 3]}]

MCBlocks == [huffman |-> BoundedSeq(Byte, 4) \ {<< >>}]

\* For "lz77" distances need both of their bytes and lengths all of their field.
MCParses ==
    [lz77    |-> ParsesUpTo(6, {0, 3}, {1, 2, 5}, 2 .. 6) \ {<< >>},
     deflate |-> ParsesUpTo(6, {0}, 1 .. 3, 2 .. 4) \ {<< >>}]

\* Met exactly by some of the payloads, and by all.
MCBudgets == [m \in Coders |-> IF m = "deflate" THEN {10, 100} ELSE {6, 100}]

\* Tables for the literal, the end of block, two lengths and two distances.
ForeignDeflate ==
    LET Header(w, hlit, hdist) == <<w, hlit % 4, hlit \div 4, hdist>>
        Tables == {a \o b : a \in TupleOf(0 .. 2, 4), b \in TupleOf(0 .. 1, 2)}
        Illegal == {<<3, 1, 1, 1, 1, 1>>, <<1, 1, 1, 1, 1, 3>>}
    IN  {Header(2, 4, 2) \o t \o s : t \in Tables \cup Illegal, s \in BoundedSeq(Byte, 3)}
        \cup {Header(1, 4, 2) \o <<1, 0, 2, 2, 1, 1>> \o s : s \in BoundedSeq(Byte, 4)}
        \cup {Header(w, hlit, hdist) \o <<1, 0, 2, 2, 1, 1>> :
                    w \in 0 .. 3, hlit \in {0, 1, 4, 6}, hdist \in {0, 2, 3}}
        \cup BoundedSeq(Byte, 4)

MCForeign ==
    [lz77    |-> BoundedSeq(Byte, 7),
     huffman |-> BoundedSeq(Byte, 6),
     deflate |-> ForeignDeflate,
     stored  |-> BoundedSeq(Byte, 2)]

MCOriginals ==
    [lz77 |-> 0 .. 5, huffman |-> {0, 3}, deflate |-> {1, 4}, stored |-> 0 .. 3]

------------------------------------------------------------------------------

mcVars == <<vars, codecVars>>

\* Of the one that is not at work.
HuffmanIdle == freq = [s \in Symbols |-> 0] /\ Init

CodecIdle ==
    /\ method = "none" /\ stage = "idle"
    /\ budget = 0 /\ payload = << >> /\ original = 0 /\ i = 0 /\ decoded = << >>
    /\ tokens = << >> /\ pos = 0 /\ writer = NewWriter
    /\ LzIdle /\ HuIdle /\ DfIdle

MCInit == (HuffmanIdle /\ CodecInit) \/ (CodecIdle /\ Init)

MCNext ==
    \/ method = "none" /\ Next /\ UNCHANGED codecVars
    \/ CodecNext /\ UNCHANGED vars

MCSpec == MCInit /\ [][MCNext]_mcVars
==============================================================================
