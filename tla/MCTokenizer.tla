------------------------------ MODULE MCTokenizer ------------------------------
(***************************************************************************)
(* Small instances of Tokenizer for TLC, and the tables of deflate.cpp as  *)
(* they are, which take the references of its tokens apart.                *)
(***************************************************************************)
EXTENDS Tokenizer, DeflateTables

\* Two hash functions: some triples collide, all do.
Triples == Alphabet \X Alphabet \X Alphabet
MCHashes ==
    <<[t \in Triples |-> (2 * t[1] + t[2] + t[3]) % 4],
      [t \in Triples |-> 0]>>

RealLengthBase ==
    <<3, 4, 5, 6, 7, 8, 9, 10, 11, 13, 15, 17, 19, 23, 27, 31, 35, 43, 51, 59,
      67, 83, 99, 115, 131, 163, 195, 227, 258>>
RealLengthExtra ==
    <<0, 0, 0, 0, 0, 0, 0, 0, 1, 1, 1, 1, 2, 2, 2, 2, 3, 3, 3, 3,
      4, 4, 4, 4, 5, 5, 5, 5, 0>>
RealDistBase ==
    <<1, 2, 3, 4, 5, 7, 9, 13, 17, 25, 33, 49, 65, 97, 129, 193, 257, 385, 513, 769,
      1025, 1537, 2049, 3073, 4097, 6145, 8193, 12289, 16385, 24577>>
RealDistExtra ==
    <<0, 0, 0, 0, 1, 1, 2, 2, 3, 3, 4, 4, 5, 5, 6, 6, 7, 7, 8, 8,
      9, 9, 10, 10, 11, 11, 12, 12, 13, 13>>

(***************************************************************************)
(* Once the tokens are made, whatever they are they can be written as      *)
(* DEFLATE writes them: every length 3 .. 258 and every distance 1 ..      *)
(* 32768 is put together again from its symbol and extra bits, which hold  *)
(* its place in the range and which the decoder expects as many of; and    *)
(* the symbol is the last whose range begins at or before it: the greatest *)
(* length has a symbol of its own (deflate.cpp:15-18, 39-43, 91-120).      *)
(***************************************************************************)
SplitJoins == pc = "done" => LengthsJoin /\ DistancesJoin
==============================================================================
