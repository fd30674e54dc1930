----------------------------- MODULE HuffmanPayload -----------------------------
(***************************************************************************)
(* The payload of a Huffman block (src/src/block.cpp:13-100): how many     *)
(* symbols have a code, each of them with the length of its code, and the  *)
(* bytes of the block as one stream of bits.  A step is one turn of the    *)
(* loop of encodeHuffman or of decodeHuffman.                              *)
(*                                                                         *)
(* The lengths are any that huffman::buildLengths promises.  A reader of   *)
(* bits is its place in the bits of the bytes, as in Deflate.              *)
(***************************************************************************)
EXTENDS CanonicalCode, BitIO, SequencesExt

CONSTANTS
    Blocks,         \* the blocks encoded; encodeBlock never asks for an empty one
    Budgets,        \* the sizes at which encodeHuffman gives up
    Foreign,        \* the payloads decoded that no encoder wrote
    Originals       \* the sizes they are decoded to

VARIABLES
    data, budget,   \* what is encoded
    lengths,        \* the table of code lengths
    writer, i,      \* the stream, and how much of data is in it
    payload,
    original,       \* the size decoded to
    pos,            \* how many bits are read
    decoded,        \* the bytes read
    pc

input == <<data, budget, original>>

NoCodes == [s \in Byte |-> 0]

Init ==
    /\ lengths = NoCodes
    /\ writer = NewWriter
    /\ i = 0
    /\ pos = 0
    /\ decoded = << >>
    /\ \/ /\ data \in Blocks
          /\ budget \in Budgets
          /\ payload = << >>
          /\ original = Len(data)
          /\ pc = "plan"
       \/ /\ data = << >>
          /\ budget = 0
          /\ payload \in Foreign
          /\ original \in Originals
          /\ pc = "open"

------------------------------------------------------------------------------
\* encodeHuffman

Freq     == [s \in Byte |-> Cardinality({n \in DOMAIN data : data[n] = s})]
Distinct == Cardinality(Coded(lengths))
PayloadBits == BitsTaken(Freq, lengths, 2 ^ ByteBits)

\* The exact size, known before anything is written.
Total == 1 + 2 * Distinct + BytesFor(PayloadBits, ByteBits)

Plan ==
    /\ pc = "plan"
    /\ lengths' \in CodeLengths(Byte, {s \in Byte : Freq[s] # 0})
    /\ pc' = "write"
    /\ UNCHANGED <<input, writer, i, payload, pos, decoded>>

\* "Not worth it": the block is stored.
GiveUp ==
    /\ pc = "write"
    /\ i = 0
    /\ Total >= budget
    /\ pc' = "stored"
    /\ UNCHANGED <<input, lengths, writer, i, payload, pos, decoded>>

WriteSymbol ==
    /\ pc = "write"
    /\ Total < budget
    /\ i < Len(data)
    /\ writer' = LET s == data[i + 1] IN Wrote(writer, CodeValue(lengths, s), lengths[s])
    /\ i' = i + 1
    /\ UNCHANGED <<input, lengths, payload, pos, decoded, pc>>

\* The symbols in order, each followed by its length.
Table ==
    FlattenSeq([n \in 1 .. 2 ^ ByteBits |->
        IF lengths[n - 1] = 0 THEN << >> ELSE <<n - 1, lengths[n - 1]>>])

\* Mutant: the count is stored as it is.
StoredCount_Plain == Distinct % 2 ^ ByteBits

\* "1..256 stored as 0..255"
StoredCount == (Distinct - 1) % 2 ^ ByteBits

EndEncode ==
    /\ pc = "write"
    /\ Total < budget
    /\ i = Len(data)
    /\ payload' = <<StoredCount>> \o Table \o Flushed(writer)
    /\ pc' = "open"
    /\ UNCHANGED <<input, lengths, writer, i, pos, decoded>>

------------------------------------------------------------------------------
\* decodeHuffman

Count     == payload[1] + 1
TableSize == 1 + 2 * Count
SymbolAt(n) == payload[2 * n]
LengthAt(n) == payload[2 * n + 1]

\* Mutant: a symbol may be in the table twice.
LegalTable_Repeated ==
    /\ Len(payload) >= 1
    /\ Len(payload) >= TableSize
    /\ \A n \in 1 .. Count : LengthAt(n) \in 1 .. MaxCodeLength

LegalTable ==
    /\ Len(payload) >= 1
    /\ Len(payload) >= TableSize
    /\ \A n \in 1 .. Count : LengthAt(n) \in 1 .. MaxCodeLength
    /\ \A n, m \in 1 .. Count : SymbolAt(n) = SymbolAt(m) => n = m

OpenFails ==
    /\ pc = "open"
    /\ ~LegalTable
    /\ pc' = "corrupt"
    /\ UNCHANGED <<input, lengths, writer, i, payload, pos, decoded>>

\* Where two entries have the same symbol the later would count.
Open ==
    /\ pc = "open"
    /\ LegalTable
    /\ lengths' = [s \in Byte |->
                    LET entries == {n \in 1 .. Count : SymbolAt(n) = s}
                    IN  IF entries = {} THEN 0 ELSE LengthAt(Max(entries))]
    /\ pc' = "decode"
    /\ UNCHANGED <<input, writer, i, payload, pos, decoded>>

Stream == UnpackedBits(SubSeq(payload, TableSize + 1, Len(payload)), ByteBits)

NextSymbol == DecodeSymbol(lengths, SubSeq(Stream, pos + 1, Len(Stream)))

ReadSymbol ==
    /\ pc = "decode"
    /\ Len(decoded) < original
    /\ NextSymbol # NotACode
    /\ decoded' = Append(decoded, NextSymbol.symbol)
    /\ pos' = pos + NextSymbol.used
    /\ UNCHANGED <<input, lengths, writer, i, payload, pc>>

\* A missing edge of the tree, or the end of the bits.
ReadFails ==
    /\ pc = "decode"
    /\ Len(decoded) < original
    /\ NextSymbol = NotACode
    /\ pc' = "corrupt"
    /\ UNCHANGED <<input, lengths, writer, i, payload, pos, decoded>>

EndDecode ==
    /\ pc = "decode"
    /\ Len(decoded) = original
    /\ pc' = "done"
    /\ UNCHANGED <<input, lengths, writer, i, payload, pos, decoded>>

Step ==
    \/ Plan
    \/ GiveUp
    \/ WriteSymbol
    \/ EndEncode
    \/ OpenFails
    \/ Open
    \/ ReadSymbol
    \/ ReadFails
    \/ EndDecode

------------------------------------------------------------------------------
\* Properties

Encoded == budget # 0

(***************************************************************************)
(* What is encoded takes exactly the size computed before, and is decoded  *)
(* to the same bytes, with no more than the padding of the last byte left  *)
(* over; also when every byte value occurs, or only one.  Until then the   *)
(* writer holds the codes and nothing else (block.cpp:32-57).              *)
(***************************************************************************)
Lossless ==
    Encoded =>
        /\ pc = "write" =>
              Held(writer) = FlattenSeq([n \in 1 .. i |-> Code(lengths, data[n])])
        /\ pc \in {"open", "decode", "done"} => Len(payload) = Total
        /\ pc # "corrupt" /\ IsPrefix(decoded, data)
        /\ pc = "done" => decoded = data /\ Len(Stream) - pos \in 0 .. ByteBits - 1

(***************************************************************************)
(* Whatever the payload: as many symbols have a code as it says, every     *)
(* symbol read takes the bits of its own code and at least one, so that    *)
(* the payload bounds the output (block.cpp:61-99).                        *)
(***************************************************************************)
DecodeSound ==
    pc \in {"decode", "done"} =>
        /\ Cardinality(Coded(lengths)) = Count
        /\ SubSeq(Stream, 1, pos)
              = FlattenSeq([n \in DOMAIN decoded |-> Code(lengths, decoded[n])])
        /\ Len(decoded) <= pos
        /\ Len(decoded) <= original
==============================================================================
