-------------------------------- MODULE Deflate --------------------------------
(***************************************************************************)
(* The payload of a DEFLATE block (src/src/deflate.cpp:122-302): the       *)
(* window, the sizes of two tables of code lengths, the tables, and the    *)
(* tokens as one stream of bits: literals and lengths share an alphabet,   *)
(* distances have their own.  A step is one turn of the loop of encode or  *)
(* of decode.                                                              *)
(*                                                                         *)
(* The lengths of the codes are any that huffman::buildLengths promises    *)
(* (Huffman!PrefixCode).                                                   *)
(***************************************************************************)
EXTENDS DeflateTables, CanonicalCode, BitIO, LzToken

CONSTANTS
    WindowBits,     \* the windows with a distance code: 8 .. 15 in the code
    Configs,        \* the [windowBits, minMatch] tried
    Parses,         \* the token lists encoded; encodeBlock never asks for none
    Budgets,        \* the sizes at which encode gives up
    Foreign,        \* the payloads decoded that no encoder wrote
    Originals       \* the sizes they are decoded to

EndOfBlock == FirstLengthSymbol - 1
LitLen     == 0 .. FirstLengthSymbol + Len(LengthBase) - 1

VARIABLES
    config, tokens, budget,     \* what is encoded
    litLen, dist,               \* the two tables of code lengths
    writer,                     \* the stream, as far as it is written
    i,                          \* how many tokens are written
    payload,
    original,                   \* the size decoded to
    pos,                        \* how many bits are read
    decoded,                    \* the tokens read
    pc

input  == <<config, tokens, budget, original>>

NoCodes(alphabet) == [s \in alphabet |-> 0]

Init ==
    /\ litLen = NoCodes(LitLen)
    /\ dist = NoCodes(DistanceCodes)
    /\ writer = NewWriter
    /\ i = 0
    /\ pos = 0
    /\ decoded = << >>
    /\ \/ /\ config \in Configs
          /\ tokens \in {parse \in Parses : \A n \in DOMAIN parse : IsMatch(parse[n]) =>
                            /\ parse[n].distance < 2 ^ config.windowBits
                            /\ parse[n].length >= config.minMatch}
          /\ budget \in Budgets
          /\ payload = << >>
          /\ original = Covered(tokens)
          /\ pc = "plan"
       \/ /\ config = [windowBits |-> 0, minMatch |-> 0]
          /\ tokens = << >>
          /\ budget = 0
          /\ payload \in Foreign
          /\ original \in Originals
          /\ pc = "open"

------------------------------------------------------------------------------
\* deflate::encode

\* invalid_argument: there are no codes for such matches.
Refuse ==
    /\ pc = "plan"
    /\ config.minMatch # MinMatch \/ config.windowBits > Max(WindowBits)
    /\ pc' = "refused"
    /\ UNCHANGED <<input, litLen, dist, writer, i, payload, pos, decoded>>

LitLenSymbol(token) ==
    IF IsMatch(token) THEN SplitLength(token.length).symbol ELSE token.literal

LitLenFreq ==
    [s \in LitLen |-> Cardinality({n \in DOMAIN tokens : LitLenSymbol(tokens[n]) = s})]
DistFreq ==
    [c \in DistanceCodes |->
        Cardinality({n \in DOMAIN tokens :
            IsMatch(tokens[n]) /\ SplitDistance(tokens[n].distance).symbol = c})]

\* Mutant: the extra bits of the distances are not counted.
ExtraBits_OfLengths ==
    SumUpTo([n \in DOMAIN tokens |->
                IF IsMatch(tokens[n]) THEN SplitLength(tokens[n].length).extraBits ELSE 0],
            Len(tokens))

ExtraBits ==
    SumUpTo([n \in DOMAIN tokens |->
                IF IsMatch(tokens[n])
                THEN SplitLength(tokens[n].length).extraBits
                        + SplitDistance(tokens[n].distance).extraBits
                ELSE 0],
            Len(tokens))

PayloadBits ==
    ExtraBits
        + BitsTaken(LitLenFreq, litLen, FirstLengthSymbol + Len(LengthBase))
        + BitsTaken(DistFreq, dist, Len(DistBase))

\* How many entries of a table are stored: HLIT and HDIST.
UsedLength(lengths) ==
    IF Coded(lengths) = {} THEN 0 ELSE Max(Coded(lengths)) + 1

\* The exact size, known before anything is written.
Total ==
    4 + UsedLength(litLen) + UsedLength(dist) + BytesFor(PayloadBits, ByteBits)

Plan ==
    /\ pc = "plan"
    /\ config.minMatch = MinMatch /\ config.windowBits <= Max(WindowBits)
    /\ litLen' \in CodeLengths(LitLen, {s \in LitLen : LitLenFreq[s] # 0})
    /\ dist' \in CodeLengths(DistanceCodes, {c \in DistanceCodes : DistFreq[c] # 0})
    /\ pc' = "write"
    /\ UNCHANGED <<input, writer, i, payload, pos, decoded>>

\* "Not worth it": the block is stored.
GiveUp ==
    /\ pc = "write"
    /\ i = 0
    /\ Total >= budget
    /\ pc' = "stored"
    /\ UNCHANGED <<input, litLen, dist, writer, i, payload, pos, decoded>>

WroteLitLen(w, symbol) == Wrote(w, CodeValue(litLen, symbol), litLen[symbol])
WroteDist(w, code)     == Wrote(w, CodeValue(dist, code), dist[code])
WroteExtra(w, part)    == Wrote(w, part.extraValue, part.extraBits)

WroteToken(w, token) ==
    IF ~IsMatch(token) THEN WroteLitLen(w, token.literal)
    ELSE LET length   == SplitLength(token.length)
             distance == SplitDistance(token.distance)
         IN  WroteExtra(WroteDist(WroteExtra(WroteLitLen(w, length.symbol), length),
                                  distance.symbol), distance)

WriteToken ==
    /\ pc = "write"
    /\ Total < budget
    /\ i < Len(tokens)
    /\ writer' = WroteToken(writer, tokens[i + 1])
    /\ i' = i + 1
    /\ UNCHANGED <<input, litLen, dist, payload, pos, decoded, pc>>

Stored(lengths) == [n \in 1 .. UsedLength(lengths) |-> lengths[n - 1]]

EndEncode ==
    /\ pc = "write"
    /\ Total < budget
    /\ i = Len(tokens)
    /\ payload' = <<config.windowBits,
                    UsedLength(litLen) % 2 ^ ByteBits,
                    UsedLength(litLen) \div 2 ^ ByteBits,
                    UsedLength(dist) % 2 ^ ByteBits>>
                  \o Stored(litLen) \o Stored(dist) \o Flushed(writer)
    /\ pc' = "open"
    /\ UNCHANGED <<input, litLen, dist, writer, i, pos, decoded>>

------------------------------------------------------------------------------
\* deflate::decode

HLit       == payload[2] + payload[3] * 2 ^ ByteBits
HDist      == payload[4]
TableBytes == 4 + HLit + HDist

LegalHeader ==
    /\ Len(payload) >= 4
    /\ payload[1] \in WindowBits
    /\ HLit \in 1 .. FirstLengthSymbol + Len(LengthBase)
    /\ HDist <= Len(DistBase)
    /\ Len(payload) >= TableBytes
    /\ \A n \in 5 .. TableBytes : payload[n] <= MaxCodeLength

OpenFails ==
    /\ pc = "open"
    /\ ~LegalHeader
    /\ pc' = "corrupt"
    /\ UNCHANGED <<input, litLen, dist, writer, i, payload, pos, decoded>>

Open ==
    /\ pc = "open"
    /\ LegalHeader
    /\ litLen' = [s \in LitLen |-> IF s < HLit THEN payload[5 + s] ELSE 0]
    /\ dist' = [c \in DistanceCodes |-> IF c < HDist THEN payload[5 + HLit + c] ELSE 0]
    /\ pc' = "decode"
    /\ UNCHANGED <<input, writer, i, payload, pos, decoded>>

Stream == UnpackedBits(SubSeq(payload, TableBytes + 1, Len(payload)), ByteBits)

\* The bits from a place on.
From(place) == SubSeq(Stream, place + 1, Len(Stream))

\* The value of bits, most significant first; -1 if they are not all there.
ValueAt(place, count) ==
    IF place + count > Len(Stream) THEN -1
    ELSE Value(SubSeq(Stream, place + 1, place + count))

Corrupt == [distance |-> 0, length |-> 0, used |-> 0]

\* What follows a length symbol: its extra bits, a distance code, and its own.
MatchAfter(symbol, place) ==
    LET lengthBits   == LengthExtraBits(symbol)
        code         == DecodeSymbol(dist, From(place + lengthBits))
        distancePart == place + lengthBits + code.used
        distanceBits == DistanceExtraBits(code.symbol)
    IN  IF \/ ValueAt(place, lengthBits) = -1
           \/ code = NotACode
           \/ ValueAt(distancePart, distanceBits) = -1
        THEN Corrupt
        ELSE [length   |-> LengthStart(symbol) + ValueAt(place, lengthBits),
              distance |-> DistanceStart(code.symbol) + ValueAt(distancePart, distanceBits),
              used     |-> lengthBits + code.used + distanceBits]

\* Mutant: a match may run past the size asked for.
Legal_Overrun(match) ==
    /\ match # Corrupt
    /\ match.distance <= Covered(decoded)
    /\ match.distance <= 2 ^ payload[1]

Legal(match) ==
    /\ match # Corrupt
    /\ match.distance <= Covered(decoded)
    /\ match.distance <= 2 ^ payload[1]
    /\ Covered(decoded) + match.length <= original

Unfinished == pc = "decode" /\ Covered(decoded) < original

NextSymbol == DecodeSymbol(litLen, From(pos))

ReadLiteral ==
    /\ Unfinished
    /\ NextSymbol # NotACode
    /\ NextSymbol.symbol < EndOfBlock
    /\ decoded' = Append(decoded, Literal(NextSymbol.symbol))
    /\ pos' = pos + NextSymbol.used
    /\ UNCHANGED <<input, litLen, dist, writer, i, payload, pc>>

NextMatch == MatchAfter(NextSymbol.symbol, pos + NextSymbol.used)

ReadMatch ==
    /\ Unfinished
    /\ NextSymbol.symbol > EndOfBlock
    /\ Legal(NextMatch)
    /\ decoded' = Append(decoded, Reference(NextMatch))
    /\ pos' = pos + NextSymbol.used + NextMatch.used
    /\ UNCHANGED <<input, litLen, dist, writer, i, payload, pc>>

\* Not a code, the end-of-block symbol, which is never written, or a match that
\* is not there or not legal.
ReadFails ==
    /\ Unfinished
    /\ NextSymbol.symbol \in {-1, EndOfBlock} \/ (NextSymbol.symbol > EndOfBlock /\ ~Legal(NextMatch))
    /\ pc' = "corrupt"
    /\ UNCHANGED <<input, litLen, dist, writer, i, payload, pos, decoded>>

EndDecode ==
    /\ pc = "decode"
    /\ Covered(decoded) >= original
    /\ pc' = "done"
    /\ UNCHANGED <<input, litLen, dist, writer, i, payload, pos, decoded>>

Step ==
    \/ Refuse
    \/ Plan
    \/ GiveUp
    \/ WriteToken
    \/ EndEncode
    \/ OpenFails
    \/ Open
    \/ ReadLiteral
    \/ ReadMatch
    \/ ReadFails
    \/ EndDecode

------------------------------------------------------------------------------
\* Properties

Encoded == budget # 0

(***************************************************************************)
(* What is encoded takes exactly the size computed before, and is decoded  *)
(* to the same tokens, with no more than the padding of the last byte left *)
(* over (deflate.cpp:161-177, 191-210, 270-300).                           *)
(***************************************************************************)
Lossless ==
    Encoded =>
        /\ pc \in {"open", "decode", "done"} => Len(payload) = Total
        /\ pc # "corrupt" /\ decoded = SubSeq(tokens, 1, Len(decoded))
        /\ pc = "done" => decoded = tokens /\ Len(Stream) - pos \in 0 .. ByteBits - 1

(***************************************************************************)
(* Whatever the payload: every symbol takes at least a bit of it, so that  *)
(* the payload bounds the output, no reference reaches before the output   *)
(* or past the window, the output never outgrows the size asked for and    *)
(* reaches it unless the payload is refused (deflate.cpp:250-300).         *)
(***************************************************************************)
DecodeSound ==
    pc \in {"decode", "done"} =>
        /\ pos <= Len(Stream)
        /\ Len(decoded) <= pos
        /\ Covered(decoded) <= original
        /\ WithinReach(decoded, 2 ^ payload[1])
        /\ pc = "done" => Covered(decoded) = original
==============================================================================
