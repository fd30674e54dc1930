---------------------------------- MODULE Lzss ----------------------------------
(***************************************************************************)
(* The payload of an LZ77 block (src/src/block.cpp:102-214): two bytes of  *)
(* parameters, then groups of a flag byte and the tokens it is about, one  *)
(* for each of its bits.  encodeLz77 writes one and decodeLz77 reads it, a *)
(* step for each turn of their loops; decodeLz77 also reads what           *)
(* encodeLz77 never wrote.                                                 *)
(*                                                                         *)
(* A byte has ByteBits bits, so that is also how many tokens a group has.  *)
(***************************************************************************)
EXTENDS LzToken, FiniteSets

CONSTANTS
    ByteBits,       \* 8 in the code
    WindowBits,     \* the legal values of windowBits: 8 .. 16 in the code
    MinMatches,     \* the legal values of minMatch: 3 .. 8 in the code
    Parses,         \* the token lists encoded; encodeBlock never asks for none
    Budgets,        \* the sizes at which encodeLz77 gives up
    Foreign,        \* the payloads decoded that no encoder wrote
    Originals       \* the sizes they are decoded to

Byte == 0 .. 2 ^ ByteBits - 1

VARIABLES
    windowBits, minMatch,       \* the configuration, or the first two bytes
    tokens,                     \* what is encoded
    budget,
    payload,
    flagIndex, flags, inGroup,  \* the group being written, or read
    i,                          \* how many tokens are written
    at,                         \* how much of the payload is read
    original,                   \* the size decoded to
    decoded,                    \* the tokens read
    pc

config  == <<windowBits, minMatch, tokens, budget>>
group   == <<flagIndex, flags, inGroup>>

\* A match of this configuration fits its fields.
Encodable(parse, window, least) ==
    \A n \in DOMAIN parse : IsMatch(parse[n]) =>
        /\ parse[n].distance < 2 ^ window
        /\ parse[n].length - least \in Byte

Matches == {n \in DOMAIN tokens : IsMatch(tokens[n])}

\* The exact size, known before anything is written.
Total ==
    2 + (Len(tokens) + ByteBits - 1) \div ByteBits
      + (Len(tokens) - Cardinality(Matches)) + 3 * Cardinality(Matches)

Init ==
    /\ flagIndex = 0 /\ flags = 0 /\ inGroup = 0
    /\ i = 0
    /\ at = 0
    /\ decoded = << >>
    /\ \/ /\ windowBits \in WindowBits
          /\ minMatch \in MinMatches
          /\ tokens \in {parse \in Parses : Encodable(parse, windowBits, minMatch)}
          /\ budget \in Budgets
          /\ payload = <<windowBits, minMatch>>
          /\ original = Covered(tokens)
          /\ pc = "encode"
       \/ /\ windowBits = 0
          /\ minMatch = 0
          /\ tokens = << >>
          /\ budget = 0
          /\ payload \in Foreign
          /\ original \in Originals
          /\ pc = "open"

------------------------------------------------------------------------------
\* encodeLz77

\* "Not worth it": the block is stored.
GiveUp ==
    /\ pc = "encode"
    /\ i = 0
    /\ Total >= budget
    /\ pc' = "stored"
    /\ UNCHANGED <<config, payload, group, i, at, original, decoded>>

\* The bytes of a token; a distance is a little-endian pair of bytes.
Fields(token) ==
    LET encodedDistance == (token.distance - 1) % 2 ^ (2 * ByteBits)
    IN  IF IsMatch(token)
        THEN <<encodedDistance % 2 ^ ByteBits,
               encodedDistance \div 2 ^ ByteBits,
               (token.length - minMatch) % 2 ^ ByteBits>>
        ELSE <<token.literal>>

Patched(bytes, index, f) == [bytes EXCEPT ![index] = f]

\* One token.  The first of a group reserves the flag byte, the last patches it.
WriteToken ==
    LET token    == tokens[i + 1]
        reserved == IF inGroup = 0 THEN Append(payload, 0) ELSE payload
        bytes    == reserved \o Fields(token)
    IN  /\ pc = "encode"
        /\ Total < budget
        /\ i < Len(tokens)
        /\ flagIndex' = IF inGroup = 0 THEN Len(reserved) ELSE flagIndex
        /\ flags' = (IF inGroup = 0 THEN 0 ELSE flags)
                    + (IF IsMatch(token) THEN 2 ^ (ByteBits - 1 - inGroup) ELSE 0)
        /\ payload' = IF inGroup + 1 = ByteBits
                      THEN Patched(bytes, flagIndex', flags') ELSE bytes
        /\ inGroup' = (inGroup + 1) % ByteBits
        /\ i' = i + 1
        /\ UNCHANGED <<config, at, original, decoded, pc>>

\* Mutant: the flags of an incomplete group are not patched.
EndEncode_Unpatched ==
    /\ pc = "encode"
    /\ Total < budget
    /\ i = Len(tokens)
    /\ pc' = "open"
    /\ UNCHANGED <<config, payload, group, i, at, original, decoded>>

EndEncode ==
    /\ pc = "encode"
    /\ Total < budget
    /\ i = Len(tokens)
    /\ payload' = IF inGroup # 0 THEN Patched(payload, flagIndex, flags) ELSE payload
    /\ pc' = "open"
    /\ UNCHANGED <<config, group, i, at, original, decoded>>

------------------------------------------------------------------------------
\* decodeLz77

LegalParameters ==
    /\ Len(payload) >= 2
    /\ payload[1] \in WindowBits
    /\ payload[2] \in MinMatches

OpenFails ==
    /\ pc = "open"
    /\ ~LegalParameters
    /\ pc' = "corrupt"
    /\ UNCHANGED <<config, payload, group, i, at, original, decoded>>

Open ==
    /\ pc = "open"
    /\ LegalParameters
    /\ windowBits' = payload[1]
    /\ minMatch' = payload[2]
    /\ at' = 2
    /\ flags' = 0
    /\ inGroup' = 0
    /\ pc' = "decode"
    /\ UNCHANGED <<tokens, budget, payload, flagIndex, i, original, decoded>>

\* inGroup is remainingInGroup here.  What one turn reads: first a flag byte if
\* the group is used up.
FlagTaken   == IF inGroup = 0 THEN 1 ELSE 0
Flags       == IF inGroup = 0 THEN payload[at + 1] ELSE flags
NextIsMatch == Flags >= 2 ^ (ByteBits - 1)
TokenAt     == at + FlagTaken
TokenSize   == IF NextIsMatch THEN 3 ELSE 1

Complete == Len(payload) - at >= FlagTaken /\ Len(payload) - TokenAt >= TokenSize

ReadReference ==
    [distance |-> payload[TokenAt + 1] + payload[TokenAt + 2] * 2 ^ ByteBits + 1,
     length   |-> payload[TokenAt + 3] + minMatch]

\* Mutant: a distance one too great is let pass.
Legal_OneTooFar(match) ==
    /\ match.distance <= Covered(decoded) + 1
    /\ match.distance <= 2 ^ windowBits
    /\ Covered(decoded) + match.length <= original

Legal(match) ==
    /\ match.distance <= Covered(decoded)
    /\ match.distance <= 2 ^ windowBits
    /\ Covered(decoded) + match.length <= original

Readable == Complete /\ (NextIsMatch => Legal(ReadReference))

Unfinished == pc = "decode" /\ Covered(decoded) < original

ReadToken ==
    /\ Unfinished
    /\ Readable
    /\ decoded' = Append(decoded, IF NextIsMatch THEN Reference(ReadReference)
                                  ELSE Literal(payload[TokenAt + 1]))
    /\ flags' = (2 * Flags) % 2 ^ ByteBits
    /\ inGroup' = (IF inGroup = 0 THEN ByteBits ELSE inGroup) - 1
    /\ at' = TokenAt + TokenSize
    /\ UNCHANGED <<config, payload, flagIndex, i, original, pc>>

ReadFails ==
    /\ Unfinished
    /\ ~Readable
    /\ pc' = "corrupt"
    /\ UNCHANGED <<config, payload, group, i, at, original, decoded>>

EndDecode ==
    /\ pc = "decode"
    /\ Covered(decoded) >= original
    /\ pc' = "done"
    /\ UNCHANGED <<config, payload, group, i, at, original, decoded>>

Step ==
    \/ GiveUp
    \/ WriteToken
    \/ EndEncode
    \/ OpenFails
    \/ Open
    \/ ReadToken
    \/ ReadFails
    \/ EndDecode

------------------------------------------------------------------------------
\* Properties

Encoded == budget # 0

(***************************************************************************)
(* What is encoded takes exactly the size that was computed before, which  *)
(* is what the choice between coding and storing rests on, and is decoded  *)
(* to the same tokens with nothing left over (block.cpp:110-121, 128-156). *)
(***************************************************************************)
Lossless ==
    /\ Encoded /\ pc \in {"open", "decode"} => Len(payload) = Total
    /\ Encoded => decoded = SubSeq(tokens, 1, Len(decoded)) /\ pc # "corrupt"
    /\ Encoded /\ pc = "done" => decoded = tokens /\ at = Len(payload)

\* Where the first n tokens end: after the parameters, a flag byte for every
\* group begun, and a byte for each token or three.
LaidUpTo(parse, n) ==
    2 + (n + ByteBits - 1) \div ByteBits
      + n + 2 * Cardinality({k \in 1 .. n : IsMatch(parse[k])})

\* How many tokens of its group come before a token, and where the flags of the
\* group are.
InGroup(n) == (n - 1) % ByteBits
FlagsOf(parse, n) == LaidUpTo(parse, n - 1 - InGroup(n)) + 1

\* The payload holds the tokens, independently of how they are written: each
\* one's flag is in its group's flags, most significant first, and its bytes are
\* the last before it ends.
LaidOut(parse) ==
    \A n \in DOMAIN parse :
        LET end == LaidUpTo(parse, n)
        IN  /\ SubSeq(payload, end - Len(Fields(parse[n])) + 1, end) = Fields(parse[n])
            /\ IsMatch(parse[n])
                  <=> (payload[FlagsOf(parse, n)] \div 2 ^ (ByteBits - 1 - InGroup(n))) % 2 = 1

(***************************************************************************)
(* Whatever the payload, what is decoded is exactly what the bytes read    *)
(* lay out, no reference reaches before the output or past the window, the *)
(* output never outgrows the size asked for and reaches it unless the      *)
(* payload is refused (block.cpp:159-214).                                 *)
(***************************************************************************)
DecodeSound ==
    pc \in {"decode", "done", "corrupt"} =>
        /\ at <= Len(payload)
        /\ Covered(decoded) <= original
        /\ WithinReach(decoded, 2 ^ windowBits)
        /\ LaidOut(decoded)
        /\ pc = "done" => Covered(decoded) = original
==============================================================================
