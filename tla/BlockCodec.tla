------------------------------- MODULE BlockCodec -------------------------------
(***************************************************************************)
(* encodeBlock and decodeBlock (src/src/block.cpp:218-271): the coder that *)
(* is asked for makes a payload smaller than the block or the block is     *)
(* stored, and the method that was used decides who decodes it.  The       *)
(* three coders are machines of their own, Lzss, HuffmanPayload and        *)
(* Deflate; a step of the codec is a step of the coder at work.            *)
(*                                                                         *)
(* The LZ77 coders are given tokens: what tokenize makes of a block is     *)
(* Tokenizer's business.  The budget is the size of the block in the code; *)
(* here it is a constant, because blocks of a few bytes never get smaller. *)
(***************************************************************************)
EXTENDS DeflateTables, CanonicalCode, BitIO, LzToken

CONSTANTS       \* each a function of the method, with what that coder tries
    Windows,    \* the legal values of windowBits: 8 .. 16 for "lz77", .. 15 for "deflate"
    MinMatches, \* the legal values of minMatch, for "lz77": 3 .. 8 in the code
    Configs,    \* the configurations, for "deflate"
    Blocks,     \* the blocks encoded, for "huffman"
    Parses,     \* the tokens encoded, for "lz77" and "deflate"
    Budgets,    \* the sizes a payload has to stay below
    Foreign,    \* the payloads decoded that no encoder wrote
    Originals   \* the sizes they are decoded to

Coders == {"huffman", "lz77", "deflate"}

ASSUME BlockCodecAssumption ==
    /\ MaxCodeLength <= MaxCount
    /\ \A n \in DOMAIN LengthExtra : LengthExtra[n] <= MaxCount
    /\ \A n \in DOMAIN DistExtra : DistExtra[n] <= MaxCount
    /\ FirstLengthSymbol + Len(LengthBase) < 2 ^ (2 * ByteBits)
    /\ Len(DistBase) \in Byte
    /\ MaxCodeLength \in Byte
    /\ \A m \in {"lz77", "deflate"} :
          Windows[m] \subseteq Byte \cap (0 .. 2 * ByteBits) /\ Windows[m] # {}
    /\ MaxDistance = 2 ^ Max(Windows["deflate"])
    /\ MinMatches["lz77"] \subseteq Byte \ {0}
    /\ Configs["deflate"] \subseteq [windowBits : 0 .. 2 * ByteBits, minMatch : Nat]
    /\ \A c \in Configs["deflate"] :
          c.windowBits <= Max(Windows["deflate"]) => c.windowBits \in Windows["deflate"]
    /\ Blocks["huffman"] \subseteq Seq(Byte) \ {<< >>}
    /\ \A m \in Coders :
          Budgets[m] \subseteq Nat \ {0} /\ Foreign[m] \subseteq Seq(Byte) /\ Originals[m] \subseteq Nat

\* What tokenize promises of a parse (Tokenizer).
ASSUME ParsesAssumption ==
    /\ \A m \in {"lz77", "deflate"} : \A parse \in Parses[m] :
          parse # << >> /\ WellFormed(parse) /\ WithinReach(parse, Covered(parse))
    /\ \A parse \in Parses["lz77"] : \A n \in DOMAIN parse : parse[n].literal \in Byte
    /\ \A parse \in Parses["deflate"] : \A n \in DOMAIN parse :
          parse[n].literal < FirstLengthSymbol - 1 /\ parse[n].length <= MaxMatch

VARIABLES
    method,                                 \* Method: who writes or reads the payload
    budget, payload, original, i, decoded, stage,  \* of the coder at work
    tokens, pos, writer,                    \* of those coders that have them
    windowBits, minMatch, flagIndex, flags, inGroup, at,    \* of Lzss
    data, table,                            \* of HuffmanPayload
    config, litLen, dist                    \* of Deflate

shared  == <<budget, payload, original, i, decoded, stage, tokens, pos, writer>>
lzVars  == <<windowBits, minMatch, flagIndex, flags, inGroup, at>>
huVars  == <<data, table>>
dfVars  == <<config, litLen, dist>>
codecVars    == <<method, shared, lzVars, huVars, dfVars>>

Lz == INSTANCE Lzss WITH
        pc <- stage, WindowBits <- Windows["lz77"], MinMatches <- MinMatches["lz77"],
        Parses <- Parses["lz77"], Budgets <- Budgets["lz77"],
        Foreign <- Foreign["lz77"], Originals <- Originals["lz77"]

Hu == INSTANCE HuffmanPayload WITH
        lengths <- table, pc <- stage, Blocks <- Blocks["huffman"], Budgets <- Budgets["huffman"],
        Foreign <- Foreign["huffman"], Originals <- Originals["huffman"]

Df == INSTANCE Deflate WITH
        pc <- stage, WindowBits <- Windows["deflate"], Configs <- Configs["deflate"],
        Parses <- Parses["deflate"], Budgets <- Budgets["deflate"],
        Foreign <- Foreign["deflate"], Originals <- Originals["deflate"]

\* The variables of a coder that is not at work.
LzIdle ==
    /\ windowBits = 0 /\ minMatch = 0
    /\ flagIndex = 0 /\ flags = 0 /\ inGroup = 0 /\ at = 0
HuIdle == data = << >> /\ table = << >>
DfIdle ==
    /\ config = [windowBits |-> 0, minMatch |-> 0]
    /\ litLen = << >> /\ dist = << >>

\* A payload that is stored, or that claims a method there is none of; the
\* stored one is also what encodeBlock makes of an empty block.
ForeignInit ==
    /\ method \in {"stored", "unknown"}
    /\ payload \in Foreign["stored"]
    /\ original \in Originals["stored"]
    /\ budget = 0 /\ i = 0 /\ decoded = << >> /\ stage = "open"
    /\ tokens = << >> /\ pos = 0 /\ writer = NewWriter
    /\ LzIdle /\ HuIdle /\ DfIdle

CodecInit ==
    \/ /\ method = "lz77" /\ Lz!Init
       /\ pos = 0 /\ writer = NewWriter /\ HuIdle /\ DfIdle
    \/ /\ method = "huffman" /\ Hu!Init
       /\ tokens = << >> /\ LzIdle /\ DfIdle
    \/ /\ method = "deflate" /\ Df!Init
       /\ LzIdle /\ HuIdle
    \/ ForeignInit

Lz77Step    == method = "lz77" /\ Lz!Step /\ UNCHANGED <<method, pos, writer, huVars, dfVars>>
HuffmanStep == method = "huffman" /\ Hu!Step /\ UNCHANGED <<method, tokens, lzVars, dfVars>>
DeflateStep == method = "deflate" /\ Df!Step /\ UNCHANGED <<method, lzVars, huVars>>

\* The bytes of the block that is encoded.
Source == IF data # << >> THEN data ELSE Detokenize(tokens)

\* Mutant: the block is stored, but still marked as coded.
Store_KeepsMethod ==
    /\ stage = "stored"
    /\ payload' = Source
    /\ stage' = "open"
    /\ UNCHANGED <<method, budget, original, i, decoded, tokens, pos, writer, lzVars, huVars, dfVars>>

\* The coder gave up.
Store ==
    /\ stage = "stored"
    /\ method' = "stored"
    /\ payload' = Source
    /\ stage' = "open"
    /\ UNCHANGED <<budget, original, i, decoded, tokens, pos, writer, lzVars, huVars, dfVars>>

DecodeStored ==
    /\ method = "stored"
    /\ stage = "open"
    /\ IF Len(payload) = original
       THEN decoded' = payload /\ stage' = "done"
       ELSE stage' = "corrupt" /\ UNCHANGED decoded
    /\ UNCHANGED <<method, budget, payload, original, i, tokens, pos, writer, lzVars, huVars, dfVars>>

DecodeUnknown ==
    /\ method = "unknown"
    /\ stage = "open"
    /\ stage' = "corrupt"
    /\ UNCHANGED <<method, budget, payload, original, i, decoded, tokens, pos, writer, lzVars, huVars, dfVars>>

CodecOver ==
    /\ stage \in {"refused", "corrupt", "done"}
    /\ UNCHANGED codecVars

CodecNext ==
    \/ Lz77Step
    \/ HuffmanStep
    \/ DeflateStep
    \/ Store
    \/ DecodeStored
    \/ DecodeUnknown
    \/ CodecOver

CodecSpec == CodecInit /\ [][CodecNext]_codecVars

------------------------------------------------------------------------------
\* Properties

Encoded == budget # 0

\* What decodeBlock returns.
Returned == IF method \in {"lz77", "deflate"} THEN Detokenize(decoded) ELSE decoded

(***************************************************************************)
(* A block comes back as it was, coded or stored, and a coded one is       *)
(* smaller than its budget: the size each coder computes before it writes  *)
(* a byte is the size it writes (block.cpp:36-38, 119-121, 218-271,        *)
(* deflate.cpp:161-177).                                                   *)
(***************************************************************************)
BlockKept ==
    Encoded =>
        /\ stage # "corrupt"
        /\ stage = "done" => Returned = Source
        /\ stage = "open" /\ method # "stored" => Len(payload) < budget

(***************************************************************************)
(* Lzss!Lossless, HuffmanPayload!Lossless and Deflate!Lossless.            *)
(***************************************************************************)
Lossless ==
    /\ method = "lz77" => Lz!Lossless
    /\ method = "huffman" => Hu!Lossless
    /\ method = "deflate" => Df!Lossless

(***************************************************************************)
(* The decoders are sound on payloads no encoder wrote: no reference       *)
(* reaches before the output, past the window or past the size asked for   *)
(* (block.cpp:159-214, deflate.cpp:212-302), and a table of code lengths   *)
(* is used only if it is one, every byte decoded taking its own code       *)
(* (block.cpp:61-99).                                                      *)
(***************************************************************************)
DecodesSoundly ==
    /\ method = "lz77" => Lz!DecodeSound
    /\ method = "huffman" => Hu!DecodeSound
    /\ method = "deflate" => Df!DecodeSound
==============================================================================
