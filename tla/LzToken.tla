-------------------------------- MODULE LzToken --------------------------------
(***************************************************************************)
(* The tokens of src/src/lz77.h: a literal, or a reference to bytes that   *)
(* came before.                                                            *)
(***************************************************************************)
EXTENDS Integers, Sequences, Sums

Literal(byte)      == [distance |-> 0, length |-> 0, literal |-> byte]
Reference(match)   == [distance |-> match.distance, length |-> match.length, literal |-> 0]
IsMatch(token)     == token.distance # 0

\* How many bytes a token, and the first n of a list of them, stand for.
Width(token) == IF IsMatch(token) THEN token.length ELSE 1
CoveredBy(tokens, n) == SumUpTo([k \in DOMAIN tokens |-> Width(tokens[k])], n)
Covered(tokens) == CoveredBy(tokens, Len(tokens))

\* Literals and references, with nothing in the fields they do not use.
WellFormed(tokens) ==
    /\ tokens \in Seq([distance : Nat, length : Nat, literal : Nat])
    /\ \A n \in DOMAIN tokens :
          tokens[n] = IF IsMatch(tokens[n]) THEN Reference(tokens[n])
                      ELSE Literal(tokens[n].literal)

------------------------------------------------------------------------------
\* lz77::detokenize: the bytes that tokens stand for.

\* One byte at a time, so that a match may reach into itself.
CopyMatch(bytes, token) ==
    LET start == Len(bytes) - token.distance
        copied[k \in 0 .. token.length] ==
            IF k = 0 THEN bytes
            ELSE LET before == copied[k - 1]
                 IN  Append(before, before[start + k])
    IN  copied[token.length]

\* CorruptInput: no byte is -1.
CorruptBytes == <<-1>>

Replay(bytes, token) ==
    IF bytes = CorruptBytes THEN CorruptBytes
    ELSE IF ~IsMatch(token) THEN Append(bytes, token.literal)
    ELSE IF token.distance > Len(bytes) THEN CorruptBytes
    ELSE CopyMatch(bytes, token)

Detokenize(tokens) ==
    LET bytes[n \in 0 .. Len(tokens)] ==
            IF n = 0 THEN << >> ELSE Replay(bytes[n - 1], tokens[n])
    IN  bytes[Len(tokens)]

------------------------------------------------------------------------------
\* No token reaches before the first byte, or further back than allowed.
WithinReach(tokens, reach) ==
    \A i \in DOMAIN tokens :
        /\ tokens[i].distance <= reach
        /\ tokens[i].distance <= CoveredBy(tokens, i - 1)

\* All the token lists that stand for at most a number of bytes.
ParsesUpTo(size, literals, distances, lengths) ==
    LET Tokens ==
            {Literal(byte) : byte \in literals}
            \cup {Reference([distance |-> d, length |-> l]) : d \in distances, l \in lengths}
        Longer(parses) ==
            {parse \in {Append(p, token) : p \in parses, token \in Tokens} :
                Covered(parse) <= size /\ WithinReach(parse, size)}
        UpTo[n \in 0 .. size] ==
            IF n = 0 THEN {<< >>} ELSE UpTo[n - 1] \cup Longer(UpTo[n - 1])
    IN  UpTo[size]
==============================================================================
