-------------------------------- MODULE LzParse --------------------------------
(***************************************************************************)
(* What any LZ77 parse of an input is, however its matches are found: the  *)
(* input is covered from left to right by literals and by references to    *)
(* what came before, no further back than the window allows                *)
(* (lz77.h:64-66, lz77.cpp:214-231).                                       *)
(***************************************************************************)
EXTENDS LzToken

VARIABLES
    data,       \* the input, a function on 0 .. size - 1
    size,
    reach,      \* the greatest distance allowed
    lengths,    \* the lengths a match may have
    position,   \* what is covered so far
    tokens

vars == <<data, size, reach, lengths, position, tokens>>

\* The bytes at p repeat those a distance before, as far as length goes; the
\* two stretches may overlap.
Repeats(p, distance, length) ==
    \A k \in 0 .. length - 1 : data[p - distance + k] = data[p + k]

Init ==
    /\ position = 0
    /\ tokens = << >>

EmitLiteral ==
    /\ position < size
    /\ tokens' = Append(tokens, Literal(data[position]))
    /\ position' = position + 1
    /\ UNCHANGED <<data, size, reach, lengths>>

EmitMatch(match) ==
    /\ match.length \in lengths
    /\ match.distance \in 1 .. reach
    /\ match.distance <= position
    /\ position + match.length <= size
    /\ Repeats(position, match.distance, match.length)
    /\ tokens' = Append(tokens, Reference(match))
    /\ position' = position + match.length
    /\ UNCHANGED <<data, size, reach, lengths>>

Next ==
    \/ EmitLiteral
    \/ \E distance \in 1 .. reach, length \in lengths :
          EmitMatch([distance |-> distance, length |-> length])

Spec == Init /\ [][Next]_vars
==============================================================================
