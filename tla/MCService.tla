------------------------------- MODULE MCService -------------------------------
\* Small instances of Service for TLC.
EXTENDS Service

CONSTANTS c1, c2

MCMaxRequests == [c \in Connections |-> IF c = c1 THEN 2 ELSE 1]

\* One request for each way through the handler.
EachWay ==
    {[route |-> r, length |-> "fits", query |-> "good"] : r \in {"compress", "decompress", "other"}}
        \cup {[route |-> "get", length |-> "none", query |-> "good"],
              [route |-> "decompress", length |-> "fits", query |-> "bad"]}
        \cup {[route |-> "compress", length |-> l, query |-> "good"] :
                l \in {"none", "tooLarge", "notANumber"}}

\* The second client is there to come between the steps of the first: it calls
\* the library, which is all that connections share.
Calling == {[route |-> "decompress", length |-> "fits", query |-> "good"]}

MCRequests == [c \in Connections |-> IF c = c1 THEN EachWay ELSE Calling]
==============================================================================
