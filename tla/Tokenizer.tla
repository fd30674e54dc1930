------------------------------- MODULE Tokenizer -------------------------------
(***************************************************************************)
(* lz77::tokenize and MatchFinder (src/src/lz77.cpp): hash chains kept in  *)
(* two arrays, head_ by hash and prev_ by position modulo the window, and  *)
(* a parse that is greedy or looks one byte ahead.                         *)
(*                                                                         *)
(* One step is one turn of one of the code's loops: insertUpTo, the chain  *)
(* walk of findLongest, the loop of tokenize.  The hash is any function of *)
(* three bytes.  The counters of Stats decide nothing and are left out.    *)
(***************************************************************************)
EXTENDS Integers, Sequences

CONSTANTS
    Alphabet,           \* the byte values of the input
    MaxSize,            \* bound: the longest input
    Hashes,             \* the hash functions tried, a sequence of functions of three bytes
    Buckets,            \* the values of a hash
    MinWindowBits,      \* 8 in the code
    MaxWindowBits,      \* 16 in the code
    WindowBits, MinMatches, ChainLengths,   \* the values of Config tried
    MaxExtra            \* 255 in the code: maxMatch is minMatch + MaxExtra

HashBytes == 3
NoPosition == -1        \* kNone

ASSUME TokenizerAssumption ==
    /\ Alphabet # {} /\ Alphabet \subseteq Nat
    /\ MaxSize \in Nat
    /\ \A h \in DOMAIN Hashes : Hashes[h] \in [Alphabet \X Alphabet \X Alphabet -> Buckets]
    /\ MinWindowBits \in Nat /\ MaxWindowBits \in Nat
    /\ WindowBits \subseteq Nat /\ MinMatches \subseteq Nat /\ ChainLengths \subseteq Int
    /\ MaxExtra \in Nat

\* Arithmetic, stated because the provers know nothing of powers.
ASSUME PowersAssumption == \A bits \in WindowBits : 2 ^ bits \in Nat \ {0}

VARIABLES
    data, size,     \* the input
    config,         \* Config
    hash,           \* which hash function is in use
    head, prev,     \* head_, prev_
    inserted,       \* inserted_: every position below it was inserted
    position,       \* tokenize's position
    tokens,
    ahead,          \* 1 while the search is the one from position + 1, else 0
    match,          \* the match found from position
    best, candidate, chain,     \* the locals of findLongest
    foreseen,       \* history: what was found from here when looking ahead
    pc

input  == <<data, size, config, hash>>
rings  == <<head, prev, inserted>>
search == <<best, candidate, chain>>
vars   == <<data, size, config, hash, head, prev, inserted, position, tokens,
            ahead, match, best, candidate, chain, foreseen, pc>>

Least(a, b) == IF a < b THEN a ELSE b

NoMatch    == [distance |-> 0, length |-> 0]
NotForeseen == [distance |-> 0, length |-> -1]

\* Config
WindowSize   == 2 ^ config.windowBits
LongestMatch == config.minMatch + MaxExtra

Valid ==
    /\ config.windowBits \in MinWindowBits .. MaxWindowBits
    /\ config.minMatch \in 3 .. 8
    /\ config.maxChainLength >= 1

Configs == [windowBits : WindowBits, minMatch : MinMatches,
            maxChainLength : ChainLengths, lazyMatching : BOOLEAN]

Parse == INSTANCE LzParse WITH
            reach   <- WindowSize - 1,
            lengths <- config.minMatch .. LongestMatch

PCs == {"begin", "insert", "search", "walk", "decide", "done", "invalid"}

TypeOK ==
    /\ size \in 0 .. MaxSize
    /\ data \in [0 .. size - 1 -> Alphabet]
    /\ config \in Configs
    /\ hash \in DOMAIN Hashes
    /\ head \in [Buckets -> 0 .. size - 1 \cup {NoPosition}]
    /\ prev \in [0 .. WindowSize - 1 -> 0 .. size - 1 \cup {NoPosition}]
    /\ inserted \in 0 .. size
    /\ position \in 0 .. size
    /\ ahead \in {0, 1}
    /\ match \in [distance : 0 .. WindowSize - 1, length : 0 .. LongestMatch]
    /\ best \in [distance : 0 .. WindowSize - 1, length : 0 .. LongestMatch]
    /\ candidate \in 0 .. size - 1 \cup {NoPosition}
    /\ chain \in Int
    /\ pc \in PCs

Init ==
    /\ size \in 0 .. MaxSize
    /\ data \in [0 .. size - 1 -> Alphabet]
    /\ config \in Configs
    /\ hash \in DOMAIN Hashes
    /\ head = [b \in Buckets |-> NoPosition]
    /\ prev = [r \in 0 .. WindowSize - 1 |-> NoPosition]
    /\ inserted = 0
    /\ position = 0
    /\ tokens = << >>
    /\ ahead = 0
    /\ match = NoMatch
    /\ best = NoMatch
    /\ candidate = NoPosition
    /\ chain = 0
    /\ foreseen = NotForeseen
    /\ pc = "begin"

\* Where the search in progress is made from.
From == position + ahead

\* Mutant: the position searched from is inserted again.
Begin_Reinserts ==
    /\ pc = "begin"
    /\ pc' = IF ~Valid THEN "invalid" ELSE IF position < size THEN "insert" ELSE "done"
    /\ ahead' = 0
    /\ inserted' = Least(inserted, position)
    /\ UNCHANGED <<input, head, prev, search, position, tokens, match, foreseen>>

\* The head of the loop over the input.
Begin ==
    /\ pc = "begin"
    /\ pc' = IF ~Valid THEN "invalid" ELSE IF position < size THEN "insert" ELSE "done"
    /\ ahead' = 0
    /\ UNCHANGED <<input, rings, search, position, tokens, match, foreseen>>

------------------------------------------------------------------------------
\* MatchFinder::insertUpTo(From)

HashAt(p) == Hashes[hash][<<data[p], data[p + 1], data[p + 2]>>]

\* Mutant: head_ is updated before it is copied to prev_.
InsertOne_HeadFirst ==
    /\ pc = "insert"
    /\ inserted <= From
    /\ inserted' = inserted + 1
    /\ IF inserted + HashBytes > size
       THEN UNCHANGED <<head, prev>>
       ELSE /\ head' = [head EXCEPT ![HashAt(inserted)] = inserted]
            /\ prev' = [prev EXCEPT ![inserted % WindowSize] = head'[HashAt(inserted)]]
    /\ UNCHANGED <<input, search, position, tokens, ahead, match, foreseen, pc>>

InsertOne ==
    /\ pc = "insert"
    /\ inserted <= From
    /\ inserted' = inserted + 1
    /\ IF inserted + HashBytes > size
       THEN UNCHANGED <<head, prev>>
       ELSE /\ prev' = [prev EXCEPT ![inserted % WindowSize] = head[HashAt(inserted)]]
            /\ head' = [head EXCEPT ![HashAt(inserted)] = inserted]
    /\ UNCHANGED <<input, search, position, tokens, ahead, match, foreseen, pc>>

Inserted ==
    /\ pc = "insert"
    /\ inserted > From
    /\ pc' = "search"
    /\ UNCHANGED <<input, rings, search, position, tokens, ahead, match, foreseen>>

------------------------------------------------------------------------------
\* MatchFinder::findLongest(From)

Limit == Least(size - From, LongestMatch)

\* matchLength: how far the bytes at a and at b agree, up to limit.
MatchLength(a, b, limit) ==
    CHOOSE n \in 0 .. limit :
        /\ \A k \in 0 .. n - 1 : data[a + k] = data[b + k]
        /\ n = limit \/ data[a + n] # data[b + n]

\* No room for a match; or the walk starts one link in.
StartSearch ==
    /\ pc = "search"
    /\ best' = NoMatch
    /\ IF From + config.minMatch > size
       THEN pc' = "decide" /\ UNCHANGED <<candidate, chain>>
       ELSE /\ candidate' = prev[From % WindowSize]
            /\ chain' = config.maxChainLength
            /\ pc' = "walk"
    /\ UNCHANGED <<input, rings, position, tokens, ahead, match, foreseen>>

\* Mutants: a candidate exactly one window back is followed; the farthest is not.
InWindow_Inclusive(distance) == distance <= WindowSize
InWindow_Short(distance) == distance < WindowSize - 1

InWindow(distance) == distance < WindowSize

\* The loop goes on: there is a candidate, within the window, and the chain
\* may still be followed.
MayExamine ==
    /\ candidate # NoPosition
    /\ chain > 0
    /\ InWindow(From - candidate)

\* The byte just past the best match so far rules most candidates out.
Promising ==
    \/ best.length = 0
    \/ data[candidate + best.length] = data[From + best.length]

Improves(length) == Promising /\ length > best.length

\* Mutant: the walk goes on after a match that cannot be beaten.
Examine_NoBreak ==
    LET length == MatchLength(From, candidate, Limit)
    IN  /\ pc = "walk"
        /\ MayExamine
        /\ chain' = chain - 1
        /\ best' = IF Improves(length)
                   THEN [distance |-> From - candidate, length |-> length]
                   ELSE best
        /\ candidate' = prev[candidate % WindowSize]
        /\ UNCHANGED <<input, rings, position, tokens, ahead, match, foreseen, pc>>

Examine ==
    LET length == MatchLength(From, candidate, Limit)
        better == Improves(length)
    IN  /\ pc = "walk"
        /\ MayExamine
        /\ chain' = chain - 1
        /\ best' = IF better
                   THEN [distance |-> From - candidate, length |-> length]
                   ELSE best
        /\ IF better /\ length >= Limit
           THEN pc' = "decide" /\ UNCHANGED candidate
           ELSE candidate' = prev[candidate % WindowSize] /\ UNCHANGED pc
        /\ UNCHANGED <<input, rings, position, tokens, ahead, match, foreseen>>

EndWalk ==
    /\ pc = "walk"
    /\ ~MayExamine
    /\ pc' = "decide"
    /\ UNCHANGED <<input, rings, search, position, tokens, ahead, match, foreseen>>

\* Mutant: a match too short for the format is returned.
Found_Short == best

\* What findLongest returns.
Found == IF best.length < config.minMatch THEN NoMatch ELSE best

------------------------------------------------------------------------------
\* The loop of tokenize, once a search has returned.

Emit(token, length) ==
    /\ tokens' = Append(tokens, token)
    /\ position' = position + length
    /\ pc' = "begin"
    /\ ahead' = 0
    /\ UNCHANGED <<input, rings, search>>

\* There is a match, and a byte after this one: is the next match longer?
LookAhead ==
    /\ pc = "decide"
    /\ ahead = 0
    /\ Found.length # 0
    /\ config.lazyMatching
    /\ position + 1 < size
    /\ match' = Found
    /\ ahead' = 1
    /\ pc' = "insert"
    /\ UNCHANGED <<input, rings, search, position, tokens, foreseen>>

\* Nothing was found from position.
EmitLiteral ==
    /\ pc = "decide"
    /\ ahead = 0
    /\ Found.length = 0
    /\ Emit(Parse!Literal(data[position]), 1)
    /\ match' = NoMatch
    /\ foreseen' = NotForeseen

\* The match one byte later is longer: give this byte up for it.
Defer ==
    /\ pc = "decide"
    /\ ahead = 1
    /\ Found.length > match.length
    /\ Emit(Parse!Literal(data[position]), 1)
    /\ match' = NoMatch
    /\ foreseen' = Found

\* Take the match found from position.
TakeMatch(taken) ==
    /\ Emit(Parse!Reference(taken), taken.length)
    /\ match' = NoMatch
    /\ foreseen' = NotForeseen

\* Mutant: the match found one byte later is taken here.
EmitMatch_TakesLater ==
    /\ pc = "decide"
    /\ \/ /\ ahead = 0
          /\ Found.length # 0
          /\ ~(config.lazyMatching /\ position + 1 < size)
          /\ TakeMatch(Found)
       \/ /\ ahead = 1
          /\ Found.length \in 1 .. match.length
          /\ TakeMatch(Found)

EmitMatch ==
    /\ pc = "decide"
    /\ \/ /\ ahead = 0
          /\ Found.length # 0
          /\ ~(config.lazyMatching /\ position + 1 < size)
          /\ TakeMatch(Found)
       \/ /\ ahead = 1
          /\ Found.length <= match.length
          /\ TakeMatch(match)

Over ==
    /\ pc \in {"done", "invalid"}
    /\ UNCHANGED vars

Step ==
    \/ Begin
    \/ InsertOne
    \/ Inserted
    \/ StartSearch
    \/ Examine
    \/ EndWalk
    \/ LookAhead
    \/ EmitLiteral
    \/ Defer
    \/ EmitMatch

Next == Step \/ Over

Spec == Init /\ [][Next]_vars

------------------------------------------------------------------------------
\* Properties

\* The greatest of a set of positions, NoPosition if there is none.
Latest(positions) ==
    IF positions = {} THEN NoPosition
    ELSE CHOOSE p \in positions : \A q \in positions : q <= p

Hashed(p) == p < inserted /\ p + HashBytes <= size

(***************************************************************************)
(* The chains are what findLongest takes them for, in spite of the ring:   *)
(* head_ is the last position inserted with each hash, and the link of     *)
(* every position still less than a window old leads to the position       *)
(* inserted before it with the same hash (lz77.cpp:79-85, 124-129).        *)
(***************************************************************************)
ChainsSound ==
    /\ \A b \in Buckets :
          head[b] = Latest({q \in 0 .. size - 1 : Hashed(q) /\ HashAt(q) = b})
    /\ \A p \in 0 .. size - 1 :
          Hashed(p) /\ inserted <= p + WindowSize =>
            prev[p % WindowSize] =
              Latest({q \in 0 .. p - 1 : Hashed(q) /\ HashAt(q) = HashAt(p)})

(***************************************************************************)
(* A search runs with everything up to its own position inserted and       *)
(* nothing beyond, looking ahead or not, and every byte it compares is     *)
(* inside the input (lz77.cpp:70-75, 95).                                  *)
(***************************************************************************)
SearchInBounds ==
    pc = "walk" =>
        /\ inserted = From + 1
        /\ best.length < Limit
        /\ From + best.length < size
        /\ candidate < From

(***************************************************************************)
(* The variables have their types, and every search stays in bounds        *)
(* (lz77.cpp:62-108).                                                      *)
(***************************************************************************)
Inv == TypeOK /\ SearchInBounds

(***************************************************************************)
(* A walk goes strictly back through the input, so it ends even where the  *)
(* ring has been written over (lz77.cpp:52-54, 79-87).                     *)
(***************************************************************************)
WalkGoesBack == [][pc = "walk" /\ pc' = "walk" => candidate' < candidate]_vars

\* The longest match there is from p within the window, the nearest of them.
LongestFrom(p) ==
    LET distances == 1 .. Least(p, WindowSize - 1)
        length    == [d \in distances |-> MatchLength(p, p - d, Least(size - p, LongestMatch))]
        longest   == {d \in distances :
                        /\ length[d] >= config.minMatch
                        /\ \A e \in distances : length[e] <= length[d]}
    IN  IF longest = {} THEN NoMatch
        ELSE LET nearest == CHOOSE d \in longest : \A e \in longest : d <= e
             IN  [distance |-> nearest, length |-> length[nearest]]

(***************************************************************************)
(* A search that is not cut short by maxChainLength finds the longest      *)
(* match in reach, and the nearest of the longest: neither the hash, its   *)
(* collisions, the stale links nor the test of one byte before the         *)
(* comparison loses a match (lz77.cpp:27-31, 91-95).                       *)
(***************************************************************************)
SearchExact ==
    pc = "decide" /\ (chain > 0 \/ From + config.minMatch > size)
        => Found = LongestFrom(From)

(***************************************************************************)
(* A byte is given up for a longer match one byte later only if that match *)
(* is then found again: looking ahead leaves the chains as the next search *)
(* would have had them (lz77.cpp:51-54, 178-190).                          *)
(***************************************************************************)
LookaheadRepeats ==
    pc = "decide" /\ ahead = 0 /\ foreseen # NotForeseen => Found = foreseen

(***************************************************************************)
(* tokenize produces an LZ77 parse: every match repeats bytes already      *)
(* covered, less than a window back, of a length the format can hold, and  *)
(* the tokens cover the input with no gap or overlap (lz77.cpp:173-205).   *)
(***************************************************************************)
Contract == Parse!Spec

(***************************************************************************)
(* Replaying the tokens gives back the input covered so far, and at the    *)
(* end all of it (lz77.h:90-92).                                           *)
(***************************************************************************)
RoundTrip ==
    /\ Parse!Detokenize(tokens) = [k \in 1 .. position |-> data[k - 1]]
    /\ pc = "done" => position = size
==============================================================================
