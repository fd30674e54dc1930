-------------------------------- MODULE Huffman --------------------------------
(***************************************************************************)
(* src/src/huffman.cpp:17-163: from the frequencies of an alphabet to code *)
(* lengths that respect a limit.  buildLengths is a state machine, one     *)
(* step for each turn of its loops.  A node of the forest carries the      *)
(* depth of each leaf below it instead of pointers to its children, so the *)
(* traversal of leafDepthHistogram is a count.                             *)
(***************************************************************************)
EXTENDS CanonicalCode, SequencesExt

CONSTANTS
    AlphabetSize,   \* the symbols are 0 .. AlphabetSize - 1
    Frequencies     \* the frequencies tried

Symbols == 0 .. AlphabetSize - 1

ASSUME HuffmanAssumption ==
    /\ AlphabetSize \in Nat \ {0}
    /\ AlphabetSize <= 2 ^ MaxCodeLength
    /\ Frequencies \subseteq Nat

VARIABLES
    freq,       \* the frequency of each symbol
    nodes,      \* the forest, in the order its nodes were made
    heap,       \* the indices of the roots
    count,      \* how many leaves there are at each depth, clamped to the limit
    kraft,      \* the space those leaves take, in units of 2^-MaxCodeLength
    lengths,    \* the result
    pc

vars == <<freq, nodes, heap, count, kraft, lengths, pc>>

Present == {s \in Symbols : freq[s] # 0}

Limit == 2 ^ MaxCodeLength

TypeOK ==
    /\ freq \in [Symbols -> Frequencies]
    /\ heap \subseteq DOMAIN nodes
    /\ count \in [0 .. MaxCodeLength -> 0 .. AlphabetSize]
    /\ kraft \in Nat
    /\ lengths \in [Symbols -> 0 .. MaxCodeLength]
    /\ pc \in {"start", "merge", "limit", "done"}

Init ==
    /\ freq \in [Symbols -> Frequencies]
    /\ nodes = << >>
    /\ heap = {}
    /\ count = [l \in 0 .. MaxCodeLength |-> 0]
    /\ kraft = 0
    /\ lengths = [s \in Symbols |-> 0]
    /\ pc = "start"

Leaf(s) == [freq |-> freq[s], depth |-> [leaf \in {s} |-> 0]]

\* Mutant: a single symbol gets the length its tree gives it.
Few_NoSpecialCase ==
    /\ pc = "start"
    /\ Cardinality(Present) <= 1
    /\ pc' = "done"
    /\ UNCHANGED <<freq, nodes, heap, count, kraft, lengths>>

\* No symbols, or one, whose code is given a bit it would not need.
Few ==
    /\ pc = "start"
    /\ Cardinality(Present) <= 1
    /\ lengths' = [s \in Symbols |-> IF s \in Present THEN 1 ELSE 0]
    /\ pc' = "done"
    /\ UNCHANGED <<freq, nodes, heap, count, kraft>>

\* The symbols that occur, in order.
Nth(i) == CHOOSE s \in Present : Cardinality({t \in Present : t < s}) = i

PlantLeaves ==
    /\ pc = "start"
    /\ Cardinality(Present) > 1
    /\ nodes' = [i \in 1 .. Cardinality(Present) |-> Leaf(Nth(i - 1))]
    /\ heap' = 1 .. Cardinality(Present)
    /\ pc' = "merge"
    /\ UNCHANGED <<freq, count, kraft, lengths>>

\* Ties go to the node made first.
Cheapest(roots) ==
    CHOOSE a \in roots : \A b \in roots \ {a} :
        \/ nodes[a].freq < nodes[b].freq
        \/ nodes[a].freq = nodes[b].freq /\ a < b

\* Two roots become the children of a new one.
Joined(a, b) ==
    [freq  |-> nodes[a].freq + nodes[b].freq,
     depth |-> [leaf \in DOMAIN nodes[a].depth \cup DOMAIN nodes[b].depth |->
                    1 + IF leaf \in DOMAIN nodes[a].depth
                        THEN nodes[a].depth[leaf] ELSE nodes[b].depth[leaf]]]

Merge ==
    LET a == Cheapest(heap)
        b == Cheapest(heap \ {a})
    IN  /\ pc = "merge"
        /\ Cardinality(heap) > 1
        /\ nodes' = Append(nodes, Joined(a, b))
        /\ heap' = (heap \ {a, b}) \cup {Len(nodes) + 1}
        /\ UNCHANGED <<freq, count, kraft, lengths, pc>>

Depth == nodes[Cheapest(heap)].depth

\* leafDepthHistogram, and the sum that enforceLengthLimit starts from.
Histogram ==
    /\ pc = "merge"
    /\ Cardinality(heap) = 1
    /\ count' = [l \in 0 .. MaxCodeLength |->
                    Cardinality({s \in Present : l = Min({Depth[s], MaxCodeLength})})]
    /\ kraft' = KraftSum(count')
    /\ pc' = "limit"
    /\ UNCHANGED <<freq, nodes, heap, lengths>>

Overfull == kraft > Limit

CanBePushed == {l \in 1 .. MaxCodeLength - 1 : count[l] > 0}

\* Mutant: all the space of the leaf is taken for freed.
PushDown_FreesAll ==
    LET l == Max(CanBePushed)
    IN  /\ pc = "limit"
        /\ Overfull
        /\ count' = [count EXCEPT ![l] = @ - 1, ![l + 1] = @ + 1]
        /\ kraft' = kraft - 2 ^ (MaxCodeLength - l)
        /\ UNCHANGED <<freq, nodes, heap, lengths, pc>>

\* One turn of enforceLengthLimit: a leaf of the deepest level above the limit
\* goes one level down.
PushDown ==
    LET l == Max(CanBePushed)
    IN  /\ pc = "limit"
        /\ Overfull
        /\ count' = [count EXCEPT ![l] = @ - 1, ![l + 1] = @ + 1]
        /\ kraft' = kraft - 2 ^ (MaxCodeLength - l - 1)
        /\ UNCHANGED <<freq, nodes, heap, lengths, pc>>

\* Mutant: the rarest symbols come first.
Before_Rarest(s, t) == freq[s] < freq[t] \/ (freq[s] = freq[t] /\ s < t)

\* The order in which the symbols take the lengths.
Before(s, t) == freq[s] > freq[t] \/ (freq[s] = freq[t] /\ s < t)

Rank(s) == Cardinality({t \in Present : Before(t, s)})

UpToLength(l) == SumUpTo(count, l)

\* Mutant: every symbol takes its own depth in the tree.
Assign_FromTree ==
    /\ pc = "limit"
    /\ ~Overfull
    /\ lengths' = [s \in Symbols |-> IF s \in Present THEN Depth[s] ELSE 0]
    /\ pc' = "done"
    /\ UNCHANGED <<freq, nodes, heap, count, kraft>>

\* The shortest lengths go to the most frequent symbols.
Assign ==
    /\ pc = "limit"
    /\ ~Overfull
    /\ lengths' = [s \in Symbols |->
                    IF s \in Present
                    THEN Min({l \in Lengths : Rank(s) < UpToLength(l)}) ELSE 0]
    /\ pc' = "done"
    /\ UNCHANGED <<freq, nodes, heap, count, kraft>>

Over ==
    /\ pc = "done"
    /\ UNCHANGED vars

Next ==
    \/ Few
    \/ PlantLeaves
    \/ Merge
    \/ Histogram
    \/ PushDown
    \/ Assign
    \/ Over

Spec == Init /\ [][Next]_vars

------------------------------------------------------------------------------
\* Properties

(***************************************************************************)
(* While the limit is being enforced the running sum is the space taken    *)
(* and no symbol is lost.  "One always exists": as long as the codes take  *)
(* too much space there is a leaf to push down, so the search for it ends  *)
(* at a level of at least 1 (huffman.cpp:63-85).                           *)
(***************************************************************************)
LeafToPush ==
    pc = "limit" =>
        /\ kraft = KraftSum(count)
        /\ UpToLength(MaxCodeLength) = Cardinality(Present)
        /\ Overfull => CanBePushed # {}

(***************************************************************************)
(* The variables have their types, and the limit is enforced soundly       *)
(* (huffman.cpp:63-163).                                                   *)
(***************************************************************************)
Inv == TypeOK /\ LeafToPush

(***************************************************************************)
(* Every symbol that occurs gets a code of at least one bit, and only      *)
(* those do; however badly the tree was clamped, the codes fill no more    *)
(* than the space there is, which is what the coders of a block are        *)
(* modelled with, no code has more bits than its length, and no code is    *)
(* the beginning of another (huffman.h:52-57, huffman.cpp:53-58).          *)
(***************************************************************************)
PrefixCode ==
    pc = "done" =>
        /\ lengths \in CodeLengths(Symbols, Present)
        /\ \A s \in Present : CodeValue(lengths, s) < 2 ^ lengths[s]
        /\ \A s \in Present, t \in Present :
              s # t => ~IsPrefix(Code(lengths, s), Code(lengths, t))

(***************************************************************************)
(* The decode tree, built from the lengths alone, gives back each symbol   *)
(* from its code and uses exactly the bits of the code, whatever follows.  *)
(***************************************************************************)
CodesDecode ==
    pc = "done" =>
        \A s \in Present, rest \in {<< >>, <<0>>, <<1>>} :
            DecodeSymbol(lengths, Code(lengths, s) \o rest) = [symbol |-> s, used |-> lengths[s]]

Cost(ls) == MapThenSumSet(LAMBDA s : freq[s] * ls[s], Symbols)

\* All the lengths a prefix code for these symbols could have.
PrefixLengths ==
    {ls \in [Present -> Lengths] :
        MapThenSumSet(LAMBDA s : 2 ^ (MaxCodeLength - ls[s]), Present) <= Limit}

(***************************************************************************)
(* When no code had to be shortened, no prefix code within the limit is    *)
(* cheaper: giving the lengths out by frequency instead of by tree loses   *)
(* nothing (huffman.cpp:144-153).                                          *)
(***************************************************************************)
Optimal ==
    pc = "done" /\ Cardinality(Present) > 1 /\ (\A s \in Present : Depth[s] <= MaxCodeLength)
        => \A ls \in PrefixLengths :
              Cost(lengths) <= MapThenSumSet(LAMBDA s : freq[s] * ls[s], Present)
==============================================================================
