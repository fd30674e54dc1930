----------------------------- MODULE CanonicalCode -----------------------------
(***************************************************************************)
(* src/src/huffman.cpp:165-212: from the length of each symbol's code to   *)
(* the codes (buildCanonicalCodes), and from the lengths to the tree that  *)
(* decodes them (DecodeTree).  A table of lengths is a function on symbols *)
(* 0 .. n, 0 for a symbol without a code, and need not come from           *)
(* buildLengths: decoders read it from a file.  Codes are sequences of     *)
(* bits, first bit first.                                                  *)
(***************************************************************************)
EXTENDS Bits, Sums, FiniteSetsExt

CONSTANT MaxCodeLength   \* kMaxCodeLength: 15 in the code

ASSUME CodeAssumption ==
    /\ MaxCodeLength \in Nat \ {0}
    /\ PowersDouble(MaxCodeLength)

Lengths == 1 .. MaxCodeLength

Coded(lengths) == {s \in DOMAIN lengths : lengths[s] # 0}

NumberOf(lengths, l) == Cardinality({s \in Coded(lengths) : lengths[s] = l})

\* The space taken by a number of codes of each length, in units of the longest.
KraftSum(number) ==
    SumUpTo([l \in Lengths |-> number[l] * 2 ^ (MaxCodeLength - l)], MaxCodeLength)

\* What buildLengths promises for the symbols that occur (Huffman!PrefixCode).
CodeLengths(alphabet, occurring) ==
    {lengths \in [alphabet -> 0 .. MaxCodeLength] :
        /\ Coded(lengths) = occurring
        /\ KraftSum([l \in Lengths |-> NumberOf(lengths, l)]) <= 2 ^ MaxCodeLength}

\* The bits that symbols 0 .. size - 1 take, each as often as it occurs.
BitsTaken(freq, lengths, size) ==
    SumUpTo([n \in 1 .. size |-> freq[n - 1] * lengths[n - 1]], size)

\* The first code of each length.
FirstCode(lengths) ==
    LET First[l \in 0 .. MaxCodeLength] ==
            IF l = 0 THEN 0 ELSE 2 * (First[l - 1] + NumberOf(lengths, l - 1))
    IN  First

\* Within a length, codes go up with the symbols.
CodeValue(lengths, s) ==
    FirstCode(lengths)[lengths[s]]
        + Cardinality({t \in Coded(lengths) : t < s /\ lengths[t] = lengths[s]})

Code(lengths, s) == LowBits(CodeValue(lengths, s), lengths[s])

------------------------------------------------------------------------------
\* DecodeTree: its nodes are the paths from the root.

\* Mutant: the path of a code starts with its last bit.
Path_LastBitFirst(lengths, s) ==
    [n \in 1 .. lengths[s] |-> (CodeValue(lengths, s) \div 2 ^ (n - 1)) % 2]

Path(lengths, s) == Code(lengths, s)

\* The symbols whose code ends at a path: the last one is the one it holds.
SymbolsAt(lengths, path) == {s \in Coded(lengths) : Path(lengths, s) = path}

NotACode == [symbol |-> -1, used |-> 0]

\* Walk from the root to the first node that holds a symbol; fall off the tree,
\* or run out of bits.
DecodeSymbol(lengths, bits) ==
    LET ends == {n \in 1 .. Min({Len(bits), MaxCodeLength}) :
                    SymbolsAt(lengths, SubSeq(bits, 1, n)) # {}}
    IN  IF ends = {} THEN NotACode
        ELSE [symbol |-> Max(SymbolsAt(lengths, SubSeq(bits, 1, Min(ends)))),
              used   |-> Min(ends)]
==============================================================================
