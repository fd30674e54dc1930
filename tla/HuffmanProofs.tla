----------------------------- MODULE HuffmanProofs -----------------------------
(***************************************************************************)
(* buildLengths, buildCanonicalCodes and DecodeTree for every alphabet,    *)
(* every table of frequencies and every limit on the length of a code.     *)
(*                                                                         *)
(* After the theorems, what BlockCodecProofs needs to know of any table of *)
(* codes, of the bits and bytes they are written in (BitIO), and of what   *)
(* tokens stand for (LzToken).                                             *)
(***************************************************************************)
EXTENDS Huffman, DeflateTables, BitIO, LzToken, FiniteSetTheorems, SequenceTheorems, WellFoundedInduction, TLAPS

------------------------------------------------------------------------------
\* Lemmas about numbers

\* A set of naturals has a least element.
LEMMA LeastElement ==
    ASSUME NEW S, S \subseteq Nat, S # {}
    PROVE  \E m \in S : \A k \in S : m <= k
<1>1. PICK m \in S : \A k \in S : <<k, m>> \notin OpToRel(<, Nat)
  BY NatLessThanWellFounded, WFMin
<1>2. \A k \in S : ~(k < m)
  BY <1>1 DEF OpToRel
<1> QED
  BY <1>2

\* Induction up to a bound, for a set.
LEMMA CountsUp ==
    ASSUME NEW n \in Nat, NEW S, 0 \in S, \A k \in 0 .. n - 1 : k \in S => k + 1 \in S
    PROVE  \A k \in 0 .. n : k \in S
<1> DEFINE T == {k \in 0 .. n : k \notin S}
<1>1. SUFFICES ASSUME T # {} PROVE FALSE
  OBVIOUS
<1>2. T \subseteq Nat
  OBVIOUS
<1>3. PICK m \in T : \A k \in T : m <= k
  BY <1>1, <1>2, LeastElement
<1>4. m \in 0 .. n /\ m # 0 /\ m \notin S
  BY <1>3
<1>5. m - 1 \in 0 .. n - 1 /\ (m - 1) + 1 = m /\ ~(m <= m - 1)
  BY <1>4
<1>6. m - 1 \in S
  BY <1>3, <1>5
<1> QED
  BY <1>4, <1>5, <1>6

\* A function on 0 .. n with values in a set, given by its first value and a step.
IsRecursion(r, n, V, first, g) ==
    /\ r \in [0 .. n -> V]
    /\ r[0] = first
    /\ \A l \in 1 .. n : r[l] = g[<<l, r[l - 1]>>]

\* There is one.
LEMMA Recursion ==
    ASSUME NEW n \in Nat, NEW V, NEW first \in V, NEW g \in [(1 .. n) \X V -> V]
    PROVE  \E r : IsRecursion(r, n, V, first, g)
<1> DEFINE S == {m \in 0 .. n : \E r : IsRecursion(r, m, V, first, g)}
<1>1. 0 \in S
  <2>1. IsRecursion([l \in 0 .. 0 |-> first], 0, V, first, g)
    BY DEF IsRecursion
  <2> QED
    BY <2>1
<1>2. ASSUME NEW m \in 0 .. n - 1, m \in S PROVE m + 1 \in S
  <2>1. PICK r : IsRecursion(r, m, V, first, g)
    BY <1>2
  <2>2. r \in [0 .. m -> V] /\ r[0] = first /\ \A l \in 1 .. m : r[l] = g[<<l, r[l - 1]>>]
    BY <2>1 DEF IsRecursion
  <2> DEFINE last == g[<<m + 1, r[m]>>]
             q == [l \in 0 .. m + 1 |-> IF l = m + 1 THEN last ELSE r[l]]
  <2>3. last \in V
    <3>1. <<m + 1, r[m]>> \in (1 .. n) \X V
      BY <2>2
    <3> QED
      BY <3>1
  <2>4. q \in [0 .. m + 1 -> V] /\ q[0] = first
    BY <2>2, <2>3
  <2>5. ASSUME NEW l \in 1 .. m + 1 PROVE q[l] = g[<<l, q[l - 1]>>]
    <3>1. CASE l = m + 1
      <4>1. q[l] = last /\ q[l - 1] = r[m]
        BY <3>1
      <4> QED
        BY <3>1, <4>1
    <3>2. CASE l \in 1 .. m
      <4>1. q[l] = r[l] /\ q[l - 1] = r[l - 1]
        BY <3>2
      <4> QED
        BY <2>2, <3>2, <4>1
    <3> QED
      BY <3>1, <3>2
  <2> HIDE DEF q
  <2>6. IsRecursion(q, m + 1, V, first, g)
    BY <2>4, <2>5 DEF IsRecursion
  <2> QED
    BY <1>2, <2>6
<1>3. \A m \in 0 .. n : m \in S
  <2> HIDE DEF S
  <2> QED
    BY <1>1, <1>2, CountsUp
<1> QED
  BY <1>3

\* The running sums of terms.
Running(f, term, n) == f = [k \in 0 .. n |-> IF k = 0 THEN 0 ELSE f[k - 1] + term[k]]

LEMMA RunningIs ==
    ASSUME NEW n \in Nat, NEW term, \A k \in 1 .. n : term[k] \in Nat
    PROVE  \E f \in [0 .. n -> Nat] : Running(f, term, n)
<1> DEFINE g == [p \in (1 .. n) \X Nat |-> p[2] + term[p[1]]]
<1>1. g \in [(1 .. n) \X Nat -> Nat]
  OBVIOUS
<1>2. PICK r : IsRecursion(r, n, Nat, 0, g)
  <2> HIDE DEF g
  <2> QED
    BY <1>1, Recursion
<1>3. r \in [0 .. n -> Nat] /\ r[0] = 0 /\ \A l \in 1 .. n : r[l] = g[<<l, r[l - 1]>>]
  BY <1>2 DEF IsRecursion
<1>4. ASSUME NEW l \in 0 .. n PROVE r[l] = IF l = 0 THEN 0 ELSE r[l - 1] + term[l]
  <2>1. CASE l # 0
    <3>1. <<l, r[l - 1]>> \in (1 .. n) \X Nat
      BY <1>3, <2>1
    <3> QED
      BY <1>3, <2>1, <3>1
  <2> QED
    BY <1>3, <2>1
<1> HIDE DEF g
<1>5. r = [k \in 0 .. n |-> IF k = 0 THEN 0 ELSE r[k - 1] + term[k]]
  BY <1>3, <1>4
<1> QED
  BY <1>3, <1>5 DEF Running

\* Sums are what they are defined as.
LEMMA SumIs ==
    ASSUME NEW n \in Nat, NEW term, \A k \in 1 .. n : term[k] \in Nat
    PROVE  /\ SumUpTo(term, 0) = 0
           /\ \A k \in 0 .. n : SumUpTo(term, k) \in Nat
           /\ \A k \in 1 .. n : SumUpTo(term, k) = SumUpTo(term, k - 1) + term[k]
<1> DEFINE sum(m) == CHOOSE f : Running(f, term, m)
<1>1. ASSUME NEW m \in 0 .. n PROVE Running(sum(m), term, m)
  <2>1. \E f : Running(f, term, m)
    BY RunningIs, SMTT(40)
  <2> QED
    BY <2>1
<1>2. ASSUME NEW m \in 0 .. n PROVE SumUpTo(term, m) = sum(m)[m]
  BY DEF SumUpTo, Running
<1>3. PICK f \in [0 .. n -> Nat] : Running(f, term, n)
  BY RunningIs
<1>4. f[0] = 0 /\ \A k \in 1 .. n : f[k] = f[k - 1] + term[k]
  BY <1>3 DEF Running
<1> HIDE DEF sum
<1>5. ASSUME NEW m \in 0 .. n PROVE sum(m)[m] = f[m]
  <2> DEFINE h == sum(m)
             S == {k \in 0 .. m : h[k] = f[k]}
  <2>1. h = [k \in 0 .. m |-> IF k = 0 THEN 0 ELSE h[k - 1] + term[k]]
    BY <1>1 DEF Running
  <2> HIDE DEF h
  <2>2. 0 \in S
    BY <1>4, <2>1
  <2>3. ASSUME NEW k \in 0 .. m - 1, k \in S PROVE k + 1 \in S
    <3>1. h[k + 1] = h[k] + term[k + 1]
      BY <2>1
    <3>2. f[k + 1] = f[k] + term[k + 1]
      BY <1>4
    <3> QED
      BY <2>3, <3>1, <3>2
  <2>4. \A k \in 0 .. m : k \in S
    <3>1. m \in Nat
      OBVIOUS
    <3> HIDE DEF S
    <3> QED
      BY <2>2, <2>3, <3>1, CountsUp
  <2> QED
    BY <2>4 DEF h
<1>6. \A m \in 0 .. n : SumUpTo(term, m) = f[m]
  BY <1>2, <1>5
<1> QED
  BY <1>4, <1>6

\* Equal terms have equal sums.
LEMMA SumsAgree ==
    ASSUME NEW n \in Nat, NEW f, \A k \in 1 .. n : f[k] \in Nat,
           NEW g, \A k \in 1 .. n : g[k] = f[k]
    PROVE  SumUpTo(g, n) = SumUpTo(f, n)
<1> DEFINE S == {k \in 0 .. n : SumUpTo(g, k) = SumUpTo(f, k)}
<1>1. /\ SumUpTo(f, 0) = 0 /\ SumUpTo(g, 0) = 0
      /\ \A k \in 1 .. n : SumUpTo(f, k) = SumUpTo(f, k - 1) + f[k]
      /\ \A k \in 1 .. n : SumUpTo(g, k) = SumUpTo(g, k - 1) + g[k]
  BY SumIs
<1>2. 0 \in S
  BY <1>1
<1>3. ASSUME NEW k \in 0 .. n - 1, k \in S PROVE k + 1 \in S
  <2>1. SumUpTo(f, k + 1) = SumUpTo(f, k) + f[k + 1] /\ SumUpTo(g, k + 1) = SumUpTo(g, k) + g[k + 1]
    BY <1>1
  <2> QED
    BY <1>3, <2>1
<1>4. \A k \in 0 .. n : k \in S
  <2> HIDE DEF S
  <2> QED
    BY <1>2, <1>3, CountsUp
<1> QED
  BY <1>4

\* What one term gains, the sum gains.
LEMMA SumGains ==
    ASSUME NEW n \in Nat, NEW f, \A k \in 1 .. n : f[k] \in Nat,
           NEW g, NEW j \in 1 .. n, NEW d \in Nat, g[j] = f[j] + d,
           \A k \in (1 .. n) \ {j} : g[k] = f[k]
    PROVE  SumUpTo(g, n) = SumUpTo(f, n) + d
<1> DEFINE S == {k \in 0 .. n : SumUpTo(g, k) = SumUpTo(f, k) + IF j <= k THEN d ELSE 0}
<1>0. \A k \in 1 .. n : g[k] \in Nat
  OBVIOUS
<1>1. /\ SumUpTo(f, 0) = 0 /\ SumUpTo(g, 0) = 0
      /\ \A k \in 0 .. n : SumUpTo(f, k) \in Nat
      /\ \A k \in 1 .. n : SumUpTo(f, k) = SumUpTo(f, k - 1) + f[k]
      /\ \A k \in 1 .. n : SumUpTo(g, k) = SumUpTo(g, k - 1) + g[k]
  BY <1>0, SumIs
<1>2. 0 \in S
  BY <1>1
<1>3. ASSUME NEW k \in 0 .. n - 1, k \in S PROVE k + 1 \in S
  <2>1. SumUpTo(f, k + 1) = SumUpTo(f, k) + f[k + 1] /\ SumUpTo(g, k + 1) = SumUpTo(g, k) + g[k + 1]
    BY <1>1
  <2>2. SumUpTo(f, k) \in Nat /\ f[k + 1] \in Nat
    BY <1>1
  <2>3. SumUpTo(g, k) = SumUpTo(f, k) + IF j <= k THEN d ELSE 0
    BY <1>3
  <2>4. g[k + 1] = IF j = k + 1 THEN f[k + 1] + d ELSE f[k + 1]
    OBVIOUS
  <2> QED
    BY <2>1, <2>2, <2>3, <2>4
<1>4. \A k \in 0 .. n : k \in S
  <2> HIDE DEF S
  <2> QED
    BY <1>2, <1>3, CountsUp
<1> QED
  BY <1>4

\* Sums over the lengths of codes.
Sums(number) == [l \in 0 .. MaxCodeLength |-> SumUpTo(number, l)]

Numbers(number) == \A l \in Lengths : number[l] \in Nat

LEMMA SumAt ==
    ASSUME NEW number, NEW l \in 0 .. MaxCodeLength
    PROVE  Sums(number)[l] = SumUpTo(number, l)
BY DEF Sums

LEMMA SumOfAll ==
    ASSUME NEW number
    PROVE  Sums(number)[MaxCodeLength] = SumUpTo(number, MaxCodeLength)
BY SumAt, CodeAssumption

LEMMA SumsAre ==
    ASSUME NEW number, Numbers(number)
    PROVE  /\ Sums(number)[0] = 0
           /\ \A l \in 0 .. MaxCodeLength : Sums(number)[l] \in Nat
           /\ \A l \in Lengths : Sums(number)[l] = Sums(number)[l - 1] + number[l]
<1>1. MaxCodeLength \in Nat /\ Lengths = 1 .. MaxCodeLength
  BY CodeAssumption DEF Lengths
<1>2. \A l \in 1 .. MaxCodeLength : number[l] \in Nat
  BY <1>1 DEF Numbers
<1>3. /\ SumUpTo(number, 0) = 0
      /\ \A l \in 0 .. MaxCodeLength : SumUpTo(number, l) \in Nat
      /\ \A l \in 1 .. MaxCodeLength : SumUpTo(number, l) = SumUpTo(number, l - 1) + number[l]
  BY <1>1, <1>2, SumIs
<1>4. \A l \in 0 .. MaxCodeLength : Sums(number)[l] = SumUpTo(number, l)
  BY DEF Sums
<1> QED
  BY <1>1, <1>3, <1>4

\* They never go down.
LEMMA SumsGrow ==
    ASSUME NEW number, Numbers(number), NEW k \in 0 .. MaxCodeLength, NEW l \in k .. MaxCodeLength
    PROVE  Sums(number)[k] <= Sums(number)[l]
<1> DEFINE sum == Sums(number)
           S == {i \in 0 .. l - k : sum[k] <= sum[k + i]}
<1>1. MaxCodeLength \in Nat /\ l - k \in Nat
  BY CodeAssumption
<1>2. /\ \A i \in 0 .. MaxCodeLength : sum[i] \in Nat
      /\ \A i \in Lengths : sum[i] = sum[i - 1] + number[i]
  BY SumsAre
<1> HIDE DEF sum
<1>3. 0 \in S
  BY <1>1, <1>2
<1>4. ASSUME NEW i \in 0 .. (l - k) - 1, i \in S PROVE i + 1 \in S
  <2>1. /\ k + (i + 1) \in Lengths /\ (k + (i + 1)) - 1 = k + i /\ i + 1 \in 0 .. l - k
        /\ k + i \in 0 .. MaxCodeLength
    BY <1>1 DEF Lengths
  <2>2. sum[k + (i + 1)] = sum[k + i] + number[k + (i + 1)] /\ number[k + (i + 1)] \in Nat
    BY <1>2, <2>1 DEF Numbers
  <2>3. sum[k + i] \in Nat /\ sum[k] \in Nat /\ sum[k] <= sum[k + i]
    BY <1>2, <1>4, <2>1
  <2> QED
    BY <2>1, <2>2, <2>3
<1>5. \A i \in 0 .. l - k : i \in S
  <2> HIDE DEF S
  <2> QED
    BY <1>1, <1>3, <1>4, CountsUp
<1>6. l - k \in S /\ k + (l - k) = l
  BY <1>1, <1>5
<1> QED
  BY <1>6 DEF sum

\* A number is at most a sum it is part of.
LEMMA PartOfSum ==
    ASSUME NEW number, Numbers(number), NEW l \in Lengths
    PROVE  number[l] <= Sums(number)[MaxCodeLength]
<1>1. MaxCodeLength \in Nat /\ l \in 0 .. MaxCodeLength /\ l - 1 \in 0 .. MaxCodeLength
      /\ MaxCodeLength \in l .. MaxCodeLength
  BY CodeAssumption DEF Lengths
<1>2. Sums(number)[l] = Sums(number)[l - 1] + number[l] /\ Sums(number)[l - 1] \in Nat
      /\ Sums(number)[l] \in Nat /\ Sums(number)[MaxCodeLength] \in Nat
  BY <1>1, SumsAre
<1>3. Sums(number)[l] <= Sums(number)[MaxCodeLength]
  BY <1>1, SumsGrow
<1>4. number[l] \in Nat
  BY DEF Numbers
<1> QED
  BY <1>2, <1>3, <1>4

\* What two numbers next to each other gain, the sum gains.
LEMMA SumsChange ==
    ASSUME NEW f, Numbers(f), NEW g, Numbers(g), NEW k \in 1 .. MaxCodeLength - 1,
           \A l \in Lengths \ {k, k + 1} : g[l] = f[l]
    PROVE  Sums(g)[MaxCodeLength] - Sums(f)[MaxCodeLength] = (g[k] - f[k]) + (g[k + 1] - f[k + 1])
<1> DEFINE F == Sums(f)
           G == Sums(g)
           x == g[k] - f[k]
           y == g[k + 1] - f[k + 1]
           S == {l \in 0 .. MaxCodeLength :
                    G[l] - F[l] = (IF k <= l THEN x ELSE 0) + (IF k + 1 <= l THEN y ELSE 0)}
<1>1. MaxCodeLength \in Nat /\ k \in Lengths /\ k + 1 \in Lengths
  BY CodeAssumption DEF Lengths
<1>2. /\ F[0] = 0 /\ G[0] = 0
      /\ \A l \in 0 .. MaxCodeLength : F[l] \in Nat /\ G[l] \in Nat
      /\ \A l \in Lengths : F[l] = F[l - 1] + f[l] /\ G[l] = G[l - 1] + g[l]
  BY SumsAre
<1>3. \A l \in Lengths : f[l] \in Nat /\ g[l] \in Nat
  BY DEF Numbers
<1>4. x \in Int /\ y \in Int
  BY <1>1, <1>3
<1> HIDE DEF F, G, x, y
<1>5. 0 \in S
  BY <1>1, <1>2
<1>6. ASSUME NEW l \in 0 .. MaxCodeLength - 1, l \in S PROVE l + 1 \in S
  <2>1. l + 1 \in Lengths /\ (l + 1) - 1 = l /\ l \in 0 .. MaxCodeLength /\ l + 1 \in 0 .. MaxCodeLength
    BY <1>1 DEF Lengths
  <2>2. F[l + 1] = F[l] + f[l + 1] /\ G[l + 1] = G[l] + g[l + 1]
    BY <1>2, <2>1
  <2>3. F[l] \in Nat /\ G[l] \in Nat /\ f[l + 1] \in Nat /\ g[l + 1] \in Nat
    BY <1>2, <1>3, <2>1
  <2>4. G[l] - F[l] = (IF k <= l THEN x ELSE 0) + (IF k + 1 <= l THEN y ELSE 0)
    BY <1>6
  <2>5. G[l + 1] - F[l + 1] = (G[l] - F[l]) + (g[l + 1] - f[l + 1])
    BY <2>2, <2>3
  <2>6. g[l + 1] - f[l + 1] = IF l + 1 = k THEN x ELSE IF l + 1 = k + 1 THEN y ELSE 0
    BY <2>1, <2>3 DEF x, y
  <2> QED
    BY <1>4, <2>1, <2>3, <2>4, <2>5, <2>6
<1>7. \A l \in 0 .. MaxCodeLength : l \in S
  <2> HIDE DEF S
  <2> QED
    BY <1>1, <1>5, <1>6, CountsUp
<1>8. MaxCodeLength \in S
  BY <1>1, <1>7
<1>9. G[MaxCodeLength] - F[MaxCodeLength] = x + y
  BY <1>1, <1>4, <1>8
<1> QED
  BY <1>9 DEF F, G, x, y

\* A sum with a single number is that number.
LEMMA OnlyOne ==
    ASSUME NEW f, Numbers(f), NEW k \in Lengths, \A l \in Lengths \ {k} : f[l] = 0
    PROVE  Sums(f)[MaxCodeLength] = f[k]
<1> DEFINE F == Sums(f)
           S == {l \in 0 .. MaxCodeLength : F[l] = IF k <= l THEN f[k] ELSE 0}
<1>1. MaxCodeLength \in Nat
  BY CodeAssumption
<1>2. /\ F[0] = 0
      /\ \A l \in 0 .. MaxCodeLength : F[l] \in Nat
      /\ \A l \in Lengths : F[l] = F[l - 1] + f[l]
  BY SumsAre
<1>3. \A l \in Lengths : f[l] \in Nat
  BY DEF Numbers
<1> HIDE DEF F
<1>4. 0 \in S
  BY <1>1, <1>2 DEF Lengths
<1>5. ASSUME NEW l \in 0 .. MaxCodeLength - 1, l \in S PROVE l + 1 \in S
  <2>1. l + 1 \in Lengths /\ (l + 1) - 1 = l /\ l \in 0 .. MaxCodeLength /\ l + 1 \in 0 .. MaxCodeLength
    BY <1>1 DEF Lengths
  <2>2. F[l + 1] = F[l] + f[l + 1]
    BY <1>2, <2>1
  <2>3. F[l] \in Nat /\ f[l + 1] \in Nat /\ f[k] \in Nat
    BY <1>2, <1>3, <2>1
  <2>4. F[l] = IF k <= l THEN f[k] ELSE 0
    BY <1>5
  <2>5. k # l + 1 => f[l + 1] = 0
    BY <2>1
  <2> QED
    BY <2>1, <2>2, <2>3, <2>4, <2>5 DEF Lengths
<1>6. \A l \in 0 .. MaxCodeLength : l \in S
  <2> HIDE DEF S
  <2> QED
    BY <1>1, <1>4, <1>5, CountsUp
<1>7. MaxCodeLength \in S
  BY <1>1, <1>6
<1> QED
  BY <1>1, <1>7 DEF F, Lengths

\* Powers are what they are defined as.
LEMMA Powers ==
    /\ 2 ^ 0 = 1
    /\ \A n \in 0 .. MaxCodeLength : 2 ^ n \in Nat \ {0}
    /\ \A n \in Lengths : 2 ^ n = 2 * 2 ^ (n - 1)
<1>1. MaxCodeLength \in Nat
  BY CodeAssumption
<1>2. 2 ^ 0 = 1 /\ \A n \in 0 .. MaxCodeLength : 2 ^ n \in Nat \ {0}
  BY CodeAssumption DEF PowersDouble
<1>3. ASSUME NEW n \in Lengths PROVE 2 ^ n = 2 * 2 ^ (n - 1)
  <2>1. n - 1 \in 0 .. MaxCodeLength /\ (n - 1) + 1 = n
    BY <1>1 DEF Lengths
  <2>2. 2 ^ ((n - 1) + 1) = 2 * 2 ^ (n - 1)
    BY <2>1, CodeAssumption DEF PowersDouble
  <2> QED
    BY <2>1, <2>2
<1> QED
  BY <1>2, <1>3

\* Exponents add up.
LEMMA PowersMultiply ==
    ASSUME NEW m \in 0 .. MaxCodeLength, NEW n \in 0 .. MaxCodeLength - m
    PROVE  2 ^ (m + n) = 2 ^ m * 2 ^ n
<1> DEFINE S == {i \in 0 .. n : 2 ^ (m + i) = 2 ^ m * 2 ^ i}
<1>1. MaxCodeLength \in Nat /\ n \in Nat
  BY CodeAssumption
<1>2. 0 \in S
  <2>1. 2 ^ m \in Nat /\ m + 0 = m
    BY Powers
  <2> QED
    BY <1>1, <2>1, Powers
<1>3. ASSUME NEW i \in 0 .. n - 1, i \in S PROVE i + 1 \in S
  <2>1. /\ i + 1 \in Lengths /\ m + (i + 1) \in Lengths /\ (i + 1) - 1 = i
        /\ (m + (i + 1)) - 1 = m + i /\ i + 1 \in 0 .. n /\ i \in 0 .. MaxCodeLength
    BY <1>1 DEF Lengths
  <2>2. 2 ^ (i + 1) = 2 * 2 ^ i /\ 2 ^ (m + (i + 1)) = 2 * 2 ^ (m + i)
    BY <2>1, Powers
  <2>3. 2 ^ (m + i) = 2 ^ m * 2 ^ i
    BY <1>3
  <2>4. 2 ^ m \in Nat /\ 2 ^ i \in Nat
    BY <2>1, Powers
  <2>5. 2 ^ (m + (i + 1)) = 2 ^ m * 2 ^ (i + 1)
    <3>1. \A a \in Nat, b \in Nat : 2 * (a * b) = a * (2 * b)
      OBVIOUS
    <3> QED
      BY <2>2, <2>3, <2>4, <3>1
  <2> QED
    BY <2>1, <2>5
<1>4. \A i \in 0 .. n : i \in S
  <2> HIDE DEF S
  <2> QED
    BY <1>1, <1>2, <1>3, CountsUp
<1> QED
  BY <1>1, <1>4

------------------------------------------------------------------------------
\* Lemmas about tables of lengths and their codes

IsTable(ls) ==
    /\ ls \in [DOMAIN ls -> 0 .. MaxCodeLength]
    /\ IsFiniteSet(DOMAIN ls)
    /\ DOMAIN ls \subseteq Int

OfLength(ls, l) == {s \in Coded(ls) : ls[s] = l}

\* The space that the codes of each length take.
Spaces(ls) == [l \in Lengths |-> NumberOf(ls, l) * 2 ^ (MaxCodeLength - l)]

LEMMA NumberIs ==
    ASSUME NEW ls, NEW l
    PROVE  NumberOf(ls, l) = Cardinality(OfLength(ls, l))
BY DEF NumberOf, OfLength

LEMMA NumbersOf ==
    ASSUME NEW ls, IsTable(ls)
    PROVE  /\ \A l : IsFiniteSet(OfLength(ls, l)) /\ NumberOf(ls, l) \in Nat
           /\ NumberOf(ls, 0) = 0
           /\ Numbers(Spaces(ls))
<1>1. ASSUME NEW l PROVE IsFiniteSet(OfLength(ls, l)) /\ NumberOf(ls, l) \in Nat
  <2>1. OfLength(ls, l) \in SUBSET DOMAIN ls
    BY DEF OfLength, Coded
  <2>2. IsFiniteSet(OfLength(ls, l))
    BY <2>1, FS_Subset DEF IsTable
  <2> QED
    BY <2>2, FS_CardinalityType DEF NumberOf, OfLength
<1>2. OfLength(ls, 0) = {}
  BY DEF OfLength, Coded
<1>3. NumberOf(ls, 0) = 0
  BY <1>2, FS_EmptySet DEF NumberOf, OfLength
<1>4. ASSUME NEW l \in Lengths PROVE Spaces(ls)[l] \in Nat
  <2>1. MaxCodeLength - l \in 0 .. MaxCodeLength
    BY CodeAssumption DEF Lengths
  <2>2. 2 ^ (MaxCodeLength - l) \in Nat /\ NumberOf(ls, l) \in Nat
    BY <1>1, <2>1, Powers
  <2>3. Spaces(ls)[l] = NumberOf(ls, l) * 2 ^ (MaxCodeLength - l)
    BY DEF Spaces
  <2> QED
    BY <2>2, <2>3
<1> QED
  BY <1>1, <1>3, <1>4 DEF Numbers

\* First codes are what they are defined as.
LEMMA FirstIs ==
    ASSUME NEW ls, IsTable(ls)
    PROVE  /\ FirstCode(ls)[0] = 0
           /\ \A l \in 0 .. MaxCodeLength : FirstCode(ls)[l] \in Nat
           /\ \A l \in Lengths : FirstCode(ls)[l] = 2 * (FirstCode(ls)[l - 1] + NumberOf(ls, l - 1))
<1> DEFINE Is(f) == f = [l \in 0 .. MaxCodeLength |->
                            IF l = 0 THEN 0
                            ELSE 2 * (f[l - 1] + NumberOf(ls, l - 1))]
           g == [p \in Lengths \X Nat |-> 2 * (p[2] + NumberOf(ls, p[1] - 1))]
<1>1. MaxCodeLength \in Nat
  BY CodeAssumption
<1>2. \A l : NumberOf(ls, l) \in Nat /\ NumberOf(ls, l) = Cardinality({s \in Coded(ls) : ls[s] = l})
  BY NumbersOf DEF NumberOf, OfLength
<1>3. \E f \in [0 .. MaxCodeLength -> Nat] : Is(f)
  <2>1. g \in [(1 .. MaxCodeLength) \X Nat -> Nat]
    BY <1>2 DEF Lengths
  <2>2. PICK r : IsRecursion(r, MaxCodeLength, Nat, 0, g)
    <3> HIDE DEF g
    <3> QED
      BY <1>1, <2>1, Recursion
  <2>3. /\ r \in [0 .. MaxCodeLength -> Nat]
        /\ r[0] = 0 /\ \A l \in 1 .. MaxCodeLength : r[l] = g[<<l, r[l - 1]>>]
    BY <2>2 DEF IsRecursion
  <2>4. ASSUME NEW l \in 0 .. MaxCodeLength
        PROVE  r[l] = IF l = 0 THEN 0
                      ELSE 2 * (r[l - 1] + NumberOf(ls, l - 1))
    <3>1. CASE l # 0
      <4>1. <<l, r[l - 1]>> \in Lengths \X Nat
        BY <1>1, <2>3, <3>1 DEF Lengths
      <4>2. g[<<l, r[l - 1]>>] = 2 * (r[l - 1] + NumberOf(ls, l - 1))
        BY <4>1
      <4> HIDE DEF g
      <4>3. r[l] = g[<<l, r[l - 1]>>]
        BY <1>1, <2>3, <3>1
      <4>4. NumberOf(ls, l - 1) = NumberOf(ls, l - 1)
        BY <1>2
      <4> QED
        BY <3>1, <4>2, <4>3, <4>4
    <3> QED
      BY <2>3, <3>1
  <2>5. Is(r)
    BY <2>3, <2>4
  <2> HIDE DEF Is
  <2> QED
    BY <2>3, <2>5
<1> DEFINE first == CHOOSE f : Is(f)
<1>4. FirstCode(ls) = first
  BY DEF FirstCode
<1>5. Is(first)
  BY <1>3
<1> HIDE DEF first
<1>6. first[0] = 0
  BY <1>1, <1>5
<1>7. ASSUME NEW l \in Lengths PROVE first[l] = 2 * (first[l - 1] + NumberOf(ls, l - 1))
  <2>1. l \in 0 .. MaxCodeLength /\ l # 0
    BY <1>1 DEF Lengths
  <2>2. first[l] = 2 * (first[l - 1] + NumberOf(ls, l - 1))
    BY <1>5, <2>1
  <2>3. NumberOf(ls, l - 1) = NumberOf(ls, l - 1)
    BY <1>2
  <2> HIDE DEF Is
  <2> QED
    BY <2>2, <2>3
<1> HIDE DEF Is
<1> DEFINE S == {l \in 0 .. MaxCodeLength : first[l] \in Nat}
<1>8. 0 \in S
  BY <1>1, <1>6
<1>9. ASSUME NEW l \in 0 .. MaxCodeLength - 1, l \in S PROVE l + 1 \in S
  <2>1. l + 1 \in Lengths /\ (l + 1) - 1 = l /\ l + 1 \in 0 .. MaxCodeLength
    BY <1>1 DEF Lengths
  <2>2. first[l + 1] = 2 * (first[l] + NumberOf(ls, l)) /\ NumberOf(ls, l) \in Nat
    BY <1>2, <1>7, <2>1
  <2> QED
    BY <1>9, <2>1, <2>2
<1>10. \A l \in 0 .. MaxCodeLength : l \in S
  <2> HIDE DEF S
  <2> QED
    BY <1>1, <1>8, <1>9, CountsUp
<1> QED
  BY <1>4, <1>6, <1>7, <1>10

\* Where the codes of each length begin and end, in units of the longest code.
LEMMA Ends ==
    ASSUME NEW ls, IsTable(ls)
    PROVE  \A l \in Lengths :
              /\ FirstCode(ls)[l] * 2 ^ (MaxCodeLength - l) = Sums(Spaces(ls))[l - 1]
              /\ (FirstCode(ls)[l] + NumberOf(ls, l)) * 2 ^ (MaxCodeLength - l) = Sums(Spaces(ls))[l]
<1> DEFINE first == FirstCode(ls)
           N(l) == NumberOf(ls, l)
           sum == Sums(Spaces(ls))
           P(l) == 2 ^ (MaxCodeLength - l)
           S == {l \in 0 .. MaxCodeLength : (first[l] + N(l)) * P(l) = sum[l]}
<1>1. MaxCodeLength \in Nat
  BY CodeAssumption
<1>2. /\ first[0] = 0
      /\ \A l \in 0 .. MaxCodeLength : first[l] \in Nat
      /\ \A l \in Lengths : first[l] = 2 * (first[l - 1] + N(l - 1))
  BY FirstIs
<1>3. N(0) = 0 /\ \A l : N(l) \in Nat
  BY NumbersOf
<1>4. /\ sum[0] = 0
      /\ \A l \in 0 .. MaxCodeLength : sum[l] \in Nat
      /\ \A l \in Lengths : sum[l] = sum[l - 1] + N(l) * P(l)
  <2>1. Numbers(Spaces(ls))
    BY NumbersOf
  <2>2. \A l \in Lengths : Spaces(ls)[l] = N(l) * P(l)
    BY DEF Spaces
  <2> HIDE DEF N, P
  <2> QED
    BY <2>1, <2>2, SumsAre
<1>5. \A l \in 0 .. MaxCodeLength : P(l) \in Nat
  <2>1. \A l \in 0 .. MaxCodeLength : MaxCodeLength - l \in 0 .. MaxCodeLength
    BY <1>1
  <2> QED
    BY <2>1, Powers
<1>6. ASSUME NEW l \in Lengths PROVE P(l - 1) = 2 * P(l)
  <2>1. (MaxCodeLength - (l - 1)) \in Lengths /\ (MaxCodeLength - (l - 1)) - 1 = MaxCodeLength - l
    BY <1>1 DEF Lengths
  <2>2. 2 ^ (MaxCodeLength - (l - 1)) = 2 * 2 ^ ((MaxCodeLength - (l - 1)) - 1)
    BY <2>1, Powers
  <2> QED
    BY <2>1, <2>2
<1> HIDE DEF first, N, sum, P
<1>7. 0 \in S
  <2>1. P(0) \in Nat /\ 0 \in 0 .. MaxCodeLength
    BY <1>1, <1>5
  <2> QED
    BY <1>2, <1>3, <1>4, <2>1
<1>8. ASSUME NEW l \in Lengths, l - 1 \in S PROVE first[l] * P(l) = sum[l - 1] /\ l \in S
  <2>1. l \in 0 .. MaxCodeLength /\ l - 1 \in 0 .. MaxCodeLength
    BY <1>1 DEF Lengths
  <2>2. first[l] = 2 * (first[l - 1] + N(l - 1)) /\ P(l - 1) = 2 * P(l)
    BY <1>2, <1>6
  <2>3. (first[l - 1] + N(l - 1)) * P(l - 1) = sum[l - 1]
    BY <1>8
  <2>4. /\ first[l] \in Nat /\ first[l - 1] \in Nat /\ N(l - 1) \in Nat /\ N(l) \in Nat /\ P(l) \in Nat
        /\ sum[l - 1] \in Nat
    BY <1>2, <1>3, <1>4, <1>5, <2>1
  <2>5. \A a \in Nat, p \in Nat : a * (2 * p) = (2 * a) * p
    OBVIOUS
  <2>6. first[l] * P(l) = sum[l - 1]
    <3>1. first[l - 1] + N(l - 1) \in Nat
      BY <2>4
    <3> QED
      BY <2>2, <2>3, <2>4, <2>5, <3>1
  <2>7. sum[l] = sum[l - 1] + N(l) * P(l)
    BY <1>4
  <2>8. \A a \in Nat, b \in Nat, p \in Nat : (a + b) * p = a * p + b * p
    OBVIOUS
  <2>9. (first[l] + N(l)) * P(l) = sum[l]
    BY <2>4, <2>6, <2>7, <2>8
  <2> QED
    BY <2>1, <2>6, <2>9
<1>9. ASSUME NEW l \in 0 .. MaxCodeLength - 1, l \in S PROVE l + 1 \in S
  <2>1. l + 1 \in Lengths /\ (l + 1) - 1 = l
    BY <1>1 DEF Lengths
  <2> HIDE DEF S
  <2> QED
    BY <1>8, <1>9, <2>1
<1>10. \A l \in 0 .. MaxCodeLength : l \in S
  <2> HIDE DEF S
  <2> QED
    BY <1>1, <1>7, <1>9, CountsUp
<1>11. ASSUME NEW l \in Lengths
       PROVE  first[l] * P(l) = sum[l - 1] /\ (first[l] + N(l)) * P(l) = sum[l]
  <2>1. l - 1 \in 0 .. MaxCodeLength
    BY <1>1 DEF Lengths
  <2>2. l - 1 \in S
    BY <1>10, <2>1
  <2> QED
    BY <1>8, <2>2
<1> QED
  BY <1>11 DEF first, N, sum, P

\* The codes of a length go up with the symbols.
Earlier(ls, s) == {t \in Coded(ls) : t < s /\ ls[t] = ls[s]}

LEMMA EarlierAre ==
    ASSUME NEW ls, IsTable(ls), NEW s \in Coded(ls)
    PROVE  /\ Cardinality(Earlier(ls, s)) \in Nat
           /\ Cardinality(Earlier(ls, s)) + 1 <= NumberOf(ls, ls[s])
           /\ \A t \in Coded(ls) :
                 t < s /\ ls[t] = ls[s] => Cardinality(Earlier(ls, t)) + 1 <= Cardinality(Earlier(ls, s))
<1>1. s \in DOMAIN ls /\ \A t \in Coded(ls) : t \in Int
  BY DEF Coded, IsTable
<1>2. ASSUME NEW t \in Coded(ls) PROVE IsFiniteSet(Earlier(ls, t)) /\ Cardinality(Earlier(ls, t)) \in Nat
  <2>1. Earlier(ls, t) \in SUBSET DOMAIN ls
    BY DEF Earlier, Coded
  <2>2. IsFiniteSet(Earlier(ls, t))
    BY <2>1, FS_Subset DEF IsTable
  <2> QED
    BY <2>2, FS_CardinalityType
<1>3. ASSUME NEW t \in Coded(ls)
      PROVE  Cardinality(Earlier(ls, t) \cup {t}) = Cardinality(Earlier(ls, t)) + 1
  <2>1. t \notin Earlier(ls, t)
    BY <1>1 DEF Earlier
  <2> QED
    BY <1>2, <2>1, FS_AddElement
<1>4. Cardinality(Earlier(ls, s)) + 1 <= NumberOf(ls, ls[s])
  <2>1. Earlier(ls, s) \cup {s} \in SUBSET OfLength(ls, ls[s])
    BY DEF Earlier, OfLength
  <2>2. IsFiniteSet(OfLength(ls, ls[s]))
    BY NumbersOf
  <2>3. Cardinality(Earlier(ls, s) \cup {s}) <= Cardinality(OfLength(ls, ls[s]))
    BY <2>1, <2>2, FS_Subset
  <2> QED
    BY <1>3, <2>3 DEF NumberOf, OfLength
<1>5. ASSUME NEW t \in Coded(ls), t < s, ls[t] = ls[s]
      PROVE  Cardinality(Earlier(ls, t)) + 1 <= Cardinality(Earlier(ls, s))
  <2>1. Earlier(ls, t) \cup {t} \in SUBSET Earlier(ls, s)
    BY <1>1, <1>5 DEF Earlier
  <2>2. Cardinality(Earlier(ls, t) \cup {t}) <= Cardinality(Earlier(ls, s))
    BY <1>2, <2>1, FS_Subset
  <2> QED
    BY <1>3, <2>2
<1> QED
  BY <1>2, <1>4, <1>5

Unit(ls, s) == 2 ^ (MaxCodeLength - ls[s])

Places(ls, s, t) ==
    \/ (CodeValue(ls, s) + 1) * Unit(ls, s) <= CodeValue(ls, t) * Unit(ls, t)
    \/ (CodeValue(ls, t) + 1) * Unit(ls, t) <= CodeValue(ls, s) * Unit(ls, s)

LEMMA CodedAre ==
    ASSUME NEW ls, IsTable(ls), NEW s \in Coded(ls)
    PROVE  /\ ls[s] \in Lengths /\ ls[s] \in 0 .. MaxCodeLength /\ s \in Int
           /\ Unit(ls, s) \in Nat \ {0}
           /\ CodeValue(ls, s) \in Nat
           /\ CodeValue(ls, s) = FirstCode(ls)[ls[s]] + Cardinality(Earlier(ls, s))
<1>1. s \in DOMAIN ls /\ ls[s] # 0
  BY DEF Coded
<1>2. ls[s] \in 0 .. MaxCodeLength /\ s \in Int /\ MaxCodeLength \in Nat
  BY <1>1, CodeAssumption DEF IsTable
<1>3. ls[s] \in Lengths /\ MaxCodeLength - ls[s] \in 0 .. MaxCodeLength
  BY <1>1, <1>2 DEF Lengths
<1>4. Unit(ls, s) \in Nat \ {0}
  BY <1>3, Powers DEF Unit
<1>5. CodeValue(ls, s) = FirstCode(ls)[ls[s]] + Cardinality(Earlier(ls, s))
  BY DEF CodeValue, Earlier
<1>6. FirstCode(ls)[ls[s]] \in Nat /\ Cardinality(Earlier(ls, s)) \in Nat
  BY <1>2, FirstIs, EarlierAre
<1> QED
  BY <1>2, <1>3, <1>4, <1>5, <1>6

\* A product does not go down when a factor goes up.
LEMMA Product ==
    ASSUME NEW a \in Int, NEW b \in Int, NEW p \in Nat, a <= b
    PROVE  a * p <= b * p
OBVIOUS

\* The codes of a length keep to its place.
LEMMA KeepsPlace ==
    ASSUME NEW ls, IsTable(ls), NEW s \in Coded(ls)
    PROVE  /\ Sums(Spaces(ls))[ls[s] - 1] <= CodeValue(ls, s) * Unit(ls, s)
           /\ (CodeValue(ls, s) + 1) * Unit(ls, s) <= Sums(Spaces(ls))[ls[s]]
<1> DEFINE l == ls[s]
           v == CodeValue(ls, s)
           P == Unit(ls, s)
           first == FirstCode(ls)[l]
           earlier == Cardinality(Earlier(ls, s))
           n == NumberOf(ls, l)
           low == Sums(Spaces(ls))[l - 1]
           high == Sums(Spaces(ls))[l]
<1>1. l \in Lengths /\ l \in 0 .. MaxCodeLength /\ P \in Nat /\ v = first + earlier
  BY CodedAre
<1>2. earlier \in Nat /\ earlier + 1 <= n
  BY EarlierAre
<1>3. first \in Nat /\ n \in Nat
  BY <1>1, FirstIs, NumbersOf
<1>4. first * P = low /\ (first + n) * P = high
  BY <1>1, Ends DEF Unit
<1> HIDE DEF l, v, P, first, earlier, n, low, high
<1>5. first <= v /\ v + 1 <= first + n /\ v \in Nat
  BY <1>1, <1>2, <1>3
<1>6. first * P <= v * P /\ (v + 1) * P <= (first + n) * P
  BY <1>1, <1>3, <1>5, Product
<1>7. low <= v * P /\ (v + 1) * P <= high
  BY <1>4, <1>6
<1> QED
  BY <1>7 DEF l, v, P, low, high

\* No two codes take the same place.
LEMMA Apart ==
    ASSUME NEW ls, IsTable(ls), NEW s \in Coded(ls), NEW t \in Coded(ls), s # t
    PROVE  Places(ls, s, t)
<1>1. ASSUME NEW a \in Coded(ls), NEW b \in Coded(ls), ls[a] < ls[b]
      PROVE  (CodeValue(ls, a) + 1) * Unit(ls, a) <= CodeValue(ls, b) * Unit(ls, b)
  <2> DEFINE high == Sums(Spaces(ls))[ls[a]]
             low == Sums(Spaces(ls))[ls[b] - 1]
             x == (CodeValue(ls, a) + 1) * Unit(ls, a)
             y == CodeValue(ls, b) * Unit(ls, b)
  <2>1. x <= high /\ low <= y
    BY KeepsPlace
  <2>2. /\ ls[a] \in Lengths /\ ls[b] \in Lengths
        /\ CodeValue(ls, a) \in Nat /\ Unit(ls, a) \in Nat /\ CodeValue(ls, b) \in Nat /\ Unit(ls, b) \in Nat
    BY CodedAre
  <2>3. /\ ls[a] \in 0 .. MaxCodeLength /\ ls[b] - 1 \in ls[a] .. MaxCodeLength
        /\ ls[b] - 1 \in 0 .. MaxCodeLength
    BY <1>1, <2>2, CodeAssumption DEF Lengths
  <2>4. high <= low /\ high \in Nat /\ low \in Nat
    BY <2>3, NumbersOf, SumsGrow, SumsAre
  <2>5. x \in Int /\ y \in Int
    BY <2>2
  <2> HIDE DEF x, y, high, low
  <2>6. x <= y
    BY <2>1, <2>4, <2>5
  <2> QED
    BY <2>6 DEF x, y
<1>2. ASSUME NEW a \in Coded(ls), NEW b \in Coded(ls), ls[a] = ls[b], a < b
      PROVE  (CodeValue(ls, a) + 1) * Unit(ls, a) <= CodeValue(ls, b) * Unit(ls, b)
  <2>1. Unit(ls, a) = Unit(ls, b) /\ FirstCode(ls)[ls[a]] = FirstCode(ls)[ls[b]]
    BY <1>2 DEF Unit
  <2>2. Cardinality(Earlier(ls, a)) + 1 <= Cardinality(Earlier(ls, b))
    BY <1>2, EarlierAre
  <2>3. /\ CodeValue(ls, a) = FirstCode(ls)[ls[a]] + Cardinality(Earlier(ls, a))
        /\ CodeValue(ls, b) = FirstCode(ls)[ls[b]] + Cardinality(Earlier(ls, b))
        /\ CodeValue(ls, a) \in Nat /\ CodeValue(ls, b) \in Nat /\ Unit(ls, b) \in Nat
        /\ ls[a] \in 0 .. MaxCodeLength
    BY CodedAre
  <2>4. Cardinality(Earlier(ls, a)) \in Nat /\ Cardinality(Earlier(ls, b)) \in Nat
    BY EarlierAre
  <2>5. FirstCode(ls)[ls[a]] \in Nat
    BY <2>3, FirstIs
  <2>6. CodeValue(ls, a) + 1 <= CodeValue(ls, b)
    BY <2>1, <2>2, <2>3, <2>4, <2>5
  <2> QED
    BY <2>1, <2>3, <2>6, Product
<1>3. ls[s] \in 0 .. MaxCodeLength /\ ls[t] \in 0 .. MaxCodeLength /\ s \in Int /\ t \in Int
  BY CodedAre
<1>4. CASE ls[s] < ls[t] \/ (ls[s] = ls[t] /\ s < t)
  BY <1>1, <1>2, <1>4 DEF Places
<1>5. CASE ls[t] < ls[s] \/ (ls[s] = ls[t] /\ t < s)
  BY <1>1, <1>2, <1>5 DEF Places
<1> QED
  BY <1>3, <1>4, <1>5

\* The codes take no more than all the space.
Fits(ls) == IsTable(ls) /\ Sums(Spaces(ls))[MaxCodeLength] <= 2 ^ MaxCodeLength

\* It does when buildLengths may have made it.
LEMMA FitsIs ==
    ASSUME NEW A, IsFiniteSet(A), A \subseteq Int, NEW O, NEW ls \in [A -> 0 .. MaxCodeLength]
    PROVE  ls \in CodeLengths(A, O) <=> Coded(ls) = O /\ Fits(ls)
<1> DEFINE numbers == [l \in Lengths |-> NumberOf(ls, l)]
           f == [l \in Lengths |-> numbers[l] * 2 ^ (MaxCodeLength - l)]
<1>1. DOMAIN ls = A
  OBVIOUS
<1>2. IsTable(ls)
  BY <1>1 DEF IsTable
<1>3. f = Spaces(ls)
  <2>1. \A l \in Lengths : numbers[l] = NumberOf(ls, l)
    OBVIOUS
  <2> HIDE DEF numbers
  <2> QED
    BY <2>1 DEF Spaces
<1>4. KraftSum(numbers) = Sums(Spaces(ls))[MaxCodeLength]
  <2>1. KraftSum(numbers) = SumUpTo(f, MaxCodeLength)
    BY DEF KraftSum
  <2> HIDE DEF f
  <2> QED
    BY <1>3, <2>1, SumOfAll
<1> QED
  BY <1>2, <1>4 DEF CodeLengths, Fits

\* Then each has no more bits than its length.
LEMMA CodeFits ==
    ASSUME NEW ls, Fits(ls), NEW s \in Coded(ls)
    PROVE  CodeValue(ls, s) \in 0 .. 2 ^ ls[s] - 1
<1> DEFINE l == ls[s]
           v == CodeValue(ls, s)
           P == Unit(ls, s)
           Q == 2 ^ l
           sum == Sums(Spaces(ls))
<1>1. IsTable(ls) /\ sum[MaxCodeLength] <= 2 ^ MaxCodeLength
  BY DEF Fits
<1>2. l \in Lengths /\ l \in 0 .. MaxCodeLength /\ P \in Nat \ {0} /\ v \in Nat /\ MaxCodeLength \in Nat
  BY <1>1, CodedAre, CodeAssumption
<1>3. MaxCodeLength \in l .. MaxCodeLength /\ MaxCodeLength - l \in 0 .. MaxCodeLength - l
      /\ l + (MaxCodeLength - l) = MaxCodeLength /\ MaxCodeLength \in 0 .. MaxCodeLength
  BY <1>2
<1>4. sum[l] <= sum[MaxCodeLength] /\ sum[l] \in Nat /\ sum[MaxCodeLength] \in Nat
  BY <1>1, <1>2, <1>3, NumbersOf, SumsGrow, SumsAre
<1>5. (v + 1) * P <= sum[l]
  BY <1>1, KeepsPlace
<1>6. 2 ^ MaxCodeLength = Q * P /\ Q \in Nat /\ 2 ^ MaxCodeLength \in Nat
  BY <1>2, <1>3, Powers, PowersMultiply DEF Unit
<1> HIDE DEF l, v, P, Q, sum
<1>7. (v + 1) * P <= Q * P
  BY <1>1, <1>2, <1>4, <1>5, <1>6
<1>8. v + 1 <= Q
  <2> SUFFICES ASSUME Q + 1 <= v + 1 PROVE FALSE
    BY <1>2, <1>6
  <2>1. (Q + 1) * P <= (v + 1) * P
    BY <1>2, <1>6, Product
  <2>2. (Q + 1) * P = Q * P + P
    BY <1>2, <1>6
  <2> QED
    BY <1>2, <1>6, <1>7, <2>1, <2>2
<1> QED
  BY <1>2, <1>6, <1>8 DEF l, v, Q

------------------------------------------------------------------------------
\* Lemmas about bits

\* A quotient is the number of whole divisors.
LEMMA Quotient ==
    ASSUME NEW x \in Nat, NEW d \in Nat \ {0}
    PROVE  x \div d \in Nat /\ d * (x \div d) <= x /\ x < d * (x \div d) + d
<1>1. x \div d \in Int /\ d * (x \div d) <= x /\ x < d * (x \div d) + d
  OBVIOUS
<1>2. x \div d >= 0
  <2> SUFFICES ASSUME x \div d <= -1 PROVE FALSE
    BY <1>1
  <2>1. d * (x \div d) <= d * (-1)
    BY <1>1
  <2> QED
    BY <1>1, <2>1
<1> QED
  BY <1>1, <1>2

LEMMA QuotientIs ==
    ASSUME NEW x \in Nat, NEW d \in Nat \ {0}, NEW q \in Nat, d * q <= x, x < d * q + d
    PROVE  x \div d = q
<1> DEFINE p == x \div d
<1>1. p \in Nat /\ d * p <= x /\ x < d * p + d
  BY Quotient
<1> HIDE DEF p
<1>2. ASSUME p <= q - 1 PROVE FALSE
  <2>1. d * p <= d * (q - 1) /\ d * (q - 1) = d * q - d
    BY <1>1, <1>2
  <2> QED
    BY <1>1, <2>1
<1>3. ASSUME q <= p - 1 PROVE FALSE
  <2>1. d * q <= d * (p - 1) /\ d * (p - 1) = d * p - d
    BY <1>1, <1>3
  <2> QED
    BY <1>1, <2>1
<1>4. p = q
  BY <1>1, <1>2, <1>3
<1> QED
  BY <1>4 DEF p

\* Dividing twice is dividing by the product.
LEMMA Halved ==
    ASSUME NEW x \in Nat, NEW d \in Nat \ {0}
    PROVE  (x \div d) \div 2 = x \div (2 * d)
<1> DEFINE p == x \div d
           q == p \div 2
<1>1. p \in Nat /\ d * p <= x /\ x < d * p + d
  BY Quotient
<1>2. q \in Nat /\ 2 * q <= p /\ p < 2 * q + 2
  BY <1>1, Quotient
<1> HIDE DEF p, q
<1>3. d * (2 * q) <= d * p /\ d * p <= d * (2 * q + 1)
  BY <1>1, <1>2
<1>4. (2 * d) * q = d * (2 * q) /\ d * (2 * q + 1) = d * (2 * q) + d
  BY <1>2
<1>5. (2 * d) * q <= x /\ x < (2 * d) * q + 2 * d
  <2> DEFINE a == d * (2 * q)
             b == d * p
             c == d * (2 * q + 1)
  <2>1. a \in Nat /\ b \in Nat /\ c \in Nat
    BY <1>1, <1>2
  <2>2. a <= b /\ b <= c /\ c = a + d /\ (2 * d) * q = a /\ b <= x /\ x < b + d
    BY <1>1, <1>3, <1>4
  <2> HIDE DEF a, b, c
  <2> QED
    BY <2>1, <2>2
<1>6. x \div (2 * d) = q
  BY <1>2, <1>5, QuotientIs
<1> QED
  BY <1>6 DEF p, q

\* A number is its half and its last bit.
LEMMA LastBit ==
    ASSUME NEW x \in Nat
    PROVE  x = 2 * (x \div 2) + (x % 2) /\ x % 2 \in 0 .. 1
OBVIOUS

LEMMA BitsAre ==
    ASSUME NEW v \in Nat, NEW n \in 0 .. MaxCodeLength
    PROVE  /\ LowBits(v, n) \in Seq(0 .. 1)
           /\ Len(LowBits(v, n)) = n
           /\ \A i \in 1 .. n : LowBits(v, n)[i] = (v \div 2 ^ (n - i)) % 2
<1>1. n \in Nat
  BY CodeAssumption
<1>2. ASSUME NEW i \in 1 .. n PROVE (v \div 2 ^ (n - i)) % 2 \in 0 .. 1
  <2>1. n - i \in 0 .. MaxCodeLength
    BY CodeAssumption
  <2>2. 2 ^ (n - i) \in Nat \ {0}
    BY <2>1, Powers
  <2> QED
    BY <2>2, Quotient, LastBit
<1> DEFINE b == LowBits(v, n)
<1>3. b \in [1 .. n -> 0 .. 1] /\ \A i \in 1 .. n : b[i] = (v \div 2 ^ (n - i)) % 2
  BY <1>2 DEF LowBits
<1> HIDE DEF b
<1>4. b \in Seq(0 .. 1) /\ Len(b) = n
  BY <1>1, <1>3
<1> QED
  BY <1>3, <1>4 DEF b

\* A number whose bits begin another's is what is left of it without the rest.
LEMMA BeginsIs ==
    ASSUME NEW m \in 0 .. MaxCodeLength, NEW n \in m .. MaxCodeLength,
           NEW v \in 0 .. 2 ^ m - 1, NEW w \in 0 .. 2 ^ n - 1,
           \A i \in 1 .. m : LowBits(v, m)[i] = LowBits(w, n)[i]
    PROVE  v = w \div 2 ^ (n - m)
<1> DEFINE V(k) == v \div 2 ^ (m - k)
           W(k) == w \div 2 ^ (n - k)
           S == {k \in 0 .. m : V(k) = W(k)}
<1>1. MaxCodeLength \in Nat /\ m \in Nat /\ n \in Nat /\ n \in 0 .. MaxCodeLength
  BY CodeAssumption
<1>2. v \in Nat /\ w \in Nat /\ 2 ^ m \in Nat \ {0} /\ 2 ^ n \in Nat \ {0}
  BY <1>1, Powers
<1>3. ASSUME NEW k \in 0 .. m PROVE V(k) \in Nat /\ W(k) \in Nat
  <2>1. m - k \in 0 .. MaxCodeLength /\ n - k \in 0 .. MaxCodeLength
    BY <1>1
  <2>2. 2 ^ (m - k) \in Nat \ {0} /\ 2 ^ (n - k) \in Nat \ {0}
    BY <2>1, Powers
  <2> QED
    BY <1>2, <2>2, Quotient
<1>4. 0 \in S
  <2>1. m - 0 = m /\ n - 0 = n
    BY <1>1
  <2>2. v \div 2 ^ m = 0 /\ w \div 2 ^ n = 0
    BY <1>2, QuotientIs
  <2> QED
    BY <1>1, <2>1, <2>2
<1>5. ASSUME NEW k \in 1 .. m PROVE V(k) \div 2 = V(k - 1) /\ W(k) \div 2 = W(k - 1)
  <2>1. /\ m - k \in 0 .. MaxCodeLength /\ n - k \in 0 .. MaxCodeLength
        /\ m - (k - 1) \in Lengths /\ n - (k - 1) \in Lengths
        /\ (m - (k - 1)) - 1 = m - k /\ (n - (k - 1)) - 1 = n - k
    BY <1>1 DEF Lengths
  <2>2. 2 ^ (m - (k - 1)) = 2 * 2 ^ (m - k) /\ 2 ^ (n - (k - 1)) = 2 * 2 ^ (n - k)
    BY <2>1, Powers
  <2>3. 2 ^ (m - k) \in Nat \ {0} /\ 2 ^ (n - k) \in Nat \ {0}
    BY <2>1, Powers
  <2> QED
    BY <1>2, <2>2, <2>3, Halved, ZenonT(60)
<1>6. ASSUME NEW k \in 1 .. m PROVE V(k) % 2 = W(k) % 2
  <2>1. /\ LowBits(v, m)[k] = (v \div 2 ^ (m - k)) % 2
        /\ LowBits(w, n)[k] = (w \div 2 ^ (n - k)) % 2
    BY <1>1, <1>2, BitsAre
  <2> QED
    BY <2>1
<1> HIDE DEF V, W
<1>7. ASSUME NEW k \in 0 .. m - 1, k \in S PROVE k + 1 \in S
  <2>1. k + 1 \in 1 .. m /\ (k + 1) - 1 = k /\ k + 1 \in 0 .. m
    BY <1>1
  <2>2. /\ V(k + 1) \in Nat /\ W(k + 1) \in Nat /\ V(k + 1) % 2 = W(k + 1) % 2
        /\ V(k + 1) \div 2 = V(k) /\ W(k + 1) \div 2 = W(k)
    BY <1>3, <1>5, <1>6, <2>1
  <2>3. V(k) = W(k)
    BY <1>7
  <2>4. V(k + 1) = W(k + 1)
    BY <2>2, <2>3, LastBit
  <2> QED
    BY <2>1, <2>4
<1>8. \A k \in 0 .. m : k \in S
  <2> HIDE DEF S
  <2> QED
    BY <1>1, <1>4, <1>7, CountsUp
<1>9. V(m) = W(m)
  BY <1>1, <1>8
<1>10. m - m = 0 /\ v \div 1 = v
  BY <1>1, <1>2
<1> QED
  BY <1>9, <1>10, Powers DEF V, W

------------------------------------------------------------------------------
\* Codes are prefix-free, and decode

LEMMA CodesAre ==
    ASSUME NEW ls, Fits(ls), NEW s \in Coded(ls)
    PROVE  /\ Code(ls, s) \in Seq(0 .. 1)
           /\ Len(Code(ls, s)) = ls[s]
           /\ ls[s] \in Lengths
<1>1. CodeValue(ls, s) \in Nat /\ ls[s] \in 0 .. MaxCodeLength /\ ls[s] \in Lengths
  BY CodedAre DEF Fits
<1> QED
  BY <1>1, BitsAre DEF Code

\* No code begins with the bits of another.
LEMMA PrefixFree ==
    ASSUME NEW ls, Fits(ls), NEW s \in Coded(ls), NEW t \in Coded(ls), s # t, ls[s] <= ls[t],
           \A i \in 1 .. ls[s] : Code(ls, s)[i] = Code(ls, t)[i]
    PROVE  FALSE
<1> DEFINE m == ls[s]
           n == ls[t]
           v == CodeValue(ls, s)
           w == CodeValue(ls, t)
           d == 2 ^ (n - m)
           P == Unit(ls, s)
           R == Unit(ls, t)
<1>1. /\ m \in 0 .. MaxCodeLength /\ n \in 0 .. MaxCodeLength
      /\ P \in Nat \ {0} /\ R \in Nat \ {0} /\ v \in Nat /\ w \in Nat /\ MaxCodeLength \in Nat
  BY CodedAre, CodeAssumption DEF Fits
<1>2. v \in 0 .. 2 ^ m - 1 /\ w \in 0 .. 2 ^ n - 1
  BY CodeFits
<1>3. n \in m .. MaxCodeLength
  BY <1>1
<1>4. \A i \in 1 .. m : LowBits(v, m)[i] = LowBits(w, n)[i]
  BY DEF Code
<1>5. v = w \div d
  <2> HIDE DEF m, n, v, w
  <2> QED
    BY <1>1, <1>2, <1>3, <1>4, BeginsIs
<1>6. n - m \in 0 .. MaxCodeLength /\ MaxCodeLength - n \in 0 .. MaxCodeLength - (n - m)
      /\ (n - m) + (MaxCodeLength - n) = MaxCodeLength - m
  BY <1>1
<1>7. P = d * R /\ d \in Nat \ {0}
  BY <1>6, Powers, PowersMultiply DEF Unit
<1>8. Places(ls, s, t)
  BY Apart DEF Fits
<1>9. (v + 1) * P <= w * R \/ (w + 1) * R <= v * P
  BY <1>8 DEF Places
<1> HIDE DEF m, n, v, w, d, P, R
<1>10. d * v <= w /\ w + 1 <= d * v + d
  BY <1>1, <1>5, <1>7, Quotient
<1>11. (d * v) * R <= w * R /\ (w + 1) * R <= (d * v + d) * R
  BY <1>1, <1>7, <1>10, Product
<1>12. v * P = (d * v) * R /\ (v + 1) * P = (d * v + d) * R
  <2>1. \A a \in Nat, b \in Nat, c \in Nat : a * (b * c) = (b * a) * c /\ (a + 1) * (b * c) = (b * a + b) * c
    OBVIOUS
  <2> QED
    BY <1>1, <1>7, <2>1
<1>13. (w + 1) * R = w * R + R
  BY <1>1
<1> QED
  <2> DEFINE a == (d * v) * R
             b == w * R
             c == (d * v + d) * R
  <2>1. a \in Nat /\ b \in Nat /\ c \in Nat
    BY <1>1, <1>7
  <2>2. a <= b /\ b + R <= c /\ (c <= b \/ b + R <= a)
    BY <1>9, <1>11, <1>12, <1>13
  <2> HIDE DEF a, b, c
  <2> QED
    BY <1>1, <2>1, <2>2

LEMMA NoPrefix ==
    ASSUME NEW ls, Fits(ls), NEW s \in Coded(ls), NEW t \in Coded(ls), s # t
    PROVE  ~IsPrefix(Code(ls, s), Code(ls, t))
<1> SUFFICES ASSUME IsPrefix(Code(ls, s), Code(ls, t)) PROVE FALSE
  OBVIOUS
<1> DEFINE a == Code(ls, s)
           b == Code(ls, t)
<1>1. a \in Seq(0 .. 1) /\ b \in Seq(0 .. 1) /\ Len(a) = ls[s] /\ Len(b) = ls[t]
  BY CodesAre
<1>2. Len(a) <= Len(b) /\ SubSeq(a, 1, Len(a)) = SubSeq(b, 1, Len(a))
  BY DEF IsPrefix
<1> HIDE DEF a, b
<1>3. ASSUME NEW i \in 1 .. Len(a) PROVE a[i] = b[i]
  <2>1. SubSeq(a, 1, Len(a))[i] = a[i] /\ SubSeq(b, 1, Len(a))[i] = b[i]
    BY <1>1, <1>2
  <2> QED
    BY <1>2, <2>1
<1>4. ls[s] <= ls[t] /\ \A i \in 1 .. ls[s] : a[i] = b[i]
  BY <1>1, <1>2, <1>3
<1> QED
  BY <1>4, PrefixFree DEF a, b

\* Walking the tree along a code, whatever follows, ends at its symbol.
Reads(ls, s, rest) ==
    DecodeSymbol(ls, Code(ls, s) \o rest) = [symbol |-> s, used |-> ls[s]]

LEMMA WalkEnds ==
    ASSUME NEW ls, Fits(ls), NEW s \in Coded(ls), NEW rest \in Seq(Int)
    PROVE  Reads(ls, s, rest)
<1> DEFINE a == Code(ls, s)
           bits == a \o rest
           ends == {n \in 1 .. Min({Len(bits), MaxCodeLength}) :
                       SymbolsAt(ls, SubSeq(bits, 1, n)) # {}}
<1>1. a \in Seq(Int) /\ Len(a) = ls[s] /\ ls[s] \in Lengths /\ s \in Int
  <2>1. a \in Seq(0 .. 1) /\ Len(a) = ls[s] /\ ls[s] \in Lengths
    BY CodesAre
  <2>2. s \in Int
    BY CodedAre DEF Fits
  <2> HIDE DEF a
  <2>3. a \in Seq(Int)
    BY <2>1
  <2> QED
    BY <2>1, <2>2, <2>3
<1> DEFINE l == ls[s]
<1>2. MaxCodeLength \in Nat /\ l \in Nat /\ l >= 1 /\ l <= MaxCodeLength
  BY <1>1, CodeAssumption DEF Lengths
<1>3. /\ bits \in Seq(Int) /\ Len(bits) = l + Len(rest) /\ Len(rest) \in Nat
      /\ \A i \in 1 .. l : bits[i] = a[i]
  <2> HIDE DEF a, l
  <2>1. Len(a) = l /\ Len(a) \in Nat
    BY <1>1, <1>2 DEF l
  <2>2. /\ bits \in Seq(Int) /\ Len(bits) = Len(a) + Len(rest) /\ Len(rest) \in Nat
        /\ \A i \in 1 .. Len(a) + Len(rest) :
              bits[i] = IF i <= Len(a) THEN a[i] ELSE rest[i - Len(a)]
    <3>1. a \in Seq(Int) /\ Len(rest) \in Nat
      BY <1>1
    <3> QED
      BY <3>1, ConcatProperties
  <2> HIDE DEF bits
  <2> QED
    BY <2>1, <2>2
<1>4. Min({Len(bits), MaxCodeLength}) \in Nat /\ l <= Min({Len(bits), MaxCodeLength})
      /\ Min({Len(bits), MaxCodeLength}) <= MaxCodeLength
  <2> DEFINE x == Len(bits)
  <2>1. x \in Nat /\ l <= x
    BY <1>2, <1>3
  <2> HIDE DEF x
  <2>2. PICK y \in {x, MaxCodeLength} : \A z \in {x, MaxCodeLength} : y <= z
    BY <1>2, <2>1
  <2>3. Min({x, MaxCodeLength}) \in {x, MaxCodeLength} /\ \A z \in {x, MaxCodeLength} : Min({x, MaxCodeLength}) <= z
    BY <2>2 DEF Min
  <2> QED
    BY <1>2, <2>1, <2>3 DEF x
<1>5. SubSeq(bits, 1, l) = a
  <2> HIDE DEF a, bits
  <2> QED
    BY <1>1, <1>2, <1>3, SMTT(40)
<1>6. ASSUME NEW n \in 1 .. l, NEW t \in SymbolsAt(ls, SubSeq(bits, 1, n)) PROVE t = s /\ n = l
  <2>1. t \in Coded(ls) /\ Code(ls, t) = SubSeq(bits, 1, n)
    BY DEF SymbolsAt, Path
  <2>2. Len(SubSeq(bits, 1, n)) = n /\ \A i \in 1 .. n : SubSeq(bits, 1, n)[i] = bits[i]
    <3> HIDE DEF bits
    <3> QED
      BY <1>2, <1>3
  <2>3. Len(Code(ls, t)) = ls[t]
    BY <2>1, CodesAre
  <2>4. ls[t] = n
    BY <2>1, <2>2, <2>3
  <2>5. \A i \in 1 .. ls[t] : Code(ls, t)[i] = a[i]
    <3> HIDE DEF bits, a
    <3> QED
      BY <1>2, <1>3, <2>1, <2>2, <2>4
  <2>6. ls[t] <= ls[s]
    BY <1>2, <2>4
  <2>7. t = s
    BY <2>1, <2>5, <2>6, PrefixFree
  <2> QED
    BY <2>4, <2>7
<1>7. SymbolsAt(ls, SubSeq(bits, 1, l)) = {s}
  <2>1. s \in SymbolsAt(ls, SubSeq(bits, 1, l))
    BY <1>5 DEF SymbolsAt, Path
  <2>2. l \in 1 .. l
    BY <1>2
  <2> HIDE DEF bits, l
  <2> QED
    BY <1>6, <2>1, <2>2
<1>8. l \in ends /\ \A n \in ends : l <= n
  <2>1. l \in 1 .. Min({Len(bits), MaxCodeLength})
    BY <1>2, <1>4
  <2>2. l \in ends
    BY <1>7, <2>1
  <2>3. ASSUME NEW n \in ends, n <= l - 1 PROVE FALSE
    <3>1. n \in 1 .. l
      BY <1>2, <1>4, <2>3
    <3>2. PICK t : t \in SymbolsAt(ls, SubSeq(bits, 1, n))
      BY <2>3
    <3>3. n = l
      BY <1>6, <3>1, <3>2
    <3> QED
      BY <1>2, <2>3, <3>3
  <2>4. \A n \in ends : n \in Int
    BY <1>4
  <2> HIDE DEF ends
  <2> QED
    BY <1>2, <2>2, <2>3, <2>4
<1>9. Min(ends) = l
  <2>1. \A n \in ends : n \in Int
    BY <1>4
  <2> HIDE DEF ends
  <2>2. Min(ends) \in ends /\ \A n \in ends : Min(ends) <= n
    BY <1>8 DEF Min
  <2> QED
    BY <1>2, <1>8, <2>1, <2>2
<1>10. Max({s}) = s
  BY <1>1 DEF Max
<1>11. DecodeSymbol(ls, bits) =
          IF ends = {} THEN NotACode
          ELSE [symbol |-> Max(SymbolsAt(ls, SubSeq(bits, 1, Min(ends)))), used |-> Min(ends)]
  BY DEF DecodeSymbol
<1>12. DecodeSymbol(ls, bits) = [symbol |-> s, used |-> l]
  <2> HIDE DEF ends, bits, l
  <2> QED
    BY <1>7, <1>8, <1>9, <1>10, <1>11
<1> QED
  BY <1>12 DEF Reads

------------------------------------------------------------------------------
\* Lemmas about counting

Orders(R, S) ==
    /\ \A a \in S : <<a, a>> \notin R
    /\ \A a \in S, b \in S : a # b => <<a, b>> \in R \/ <<b, a>> \in R
    /\ \A a \in S, b \in S, c \in S : <<a, b>> \in R /\ <<b, c>> \in R => <<a, c>> \in R

Less(R, S, s) == {t \in S : <<t, s>> \in R}

Place(R, S, s) == Cardinality(Less(R, S, s))

\* The members of an ordered set have the places 0, 1, 2 ...
Placed(R, S) ==
    /\ \A s \in S : Place(R, S, s) \in 0 .. Cardinality(S) - 1
    /\ \A s \in S, t \in S : s # t => Place(R, S, s) # Place(R, S, t)
    /\ \A i \in 0 .. Cardinality(S) - 1 : \E s \in S : Place(R, S, s) = i

LEMMA OrderPlaces ==
    ASSUME NEW S, IsFiniteSet(S), NEW R, Orders(R, S)
    PROVE  Placed(R, S)
<1> DEFINE n == Cardinality(S)
           rank == [s \in S |-> Place(R, S, s)]
<1>1. n \in Nat
  BY FS_CardinalityType
<1>2. ASSUME NEW s \in S
      PROVE  IsFiniteSet(Less(R, S, s)) /\ Place(R, S, s) \in Nat /\ Place(R, S, s) <= n - 1
  <2>1. Less(R, S, s) \in SUBSET (S \ {s})
    BY DEF Less, Orders
  <2>2. IsFiniteSet(S \ {s}) /\ Cardinality(S \ {s}) = n - 1
    BY FS_RemoveElement
  <2>3. IsFiniteSet(Less(R, S, s)) /\ Cardinality(Less(R, S, s)) <= n - 1
    BY <2>1, <2>2, FS_Subset
  <2> QED
    BY <2>3, FS_CardinalityType DEF Place
<1>3. ASSUME NEW s \in S, NEW t \in S, <<s, t>> \in R PROVE Place(R, S, s) < Place(R, S, t)
  <2>1. Less(R, S, s) \cup {s} \in SUBSET Less(R, S, t) /\ s \notin Less(R, S, s)
    BY <1>3 DEF Less, Orders
  <2>2. Cardinality(Less(R, S, s) \cup {s}) = Place(R, S, s) + 1
    BY <1>2, <2>1, FS_AddElement DEF Place
  <2>3. Cardinality(Less(R, S, s) \cup {s}) <= Place(R, S, t)
    BY <1>2, <2>1, FS_Subset DEF Place
  <2> QED
    BY <1>2, <2>2, <2>3
<1>4. ASSUME NEW s \in S, NEW t \in S, s # t PROVE Place(R, S, s) # Place(R, S, t)
  <2>1. <<s, t>> \in R \/ <<t, s>> \in R
    BY <1>4 DEF Orders
  <2> QED
    BY <1>2, <1>3, <2>1
<1>5. \A s \in S : Place(R, S, s) \in 0 .. n - 1
  BY <1>1, <1>2
<1>6. rank \in Injection(S, 0 .. n - 1)
  <2>1. rank \in [S -> 0 .. n - 1]
    BY <1>5
  <2>2. \A s \in S, t \in S : rank[s] = rank[t] => s = t
    BY <1>4
  <2> HIDE DEF rank
  <2> QED
    BY <2>1, <2>2 DEF Injection, IsInjective
<1>7. IsFiniteSet(0 .. n - 1) /\ Cardinality(0 .. n - 1) = n
  BY <1>1, FS_Interval, SMTT(40)
<1>8. rank \in Surjection(S, 0 .. n - 1)
  <2> HIDE DEF rank, n
  <2> QED
    BY <1>6, <1>7, FS_Injection DEF n
<1>9. \A i \in 0 .. n - 1 : \E s \in S : rank[s] = i
  BY <1>8 DEF Surjection
<1>10. \A i \in 0 .. n - 1 : \E s \in S : Place(R, S, s) = i
  BY <1>9
<1> QED
  BY <1>4, <1>5, <1>10 DEF Placed

\* As many places as lie between two have a member.
LEMMA BetweenPlaces ==
    ASSUME NEW S, IsFiniteSet(S), NEW R, Placed(R, S),
           NEW a \in 0 .. Cardinality(S), NEW b \in a .. Cardinality(S)
    PROVE  Cardinality({s \in S : a <= Place(R, S, s) /\ Place(R, S, s) < b}) = b - a
<1> DEFINE T == {s \in S : a <= Place(R, S, s) /\ Place(R, S, s) < b}
           rank == [s \in T |-> Place(R, S, s)]
<1>1. Cardinality(S) \in Nat /\ a \in Int /\ b \in Int /\ a <= b
  BY FS_CardinalityType
<1>2. IsFiniteSet(T)
  BY FS_Subset
<1>3. rank \in [T -> a .. b - 1]
  BY <1>1 DEF Placed
<1>4. \A s \in T, t \in T : rank[s] = rank[t] => s = t
  BY DEF Placed
<1>5. ASSUME NEW i \in a .. b - 1 PROVE \E s \in T : rank[s] = i
  <2>1. i \in 0 .. Cardinality(S) - 1 /\ a <= i /\ i < b
    BY <1>1
  <2>2. PICK s \in S : Place(R, S, s) = i
    BY <2>1 DEF Placed
  <2>3. s \in T
    BY <2>1, <2>2
  <2> QED
    BY <2>2, <2>3
<1> HIDE DEF rank, T
<1>6. rank \in Bijection(T, a .. b - 1)
  BY <1>3, <1>4, <1>5 DEF Bijection, Injection, Surjection, IsInjective
<1>7. Cardinality(a .. b - 1) = Cardinality(T)
  BY <1>2, <1>6, FS_Bijection DEF ExistsBijection
<1>8. Cardinality(a .. b - 1) = b - a
  <2>1. b - 1 \in Int
    BY <1>1
  <2>2. Cardinality(a .. b - 1) = IF a > b - 1 THEN 0 ELSE (b - 1) - a + 1
    BY <1>1, <2>1, FS_Interval
  <2> QED
    BY <1>1, <2>2
<1> QED
  BY <1>7, <1>8 DEF T

\* Numbers that count the members of a set by their length add up to its size.
LEMMA Tally ==
    ASSUME NEW S, IsFiniteSet(S), NEW h \in [S -> Lengths], NEW f,
           \A l \in Lengths : f[l] = Cardinality({s \in S : h[s] = l})
    PROVE  Numbers(f) /\ Sums(f)[MaxCodeLength] = Cardinality(S)
<1> DEFINE sum == Sums(f)
           Upto(l) == {s \in S : h[s] <= l}
           At(l) == {s \in S : h[s] = l}
           T == {l \in 0 .. MaxCodeLength : sum[l] = Cardinality(Upto(l))}
<1>1. MaxCodeLength \in Nat /\ \A s \in S : h[s] \in Lengths
  BY HuffmanAssumption, CodeAssumption
<1>2. \A l : IsFiniteSet(At(l)) /\ IsFiniteSet(Upto(l))
  BY FS_Subset
<1>3. Numbers(f)
  BY <1>2, FS_CardinalityType DEF Numbers
<1>4. /\ sum[0] = 0
      /\ \A l \in Lengths : sum[l] = sum[l - 1] + f[l]
  BY <1>3, SumsAre
<1> HIDE DEF sum
<1>5. 0 \in T
  <2>1. Upto(0) = {}
    BY <1>1 DEF Lengths
  <2>2. Cardinality(Upto(0)) = 0
    BY <2>1, FS_EmptySet
  <2> QED
    BY <1>1, <1>4, <2>2
<1>6. ASSUME NEW l \in 0 .. MaxCodeLength - 1, l \in T PROVE l + 1 \in T
  <2>1. l + 1 \in Lengths /\ (l + 1) - 1 = l /\ l + 1 \in 0 .. MaxCodeLength
    BY <1>1 DEF Lengths
  <2>2. Upto(l + 1) = Upto(l) \cup At(l + 1) /\ Upto(l) \cap At(l + 1) = {}
    BY <1>1 DEF Lengths
  <2>3. /\ Cardinality(Upto(l + 1)) =
              Cardinality(Upto(l)) + Cardinality(At(l + 1)) - Cardinality(Upto(l) \cap At(l + 1))
        /\ Cardinality(Upto(l)) \in Nat /\ Cardinality(At(l + 1)) \in Nat
    <3> HIDE DEF Upto, At
    <3> QED
      BY <1>2, <2>2, FS_Union, FS_CardinalityType
  <2>4. Cardinality(Upto(l) \cap At(l + 1)) = 0
    BY <2>2, FS_EmptySet
  <2>5. sum[l + 1] = sum[l] + f[l + 1] /\ f[l + 1] = Cardinality(At(l + 1))
    BY <1>4, <2>1
  <2>6. sum[l] = Cardinality(Upto(l))
    BY <1>6
  <2> HIDE DEF Upto, At
  <2>7. sum[l + 1] = Cardinality(Upto(l + 1))
    BY <2>3, <2>4, <2>5, <2>6
  <2> QED
    BY <2>1, <2>7
<1>7. \A l \in 0 .. MaxCodeLength : l \in T
  <2> HIDE DEF T
  <2> QED
    BY <1>1, <1>5, <1>6, CountsUp
<1>8. Upto(MaxCodeLength) = S
  BY <1>1 DEF Lengths
<1>9. sum[MaxCodeLength] = Cardinality(Upto(MaxCodeLength))
  BY <1>1, <1>7
<1> QED
  BY <1>3, <1>8, <1>9 DEF sum

------------------------------------------------------------------------------
\* The inductive invariant.

Trees == [freq : Nat, depth : UNION {[D -> Nat] : D \in SUBSET Symbols}]

Leaves(i) == DOMAIN nodes[i].depth

\* The roots share out the symbols that occur; a leaf that is a root is alone.
Rooted ==
    pc = "merge" =>
        /\ heap # {}
        /\ UNION {Leaves(i) : i \in heap} = Present
        /\ \A i \in heap, j \in heap : i # j => Leaves(i) \cap Leaves(j) = {}
        /\ \A i \in heap : \A s \in Leaves(i) : nodes[i].depth[s] = 0 => Leaves(i) = {s}
        /\ Cardinality(Present) > 1

Limiting ==
    pc = "limit" =>
        /\ kraft = KraftSum(count)
        /\ UpToLength(MaxCodeLength) = Cardinality(Present)

Assigned == pc = "done" => Coded(lengths) = Present /\ Fits(lengths)

IInv ==
    /\ TypeOK
    /\ nodes \in Seq(Trees)
    /\ Rooted /\ Limiting /\ Assigned

LEMMA PresentIs ==
    /\ IsFiniteSet(Present) /\ Cardinality(Present) \in Nat /\ Cardinality(Present) <= AlphabetSize
    /\ Present \subseteq Symbols /\ Present \subseteq Int
    /\ IsFiniteSet(Symbols) /\ Symbols \subseteq Int
    /\ AlphabetSize \in Nat /\ MaxCodeLength \in Nat
<1>1. AlphabetSize \in Nat /\ MaxCodeLength \in Nat
  BY HuffmanAssumption, CodeAssumption
<1>2. IsFiniteSet(0 .. AlphabetSize - 1) /\ Cardinality(0 .. AlphabetSize - 1) = AlphabetSize
  BY HuffmanAssumption, CodeAssumption, FS_Interval
<1>3. Present \in SUBSET Symbols /\ Symbols \subseteq Int /\ Symbols = 0 .. AlphabetSize - 1
  BY DEF Present, Symbols
<1>4. IsFiniteSet(Present) /\ Cardinality(Present) <= AlphabetSize
  BY <1>2, <1>3, FS_Subset
<1> QED
  BY <1>1, <1>2, <1>3, <1>4, FS_CardinalityType

LEMMA InitIInv == Init => IInv
<1> SUFFICES ASSUME Init PROVE IInv
  OBVIOUS
<1>1. TypeOK
  BY HuffmanAssumption, CodeAssumption DEF Init, TypeOK
<1>2. nodes \in Seq(Trees)
  BY DEF Init
<1> QED
  BY <1>1, <1>2 DEF Init, IInv, Rooted, Limiting, Assigned

\* A table of lengths for the symbols.
LEMMA IsATable ==
    ASSUME NEW ls \in [Symbols -> 0 .. MaxCodeLength]
    PROVE  IsTable(ls) /\ DOMAIN ls = Symbols
<1>1. DOMAIN ls = Symbols
  OBVIOUS
<1> QED
  BY <1>1, PresentIs DEF IsTable

\* At most one symbol, with a code of one bit.
LEMMA FewFits ==
    ASSUME Cardinality(Present) <= 1, NEW ls,
           ls = [s \in Symbols |-> IF s \in Present THEN 1 ELSE 0]
    PROVE  ls \in [Symbols -> 0 .. MaxCodeLength] /\ Coded(ls) = Present /\ Fits(ls)
<1>1. ls \in [Symbols -> 0 .. MaxCodeLength] /\ 1 \in Lengths /\ 1 \in 0 .. MaxCodeLength
  BY HuffmanAssumption, CodeAssumption DEF Lengths
<1>2. Coded(ls) = Present
  <2>1. DOMAIN ls = Symbols /\ \A s \in Symbols : ls[s] # 0 <=> s \in Present
    OBVIOUS
  <2> QED
    BY <2>1, PresentIs DEF Coded
<1>3. IsTable(ls)
  BY <1>1, IsATable
<1>4. ASSUME NEW l \in Lengths \ {1} PROVE Spaces(ls)[l] = 0
  <2>1. OfLength(ls, l) = {}
    BY <1>2, PresentIs DEF OfLength
  <2>2. NumberOf(ls, l) = 0
    BY <2>1, FS_EmptySet DEF NumberOf, OfLength
  <2>3. MaxCodeLength - l \in 0 .. MaxCodeLength
    BY PresentIs DEF Lengths
  <2>4. 2 ^ (MaxCodeLength - l) \in Nat
    BY <2>3, Powers
  <2> QED
    BY <2>2, <2>4 DEF Spaces
<1>5. Sums(Spaces(ls))[MaxCodeLength] = Spaces(ls)[1]
  BY <1>1, <1>3, <1>4, NumbersOf, OnlyOne
<1>6. NumberOf(ls, 1) \in Nat /\ NumberOf(ls, 1) <= 1
  <2>1. OfLength(ls, 1) \in SUBSET Present
    BY <1>2 DEF OfLength
  <2> QED
    BY <1>3, <2>1, NumbersOf, PresentIs, FS_Subset, NumberIs
<1>7. MaxCodeLength \in Lengths /\ MaxCodeLength - 1 \in 0 .. MaxCodeLength
  BY HuffmanAssumption, CodeAssumption DEF Lengths
<1>8. 2 ^ MaxCodeLength = 2 * 2 ^ (MaxCodeLength - 1) /\ 2 ^ (MaxCodeLength - 1) \in Nat
  BY <1>7, Powers
<1>9. Spaces(ls)[1] = NumberOf(ls, 1) * 2 ^ (MaxCodeLength - 1)
  BY <1>1 DEF Spaces
<1>10. Spaces(ls)[1] <= 2 ^ MaxCodeLength
  BY <1>6, <1>8, <1>9
<1> QED
  BY <1>1, <1>2, <1>3, <1>5, <1>10 DEF Fits

LEMMA FewKeeps == IInv /\ Few => IInv'
<1> SUFFICES ASSUME IInv, Few PROVE IInv'
  OBVIOUS
<1>1. /\ lengths' \in [Symbols -> 0 .. MaxCodeLength]
      /\ Coded(lengths') = Present /\ Fits(lengths')
  BY FewFits DEF Few
<1>2. Present' = Present
  BY DEF Few, Present
<1>3. TypeOK'
  BY <1>1 DEF IInv, TypeOK, Few
<1>4. (nodes \in Seq(Trees))'
  BY DEF IInv, Few
<1>5. pc' = "done"
  BY DEF Few
<1>6. Assigned'
  BY <1>1, <1>2 DEF Assigned
<1> QED
  BY <1>3, <1>4, <1>5, <1>6 DEF IInv, Rooted, Limiting

\* The symbols that occur have places of their own, in order.
LEMMA NthIs ==
    /\ \A i \in 0 .. Cardinality(Present) - 1 : Nth(i) \in Present
    /\ \A i \in 0 .. Cardinality(Present) - 1, j \in 0 .. Cardinality(Present) - 1 :
          i # j => Nth(i) # Nth(j)
    /\ \A s \in Present : \E i \in 0 .. Cardinality(Present) - 1 : Nth(i) = s
<1> DEFINE R == {p \in Present \X Present : p[1] < p[2]}
           n == Cardinality(Present)
           Rk(s) == Cardinality({t \in Present : t < s})
<1>1. Orders(R, Present)
  BY PresentIs DEF Orders
<1>2. Placed(R, Present)
  BY <1>1, PresentIs, OrderPlaces
<1>3. ASSUME NEW s \in Present PROVE Place(R, Present, s) = Rk(s)
  <2>1. Less(R, Present, s) = {t \in Present : t < s}
    BY DEF Less
  <2> QED
    BY <2>1 DEF Place
<1> HIDE DEF Rk, R
<1>4. /\ \A s \in Present : Rk(s) \in 0 .. n - 1
      /\ \A s \in Present, t \in Present : s # t => Rk(s) # Rk(t)
      /\ \A i \in 0 .. n - 1 : \E s \in Present : Rk(s) = i
  <2>1. /\ \A s \in Present : Place(R, Present, s) \in 0 .. n - 1
        /\ \A s \in Present, t \in Present :
              s # t => Place(R, Present, s) # Place(R, Present, t)
        /\ \A i \in 0 .. n - 1 : \E s \in Present : Place(R, Present, s) = i
    BY <1>2 DEF Placed
  <2> HIDE DEF n
  <2> QED
    BY <1>3, <2>1
<1>5. ASSUME NEW i \in 0 .. n - 1 PROVE Nth(i) \in Present /\ Rk(Nth(i)) = i
  <2>1. \E s \in Present : Rk(s) = i
    BY <1>4
  <2>2. Nth(i) = CHOOSE s \in Present : Rk(s) = i
    BY DEF Nth, Rk
  <2> QED
    BY <2>1, <2>2
<1>6. ASSUME NEW s \in Present PROVE Nth(Rk(s)) = s
  BY <1>4, <1>5
<1> QED
  BY <1>4, <1>5, <1>6

LEMMA PlantKeeps == IInv /\ PlantLeaves => IInv'
<1> SUFFICES ASSUME IInv, PlantLeaves PROVE IInv'
  OBVIOUS
<1> DEFINE n == Cardinality(Present)
           N(i) == Nth(i - 1)
<1>1. /\ n \in Nat /\ n > 1 /\ pc' = "merge" /\ heap' = 1 .. n
      /\ nodes' = [i \in 1 .. n |-> Leaf(N(i))]
  BY PresentIs DEF PlantLeaves
<1>2. Present' = Present
  BY DEF PlantLeaves, Present
<1>3. /\ \A i \in 1 .. n : N(i) \in Present
      /\ \A i \in 1 .. n, j \in 1 .. n : i # j => N(i) # N(j)
      /\ \A s \in Present : \E i \in 1 .. n : N(i) = s
  <2>1. \A i \in 1 .. n : i - 1 \in 0 .. n - 1
    BY <1>1
  <2>2. \A i \in 0 .. n - 1 : i + 1 \in 1 .. n /\ N(i + 1) = Nth(i)
    BY <1>1
  <2>3. \A i \in 1 .. n, j \in 1 .. n : i # j => i - 1 # j - 1
    OBVIOUS
  <2> QED
    BY <2>1, <2>2, <2>3, NthIs
<1> HIDE DEF N
<1>4. ASSUME NEW s \in Present
      PROVE  Leaf(s) \in Trees /\ Leaf(s).depth = [leaf \in {s} |-> 0] /\ DOMAIN Leaf(s).depth = {s}
  <2>1. s \in Symbols /\ freq[s] \in Nat
    BY HuffmanAssumption, CodeAssumption, PresentIs DEF IInv, TypeOK
  <2>2. [leaf \in {s} |-> 0] \in [{s} -> Nat] /\ {s} \in SUBSET Symbols
    BY <2>1
  <2>3. [leaf \in {s} |-> 0] \in UNION {[D -> Nat] : D \in SUBSET Symbols}
    BY <2>2
  <2> QED
    BY <2>1, <2>3 DEF Leaf, Trees
<1>5. nodes' \in Seq(Trees) /\ Len(nodes') = n /\ DOMAIN nodes' = 1 .. n
  <2>1. nodes' \in [1 .. n -> Trees]
    BY <1>1, <1>3, <1>4
  <2> QED
    BY <1>1, <2>1
<1>6. \A i \in 1 .. n : nodes'[i].depth = [leaf \in {N(i)} |-> 0] /\ Leaves(i)' = {N(i)}
  BY <1>1, <1>3, <1>4 DEF Leaves
<1>7. heap' \subseteq DOMAIN nodes' /\ heap' # {}
  <2>1. 1 \in heap'
    BY <1>1
  <2> QED
    BY <1>1, <1>5, <2>1
<1>8. TypeOK'
  BY <1>7, <1>1 DEF IInv, TypeOK, PlantLeaves
<1>9. UNION {Leaves(i)' : i \in heap'} = Present'
  <2>1. \A i \in heap' : Leaves(i)' = {N(i)} /\ N(i) \in Present
    BY <1>1, <1>3, <1>6
  <2>2. \A s \in Present : \E i \in heap' : N(i) = s
    BY <1>1, <1>3
  <2> QED
    BY <1>2, <2>1, <2>2
<1>10. ASSUME NEW i \in heap', NEW j \in heap', i # j PROVE Leaves(i)' \cap Leaves(j)' = {}
  <2>1. i \in 1 .. n /\ j \in 1 .. n
    BY <1>1
  <2>2. Leaves(i)' = {N(i)} /\ Leaves(j)' = {N(j)} /\ N(i) # N(j)
    BY <1>3, <1>6, <1>10, <2>1
  <2> QED
    BY <2>2
<1>11. \A i \in heap' : \A s \in Leaves(i)' : nodes'[i].depth[s] = 0 => Leaves(i)' = {s}
  BY <1>1, <1>6
<1>12. Rooted'
  BY <1>1, <1>2, <1>7, <1>9, <1>10, <1>11 DEF Rooted
<1> QED
  BY <1>1, <1>5, <1>8, <1>12 DEF IInv, Limiting, Assigned

\* There is always a cheapest root.
LEMMA CheapestIs ==
    ASSUME nodes \in Seq(Trees), NEW roots, roots \subseteq DOMAIN nodes, roots # {}
    PROVE  Cheapest(roots) \in roots
<1> DEFINE T == {nodes[i].freq : i \in roots}
<1>1. \A i \in roots : nodes[i].freq \in Nat /\ i \in Nat
  <2>1. \A i \in roots : nodes[i] \in Trees /\ i \in Nat
    OBVIOUS
  <2> QED
    BY <2>1 DEF Trees
<1>2. PICK f \in T : \A g \in T : f <= g
  <2>1. T \subseteq Nat /\ T # {}
    BY <1>1
  <2> HIDE DEF T
  <2> QED
    BY <2>1, LeastElement
<1> DEFINE U == {i \in roots : nodes[i].freq = f}
<1>3. PICK a \in U : \A b \in U : a <= b
  <2>1. U \subseteq Nat /\ U # {}
    BY <1>1, <1>2
  <2> HIDE DEF U
  <2> QED
    BY <2>1, LeastElement
<1>4. a \in roots /\ nodes[a].freq = f
  BY <1>3
<1>5. ASSUME NEW b \in roots \ {a}
      PROVE  nodes[a].freq < nodes[b].freq \/ (nodes[a].freq = nodes[b].freq /\ a < b)
  <2>1. f <= nodes[b].freq /\ f \in Nat /\ nodes[b].freq \in Nat /\ a \in Nat /\ b \in Nat
    BY <1>1, <1>2, <1>4
  <2>2. nodes[b].freq = f => a <= b
    BY <1>3
  <2> QED
    BY <1>4, <2>1, <2>2
<1> QED
  BY <1>4, <1>5 DEF Cheapest

LEMMA JoinedIs ==
    ASSUME nodes \in Seq(Trees), NEW a \in DOMAIN nodes, NEW b \in DOMAIN nodes
    PROVE  /\ Joined(a, b) \in Trees
           /\ DOMAIN Joined(a, b).depth = Leaves(a) \cup Leaves(b)
           /\ \A s \in Leaves(a) \cup Leaves(b) : Joined(a, b).depth[s] # 0
<1> DEFINE D == Leaves(a) \cup Leaves(b)
           depth == [leaf \in D |-> 1 + IF leaf \in Leaves(a) THEN nodes[a].depth[leaf]
                                        ELSE nodes[b].depth[leaf]]
<1>1. \A i \in {a, b} : /\ nodes[i].freq \in Nat /\ Leaves(i) \in SUBSET Symbols
                        /\ \A s \in Leaves(i) : nodes[i].depth[s] \in Nat
  <2>1. \A i \in {a, b} : nodes[i] \in Trees
    OBVIOUS
  <2>2. ASSUME NEW i \in {a, b}
        PROVE  /\ nodes[i].freq \in Nat
               /\ \E E \in SUBSET Symbols : nodes[i].depth \in [E -> Nat]
    BY <2>1 DEF Trees
  <2>3. ASSUME NEW i \in {a, b}
        PROVE  Leaves(i) \in SUBSET Symbols /\ \A s \in Leaves(i) : nodes[i].depth[s] \in Nat
    <3>1. PICK E \in SUBSET Symbols : nodes[i].depth \in [E -> Nat]
      BY <2>2
    <3> QED
      BY <3>1 DEF Leaves
  <2> QED
    BY <2>2, <2>3
<1>2. Joined(a, b) = [freq |-> nodes[a].freq + nodes[b].freq, depth |-> depth]
  BY DEF Joined, Leaves
<1>3. \A s \in D : 1 + (IF s \in Leaves(a) THEN nodes[a].depth[s] ELSE nodes[b].depth[s]) \in Nat \ {0}
  BY <1>1, SMTT(40)
<1>4. depth \in [D -> Nat] /\ D \in SUBSET Symbols /\ DOMAIN depth = D /\ \A s \in D : depth[s] # 0
  BY <1>1, <1>3
<1> HIDE DEF depth, D
<1>5. depth \in UNION {[E -> Nat] : E \in SUBSET Symbols}
  BY <1>4
<1>6. Joined(a, b) \in Trees
  BY <1>1, <1>2, <1>5, SMTT(40) DEF Trees
<1>7. Joined(a, b).depth = depth
  BY <1>2
<1> QED
  BY <1>4, <1>6, <1>7 DEF D

LEMMA MergeKeeps == IInv /\ Merge => IInv'
<1> SUFFICES ASSUME IInv, Merge PROVE IInv'
  OBVIOUS
<1> DEFINE a == Cheapest(heap)
           b == Cheapest(heap \ {a})
<1>0. PICK n \in Nat : n = Len(nodes)
  BY DEF IInv
<1>1. /\ pc = "merge" /\ pc' = "merge" /\ Cardinality(heap) > 1
      /\ nodes' = Append(nodes, Joined(a, b))
      /\ heap' = (heap \ {a, b}) \cup {n + 1}
  BY <1>0 DEF Merge
<1>2. Present' = Present
  BY DEF Merge, Present
<1>3. nodes \in Seq(Trees) /\ DOMAIN nodes = 1 .. n /\ heap \subseteq 1 .. n /\ Rooted
  BY <1>0 DEF IInv, TypeOK
<1>4. a \in heap
  BY <1>1, <1>3, CheapestIs DEF Rooted
<1>5. heap \ {a} # {}
  <2>1. SUFFICES ASSUME heap = {a} PROVE FALSE
    BY <1>4
  <2>2. Cardinality(heap) = 1
    BY <2>1, FS_Singleton
  <2> QED
    BY <1>1, <2>2
<1>6. b \in heap \ {a}
  BY <1>3, <1>5, CheapestIs
<1> HIDE DEF a, b
<1>7. /\ Joined(a, b) \in Trees
      /\ DOMAIN Joined(a, b).depth = Leaves(a) \cup Leaves(b)
      /\ \A s \in Leaves(a) \cup Leaves(b) : Joined(a, b).depth[s] # 0
  BY <1>3, <1>4, <1>6, JoinedIs
<1>8. /\ nodes' \in Seq(Trees) /\ DOMAIN nodes' = 1 .. n + 1
      /\ nodes'[n + 1] = Joined(a, b)
      /\ \A i \in 1 .. n : nodes'[i] = nodes[i]
  BY <1>0, <1>1, <1>3, <1>7
<1>9. /\ Leaves(n + 1)' = Leaves(a) \cup Leaves(b)
      /\ \A i \in heap : Leaves(i)' = Leaves(i) /\ nodes'[i] = nodes[i]
      /\ n + 1 \notin heap
  BY <1>3, <1>7, <1>8 DEF Leaves
<1>10. heap' \subseteq DOMAIN nodes' /\ heap' # {} /\ n + 1 \in heap'
  <2>1. n + 1 \in heap' /\ n + 1 \in 1 .. n + 1
    BY <1>1
  <2>2. \A i \in heap : i \in 1 .. n + 1
    BY <1>3
  <2>3. \A i \in heap' : i \in 1 .. n + 1
    BY <1>1, <2>1, <2>2
  <2> QED
    BY <1>8, <2>1, <2>3
<1>11. TypeOK'
  BY <1>10 DEF IInv, TypeOK, Merge
<1>12. /\ UNION {Leaves(i) : i \in heap} = Present
       /\ \A i \in heap, j \in heap : i # j => Leaves(i) \cap Leaves(j) = {}
       /\ \A i \in heap : \A s \in Leaves(i) : nodes[i].depth[s] = 0 => Leaves(i) = {s}
       /\ Cardinality(Present) > 1
  BY <1>1, <1>3 DEF Rooted
<1>13. UNION {Leaves(i)' : i \in heap'} = Present'
  <2>1. ASSUME NEW s \in Present PROVE \E i \in heap' : s \in Leaves(i)'
    <3>1. PICK i \in heap : s \in Leaves(i)
      BY <1>12
    <3>2. CASE i \in {a, b}
      BY <1>9, <1>10, <3>1, <3>2
    <3>3. CASE i \notin {a, b}
      BY <1>1, <1>9, <3>1, <3>3
    <3> QED
      BY <3>2, <3>3
  <2>2. ASSUME NEW i \in heap', NEW s \in Leaves(i)' PROVE s \in Present
    <3>1. CASE i = n + 1
      BY <1>4, <1>6, <1>9, <1>12, <2>2, <3>1
    <3>2. CASE i \in heap
      BY <1>9, <1>12, <2>2, <3>2
    <3> QED
      BY <1>1, <3>1, <3>2
  <2> QED
    BY <1>2, <2>1, <2>2
<1>14. ASSUME NEW i \in heap', NEW j \in heap', i # j PROVE Leaves(i)' \cap Leaves(j)' = {}
  <2>1. CASE i = n + 1
    <3>1. j \in heap /\ j # a /\ j # b
      BY <1>1, <1>14, <2>1
    <3> QED
      BY <1>4, <1>6, <1>9, <1>12, <2>1, <3>1
  <2>2. CASE j = n + 1
    <3>1. i \in heap /\ i # a /\ i # b
      BY <1>1, <1>14, <2>2
    <3> QED
      BY <1>4, <1>6, <1>9, <1>12, <2>2, <3>1
  <2>3. CASE i # n + 1 /\ j # n + 1
    <3>1. i \in heap /\ j \in heap
      BY <1>1, <2>3
    <3> QED
      BY <1>9, <1>12, <1>14, <3>1
  <2> QED
    BY <2>1, <2>2, <2>3
<1>15. ASSUME NEW i \in heap', NEW s \in Leaves(i)', nodes'[i].depth[s] = 0 PROVE Leaves(i)' = {s}
  <2>1. CASE i = n + 1
    <3>1. s \in Leaves(a) \cup Leaves(b) /\ nodes'[i].depth[s] # 0
      BY <1>7, <1>8, <1>9, <2>1
    <3> QED
      BY <1>15, <3>1
  <2>2. CASE i \in heap
    BY <1>9, <1>12, <1>15, <2>2
  <2> QED
    BY <1>1, <2>1, <2>2
<1>16. Rooted'
  BY <1>2, <1>10, <1>12, <1>13, <1>14, <1>15 DEF Rooted
<1> QED
  BY <1>1, <1>8, <1>11, <1>16 DEF IInv, Limiting, Assigned

\* The root has every symbol below it, and none at its top.
LEMMA RootIs ==
    ASSUME IInv, pc = "merge", Cardinality(heap) = 1
    PROVE  \A s \in Present : Depth[s] \in Nat \ {0}
<1>1. Rooted /\ nodes \in Seq(Trees) /\ heap \subseteq DOMAIN nodes
  BY DEF IInv, TypeOK
<1>2. heap # {} /\ Cardinality(Present) > 1
  BY <1>1 DEF Rooted
<1> DEFINE r == Cheapest(heap)
<1>3. r \in heap
  BY <1>1, <1>2, CheapestIs
<1>4. IsFiniteSet(heap)
  <2>1. DOMAIN nodes = 1 .. Len(nodes) /\ Len(nodes) \in Nat
    BY <1>1
  <2>2. IsFiniteSet(1 .. Len(nodes))
    BY <2>1, FS_Interval
  <2> QED
    BY <1>1, <2>1, <2>2, FS_Subset
<1>5. heap = {r}
  <2>1. PICK i : heap = {i}
    BY <1>4, FS_Singleton
  <2> HIDE DEF r
  <2> QED
    BY <1>3, <2>1
<1>6. Depth = nodes[r].depth
  BY DEF Depth
<1> HIDE DEF r
<1>7. Leaves(r) = Present /\ \A s \in Leaves(r) : nodes[r].depth[s] = 0 => Leaves(r) = {s}
  <2>1. /\ UNION {Leaves(i) : i \in heap} = Present
        /\ \A i \in heap : \A s \in Leaves(i) : nodes[i].depth[s] = 0 => Leaves(i) = {s}
    BY <1>1 DEF Rooted
  <2>2. UNION {Leaves(i) : i \in heap} = Leaves(r)
    BY <1>5
  <2> QED
    BY <1>3, <2>1, <2>2
<1>8. ASSUME NEW s \in Present PROVE nodes[r].depth[s] \in Nat
  <2>1. nodes[r] \in Trees
    BY <1>1, <1>3
  <2>2. PICK E \in SUBSET Symbols : nodes[r].depth \in [E -> Nat]
    BY <2>1 DEF Trees
  <2> QED
    BY <1>7, <2>2 DEF Leaves
<1>9. ASSUME NEW s \in Present, nodes[r].depth[s] = 0 PROVE FALSE
  <2>1. Present = {s}
    BY <1>7, <1>9
  <2>2. Cardinality({s}) = 1
    BY FS_Singleton
  <2> QED
    BY <1>2, <2>1, <2>2
<1> QED
  BY <1>6, <1>8, <1>9

\* The space that numbers of codes of each length take.
Space(number) == [l \in Lengths |-> number[l] * 2 ^ (MaxCodeLength - l)]

LEMMA SpaceIs ==
    ASSUME NEW number, Numbers(number)
    PROVE  /\ Numbers(Space(number))
           /\ KraftSum(number) = Sums(Space(number))[MaxCodeLength]
           /\ KraftSum(number) \in Nat
<1>1. ASSUME NEW l \in Lengths PROVE Space(number)[l] \in Nat
  <2>1. MaxCodeLength - l \in 0 .. MaxCodeLength
    BY HuffmanAssumption, CodeAssumption DEF Lengths
  <2>2. 2 ^ (MaxCodeLength - l) \in Nat /\ number[l] \in Nat
    BY <2>1, Powers DEF Numbers
  <2>3. Space(number)[l] = number[l] * 2 ^ (MaxCodeLength - l)
    BY DEF Space
  <2> QED
    BY <2>2, <2>3
<1>2. Numbers(Space(number))
  BY <1>1 DEF Numbers
<1>3. KraftSum(number) = Sums(Space(number))[MaxCodeLength]
  BY CodeAssumption DEF KraftSum, Space, Sums
<1>4. MaxCodeLength \in 0 .. MaxCodeLength
  BY HuffmanAssumption, CodeAssumption
<1> QED
  BY <1>2, <1>3, <1>4, SumsAre

LEMMA HistogramKeeps == IInv /\ Histogram => IInv'
<1> SUFFICES ASSUME IInv, Histogram PROVE IInv'
  OBVIOUS
<1> DEFINE At(s) == Min({Depth[s], MaxCodeLength})
           h == [s \in Present |-> At(s)]
           number == [l \in 0 .. MaxCodeLength |-> Cardinality({s \in Present : l = At(s)})]
<1>1. /\ pc = "merge" /\ Cardinality(heap) = 1 /\ pc' = "limit" /\ count' = number
      /\ kraft' = KraftSum(count')
  BY DEF Histogram
<1>2. Present' = Present
  BY DEF Histogram, Present
<1>3. ASSUME NEW s \in Present PROVE At(s) \in Lengths
  <2> DEFINE d == Depth[s]
  <2>1. d \in Nat \ {0} /\ MaxCodeLength \in Nat \ {0}
    BY <1>1, RootIs, HuffmanAssumption, CodeAssumption
  <2> HIDE DEF d
  <2>2. PICK x \in {d, MaxCodeLength} : \A y \in {d, MaxCodeLength} : x <= y
    BY <2>1
  <2>3. Min({d, MaxCodeLength}) \in {d, MaxCodeLength}
        /\ \A y \in {d, MaxCodeLength} : Min({d, MaxCodeLength}) <= y
    BY <2>2 DEF Min
  <2> QED
    BY <2>1, <2>3 DEF d, Lengths
<1>4. h \in [Present -> Lengths]
  BY <1>3
<1>5. ASSUME NEW l \in 0 .. MaxCodeLength
      PROVE  /\ number[l] = Cardinality({s \in Present : h[s] = l})
             /\ number[l] \in 0 .. AlphabetSize
  <2>1. {s \in Present : l = At(s)} = {s \in Present : h[s] = l}
    OBVIOUS
  <2>2. {s \in Present : h[s] = l} \in SUBSET Present
    OBVIOUS
  <2> HIDE DEF h, At
  <2>3. /\ IsFiniteSet({s \in Present : h[s] = l})
        /\ Cardinality({s \in Present : h[s] = l}) <= Cardinality(Present)
        /\ Cardinality({s \in Present : h[s] = l}) \in Nat
    BY <2>2, PresentIs, FS_Subset, FS_CardinalityType
  <2>4. number[l] = Cardinality({s \in Present : h[s] = l})
    BY <2>1
  <2> HIDE DEF number
  <2> QED
    BY <2>3, <2>4, PresentIs
<1>6. number \in [0 .. MaxCodeLength -> 0 .. AlphabetSize]
  BY <1>5
<1> HIDE DEF number, h
<1>7. Numbers(number) /\ Sums(number)[MaxCodeLength] = Cardinality(Present)
  <2>1. \A l \in Lengths : number[l] = Cardinality({s \in Present : h[s] = l})
    BY <1>5 DEF Lengths
  <2> QED
    BY <1>4, <2>1, PresentIs, Tally
<1>8. kraft' \in Nat
  BY <1>1, <1>7, SpaceIs
<1>9. TypeOK'
  BY <1>1, <1>6, <1>8 DEF IInv, TypeOK, Histogram
<1>10. Limiting'
  BY <1>1, <1>2, <1>7, SumOfAll DEF Limiting, UpToLength
<1>11. (nodes \in Seq(Trees))'
  BY DEF IInv, Histogram
<1> QED
  BY <1>1, <1>9, <1>10, <1>11 DEF IInv, Rooted, Assigned

\* A set of naturals with a bound has a greatest element.
LEMMA GreatestElement ==
    ASSUME NEW n \in Nat, NEW S, S \subseteq 0 .. n, S # {}
    PROVE  Max(S) \in S /\ \A k \in S : k <= Max(S)
<1> DEFINE T == {i \in 0 .. n : n - i \in S}
<1>1. T \subseteq Nat /\ \A k \in S : n - k \in T
  OBVIOUS
<1>2. PICK t \in T : \A i \in T : t <= i
  BY <1>1, LeastElement
<1>3. ASSUME NEW k \in S PROVE n - t >= k
  <2>1. t <= n - k /\ k \in 0 .. n /\ t \in 0 .. n
    BY <1>1, <1>2
  <2> QED
    BY <2>1
<1>4. n - t \in S
  BY <1>2
<1>5. Max(S) \in S /\ \A k \in S : Max(S) >= k
  BY <1>3, <1>4 DEF Max
<1> QED
  BY <1>5

LEMMA CountIs ==
    ASSUME TypeOK
    PROVE  Numbers(count) /\ \A l \in Lengths : count[l] \in 0 .. AlphabetSize /\ l \in 0 .. MaxCodeLength
<1>1. \A l \in Lengths : l \in 0 .. MaxCodeLength
  BY DEF Lengths
<1>2. \A l \in 0 .. MaxCodeLength : count[l] \in 0 .. AlphabetSize
  BY DEF TypeOK
<1> QED
  BY <1>1, <1>2, HuffmanAssumption, CodeAssumption DEF Numbers

\* If every leaf were at the limit they would fit.
LEMMA LeafThere ==
    ASSUME TypeOK, kraft = KraftSum(count), Overfull
    PROVE  CanBePushed # {} /\ Max(CanBePushed) \in CanBePushed
<1> DEFINE f == Space(count)
           top == MaxCodeLength
<1>1. MaxCodeLength \in Nat \ {0} /\ AlphabetSize \in Nat /\ AlphabetSize <= 2 ^ MaxCodeLength
  BY HuffmanAssumption, CodeAssumption
<1>2. Numbers(count) /\ \A l \in Lengths : count[l] \in 0 .. AlphabetSize
  BY CountIs
<1>3. Numbers(f) /\ KraftSum(count) = Sums(f)[MaxCodeLength]
  BY <1>2, SpaceIs
<1>4. top \in Lengths /\ top - top = 0
  BY <1>1 DEF Lengths
<1>5. f[top] = count[top] * 2 ^ (top - top)
  BY <1>4 DEF Space
<1>6. f[top] = count[top]
  <2>1. 2 ^ (top - top) = 1
    BY <1>4, Powers
  <2>2. count[top] \in Nat
    BY <1>2, <1>4
  <2> HIDE DEF f, top
  <2> QED
    BY <1>5, <2>1, <2>2
<1>7. ASSUME CanBePushed = {} PROVE FALSE
  <2>1. ASSUME NEW l \in Lengths \ {top} PROVE f[l] = 0
    <3>1. l \in 1 .. MaxCodeLength - 1
      BY <1>1 DEF Lengths
    <3>2. count[l] = 0
      BY <1>2, <1>7, <3>1 DEF CanBePushed
    <3>3. MaxCodeLength - l \in 0 .. MaxCodeLength
      BY <1>1, <3>1
    <3>4. 2 ^ (MaxCodeLength - l) \in Nat
      BY <3>3, Powers
    <3> QED
      BY <3>2, <3>4 DEF Space
  <2>2. kraft = f[top]
    <3> HIDE DEF f
    <3> QED
      BY <1>3, <1>4, <2>1, OnlyOne
  <2>3. count[top] <= 2 ^ MaxCodeLength /\ count[top] \in Nat /\ 2 ^ MaxCodeLength \in Nat
    <3>1. MaxCodeLength \in 0 .. MaxCodeLength
      BY <1>1
    <3> QED
      BY <1>1, <1>2, <1>4, <3>1, Powers
  <2>4. kraft > 2 ^ MaxCodeLength
    BY DEF Overfull, Limit
  <2> HIDE DEF f
  <2> QED
    BY <1>6, <2>2, <2>3, <2>4
<1>8. CanBePushed \subseteq 0 .. MaxCodeLength
  BY <1>1 DEF CanBePushed
<1> QED
  BY <1>1, <1>7, <1>8, GreatestElement

LEMMA PushDownKeeps == IInv /\ PushDown => IInv'
<1> SUFFICES ASSUME IInv, PushDown PROVE IInv'
  OBVIOUS
<1>1. TypeOK /\ Limiting /\ pc = "limit" /\ pc' = "limit" /\ Overfull
  BY DEF PushDown, IInv
<1>2. kraft = KraftSum(count) /\ Sums(count)[MaxCodeLength] = Cardinality(Present)
  BY <1>1, SumOfAll DEF Limiting, UpToLength
<1>3. PICK k : k = Max(CanBePushed)
  OBVIOUS
<1>4. k \in CanBePushed
  BY <1>1, <1>2, <1>3, LeafThere
<1>5. /\ count' = [count EXCEPT ![k] = @ - 1, ![k + 1] = @ + 1]
      /\ kraft' = kraft - 2 ^ (MaxCodeLength - k - 1)
  BY <1>3 DEF PushDown
<1>6. Present' = Present
  BY DEF PushDown, Present
<1>7. Numbers(count) /\ \A l \in Lengths : count[l] \in 0 .. AlphabetSize /\ l \in 0 .. MaxCodeLength
  BY <1>1, CountIs
<1>8. /\ MaxCodeLength \in Nat /\ k \in 1 .. MaxCodeLength - 1 /\ count[k] > 0
      /\ k \in Lengths /\ k + 1 \in Lengths
  BY <1>4, HuffmanAssumption, CodeAssumption DEF CanBePushed, Lengths
<1> DEFINE g == [count EXCEPT ![k] = @ - 1, ![k + 1] = @ + 1]
<1>9. /\ DOMAIN g = 0 .. MaxCodeLength /\ g = [l \in 0 .. MaxCodeLength |-> g[l]]
      /\ g[k] = count[k] - 1 /\ g[k + 1] = count[k + 1] + 1
      /\ \A l \in (0 .. MaxCodeLength) \ {k, k + 1} : g[l] = count[l]
  <2>1. DOMAIN count = 0 .. MaxCodeLength /\ k \in DOMAIN count /\ k + 1 \in DOMAIN count /\ k # k + 1
    BY <1>1, <1>7, <1>8 DEF TypeOK
  <2> QED
    BY <2>1
<1> HIDE DEF g
<1>10. ASSUME NEW l \in 0 .. MaxCodeLength PROVE g[l] \in Nat
  <2>1. count[l] \in Nat /\ count[k] \in Nat /\ count[k + 1] \in Nat
    BY <1>1, <1>7, <1>8, HuffmanAssumption, CodeAssumption DEF TypeOK
  <2> QED
    BY <1>8, <1>9, <2>1, SMTT(40)
<1>11. Numbers(g)
  BY <1>7, <1>10 DEF Numbers
<1>12. Sums(g)[MaxCodeLength] = Sums(count)[MaxCodeLength]
  <2>1. \A l \in Lengths \ {k, k + 1} : g[l] = count[l]
    BY <1>7, <1>9
  <2>2. Sums(g)[MaxCodeLength] - Sums(count)[MaxCodeLength] =
            (g[k] - count[k]) + (g[k + 1] - count[k + 1])
    BY <1>7, <1>8, <1>11, <2>1, SumsChange
  <2>3. (g[k] - count[k]) + (g[k + 1] - count[k + 1]) = 0
    BY <1>7, <1>8, <1>9
  <2>4. Sums(g)[MaxCodeLength] \in Nat /\ Sums(count)[MaxCodeLength] \in Nat
    BY <1>7, <1>8, <1>11, SumsAre
  <2> QED
    BY <2>2, <2>3, <2>4
<1>13. KraftSum(g) = kraft - 2 ^ (MaxCodeLength - k - 1)
  <2> DEFINE P == 2 ^ (MaxCodeLength - k)
             Q == 2 ^ (MaxCodeLength - (k + 1))
             F == Space(count)
             G == Space(g)
  <2>1. /\ F[k] = count[k] * P /\ F[k + 1] = count[k + 1] * Q
        /\ G[k] = g[k] * P /\ G[k + 1] = g[k + 1] * Q
        /\ \A l \in Lengths \ {k, k + 1} : G[l] = F[l]
    BY <1>7, <1>8, <1>9 DEF Space
  <2>2. MaxCodeLength - k \in Lengths /\ (MaxCodeLength - k) - 1 = MaxCodeLength - (k + 1)
        /\ MaxCodeLength - k - 1 = MaxCodeLength - (k + 1)
        /\ MaxCodeLength - (k + 1) \in 0 .. MaxCodeLength
    BY <1>8 DEF Lengths
  <2>3. P = 2 * Q /\ Q \in Nat
    BY <2>2, Powers
  <2>4. /\ Numbers(F) /\ Numbers(G)
        /\ KraftSum(count) = Sums(F)[MaxCodeLength] /\ KraftSum(g) = Sums(G)[MaxCodeLength]
        /\ KraftSum(count) \in Nat /\ KraftSum(g) \in Nat
    BY <1>7, <1>11, SpaceIs
  <2> HIDE DEF P, Q, F, G
  <2>5. Sums(G)[MaxCodeLength] - Sums(F)[MaxCodeLength] = (G[k] - F[k]) + (G[k + 1] - F[k + 1])
    BY <1>8, <2>1, <2>4, SumsChange
  <2>6. G[k] - F[k] = - P /\ G[k + 1] - F[k + 1] = Q
    <3>1. count[k] \in Nat /\ count[k + 1] \in Nat
      BY <1>7, <1>8
    <3>2. \A a \in Nat, p \in Nat : (a - 1) * p - a * p = - p /\ (a + 1) * p - a * p = p
      OBVIOUS
    <3>3. P \in Nat
      BY <2>3
    <3>4. G[k] = (count[k] - 1) * P /\ G[k + 1] = (count[k + 1] + 1) * Q
      BY <1>9, <2>1
    <3> QED
      BY <2>1, <2>3, <3>1, <3>2, <3>3, <3>4
  <2>7. KraftSum(g) = kraft - Q
    BY <1>2, <2>3, <2>4, <2>5, <2>6
  <2> QED
    BY <2>2, <2>7 DEF Q
<1>14. g \in [0 .. MaxCodeLength -> 0 .. AlphabetSize]
  <2>1. ASSUME NEW l \in 0 .. MaxCodeLength PROVE g[l] <= AlphabetSize
    <3>1. CASE l \in Lengths
      <4>1. g[l] <= Sums(g)[MaxCodeLength]
        BY <1>11, <3>1, PartOfSum
      <4>2. Sums(g)[MaxCodeLength] <= AlphabetSize /\ Sums(g)[MaxCodeLength] \in Nat
        BY <1>2, <1>12, PresentIs
      <4> QED
        BY <1>10, <4>1, <4>2, PresentIs
    <3>2. CASE l \notin Lengths
      <4>1. l \notin {k, k + 1}
        BY <1>8, <3>2
      <4> QED
        BY <1>1, <1>9, <4>1, HuffmanAssumption, CodeAssumption DEF TypeOK
    <3> QED
      BY <3>1, <3>2
  <2>2. \A l \in 0 .. MaxCodeLength : g[l] \in 0 .. AlphabetSize
    BY <1>10, <2>1, PresentIs
  <2> QED
    BY <1>9, <2>2
<1>15. count' = g /\ kraft' = KraftSum(count')
  BY <1>5, <1>13 DEF g
<1>16. kraft' \in Nat
  BY <1>11, <1>15, SpaceIs
<1>17. TypeOK'
  BY <1>14, <1>15, <1>16 DEF IInv, TypeOK, PushDown
<1>18. Limiting'
  BY <1>2, <1>6, <1>12, <1>15, SumOfAll DEF Limiting, UpToLength
<1>19. (nodes \in Seq(Trees))'
  BY DEF IInv, PushDown
<1> QED
  BY <1>1, <1>17, <1>18, <1>19 DEF IInv, Rooted, Assigned

\* The symbols by falling frequency.
LEMMA RankIs ==
    ASSUME TypeOK
    PROVE  \E R : Placed(R, Present) /\ \A s \in Present : Place(R, Present, s) = Rank(s)
<1> DEFINE R == {p \in Present \X Present : Before(p[1], p[2])}
<1>1. \A s \in Present : s \in Int /\ freq[s] \in Nat
  BY PresentIs, HuffmanAssumption, CodeAssumption DEF TypeOK
<1>2. Orders(R, Present)
  <2>1. \A s \in Present, t \in Present : <<s, t>> \in R <=> Before(s, t)
    OBVIOUS
  <2>2. \A s \in Present : ~Before(s, s)
    BY <1>1 DEF Before
  <2>3. \A s \in Present, t \in Present : s # t => Before(s, t) \/ Before(t, s)
    BY <1>1 DEF Before
  <2>4. \A s \in Present, t \in Present, u \in Present :
            Before(s, t) /\ Before(t, u) => Before(s, u)
    BY <1>1 DEF Before
  <2> HIDE DEF R
  <2> QED
    BY <2>1, <2>2, <2>3, <2>4 DEF Orders
<1>3. Placed(R, Present)
  BY <1>2, PresentIs, OrderPlaces
<1>4. ASSUME NEW s \in Present PROVE Place(R, Present, s) = Rank(s)
  <2>1. Less(R, Present, s) = {t \in Present : Before(t, s)}
    BY DEF Less
  <2> QED
    BY <2>1 DEF Place, Rank
<1> HIDE DEF R
<1> QED
  BY <1>3, <1>4

AssignedLength(s) == Min({l \in Lengths : Rank(s) < UpToLength(l)})

\* A symbol gets the first length that is not used up before its turn.
LEMMA AssignedIs ==
    ASSUME TypeOK, Limiting, pc = "limit", NEW s \in Present, Rank(s) \in 0 .. Cardinality(Present) - 1
    PROVE  /\ AssignedLength(s) \in Lengths
           /\ \A l \in Lengths :
                 AssignedLength(s) = l <=> UpToLength(l - 1) <= Rank(s) /\ Rank(s) < UpToLength(l)
<1> DEFINE S == {l \in Lengths : Rank(s) < UpToLength(l)}
           U(l) == UpToLength(l)
<1>1. /\ U(0) = 0
      /\ \A l \in 0 .. MaxCodeLength : U(l) \in Nat
      /\ \A k \in 0 .. MaxCodeLength : \A l \in k .. MaxCodeLength : U(k) <= U(l)
  <2>1. MaxCodeLength \in Nat /\ Numbers(count)
    BY CountIs, CodeAssumption
  <2>2. \A l \in 0 .. MaxCodeLength : U(l) = Sums(count)[l]
    BY SumAt DEF UpToLength
  <2>3. 0 \in 0 .. MaxCodeLength /\ \A k \in 0 .. MaxCodeLength : \A l \in k .. MaxCodeLength : l \in 0 .. MaxCodeLength
    BY <2>1
  <2> HIDE DEF U
  <2> QED
    BY <2>1, <2>2, <2>3, SumsAre, SumsGrow
<1>2. U(MaxCodeLength) = Cardinality(Present) /\ MaxCodeLength \in Nat \ {0} /\ Rank(s) \in Nat
      /\ Rank(s) < U(MaxCodeLength)
  BY PresentIs, HuffmanAssumption, CodeAssumption DEF Limiting
<1> HIDE DEF U
<1>3. S \subseteq Nat /\ MaxCodeLength \in S
  BY <1>2 DEF Lengths, U
<1>4. PICK m \in S : \A l \in S : m <= l
  <2> HIDE DEF S
  <2> QED
    BY <1>3, LeastElement
<1> DEFINE a == AssignedLength(s)
<1>5. a \in S /\ \A l \in S : a <= l
  BY <1>4 DEF AssignedLength, Min
<1> HIDE DEF a
<1>6. a \in Lengths /\ Rank(s) < U(a)
  BY <1>5 DEF U
<1>7. ASSUME NEW l \in Lengths, a = l PROVE U(l - 1) <= Rank(s) /\ Rank(s) < U(l)
  <2>1. l - 1 \in 0 .. MaxCodeLength /\ l \in 0 .. MaxCodeLength
    BY <1>2 DEF Lengths
  <2>2. CASE l = 1
    BY <1>1, <1>2, <1>6, <1>7, <2>2
  <2>3. CASE l # 1
    <3>1. l - 1 \in Lengths /\ ~(l <= l - 1)
      BY <1>2, <2>3 DEF Lengths
    <3>2. l - 1 \notin S
      BY <1>5, <1>7, <3>1
    <3>3. ~(Rank(s) < U(l - 1))
      BY <3>1, <3>2 DEF U
    <3> QED
      BY <1>1, <1>2, <1>6, <1>7, <2>1, <3>3
  <2> QED
    BY <2>2, <2>3
<1>8. ASSUME NEW l \in Lengths, U(l - 1) <= Rank(s), Rank(s) < U(l) PROVE a = l
  <2>1. l \in S
    BY <1>8 DEF U
  <2>2. a <= l
    BY <1>5, <2>1
  <2>3. ASSUME a <= l - 1 PROVE FALSE
    <3>1. a \in 0 .. MaxCodeLength /\ l - 1 \in a .. MaxCodeLength /\ l - 1 \in 0 .. MaxCodeLength
      BY <1>2, <1>6, <2>3 DEF Lengths
    <3>2. U(a) <= U(l - 1) /\ U(a) \in Nat /\ U(l - 1) \in Nat
      BY <1>1, <3>1
    <3> QED
      BY <1>2, <1>6, <1>8, <3>2
  <2> QED
    BY <1>6, <2>2, <2>3 DEF Lengths
<1> QED
  BY <1>6, <1>7, <1>8 DEF a, U

LEMMA AssignKeeps == IInv /\ Assign => IInv'
<1> SUFFICES ASSUME IInv, Assign PROVE IInv'
  OBVIOUS
<1>1. TypeOK /\ Limiting /\ pc = "limit" /\ pc' = "done" /\ ~Overfull
  BY DEF Assign, IInv
<1>2. kraft = KraftSum(count) /\ Sums(count)[MaxCodeLength] = Cardinality(Present)
  BY <1>1, SumOfAll DEF Limiting, UpToLength
<1>3. Present' = Present
  BY DEF Assign, Present
<1>4. PICK R : Placed(R, Present) /\ \A s \in Present : Place(R, Present, s) = Rank(s)
  BY <1>1, RankIs
<1>5. \A s \in Present : Rank(s) \in 0 .. Cardinality(Present) - 1
  BY <1>4 DEF Placed
<1>6. PICK ls : ls = [s \in Symbols |-> IF s \in Present THEN AssignedLength(s) ELSE 0]
  OBVIOUS
<1>7. lengths' = ls
  BY <1>6 DEF Assign, AssignedLength
<1>8. \A s \in Present : AssignedLength(s) \in Lengths
  BY <1>1, <1>5, AssignedIs
<1>9. /\ ls \in [Symbols -> 0 .. MaxCodeLength]
      /\ \A s \in Symbols : ls[s] # 0 <=> s \in Present
  <2>1. \A l \in Lengths : l \in 0 .. MaxCodeLength /\ l # 0
    BY DEF Lengths
  <2>2. 0 \in 0 .. MaxCodeLength
    BY HuffmanAssumption, CodeAssumption
  <2> QED
    BY <1>6, <1>8, <2>1, <2>2
<1>10. Coded(ls) = Present
  BY <1>9, PresentIs DEF Coded
<1>11. IsTable(ls)
  BY <1>9, IsATable
<1>12. Numbers(count)
  BY <1>1, CountIs
<1>13. ASSUME NEW l \in Lengths PROVE NumberOf(ls, l) = count[l]
  <2>1. l \in 0 .. MaxCodeLength /\ l - 1 \in 0 .. MaxCodeLength /\ MaxCodeLength \in l .. MaxCodeLength
        /\ l \in l - 1 .. MaxCodeLength /\ MaxCodeLength \in 0 .. MaxCodeLength
    BY HuffmanAssumption, CodeAssumption DEF Lengths
  <2> DEFINE a == UpToLength(l - 1)
             b == UpToLength(l)
  <2>2. /\ a \in Nat /\ b \in Nat /\ b = a + count[l] /\ count[l] \in Nat
        /\ b <= Cardinality(Present)
    <3>1. a \in Nat /\ b \in Nat /\ b = a + count[l] /\ count[l] \in Nat
      BY <1>12, <2>1, SumsAre, SumAt DEF UpToLength, Numbers
    <3>2. b <= Cardinality(Present)
      BY <1>2, <1>12, <2>1, SumsGrow, SumAt DEF UpToLength
    <3> QED
      BY <3>1, <3>2
  <2>3. OfLength(ls, l) = {s \in Present : a <= Place(R, Present, s) /\ Place(R, Present, s) < b}
    <3>1. ASSUME NEW s \in Present
          PROVE  ls[s] = l <=> a <= Place(R, Present, s) /\ Place(R, Present, s) < b
      <4>1. ls[s] = AssignedLength(s)
        BY <1>6, PresentIs
      <4>2. AssignedLength(s) = l <=> a <= Rank(s) /\ Rank(s) < b
        BY <1>1, <1>5, AssignedIs
      <4> HIDE DEF a, b
      <4> QED
        BY <1>4, <4>1, <4>2
    <3> HIDE DEF a, b
    <3> QED
      BY <1>10, <3>1 DEF OfLength
  <2> HIDE DEF a, b
  <2>4. a \in 0 .. Cardinality(Present) /\ b \in a .. Cardinality(Present)
    BY <2>2, PresentIs
  <2>5. Cardinality({s \in Present : a <= Place(R, Present, s) /\ Place(R, Present, s) < b}) = b - a
    BY <1>4, <2>4, PresentIs, BetweenPlaces
  <2>6. NumberOf(ls, l) = b - a
    BY <2>3, <2>5 DEF NumberOf, OfLength
  <2> QED
    BY <2>2, <2>6
<1>14. Spaces(ls) = Space(count)
  BY <1>13 DEF Spaces, Space
<1>15. Sums(Spaces(ls))[MaxCodeLength] = kraft
  BY <1>2, <1>12, <1>14, SpaceIs
<1>16. kraft <= 2 ^ MaxCodeLength
  <2>1. kraft \in Nat /\ MaxCodeLength \in 0 .. MaxCodeLength
    BY <1>1, HuffmanAssumption, CodeAssumption DEF TypeOK
  <2>2. 2 ^ MaxCodeLength \in Nat
    BY <2>1, Powers
  <2> QED
    BY <1>1, <2>1, <2>2 DEF Overfull, Limit
<1>17. Fits(ls)
  BY <1>11, <1>15, <1>16 DEF Fits
<1>18. TypeOK'
  BY <1>7, <1>9 DEF IInv, TypeOK, Assign
<1>19. Assigned'
  BY <1>3, <1>7, <1>10, <1>17 DEF Assigned
<1>20. (nodes \in Seq(Trees))'
  BY DEF IInv, Assign
<1> QED
  BY <1>1, <1>18, <1>19, <1>20 DEF IInv, Rooted, Limiting

LEMMA StutterKeeps == IInv /\ UNCHANGED vars => IInv'
<1> SUFFICES ASSUME IInv, UNCHANGED vars PROVE IInv'
  OBVIOUS
<1>1. /\ freq' = freq /\ nodes' = nodes /\ heap' = heap /\ count' = count
      /\ kraft' = kraft /\ lengths' = lengths /\ pc' = pc
  BY DEF vars
<1>2. TypeOK' /\ (nodes \in Seq(Trees))'
  BY <1>1 DEF IInv, TypeOK
<1>3. Rooted' /\ Limiting' /\ Assigned'
  BY <1>1 DEF IInv, Rooted, Limiting, Assigned, Present, Leaves, UpToLength, Sums
<1> QED
  BY <1>2, <1>3 DEF IInv

LEMMA NextIInv == IInv /\ [Next]_vars => IInv'
<1> SUFFICES ASSUME IInv, [Next]_vars PROVE IInv'
  OBVIOUS
<1>1. CASE Few
  BY <1>1, FewKeeps
<1>2. CASE PlantLeaves
  BY <1>2, PlantKeeps
<1>3. CASE Merge
  BY <1>3, MergeKeeps
<1>4. CASE Histogram
  BY <1>4, HistogramKeeps
<1>5. CASE PushDown
  BY <1>5, PushDownKeeps
<1>6. CASE Assign
  BY <1>6, AssignKeeps
<1>7. CASE Over
  BY <1>7, StutterKeeps DEF Over
<1>8. CASE UNCHANGED vars
  BY <1>8, StutterKeeps
<1> QED
  BY <1>1, <1>2, <1>3, <1>4, <1>5, <1>6, <1>7, <1>8 DEF Next

LEMMA Invariance == Spec => []IInv
<1> QED
  BY InitIInv, NextIInv, PTL DEF Spec

------------------------------------------------------------------------------
\* The tables of DEFLATE

\* Ranges as they are given by their bases and the greatest value.
Ranges(base, last, top) ==
    /\ base \in Seq(Nat \ {0}) /\ base # << >>
    /\ \A c \in 0 .. Len(base) - 1 :
          /\ last[c] \in Nat /\ base[c + 1] <= last[c]
          /\ last[c] = IF c + 1 \in 0 .. Len(base) - 1 THEN base[c + 2] - 1 ELSE top

\* One range ends before the next begins.
LEMMA RangesFollow ==
    ASSUME NEW base, NEW last, NEW top, Ranges(base, last, top),
           NEW c \in 0 .. Len(base) - 1, NEW d \in c + 1 .. Len(base) - 1
    PROVE  last[c] < base[d + 1]
<1> DEFINE S == {k \in 0 .. d - (c + 1) : last[c] < base[(c + 1 + k) + 1]}
<1>1. /\ Len(base) \in Nat /\ \A k \in 1 .. Len(base) : base[k] \in Nat
      /\ c \in Nat /\ d \in Nat /\ d - (c + 1) \in Nat
  BY DEF Ranges
<1>2. /\ \A k \in 0 .. Len(base) - 1 : last[k] \in Nat /\ base[k + 1] <= last[k]
      /\ \A k \in 0 .. Len(base) - 2 : last[k] = base[k + 2] - 1
  BY <1>1, SMTT(40) DEF Ranges
<1>3. 0 \in S
  <2>1. c \in 0 .. Len(base) - 2 /\ (c + 1 + 0) + 1 = c + 2 /\ c + 2 \in 1 .. Len(base)
    BY <1>1
  <2> QED
    BY <1>1, <1>2, <2>1
<1>4. ASSUME NEW k \in 0 .. d - (c + 1) - 1, k \in S PROVE k + 1 \in S
  <2> DEFINE e == c + 1 + k
  <2>1. e \in 0 .. Len(base) - 2 /\ (c + 1 + (k + 1)) + 1 = e + 2 /\ e + 1 \in 1 .. Len(base) /\ e + 2 \in 1 .. Len(base)
    BY <1>1
  <2>2. last[e] = base[e + 2] - 1 /\ base[e + 1] <= last[e] /\ last[e] \in Nat /\ last[c] < base[e + 1]
    BY <1>2, <1>4, <2>1
  <2>3. base[e + 1] \in Nat /\ base[e + 2] \in Nat /\ last[c] \in Nat
    BY <1>1, <1>2, <2>1
  <2> HIDE DEF e
  <2>4. last[c] < base[e + 2]
    BY <2>2, <2>3
  <2> QED
    BY <2>1, <2>4
<1>5. \A k \in 0 .. d - (c + 1) : k \in S
  <2> HIDE DEF S
  <2> QED
    BY <1>1, <1>3, <1>4, CountsUp
<1>6. d - (c + 1) \in S /\ (c + 1 + (d - (c + 1))) + 1 = d + 1
  <2>1. d - (c + 1) \in 0 .. d - (c + 1) /\ (c + 1 + (d - (c + 1))) + 1 = d + 1
    BY <1>1
  <2> HIDE DEF S
  <2> QED
    BY <1>5, <2>1
<1> QED
  BY <1>6

\* The last range begun at a value is the only one the value is in.
LEMMA OnlyRange ==
    ASSUME NEW base, NEW last, NEW top, Ranges(base, last, top),
           NEW v \in Nat, base[1] <= v, v <= top
    PROVE  /\ LastBegun(base, v) \in 0 .. Len(base) - 1
           /\ base[LastBegun(base, v) + 1] <= v /\ v <= last[LastBegun(base, v)]
           /\ \A c \in 0 .. Len(base) - 1 :
                 base[c + 1] <= v /\ v <= last[c] => c = LastBegun(base, v)
<1> DEFINE S == {n \in DOMAIN base : base[n] <= v}
           m == Max(S)
<1>1. /\ Len(base) \in Nat \ {0} /\ DOMAIN base = 1 .. Len(base)
      /\ \A k \in 1 .. Len(base) : base[k] \in Nat
  BY DEF Ranges
<1>3. m \in S /\ \A k \in S : k <= m
  <2>1. S \subseteq 0 .. Len(base) /\ S # {} /\ Len(base) \in Nat
    BY <1>1
  <2> HIDE DEF S
  <2> QED
    BY <2>1, GreatestElement
<1>4. LastBegun(base, v) = m - 1
  BY DEF LastBegun
<1> HIDE DEF m
<1>5. m \in 1 .. Len(base) /\ base[m] <= v /\ \A k \in 1 .. Len(base) : base[k] <= v => k <= m
  BY <1>1, <1>3
<1>6. v <= last[m - 1]
  <2>1. m - 1 \in 0 .. Len(base) - 1 /\ (m - 1) + 1 = m /\ (m - 1) + 2 = m + 1
    BY <1>1, <1>5
  <2>2. last[m - 1] = IF m \in 0 .. Len(base) - 1 THEN base[m + 1] - 1 ELSE top
    BY <2>1 DEF Ranges
  <2>3. CASE m = Len(base)
    BY <1>1, <2>2, <2>3
  <2>4. CASE m < Len(base)
    <3>1. m + 1 \in 1 .. Len(base) /\ base[m + 1] \in Nat
      BY <1>1, <1>5, <2>4
    <3>2. ~(base[m + 1] <= v)
      BY <1>1, <1>5, <3>1
    <3>3. last[m - 1] = base[m + 1] - 1
      BY <1>1, <1>5, <2>2, <2>4
    <3>4. v <= base[m + 1] - 1
      BY <3>1, <3>2
    <3> QED
      BY <3>3, <3>4
  <2>5. m = Len(base) \/ m < Len(base)
    <3>1. Len(base) \in Nat /\ m \in 1 .. Len(base)
      BY <1>1, <1>5
    <3> QED
      BY <3>1
  <2> QED
    BY <2>3, <2>4, <2>5
<1>7. ASSUME NEW c \in 0 .. Len(base) - 1, base[c + 1] <= v, v <= last[c] PROVE c = m - 1
  <2>1. c + 1 \in 1 .. Len(base) /\ c + 1 <= m
    BY <1>1, <1>5, <1>7
  <2>2. SUFFICES ASSUME c + 1 < m PROVE FALSE
    BY <1>1, <1>5, <2>1
  <2>3. m - 1 \in c + 1 .. Len(base) - 1 /\ (m - 1) + 1 = m
    BY <1>1, <1>5, <2>1, <2>2
  <2>4. last[c] < base[m]
    BY <2>3, RangesFollow
  <2>5. last[c] \in Nat /\ base[m] \in Nat
    BY <1>1, <1>5 DEF Ranges
  <2> QED
    BY <1>5, <1>7, <2>4, <2>5
<1> QED
  BY <1>1, <1>4, <1>5, <1>6, <1>7

\* An entry written for one code only holds that code.
LEMMA EntryIs ==
    ASSUME NEW c \in Int, NEW codes, codes = {c}
    PROVE  Entry(codes) = c
<1>1. Max(codes) \in codes
  <2>1. \E x \in codes : \A y \in codes : x >= y
    OBVIOUS
  <2> QED
    BY <2>1 DEF Max
<1> QED
  BY <1>1 DEF Entry

\* What a range has room for, so has every place in it.
LEMMA WithinRange ==
    ASSUME NEW first \in Nat, NEW v \in Nat, NEW final \in Nat, NEW size \in Int,
           final - first \in 0 .. size - 1, first <= v, v <= final
    PROVE  v - first \in 0 .. size - 1 /\ first + (v - first) = v
OBVIOUS

LastLengths == [c \in LengthCodes |-> LastLength(c)]
LastDistances == [c \in DistanceCodes |-> LastDistance(c)]

LEMMA TablesAre ==
    /\ Ranges(LengthBase, LastLengths, MaxMatch)
    /\ Ranges(DistBase, LastDistances, MaxDistance)
    /\ MaxMatch \in Nat /\ MaxDistance \in Nat
    /\ \A c \in LengthCodes : LastLength(c) - LengthBase[c + 1] \in 0 .. 2 ^ LengthExtra[c + 1] - 1
    /\ \A c \in DistanceCodes : LastDistance(c) - DistBase[c + 1] \in 0 .. 2 ^ DistExtra[c + 1] - 1
<1>1. /\ LengthBase \in Seq(Nat \ {0}) /\ LengthBase # << >>
      /\ \A c \in LengthCodes :
            LastLength(c) \in Nat /\ LastLength(c) - LengthBase[c + 1] \in 0 .. 2 ^ LengthExtra[c + 1] - 1
  BY TablesAssumption DEF AreRanges, LengthCodes
<1>2. /\ DistBase \in Seq(Nat \ {0}) /\ DistBase # << >>
      /\ \A c \in DistanceCodes :
            LastDistance(c) \in Nat /\ LastDistance(c) - DistBase[c + 1] \in 0 .. 2 ^ DistExtra[c + 1] - 1
  BY TablesAssumption DEF AreRanges, DistanceCodes
<1>3. /\ Len(LengthBase) \in Nat \ {0} /\ Len(DistBase) \in Nat \ {0}
      /\ \A k \in 1 .. Len(LengthBase) : LengthBase[k] \in Nat
      /\ \A k \in 1 .. Len(DistBase) : DistBase[k] \in Nat
  BY <1>1, <1>2
<1>4. Ranges(LengthBase, LastLengths, MaxMatch)
  <2>1. ASSUME NEW c \in 0 .. Len(LengthBase) - 1
        PROVE  /\ LastLengths[c] \in Nat /\ LengthBase[c + 1] <= LastLengths[c]
               /\ LastLengths[c] = IF c + 1 \in 0 .. Len(LengthBase) - 1 THEN LengthBase[c + 2] - 1 ELSE MaxMatch
    <3>1. LastLengths[c] = LastLength(c) /\ c \in LengthCodes /\ LengthBase[c + 1] \in Nat
      BY <1>3 DEF LastLengths, LengthCodes
    <3>2. LengthBase[c + 1] <= LastLength(c)
      BY <1>1, <3>1
    <3> QED
      BY <1>1, <3>1, <3>2 DEF LastLength, LengthCodes
  <2> QED
    BY <1>1, <2>1 DEF Ranges
<1>5. Ranges(DistBase, LastDistances, MaxDistance)
  <2>1. ASSUME NEW c \in 0 .. Len(DistBase) - 1
        PROVE  /\ LastDistances[c] \in Nat /\ DistBase[c + 1] <= LastDistances[c]
               /\ LastDistances[c] = IF c + 1 \in 0 .. Len(DistBase) - 1 THEN DistBase[c + 2] - 1 ELSE MaxDistance
    <3>1. LastDistances[c] = LastDistance(c) /\ c \in DistanceCodes /\ DistBase[c + 1] \in Nat
      BY <1>3 DEF LastDistances, DistanceCodes
    <3>2. DistBase[c + 1] <= LastDistance(c)
      BY <1>2, <3>1
    <3> QED
      BY <1>2, <3>1, <3>2 DEF LastDistance, DistanceCodes
  <2> QED
    BY <1>2, <2>1 DEF Ranges
<1>6. MaxMatch \in Nat
  <2>1. Len(LengthBase) - 1 \in LengthCodes /\ ~((Len(LengthBase) - 1) + 1 \in LengthCodes)
    BY <1>3 DEF LengthCodes
  <2> QED
    BY <1>1, <2>1 DEF LastLength
<1>7. MaxDistance \in Nat
  <2>1. Len(DistBase) - 1 \in DistanceCodes /\ ~((Len(DistBase) - 1) + 1 \in DistanceCodes)
    BY <1>3 DEF DistanceCodes
  <2> QED
    BY <1>2, <2>1 DEF LastDistance
<1> QED
  BY <1>1, <1>2, <1>4, <1>5, <1>6, <1>7

\* The table of lengths gives the last code begun.
LEMMA LengthCodeIs ==
    ASSUME NEW length \in MinMatch .. MaxMatch
    PROVE  /\ LastBegun(LengthBase, length) \in LengthCodes
           /\ LengthIndex[length] = LastBegun(LengthBase, length)
           /\ LengthBase[LastBegun(LengthBase, length) + 1] <= length
           /\ length <= LastLength(LastBegun(LengthBase, length))
<1> DEFINE c == LastBegun(LengthBase, length)
           codes == {k \in LengthCodes : length \in LengthBase[k + 1] .. LastLength(k)}
<1>1. Ranges(LengthBase, LastLengths, MaxMatch) /\ LengthCodes = 0 .. Len(LengthBase) - 1
      /\ length \in Nat /\ LengthBase[1] <= length /\ length <= MaxMatch
      /\ \A k \in LengthCodes : LengthBase[k + 1] \in Nat /\ LastLength(k) \in Nat /\ LastLengths[k] = LastLength(k)
  <2>1. LengthBase \in Seq(Nat \ {0}) /\ Len(LengthBase) \in Nat \ {0}
    BY TablesAre DEF Ranges
  <2>2. \A k \in 1 .. Len(LengthBase) : LengthBase[k] \in Nat
    BY <2>1
  <2>3. 1 \in 1 .. Len(LengthBase) /\ LengthBase[1] \in Nat
    BY <2>1, <2>2
  <2>4. \A k \in LengthCodes : LastLengths[k] = LastLength(k) /\ LastLengths[k] \in Nat
    BY TablesAre DEF Ranges, LastLengths, LengthCodes
  <2>5. \A k \in LengthCodes : k + 1 \in 1 .. Len(LengthBase)
    BY <2>1 DEF LengthCodes
  <2> QED
    BY <2>2, <2>3, <2>4, <2>5, TablesAre DEF MinMatch, LengthCodes
<1>2. /\ c \in LengthCodes
      /\ LengthBase[c + 1] <= length /\ length <= LastLengths[c]
      /\ \A k \in LengthCodes : LengthBase[k + 1] <= length /\ length <= LastLengths[k] => k = c
  <2> HIDE DEF c
  <2> QED
    BY <1>1, OnlyRange DEF c
<1> HIDE DEF c
<1>3. codes = {c} /\ c \in Int
  BY <1>1, <1>2, SMTT(40)
<1>4. LengthIndex[length] = Entry(codes)
  BY DEF LengthIndex
<1>5. Entry(codes) = c
  <2> HIDE DEF codes
  <2> QED
    BY <1>3, EntryIs
<1> QED
  BY <1>1, <1>2, <1>4, <1>5 DEF c

\* A value is in the bucket of one range only.
LEMMA BucketsKeepOrder ==
    ASSUME NEW a \in Nat \ {0}, NEW b \in Nat, a <= b
    PROVE  Bucket(a) \in Nat /\ Bucket(b) \in Nat /\ Bucket(a) <= Bucket(b)
<1>1. BucketSize \in Nat \ {0} /\ a - 1 \in Nat /\ b - 1 \in Nat
  BY TablesAssumption
<1> DEFINE x == Bucket(a)
           y == Bucket(b)
<1>2. /\ x \in Nat /\ BucketSize * x <= a - 1
      /\ y \in Nat /\ b - 1 < BucketSize * y + BucketSize
  BY <1>1, Quotient DEF Bucket
<1> HIDE DEF x, y
<1>3. ~(y + 1 <= x)
  <2>1. SUFFICES ASSUME y + 1 <= x PROVE FALSE
    OBVIOUS
  <2>2. (y + 1) * BucketSize <= x * BucketSize
    BY <1>1, <1>2, <2>1, Product
  <2>3. (y + 1) * BucketSize = BucketSize * y + BucketSize /\ x * BucketSize = BucketSize * x
    BY <1>1, <1>2
  <2>4. BucketSize * y \in Nat /\ BucketSize * x \in Nat
    BY <1>1, <1>2
  <2> QED
    BY <1>1, <1>2, <2>2, <2>3, <2>4
<1> QED
  BY <1>2, <1>3 DEF x, y

\* What comes before a value at the beginning of a bucket is in a bucket before it.
LEMMA BucketsBegin ==
    ASSUME NEW a \in Nat \ {0}, NEW b \in Nat, a < b, ((b - 1) % BucketSize) = 0
    PROVE  Bucket(a) < Bucket(b)
<1>1. BucketSize \in Nat \ {0} /\ a - 1 \in Nat /\ b - 1 \in Nat
  BY TablesAssumption
<1> DEFINE x == Bucket(a)
           y == Bucket(b)
<1>2. x \in Nat /\ BucketSize * x <= a - 1 /\ y \in Nat
  BY <1>1, Quotient DEF Bucket
<1>3. b - 1 = BucketSize * y
  <2>1. b - 1 = BucketSize * ((b - 1) \div BucketSize) + ((b - 1) % BucketSize)
    BY <1>1
  <2>2. BucketSize * ((b - 1) \div BucketSize) \in Nat
    BY <1>1, <1>2 DEF Bucket
  <2> QED
    BY <2>1, <2>2 DEF Bucket
<1> HIDE DEF x, y
<1>4. ~(y <= x)
  <2>1. SUFFICES ASSUME y <= x PROVE FALSE
    OBVIOUS
  <2>2. y * BucketSize <= x * BucketSize
    BY <1>1, <1>2, <2>1, Product
  <2>3. y * BucketSize = BucketSize * y /\ x * BucketSize = BucketSize * x
    BY <1>1, <1>2
  <2>4. BucketSize * y \in Nat /\ BucketSize * x \in Nat
    BY <1>1, <1>2
  <2> QED
    BY <1>1, <1>2, <1>3, <2>2, <2>3, <2>4
<1> QED
  BY <1>2, <1>4 DEF x, y

\* So do the tables of distances.
LEMMA DistanceCodeIs ==
    ASSUME NEW distance \in 1 .. MaxDistance
    PROVE  /\ LastBegun(DistBase, distance) \in DistanceCodes
           /\ (IF distance <= Direct THEN DistLow[distance - 1] ELSE DistHigh[Bucket(distance)])
                 = LastBegun(DistBase, distance)
           /\ DistBase[LastBegun(DistBase, distance) + 1] <= distance
           /\ distance <= LastDistance(LastBegun(DistBase, distance))
<1> DEFINE c == LastBegun(DistBase, distance)
<1>1. Ranges(DistBase, LastDistances, MaxDistance) /\ DistanceCodes = 0 .. Len(DistBase) - 1
      /\ distance \in Nat \ {0} /\ DistBase[1] <= distance /\ distance <= MaxDistance /\ MaxDistance \in Nat
      /\ \A k \in DistanceCodes : DistBase[k + 1] \in Nat \ {0} /\ LastDistance(k) \in Nat
                                  /\ LastDistances[k] = LastDistance(k)
                                  /\ DistBase[k + 1] <= LastDistance(k)
      /\ Direct \in Nat
  <2>1. DistBase \in Seq(Nat \ {0}) /\ Len(DistBase) \in Nat \ {0} /\ MaxDistance \in Nat
    BY TablesAre DEF Ranges
  <2>2. \A k \in 1 .. Len(DistBase) : DistBase[k] \in Nat \ {0}
    BY <2>1
  <2>3. DistBase[1] = 1
    BY TablesAssumption
  <2>4. \A k \in DistanceCodes : LastDistances[k] = LastDistance(k) /\ LastDistances[k] \in Nat /\ DistBase[k + 1] <= LastDistances[k]
    BY TablesAre DEF Ranges, LastDistances, DistanceCodes
  <2>5. \A k \in DistanceCodes : k + 1 \in 1 .. Len(DistBase)
    BY <2>1 DEF DistanceCodes
  <2> QED
    BY <2>1, <2>2, <2>3, <2>4, <2>5, TablesAre, TablesAssumption DEF DistanceCodes
<1>2. /\ c \in DistanceCodes
      /\ DistBase[c + 1] <= distance /\ distance <= LastDistance(c)
      /\ \A k \in DistanceCodes : DistBase[k + 1] <= distance /\ distance <= LastDistance(k) => k = c
  <2>1. /\ c \in DistanceCodes
        /\ DistBase[c + 1] <= distance /\ distance <= LastDistances[c]
        /\ \A k \in DistanceCodes : DistBase[k + 1] <= distance /\ distance <= LastDistances[k] => k = c
    BY <1>1, OnlyRange
  <2> HIDE DEF c
  <2> QED
    BY <1>1, <2>1
<1> HIDE DEF c
<1>3. CASE distance <= Direct
  <2> DEFINE codes == {k \in DistanceCodes : (distance - 1) + 1 \in DistBase[k + 1] .. LastDistance(k)}
  <2>1. (distance - 1) + 1 = distance /\ distance - 1 \in 0 .. Direct - 1
    <3>1. distance \in Nat \ {0} /\ Direct \in Nat
      BY <1>1, TablesAssumption
    <3> HIDE DEF codes
    <3> QED
      BY <1>3, <3>1
  <2>2. codes = {c} /\ c \in Int
    <3>1. \A k \in DistanceCodes :
             distance \in DistBase[k + 1] .. LastDistance(k)
                <=> DistBase[k + 1] <= distance /\ distance <= LastDistance(k)
      BY <1>1
    <3>2. c \in Int /\ c \in DistanceCodes
      BY <1>1, <1>2
    <3>3. \A k \in DistanceCodes :
             (distance - 1) + 1 \in DistBase[k + 1] .. LastDistance(k) <=> k = c
      BY <1>2, <2>1, <3>1
    <3> QED
      BY <3>2, <3>3
  <2>3. DistLow[distance - 1] = Entry(codes)
    BY <2>1 DEF DistLow
  <2>4. Entry(codes) = c
    <3> HIDE DEF codes
    <3> QED
      BY <2>2, EntryIs
  <2> QED
    BY <1>2, <1>3, <2>3, <2>4 DEF c
<1>4. CASE ~(distance <= Direct)
  <2> DEFINE low(k) == Max({DistBase[k + 1], Direct + 1})
             b == Bucket(distance)
             codes == {k \in DistanceCodes :
                         low(k) <= LastDistance(k) /\ b \in Bucket(low(k)) .. Bucket(LastDistance(k))}
  <2>1. ASSUME NEW k \in DistanceCodes
        PROVE  /\ low(k) = IF DistBase[k + 1] <= Direct THEN Direct + 1 ELSE DistBase[k + 1]
               /\ low(k) \in Nat \ {0}
    <3> DEFINE T == {DistBase[k + 1], Direct + 1}
               t == IF DistBase[k + 1] <= Direct THEN Direct + 1 ELSE DistBase[k + 1]
    <3>0. DistBase[k + 1] \in Nat \ {0} /\ Direct \in Nat
      BY <1>1
    <3>1. DistBase[k + 1] \in Nat \ {0} /\ Direct + 1 \in Nat \ {0}
      BY <3>0
    <3>2. t \in T /\ \A y \in T : t >= y
      BY <1>1, <3>1
    <3>3. Max(T) \in T /\ \A y \in T : Max(T) >= y
      <4> HIDE DEF T, t
      <4> QED
        BY <3>2 DEF Max
    <3>4. Max(T) = t
      <4>1. Max(T) >= t /\ t >= Max(T)
        BY <3>2, <3>3
      <4>2. Max(T) \in Nat /\ t \in Nat
        BY <3>1, <3>2, <3>3
      <4> HIDE DEF T, t
      <4> QED
        BY <4>1, <4>2
    <3> QED
      BY <3>1, <3>4
  <2> HIDE DEF low
  <2>2. b \in 0 .. Bucket(MaxDistance)
    BY <1>1, BucketsKeepOrder
  <2>3. c \in codes
    <3>1. low(c) <= distance /\ distance <= LastDistance(c) /\ low(c) \in Nat \ {0} /\ LastDistance(c) \in Nat
      BY <1>1, <1>2, <1>4, <2>1, SMTT(40)
    <3>2. low(c) <= LastDistance(c)
      BY <1>1, <3>1
    <3>3. Bucket(low(c)) \in Nat /\ b \in Nat /\ Bucket(LastDistance(c)) \in Nat
          /\ Bucket(low(c)) <= b /\ b <= Bucket(LastDistance(c))
      BY <1>1, <3>1, BucketsKeepOrder
    <3> HIDE DEF b
    <3> QED
      BY <1>2, <3>2, <3>3
  <2>4. ASSUME NEW k \in codes PROVE k = c
    <3>1. k \in DistanceCodes /\ low(k) <= LastDistance(k) /\ b \in Bucket(low(k)) .. Bucket(LastDistance(k))
      OBVIOUS
    <3> HIDE DEF codes
    <3>2. b \in Nat
      BY <1>1, BucketsKeepOrder
    <3>3. /\ k \in Int /\ c \in Int /\ DistBase[k + 1] \in Nat \ {0} /\ DistBase[c + 1] \in Nat \ {0}
          /\ LastDistance(k) \in Nat \ {0} /\ low(k) \in Nat \ {0}
      BY <1>1, <1>2, <2>1, <3>1
    <3>4. CASE k < c
      <4>1. LastDistance(k) < DistBase[c + 1]
        <5>1. c \in k + 1 .. Len(DistBase) - 1 /\ k \in 0 .. Len(DistBase) - 1
          BY <1>1, <1>2, <3>1, <3>4
        <5>2. LastDistances[k] < DistBase[c + 1]
          BY <1>1, <5>1, RangesFollow
        <5> QED
          BY <1>1, <3>1, <5>2
      <4>2. Direct < LastDistance(k)
        BY <1>1, <2>1, <3>1, <3>3, SMTT(40)
      <4>3. DistBase[c + 1] > Direct
        <5>1. Direct \in Nat
          BY TablesAssumption
        <5> QED
          BY <3>3, <4>1, <4>2, <5>1
      <4>4. (DistBase[c + 1] - 1) % BucketSize = 0
        BY <1>2, <4>3, TablesAssumption
      <4>5. Bucket(LastDistance(k)) < Bucket(DistBase[c + 1])
        BY <3>3, <4>1, <4>4, BucketsBegin
      <4>6. Bucket(DistBase[c + 1]) <= b /\ Bucket(DistBase[c + 1]) \in Nat
        BY <1>1, <1>2, <3>3, BucketsKeepOrder
      <4>7. Bucket(LastDistance(k)) \in Nat /\ Bucket(low(k)) \in Nat
        BY <3>1, <3>3, BucketsKeepOrder
      <4> HIDE DEF b
      <4> QED
        BY <3>1, <3>2, <4>5, <4>6, <4>7
    <3>5. CASE c < k
      <4>1. LastDistance(c) < DistBase[k + 1]
        <5>1. k \in c + 1 .. Len(DistBase) - 1 /\ c \in 0 .. Len(DistBase) - 1
          BY <1>1, <1>2, <3>1, <3>5
        <5>2. LastDistances[c] < DistBase[k + 1]
          BY <1>1, <5>1, RangesFollow
        <5> QED
          BY <1>1, <1>2, <5>2
      <4>2. distance < DistBase[k + 1] /\ DistBase[k + 1] > Direct
        BY <1>1, <1>2, <1>4, <3>3, <4>1, SMTT(40)
      <4>3. low(k) = DistBase[k + 1]
        BY <1>1, <2>1, <3>1, <3>3, <4>2
      <4>4. (DistBase[k + 1] - 1) % BucketSize = 0
        BY <3>1, <4>2, TablesAssumption
      <4>5. b < Bucket(DistBase[k + 1])
        BY <1>1, <3>3, <4>2, <4>4, BucketsBegin
      <4>6. Bucket(DistBase[k + 1]) \in Nat /\ Bucket(LastDistance(k)) \in Nat
        BY <3>1, <3>3, <4>3, BucketsKeepOrder
      <4> HIDE DEF b
      <4> QED
        BY <3>1, <3>2, <4>3, <4>5, <4>6
    <3> QED
      BY <3>3, <3>4, <3>5
  <2>5. codes = {c} /\ c \in Int
    <3>1. c \in Int
      BY <1>1, <1>2
    <3> HIDE DEF codes
    <3> QED
      BY <2>3, <2>4, <3>1
  <2>6. DistHigh[b] = Entry(codes)
    <3> HIDE DEF b
    <3> QED
      BY <2>2 DEF DistHigh, low
  <2>7. Entry(codes) = c
    <3> HIDE DEF codes
    <3> QED
      BY <2>5, EntryIs
  <2> QED
    BY <1>2, <1>4, <2>6, <2>7 DEF c
<1> QED
  BY <1>3, <1>4

\* Every length is put together again.
LEMMA LengthsAreJoined == LengthsJoin
<1> SUFFICES ASSUME NEW length \in MinMatch .. MaxMatch
             PROVE  /\ LengthStart(SplitLength(length).symbol) + SplitLength(length).extraValue = length
                    /\ SplitLength(length).extraValue \in 0 .. 2 ^ SplitLength(length).extraBits - 1
                    /\ SplitLength(length).extraBits = LengthExtraBits(SplitLength(length).symbol)
                    /\ SplitLength(length).symbol - FirstLengthSymbol = LastBegun(LengthBase, length)
  BY DEF LengthsJoin
<1> DEFINE c == LastBegun(LengthBase, length)
           base == LengthBase[c + 1]
           extra == LengthExtra[c + 1]
<1>1. c \in LengthCodes /\ base <= length /\ length <= LastLength(c)
  BY LengthCodeIs
<1>2. SplitLength(length) = [symbol |-> FirstLengthSymbol + c, extraBits |-> extra, extraValue |-> length - base]
  BY LengthCodeIs DEF SplitLength, Split
<1>3. /\ base \in Nat /\ length \in Nat /\ LastLength(c) \in Nat /\ c \in Nat
      /\ FirstLengthSymbol \in Nat /\ (FirstLengthSymbol + c) - FirstLengthSymbol = c
      /\ LastLength(c) - base \in 0 .. 2 ^ extra - 1
  <2>1. LengthBase \in Seq(Nat \ {0}) /\ MaxMatch \in Nat /\ Len(LengthBase) \in Nat \ {0}
    BY TablesAre DEF Ranges
  <2>2. c + 1 \in 1 .. Len(LengthBase) /\ LengthBase[1] \in Nat
    BY <1>1, <2>1 DEF LengthCodes
  <2>3. LastLengths[c] = LastLength(c) /\ LastLengths[c] \in Nat
    BY <1>1, TablesAre DEF Ranges, LastLengths, LengthCodes
  <2> HIDE DEF c
  <2> QED
    BY <1>1, <2>1, <2>2, <2>3, TablesAre, TablesAssumption DEF LengthCodes, MinMatch
<1> HIDE DEF c
<1>4. length - base \in 0 .. 2 ^ extra - 1 /\ base + (length - base) = length
  <2>1. 2 ^ extra \in Int
    <3>1. LengthExtra \in Seq(Nat) /\ Len(LengthExtra) = Len(LengthBase) /\ Len(LengthExtra) \in Nat
      BY TablesAssumption DEF AreRanges
    <3>2. c + 1 \in 1 .. Len(LengthBase)
      BY <1>1, <1>3, <3>1 DEF LengthCodes
    <3>3. extra \in Nat
      BY <3>1, <3>2
    <3> HIDE DEF extra
    <3> QED
      BY <3>3
  <2> HIDE DEF base, extra
  <2> QED
    BY <1>1, <1>3, <2>1, WithinRange
<1>5. LengthStart(FirstLengthSymbol + c) = base /\ LengthExtraBits(FirstLengthSymbol + c) = extra
  BY <1>3 DEF LengthStart, LengthExtraBits
<1> QED
  BY <1>2, <1>3, <1>4, <1>5 DEF c

\* So is every distance.
LEMMA DistancesAreJoined == DistancesJoin
<1> SUFFICES ASSUME NEW distance \in 1 .. MaxDistance
             PROVE  /\ DistanceStart(SplitDistance(distance).symbol) + SplitDistance(distance).extraValue = distance
                    /\ SplitDistance(distance).extraValue \in 0 .. 2 ^ SplitDistance(distance).extraBits - 1
                    /\ SplitDistance(distance).extraBits = DistanceExtraBits(SplitDistance(distance).symbol)
                    /\ SplitDistance(distance).symbol = LastBegun(DistBase, distance)
  BY DEF DistancesJoin
<1> DEFINE c == LastBegun(DistBase, distance)
           base == DistBase[c + 1]
           extra == DistExtra[c + 1]
<1>1. c \in DistanceCodes /\ base <= distance /\ distance <= LastDistance(c)
  BY DistanceCodeIs
<1>2. SplitDistance(distance) = [symbol |-> c, extraBits |-> extra, extraValue |-> distance - base]
  BY DistanceCodeIs DEF SplitDistance, Split
<1>3. /\ base \in Nat /\ distance \in Nat /\ LastDistance(c) \in Nat /\ c \in Nat
      /\ LastDistance(c) - base \in 0 .. 2 ^ extra - 1
  <2>1. DistBase \in Seq(Nat \ {0}) /\ MaxDistance \in Nat /\ Len(DistBase) \in Nat \ {0}
    BY TablesAre DEF Ranges
  <2>2. c + 1 \in 1 .. Len(DistBase)
    BY <1>1, <2>1 DEF DistanceCodes
  <2>3. LastDistances[c] = LastDistance(c) /\ LastDistances[c] \in Nat
    BY <1>1, TablesAre DEF Ranges, LastDistances, DistanceCodes
  <2> HIDE DEF c
  <2> QED
    BY <1>1, <2>1, <2>2, <2>3, TablesAre, TablesAssumption DEF DistanceCodes
<1> HIDE DEF c
<1>4. distance - base \in 0 .. 2 ^ extra - 1 /\ base + (distance - base) = distance
  <2>1. 2 ^ extra \in Int
    <3>1. DistExtra \in Seq(Nat) /\ Len(DistExtra) = Len(DistBase) /\ Len(DistExtra) \in Nat
      BY TablesAssumption DEF AreRanges
    <3>2. c + 1 \in 1 .. Len(DistBase)
      BY <1>1, <1>3, <3>1 DEF DistanceCodes
    <3>3. extra \in Nat
      BY <3>1, <3>2
    <3> HIDE DEF extra
    <3> QED
      BY <3>3
  <2> HIDE DEF base, extra
  <2> QED
    BY <1>1, <1>3, <2>1, WithinRange
<1>5. DistanceStart(c) = base /\ DistanceExtraBits(c) = extra
  BY <1>3 DEF DistanceStart, DistanceExtraBits
<1> QED
  BY <1>2, <1>3, <1>4, <1>5 DEF c

------------------------------------------------------------------------------
\* The theorems

(***************************************************************************)
(* The limiter keeps its running sum and every symbol, and as long as the  *)
(* codes take too much space it has a leaf to push down: its search never  *)
(* runs off the front of the array (huffman.cpp:63-85).                    *)
(***************************************************************************)
THEOREM LimitIsEnforced == Spec => []Inv
<1>1. IInv => Inv
  <2> SUFFICES ASSUME IInv PROVE Inv
    OBVIOUS
  <2>1. TypeOK /\ Limiting
    BY DEF IInv
  <2>2. LeafToPush
    BY <2>1, LeafThere DEF LeafToPush, Limiting
  <2> QED
    BY <2>1, <2>2 DEF Inv
<1> QED
  BY <1>1, Invariance, PTL

(***************************************************************************)
(* For every alphabet, frequencies and limit: exactly the symbols that     *)
(* occur get codes, which fit the space of the limit, as the coders of a   *)
(* block take them to; each fits its length, and none is the beginning of  *)
(* another (huffman.h:52-57, huffman.cpp:53-58, 165-190).                  *)
(***************************************************************************)
THEOREM MakesAPrefixCode == Spec => []PrefixCode
<1>1. IInv => PrefixCode
  <2> SUFFICES ASSUME IInv, pc = "done" PROVE
            /\ lengths \in CodeLengths(Symbols, Present)
            /\ \A s \in Present : CodeValue(lengths, s) < 2 ^ lengths[s]
            /\ \A s \in Present, t \in Present :
                  s # t => ~IsPrefix(Code(lengths, s), Code(lengths, t))
    BY DEF PrefixCode
  <2>1. Coded(lengths) = Present /\ Fits(lengths)
    BY DEF IInv, Assigned
  <2>2. ASSUME NEW s \in Present PROVE CodeValue(lengths, s) < 2 ^ lengths[s]
    <3>1. lengths[s] \in 0 .. MaxCodeLength
      BY <2>1, CodedAre DEF Fits
    <3>2. 2 ^ lengths[s] \in Nat
      BY <3>1, Powers
    <3>3. CodeValue(lengths, s) \in 0 .. 2 ^ lengths[s] - 1
      BY <2>1, CodeFits
    <3> QED
      BY <3>2, <3>3
  <2>3. lengths \in [Symbols -> 0 .. MaxCodeLength]
    BY DEF IInv, TypeOK
  <2>4. lengths \in CodeLengths(Symbols, Present)
    BY <2>1, <2>3, PresentIs, FitsIs
  <2>5. \A s, t \in Present : s # t => ~IsPrefix(Code(lengths, s), Code(lengths, t))
    BY <2>1, NoPrefix
  <2> QED
    BY <2>2, <2>4, <2>5
<1> QED
  BY <1>1, Invariance, PTL

(***************************************************************************)
(* For every alphabet, frequencies and limit, the tree built from the      *)
(* lengths gives back each symbol from its code and takes exactly the bits *)
(* of the code, whatever follows it (huffman.cpp:192-212).                 *)
(***************************************************************************)
THEOREM CodesAreDecoded == Spec => []CodesDecode
<1>1. IInv => CodesDecode
  <2> SUFFICES ASSUME IInv, pc = "done", NEW s \in Present
               PROVE  \A rest \in {<< >>, <<0>>, <<1>>} :
                         DecodeSymbol(lengths, Code(lengths, s) \o rest) = [symbol |-> s, used |-> lengths[s]]
    BY DEF CodesDecode
  <2> TAKE rest \in {<< >>, <<0>>, <<1>>}
  <2>1. Coded(lengths) = Present /\ Fits(lengths)
    BY DEF IInv, Assigned
  <2>2. rest \in Seq(Int)
    <3>1. << >> \in Seq(Int) /\ <<0>> \in Seq(Int) /\ <<1>> \in Seq(Int)
      OBVIOUS
    <3> QED
      BY <3>1
  <2>3. Reads(lengths, s, rest)
    BY <2>1, <2>2, WalkEnds
  <2> QED
    BY <2>3 DEF Reads
<1> QED
  BY <1>1, Invariance, PTL

(***************************************************************************)
(* Every length and every distance that the tables are for is put together *)
(* again from its symbol and its extra bits, whatever the tables, as long  *)
(* as no two ranges share a bucket (deflate.cpp:39-120).                   *)
(***************************************************************************)
THEOREM SplitsAreJoined == LengthsJoin /\ DistancesJoin
BY LengthsAreJoined, DistancesAreJoined

------------------------------------------------------------------------------
\* Arithmetic of powers and remainders

\* Powers multiply as far as they double.
LEMMA PowersOf ==
    ASSUME NEW w \in Nat, PowersDouble(w)
    PROVE  /\ 2 ^ 0 = 1
           /\ \A n \in 0 .. w + 1 : 2 ^ n \in Nat \ {0}
           /\ \A n \in 0 .. w : 2 ^ (n + 1) = 2 * 2 ^ n
           /\ \A m \in 0 .. w + 1 : \A n \in 0 .. w + 1 - m : 2 ^ (m + n) = 2 ^ m * 2 ^ n
<1>1. /\ 2 ^ 0 = 1
      /\ \A n \in 0 .. w : 2 ^ n \in Nat \ {0} /\ 2 ^ (n + 1) = 2 * 2 ^ n
  BY DEF PowersDouble
<1>2. ASSUME NEW n \in 0 .. w + 1 PROVE 2 ^ n \in Nat \ {0}
  <2>1. CASE n <= w
    BY <1>1, <2>1
  <2>2. CASE n = w + 1
    <3>1. 2 ^ w \in Nat \ {0} /\ 2 ^ (w + 1) = 2 * 2 ^ w
      BY <1>1
    <3>2. \A a \in Nat \ {0} : 2 * a \in Nat \ {0}
      OBVIOUS
    <3> QED
      BY <2>2, <3>1, <3>2
  <2> QED
    BY <2>1, <2>2
<1>3. ASSUME NEW m \in 0 .. w + 1, NEW n \in 0 .. w + 1 - m PROVE 2 ^ (m + n) = 2 ^ m * 2 ^ n
  <2> DEFINE S == {k \in 0 .. n : 2 ^ (m + k) = 2 ^ m * 2 ^ k}
  <2>1. n \in Nat /\ m \in Nat /\ 2 ^ m \in Nat
    BY <1>2
  <2>2. 0 \in S
    <3>1. m + 0 = m /\ 2 ^ m * 1 = 2 ^ m
      BY <2>1
    <3> QED
      BY <1>1, <2>1, <3>1
  <2>3. ASSUME NEW k \in 0 .. n - 1, k \in S PROVE k + 1 \in S
    <3>1. m + k \in 0 .. w /\ k \in 0 .. w /\ k + 1 \in 0 .. n /\ m + (k + 1) = (m + k) + 1
      BY <2>1
    <3>2. 2 ^ (k + 1) = 2 * 2 ^ k /\ 2 ^ (m + (k + 1)) = 2 * 2 ^ (m + k) /\ 2 ^ k \in Nat
      BY <1>1, <3>1
    <3>3. 2 ^ (m + k) = 2 ^ m * 2 ^ k
      BY <2>3
    <3>4. \A a \in Nat, b \in Nat : 2 * (a * b) = a * (2 * b)
      OBVIOUS
    <3>5. 2 ^ (m + (k + 1)) = 2 ^ m * 2 ^ (k + 1)
      BY <2>1, <3>2, <3>3, <3>4
    <3> QED
      BY <3>1, <3>5
  <2>4. \A k \in 0 .. n : k \in S
    <3> HIDE DEF S
    <3> QED
      BY <2>1, <2>2, <2>3, CountsUp
  <2> QED
    BY <2>1, <2>4
<1> QED
  BY <1>1, <1>2, <1>3

\* A quotient and what remains are the only ones.
LEMMA RemainderIs ==
    ASSUME NEW x \in Nat, NEW d \in Nat \ {0}, NEW q \in Nat, NEW r \in 0 .. d - 1, x = d * q + r
    PROVE  x % d = r /\ x \div d = q
<1>1. d * q \in Nat
  OBVIOUS
<1>2. x \div d = q
  BY <1>1, QuotientIs
<1>3. x = d * (x \div d) + (x % d) /\ x % d \in 0 .. d - 1
  OBVIOUS
<1> QED
  BY <1>1, <1>2, <1>3

\* Division with remainder.
LEMMA DividesInto ==
    ASSUME NEW x \in Nat, NEW d \in Nat \ {0}
    PROVE  x = d * (x \div d) + (x % d) /\ x \div d \in Nat /\ x % d \in 0 .. d - 1 /\ d * (x \div d) \in Nat
<1>1. x \div d \in Nat
  BY Quotient
<1>2. x = d * (x \div d) + (x % d) /\ x % d \in 0 .. d - 1
  OBVIOUS
<1> QED
  BY <1>1, <1>2

\* Multiples of the divisor change nothing.
LEMMA RemainderOf ==
    ASSUME NEW d \in Nat \ {0}, NEW q \in Nat, NEW y \in Nat
    PROVE  (d * q + y) % d = y % d /\ (d * q + y) \div d = q + y \div d
<1> DEFINE t == y \div d
           r == y % d
<1>1. y = d * t + r /\ t \in Nat /\ r \in 0 .. d - 1
  BY DividesInto, Zenon
<1> HIDE DEF t, r
<1>2. d * q + y = d * (q + t) + r /\ q + t \in Nat /\ d * q + y \in Nat
  BY <1>1
<1>3. (d * q + y) % d = r /\ (d * q + y) \div d = q + t
  BY <1>1, <1>2, RemainderIs
<1> QED
  BY <1>3 DEF t, r

\* What overflowed does not come back.
LEMMA RemainderAbsorbs ==
    ASSUME NEW d \in Nat \ {0}, NEW x \in Nat, NEW a \in Nat, NEW c \in Nat
    PROVE  ((x % d) * a + c) % d = (x * a + c) % d
<1> DEFINE q == x \div d
           r == x % d
<1>1. x = d * q + r /\ q \in Nat /\ r \in 0 .. d - 1
  BY DividesInto, Zenon
<1> HIDE DEF q, r
<1>2. r * a + c \in Nat /\ q * a \in Nat
  BY <1>1
<1>3. x * a + c = d * (q * a) + (r * a + c)
  BY <1>1
<1>4. (d * (q * a) + (r * a + c)) % d = (r * a + c) % d
  BY <1>2, RemainderOf
<1> QED
  BY <1>3, <1>4 DEF r

\* A flag that is the most significant bit left.
LEMMA TopFlag ==
    ASSUME NEW w \in Nat \ {0}, PowersDouble(w), NEW b \in 0 .. 2 ^ w - 1, NEW j \in 0 .. w - 1,
           NEW f, f = (b * 2 ^ j) % 2 ^ w
    PROVE  /\ f \in Nat
           /\ f >= 2 ^ (w - 1) <=> (b \div 2 ^ (w - 1 - j)) % 2 = 1
           /\ (2 * f) % 2 ^ w = (b * 2 ^ (j + 1)) % 2 ^ w
<1> DEFINE P == 2 ^ (w - 1 - j)
           T == 2 ^ j
<1>1. P \in Nat \ {0} /\ T \in Nat \ {0} /\ 2 ^ (w - 1) = P * T /\ 2 ^ w = 2 * (P * T) /\ 2 ^ (j + 1) = 2 * T
      /\ 2 ^ w \in Nat \ {0}
  <2>1. /\ w - 1 - j \in 0 .. w + 1 /\ j \in 0 .. w + 1 - (w - 1 - j) /\ (w - 1 - j) + j = w - 1
        /\ w - 1 \in 0 .. w /\ (w - 1) + 1 = w /\ j \in 0 .. w /\ w \in 0 .. w + 1 /\ w \in Nat
    OBVIOUS
  <2> QED
    BY <2>1, PowersOf
<1>2. b \in Nat
  BY <1>1
<1> HIDE DEF P, T
<1> DEFINE D == 2 * P
           q == b \div D
           r == b % D
           h == b \div P
<1>3. D \in Nat \ {0} /\ b = D * q + r /\ q \in Nat /\ r \in 0 .. D - 1
  <2>1. D \in Nat \ {0}
    BY <1>1
  <2> HIDE DEF D
  <2> QED
    BY <1>2, <2>1, DividesInto, Zenon
<1>4. h \in Nat /\ P * h <= b /\ b < P * h + P
  BY <1>1, <1>2, Quotient
<1>5. h \div 2 = q
  BY <1>1, <1>2, Halved, Zenon
<1>6. h = 2 * q + (h % 2) /\ h % 2 \in 0 .. 1
  BY <1>4, <1>5, LastBit
<1> HIDE DEF q, r, h
<1>7. f = r * T
  <2>1. b * T = (D * T) * q + r * T
    BY <1>1, <1>3
  <2>2. D * T = 2 ^ w
    BY <1>1
  <2>3. r * T \in 0 .. 2 ^ w - 1
    <3>1. (r + 1) * T <= D * T
      BY <1>1, <1>3, Product
    <3>2. (r + 1) * T = r * T + T /\ r * T \in Nat
      BY <1>1, <1>3
    <3> QED
      BY <1>1, <2>2, <3>1, <3>2
  <2>4. b * T \in Nat
    BY <1>1, <1>2
  <2> HIDE DEF D
  <2>5. b * T = 2 ^ w * q + r * T
    BY <2>1, <2>2
  <2>6. (b * T) % 2 ^ w = r * T
    <3> DEFINE x == b * T
               y == r * T
               W == 2 ^ w
    <3>1. x \in Nat /\ W \in Nat \ {0} /\ y \in 0 .. W - 1 /\ x = W * q + y /\ q \in Nat
      BY <1>1, <1>3, <2>3, <2>4, <2>5
    <3> HIDE DEF x, y, W
    <3>2. x % W = y
      BY <3>1, RemainderIs
    <3> QED
      BY <3>2 DEF x, y, W
  <2> QED
    BY <2>6 DEF T
<1>8. r * T >= P * T <=> r >= P
  <2>1. ASSUME r >= P PROVE r * T >= P * T
    <3>1. P * T <= r * T
      BY <1>1, <1>3, <2>1, Product
    <3>2. r * T \in Nat /\ P * T \in Nat
      BY <1>1, <1>3
    <3> QED
      BY <3>1, <3>2
  <2>2. ASSUME ~(r >= P) PROVE ~(r * T >= P * T)
    <3>1. r + 1 <= P
      BY <1>1, <1>3, <2>2
    <3>2. (r + 1) * T <= P * T
      BY <1>1, <1>3, <3>1, Product
    <3>3. (r + 1) * T = r * T + T /\ r * T \in Nat /\ P * T \in Nat
      BY <1>1, <1>3
    <3> QED
      BY <1>1, <3>2, <3>3
  <2> QED
    BY <2>1, <2>2
<1>9. r >= P <=> h % 2 = 1
  <2>1. D * q = 2 * (P * q) /\ P * q \in Nat
    BY <1>1, <1>3
  <2>2. ASSUME h % 2 = 1 PROVE r >= P
    <3>1. P * h = 2 * (P * q) + P
      <4>1. h = 2 * q + 1
        BY <1>6, <2>2
      <4> QED
        BY <1>1, <1>3, <4>1
    <3> QED
      BY <1>1, <1>2, <1>3, <1>4, <2>1, <3>1
  <2>3. ASSUME h % 2 = 0 PROVE r < P
    <3>1. P * h = 2 * (P * q)
      <4>1. h = 2 * q
        BY <1>3, <1>6, <2>3
      <4> QED
        BY <1>1, <1>3, <4>1
    <3> QED
      BY <1>1, <1>2, <1>3, <1>4, <2>1, <3>1
  <2>4. h % 2 = 0 \/ h % 2 = 1
    BY <1>6
  <2> QED
    BY <1>1, <1>3, <2>2, <2>3, <2>4
<1>10. (2 * f) % 2 ^ w = (b * 2 ^ (j + 1)) % 2 ^ w
  <2>1. b * T \in Nat /\ f = (b * T) % 2 ^ w
    BY <1>1, <1>2 DEF T
  <2>2. (((b * T) % 2 ^ w) * 2 + 0) % 2 ^ w = ((b * T) * 2 + 0) % 2 ^ w
    <3> DEFINE x == b * T
               W == 2 ^ w
               two == 2
               none == 0
    <3>1. x \in Nat /\ W \in Nat \ {0} /\ two \in Nat /\ none \in Nat
      BY <1>1, <2>1
    <3> HIDE DEF x, W, two, none
    <3>2. ((x % W) * two + none) % W = (x * two + none) % W
      BY <3>1, RemainderAbsorbs, ZenonT(80)
    <3> QED
      BY <3>2 DEF x, W, two, none
  <2>3. f * 2 + 0 = 2 * f /\ (b * T) * 2 + 0 = b * (2 * T)
    BY <1>1, <1>2, <1>3, <1>7
  <2> QED
    BY <1>1, <2>1, <2>2, <2>3
<1>11. f \in Nat
  BY <1>1, <1>3, <1>7
<1> QED
  BY <1>1, <1>7, <1>8, <1>9, <1>10, <1>11 DEF P, h

------------------------------------------------------------------------------
\* What tokens cover

TokenRecords == [distance : Nat, length : Nat, literal : Nat]

\* What a token stands for is a number of bytes.
LEMMA WidthIs ==
    ASSUME NEW t \in TokenRecords
    PROVE  Width(t) \in Nat /\ IsMatch(t) \in BOOLEAN
BY DEF Width, IsMatch, TokenRecords

\* What the first tokens of a list cover, one token after the other.
LEMMA CoveredIs ==
    ASSUME NEW parse \in Seq(TokenRecords)
    PROVE  /\ CoveredBy(parse, 0) = 0
           /\ \A k \in 0 .. Len(parse) : CoveredBy(parse, k) \in Nat
           /\ \A k \in 1 .. Len(parse) : CoveredBy(parse, k) = CoveredBy(parse, k - 1) + Width(parse[k])
           /\ Covered(parse) = CoveredBy(parse, Len(parse)) /\ Covered(parse) \in Nat
<1> DEFINE term == [k \in DOMAIN parse |-> Width(parse[k])]
<1>1. Len(parse) \in Nat /\ DOMAIN parse = 1 .. Len(parse) /\ \A k \in 1 .. Len(parse) : parse[k] \in TokenRecords
  OBVIOUS
<1>2. \A k \in 1 .. Len(parse) : term[k] = Width(parse[k]) /\ term[k] \in Nat
  BY <1>1, WidthIs
<1>3. \A k : CoveredBy(parse, k) = SumUpTo(term, k)
  BY DEF CoveredBy
<1> HIDE DEF term
<1>4. /\ SumUpTo(term, 0) = 0
      /\ \A k \in 0 .. Len(parse) : SumUpTo(term, k) \in Nat
      /\ \A k \in 1 .. Len(parse) : SumUpTo(term, k) = SumUpTo(term, k - 1) + term[k]
  BY <1>1, <1>2, SumIs, Zenon
<1>5. Covered(parse) = CoveredBy(parse, Len(parse))
  BY DEF Covered
<1>6. Len(parse) \in 0 .. Len(parse)
  BY <1>1
<1> QED
  BY <1>2, <1>3, <1>4, <1>5, <1>6

\* What begins in the same way covers the same.
LEMMA CoveredAgrees ==
    ASSUME NEW parse \in Seq(TokenRecords), NEW p \in Seq(TokenRecords),
           NEW n \in 0 .. Len(parse), n <= Len(p), \A k \in 1 .. n : p[k] = parse[k]
    PROVE  \A k \in 0 .. n : CoveredBy(p, k) = CoveredBy(parse, k)
<1> DEFINE S == {k \in 0 .. n : CoveredBy(p, k) = CoveredBy(parse, k)}
<1>1. Len(parse) \in Nat /\ Len(p) \in Nat /\ n \in Nat
  OBVIOUS
<1>2. 0 \in S
  BY <1>1, CoveredIs
<1>3. ASSUME NEW k \in 0 .. n - 1, k \in S PROVE k + 1 \in S
  <2>1. k + 1 \in 1 .. n /\ k + 1 \in 1 .. Len(parse) /\ k + 1 \in 1 .. Len(p) /\ (k + 1) - 1 = k
    BY <1>1
  <2>2. CoveredBy(p, k) = CoveredBy(parse, k)
    BY <1>3
  <2>3. /\ CoveredBy(p, k + 1) = CoveredBy(p, k) + Width(p[k + 1])
        /\ CoveredBy(parse, k + 1) = CoveredBy(parse, k) + Width(parse[k + 1])
    BY <2>1, CoveredIs
  <2> QED
    BY <2>1, <2>2, <2>3
<1>4. \A k \in 0 .. n : k \in S
  <2> HIDE DEF S
  <2> QED
    BY <1>1, <1>2, <1>3, CountsUp, Zenon
<1> QED
  BY <1>4

\* More tokens cover more.
LEMMA CoveredGrows ==
    ASSUME NEW parse \in Seq(TokenRecords), NEW m \in 0 .. Len(parse), NEW n \in m .. Len(parse)
    PROVE  CoveredBy(parse, m) <= CoveredBy(parse, n)
<1> DEFINE S == {k \in 0 .. n - m : CoveredBy(parse, m) <= CoveredBy(parse, m + k)}
<1>1. Len(parse) \in Nat /\ m \in Nat /\ n - m \in Nat
  OBVIOUS
<1>2. 0 \in S
  <2>1. m + 0 = m /\ CoveredBy(parse, m) \in Nat
    BY <1>1, CoveredIs
  <2> QED
    BY <1>1, <2>1
<1>3. ASSUME NEW k \in 0 .. (n - m) - 1, k \in S PROVE k + 1 \in S
  <2>1. m + (k + 1) \in 1 .. Len(parse) /\ (m + (k + 1)) - 1 = m + k /\ m + k \in 0 .. Len(parse)
    BY <1>1
  <2>2. CoveredBy(parse, m + (k + 1)) = CoveredBy(parse, m + k) + Width(parse[m + (k + 1)])
    BY <2>1, CoveredIs
  <2>3. CoveredBy(parse, m) \in Nat /\ CoveredBy(parse, m + k) \in Nat /\ Width(parse[m + (k + 1)]) \in Nat
    BY <2>1, CoveredIs, WidthIs
  <2> QED
    BY <1>3, <2>2, <2>3
<1>4. \A k \in 0 .. n - m : k \in S
  <2> HIDE DEF S
  <2> QED
    BY <1>1, <1>2, <1>3, CountsUp, Zenon
<1>5. n - m \in S /\ m + (n - m) = n
  <2>1. n - m \in 0 .. n - m /\ m + (n - m) = n
    BY <1>1
  <2> HIDE DEF S
  <2> QED
    BY <1>4, <2>1
<1> QED
  BY <1>5

\* A token more.
LEMMA AppendCovers ==
    ASSUME NEW parse \in Seq(TokenRecords), NEW t \in TokenRecords
    PROVE  /\ Append(parse, t) \in Seq(TokenRecords)
           /\ Len(Append(parse, t)) = Len(parse) + 1
           /\ Append(parse, t)[Len(parse) + 1] = t
           /\ \A k \in 1 .. Len(parse) : Append(parse, t)[k] = parse[k]
           /\ Covered(Append(parse, t)) = Covered(parse) + Width(t)
           /\ \A reach \in Nat :
                 WithinReach(parse, reach) /\ t.distance <= reach /\ t.distance <= Covered(parse)
                    => WithinReach(Append(parse, t), reach)
<1> DEFINE p == Append(parse, t)
<1>1. /\ p \in Seq(TokenRecords) /\ Len(p) = Len(parse) + 1 /\ p[Len(parse) + 1] = t
      /\ \A k \in 1 .. Len(parse) : p[k] = parse[k]
      /\ Len(parse) \in Nat
  OBVIOUS
<1> HIDE DEF p
<1>2. Len(parse) \in 0 .. Len(parse) /\ Len(parse) <= Len(p)
  BY <1>1
<1>3. \A k \in 0 .. Len(parse) : CoveredBy(p, k) = CoveredBy(parse, k)
  BY <1>1, <1>2, CoveredAgrees, Zenon
<1>4. CoveredBy(p, Len(p)) = CoveredBy(p, Len(parse)) + Width(t)
  <2>1. Len(p) \in 1 .. Len(p) /\ Len(p) - 1 = Len(parse)
    BY <1>1
  <2>2. CoveredBy(p, Len(p)) = CoveredBy(p, Len(p) - 1) + Width(p[Len(p)])
    BY <1>1, <2>1, CoveredIs, Zenon
  <2> QED
    BY <1>1, <2>1, <2>2
<1>5. Covered(p) = Covered(parse) + Width(t)
  BY <1>2, <1>3, <1>4 DEF Covered
<1>6. ASSUME NEW reach \in Nat, WithinReach(parse, reach), t.distance <= reach, t.distance <= Covered(parse)
      PROVE  WithinReach(p, reach)
  <2> SUFFICES ASSUME NEW k \in DOMAIN p PROVE p[k].distance <= reach /\ p[k].distance <= CoveredBy(p, k - 1)
    BY DEF WithinReach
  <2>1. k \in 1 .. Len(parse) \/ k = Len(parse) + 1
    <3>1. DOMAIN p = 1 .. Len(parse) + 1
      BY <1>1
    <3> QED
      BY <1>1, <3>1
  <2>2. CASE k \in 1 .. Len(parse)
    <3>1. k \in DOMAIN parse /\ k - 1 \in 0 .. Len(parse) /\ p[k] = parse[k]
      BY <1>1, <2>2
    <3> QED
      BY <1>3, <1>6, <3>1 DEF WithinReach
  <2>3. CASE k = Len(parse) + 1
    <3>1. k - 1 = Len(parse) /\ p[k] = t
      BY <1>1, <2>3
    <3> QED
      BY <1>2, <1>3, <1>6, <3>1 DEF Covered
  <2> QED
    BY <2>1, <2>2, <2>3
<1> QED
  BY <1>1, <1>5, <1>6 DEF p

------------------------------------------------------------------------------
\* Bytes

\* Widths, and what the powers of the bits of a byte are.
LEMMA ByteIs ==
    /\ ByteBits \in Nat \ {0} /\ ByteBits \in 0 .. 2 * ByteBits
    /\ PowersDouble(2 * ByteBits) /\ PowersDouble(ByteBits)
    /\ 2 ^ ByteBits \in Nat \ {0}
    /\ 2 ^ (2 * ByteBits) = 2 ^ ByteBits * 2 ^ ByteBits
    /\ Byte = 0 .. 2 ^ ByteBits - 1 /\ Byte \subseteq Nat /\ 0 \in Byte
<1>1. ByteBits \in Nat \ {0} /\ PowersDouble(2 * ByteBits)
  BY BitIOAssumption
<1>2. ByteBits \in 0 .. 2 * ByteBits /\ 2 * ByteBits \in Nat /\ 0 .. ByteBits \subseteq 0 .. 2 * ByteBits
  BY <1>1
<1>3. PowersDouble(ByteBits)
  BY <1>1, <1>2 DEF PowersDouble
<1>4. 2 ^ ByteBits \in Nat \ {0} /\ 2 ^ (2 * ByteBits) = 2 ^ ByteBits * 2 ^ ByteBits
  <2>1. ByteBits \in 0 .. 2 * ByteBits + 1 /\ ByteBits \in 0 .. 2 * ByteBits + 1 - ByteBits
        /\ ByteBits + ByteBits = 2 * ByteBits
    BY <1>1
  <2> QED
    BY <1>1, <1>2, <2>1, PowersOf
<1> QED
  BY <1>1, <1>2, <1>3, <1>4 DEF Byte

\* Three elements of a sequence, taken out.
LEMMA Three ==
    ASSUME NEW S, NEW bytes \in Seq(S), NEW e \in 3 .. Len(bytes)
    PROVE  SubSeq(bytes, e - 2, e) = <<bytes[e - 2], bytes[e - 1], bytes[e]>>
<1> DEFINE a == SubSeq(bytes, e - 2, e)
           b == <<bytes[e - 2], bytes[e - 1], bytes[e]>>
<1>1. a \in Seq(S) /\ Len(a) = 3 /\ a[1] = bytes[e - 2] /\ a[2] = bytes[e - 1] /\ a[3] = bytes[e]
  OBVIOUS
<1>2. b \in Seq(S) /\ Len(b) = 3 /\ b[1] = bytes[e - 2] /\ b[2] = bytes[e - 1] /\ b[3] = bytes[e]
  OBVIOUS
<1> HIDE DEF a, b
<1>3. \A k \in 1 .. 3 : a[k] = b[k]
  BY <1>1, <1>2
<1>4. a = b
  BY <1>1, <1>2, <1>3, SeqEqual, Zenon
<1> QED
  BY <1>4 DEF a, b

\* One element of a sequence, taken out.
LEMMA One ==
    ASSUME NEW S, NEW bytes \in Seq(S), NEW e \in 1 .. Len(bytes)
    PROVE  SubSeq(bytes, e, e) = <<bytes[e]>>
<1> DEFINE a == SubSeq(bytes, e, e)
           b == <<bytes[e]>>
<1>1. a \in Seq(S) /\ Len(a) = 1 /\ a[1] = bytes[e]
  OBVIOUS
<1>2. b \in Seq(S) /\ Len(b) = 1 /\ b[1] = bytes[e]
  OBVIOUS
<1> HIDE DEF a, b
<1>3. \A k \in 1 .. 1 : a[k] = b[k]
  BY <1>1, <1>2
<1>4. a = b
  BY <1>1, <1>2, <1>3, SeqEqual
<1> QED
  BY <1>4 DEF a, b

\* Two bytes of a number.
LEMMA TwoBytes ==
    ASSUME NEW a \in Byte, NEW b \in Byte
    PROVE  /\ a + b * 2 ^ ByteBits \in 0 .. 2 ^ (2 * ByteBits) - 1
           /\ (a + b * 2 ^ ByteBits) % 2 ^ ByteBits = a
           /\ (a + b * 2 ^ ByteBits) \div 2 ^ ByteBits = b
<1> DEFINE W == 2 ^ ByteBits
<1>1. W \in Nat \ {0} /\ 2 ^ (2 * ByteBits) = W * W /\ a \in 0 .. W - 1 /\ b \in 0 .. W - 1
  BY ByteIs
<1> HIDE DEF W
<1>2. a + b * W = W * b + a /\ b * W \in Nat
  BY <1>1
<1>3. (b + 1) * W <= W * W /\ (b + 1) * W = b * W + W /\ W * W \in Nat
  BY <1>1, Product
<1>4. (a + b * W) % W = a /\ (a + b * W) \div W = b
  BY <1>1, <1>2, RemainderIs
<1>5. a + b * W \in 0 .. W * W - 1
  BY <1>1, <1>2, <1>3
<1> QED
  BY <1>1, <1>4, <1>5 DEF W

\* Dividing twice.
LEMMA DivNested ==
    ASSUME NEW x \in Nat, NEW a \in Nat \ {0}, NEW b \in Nat \ {0}
    PROVE  x \div (a * b) = (x \div a) \div b
<1> DEFINE q == x \div a
           r == x % a
           s == q \div b
           t == q % b
<1>1. x = a * q + r /\ q \in Nat /\ r \in 0 .. a - 1
  BY DividesInto, Zenon
<1> HIDE DEF q, r
<1>2. q = b * s + t /\ s \in Nat /\ t \in 0 .. b - 1
  BY <1>1, DividesInto, Zenon
<1> HIDE DEF s, t
<1>3. a * b \in Nat \ {0}
  OBVIOUS
<1>4. a * q = a * (b * s) + a * t /\ a * (b * s) = (a * b) * s
  BY <1>2
<1>5. (t + 1) * a <= b * a /\ (t + 1) * a = a * t + a /\ b * a = a * b
  <2>1. t + 1 <= b /\ t + 1 \in Int /\ b \in Int
    BY <1>2
  <2>2. (t + 1) * a <= b * a
    BY <2>1, Product
  <2> QED
    BY <1>2, <2>2
<1> DEFINE ab == a * b
           at1 == a * t
           abs == ab * s
<1>6. x = abs + (at1 + r) /\ at1 + a <= ab /\ at1 \in Nat /\ abs \in Nat
  <2>1. x = (a * b) * s + a * t + r
    BY <1>1, <1>4
  <2>2. a * t \in Nat /\ (a * b) * s \in Nat
    BY <1>2
  <2>3. a * t + a <= a * b
    BY <1>5
  <2>4. at1 \in Nat /\ abs \in Nat /\ at1 + a <= ab /\ x = abs + at1 + r
    BY <2>1, <2>2, <2>3
  <2> HIDE DEF ab, at1, abs
  <2> QED
    BY <1>1, <2>4
<1>7. at1 + r \in 0 .. ab - 1 /\ ab \in Nat \ {0}
  <2>1. ab \in Nat \ {0}
    BY <1>3
  <2> HIDE DEF ab, at1, abs
  <2> QED
    BY <1>1, <1>6, <2>1
<1>8. x \div ab = s
  <2> DEFINE y == at1 + r
  <2>1. x = ab * s + y /\ y \in 0 .. ab - 1
    BY <1>6, <1>7
  <2> HIDE DEF ab, y
  <2> QED
    BY <1>2, <1>7, <2>1, RemainderIs
<1> QED
  BY <1>8 DEF ab, s, q

\* Less than the room that a sum leaves does not fill it.
LEMMA LeavesRoom ==
    ASSUME NEW f \in Nat, NEW y \in Nat, NEW d \in Nat, NEW w \in Nat, f + d <= w, y < d
    PROVE  f \in 0 .. w - 1 /\ f + y \in 0 .. w - 1
  OBVIOUS

\* A flag more: those of the tokens before stay as they are.
LEMMA FlagBits ==
    ASSUME NEW j \in 0 .. ByteBits - 1, NEW g \in 0 .. 2 ^ j - 1, NEW c \in 0 .. 1,
           NEW F, F = g * 2 ^ (ByteBits - j), NEW G, G = F + c * 2 ^ (ByteBits - 1 - j)
    PROVE  /\ F \in Byte /\ G \in Byte
           /\ \E h \in 0 .. 2 ^ (j + 1) - 1 : G = h * 2 ^ (ByteBits - (j + 1))
           /\ (G \div 2 ^ (ByteBits - 1 - j)) % 2 = c
           /\ \A e \in ByteBits - j .. ByteBits - 1 : G \div 2 ^ e = F \div 2 ^ e
<1> DEFINE B == ByteBits
           P == 2 ^ (B - 1 - j)
           D == 2 ^ (B - j)
           T == 2 ^ j
           W == 2 ^ B
<1>1. B \in Nat \ {0} /\ PowersDouble(B) /\ W \in Nat \ {0} /\ Byte = 0 .. W - 1
  BY ByteIs
<1>2. /\ P \in Nat \ {0} /\ T \in Nat \ {0} /\ D = 2 * P /\ W = T * D /\ 2 ^ (j + 1) = 2 * T
  <2>1. B - 1 - j \in 0 .. B /\ j \in 0 .. B /\ (B - 1 - j) + 1 = B - j /\ B - j \in 0 .. B + 1 - j /\ j + (B - j) = B
        /\ B \in Nat /\ B - 1 - j \in 0 .. B + 1 /\ j \in 0 .. B + 1
    BY <1>1
  <2>2. /\ \A n \in 0 .. B + 1 : 2 ^ n \in Nat \ {0}
        /\ \A n \in 0 .. B : 2 ^ (n + 1) = 2 * 2 ^ n
        /\ \A m \in 0 .. B + 1 : \A n \in 0 .. B + 1 - m : 2 ^ (m + n) = 2 ^ m * 2 ^ n
    BY <1>1, <2>1, PowersOf
  <2> HIDE DEF B
  <2>3. P \in Nat \ {0} /\ T \in Nat \ {0}
    BY <2>1, <2>2
  <2>4. 2 ^ ((B - 1 - j) + 1) = 2 * P
    BY <2>1, <2>2
  <2>5. 2 ^ (j + (B - j)) = T * D
    BY <2>1, <2>2
  <2>6. 2 ^ (j + 1) = 2 * T
    BY <2>1, <2>2
  <2> QED
    BY <2>1, <2>3, <2>4, <2>5, <2>6
<1>3. F = g * D /\ G = F + c * P
  OBVIOUS
<1>4. j + 1 \in Nat /\ B - (j + 1) = B - 1 - j
  BY <1>1
<1>5. ASSUME NEW e \in B - j .. B - 1 PROVE \E R \in Nat \ {0} : 2 ^ e = D * R
  <2>1. e - (B - j) \in 0 .. B + 1 - (B - j) /\ B - j \in 0 .. B + 1 /\ (B - j) + (e - (B - j)) = e /\ B \in Nat
        /\ e - (B - j) \in 0 .. B + 1
    BY <1>1
  <2>2. /\ \A n \in 0 .. B + 1 : 2 ^ n \in Nat \ {0}
        /\ \A m \in 0 .. B + 1 : \A n \in 0 .. B + 1 - m : 2 ^ (m + n) = 2 ^ m * 2 ^ n
    BY <1>1, <2>1, PowersOf
  <2> DEFINE x == e - (B - j)
             m == B - j
  <2>3. 2 ^ (m + x) = 2 ^ m * 2 ^ x /\ 2 ^ x \in Nat \ {0}
    BY <2>1, <2>2
  <2>4. 2 ^ e = D * 2 ^ x
    BY <2>1, <2>3
  <2> QED
    BY <2>3, <2>4
<1> HIDE DEF B, P, D, T, W
<1>6. g \in 0 .. T - 1 /\ g \in Nat
  BY <1>2 DEF T
<1>7. F = 2 * (g * P) /\ g * P \in Nat /\ F \in Nat /\ G \in Nat
  BY <1>2, <1>3, <1>6
<1>8. F + D <= W /\ F \in Byte /\ G \in Byte
  <2>1. (g + 1) * D <= T * D /\ (g + 1) * D = g * D + D
    BY <1>2, <1>6, Product
  <2>2. F + D <= W
    BY <1>2, <1>3, <2>1
  <2>3. c * P \in Nat /\ c * P < D
    BY <1>2
  <2>4. D \in Nat \ {0}
    BY <1>2
  <2> DEFINE y == c * P
  <2>5. y \in Nat /\ y < D /\ G = F + y
    BY <1>3, <2>3
  <2> HIDE DEF y
  <2>6. D \in Nat /\ W \in Nat /\ F \in Nat
    BY <1>1, <1>7, <2>4, Zenon
  <2>7. F \in 0 .. W - 1 /\ F + y \in 0 .. W - 1
    BY <2>2, <2>5, <2>6, LeavesRoom, Zenon
  <2> QED
    BY <1>1, <2>2, <2>5, <2>7, Zenon
<1>9. G = (2 * g + c) * P /\ 2 * g + c \in 0 .. 2 * T - 1
  <2>1. (2 * g + c) * P = 2 * (g * P) + c * P
    BY <1>2, <1>6
  <2>2. 2 * g + c \in 0 .. 2 * T - 1
    BY <1>2, <1>6
  <2> QED
    BY <1>3, <1>7, <2>1, <2>2
<1>10. G \div P = 2 * g + c
  <2> DEFINE h == 2 * g + c
  <2>1. G = P * h + 0 /\ h \in Nat /\ 0 \in 0 .. P - 1
    BY <1>2, <1>6, <1>9
  <2> HIDE DEF h
  <2>2. G \div P = h
    BY <1>2, <1>7, <2>1, RemainderIs
  <2> QED
    BY <2>2 DEF h
<1>11. (G \div P) % 2 = c
  <2>1. 2 * g + c \in Nat /\ 2 \in Nat \ {0} /\ c \in 0 .. 2 - 1
    BY <1>6
  <2>2. (2 * g + c) % 2 = c
    BY <1>6, <2>1, RemainderIs
  <2> QED
    BY <1>10, <2>2
<1>12. G \div D = g /\ F \div D = g
  <2> DEFINE y == c * P
             z == 0
  <2>1. y \in 0 .. D - 1 /\ z \in 0 .. D - 1 /\ D \in Nat \ {0}
    BY <1>2
  <2>2. G = D * g + y /\ F = D * g + z
    BY <1>2, <1>3, <1>6
  <2> HIDE DEF y, z
  <2> QED
    BY <1>6, <1>7, <2>1, <2>2, RemainderIs
<1>13. ASSUME NEW e \in B - j .. B - 1 PROVE G \div 2 ^ e = F \div 2 ^ e
  <2>1. PICK R \in Nat \ {0} : 2 ^ e = D * R
    BY <1>5
  <2>2. D \in Nat \ {0}
    BY <1>2
  <2>3. G \div (D * R) = (G \div D) \div R /\ F \div (D * R) = (F \div D) \div R
    BY <1>7, <2>2, DivNested
  <2> QED
    BY <1>12, <2>1, <2>3
<1>14. \E h \in 0 .. 2 ^ (j + 1) - 1 : G = h * 2 ^ (B - (j + 1))
  <2> DEFINE h == 2 * g + c
  <2>1. h \in 0 .. 2 * T - 1 /\ G = h * P
    BY <1>9
  <2>2. h \in 0 .. 2 ^ (j + 1) - 1 /\ G = h * 2 ^ (B - (j + 1))
    BY <1>2, <1>4, <2>1 DEF P
  <2> HIDE DEF h
  <2> QED
    BY <2>2
<1> QED
  BY <1>8, <1>11, <1>13, <1>14 DEF B, P

------------------------------------------------------------------------------
\* The bits of a number, of a byte and of a stream of bytes.

\* The accumulator has room for what is pending and what is written; powers of two up to its width.
LEMMA AccIs ==
    /\ AccBits \in Nat /\ MaxCount \in Nat /\ ByteBits \in Nat \ {0}
    /\ ByteBits - 1 + MaxCount <= AccBits /\ ByteBits \in 0 .. AccBits + 1
    /\ \A n \in 0 .. AccBits + 1 : 2 ^ n \in Nat \ {0}
    /\ \A m \in 0 .. AccBits + 1 : \A n \in 0 .. AccBits + 1 - m : 2 ^ (m + n) = 2 ^ m * 2 ^ n
    /\ \A n \in 0 .. AccBits : 2 ^ (n + 1) = 2 * 2 ^ n
<1>1. AccBits \in Nat /\ MaxCount \in Nat /\ ByteBits \in Nat \ {0}
      /\ ByteBits - 1 + MaxCount <= AccBits /\ PowersDouble(AccBits)
  BY BitIOAssumption
<1>2. ByteBits \in 0 .. AccBits + 1
  BY <1>1
<1> QED
  BY <1>1, <1>2, PowersOf

Binary == 0 .. 1

Bit(x, e) == (x \div 2 ^ e) % 2

\* What is cut off above does not change the bits below.
LEMMA BitCut ==
    ASSUME NEW x \in Nat, NEW a \in 0 .. AccBits + 1, NEW e \in 0 .. a - 1
    PROVE  Bit(x % 2 ^ a, e) = Bit(x, e)
<1> DEFINE d == 2 ^ a
           p == 2 ^ (a - 1 - e)
           u == 2 ^ e
           q == x \div d
           r == x % d
<1>1. d \in Nat \ {0} /\ p \in Nat \ {0} /\ u \in Nat \ {0} /\ d = 2 * (u * p)
  <2>1. e \in 0 .. AccBits + 1 /\ a - 1 - e \in 0 .. AccBits + 1 - e /\ a - 1 - e \in 0 .. AccBits + 1
        /\ a - 1 \in 0 .. AccBits /\ e + (a - 1 - e) = a - 1 /\ (a - 1) + 1 = a
    BY AccIs
  <2>2. 2 ^ (a - 1) = u * p
    BY <2>1, AccIs
  <2>3. d = 2 * 2 ^ (a - 1)
    BY <2>1, AccIs
  <2> QED
    BY <2>1, <2>2, <2>3, AccIs
<1> HIDE DEF d, p, u
<1>2. x = d * q + r /\ q \in Nat /\ r \in Nat
  <2>1. x = d * q + r /\ q \in Nat /\ r \in 0 .. d - 1
    BY <1>1, DividesInto, Zenon
  <2> HIDE DEF q, r
  <2> QED
    BY <1>1, <2>1
<1> HIDE DEF q, r
<1> DEFINE g == p * q
<1>3. g \in Nat /\ d * q = u * (2 * g)
  BY <1>1, <1>2
<1> HIDE DEF g
<1> DEFINE g2 == 2 * g
<1>4. g2 \in Nat /\ x = u * g2 + r
  BY <1>2, <1>3
<1>5. x \div u = g2 + r \div u
  <2> HIDE DEF g2
  <2>1. (u * g2 + r) \div u = g2 + r \div u
    BY <1>1, <1>2, <1>4, RemainderOf, Zenon
  <2> QED
    BY <1>4, <2>1
<1> DEFINE y == r \div u
<1>6. y \in Nat
  BY <1>1, <1>2, Quotient
<1> HIDE DEF y
<1>7. (2 * g + y) % 2 = y % 2
  BY <1>3, <1>6, RemainderOf
<1>8. (x \div u) % 2 = y % 2
  BY <1>5, <1>7 DEF g2, y
<1> QED
  BY <1>8 DEF Bit, y, r, d, u

\* The bits of a number that makes room for another.
LEMMA BitJoined ==
    ASSUME NEW x \in Nat, NEW c \in 0 .. AccBits + 1, NEW r \in 0 .. 2 ^ c - 1, NEW e \in 0 .. AccBits + 1
    PROVE  /\ e < c => Bit(x * 2 ^ c + r, e) = Bit(r, e)
           /\ e >= c => Bit(x * 2 ^ c + r, e) = Bit(x, e - c)
<1> DEFINE d == 2 ^ c
           y == x * d + r
<1>1. d \in Nat \ {0}
  BY AccIs
<1>2. r \in 0 .. d - 1 /\ r \in Nat
  BY <1>1
<1>a. x * d \in Nat /\ x * d = d * x
  BY <1>1
<1> HIDE DEF d
<1>3. y \in Nat /\ y = d * x + r
  BY <1>1, <1>2, <1>a
<1>4. y % d = r /\ y \div d = x
  <2> HIDE DEF y
  <2> QED
    BY <1>1, <1>2, <1>3, RemainderIs
<1> HIDE DEF y
<1>5. ASSUME e < c PROVE Bit(y, e) = Bit(r, e)
  <2>1. e \in 0 .. c - 1
    BY <1>5
  <2> QED
    BY <1>3, <1>4, <2>1, BitCut DEF d
<1>6. ASSUME e >= c PROVE Bit(y, e) = Bit(x, e - c)
  <2>1. e - c \in 0 .. AccBits + 1 - c /\ e - c \in 0 .. AccBits + 1 /\ c + (e - c) = e
    BY <1>6, AccIs
  <2> DEFINE p == 2 ^ (e - c)
  <2>2. 2 ^ e = d * p /\ p \in Nat \ {0}
    BY <2>1, AccIs DEF d
  <2> HIDE DEF p
  <2>3. y \div (d * p) = (y \div d) \div p
    BY <1>1, <1>3, <2>2, DivNested, Zenon
  <2> QED
    BY <1>4, <2>2, <2>3 DEF Bit, p
<1> QED
  BY <1>5, <1>6 DEF y, d

\* A bit of a shifted number.
LEMMA BitShifted ==
    ASSUME NEW x \in Nat, NEW c \in 0 .. AccBits + 1, NEW e \in 0 .. AccBits + 1 - c
    PROVE  Bit(x \div 2 ^ c, e) = Bit(x, c + e) /\ x \div 2 ^ c \in Nat
<1>1. 2 ^ c \in Nat \ {0} /\ 2 ^ e \in Nat \ {0} /\ 2 ^ (c + e) = 2 ^ c * 2 ^ e
  <2>1. e \in 0 .. AccBits + 1
    BY AccIs
  <2> QED
    BY <2>1, AccIs
<1> DEFINE a == 2 ^ c
           b == 2 ^ e
<1>2. a \in Nat \ {0} /\ b \in Nat \ {0} /\ 2 ^ (c + e) = a * b
  BY <1>1
<1> HIDE DEF a, b
<1>3. x \div (a * b) = (x \div a) \div b /\ x \div a \in Nat
  BY <1>2, DivNested, Quotient, Zenon
<1> QED
  BY <1>2, <1>3 DEF Bit, a, b

\* The low bits of a number are its bits.
LEMMA LowBitsAre ==
    ASSUME NEW v \in Nat, NEW n \in 0 .. AccBits + 1
    PROVE  /\ LowBits(v, n) \in Seq(Binary)
           /\ Len(LowBits(v, n)) = n
           /\ \A k \in 1 .. n : LowBits(v, n)[k] = Bit(v, n - k)
<1>1. n \in Nat
  BY AccIs
<1>2. ASSUME NEW k \in 1 .. n PROVE Bit(v, n - k) \in 0 .. 1
  <2>1. n - k \in 0 .. AccBits + 1
    BY AccIs
  <2>2. 2 ^ (n - k) \in Nat \ {0}
    BY <2>1, AccIs
  <2> QED
    BY <2>2, Quotient, LastBit DEF Bit
<1> DEFINE b == LowBits(v, n)
<1>3. b \in [1 .. n -> 0 .. 1] /\ \A k \in 1 .. n : b[k] = Bit(v, n - k)
  BY <1>2 DEF LowBits, Bit
<1> HIDE DEF b
<1>4. b \in Seq(Binary) /\ Len(b) = n
  BY <1>1, <1>3 DEF Binary
<1> QED
  BY <1>3, <1>4 DEF b

\* The byte a bit of a stream is in, and its place there.
LEMMA InByte ==
    ASSUME NEW n \in Nat, NEW k \in 1 .. n * ByteBits
    PROVE  /\ 1 + (k - 1) \div ByteBits \in 1 .. n
           /\ (k - 1) % ByteBits \in 0 .. ByteBits - 1
           /\ k - 1 = ByteBits * ((k - 1) \div ByteBits) + ((k - 1) % ByteBits)
           /\ (k - 1) \div ByteBits \in Nat
           /\ n * ByteBits \in Nat
<1>0. ByteBits \in Nat \ {0}
  BY AccIs
<1> DEFINE q == (k - 1) \div ByteBits
           r == (k - 1) % ByteBits
<1>1. n * ByteBits \in Nat /\ n * ByteBits = ByteBits * n
  BY <1>0
<1>2. k - 1 \in Nat
  BY <1>1
<1>3. k - 1 = ByteBits * q + r /\ q \in Nat /\ r \in 0 .. ByteBits - 1
  BY <1>0, <1>2, DividesInto, Zenon
<1> HIDE DEF q, r
<1>4. q < n
  <2> SUFFICES ASSUME q >= n PROVE FALSE
    BY <1>3
  <2>1. n * ByteBits <= q * ByteBits
    BY <1>0, <1>3, Product
  <2>2. q * ByteBits = ByteBits * q /\ q * ByteBits \in Nat
    BY <1>0, <1>3
  <2> QED
    BY <1>0, <1>1, <1>3, <2>1, <2>2
<1>5. 1 + q \in 1 .. n
  BY <1>3, <1>4
<1> QED
  BY <1>1, <1>3, <1>5 DEF q, r

\* The bits of bytes are eight times as many.
LEMMA UnpackedAre ==
    ASSUME NEW bytes \in Seq(Byte)
    PROVE  /\ UnpackedBits(bytes, ByteBits) \in Seq(Binary)
           /\ Len(UnpackedBits(bytes, ByteBits)) = Len(bytes) * ByteBits
           /\ Len(bytes) * ByteBits \in Nat
           /\ \A k \in 1 .. Len(bytes) * ByteBits :
                 UnpackedBits(bytes, ByteBits)[k]
                    = Bit(bytes[1 + (k - 1) \div ByteBits], ByteBits - 1 - ((k - 1) % ByteBits))
<1> DEFINE n == Len(bytes)
           u == UnpackedBits(bytes, ByteBits)
<1>1. n \in Nat /\ n * ByteBits \in Nat
  <2>1. n \in Nat
    OBVIOUS
  <2> HIDE DEF n
  <2> QED
    BY <2>1, AccIs
<1>2. ASSUME NEW k \in 1 .. n * ByteBits
      PROVE  /\ LowBits(bytes[1 + (k - 1) \div ByteBits], ByteBits)[1 + ((k - 1) % ByteBits)]
                  = Bit(bytes[1 + (k - 1) \div ByteBits], ByteBits - 1 - ((k - 1) % ByteBits))
             /\ Bit(bytes[1 + (k - 1) \div ByteBits], ByteBits - 1 - ((k - 1) % ByteBits)) \in 0 .. 1
  <2> DEFINE q == 1 + (k - 1) \div ByteBits
             r == (k - 1) % ByteBits
  <2>1. q \in 1 .. n /\ r \in 0 .. ByteBits - 1
    <3> HIDE DEF n
    <3> QED
      BY <1>1, InByte
  <2>2. bytes[q] \in Nat
    <3>1. bytes[q] \in Byte
      BY <2>1
    <3> QED
      BY <3>1, ByteIs
  <2> HIDE DEF q, r
  <2> DEFINE L == LowBits(bytes[q], ByteBits)
  <2>3. L \in Seq(Binary) /\ Len(L) = ByteBits /\ \A m \in 1 .. ByteBits : L[m] = Bit(bytes[q], ByteBits - m)
    BY <2>2, AccIs, LowBitsAre, Zenon
  <2>4. 1 + r \in 1 .. ByteBits /\ ByteBits - (1 + r) = ByteBits - 1 - r
    BY <2>1, AccIs
  <2>5. L[1 + r] \in 0 .. 1
    <3> HIDE DEF L
    <3> QED
      BY <2>3, <2>4 DEF Binary
  <2> HIDE DEF L
  <2>6. L[1 + r] = Bit(bytes[q], ByteBits - 1 - r)
    BY <2>3, <2>4
  <2> QED
    BY <2>5, <2>6 DEF L, q, r
<1>3. u \in [1 .. n * ByteBits -> 0 .. 1]
      /\ \A k \in 1 .. n * ByteBits : u[k] = Bit(bytes[1 + (k - 1) \div ByteBits], ByteBits - 1 - ((k - 1) % ByteBits))
  BY <1>2 DEF UnpackedBits
<1> DEFINE w == n * ByteBits
<1>4. u \in Seq(Binary) /\ Len(u) = w
  <2>1. w \in Nat /\ u \in [1 .. w -> 0 .. 1]
    BY <1>1, <1>3
  <2> HIDE DEF u, w
  <2> QED
    BY <2>1 DEF Binary
<1> QED
  BY <1>1, <1>3, <1>4

Unpacked(bytes) == UnpackedBits(bytes, ByteBits)

\* Bits are bits.
LEMMA UnpackedIs ==
    ASSUME NEW bytes \in Seq(Byte)
    PROVE  /\ Unpacked(bytes) \in Seq(Binary)
           /\ Len(Unpacked(bytes)) = Len(bytes) * ByteBits
           /\ Len(bytes) * ByteBits \in Nat
           /\ \A k \in 1 .. Len(bytes) * ByteBits :
                 Unpacked(bytes)[k]
                    = Bit(bytes[1 + (k - 1) \div ByteBits], ByteBits - 1 - ((k - 1) % ByteBits))
BY UnpackedAre DEF Unpacked

\* Sequences one after the other.
IsJoin(j, a, b) ==
    /\ Len(j) = Len(a) + Len(b)
    /\ Len(a) \in Nat /\ Len(b) \in Nat
    /\ \A k \in 1 .. Len(a) : j[k] = a[k]
    /\ \A k \in 1 .. Len(b) : j[Len(a) + k] = b[k]

\* Two sequences one after the other.
LEMMA Joined2 ==
    ASSUME NEW S, NEW a \in Seq(S), NEW b \in Seq(S)
    PROVE  a \o b \in Seq(S) /\ IsJoin(a \o b, a, b)
BY DEF IsJoin

\* The bits of two streams of bytes one after the other.
LEMMA UnpackedJoined ==
    ASSUME NEW a \in Seq(Byte), NEW b \in Seq(Byte)
    PROVE  Unpacked(a \o b) = Unpacked(a) \o Unpacked(b)
<1> DEFINE m == Len(a)
           n == Len(b)
           M == m * ByteBits
           N == n * ByteBits
           ab == a \o b
           ua == Unpacked(a)
           ub == Unpacked(b)
           uab == Unpacked(ab)
           j == ua \o ub
<1>1. /\ ab \in Seq(Byte) /\ Len(ab) = m + n /\ m \in Nat /\ n \in Nat
      /\ \A k \in 1 .. m : ab[k] = a[k]
      /\ \A k \in 1 .. n : ab[m + k] = b[k]
  BY Joined2 DEF IsJoin
<1>2. /\ ua \in Seq(Binary) /\ Len(ua) = M /\ M \in Nat
      /\ \A k \in 1 .. M : ua[k] = Bit(a[1 + (k - 1) \div ByteBits], ByteBits - 1 - ((k - 1) % ByteBits))
  BY UnpackedIs
<1>3. /\ ub \in Seq(Binary) /\ Len(ub) = N /\ N \in Nat
      /\ \A k \in 1 .. N : ub[k] = Bit(b[1 + (k - 1) \div ByteBits], ByteBits - 1 - ((k - 1) % ByteBits))
  BY UnpackedIs
<1>4. /\ uab \in Seq(Binary) /\ Len(uab) = Len(ab) * ByteBits
      /\ \A k \in 1 .. Len(ab) * ByteBits :
            uab[k] = Bit(ab[1 + (k - 1) \div ByteBits], ByteBits - 1 - ((k - 1) % ByteBits))
  <2>1. ab \in Seq(Byte)
    BY <1>1
  <2> HIDE DEF ab
  <2> QED
    BY <2>1, UnpackedIs
<1>5. /\ j \in Seq(Binary) /\ Len(j) = M + N
      /\ \A k \in 1 .. M : j[k] = ua[k]
      /\ \A k \in 1 .. N : j[M + k] = ub[k]
  <2> HIDE DEF ua, ub, M, N, ab, uab, m, n
  <2>1. ua \in Seq(Binary) /\ ub \in Seq(Binary) /\ Len(ua) = M /\ Len(ub) = N
    BY <1>2, <1>3
  <2>2. j \in Seq(Binary) /\ IsJoin(j, ua, ub)
    BY <2>1, Joined2
  <2> HIDE DEF j
  <2> QED
    BY <2>1, <2>2 DEF IsJoin
<1> HIDE DEF ab, ua, ub, uab, j, m, n
<1>6. Len(ab) * ByteBits = M + N
  BY <1>1, AccIs
<1> HIDE DEF M, N
<1>7. ASSUME NEW k \in 1 .. M + N PROVE uab[k] = j[k]
  <2> DEFINE q == (k - 1) \div ByteBits
             r == (k - 1) % ByteBits
  <2>1. uab[k] = Bit(ab[1 + q], ByteBits - 1 - r)
    BY <1>4, <1>6
  <2>2. CASE k <= M
    <3>1. k \in 1 .. m * ByteBits
      BY <1>2, <2>2 DEF M
    <3>2. 1 + q \in 1 .. m
      BY <1>1, <3>1, InByte
    <3>3. k \in 1 .. M
      BY <1>2, <2>2
    <3> HIDE DEF q, r
    <3>4. ab[1 + q] = a[1 + q]
      BY <1>1, <3>2
    <3>5. ua[k] = Bit(a[1 + q], ByteBits - 1 - r)
      BY <1>2, <3>3 DEF q, r
    <3> QED
      BY <1>5, <2>1, <3>3, <3>4, <3>5
  <2>3. CASE k > M
    <3> DEFINE h == k - M
               s == (h - 1) \div ByteBits
               t == (h - 1) % ByteBits
    <3>1. h \in 1 .. N /\ k = M + h /\ h - 1 \in Nat /\ k - 1 = M + (h - 1)
      BY <1>2, <1>3, <2>3
    <3> HIDE DEF h
    <3>2. h \in 1 .. n * ByteBits
      BY <3>1 DEF N
    <3>3. 1 + s \in 1 .. n /\ s \in Nat
      BY <1>1, <3>2, InByte
    <3>4. k - 1 = ByteBits * m + (h - 1)
      <4>1. M = ByteBits * m
        BY <1>1, AccIs DEF M
      <4> QED
        BY <3>1, <4>1
    <3>5. q = m + s /\ r = t
      <4> DEFINE g == h - 1
      <4>1. g \in Nat
        BY <3>1
      <4> HIDE DEF g
      <4>2. (ByteBits * m + g) % ByteBits = g % ByteBits /\ (ByteBits * m + g) \div ByteBits = m + g \div ByteBits
        BY <1>1, <4>1, AccIs, RemainderOf, Zenon
      <4> QED
        BY <3>4, <4>2 DEF g
    <3>6. ub[h] = Bit(b[1 + s], ByteBits - 1 - t)
      BY <1>3, <3>1
    <3> HIDE DEF q, r, s, t
    <3>7. ab[1 + q] = b[1 + s]
      <4>1. 1 + q = m + (1 + s)
        BY <1>1, <3>3, <3>5
      <4> QED
        BY <1>1, <3>3, <4>1, Zenon
    <3> QED
      BY <1>5, <2>1, <3>1, <3>5, <3>6, <3>7
  <2> QED
    BY <1>2, <1>3, <2>2, <2>3
<1>8. uab = j
  BY <1>4, <1>5, <1>6, <1>7, SeqEqual
<1> QED
  BY <1>8 DEF uab, j, ab, ua, ub

\* The bytes that leave the accumulator, and what stays, are its bits.
LEMMA EmittedAre ==
    ASSUME NEW x \in Nat, NEW n \in 0 .. AccBits
    PROVE  /\ Emitted(x, n) \in Seq(Byte)
           /\ n % ByteBits \in 0 .. ByteBits - 1
           /\ Unpacked(Emitted(x, n)) \o LowBits(x, n % ByteBits) = LowBits(x, n)
<1> DEFINE m == n \div ByteBits
           r == n % ByteBits
           M == m * ByteBits
           e(j) == n - j * ByteBits
           E == Emitted(x, n)
<1>0. ByteBits \in Nat \ {0} /\ AccBits \in Nat /\ n \in Nat /\ ByteBits \in 0 .. AccBits + 1
  BY AccIs
<1>1. n = ByteBits * m + r /\ m \in Nat /\ r \in 0 .. ByteBits - 1
  BY <1>0, DividesInto, Zenon
<1> HIDE DEF m, r
<1>2. M \in Nat /\ n = M + r /\ M <= n /\ r \in 0 .. AccBits + 1 /\ n \in 0 .. AccBits + 1
  <2>1. M = ByteBits * m /\ M \in Nat
    BY <1>0, <1>1
  <2> HIDE DEF M
  <2> QED
    BY <1>0, <1>1, <2>1
<1>3. ASSUME NEW j \in 1 .. m PROVE e(j) \in 0 .. n /\ j * ByteBits <= M /\ j * ByteBits \in Nat
  <2>1. j * ByteBits <= m * ByteBits
    BY <1>0, <1>1, Product
  <2>2. j * ByteBits \in Nat
    BY <1>0, <1>1
  <2> QED
    BY <1>2, <2>1, <2>2
<1>4. E \in [1 .. m -> Byte] /\ \A j \in 1 .. m : E[j] = (x \div 2 ^ e(j)) % 2 ^ ByteBits
  <2>1. ASSUME NEW j \in 1 .. m PROVE (x \div 2 ^ e(j)) % 2 ^ ByteBits \in Byte
    <3>1. e(j) \in 0 .. AccBits + 1 /\ 0 \in 0 .. AccBits + 1 - e(j)
      BY <1>0, <1>3
    <3>2. x \div 2 ^ e(j) \in Nat
      BY <3>1, BitShifted
    <3> DEFINE y == x \div 2 ^ e(j)
               d == 2 ^ ByteBits
    <3>3. d \in Nat \ {0} /\ y \in Nat /\ Byte = 0 .. d - 1
      BY <3>2, ByteIs
    <3> HIDE DEF y, d
    <3>4. y % d \in 0 .. d - 1
      BY <3>3, DividesInto
    <3> QED
      BY <3>3, <3>4 DEF y, d
  <2> QED
    BY <2>1 DEF Emitted, m
<1>5. E \in Seq(Byte) /\ Len(E) = m
  <2> HIDE DEF E
  <2> QED
    BY <1>1, <1>4
<1> HIDE DEF E
<1> DEFINE u == Unpacked(E)
           l == LowBits(x, r)
           j2 == u \o l
           w == LowBits(x, n)
<1>6. /\ u \in Seq(Binary) /\ Len(u) = M
      /\ \A k \in 1 .. M : u[k] = Bit(E[1 + (k - 1) \div ByteBits], ByteBits - 1 - ((k - 1) % ByteBits))
  <2>1. Len(E) * ByteBits = M
    BY <1>5
  <2> QED
    BY <1>5, <2>1, UnpackedIs, Zenon
<1>7. l \in Seq(Binary) /\ Len(l) = r /\ \A k \in 1 .. r : l[k] = Bit(x, r - k)
  BY <1>2, LowBitsAre, Zenon
<1>8. w \in Seq(Binary) /\ Len(w) = n /\ \A k \in 1 .. n : w[k] = Bit(x, n - k)
  BY <1>2, LowBitsAre
<1>9. /\ j2 \in Seq(Binary) /\ Len(j2) = M + r
      /\ \A k \in 1 .. M : j2[k] = u[k]
      /\ \A k \in 1 .. r : j2[M + k] = l[k]
  <2> HIDE DEF u, l, M
  <2>1. u \in Seq(Binary) /\ l \in Seq(Binary) /\ Len(u) = M /\ Len(l) = r
    BY <1>6, <1>7
  <2>2. j2 \in Seq(Binary) /\ IsJoin(j2, u, l)
    BY <2>1, Joined2
  <2> HIDE DEF j2
  <2> QED
    BY <2>1, <2>2 DEF IsJoin
<1> HIDE DEF u, l, j2, w
<1>10. ASSUME NEW k \in 1 .. M PROVE u[k] = Bit(x, n - k)
  <2> DEFINE q == (k - 1) \div ByteBits
             s == (k - 1) % ByteBits
  <2>1. 1 + q \in 1 .. m /\ q \in Nat /\ s \in 0 .. ByteBits - 1 /\ k - 1 = ByteBits * q + s
    BY <1>1, InByte
  <2> HIDE DEF q, s
  <2> DEFINE h == 1 + q
             f == e(h)
  <2>2. h \in 1 .. m
    BY <2>1
  <2>3. f \in 0 .. n /\ E[h] = (x \div 2 ^ f) % 2 ^ ByteBits
    <3> HIDE DEF h, f
    <3> QED
      BY <1>3, <1>4, <2>2 DEF f
  <2>4. f + (ByteBits - 1 - s) = n - k
    <3>1. h * ByteBits = ByteBits * q + ByteBits
      BY <1>0, <1>1, <2>1
    <3> DEFINE g == ByteBits * q
    <3>2. g \in Int /\ k - 1 = g + s /\ f = n - (g + ByteBits)
      BY <1>0, <1>1, <2>1, <3>1
    <3> HIDE DEF g, f
    <3> QED
      BY <1>0, <2>1, <3>2, <1>2
  <2>5. /\ ByteBits - 1 - s \in 0 .. AccBits + 1 - f /\ f \in 0 .. AccBits + 1
        /\ ByteBits - 1 - s \in 0 .. ByteBits - 1 /\ ByteBits \in 0 .. AccBits + 1
    <3>1. k \in Nat /\ k >= 1
      BY <1>2
    <3> HIDE DEF f
    <3> QED
      BY <1>0, <1>2, <2>1, <2>3, <2>4, <3>1
  <2> HIDE DEF f, h
  <2>6. Bit(x \div 2 ^ f, ByteBits - 1 - s) = Bit(x, f + (ByteBits - 1 - s)) /\ x \div 2 ^ f \in Nat
    BY <2>5, BitShifted
  <2>7. Bit((x \div 2 ^ f) % 2 ^ ByteBits, ByteBits - 1 - s) = Bit(x \div 2 ^ f, ByteBits - 1 - s)
    BY <2>5, <2>6, BitCut, Zenon
  <2>8. u[k] = Bit(E[h], ByteBits - 1 - s)
    BY <1>6 DEF h, q, s
  <2> QED
    BY <2>3, <2>4, <2>6, <2>7, <2>8
<1>11. ASSUME NEW k \in 1 .. n PROVE j2[k] = w[k]
  <2>1. CASE k <= M
    <3>1. k \in 1 .. M
      BY <1>2, <2>1
    <3> QED
      BY <1>8, <1>9, <1>10, <3>1
  <2>2. CASE k > M
    <3>1. k - M \in 1 .. r /\ M + (k - M) = k /\ r - (k - M) = n - k
      BY <1>0, <1>1, <1>2, <2>2
    <3>2. j2[k] = l[k - M]
      BY <1>9, <3>1
    <3>3. l[k - M] = Bit(x, n - k)
      BY <1>7, <3>1
    <3> QED
      BY <1>8, <3>2, <3>3
  <2> QED
    BY <1>0, <1>2, <2>1, <2>2
<1>12. j2 = w
  BY <1>2, <1>8, <1>9, <1>11, SeqEqual
<1> QED
  BY <1>1, <1>5, <1>12 DEF j2, w, u, l, E, r

\* Putting sequences one after the other is associative.
LEMMA JoinsAssociate ==
    ASSUME NEW S, NEW a \in Seq(S), NEW b \in Seq(S), NEW c \in Seq(S)
    PROVE  (a \o b) \o c = a \o (b \o c)
<1> DEFINE ab == a \o b
           bc == b \o c
           x == ab \o c
           y == a \o bc
<1>1. ab \in Seq(S) /\ IsJoin(ab, a, b)
  BY Joined2
<1>2. bc \in Seq(S) /\ IsJoin(bc, b, c)
  BY Joined2
<1> HIDE DEF ab, bc
<1>3. x \in Seq(S) /\ IsJoin(x, ab, c)
  BY <1>1, Joined2
<1>4. y \in Seq(S) /\ IsJoin(y, a, bc)
  BY <1>2, Joined2
<1> HIDE DEF x, y
<1> DEFINE la == Len(a)
           lb == Len(b)
           lc == Len(c)
<1>5. /\ Len(ab) = la + lb /\ Len(bc) = lb + lc /\ la \in Nat /\ lb \in Nat /\ lc \in Nat
      /\ Len(x) = la + lb + lc /\ Len(y) = la + lb + lc
  BY <1>1, <1>2, <1>3, <1>4 DEF IsJoin
<1>6. ASSUME NEW k \in 1 .. Len(x) PROVE x[k] = y[k]
  <2>1. CASE k <= la
    <3>1. k \in 1 .. la /\ k \in 1 .. Len(ab)
      BY <1>5, <2>1
    <3> QED
      BY <1>1, <1>3, <1>4, <3>1 DEF IsJoin
  <2>2. CASE k > la /\ k <= la + lb
    <3> DEFINE h == k - la
    <3>1. h \in 1 .. lb /\ k = la + h /\ k \in 1 .. Len(ab) /\ h \in 1 .. Len(bc)
      BY <1>5, <2>2
    <3> HIDE DEF h
    <3>2. x[k] = ab[k] /\ ab[la + h] = b[h]
      BY <1>1, <1>3, <3>1 DEF IsJoin
    <3>3. y[la + h] = bc[h] /\ bc[h] = b[h]
      BY <1>2, <1>4, <3>1 DEF IsJoin
    <3> QED
      BY <3>1, <3>2, <3>3
  <2>3. CASE k > la + lb
    <3> DEFINE h == k - la - lb
    <3>1. h \in 1 .. lc /\ k = (la + lb) + h /\ lb + h \in 1 .. Len(bc) /\ k = la + (lb + h)
      BY <1>5, <2>3
    <3> HIDE DEF h
    <3>2. x[Len(ab) + h] = c[h]
      BY <1>3, <3>1 DEF IsJoin
    <3>3. y[la + (lb + h)] = bc[lb + h] /\ bc[lb + h] = c[h]
      BY <1>2, <1>4, <3>1, Zenon DEF IsJoin
    <3> QED
      BY <1>5, <3>1, <3>2, <3>3
  <2> QED
    BY <1>5, <2>1, <2>2, <2>3
<1>7. x = y
  BY <1>3, <1>4, <1>5, <1>6, SeqEqual
<1> QED
  BY <1>7 DEF x, y, ab, bc

------------------------------------------------------------------------------
\* The writer of bits.

IsWriter(w) ==
    /\ w.out \in Seq(Byte)
    /\ w.acc \in Nat
    /\ w.nbits \in 0 .. ByteBits - 1

\* A value shifted in from below.
LEMMA AppendedIs ==
    ASSUME NEW x \in Nat, NEW v \in Nat, NEW c \in 0 .. MaxCount
    PROVE  /\ Appended(x, v, c) \in Nat
           /\ \A e \in 0 .. AccBits - 1 :
                 Bit(Appended(x, v, c), e) = IF e < c THEN Bit(v, e) ELSE Bit(x, e - c)
<1>1. c \in 0 .. AccBits + 1 /\ AccBits \in Nat
  BY AccIs
<1> DEFINE d == 2 ^ c
           r == v % d
           y == x * d + r
           A == 2 ^ AccBits
<1>2. d \in Nat \ {0}
  BY <1>1, AccIs
<1>a. A \in Nat \ {0}
  <2>1. AccBits \in 0 .. AccBits + 1
    BY <1>1
  <2> QED
    BY <2>1, AccIs
<1>3. r \in 0 .. d - 1 /\ r \in Nat
  <2> HIDE DEF d
  <2>1. r \in 0 .. d - 1
    BY <1>2, DividesInto
  <2> QED
    BY <1>2, <2>1
<1>4. x * d \in Nat
  BY <1>2
<1>5. y \in Nat /\ Appended(x, v, c) = y % A
  <2>1. Appended(x, v, c) = y % A
    BY DEF Appended
  <2> QED
    BY <1>3, <1>4, <2>1
<1>6. y % A \in Nat
  <2> HIDE DEF y, A
  <2>1. y % A \in 0 .. A - 1
    BY <1>5, <1>a, DividesInto
  <2> QED
    BY <1>a, <2>1
<1>7. ASSUME NEW e \in 0 .. AccBits - 1
      PROVE  Bit(y % A, e) = IF e < c THEN Bit(v, e) ELSE Bit(x, e - c)
  <2>1. e \in 0 .. AccBits + 1 /\ AccBits \in 0 .. AccBits + 1
    BY <1>1
  <2>2. Bit(y % A, e) = Bit(y, e)
    <3> HIDE DEF y
    <3> QED
      BY <1>5, <2>1, BitCut
  <2>3. /\ e < c => Bit(y, e) = Bit(r, e)
        /\ e >= c => Bit(y, e) = Bit(x, e - c)
    <3>1. r \in 0 .. 2 ^ c - 1
      BY <1>3
    <3> HIDE DEF r
    <3> QED
      BY <1>1, <2>1, <3>1, BitJoined, ZenonT(60)
  <2>4. ASSUME e < c PROVE Bit(r, e) = Bit(v, e)
    <3>1. e \in 0 .. c - 1
      BY <2>4
    <3> QED
      BY <1>1, <3>1, BitCut
  <2> QED
    BY <1>1, <2>2, <2>3, <2>4
<1> QED
  BY <1>5, <1>6, <1>7

\* The bits of a written value follow those pending.
LEMMA AppendedBits ==
    ASSUME NEW x \in Nat, NEW v \in Nat, NEW c \in 0 .. MaxCount, NEW n \in 0 .. ByteBits - 1
    PROVE  LowBits(Appended(x, v, c), n + c) = LowBits(x, n) \o LowBits(v, c)
<1>1. /\ n \in 0 .. AccBits + 1 /\ c \in 0 .. AccBits + 1 /\ n + c \in 0 .. AccBits + 1 /\ n + c <= AccBits
      /\ n \in Nat /\ c \in Nat /\ AccBits \in Nat
  BY AccIs
<1> DEFINE y == Appended(x, v, c)
           a == LowBits(x, n)
           b == LowBits(v, c)
           j == a \o b
           w == LowBits(y, n + c)
<1>2. y \in Nat /\ \A e \in 0 .. AccBits - 1 : Bit(y, e) = IF e < c THEN Bit(v, e) ELSE Bit(x, e - c)
  BY AppendedIs, Zenon
<1> HIDE DEF y
<1>3. a \in Seq(Binary) /\ Len(a) = n /\ \A k \in 1 .. n : a[k] = Bit(x, n - k)
  BY <1>1, LowBitsAre, Zenon
<1>4. b \in Seq(Binary) /\ Len(b) = c /\ \A k \in 1 .. c : b[k] = Bit(v, c - k)
  BY <1>1, LowBitsAre, Zenon
<1>5. w \in Seq(Binary) /\ Len(w) = n + c /\ \A k \in 1 .. n + c : w[k] = Bit(y, n + c - k)
  <2> DEFINE t == n + c
  <2>1. t \in 0 .. AccBits + 1
    BY <1>1
  <2> HIDE DEF t
  <2>2. /\ LowBits(y, t) \in Seq(Binary) /\ Len(LowBits(y, t)) = t
        /\ \A k \in 1 .. t : LowBits(y, t)[k] = Bit(y, t - k)
    BY <1>2, <2>1, LowBitsAre
  <2> QED
    BY <2>2 DEF t
<1> HIDE DEF a, b, w
<1>6. j \in Seq(Binary) /\ IsJoin(j, a, b)
  BY <1>3, <1>4, Joined2
<1> HIDE DEF j
<1>7. ASSUME NEW k \in 1 .. n + c PROVE j[k] = w[k]
  <2>1. n + c - k \in 0 .. AccBits - 1
    BY <1>1
  <2>2. CASE k <= n
    <3>1. k \in 1 .. n /\ ~(n + c - k < c) /\ (n + c - k) - c = n - k
      BY <1>1, <2>2
    <3> QED
      BY <1>2, <1>3, <1>5, <1>6, <2>1, <3>1 DEF IsJoin
  <2>3. CASE k > n
    <3> DEFINE h == k - n
    <3>1. h \in 1 .. c /\ k = n + h /\ n + c - k < c /\ n + c - k = c - h
      BY <1>1, <2>3
    <3> HIDE DEF h
    <3>2. j[n + h] = b[h]
      BY <1>3, <1>4, <1>6, <3>1 DEF IsJoin
    <3> QED
      BY <1>2, <1>4, <1>5, <2>1, <3>1, <3>2
  <2> QED
    BY <1>1, <2>2, <2>3
<1>8. Len(j) = n + c
  BY <1>3, <1>4, <1>6 DEF IsJoin
<1>9. j = w
  BY <1>5, <1>6, <1>7, <1>8, SeqEqual
<1> QED
  BY <1>9 DEF j, w, a, b, y

\* What a writer holds is a sequence of bits.
LEMMA HeldIs ==
    ASSUME NEW w, IsWriter(w)
    PROVE  /\ Held(w) = Unpacked(w.out) \o LowBits(w.acc, w.nbits)
           /\ Held(w) \in Seq(Binary)
           /\ Len(Held(w)) = Len(w.out) * ByteBits + w.nbits
           /\ Unpacked(w.out) \in Seq(Binary) /\ LowBits(w.acc, w.nbits) \in Seq(Binary)
           /\ Len(w.out) \in Nat /\ Len(w.out) * ByteBits \in Nat
<1> DEFINE a == Unpacked(w.out)
           b == LowBits(w.acc, w.nbits)
<1>1. w.out \in Seq(Byte) /\ w.acc \in Nat /\ w.nbits \in 0 .. AccBits + 1 /\ w.nbits \in Nat
  BY AccIs DEF IsWriter
<1>2. a \in Seq(Binary) /\ Len(a) = Len(w.out) * ByteBits /\ Len(w.out) * ByteBits \in Nat
  BY <1>1, UnpackedIs
<1>3. b \in Seq(Binary) /\ Len(b) = w.nbits
  BY <1>1, LowBitsAre
<1>4. Held(w) = a \o b
  BY DEF Held, Unpacked
<1>5. Len(w.out) \in Nat
  BY <1>1
<1> HIDE DEF a, b
<1>6. a \o b \in Seq(Binary) /\ Len(a \o b) = Len(a) + Len(b)
  BY <1>2, <1>3, Joined2, Zenon DEF IsJoin
<1> QED
  BY <1>2, <1>3, <1>4, <1>5, <1>6 DEF a, b

\* What writeBits does to what a writer holds.
LEMMA WroteHolds ==
    ASSUME NEW w, IsWriter(w), NEW v \in Nat, NEW c \in 0 .. MaxCount
    PROVE  IsWriter(Wrote(w, v, c)) /\ Held(Wrote(w, v, c)) = Held(w) \o LowBits(v, c)
<1> DEFINE y == Appended(w.acc, v, c)
           n == w.nbits + c
           E == Emitted(y, n)
           u == Wrote(w, v, c)
           r == n % ByteBits
<1>1. w.out \in Seq(Byte) /\ w.acc \in Nat /\ w.nbits \in 0 .. ByteBits - 1
  BY DEF IsWriter
<1>2. n \in 0 .. AccBits /\ n \in Nat /\ c \in 0 .. AccBits + 1
  BY <1>1, AccIs
<1>3. y \in Nat
  BY <1>1, AppendedIs, Zenon
<1>4. LowBits(y, n) = LowBits(w.acc, w.nbits) \o LowBits(v, c)
  BY <1>1, AppendedBits, Zenon
<1>5. E \in Seq(Byte) /\ r \in 0 .. ByteBits - 1 /\ Unpacked(E) \o LowBits(y, r) = LowBits(y, n)
  <2> HIDE DEF y, n
  <2> QED
    BY <1>2, <1>3, EmittedAre, Zenon
<1>6. u.out = w.out \o E /\ u.acc = y /\ u.nbits = r
  BY Zenon DEF Wrote
<1> HIDE DEF y, n, E, r, u
<1>7. w.out \o E \in Seq(Byte) /\ Unpacked(w.out \o E) = Unpacked(w.out) \o Unpacked(E)
  BY <1>1, <1>5, Joined2, UnpackedJoined, Zenon
<1>8. IsWriter(u)
  BY <1>3, <1>5, <1>6, <1>7 DEF IsWriter
<1> DEFINE a == Unpacked(w.out)
           b == Unpacked(E)
           l == LowBits(y, r)
           p == LowBits(w.acc, w.nbits)
           q == LowBits(v, c)
<1>9. /\ a \in Seq(Binary) /\ b \in Seq(Binary) /\ l \in Seq(Binary) /\ p \in Seq(Binary) /\ q \in Seq(Binary)
      /\ Held(w) = a \o p
  <2>1. a \in Seq(Binary) /\ p \in Seq(Binary) /\ Held(w) = a \o p
    BY HeldIs
  <2>2. b \in Seq(Binary)
    BY <1>5, UnpackedIs
  <2>3. l \in Seq(Binary)
    <3>1. r \in 0 .. AccBits + 1
      BY <1>5, AccIs
    <3> QED
      BY <1>3, <3>1, LowBitsAre
  <2>4. q \in Seq(Binary)
    BY <1>2, LowBitsAre
  <2> QED
    BY <2>1, <2>2, <2>3, <2>4
<1>10. Held(u) = (a \o b) \o l
  BY <1>6, <1>7 DEF Held, Unpacked
<1>11. b \o l = p \o q
  BY <1>4, <1>5
<1> HIDE DEF a, b, l, p, q
<1>12. (a \o b) \o l = a \o (b \o l) /\ (a \o p) \o q = a \o (p \o q)
  <2>1. a \in Seq(Binary) /\ b \in Seq(Binary) /\ l \in Seq(Binary)
    BY <1>9
  <2>2. (a \o b) \o l = a \o (b \o l)
    BY <2>1, JoinsAssociate, SMTT(40)
  <2>3. a \in Seq(Binary) /\ p \in Seq(Binary) /\ q \in Seq(Binary)
    BY <1>9
  <2>4. (a \o p) \o q = a \o (p \o q)
    BY <2>3, JoinsAssociate, SMTT(40)
  <2> QED
    BY <2>2, <2>4
<1>13. Held(u) = Held(w) \o q
  BY <1>9, <1>10, <1>11, <1>12
<1> QED
  BY <1>8, <1>13 DEF u, q

\* A new writer holds nothing.
LEMMA NewHolds == IsWriter(NewWriter) /\ Held(NewWriter) = << >>
<1>1. NewWriter.out = << >> /\ NewWriter.acc = 0 /\ NewWriter.nbits = 0
  BY DEF NewWriter
<1>2. << >> \in Seq(Byte)
  OBVIOUS
<1>3. IsWriter(NewWriter)
  BY <1>1, <1>2, AccIs DEF IsWriter
<1>4. Held(NewWriter) \in Seq(Binary) /\ Len(Held(NewWriter)) = Len(<< >>) * ByteBits + 0
  BY <1>1, <1>3, HeldIs
<1>5. Len(Held(NewWriter)) = 0
  <2>1. Len(<< >>) = 0 /\ 0 * ByteBits = 0
    BY AccIs
  <2> QED
    BY <1>4, <2>1
<1> QED
  BY <1>3, <1>4, <1>5

\* What flush leaves: the bits held, and less than a byte of padding.
LEMMA FlushedHolds ==
    ASSUME NEW w, IsWriter(w)
    PROVE  /\ Flushed(w) \in Seq(Byte)
           /\ Len(Flushed(w)) = BytesFor(Len(Held(w)), ByteBits)
           /\ Unpacked(Flushed(w)) \in Seq(Binary)
           /\ Len(Unpacked(Flushed(w))) - Len(Held(w)) \in 0 .. ByteBits - 1
           /\ \A k \in 1 .. Len(Held(w)) : Unpacked(Flushed(w))[k] = Held(w)[k]
<1> DEFINE n == w.nbits
           x == w.acc
           m == Len(w.out)
           M == m * ByteBits
           a == Unpacked(w.out)
           l == LowBits(x, n)
           h == Held(w)
<1>1. w.out \in Seq(Byte) /\ x \in Nat /\ n \in 0 .. ByteBits - 1 /\ ByteBits \in Nat \ {0} /\ n \in Nat
  BY AccIs DEF IsWriter
<1>2. /\ h = a \o l /\ h \in Seq(Binary) /\ Len(h) = M + n
      /\ a \in Seq(Binary) /\ l \in Seq(Binary) /\ m \in Nat /\ M \in Nat
  BY HeldIs
<1>3. Len(a) = M
  BY <1>1, UnpackedIs
<1>4. BytesFor(M + n, ByteBits) = m + IF n = 0 THEN 0 ELSE 1
  <2> DEFINE g == n + ByteBits - 1
  <2>1. g \in Nat
    BY <1>1
  <2>2. M + n + ByteBits - 1 = ByteBits * m + g
    BY <1>1, <1>2
  <2>3. g \div ByteBits = IF n = 0 THEN 0 ELSE 1
    <3>1. CASE n = 0
      <4>1. g = ByteBits * 0 + (ByteBits - 1) /\ 0 \in Nat /\ ByteBits - 1 \in 0 .. ByteBits - 1
        BY <1>1, <3>1
      <4> HIDE DEF g
      <4> QED
        BY <1>1, <2>1, <3>1, <4>1, RemainderIs
    <3>2. CASE n # 0
      <4>1. g = ByteBits * 1 + (n - 1) /\ 1 \in Nat /\ n - 1 \in 0 .. ByteBits - 1
        BY <1>1, <3>2
      <4> HIDE DEF g
      <4> QED
        BY <1>1, <2>1, <3>2, <4>1, RemainderIs, Zenon
    <3> QED
      BY <3>1, <3>2
  <2> HIDE DEF g
  <2>4. (ByteBits * m + g) \div ByteBits = m + g \div ByteBits
    BY <1>1, <1>2, <2>1, RemainderOf, Zenon
  <2>5. BytesFor(M + n, ByteBits) = (M + n + ByteBits - 1) \div ByteBits
    BY DEF BytesFor
  <2> QED
    BY <2>2, <2>3, <2>4, <2>5, Zenon
<1>5. CASE n = 0
  <2>1. Flushed(w) = w.out
    BY <1>5 DEF Flushed
  <2>2. \A k \in 1 .. Len(h) : a[k] = h[k]
    <3>1. IsJoin(h, a, l) /\ Len(h) = Len(a)
      <4> HIDE DEF a, l, h
      <4> QED
        BY <1>2, <1>3, <1>5, Joined2
    <3> QED
      BY <3>1 DEF IsJoin
  <2>3. Len(a) - Len(h) = 0
    BY <1>1, <1>2, <1>3, <1>5
  <2>4. 0 \in 0 .. ByteBits - 1
    BY <1>1
  <2>5. m + 0 = m
    BY <1>2
  <2> QED
    BY <1>1, <1>2, <1>4, <1>5, <2>1, <2>2, <2>3, <2>4, <2>5
<1>6. CASE n # 0
  <2> DEFINE s == ByteBits - n
             y == x * 2 ^ s
             b == y % 2 ^ ByteBits
             B == << b >>
             f == Flushed(w)
             uB == Unpacked(B)
             uf == Unpacked(f)
  <2>1. s \in 0 .. AccBits + 1 /\ s \in 1 .. ByteBits - 1 /\ ByteBits \in 0 .. AccBits + 1
    BY <1>1, <1>6, AccIs
  <2>2. y \in Nat
    <3>1. 2 ^ s \in Nat
      BY <2>1, AccIs
    <3> DEFINE t == 2 ^ s
    <3> HIDE DEF s, t
    <3> QED
      BY <1>1, <3>1 DEF t
  <2>3. b \in Byte
    <3> DEFINE t == 2 ^ ByteBits
    <3>1. t \in Nat \ {0} /\ Byte = 0 .. t - 1
      BY ByteIs
    <3> HIDE DEF y, t
    <3>2. y % t \in 0 .. t - 1
      BY <2>2, <3>1, DividesInto
    <3> QED
      BY <3>1, <3>2 DEF t
  <2>4. f = w.out \o B
    <3>1. f = Append(w.out, b)
      BY <1>1, <1>6 DEF Flushed
    <3> HIDE DEF b
    <3> QED
      BY <1>1, <2>3, <3>1
  <2>5. \A e \in s .. ByteBits - 1 : Bit(b, e) = Bit(x, e - s)
    <3> SUFFICES ASSUME NEW e \in s .. ByteBits - 1 PROVE Bit(b, e) = Bit(x, e - s)
      OBVIOUS
    <3>1. e \in 0 .. ByteBits - 1 /\ e \in 0 .. AccBits + 1 /\ e >= s
      BY <2>1, AccIs
    <3>2. Bit(b, e) = Bit(y, e)
      <4> HIDE DEF y
      <4> QED
        BY <2>1, <2>2, <3>1, BitCut
    <3>3. 0 \in 0 .. 2 ^ s - 1
      <4>1. 2 ^ s \in Nat \ {0}
        BY <2>1, AccIs
      <4> DEFINE t == 2 ^ s
      <4> HIDE DEF s, t
      <4> QED
        BY <4>1 DEF t
    <3>4. Bit(x * 2 ^ s + 0, e) = Bit(x, e - s)
      <4> HIDE DEF s
      <4> QED
        BY <1>1, <2>1, <3>1, <3>3, BitJoined, ZenonT(60)
    <3>5. x * 2 ^ s + 0 = y
      <4> HIDE DEF y
      <4>1. y + 0 = y
        BY <2>2
      <4> QED
        BY <4>1 DEF y
    <3> QED
      BY <3>2, <3>4, <3>5
  <2> HIDE DEF b, y
  <2>6. B \in Seq(Byte) /\ Len(B) = 1 /\ B[1] = b
    BY <2>3
  <2> HIDE DEF B
  <2>7. /\ uB \in Seq(Binary) /\ Len(uB) = ByteBits
        /\ \A k \in 1 .. ByteBits : uB[k] = Bit(b, ByteBits - k)
    <3>1. /\ uB \in Seq(Binary) /\ Len(uB) = Len(B) * ByteBits
          /\ \A k \in 1 .. Len(B) * ByteBits :
                uB[k] = Bit(B[1 + (k - 1) \div ByteBits], ByteBits - 1 - ((k - 1) % ByteBits))
      BY <2>6, UnpackedIs, Zenon
    <3>2. Len(B) * ByteBits = ByteBits
      BY <1>1, <2>6
    <3>3. ASSUME NEW k \in 1 .. ByteBits PROVE uB[k] = Bit(b, ByteBits - k)
      <4>1. k - 1 = ByteBits * 0 + (k - 1) /\ k - 1 \in Nat /\ k - 1 \in 0 .. ByteBits - 1 /\ 0 \in Nat
        BY <1>1
      <4>2. (k - 1) % ByteBits = k - 1 /\ (k - 1) \div ByteBits = 0
        <5> DEFINE t == k - 1
        <5>1. t = ByteBits * 0 + t /\ t \in Nat /\ t \in 0 .. ByteBits - 1 /\ 0 \in Nat
          BY <4>1
        <5> HIDE DEF t
        <5>2. t % ByteBits = t /\ t \div ByteBits = 0
          BY <1>1, <5>1, RemainderIs, Zenon
        <5> QED
          BY <5>2 DEF t
      <4>3. ByteBits - 1 - (k - 1) = ByteBits - k /\ 1 + 0 = 1
        BY <1>1
      <4> QED
        BY <2>6, <3>1, <3>2, <4>2, <4>3
    <3> QED
      BY <3>1, <3>2, <3>3
  <2>8. f \in Seq(Byte) /\ IsJoin(f, w.out, B)
    BY <1>1, <2>4, <2>6, Joined2
  <2>9. uf = a \o uB
    BY <1>1, <2>4, <2>6, UnpackedJoined, Zenon
  <2> HIDE DEF uB, uf
  <2>10. uf \in Seq(Binary) /\ IsJoin(uf, a, uB)
    BY <1>2, <2>7, <2>9, Joined2
  <2>11. l \in Seq(Binary) /\ Len(l) = n /\ \A k \in 1 .. n : l[k] = Bit(x, n - k)
    <3>1. n \in 0 .. AccBits + 1
      BY <1>1, AccIs
    <3> QED
      BY <1>1, <3>1, LowBitsAre
  <2>12. IsJoin(h, a, l)
    <3> HIDE DEF a, l, h
    <3> QED
      BY <1>2, Joined2
  <2> HIDE DEF f, a, l, h
  <2>13. Len(f) = m + 1 /\ Len(uf) = M + ByteBits
    BY <1>3, <2>6, <2>7, <2>8, <2>10 DEF IsJoin
  <2>14. ASSUME NEW k \in 1 .. Len(h) PROVE uf[k] = h[k]
    <3>1. k \in 1 .. M + n
      BY <1>2
    <3>2. CASE k <= M
      <4>1. k \in 1 .. Len(a)
        BY <1>2, <1>3, <3>1, <3>2
      <4> QED
        BY <2>10, <2>12, <4>1 DEF IsJoin
    <3>3. CASE k > M
      <4> DEFINE g == k - M
      <4>1. g \in 1 .. n /\ k = M + g /\ g \in 1 .. ByteBits
        BY <1>1, <1>2, <3>1, <3>3, SMTT(40)
      <4> HIDE DEF g
      <4>2. uf[Len(a) + g] = uB[g] /\ h[Len(a) + g] = l[g]
        BY <2>7, <2>10, <2>11, <2>12, <4>1, Zenon DEF IsJoin
      <4>3. ByteBits - g \in s .. ByteBits - 1 /\ (ByteBits - g) - s = n - g
        BY <1>1, <4>1
      <4>4. uB[g] = Bit(b, ByteBits - g) /\ Bit(b, ByteBits - g) = Bit(x, (ByteBits - g) - s)
        BY <2>5, <2>7, <4>1, <4>3
      <4> QED
        BY <1>3, <2>11, <4>1, <4>2, <4>3, <4>4
    <3> QED
      BY <1>2, <3>1, <3>2, <3>3
  <2>15. Len(uf) - Len(h) \in 0 .. ByteBits - 1
    <3>1. Len(h) = M + n /\ M \in Nat
      BY <1>2
    <3> HIDE DEF M
    <3> QED
      BY <1>1, <1>6, <2>13, <3>1
  <2> QED
    BY <1>2, <1>4, <1>6, <2>8, <2>10, <2>13, <2>14, <2>15, Zenon DEF f, h, uf
<1> QED
  BY <1>5, <1>6

------------------------------------------------------------------------------
\* Sequences put one after the other.

FirstOf(t, m) == [k \in 1 .. m |-> t[k]]

Flat(t, m) == FlattenSeq(FirstOf(t, m))

Flattening(f, s, m) == f = [k \in 1 .. m |-> IF k = 1 THEN s[k] ELSE f[k - 1] \o s[k]]

\* The first of several sequences.
LEMMA FirstOfIs ==
    ASSUME NEW m \in Nat, NEW t
    PROVE  /\ Len(FirstOf(t, m)) = m /\ DOMAIN FirstOf(t, m) = 1 .. m
           /\ \A k \in 1 .. m : FirstOf(t, m)[k] = t[k]
           /\ m = 0 => FirstOf(t, m) = << >>
<1> DEFINE V == {t[k] : k \in 1 .. m}
           s == FirstOf(t, m)
<1>1. s \in [1 .. m -> V] /\ \A k \in 1 .. m : s[k] = t[k]
  BY DEF FirstOf
<1> HIDE DEF s, V
<1>2. s \in Seq(V) /\ Len(s) = m
  BY <1>1
<1>3. m = 0 => s = << >>
  BY <1>2
<1> QED
  BY <1>1, <1>2, <1>3 DEF s

\* Several sequences put one after the other, one more at a time.
LEMMA Flattens ==
    ASSUME NEW S, NEW n \in Nat, NEW t, \A k \in 1 .. n : t[k] \in Seq(S)
    PROVE  /\ Flat(t, 0) = << >>
           /\ \A m \in 0 .. n : Flat(t, m) \in Seq(S)
           /\ \A m \in 1 .. n : Flat(t, m) = Flat(t, m - 1) \o t[m]
<1> DEFINE V == Seq(S)
           g == [p \in (1 .. n) \X V |-> p[2] \o t[p[1]]]
           empty == << >>
<1>1. ASSUME NEW k \in 1 .. n, NEW x \in V PROVE x \o t[k] \in V
  <2>1. t[k] \in Seq(S)
    OBVIOUS
  <2> QED
    BY <2>1, Joined2
<1>2. g \in [(1 .. n) \X V -> V]
  <2>1. ASSUME NEW p \in (1 .. n) \X V PROVE p[2] \o t[p[1]] \in V
    <3>1. p[1] \in 1 .. n /\ p[2] \in V
      OBVIOUS
    <3> HIDE DEF V
    <3> QED
      BY <1>1, <3>1
  <2> HIDE DEF V
  <2> QED
    BY <2>1
<1>3. empty \in V
  OBVIOUS
<1>4. PICK r : IsRecursion(r, n, V, empty, g)
  <2> HIDE DEF g, V, empty
  <2> QED
    BY <1>2, <1>3, Recursion, Zenon
<1> HIDE DEF V
<1>5. r \in [0 .. n -> V] /\ r[0] = empty /\ \A k \in 1 .. n : r[k] = r[k - 1] \o t[k]
  <2>1. r \in [0 .. n -> V] /\ r[0] = empty /\ \A k \in 1 .. n : r[k] = g[<<k, r[k - 1]>>]
    BY <1>4 DEF IsRecursion
  <2>2. ASSUME NEW k \in 1 .. n PROVE r[k] = r[k - 1] \o t[k]
    <3>1. k - 1 \in 0 .. n
      OBVIOUS
    <3>2. <<k, r[k - 1]>> \in (1 .. n) \X V
      BY <2>1, <3>1
    <3>3. g[<<k, r[k - 1]>>] = r[k - 1] \o t[k]
      BY <3>2, Zenon
    <3> QED
      BY <2>1, <3>3, Zenon
  <2> QED
    BY <2>1, <2>2
<1> HIDE DEF g
<1>6. ASSUME NEW m \in 1 .. n PROVE Flat(t, m) = r[m]
  <2> DEFINE s == FirstOf(t, m)
             f == CHOOSE h : Flattening(h, s, m)
  <2>1. m \in Nat /\ m # 0 /\ m >= 1
    OBVIOUS
  <2>2. Len(s) = m /\ \A k \in 1 .. m : s[k] = t[k]
    BY <2>1, FirstOfIs
  <2> HIDE DEF s
  <2>3. FlattenSeq(s) = f[m]
    BY <2>1, <2>2 DEF FlattenSeq, Flattening
  <2>4. Flattening([k \in 1 .. m |-> r[k]], s, m)
    <3> DEFINE q == [k \in 1 .. m |-> r[k]]
    <3>1. ASSUME NEW k \in 1 .. m PROVE q[k] = IF k = 1 THEN s[k] ELSE q[k - 1] \o s[k]
      <4>0. k \in 1 .. n
        OBVIOUS
      <4>1. k \in 1 .. n /\ r[k] = r[k - 1] \o t[k] /\ s[k] = t[k]
        <5>1. r[k] = r[k - 1] \o t[k]
          BY <1>5, <4>0, Zenon
        <5>2. s[k] = t[k]
          BY <2>2
        <5> QED
          BY <4>0, <5>1, <5>2
      <4>2. CASE k = 1
        <5>1. r[k - 1] = << >> /\ t[k] \in Seq(S)
          BY <1>5, <4>1, <4>2
        <5>2. << >> \o t[k] = t[k]
          BY <5>1
        <5> QED
          BY <4>1, <4>2, <5>1, <5>2
      <4>3. CASE k # 1
        <5>1. k - 1 \in 1 .. m
          BY <4>3
        <5> QED
          BY <4>1, <4>3, <5>1, Zenon
      <4> QED
        BY <4>2, <4>3
    <3>2. q = [k \in 1 .. m |-> q[k]]
      OBVIOUS
    <3> HIDE DEF q
    <3>3. q = [k \in 1 .. m |-> IF k = 1 THEN s[k] ELSE q[k - 1] \o s[k]]
      BY <3>1, <3>2, Zenon
    <3>4. Flattening(q, s, m)
      BY <3>3, Zenon DEF Flattening
    <3> QED
      BY <3>4 DEF q
  <2>5. Flattening(f, s, m)
    BY <2>4
  <2> HIDE DEF f
  <2>6. \A k \in 1 .. m : f[k] = IF k = 1 THEN s[k] ELSE f[k - 1] \o s[k]
    BY <2>5, Zenon DEF Flattening
  <2> DEFINE T == {k \in 0 .. m : k = 0 \/ f[k] = r[k]}
  <2>7. 0 \in T
    BY <2>1
  <2>8. ASSUME NEW k \in 0 .. m - 1, k \in T PROVE k + 1 \in T
    <3>1. k + 1 \in 1 .. m /\ k + 1 \in 1 .. n /\ (k + 1) - 1 = k
      OBVIOUS
    <3>2. r[k + 1] = r[k] \o t[k + 1] /\ s[k + 1] = t[k + 1]
      BY <1>5, <2>2, <3>1, Zenon
    <3>3. CASE k = 0
      <4>1. t[k + 1] \in Seq(S) /\ r[k] = << >>
        BY <1>5, <3>1, <3>3
      <4>2. << >> \o t[k + 1] = t[k + 1]
        BY <4>1
      <4>3. f[k + 1] = s[k + 1]
        BY <2>6, <3>1, <3>3
      <4> QED
        BY <3>1, <3>2, <4>1, <4>2, <4>3
    <3>4. CASE k # 0
      <4>1. f[k] = r[k] /\ k + 1 # 1
        BY <2>8, <3>4
      <4>2. f[k + 1] = f[k] \o s[k + 1]
        BY <2>6, <3>1, <4>1, Zenon
      <4>3. f[k + 1] = r[k + 1]
        BY <3>2, <4>1, <4>2, Zenon
      <4>4. k + 1 \in 0 .. m
        OBVIOUS
      <4> QED
        BY <4>3, <4>4
    <3> QED
      BY <3>3, <3>4
  <2>9. \A k \in 0 .. m : k \in T
    <3> HIDE DEF T
    <3> QED
      BY <2>1, <2>7, <2>8, CountsUp, Zenon
  <2>10. f[m] = r[m]
    BY <2>1, <2>9
  <2> QED
    BY <2>3, <2>10 DEF Flat, s
<1>7. Flat(t, 0) = << >>
  <2>1. FirstOf(t, 0) = << >>
    BY FirstOfIs
  <2> QED
    BY <2>1 DEF Flat, FlattenSeq
<1>8. \A m \in 0 .. n : Flat(t, m) = r[m]
  BY <1>5, <1>6, <1>7
<1>9. ASSUME NEW m \in 1 .. n PROVE Flat(t, m) = Flat(t, m - 1) \o t[m]
  <2>1. m \in 0 .. n /\ m - 1 \in 0 .. n
    OBVIOUS
  <2>2. Flat(t, m) = r[m] /\ Flat(t, m - 1) = r[m - 1]
    BY <1>8, <2>1
  <2>3. r[m] = r[m - 1] \o t[m]
    BY <1>5, Zenon
  <2> QED
    BY <2>2, <2>3, Zenon
<1>10. ASSUME NEW m \in 0 .. n PROVE Flat(t, m) \in Seq(S)
  <2>1. r[m] \in V
    BY <1>5
  <2> QED
    BY <1>8, <2>1 DEF V
<1> QED
  BY <1>7, <1>9, <1>10, Zenon

\* The first of several sequences come first.
LEMMA FlatGrows ==
    ASSUME NEW S, NEW n \in Nat, NEW t, \A k \in 1 .. n : t[k] \in Seq(S), NEW m \in 0 .. n
    PROVE  /\ Len(Flat(t, m)) \in Nat /\ Len(Flat(t, n)) \in Nat
           /\ Len(Flat(t, m)) <= Len(Flat(t, n))
           /\ \A k \in 1 .. Len(Flat(t, m)) : Flat(t, n)[k] = Flat(t, m)[k]
<1>1. /\ \A k \in 0 .. n : Flat(t, k) \in Seq(S)
      /\ \A k \in 1 .. n : Flat(t, k) = Flat(t, k - 1) \o t[k]
  BY Flattens, Zenon
<1> DEFINE a == Flat(t, m)
           b(d) == Flat(t, m + d)
           T == {d \in 0 .. n - m : Len(a) <= Len(b(d)) /\ \A k \in 1 .. Len(a) : b(d)[k] = a[k]}
<1>2. a \in Seq(S) /\ Len(a) \in Nat /\ Flat(t, n) \in Seq(S) /\ Len(Flat(t, n)) \in Nat
  <2>1. a \in Seq(S) /\ Flat(t, n) \in Seq(S)
    BY <1>1
  <2> QED
    BY <2>1
<1>3. 0 \in T
  <2>1. m + 0 = m /\ 0 \in 0 .. n - m
    OBVIOUS
  <2> QED
    BY <1>2, <2>1
<1>4. ASSUME NEW d \in 0 .. (n - m) - 1, d \in T PROVE d + 1 \in T
  <2>1. m + d \in 0 .. n /\ m + (d + 1) \in 1 .. n /\ (m + (d + 1)) - 1 = m + d /\ d + 1 \in 0 .. n - m
    OBVIOUS
  <2>2. b(d + 1) = b(d) \o t[m + (d + 1)] /\ b(d) \in Seq(S) /\ t[m + (d + 1)] \in Seq(S)
    BY <1>1, <2>1, Zenon
  <2>3. b(d + 1) \in Seq(S) /\ IsJoin(b(d + 1), b(d), t[m + (d + 1)])
    BY <2>2, Joined2, Zenon
  <2>4. Len(a) <= Len(b(d)) /\ \A k \in 1 .. Len(a) : b(d)[k] = a[k]
    BY <1>4
  <2> HIDE DEF a, b
  <2>5. Len(a) <= Len(b(d + 1)) /\ \A k \in 1 .. Len(a) : b(d + 1)[k] = a[k]
    <3>1. /\ Len(b(d + 1)) = Len(b(d)) + Len(t[m + (d + 1)]) /\ Len(b(d)) \in Nat /\ Len(t[m + (d + 1)]) \in Nat
          /\ \A k \in 1 .. Len(b(d)) : b(d + 1)[k] = b(d)[k]
      BY <2>3 DEF IsJoin
    <3> QED
      BY <1>2, <2>4, <3>1
  <2> QED
    BY <2>1, <2>5
<1>5. \A d \in 0 .. n - m : d \in T
  <2>1. n - m \in Nat
    OBVIOUS
  <2> HIDE DEF T
  <2> QED
    BY <1>3, <1>4, <2>1, CountsUp, Zenon
<1>6. n - m \in 0 .. n - m /\ m + (n - m) = n
  OBVIOUS
<1> QED
  BY <1>2, <1>5, <1>6, Zenon

\* Of equal sequences the same is made.
LEMMA FlatAgrees ==
    ASSUME NEW m \in Nat, NEW t, NEW u, \A k \in 1 .. m : t[k] = u[k]
    PROVE  Flat(t, m) = Flat(u, m)
BY DEF Flat, FirstOf

------------------------------------------------------------------------------
\* Decoding one symbol with any table.

\* A code has the length that its symbol's entry says.
LEMMA CodeIs ==
    ASSUME NEW ls, IsTable(ls), NEW s \in Coded(ls)
    PROVE  /\ Code(ls, s) \in Seq(Binary)
           /\ Len(Code(ls, s)) = ls[s]
           /\ ls[s] \in 1 .. MaxCodeLength /\ CodeValue(ls, s) \in Nat
<1>1. ls[s] \in Lengths /\ ls[s] \in 0 .. MaxCodeLength /\ CodeValue(ls, s) \in Nat
  BY CodedAre
<1>2. LowBits(CodeValue(ls, s), ls[s]) \in Seq(0 .. 1) /\ Len(LowBits(CodeValue(ls, s), ls[s])) = ls[s]
  BY <1>1, BitsAre, Zenon
<1> QED
  BY <1>1, <1>2 DEF Code, Binary, Lengths

Decodes(ls, bits, d) ==
    /\ d.symbol \in Coded(ls)
    /\ d.used \in 1 .. Len(bits)
    /\ d.used = ls[d.symbol]
    /\ SubSeq(bits, 1, d.used) = Code(ls, d.symbol)

\* DecodeSymbol looks at the first bits that are the code of a symbol.
LEMMA DecodeSymbolIs ==
    ASSUME NEW ls, IsTable(ls), NEW n \in Nat, DOMAIN ls \subseteq 0 .. n, NEW bits, Len(bits) \in Nat,
           DecodeSymbol(ls, bits) # NotACode
    PROVE  Decodes(ls, bits, DecodeSymbol(ls, bits))
<1> DEFINE d == DecodeSymbol(ls, bits)
           ends == {m \in 1 .. Min({Len(bits), MaxCodeLength}) : SymbolsAt(ls, SubSeq(bits, 1, m)) # {}}
           e == Min(ends)
           at2 == SymbolsAt(ls, SubSeq(bits, 1, e))
<1>1. ends # {} /\ d = [symbol |-> Max(at2), used |-> e]
  BY Zenon DEF DecodeSymbol
<1>2. Min({Len(bits), MaxCodeLength}) \in Nat /\ Min({Len(bits), MaxCodeLength}) <= Len(bits)
  <2> DEFINE x == Len(bits)
  <2>1. x \in Nat /\ MaxCodeLength \in Nat
    BY CodeAssumption
  <2> HIDE DEF x
  <2>2. PICK y \in {x, MaxCodeLength} : \A z \in {x, MaxCodeLength} : y <= z
    BY <2>1
  <2>3. Min({x, MaxCodeLength}) \in {x, MaxCodeLength} /\ \A z \in {x, MaxCodeLength} : Min({x, MaxCodeLength}) <= z
    BY <2>2 DEF Min
  <2> QED
    BY <2>1, <2>3 DEF x
<1> DEFINE top == Min({Len(bits), MaxCodeLength})
<1> HIDE DEF top
<1>3. ends \subseteq 1 .. top /\ top \in Nat /\ top <= Len(bits)
  BY <1>2 DEF top
<1>4. \A m \in ends : SymbolsAt(ls, SubSeq(bits, 1, m)) # {}
  OBVIOUS
<1> HIDE DEF ends
<1>5. e \in ends
  <2>1. PICK m \in ends : \A k \in ends : m <= k
    <3>1. ends \subseteq Nat
      BY <1>3
    <3> QED
      BY <1>1, <3>1, LeastElement, Zenon
  <2> QED
    BY <2>1 DEF Min
<1> HIDE DEF e
<1>6. at2 # {} /\ at2 \subseteq 0 .. n
  <2>1. at2 # {}
    BY <1>4, <1>5
  <2>2. at2 \subseteq DOMAIN ls
    BY DEF SymbolsAt, Coded
  <2> QED
    BY <2>1, <2>2
<1>7. Max(at2) \in at2
  <2> HIDE DEF at2
  <2> QED
    BY <1>6, GreatestElement, Zenon
<1> DEFINE s == Max(at2)
<1>8. s \in Coded(ls) /\ Code(ls, s) = SubSeq(bits, 1, e)
  <2> HIDE DEF s
  <2>1. s \in SymbolsAt(ls, SubSeq(bits, 1, e))
    BY <1>7 DEF s
  <2> QED
    BY <2>1 DEF SymbolsAt, Path
<1>9. Len(Code(ls, s)) = ls[s] /\ e \in 1 .. Len(bits)
  <2>1. e \in 1 .. Len(bits)
    BY <1>3, <1>5
  <2> HIDE DEF s
  <2> QED
    BY <1>8, <2>1, CodeIs
<1>10. Len(SubSeq(bits, 1, e)) = e
  BY <1>9 DEF SubSeq
<1> HIDE DEF s, d
<1>11. d.symbol = s /\ d.used = e
  BY <1>1 DEF s
<1> QED
  BY <1>8, <1>9, <1>10, <1>11 DEF Decodes, d

------------------------------------------------------------------------------
\* Counting the bits of a text: symbol by symbol, or place by place.

\* A sum of zeros is zero.
LEMMA SumOfNothing ==
    ASSUME NEW n \in Nat, NEW f, \A k \in 1 .. n : f[k] = 0
    PROVE  SumUpTo(f, n) = 0
<1> DEFINE S == {k \in 0 .. n : SumUpTo(f, k) = 0}
<1>1. SumUpTo(f, 0) = 0 /\ \A k \in 1 .. n : SumUpTo(f, k) = SumUpTo(f, k - 1) + f[k]
  BY SumIs
<1>2. 0 \in S
  BY <1>1
<1>3. ASSUME NEW k \in 0 .. n - 1, k \in S PROVE k + 1 \in S
  <2>1. k + 1 \in 1 .. n /\ (k + 1) - 1 = k
    OBVIOUS
  <2>2. SumUpTo(f, k + 1) = SumUpTo(f, k) + f[k + 1] /\ f[k + 1] = 0
    BY <1>1, <2>1
  <2> QED
    BY <1>3, <2>2
<1>4. \A k \in 0 .. n : k \in S
  <2> HIDE DEF S
  <2> QED
    BY <1>2, <1>3, CountsUp
<1> QED
  BY <1>4

\* How often a value is found among the first m.
Found(word, m, s) == Cardinality({k \in 1 .. m : word[k] = s})

\* Among one more it is found once more, or as often.
LEMMA FoundIs ==
    ASSUME NEW word, NEW s, NEW m \in Nat
    PROVE  /\ Found(word, 0, s) = 0
           /\ Found(word, m, s) \in Nat
           /\ Found(word, m + 1, s) = Found(word, m, s) + IF word[m + 1] = s THEN 1 ELSE 0
           /\ Found(word, m, s) # 0 <=> \E k \in 1 .. m : word[k] = s
<1> DEFINE A(n) == {k \in 1 .. n : word[k] = s}
<1>1. IsFiniteSet(A(m))
  <2>1. IsFiniteSet(1 .. m)
    BY FS_Interval
  <2> QED
    BY <2>1, FS_Subset
<1>2. Cardinality(A(m)) \in Nat
  BY <1>1, FS_CardinalityType
<1>3. A(0) = {} /\ Cardinality({}) = 0
  BY FS_EmptySet
<1>4. Cardinality(A(m + 1)) = Cardinality(A(m)) + IF word[m + 1] = s THEN 1 ELSE 0
  <2>1. CASE word[m + 1] = s
    <3>1. A(m + 1) = A(m) \cup {m + 1} /\ m + 1 \notin A(m)
      BY <2>1
    <3> HIDE DEF A
    <3> QED
      BY <1>1, <2>1, <3>1, FS_AddElement
  <2>2. CASE word[m + 1] # s
    <3>1. A(m + 1) = A(m)
      BY <2>2
    <3> QED
      BY <1>2, <2>2, <3>1
  <2> QED
    BY <2>1, <2>2
<1>5. Cardinality(A(m)) # 0 <=> A(m) # {}
  BY <1>1, FS_EmptySet
<1> QED
  BY <1>2, <1>3, <1>4, <1>5 DEF Found

\* Places that hold no symbol are marked by one that is none.
Taken(ls, word, N, k) == IF word[k] \in 0 .. N - 1 THEN ls[word[k]] ELSE 0

\* Summing over symbols, each as often as it occurs, is summing over places.
LEMMA CountedTwice ==
    ASSUME NEW N \in Nat, NEW ls, \A s \in 0 .. N - 1 : ls[s] \in Nat,
           NEW n \in Nat, NEW word,
           NEW f, \A s \in 0 .. N - 1 : f[s] = Found(word, n, s)
    PROVE  /\ BitsTaken(f, ls, N) = SumUpTo([k \in 1 .. n |-> Taken(ls, word, N, k)], n)
           /\ BitsTaken(f, ls, N) \in Nat
<1> DEFINE term == [k \in 1 .. n |-> Taken(ls, word, N, k)]
           part(m) == [j \in 1 .. N |-> Found(word, m, j - 1) * ls[j - 1]]
           T == {m \in 0 .. n : SumUpTo(part(m), N) = SumUpTo(term, m)}
<1>1. \A k \in 1 .. n : term[k] = Taken(ls, word, N, k) /\ term[k] \in Nat
  BY DEF Taken
<1> HIDE DEF term
<1>2. /\ SumUpTo(term, 0) = 0
      /\ \A k \in 0 .. n : SumUpTo(term, k) \in Nat
      /\ \A k \in 1 .. n : SumUpTo(term, k) = SumUpTo(term, k - 1) + term[k]
  BY <1>1, SumIs
<1>3. ASSUME NEW m \in Nat, NEW j \in 1 .. N
      PROVE  part(m)[j] = Found(word, m, j - 1) * ls[j - 1] /\ part(m)[j] \in Nat
  <2>1. Found(word, m, j - 1) \in Nat /\ ls[j - 1] \in Nat
    BY FoundIs
  <2> QED
    BY <2>1
<1> HIDE DEF part
<1>4. 0 \in T
  <2>1. ASSUME NEW j \in 1 .. N PROVE part(0)[j] = 0
    <3>1. Found(word, 0, j - 1) = 0 /\ ls[j - 1] \in Nat
      BY FoundIs
    <3> QED
      BY <1>3, <3>1
  <2>2. SumUpTo(part(0), N) = 0
    BY <2>1, SumOfNothing
  <2> QED
    BY <1>2, <2>2
<1>5. ASSUME NEW m \in 0 .. n - 1, m \in T PROVE m + 1 \in T
  <2> DEFINE s == word[m + 1]
  <2>1. m + 1 \in 1 .. n /\ (m + 1) - 1 = m /\ m \in Nat /\ m + 1 \in Nat /\ m + 1 \in 0 .. n
    OBVIOUS
  <2>2. SumUpTo(term, m + 1) = SumUpTo(term, m) + Taken(ls, word, N, m + 1)
    BY <1>1, <1>2, <2>1
  <2>3. ASSUME NEW j \in 1 .. N, s # j - 1 PROVE part(m + 1)[j] = part(m)[j]
    <3>1. Found(word, m + 1, j - 1) = Found(word, m, j - 1)
      BY <2>1, <2>3, FoundIs
    <3> QED
      BY <1>3, <2>1, <3>1
  <2>4. SumUpTo(part(m + 1), N) = SumUpTo(part(m), N) + Taken(ls, word, N, m + 1)
    <3>1. CASE s \in 0 .. N - 1
      <4> DEFINE j == s + 1
                 d == ls[s]
      <4>1. j \in 1 .. N /\ j - 1 = s /\ d \in Nat /\ Taken(ls, word, N, m + 1) = d
        BY <3>1 DEF Taken
      <4>2. part(m + 1)[j] = part(m)[j] + d
        <5>1. Found(word, m + 1, j - 1) = Found(word, m, j - 1) + 1 /\ Found(word, m, j - 1) \in Nat
          BY <2>1, <4>1, FoundIs
        <5> DEFINE x == Found(word, m, j - 1)
        <5>2. part(m + 1)[j] = (x + 1) * ls[j - 1] /\ part(m)[j] = x * ls[j - 1]
          BY <1>3, <2>1, <4>1, <5>1
        <5>3. ls[j - 1] = d /\ x \in Nat
          BY <4>1, <5>1
        <5> HIDE DEF x, d, j
        <5>4. (x + 1) * d = x * d + d
          BY <4>1, <5>3
        <5> QED
          BY <5>2, <5>3, <5>4
      <4>3. \A k \in (1 .. N) \ {j} : part(m + 1)[k] = part(m)[k]
        BY <2>3, <3>1
      <4>4. \A k \in 1 .. N : part(m)[k] \in Nat
        BY <1>3, <2>1
      <4> HIDE DEF j, d
      <4>5. SumUpTo(part(m + 1), N) = SumUpTo(part(m), N) + d
        BY <4>1, <4>2, <4>3, <4>4, SumGains
      <4> QED
        BY <4>1, <4>5
    <3>2. CASE s \notin 0 .. N - 1
      <4>1. Taken(ls, word, N, m + 1) = 0
        BY <3>2 DEF Taken
      <4>2. \A k \in 1 .. N : part(m + 1)[k] = part(m)[k] /\ part(m)[k] \in Nat
        BY <1>3, <2>1, <2>3, <3>2
      <4>3. SumUpTo(part(m + 1), N) = SumUpTo(part(m), N)
        BY <4>2, SumsAgree
      <4>4. SumUpTo(part(m), N) \in Nat
        BY <4>2, SumIs
      <4> QED
        BY <4>1, <4>3, <4>4
    <3> QED
      BY <3>1, <3>2
  <2> QED
    BY <1>5, <2>1, <2>2, <2>4
<1>6. \A m \in 0 .. n : m \in T
  <2> HIDE DEF T
  <2> QED
    BY <1>4, <1>5, CountsUp
<1>7. BitsTaken(f, ls, N) = SumUpTo(part(n), N)
  <2> DEFINE g == [j \in 1 .. N |-> f[j - 1] * ls[j - 1]]
  <2>1. BitsTaken(f, ls, N) = SumUpTo(g, N)
    BY DEF BitsTaken
  <2>2. ASSUME NEW j \in 1 .. N PROVE g[j] = part(n)[j]
    <3>1. f[j - 1] = Found(word, n, j - 1)
      OBVIOUS
    <3> QED
      BY <1>3, <3>1
  <2>3. \A j \in 1 .. N : part(n)[j] \in Nat
    BY <1>3
  <2> HIDE DEF g
  <2> QED
    BY <2>1, <2>2, <2>3, SumsAgree
<1> QED
  BY <1>2, <1>6, <1>7 DEF term

\* The greatest of one.
LEMMA MaxOfOne ==
    ASSUME NEW n \in Int
    PROVE  Max({n}) = n
BY DEF Max

\* What comes after a sequence.
LEMMA RestIs ==
    ASSUME NEW S, NEW a \in Seq(S), NEW b \in Seq(S), NEW n, n = Len(a)
    PROVE  SubSeq(a \o b, n + 1, Len(a \o b)) = b
<1> DEFINE j == a \o b
           r == SubSeq(j, n + 1, Len(j))
<1>1. j \in Seq(S) /\ IsJoin(j, a, b)
  BY Joined2
<1> HIDE DEF j
<1>2. Len(j) = n + Len(b) /\ n \in Nat /\ Len(b) \in Nat /\ \A k \in 1 .. Len(b) : j[n + k] = b[k]
  BY <1>1 DEF IsJoin
<1>3. r \in Seq(S) /\ Len(r) = Len(b) /\ \A k \in 1 .. Len(b) : r[k] = j[n + k]
  <2> DEFINE m == Len(j)
  <2>1. m \in Int /\ n + 1 \in Int /\ \A i \in n + 1 .. m : j[i] \in S
    BY <1>1, <1>2
  <2>2. m - (n + 1) + 1 = Len(b) /\ (IF n + 1 <= m THEN m - (n + 1) + 1 ELSE 0) = Len(b)
    BY <1>2
  <2>3. \A k \in 1 .. Len(b) : n + 1 + k - 1 = n + k
    BY <1>2
  <2> HIDE DEF m
  <2>4. /\ SubSeq(j, n + 1, m) \in Seq(S)
        /\ Len(SubSeq(j, n + 1, m)) = IF n + 1 <= m THEN m - (n + 1) + 1 ELSE 0
        /\ \A i \in 1 .. m - (n + 1) + 1 : SubSeq(j, n + 1, m)[i] = j[n + 1 + i - 1]
    BY <2>1, SubSeqProperties
  <2>5. r = SubSeq(j, n + 1, m)
    BY DEF m
  <2> HIDE DEF r
  <2> QED
    BY <2>2, <2>3, <2>4, <2>5
<1> HIDE DEF r
<1>4. r = b
  BY <1>2, <1>3, SeqEqual
<1> QED
  BY <1>4 DEF r, j

------------------------------------------------------------------------------
\* The codes of a text.

Coding(ls, word, n) == FlattenSeq([k \in 1 .. n |-> Code(ls, word[k])])

Spelled(ls, word) == word \in Seq(Byte) /\ \A k \in 1 .. Len(word) : word[k] \in Coded(ls)

Costs(ls, word) == [k \in 1 .. Len(word) |-> ls[word[k]]]

\* The codes of a word, one after the other, and how many bits they are.
LEMMA CodingIs ==
    ASSUME NEW ls, IsTable(ls), NEW word, Spelled(ls, word)
    PROVE  /\ Coding(ls, word, 0) = << >>
           /\ \A n \in 0 .. Len(word) : Coding(ls, word, n) \in Seq(Binary) /\ Len(Coding(ls, word, n)) \in Nat
           /\ \A n \in 1 .. Len(word) : Coding(ls, word, n) = Coding(ls, word, n - 1) \o Code(ls, word[n])
           /\ \A n \in 0 .. Len(word) :
                 /\ Len(Coding(ls, word, n)) = SumUpTo(Costs(ls, word), n)
                 /\ n <= Len(Coding(ls, word, n))
                 /\ Len(Coding(ls, word, n)) <= Len(Coding(ls, word, Len(word)))
                 /\ \A k \in 1 .. Len(Coding(ls, word, n)) :
                       Coding(ls, word, Len(word))[k] = Coding(ls, word, n)[k]
<1> DEFINE L == Len(word)
           t == [k \in 1 .. L |-> Code(ls, word[k])]
           C(n) == Coding(ls, word, n)
           c == Costs(ls, word)
<1>1. L \in Nat /\ \A k \in 1 .. L : word[k] \in Coded(ls)
  BY DEF Spelled
<1> HIDE DEF L
<1>2. ASSUME NEW k \in 1 .. L
      PROVE  t[k] \in Seq(Binary) /\ t[k] = Code(ls, word[k]) /\ Len(t[k]) = c[k] /\ c[k] \in Nat /\ c[k] >= 1
  <2>1. word[k] \in Coded(ls)
    BY <1>1
  <2>2. Code(ls, word[k]) \in Seq(Binary) /\ Len(Code(ls, word[k])) = ls[word[k]] /\ ls[word[k]] \in 1 .. MaxCodeLength
    BY <2>1, CodeIs
  <2> QED
    BY <2>2, CodeAssumption DEF Costs, L
<1>3. ASSUME NEW n \in 0 .. L PROVE C(n) = Flat(t, n)
  <2>1. [k \in 1 .. n |-> Code(ls, word[k])] = [k \in 1 .. n |-> t[k]]
    <3>1. \A k \in 1 .. n : k \in 1 .. L
      BY <1>1
    <3>2. \A k \in 1 .. n : t[k] = Code(ls, word[k])
      BY <3>1
    <3> QED
      BY <3>2
  <2> QED
    BY <2>1, Zenon DEF Coding, Flat, FirstOf
<1> HIDE DEF t, c
<1>4. /\ Flat(t, 0) = << >>
      /\ \A n \in 0 .. L : Flat(t, n) \in Seq(Binary)
      /\ \A n \in 1 .. L : Flat(t, n) = Flat(t, n - 1) \o t[n]
  BY <1>1, <1>2, Flattens, ZenonT(60)
<1>5. /\ SumUpTo(c, 0) = 0
      /\ \A n \in 0 .. L : SumUpTo(c, n) \in Nat
      /\ \A n \in 1 .. L : SumUpTo(c, n) = SumUpTo(c, n - 1) + c[n]
  BY <1>1, <1>2, SumIs, Zenon
<1> HIDE DEF C
<1>6. /\ C(0) = << >>
      /\ \A n \in 0 .. L : C(n) \in Seq(Binary)
      /\ \A n \in 1 .. L : C(n) = C(n - 1) \o Code(ls, word[n])
  <2>1. C(0) = << >>
    BY <1>1, <1>3, <1>4
  <2>2. ASSUME NEW n \in 1 .. L PROVE C(n) = C(n - 1) \o Code(ls, word[n])
    <3>1. n \in 0 .. L /\ n - 1 \in 0 .. L
      BY <1>1
    <3>2. C(n) = Flat(t, n) /\ C(n - 1) = Flat(t, n - 1)
      BY <1>3, <3>1
    <3> QED
      BY <1>2, <1>4, <3>2, Zenon
  <2>3. \A n \in 0 .. L : C(n) \in Seq(Binary)
    BY <1>3, <1>4
  <2> QED
    BY <2>1, <2>2, <2>3
<1> DEFINE T == {n \in 0 .. L : Len(C(n)) = SumUpTo(c, n) /\ n <= Len(C(n))}
<1>7. 0 \in T
  BY <1>1, <1>5, <1>6
<1>8. ASSUME NEW n \in 0 .. L - 1, n \in T PROVE n + 1 \in T
  <2>1. n + 1 \in 1 .. L /\ (n + 1) - 1 = n /\ n \in 0 .. L /\ n + 1 \in 0 .. L
    BY <1>1
  <2>2. C(n + 1) = C(n) \o t[n + 1] /\ C(n) \in Seq(Binary) /\ t[n + 1] \in Seq(Binary)
    BY <1>2, <1>6, <2>1, Zenon
  <2>3. IsJoin(C(n + 1), C(n), t[n + 1])
    BY <2>2, Joined2, Zenon
  <2>4. Len(C(n + 1)) = Len(C(n)) + c[n + 1] /\ c[n + 1] \in Nat /\ c[n + 1] >= 1
    BY <1>2, <2>1, <2>3 DEF IsJoin
  <2>5. SumUpTo(c, n + 1) = SumUpTo(c, n) + c[n + 1]
    BY <1>5, <2>1
  <2> HIDE DEF C
  <2>6. Len(C(n)) = SumUpTo(c, n) /\ n <= Len(C(n)) /\ SumUpTo(c, n) \in Nat
    BY <1>5, <1>8, <2>1
  <2>7. Len(C(n + 1)) = SumUpTo(c, n + 1) /\ n + 1 <= Len(C(n + 1))
    BY <2>4, <2>5, <2>6
  <2> QED
    BY <2>1, <2>7
<1>9. \A n \in 0 .. L : n \in T
  <2> HIDE DEF T
  <2> QED
    BY <1>1, <1>7, <1>8, CountsUp
<1>10. ASSUME NEW n \in 0 .. L
       PROVE  /\ Len(C(n)) <= Len(C(L))
              /\ \A k \in 1 .. Len(C(n)) : C(L)[k] = C(n)[k]
  <2>1. L \in 0 .. L
    BY <1>1
  <2>2. C(n) = Flat(t, n) /\ C(L) = Flat(t, L)
    BY <1>3, <2>1
  <2> QED
    BY <1>1, <1>2, <2>2, FlatGrows, SMTT(40)
<1>11. \A n \in 0 .. L : Len(C(n)) \in Nat
  BY <1>6
<1>12. \A n \in 0 .. L : Len(C(n)) = SumUpTo(c, n) /\ n <= Len(C(n))
  BY <1>9
<1> QED
  BY <1>6, <1>10, <1>11, <1>12 DEF C, L, c

\* One symbol more.
LEMMA CodingNext ==
    ASSUME NEW ls, IsTable(ls), NEW word, Spelled(ls, word), NEW n \in 1 .. Len(word)
    PROVE  Coding(ls, word, n) = Coding(ls, word, n - 1) \o Code(ls, word[n])
<1>1. \A m \in 1 .. Len(word) : Coding(ls, word, m) = Coding(ls, word, m - 1) \o Code(ls, word[m])
  BY CodingIs, SMTT(40)
<1> QED
  BY <1>1, Zenon

\* Words that begin in the same way are coded in the same way.
LEMMA CodingAgrees ==
    ASSUME NEW ls, NEW word, NEW text, NEW n \in Nat, \A k \in 1 .. n : word[k] = text[k]
    PROVE  Coding(ls, word, n) = Coding(ls, text, n)
<1>1. [k \in 1 .. n |-> Code(ls, word[k])] = [k \in 1 .. n |-> Code(ls, text[k])]
  OBVIOUS
<1> QED
  BY <1>1 DEF Coding

Carries(bits, text) ==
    /\ bits \in Seq(Binary)
    /\ Len(bits) - Len(text) \in 0 .. ByteBits - 1
    /\ \A k \in 1 .. Len(text) : bits[k] = text[k]

------------------------------------------------------------------------------
\* Reading symbols out of a stream of bits.

\* A stretch of a sequence.
LEMMA SubSeqIs ==
    ASSUME NEW S, NEW s \in Seq(S), NEW a \in 1 .. Len(s) + 1, NEW b \in a - 1 .. Len(s)
    PROVE  /\ SubSeq(s, a, b) \in Seq(S)
           /\ Len(SubSeq(s, a, b)) = b - a + 1
           /\ \A k \in 1 .. b - a + 1 : SubSeq(s, a, b)[k] = s[a + k - 1]
OBVIOUS

Reading(ls, stream, p, d) ==
    /\ d.symbol \in Coded(ls) /\ d.used = ls[d.symbol]
    /\ d.used \in Nat /\ d.used >= 1 /\ d.used <= MaxCodeLength
    /\ p + d.used \in 0 .. Len(stream)
    /\ SubSeq(stream, 1, p + d.used) = SubSeq(stream, 1, p) \o Code(ls, d.symbol)

Peek(ls, stream, p) == DecodeSymbol(ls, SubSeq(stream, p + 1, Len(stream)))

\* A symbol is decoded from the bits at a place as it is alone.
LEMMA ReadsOn ==
    ASSUME NEW ls, IsTable(ls), NEW n \in Nat, DOMAIN ls \subseteq 0 .. n,
           NEW stream \in Seq(Binary), NEW p \in 0 .. Len(stream),
           Peek(ls, stream, p) # NotACode
    PROVE  Reading(ls, stream, p, Peek(ls, stream, p))
<1> DEFINE bits == SubSeq(stream, p + 1, Len(stream))
           d == Peek(ls, stream, p)
           c == Code(ls, d.symbol)
<1>1. /\ bits \in Seq(Binary) /\ Len(bits) = Len(stream) - p /\ Len(stream) \in Nat
      /\ \A k \in 1 .. Len(stream) - p : bits[k] = stream[p + k]
  OBVIOUS
<1>2. Len(bits) \in Nat
  BY <1>1
<1>3. d = DecodeSymbol(ls, bits) /\ d # NotACode
  BY DEF Peek
<1> HIDE DEF bits
<1>4. Decodes(ls, bits, d)
  BY <1>2, <1>3, DecodeSymbolIs
<1> HIDE DEF d
<1>5. /\ d.symbol \in Coded(ls) /\ d.used \in 1 .. Len(bits) /\ d.used = ls[d.symbol]
      /\ SubSeq(bits, 1, d.used) = c
  BY <1>4 DEF Decodes
<1>6. c \in Seq(Binary) /\ Len(c) = d.used /\ d.used \in 1 .. MaxCodeLength
  BY <1>5, CodeIs
<1>7. p + d.used \in 0 .. Len(stream) /\ d.used \in Nat /\ d.used >= 1 /\ d.used <= MaxCodeLength
  BY <1>1, <1>5, <1>6, CodeAssumption, SMTT(40)
<1> DEFINE u == d.used
           a == SubSeq(stream, 1, p + u)
           b == SubSeq(stream, 1, p)
<1>8. /\ a \in Seq(Binary) /\ Len(a) = p + u
      /\ b \in Seq(Binary) /\ Len(b) = p
      /\ \A k \in 1 .. p + u : a[k] = stream[k]
      /\ \A k \in 1 .. p : b[k] = stream[k]
  BY <1>7
<1>9. \A k \in 1 .. u : c[k] = stream[p + k]
  <2>1. \A k \in 1 .. u : c[k] = bits[k]
    BY <1>1, <1>5
  <2>2. \A k \in 1 .. u : k \in 1 .. Len(stream) - p
    BY <1>1, <1>5
  <2> QED
    BY <1>1, <2>1, <2>2
<1>10. b \o c \in Seq(Binary) /\ IsJoin(b \o c, b, c)
  BY <1>6, <1>8, Joined2, Zenon
<1> HIDE DEF a, b, c
<1>11. a = b \o c
  <2>1. Len(b \o c) = Len(a)
    BY <1>6, <1>8, <1>10 DEF IsJoin
  <2>2. ASSUME NEW k \in 1 .. Len(a) PROVE (b \o c)[k] = a[k]
    <3>1. CASE k <= p
      <4>1. k \in 1 .. Len(b) /\ k \in 1 .. p /\ k \in 1 .. p + u
        BY <1>7, <1>8, <3>1
      <4> QED
        BY <1>8, <1>10, <4>1 DEF IsJoin
    <3>2. CASE k > p
      <4>1. k - p \in 1 .. u /\ p + (k - p) = k /\ k \in 1 .. p + u
        BY <1>7, <1>8, <3>2
      <4>2. (b \o c)[p + (k - p)] = c[k - p]
        BY <1>6, <1>8, <1>10, <4>1, Zenon DEF IsJoin
      <4> QED
        BY <1>8, <1>9, <4>1, <4>2, Zenon
    <3>3. k <= p \/ k > p
      BY <1>8
    <3> QED
      BY <3>1, <3>2, <3>3, Zenon
  <2> QED
    BY <1>8, <1>10, <2>1, <2>2, SeqEqual, Zenon
<1> QED
  BY <1>5, <1>7, <1>11, Zenon DEF Reading, d, a, b, c

\* Where the code of a symbol follows, that symbol is read.
LEMMA ReadsWritten ==
    ASSUME NEW ls, Fits(ls), NEW s \in Coded(ls),
           NEW stream \in Seq(Binary), NEW p \in 0 .. Len(stream), p + ls[s] <= Len(stream),
           \A k \in 1 .. ls[s] : stream[p + k] = Code(ls, s)[k]
    PROVE  Peek(ls, stream, p) = [symbol |-> s, used |-> ls[s]]
<1> DEFINE bits == SubSeq(stream, p + 1, Len(stream))
           u == ls[s]
           c == Code(ls, s)
           rest == SubSeq(stream, p + u + 1, Len(stream))
<1>1. c \in Seq(Binary) /\ Len(c) = u /\ u \in 1 .. MaxCodeLength
  BY CodeIs DEF Fits
<1>2. u \in Nat
  BY <1>1
<1>3. /\ bits \in Seq(Binary) /\ Len(bits) = Len(stream) - p /\ Len(stream) \in Nat
      /\ \A k \in 1 .. Len(stream) - p : bits[k] = stream[p + k]
  OBVIOUS
<1>4. /\ rest \in Seq(Binary) /\ Len(rest) = Len(stream) - p - u
      /\ \A k \in 1 .. Len(stream) - p - u : rest[k] = stream[p + u + k]
  <2>1. \A q \in 0 .. Len(stream) :
           /\ SubSeq(stream, q + 1, Len(stream)) \in Seq(Binary)
           /\ Len(SubSeq(stream, q + 1, Len(stream))) = Len(stream) - q
           /\ \A k \in 1 .. Len(stream) - q : SubSeq(stream, q + 1, Len(stream))[k] = stream[q + k]
    OBVIOUS
  <2> DEFINE q == p + u
  <2>2. q \in 0 .. Len(stream) /\ Len(stream) - q = Len(stream) - p - u
    BY <1>2, <1>3
  <2>3. rest = SubSeq(stream, q + 1, Len(stream)) /\ \A k : stream[p + u + k] = stream[q + k]
    OBVIOUS
  <2> HIDE DEF q, rest
  <2>4. rest \in Seq(Binary) /\ Len(rest) = Len(stream) - q /\ \A k \in 1 .. Len(stream) - q : rest[k] = stream[q + k]
    BY <2>1, <2>2, <2>3
  <2> HIDE DEF u
  <2> QED
    BY <2>2, <2>3, <2>4
<1>5. c \o rest \in Seq(Binary) /\ IsJoin(c \o rest, c, rest)
  BY <1>1, <1>4, Joined2, Zenon
<1>6. rest \in Seq(Int)
  <2>1. Len(rest) \in Nat /\ rest = [k \in 1 .. Len(rest) |-> rest[k]] /\ \A k \in 1 .. Len(rest) : rest[k] \in Binary
    <3> HIDE DEF rest
    <3> QED
      BY <1>4
  <2>2. \A k \in 1 .. Len(rest) : rest[k] \in Int
    <3>1. \A x \in Binary : x \in Int
      BY DEF Binary
    <3> HIDE DEF rest
    <3> QED
      BY <2>1, <3>1
  <2>3. \A n \in Nat : \A f : (\A k \in 1 .. n : f[k] \in Int) => [k \in 1 .. n |-> f[k]] \in Seq(Int)
    OBVIOUS
  <2> HIDE DEF rest
  <2> QED
    BY <2>1, <2>2, <2>3
<1>7. DecodeSymbol(ls, c \o rest) = [symbol |-> s, used |-> ls[s]]
  BY <1>6, WalkEnds, Zenon DEF Reads
<1>8. \A k \in 1 .. u : stream[p + k] = c[k]
  OBVIOUS
<1> HIDE DEF bits, u, c, rest
<1>9. bits = c \o rest
  <2>1. Len(c \o rest) = Len(bits)
    BY <1>1, <1>2, <1>3, <1>4, <1>5 DEF IsJoin
  <2>2. ASSUME NEW k \in 1 .. Len(bits) PROVE (c \o rest)[k] = bits[k]
    <3>1. CASE k <= u
      <4>1. k \in 1 .. Len(c) /\ k \in 1 .. u /\ k \in 1 .. Len(stream) - p
        BY <1>1, <1>2, <1>3, <3>1
      <4> QED
        BY <1>3, <1>5, <1>8, <4>1 DEF IsJoin
    <3>2. CASE k > u
      <4>1. k - u \in 1 .. Len(stream) - p - u /\ u + (k - u) = k /\ p + u + (k - u) = p + k
        BY <1>2, <1>3, <3>2
      <4>2. (c \o rest)[u + (k - u)] = rest[k - u]
        BY <1>1, <1>4, <1>5, <4>1, Zenon DEF IsJoin
      <4>3. rest[k - u] = stream[p + k]
        BY <1>4, <4>1
      <4> QED
        BY <1>3, <4>1, <4>2, <4>3, Zenon
    <3>3. k <= u \/ k > u
      BY <1>2
    <3> QED
      BY <3>1, <3>2, <3>3, Zenon
  <2>3. c \o rest \in Seq(Binary) /\ bits \in Seq(Binary)
    BY <1>3, <1>5
  <2> QED
    BY <2>1, <2>2, <2>3, SeqEqual, Zenon
<1> QED
  BY <1>7, <1>9, Zenon DEF Peek, bits, u

\* What a decoder of an encoded payload finds.

\* A longer word takes more bits.
LEMMA CodingGrows ==
    ASSUME NEW ls, IsTable(ls), NEW word, Spelled(ls, word), NEW s \in Coded(ls), s \in Byte
    PROVE  /\ Spelled(ls, Append(word, s))
           /\ Len(Append(word, s)) = Len(word) + 1
           /\ Coding(ls, Append(word, s), Len(word) + 1) = Coding(ls, word, Len(word)) \o Code(ls, s)
<1> DEFINE n == Len(word)
           w == Append(word, s)
<1>1. word \in Seq(Byte) /\ n \in Nat
  BY DEF Spelled
<1>2. /\ w \in Seq(Byte) /\ Len(w) = n + 1 /\ w[n + 1] = s
      /\ \A k \in 1 .. n : w[k] = word[k]
  BY <1>1
<1> HIDE DEF w
<1>3. Spelled(ls, w)
  <2>1. ASSUME NEW k \in 1 .. Len(w) PROVE w[k] \in Coded(ls)
    <3>1. k \in 1 .. n \/ k = n + 1
      BY <1>1, <1>2
    <3>2. \A m \in 1 .. n : word[m] \in Coded(ls)
      BY DEF Spelled
    <3> HIDE DEF n
    <3> QED
      BY <1>2, <3>1, <3>2
  <2> QED
    BY <1>2, <2>1 DEF Spelled
<1>4. Coding(ls, word, n) = Coding(ls, w, n)
  BY <1>1, <1>2, CodingAgrees
<1>5. Coding(ls, w, n + 1) = Coding(ls, w, n) \o Code(ls, s)
  <2> DEFINE q == n + 1
  <2>1. q \in 1 .. Len(w) /\ q - 1 = n /\ w[q] = s
    BY <1>1, <1>2
  <2> HIDE DEF q, n
  <2>2. Coding(ls, w, q) = Coding(ls, w, q - 1) \o Code(ls, w[q])
    BY <1>3, <2>1, CodingNext, Zenon
  <2>3. Coding(ls, w, q) = Coding(ls, w, n) \o Code(ls, s)
    BY <2>1, <2>2, Zenon
  <2> QED
    BY <2>3 DEF q
<1> QED
  BY <1>2, <1>3, <1>4, <1>5 DEF w, n

------------------------------------------------------------------------------
\* The value of bits.

Valued(f, bits, m) == f = [k \in 0 .. m |-> IF k = 0 THEN 0 ELSE 2 * f[k - 1] + bits[k]]

\* The value of the first bits, one bit after the other.
LEMMA ValuedIs ==
    ASSUME NEW m \in Nat, NEW bits, \A k \in 1 .. m : bits[k] \in Nat
    PROVE  \E f \in [0 .. m -> Nat] : Valued(f, bits, m)
<1> DEFINE g == [p \in (1 .. m) \X Nat |-> 2 * p[2] + bits[p[1]]]
<1>1. g \in [(1 .. m) \X Nat -> Nat]
  OBVIOUS
<1>2. PICK r : IsRecursion(r, m, Nat, 0, g)
  <2> HIDE DEF g
  <2> QED
    BY <1>1, Recursion, Zenon
<1>3. r \in [0 .. m -> Nat] /\ r[0] = 0 /\ \A l \in 1 .. m : r[l] = g[<<l, r[l - 1]>>]
  BY <1>2, Zenon DEF IsRecursion
<1>4. ASSUME NEW l \in 0 .. m PROVE r[l] = IF l = 0 THEN 0 ELSE 2 * r[l - 1] + bits[l]
  <2>1. CASE l # 0
    <3>1. <<l, r[l - 1]>> \in (1 .. m) \X Nat
      BY <1>3, <2>1
    <3> QED
      BY <1>3, <2>1, <3>1, Zenon
  <2> QED
    BY <1>3, <2>1
<1> HIDE DEF g
<1>5. r = [k \in 0 .. m |-> IF k = 0 THEN 0 ELSE 2 * r[k - 1] + bits[k]]
  BY <1>3, <1>4
<1> QED
  BY <1>3, <1>5, Zenon DEF Valued

\* The value of a sequence of bits.
LEMMA ValueIs ==
    ASSUME NEW bits \in Seq(Binary)
    PROVE  \E f : /\ Value(bits) = f[Len(bits)] /\ f[0] = 0
                  /\ \A k \in 0 .. Len(bits) : f[k] \in Nat
                  /\ \A k \in 1 .. Len(bits) : f[k] = 2 * f[k - 1] + bits[k]
<1> DEFINE m == Len(bits)
           V == CHOOSE f : Valued(f, bits, m)
<1>1. m \in Nat /\ \A k \in 1 .. m : bits[k] \in Nat
  <2>1. \A x \in Binary : x \in Nat
    BY DEF Binary
  <2> QED
    BY <2>1
<1> HIDE DEF m
<1>2. PICK f \in [0 .. m -> Nat] : Valued(f, bits, m)
  BY <1>1, ValuedIs, Zenon
<1>3. f[0] = 0 /\ \A k \in 1 .. m : f[k] = 2 * f[k - 1] + bits[k]
  BY <1>1, <1>2 DEF Valued
<1>4. Valued(V, bits, m)
  BY <1>2
<1>5. Value(bits) = V[m]
  BY DEF Value, Valued, m
<1> HIDE DEF V
<1>6. V[m] = f[m]
  <2> DEFINE S == {k \in 0 .. m : V[k] = f[k]}
  <2>1. V = [k \in 0 .. m |-> IF k = 0 THEN 0 ELSE 2 * V[k - 1] + bits[k]]
    BY <1>4, Zenon DEF Valued
  <2>2. V[0] = 0 /\ \A k \in 1 .. m : V[k] = 2 * V[k - 1] + bits[k]
    BY <1>1, <2>1
  <2>3. 0 \in S
    BY <1>1, <1>3, <2>2
  <2>4. ASSUME NEW k \in 0 .. m - 1, k \in S PROVE k + 1 \in S
    <3>1. k + 1 \in 1 .. m /\ (k + 1) - 1 = k /\ k + 1 \in 0 .. m /\ k \in 0 .. m
      BY <1>1
    <3>2. V[k] = f[k]
      BY <2>4
    <3>3. V[k + 1] = 2 * V[k] + bits[k + 1]
      BY <2>2, <3>1
    <3>4. f[k + 1] = 2 * f[k] + bits[k + 1]
      BY <1>3, <3>1
    <3> QED
      BY <3>1, <3>2, <3>3, <3>4
  <2>5. \A k \in 0 .. m : k \in S
    <3> HIDE DEF S
    <3> QED
      BY <1>1, <2>3, <2>4, CountsUp, Zenon
  <2> QED
    BY <1>1, <2>5
<1> QED
  BY <1>1, <1>2, <1>3, <1>5, <1>6, Zenon DEF m

\* The value of the bits of a number is the number.
LEMMA ValueOfBits ==
    ASSUME NEW n \in 0 .. AccBits, NEW x \in 0 .. 2 ^ n - 1
    PROVE  Value(LowBits(x, n)) = x
<1> DEFINE b == LowBits(x, n)
<1>1. /\ AccBits \in Nat /\ n \in Nat
      /\ \A e \in 0 .. n : 2 ^ e \in Nat \ {0}
      /\ 2 ^ 0 = 1
      /\ \A e \in 0 .. n - 1 : 2 ^ (e + 1) = 2 * 2 ^ e
  BY AccIs, BitIOAssumption DEF PowersDouble
<1>2. x \in Nat /\ x < 2 ^ n
  BY <1>1
<1>3. b \in Seq(Binary) /\ Len(b) = n /\ \A k \in 1 .. n : b[k] = Bit(x, n - k)
  BY <1>1, <1>2, LowBitsAre
<1> HIDE DEF b
<1>4. PICK f : /\ Value(b) = f[n] /\ f[0] = 0
               /\ \A k \in 0 .. n : f[k] \in Nat
               /\ \A k \in 1 .. n : f[k] = 2 * f[k - 1] + b[k]
  BY <1>3, ValueIs, Zenon
<1> DEFINE S == {k \in 0 .. n : f[k] = x \div 2 ^ (n - k)}
<1>5. 0 \in S
  <2> DEFINE p == 2 ^ n
  <2>1. p \in Nat \ {0} /\ x = p * 0 + x /\ x \in 0 .. p - 1
    BY <1>1, <1>2
  <2> HIDE DEF p
  <2>2. x \div p = 0
    BY <1>2, <2>1, RemainderIs
  <2>3. n - 0 = n /\ 0 \in 0 .. n
    BY <1>1
  <2> QED
    BY <1>4, <2>2, <2>3 DEF p
<1>6. ASSUME NEW k \in 0 .. n - 1, k \in S PROVE k + 1 \in S
  <2> DEFINE e == n - (k + 1)
             p == 2 ^ e
             y == x \div p
  <2>1. e \in 0 .. n - 1 /\ n - k = e + 1 /\ k + 1 \in 1 .. n /\ k + 1 \in 0 .. n /\ (k + 1) - 1 = k
    BY <1>1
  <2>2. p \in Nat \ {0} /\ 2 ^ (n - k) = 2 * p /\ p * 2 = 2 * p
    <3>1. 2 ^ (e + 1) = 2 * 2 ^ e /\ 2 ^ e \in Nat \ {0}
      BY <1>1, <2>1
    <3>2. 2 ^ (n - k) = 2 ^ (e + 1)
      BY <2>1
    <3> QED
      BY <3>1, <3>2
  <2>3. f[k] = x \div (p * 2)
    BY <1>6, <2>2
  <2>4. f[k + 1] = 2 * f[k] + Bit(x, e)
    BY <1>3, <1>4, <2>1
  <2> HIDE DEF e
  <2>5. Bit(x, e) = y % 2
    BY DEF Bit
  <2> HIDE DEF p
  <2>6. x \div (p * 2) = (x \div p) \div 2
    <3>1. 2 \in Nat \ {0}
      OBVIOUS
    <3>2. \A c \in Nat \ {0} : x \div (p * c) = (x \div p) \div c
      BY <1>2, <2>2, DivNested, Zenon
    <3> QED
      BY <3>1, <3>2, Zenon
  <2>7. y \in Nat
    BY <1>2, <2>2, DividesInto
  <2> HIDE DEF y
  <2>8. y = 2 * (y \div 2) + (y % 2)
    BY <2>7, LastBit
  <2>9. f[k] = y \div 2
    BY <2>3, <2>6 DEF y
  <2>10. f[k + 1] = y
    BY <2>4, <2>5, <2>8, <2>9
  <2> QED
    BY <2>1, <2>10 DEF y, p, e
<1>7. n \in S
  <2>1. \A k \in 0 .. n : k \in S
    <3> HIDE DEF S
    <3> QED
      BY <1>1, <1>5, <1>6, CountsUp
  <2>2. n \in 0 .. n
    BY <1>1
  <2> HIDE DEF S
  <2> QED
    BY <2>1, <2>2
<1>8. f[n] = x
  <2>1. n - n = 0 /\ f[n] = x \div 2 ^ (n - n)
    BY <1>1, <1>7
  <2>2. 2 ^ (n - n) = 1
    BY <1>1, <2>1
  <2>3. f[n] = x \div 1
    BY <2>1, <2>2
  <2>4. x \div 1 = x
    <3>1. x = 1 * x + 0 /\ 1 \in Nat \ {0} /\ 0 \in 0 .. 1 - 1
      BY <1>2
    <3> QED
      BY <1>2, <3>1, RemainderIs
  <2> QED
    BY <2>3, <2>4, Zenon
<1> QED
  BY <1>4, <1>8 DEF b

------------------------------------------------------------------------------
\* Bits that lie in a stream from a place on.

Lies(stream, p, bits) ==
    /\ p \in 0 .. Len(stream) /\ p + Len(bits) \in 0 .. Len(stream)
    /\ \A k \in 1 .. Len(bits) : stream[p + k] = bits[k]

\* Where a sequence lies, its parts lie one after the other.
LEMMA LiesSplit ==
    ASSUME NEW stream \in Seq(Binary), NEW p, NEW a \in Seq(Binary), NEW b \in Seq(Binary),
           Lies(stream, p, a \o b)
    PROVE  Lies(stream, p, a) /\ Lies(stream, p + Len(a), b)
<1> DEFINE ab == a \o b
<1>1. IsJoin(ab, a, b)
  BY Joined2
<1> HIDE DEF ab
<1>2. /\ Len(ab) = Len(a) + Len(b) /\ Len(a) \in Nat /\ Len(b) \in Nat
      /\ \A k \in 1 .. Len(a) : ab[k] = a[k]
      /\ \A k \in 1 .. Len(b) : ab[Len(a) + k] = b[k]
  BY <1>1 DEF IsJoin
<1>3. /\ p \in 0 .. Len(stream) /\ p + Len(ab) \in 0 .. Len(stream)
      /\ \A k \in 1 .. Len(ab) : stream[p + k] = ab[k]
  BY DEF Lies, ab
<1>4. Len(stream) \in Nat
  OBVIOUS
<1> DEFINE m == Len(a)
           n == Len(b)
           s == Len(stream)
<1> HIDE DEF m, n, s
<1>5. m \in Nat /\ n \in Nat /\ s \in Nat /\ p \in 0 .. s /\ p + (m + n) \in 0 .. s
  BY <1>2, <1>3, <1>4 DEF m, n, s
<1>6. p + m \in 0 .. s /\ (p + m) + n \in 0 .. s
  BY <1>5
<1>7. ASSUME NEW k \in 1 .. m PROVE stream[p + k] = a[k]
  <2>1. k \in 1 .. Len(ab) /\ k \in 1 .. Len(a)
    BY <1>2, <1>5 DEF m, n
  <2> QED
    BY <1>2, <1>3, <2>1
<1>8. ASSUME NEW k \in 1 .. n PROVE stream[(p + m) + k] = b[k]
  <2>1. m + k \in 1 .. Len(ab) /\ p + (m + k) = (p + m) + k
    BY <1>2, <1>5 DEF m, n
  <2>2. stream[p + (m + k)] = ab[m + k]
    BY <1>3, <2>1
  <2>3. ab[m + k] = b[k]
    BY <1>2 DEF m, n
  <2> QED
    BY <2>1, <2>2, <2>3
<1> QED
  BY <1>5, <1>6, <1>7, <1>8 DEF Lies, m, n, s

\* A part of a text lies in a stream that carries the text.
LEMMA LiesWithin ==
    ASSUME NEW stream, NEW text \in Seq(Binary), Carries(stream, text),
           NEW before \in Seq(Binary), NEW bits \in Seq(Binary), NEW m \in Nat,
           m = Len(before \o bits), m <= Len(text), \A k \in 1 .. m : text[k] = (before \o bits)[k]
    PROVE  Lies(stream, Len(before), bits)
<1> DEFINE j == before \o bits
<1>1. IsJoin(j, before, bits)
  BY Joined2
<1>2. m = Len(j) /\ \A k \in 1 .. m : text[k] = j[k]
  OBVIOUS
<1> HIDE DEF j
<1>3. /\ Len(j) = Len(before) + Len(bits) /\ Len(before) \in Nat /\ Len(bits) \in Nat
      /\ \A k \in 1 .. Len(bits) : j[Len(before) + k] = bits[k]
  BY <1>1 DEF IsJoin
<1>4. Len(stream) \in Nat /\ Len(text) \in Nat /\ Len(text) <= Len(stream)
      /\ \A k \in 1 .. Len(text) : stream[k] = text[k]
  <2>1. Len(stream) \in Nat /\ Len(text) \in Nat
    BY DEF Carries
  <2> QED
    BY <2>1 DEF Carries
<1>5. Len(before) \in 0 .. Len(stream) /\ Len(before) + Len(bits) \in 0 .. Len(stream)
  BY <1>2, <1>3, <1>4
<1>6. ASSUME NEW k \in 1 .. Len(bits) PROVE stream[Len(before) + k] = bits[k]
  <2>1. Len(before) + k \in 1 .. m /\ Len(before) + k \in 1 .. Len(text)
    BY <1>2, <1>3, <1>4
  <2> QED
    BY <1>2, <1>3, <1>4, <2>1, Zenon
<1> QED
  BY <1>5, <1>6 DEF Lies

\* Where a code lies, its symbol is read.
LEMMA CodeLies ==
    ASSUME NEW ls, Fits(ls), NEW s \in Coded(ls), NEW stream \in Seq(Binary), NEW p,
           Lies(stream, p, Code(ls, s))
    PROVE  /\ Peek(ls, stream, p) = [symbol |-> s, used |-> ls[s]]
           /\ Len(Code(ls, s)) = ls[s] /\ ls[s] \in Nat
<1>1. Len(Code(ls, s)) = ls[s] /\ ls[s] \in 1 .. MaxCodeLength
  BY CodeIs DEF Fits
<1>2. /\ p \in 0 .. Len(stream) /\ p + ls[s] \in 0 .. Len(stream)
      /\ \A k \in 1 .. ls[s] : stream[p + k] = Code(ls, s)[k]
  BY <1>1, Zenon DEF Lies
<1>3. p + ls[s] <= Len(stream)
  BY <1>2
<1> QED
  BY <1>1, <1>2, <1>3, ReadsWritten

\* What ValueAt of Deflate is, for the bits of a stream.
ValueIn(stream, place, n) ==
    IF place + n > Len(stream) THEN -1 ELSE Value(SubSeq(stream, place + 1, place + n))

\* There is a value if the bits are there.
LEMMA ValueInIs ==
    ASSUME NEW stream \in Seq(Binary), NEW p \in 0 .. Len(stream), NEW n \in Nat
    PROVE  /\ ValueIn(stream, p, n) # -1 <=> p + n <= Len(stream)
           /\ ValueIn(stream, p, n) # -1 => ValueIn(stream, p, n) \in Nat
<1>1. Len(stream) \in Nat /\ p \in Nat
  OBVIOUS
<1>2. CASE p + n <= Len(stream)
  <2> DEFINE b == SubSeq(stream, p + 1, p + n)
  <2>1. b \in Seq(Binary)
    BY <1>2
  <2> HIDE DEF b
  <2>2. Len(b) \in Nat
    BY <2>1
  <2>3. Value(b) \in Nat
    <3>1. PICK f : Value(b) = f[Len(b)] /\ \A k \in 0 .. Len(b) : f[k] \in Nat
      BY <2>1, ValueIs
    <3>2. Len(b) \in 0 .. Len(b)
      BY <2>2
    <3> QED
      BY <3>1, <3>2
  <2>4. ValueIn(stream, p, n) = Value(b)
    BY <1>1, <1>2 DEF ValueIn, b
  <2>5. Value(b) # -1
    BY <2>3
  <2> QED
    BY <1>2, <2>3, <2>4, <2>5
<1>3. CASE ~(p + n <= Len(stream))
  <2>1. ValueIn(stream, p, n) = -1
    BY <1>1, <1>3 DEF ValueIn
  <2> QED
    BY <1>3, <2>1
<1> QED
  BY <1>2, <1>3

\* Where the bits of a number lie, the number is read.
LEMMA BitsLie ==
    ASSUME NEW stream \in Seq(Binary), NEW p, NEW n \in 0 .. AccBits, NEW x \in 0 .. 2 ^ n - 1,
           Lies(stream, p, LowBits(x, n))
    PROVE  ValueIn(stream, p, n) = x /\ Len(LowBits(x, n)) = n
<1> DEFINE b == LowBits(x, n)
           c == SubSeq(stream, p + 1, p + n)
<1>1. n \in Nat /\ x \in Nat /\ n \in 0 .. AccBits + 1
  <2>1. AccBits \in Nat /\ 2 ^ n \in Nat
    BY AccIs
  <2> QED
    BY <2>1
<1>2. b \in Seq(Binary) /\ Len(b) = n
  BY <1>1, LowBitsAre
<1>3. Value(b) = x
  BY ValueOfBits
<1> HIDE DEF b
<1>4. /\ p \in 0 .. Len(stream) /\ p + n \in 0 .. Len(stream)
      /\ \A k \in 1 .. n : stream[p + k] = b[k]
  BY <1>2 DEF Lies, b
<1>5. c \in Seq(Binary) /\ Len(c) = n /\ \A k \in 1 .. n : c[k] = stream[p + k]
  BY <1>1, <1>4
<1> HIDE DEF c
<1>6. c = b
  BY <1>2, <1>4, <1>5, SeqEqual
<1>7. ValueIn(stream, p, n) = Value(c)
  BY <1>1, <1>4 DEF ValueIn, c
<1> QED
  BY <1>2, <1>3, <1>6, <1>7 DEF b

\* Sequences of bits one after the other.
LEMMA BinaryJoins ==
    /\ \A a \in Seq(Binary) : Len(a) \in Nat
    /\ \A a \in Seq(Binary), b \in Seq(Binary) : a \o b \in Seq(Binary) /\ Len(a \o b) = Len(a) + Len(b)
    /\ \A a \in Seq(Binary), b \in Seq(Binary), c \in Seq(Binary) : (a \o b) \o c = a \o (b \o c)
<1>1. ASSUME NEW a \in Seq(Binary), NEW b \in Seq(Binary)
      PROVE  a \o b \in Seq(Binary) /\ Len(a \o b) = Len(a) + Len(b)
  BY Joined2 DEF IsJoin
<1>2. ASSUME NEW a \in Seq(Binary), NEW b \in Seq(Binary), NEW c \in Seq(Binary)
      PROVE  (a \o b) \o c = a \o (b \o c)
  BY JoinsAssociate
<1>3. \A a \in Seq(Binary) : Len(a) \in Nat
  OBVIOUS
<1> QED
  BY <1>1, <1>2, <1>3, Zenon

\* The sum of sums.
LEMMA SumsAdd ==
    ASSUME NEW n \in Nat, NEW a, NEW b, NEW c, NEW d,
           \A k \in 1 .. n : a[k] \in Nat /\ b[k] \in Nat /\ c[k] \in Nat /\ d[k] = a[k] + b[k] + c[k]
    PROVE  SumUpTo(d, n) = SumUpTo(a, n) + SumUpTo(b, n) + SumUpTo(c, n)
<1> DEFINE S == {m \in 0 .. n : SumUpTo(d, m) = SumUpTo(a, m) + SumUpTo(b, m) + SumUpTo(c, m)}
<1>1. /\ SumUpTo(a, 0) = 0
      /\ \A k \in 0 .. n : SumUpTo(a, k) \in Nat
      /\ \A k \in 1 .. n : SumUpTo(a, k) = SumUpTo(a, k - 1) + a[k]
  BY SumIs
<1>2. /\ SumUpTo(b, 0) = 0
      /\ \A k \in 0 .. n : SumUpTo(b, k) \in Nat
      /\ \A k \in 1 .. n : SumUpTo(b, k) = SumUpTo(b, k - 1) + b[k]
  BY SumIs
<1>3. /\ SumUpTo(c, 0) = 0
      /\ \A k \in 0 .. n : SumUpTo(c, k) \in Nat
      /\ \A k \in 1 .. n : SumUpTo(c, k) = SumUpTo(c, k - 1) + c[k]
  BY SumIs
<1>4. /\ SumUpTo(d, 0) = 0
      /\ \A k \in 1 .. n : SumUpTo(d, k) = SumUpTo(d, k - 1) + d[k]
  <2>1. \A k \in 1 .. n : d[k] \in Nat
    OBVIOUS
  <2> QED
    BY <2>1, SumIs
<1>5. 0 \in S
  BY <1>1, <1>2, <1>3, <1>4
<1>6. ASSUME NEW k \in 0 .. n - 1, k \in S PROVE k + 1 \in S
  <2> DEFINE q == k + 1
  <2>1. q \in 1 .. n /\ q - 1 = k /\ k \in 0 .. n /\ q \in 0 .. n
    OBVIOUS
  <2>2. SumUpTo(d, k) = SumUpTo(a, k) + SumUpTo(b, k) + SumUpTo(c, k)
    BY <1>6
  <2>3. SumUpTo(a, k) \in Nat /\ SumUpTo(b, k) \in Nat /\ SumUpTo(c, k) \in Nat
    BY <1>1, <1>2, <1>3, <2>1
  <2> HIDE DEF q
  <2>4. /\ SumUpTo(a, q) = SumUpTo(a, k) + a[q] /\ SumUpTo(b, q) = SumUpTo(b, k) + b[q]
        /\ SumUpTo(c, q) = SumUpTo(c, k) + c[q] /\ SumUpTo(d, q) = SumUpTo(d, k) + d[q]
    BY <1>1, <1>2, <1>3, <1>4, <2>1
  <2>5. a[q] \in Nat /\ b[q] \in Nat /\ c[q] \in Nat /\ d[q] = a[q] + b[q] + c[q]
    BY <2>1
  <2>6. SumUpTo(d, q) = SumUpTo(a, q) + SumUpTo(b, q) + SumUpTo(c, q)
    BY <2>2, <2>3, <2>4, <2>5
  <2>7. q \in S
    BY <2>1, <2>6
  <2> QED
    BY <2>7 DEF q
<1> HIDE DEF S
<1>7. \A k \in 0 .. n : k \in S
  BY <1>5, <1>6, CountsUp
<1> QED
  BY <1>7 DEF S

------------------------------------------------------------------------------
\* The bytes that tokens stand for.

\* A byte more.
LEMMA AddsOne ==
    ASSUME NEW s \in Seq(Nat), NEW x \in Nat
    PROVE  Append(s, x) \in Seq(Nat) /\ Len(Append(s, x)) = Len(s) + 1
OBVIOUS

\* A match is copied a byte at a time, each from bytes that are there.
Copies(f, bytes, distance, n) ==
    /\ f[0] = bytes
    /\ \A k \in 1 .. n : f[k - 1] \in Seq(Nat) /\ Len(f[k - 1]) >= Len(bytes) - distance + k =>
          f[k] = Append(f[k - 1], f[k - 1][Len(bytes) - distance + k])

\* A match grows by a byte with each step.
LEMMA CopyGrows ==
    ASSUME NEW bytes \in Seq(Nat), NEW distance \in 1 .. Len(bytes), NEW n \in Nat, NEW f,
           Copies(f, bytes, distance, n)
    PROVE  \A k \in 0 .. n : f[k] \in Seq(Nat) /\ Len(f[k]) = Len(bytes) + k
<1> DEFINE S == {k \in 0 .. n : f[k] \in Seq(Nat) /\ Len(f[k]) = Len(bytes) + k}
           L == Len(bytes)
<1>1. L \in Nat /\ distance \in Nat /\ distance >= 1 /\ distance <= L
  OBVIOUS
<1>2. 0 \in S
  BY DEF Copies
<1>3. ASSUME NEW k \in 0 .. n - 1, k \in S PROVE k + 1 \in S
  <2> DEFINE q == k + 1
             at1 == L - distance + q
             b == f[k]
  <2>1. q \in 1 .. n /\ q \in 0 .. n /\ q - 1 = k
    OBVIOUS
  <2>2. b \in Seq(Nat) /\ Len(b) = L + k
    BY <1>3
  <2>3. at1 \in 1 .. L + k
    BY <1>1
  <2>4. f[q] = Append(b, b[at1])
    <3> HIDE DEF q
    <3>1. f[q - 1] \in Seq(Nat) /\ Len(f[q - 1]) >= Len(bytes) - distance + q
      BY <1>1, <2>1, <2>2, <2>3
    <3> QED
      BY <2>1, <3>1, Zenon DEF Copies
  <2> HIDE DEF at1, b, q
  <2>5. b[at1] \in Nat
    BY <2>2, <2>3
  <2>6. Append(b, b[at1]) \in Seq(Nat) /\ Len(Append(b, b[at1])) = Len(b) + 1
    BY <2>2, <2>5, AddsOne, Zenon
  <2>7. Len(f[q]) = L + q
    BY <1>1, <2>1, <2>2, <2>4, <2>6
  <2>8. f[q] \in Seq(Nat)
    BY <2>4, <2>6
  <2>9. q \in S
    BY <2>1, <2>7, <2>8
  <2> QED
    BY <2>9 DEF q
<1> HIDE DEF S
<1>4. \A k \in 0 .. n : k \in S
  BY <1>2, <1>3, CountsUp, Zenon
<1> QED
  BY <1>4 DEF S

IsCopy(f, bytes, t) ==
    f = [k \in 0 .. t.length |->
            IF k = 0 THEN bytes
            ELSE LET before == f[k - 1]
                 IN  Append(before, before[(Len(bytes) - t.distance) + k])]

\* It adds as many bytes as it is long.
LEMMA CopyMatchIs ==
    ASSUME NEW bytes \in Seq(Nat), NEW t \in TokenRecords, t.distance \in 1 .. Len(bytes)
    PROVE  CopyMatch(bytes, t) \in Seq(Nat) /\ Len(CopyMatch(bytes, t)) = Len(bytes) + t.length
<1> DEFINE n == t.length
           start == Len(bytes) - t.distance
           V == Seq(Nat)
           g == [p \in (1 .. n) \X V |->
                   IF Len(p[2]) >= start + p[1] THEN Append(p[2], p[2][start + p[1]]) ELSE p[2]]
           copied == CHOOSE f : IsCopy(f, bytes, t)
<1>1. n \in Nat /\ start \in Nat /\ t.distance \in 1 .. Len(bytes)
  BY DEF TokenRecords
<1>2. CopyMatch(bytes, t) = copied[n]
  BY DEF CopyMatch, IsCopy
<1>3. g \in [(1 .. n) \X V -> V]
  <2>1. ASSUME NEW p \in (1 .. n) \X V
        PROVE  (IF Len(p[2]) >= start + p[1] THEN Append(p[2], p[2][start + p[1]]) ELSE p[2]) \in V
    <3> DEFINE a == p[1]
               b == p[2]
    <3>1. a \in 1 .. n /\ b \in V
      OBVIOUS
    <3> HIDE DEF a, b, n, start
    <3>2. start + a \in Nat /\ start + a >= 1
      BY <1>1, <3>1
    <3>3. Len(b) >= start + a => b[start + a] \in Nat
      BY <3>1, <3>2, SMTT(40)
    <3>4. (IF Len(b) >= start + a THEN Append(b, b[start + a]) ELSE b) \in V
      BY <3>1, <3>3
    <3> QED
      BY <3>4 DEF a, b
  <2> HIDE DEF V
  <2> QED
    BY <2>1
<1>4. PICK r : IsRecursion(r, n, V, bytes, g)
  <2>1. bytes \in V
    OBVIOUS
  <2> HIDE DEF g, n, V
  <2> QED
    BY <1>1, <1>3, <2>1, Recursion, Zenon
<1>5. /\ r \in [0 .. n -> V] /\ r[0] = bytes
      /\ \A k \in 1 .. n : r[k - 1] \in V /\
            r[k] = IF Len(r[k - 1]) >= start + k THEN Append(r[k - 1], r[k - 1][start + k]) ELSE r[k - 1]
  <2>1. r \in [0 .. n -> V] /\ r[0] = bytes /\ \A k \in 1 .. n : r[k] = g[<< k, r[k - 1] >>]
    BY <1>4, Zenon DEF IsRecursion
  <2>2. ASSUME NEW k \in 1 .. n
        PROVE  r[k - 1] \in V /\
               r[k] = IF Len(r[k - 1]) >= start + k THEN Append(r[k - 1], r[k - 1][start + k]) ELSE r[k - 1]
    <3>1. k - 1 \in 0 .. n
      BY <1>1
    <3>2. r[k - 1] \in V
      BY <2>1, <3>1, Zenon
    <3> HIDE DEF V
    <3>3. << k, r[k - 1] >> \in (1 .. n) \X V
      BY <3>2
    <3> QED
      BY <2>1, <3>2, <3>3, Zenon
  <2> QED
    BY <2>1, <2>2
<1> HIDE DEF g
<1>6. \A k \in 0 .. n : r[k] \in Seq(Nat) /\ Len(r[k]) = Len(bytes) + k
  <2> DEFINE d == t.distance
  <2>1. Copies(r, bytes, d, n)
    BY <1>5, Zenon DEF Copies
  <2>2. d \in 1 .. Len(bytes) /\ n \in Nat
    BY <1>1
  <2> HIDE DEF n, d, start
  <2> QED
    BY <2>1, <2>2, CopyGrows
<1>7. IsCopy(r, bytes, t)
  <2>1. ASSUME NEW k \in 0 .. n
        PROVE  r[k] = IF k = 0 THEN bytes ELSE Append(r[k - 1], r[k - 1][start + k])
    <3>1. CASE k = 0
      BY <1>5, <3>1
    <3>2. CASE k # 0
      <4>1. k \in 1 .. n /\ k - 1 \in 0 .. n
        BY <1>1, <3>2
      <4>2. Len(r[k - 1]) = Len(bytes) + (k - 1)
        BY <1>6, <4>1, Zenon
      <4> DEFINE m == Len(r[k - 1])
      <4>3. m >= start + k
        <5> HIDE DEF m
        <5>1. Len(bytes) \in Nat
          OBVIOUS
        <5> QED
          BY <1>1, <4>1, <4>2, <5>1 DEF m
      <4> QED
        BY <1>5, <3>2, <4>1, <4>3, Zenon
    <3> QED
      BY <3>1, <3>2
  <2> QED
    BY <1>5, <2>1, Zenon DEF IsCopy
<1>8. IsCopy(copied, bytes, t)
  <2>1. \E f : IsCopy(f, bytes, t)
    BY <1>7
  <2> QED
    BY <2>1
<1>9. copied[0] = bytes /\ \A k \in 1 .. n : copied[k] = Append(copied[k - 1], copied[k - 1][start + k])
  <2> HIDE DEF copied
  <2>1. copied = [k \in 0 .. n |->
                     IF k = 0 THEN bytes ELSE Append(copied[k - 1], copied[k - 1][start + k])]
    BY <1>8, Zenon DEF IsCopy
  <2> HIDE DEF start, n
  <2>2. \A k \in 0 .. n : copied[k] = IF k = 0 THEN bytes ELSE Append(copied[k - 1], copied[k - 1][start + k])
    BY <2>1, Zenon
  <2>3. 0 \in 0 .. n /\ \A k \in 1 .. n : k \in 0 .. n /\ k # 0
    BY <1>1
  <2> QED
    BY <2>2, <2>3, Zenon
<1> HIDE DEF copied
<1>10. \A k \in 0 .. n : copied[k] \in Seq(Nat) /\ Len(copied[k]) = Len(bytes) + k
  <2> DEFINE d == t.distance
  <2>1. Copies(copied, bytes, d, n)
    BY <1>9 DEF Copies
  <2>2. d \in 1 .. Len(bytes) /\ n \in Nat
    BY <1>1
  <2> HIDE DEF n, d, start
  <2> QED
    BY <2>1, <2>2, CopyGrows
<1>11. n \in 0 .. n
  BY <1>1
<1> QED
  BY <1>2, <1>10, <1>11

\* A token within reach adds the bytes it stands for.
LEMMA ReplayIs ==
    ASSUME NEW bytes \in Seq(Nat), NEW t \in TokenRecords, t.distance <= Len(bytes)
    PROVE  Replay(bytes, t) \in Seq(Nat) /\ Len(Replay(bytes, t)) = Len(bytes) + Width(t)
<1>1. bytes # CorruptBytes
  <2>1. CorruptBytes[1] = -1 /\ Len(CorruptBytes) = 1
    BY DEF CorruptBytes
  <2>2. ASSUME bytes = CorruptBytes PROVE FALSE
    <3>1. Len(bytes) = 1 /\ bytes[1] = -1
      BY <2>1, <2>2
    <3>2. bytes[1] \in Nat
      BY <3>1
    <3> QED
      BY <3>1, <3>2
  <2> QED
    BY <2>2
<1>2. CASE IsMatch(t)
  <2>1. t.distance \in 1 .. Len(bytes)
    BY <1>2 DEF IsMatch, TokenRecords
  <2>2. ~(t.distance > Len(bytes))
    BY <2>1
  <2>3. Replay(bytes, t) = CopyMatch(bytes, t) /\ Width(t) = t.length
    BY <1>1, <1>2, <2>2 DEF Replay, Width
  <2>4. CopyMatch(bytes, t) \in Seq(Nat) /\ Len(CopyMatch(bytes, t)) = Len(bytes) + t.length
    BY <2>1, CopyMatchIs
  <2> QED
    BY <2>3, <2>4
<1>3. CASE ~IsMatch(t)
  <2>1. t.literal \in Nat
    BY DEF TokenRecords
  <2>2. Replay(bytes, t) = Append(bytes, t.literal) /\ Width(t) = 1
    BY <1>1, <1>3 DEF Replay, Width
  <2>3. Append(bytes, t.literal) \in Seq(Nat) /\ Len(Append(bytes, t.literal)) = Len(bytes) + 1
    BY <2>1, AddsOne
  <2> QED
    BY <2>2, <2>3
<1> QED
  BY <1>2, <1>3

IsReplay(f, toks) ==
    f = [n \in 0 .. Len(toks) |-> IF n = 0 THEN << >> ELSE Replay(f[n - 1], toks[n])]

Replays(f, toks) ==
    /\ f[0] = << >>
    /\ \A k \in 1 .. Len(toks) : f[k - 1] \in Seq(Nat) /\ toks[k].distance <= Len(f[k - 1]) =>
          f[k] = Replay(f[k - 1], toks[k])

ReachesBack(toks) ==
    /\ toks \in Seq(TokenRecords)
    /\ \A k \in 1 .. Len(toks) : toks[k].distance <= CoveredBy(toks, k - 1)

\* The bytes grow by what each token stands for.
LEMMA ReplayGrows ==
    ASSUME NEW toks, ReachesBack(toks), NEW f, Replays(f, toks)
    PROVE  \A k \in 0 .. Len(toks) : f[k] \in Seq(Nat) /\ Len(f[k]) = CoveredBy(toks, k)
<1> DEFINE L == Len(toks)
           S == {k \in 0 .. L : f[k] \in Seq(Nat) /\ Len(f[k]) = CoveredBy(toks, k)}
<1>1. L \in Nat /\ toks \in Seq(TokenRecords)
  BY DEF ReachesBack
<1>2. /\ CoveredBy(toks, 0) = 0
      /\ \A k \in 0 .. L : CoveredBy(toks, k) \in Nat
      /\ \A k \in 1 .. L : CoveredBy(toks, k) = CoveredBy(toks, k - 1) + Width(toks[k])
  BY <1>1, CoveredIs
<1> HIDE DEF L
<1>3. 0 \in S
  <2>1. f[0] = << >>
    BY DEF Replays
  <2>2. << >> \in Seq(Nat) /\ Len(<< >>) = 0 /\ 0 \in 0 .. L
    BY <1>1
  <2> QED
    BY <1>2, <2>1, <2>2, Zenon
<1>4. ASSUME NEW k \in 0 .. L - 1, k \in S PROVE k + 1 \in S
  <2> DEFINE q == k + 1
             b == f[k]
             t == toks[q]
  <2>1. q \in 1 .. L /\ q \in 0 .. L /\ q - 1 = k
    BY <1>1
  <2>2. b \in Seq(Nat) /\ Len(b) = CoveredBy(toks, k)
    BY <1>4
  <2> HIDE DEF q
  <2>3. t \in TokenRecords /\ t.distance <= Len(b)
    BY <1>1, <2>1, <2>2 DEF ReachesBack, L
  <2>4. f[q] = Replay(b, t)
    BY <2>1, <2>2, <2>3 DEF Replays, L
  <2>5. CoveredBy(toks, q) = CoveredBy(toks, k) + Width(t)
    BY <1>2, <2>1
  <2> HIDE DEF b, t
  <2>6. Replay(b, t) \in Seq(Nat) /\ Len(Replay(b, t)) = Len(b) + Width(t)
    BY <2>2, <2>3, ReplayIs
  <2>7. q \in S
    BY <2>1, <2>2, <2>4, <2>5, <2>6
  <2> QED
    BY <2>7 DEF q
<1> HIDE DEF S
<1>5. \A k \in 0 .. L : k \in S
  BY <1>1, <1>3, <1>4, CountsUp
<1> QED
  BY <1>5 DEF S, L

\* Tokens that reach back no further than the bytes before them stand for as many bytes as they cover.
LEMMA DetokenizeIs ==
    ASSUME NEW toks, ReachesBack(toks)
    PROVE  Detokenize(toks) \in Seq(Nat) /\ Len(Detokenize(toks)) = Covered(toks)
<1> DEFINE n == Len(toks)
           V == Seq(Nat)
           g == [p \in (1 .. n) \X V |->
                   IF toks[p[1]].distance <= Len(p[2]) THEN Replay(p[2], toks[p[1]]) ELSE p[2]]
           bytes == CHOOSE f : IsReplay(f, toks)
<1>1. n \in Nat /\ toks \in Seq(TokenRecords)
  BY DEF ReachesBack
<1>2. Detokenize(toks) = bytes[n]
  BY DEF Detokenize, IsReplay
<1>3. g \in [(1 .. n) \X V -> V]
  <2>1. ASSUME NEW p \in (1 .. n) \X V
        PROVE  (IF toks[p[1]].distance <= Len(p[2]) THEN Replay(p[2], toks[p[1]]) ELSE p[2]) \in V
    <3> DEFINE t == toks[p[1]]
               b == p[2]
    <3>1. t \in TokenRecords /\ b \in V
      BY <1>1
    <3> HIDE DEF t, b
    <3>2. t.distance <= Len(b) => Replay(b, t) \in V
      BY <3>1, ReplayIs
    <3>3. (IF t.distance <= Len(b) THEN Replay(b, t) ELSE b) \in V
      BY <3>1, <3>2
    <3> QED
      BY <3>3 DEF t, b
  <2> HIDE DEF V
  <2> QED
    BY <2>1
<1>4. PICK r : IsRecursion(r, n, V, << >>, g)
  <2>1. << >> \in V
    OBVIOUS
  <2> HIDE DEF g, n, V
  <2> QED
    BY <1>1, <1>3, <2>1, Recursion, Zenon
<1>5. /\ r \in [0 .. n -> V] /\ r[0] = << >>
      /\ \A k \in 1 .. n : r[k - 1] \in V /\
            r[k] = IF toks[k].distance <= Len(r[k - 1]) THEN Replay(r[k - 1], toks[k]) ELSE r[k - 1]
  <2>1. r \in [0 .. n -> V] /\ r[0] = << >> /\ \A k \in 1 .. n : r[k] = g[<< k, r[k - 1] >>]
    BY <1>4, Zenon DEF IsRecursion
  <2>2. ASSUME NEW k \in 1 .. n
        PROVE  r[k - 1] \in V /\
               r[k] = IF toks[k].distance <= Len(r[k - 1]) THEN Replay(r[k - 1], toks[k]) ELSE r[k - 1]
    <3>1. k - 1 \in 0 .. n
      BY <1>1
    <3>2. r[k - 1] \in V
      BY <2>1, <3>1
    <3> HIDE DEF V
    <3>3. << k, r[k - 1] >> \in (1 .. n) \X V
      BY <3>2
    <3> QED
      BY <2>1, <3>2, <3>3, Zenon
  <2> QED
    BY <2>1, <2>2
<1> HIDE DEF g
<1>6. Replays(r, toks)
  BY <1>5 DEF Replays
<1>7. \A k \in 0 .. n : r[k] \in Seq(Nat) /\ Len(r[k]) = CoveredBy(toks, k)
  BY <1>6, ReplayGrows
<1>8. IsReplay(r, toks)
  <2>1. ASSUME NEW k \in 0 .. n
        PROVE  r[k] = IF k = 0 THEN << >> ELSE Replay(r[k - 1], toks[k])
    <3>1. CASE k = 0
      BY <1>5, <3>1
    <3>2. CASE k # 0
      <4>1. k \in 1 .. n /\ k - 1 \in 0 .. n
        BY <1>1, <3>2
      <4>2. toks[k].distance <= Len(r[k - 1])
        BY <1>7, <4>1 DEF ReachesBack
      <4> QED
        BY <1>5, <3>2, <4>1, <4>2
    <3> QED
      BY <3>1, <3>2
  <2> QED
    BY <1>5, <2>1 DEF IsReplay
<1>9. IsReplay(bytes, toks)
  <2>1. \E f : IsReplay(f, toks)
    BY <1>8
  <2> QED
    BY <2>1
<1>10. Replays(bytes, toks)
  <2> HIDE DEF bytes
  <2>1. bytes = [k \in 0 .. n |-> IF k = 0 THEN << >> ELSE Replay(bytes[k - 1], toks[k])]
    BY <1>9 DEF IsReplay
  <2> HIDE DEF n
  <2>2. \A k \in 0 .. n : bytes[k] = IF k = 0 THEN << >> ELSE Replay(bytes[k - 1], toks[k])
    BY <2>1, Zenon
  <2>3. 0 \in 0 .. n /\ \A k \in 1 .. n : k \in 0 .. n /\ k # 0
    BY <1>1
  <2>4. bytes[0] = << >> /\ \A k \in 1 .. n : bytes[k] = Replay(bytes[k - 1], toks[k])
    BY <2>2, <2>3
  <2> QED
    BY <2>4 DEF Replays, n
<1> HIDE DEF bytes
<1>11. \A k \in 0 .. n : bytes[k] \in Seq(Nat) /\ Len(bytes[k]) = CoveredBy(toks, k)
  BY <1>10, ReplayGrows
<1>12. n \in 0 .. n /\ Covered(toks) = CoveredBy(toks, n)
  BY <1>1, CoveredIs
<1> QED
  BY <1>2, <1>11, <1>12
==============================================================================
