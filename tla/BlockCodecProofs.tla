---------------------------- MODULE BlockCodecProofs ----------------------------
(***************************************************************************)
(* encodeBlock and decodeBlock with each of their three coders, for every  *)
(* block, parse, table of codes and payload, and every width of a byte and *)
(* of the accumulator.                                                     *)
(*                                                                         *)
(* LzInv, HuInv and DfInv say what each coder keeps: what it has written   *)
(* or read so far is the beginning of what the format lays down for the    *)
(* tokens or bytes so far.  CodecInv puts them together: the coder at work *)
(* keeps its own, a payload under way is smaller than the budget, and a    *)
(* stored one is the block.                                                *)
(***************************************************************************)
EXTENDS HuffmanProofs, BlockCodec

------------------------------------------------------------------------------
\* The tokens of Lzss

\* Lzss has the tokens defined here.
LEMMA LzTokens ==
    /\ \A b : Lz!Literal(b) = Literal(b)
    /\ \A m : Lz!Reference(m) = Reference(m)
    /\ \A t : Lz!IsMatch(t) = IsMatch(t)
    /\ \A t : Lz!Width(t) = Width(t)
    /\ \A parse, n : Lz!CoveredBy(parse, n) = CoveredBy(parse, n)
    /\ \A parse : Lz!Covered(parse) = Covered(parse)
    /\ \A parse, reach : Lz!WithinReach(parse, reach) = WithinReach(parse, reach)
    /\ Lz!Byte = Byte
<1>1. \A b : Lz!Literal(b) = Literal(b)
  BY DEF Lz!Literal, Literal
<1>2. \A m : Lz!Reference(m) = Reference(m)
  BY DEF Lz!Reference, Reference
<1>3. \A t : Lz!IsMatch(t) = IsMatch(t)
  BY DEF Lz!IsMatch, IsMatch
<1>4. \A t : Lz!Width(t) = Width(t)
  BY <1>3 DEF Lz!Width, Width
<1>5. \A term, n : Lz!SumUpTo(term, n) = SumUpTo(term, n)
  BY DEF Lz!SumUpTo, SumUpTo
<1>6. \A parse, n : Lz!CoveredBy(parse, n) = CoveredBy(parse, n)
  BY <1>4, <1>5 DEF Lz!CoveredBy, CoveredBy
<1>7. \A parse : Lz!Covered(parse) = Covered(parse)
  BY <1>6 DEF Lz!Covered, Covered
<1>8. \A parse, reach : Lz!WithinReach(parse, reach) = WithinReach(parse, reach)
  BY <1>6 DEF Lz!WithinReach, WithinReach
<1>9. Lz!Byte = Byte
  BY DEF Lz!Byte, Byte
<1> QED
  BY <1>1, <1>2, <1>3, <1>4, <1>6, <1>7, <1>8, <1>9

------------------------------------------------------------------------------
\* Where the tokens of a payload are

Laid(parse, n) ==
    2 + (n + ByteBits - 1) \div ByteBits + n + 2 * Cardinality({k \in 1 .. n : IsMatch(parse[k])})

FlagAt(parse, n) == Laid(parse, (n - 1) - ((n - 1) % ByteBits)) + 1

\* How long a payload is after so many tokens.
LEMMA LaidIs ==
    /\ \A parse, n : Lz!LaidUpTo(parse, n) = Laid(parse, n)
    /\ \A n : Lz!InGroup(n) = (n - 1) % ByteBits
    /\ \A parse, n : Lz!FlagsOf(parse, n) = FlagAt(parse, n)
<1>1. \A parse, n : Lz!LaidUpTo(parse, n) = Laid(parse, n)
  <2> SUFFICES ASSUME NEW parse, NEW n PROVE Lz!LaidUpTo(parse, n) = Laid(parse, n)
    OBVIOUS
  <2>1. {k \in 1 .. n : Lz!IsMatch(parse[k])} = {k \in 1 .. n : IsMatch(parse[k])}
    BY LzTokens
  <2>2. \A S : Lz!Cardinality(S) = Cardinality(S)
    BY DEF Lz!Cardinality, Cardinality
  <2> QED
    BY <2>1, <2>2, Zenon DEF Lz!LaidUpTo, Laid
<1>2. \A n : Lz!InGroup(n) = (n - 1) % ByteBits
  BY DEF Lz!InGroup
<1>3. \A parse, n : Lz!FlagsOf(parse, n) = FlagAt(parse, n)
  BY <1>1, <1>2 DEF Lz!FlagsOf, FlagAt
<1> QED
  BY <1>1, <1>2, <1>3

\* The token after n others: its group is begun by it or by the one before.
LEMMA NextInGroup ==
    ASSUME NEW n \in Nat
    PROVE  /\ n % ByteBits \in 0 .. ByteBits - 1
           /\ (n + 1) % ByteBits = IF n % ByteBits = ByteBits - 1 THEN 0 ELSE (n % ByteBits) + 1
           /\ ((n + 1) + ByteBits - 1) \div ByteBits
                 = (n + ByteBits - 1) \div ByteBits + IF n % ByteBits = 0 THEN 1 ELSE 0
           /\ (n + ByteBits - 1) \div ByteBits \in Nat
           /\ n - (n % ByteBits) \in 0 .. n
           /\ n % ByteBits # 0 =>
                 n >= 1 /\ (n - 1) % ByteBits = (n % ByteBits) - 1
                 /\ (n - 1) - ((n - 1) % ByteBits) = n - (n % ByteBits)
<1> DEFINE B == ByteBits
           q == n \div B
           r == n % B
<1>1. B \in Nat \ {0}
  BY ByteIs
<1> HIDE DEF B
<1>2. n = B * q + r /\ q \in Nat /\ r \in 0 .. B - 1 /\ B * q \in Nat
  BY <1>1, DividesInto, Zenon
<1> HIDE DEF q, r
<1>3. (n + 1) % B = IF r = B - 1 THEN 0 ELSE r + 1
  <2>1. CASE r = B - 1
    <3>1. n + 1 = B * (q + 1) + 0 /\ q + 1 \in Nat /\ 0 \in 0 .. B - 1
      BY <1>1, <1>2, <2>1
    <3> QED
      BY <1>1, <2>1, <3>1, RemainderIs
  <2>2. CASE r # B - 1
    <3>1. n + 1 = B * q + (r + 1) /\ r + 1 \in 0 .. B - 1
      BY <1>1, <1>2, <2>2
    <3> QED
      BY <1>1, <1>2, <2>2, <3>1, RemainderIs
  <2> QED
    BY <2>1, <2>2
<1>4. ((n + 1) + B - 1) \div B = q + 1
  <2>1. (n + 1) + B - 1 = B * (q + 1) + r /\ q + 1 \in Nat
    BY <1>1, <1>2
  <2>2. (n + 1) + B - 1 \in Nat
    BY <1>1
  <2> QED
    BY <1>1, <1>2, <2>1, <2>2, RemainderIs
<1>5. (n + B - 1) \div B = q + IF r = 0 THEN 0 ELSE 1
  <2>1. CASE r = 0
    <3>1. n + B - 1 = B * q + (B - 1) /\ B - 1 \in 0 .. B - 1 /\ n + B - 1 \in Nat
      BY <1>1, <1>2, <2>1
    <3>2. (n + B - 1) \div B = q
      BY <1>1, <1>2, <3>1, RemainderIs
    <3> QED
      BY <1>2, <2>1, <3>2
  <2>2. CASE r # 0
    <3>1. n + B - 1 = B * (q + 1) + (r - 1) /\ r - 1 \in 0 .. B - 1 /\ n + B - 1 \in Nat /\ q + 1 \in Nat
      BY <1>1, <1>2, <2>2
    <3> QED
      BY <1>1, <2>2, <3>1, RemainderIs
  <2> QED
    BY <2>1, <2>2
<1>6. ASSUME r # 0 PROVE n >= 1 /\ (n - 1) % B = r - 1 /\ (n - 1) - ((n - 1) % B) = n - r
  <2>1. n - 1 = B * q + (r - 1) /\ r - 1 \in 0 .. B - 1 /\ n >= 1 /\ n - 1 \in Nat
    BY <1>1, <1>2, <1>6
  <2>2. (n - 1) % B = r - 1
    BY <1>1, <1>2, <2>1, RemainderIs, Zenon
  <2>3. (n - 1) - (r - 1) = n - r
    BY <1>2
  <2> QED
    BY <2>1, <2>2, <2>3
<1>7. n - r \in 0 .. n
  BY <1>2
<1>8. ((n + 1) + B - 1) \div B = (n + B - 1) \div B + IF r = 0 THEN 1 ELSE 0
  BY <1>2, <1>4, <1>5
<1>9. (n + B - 1) \div B \in Nat
  BY <1>2, <1>5
<1> QED
  BY <1>2, <1>3, <1>6, <1>7, <1>8, <1>9 DEF B, r

\* The matches among the first n tokens, and among one more.
LEMMA MatchesAre ==
    ASSUME NEW parse, NEW n \in Nat
    PROVE  /\ IsFiniteSet({k \in 1 .. n : IsMatch(parse[k])})
           /\ Cardinality({k \in 1 .. n : IsMatch(parse[k])}) \in Nat
           /\ Cardinality({k \in 1 .. n + 1 : IsMatch(parse[k])})
                 = Cardinality({k \in 1 .. n : IsMatch(parse[k])}) + IF IsMatch(parse[n + 1]) THEN 1 ELSE 0
<1> DEFINE M(m) == {k \in 1 .. m : IsMatch(parse[k])}
<1>1. IsFiniteSet(M(n))
  <2>1. M(n) \in SUBSET (1 .. n) /\ IsFiniteSet(1 .. n)
    BY FS_Interval
  <2> QED
    BY <2>1, FS_Subset
<1>2. Cardinality(M(n)) \in Nat
  BY <1>1, FS_CardinalityType
<1>3. CASE IsMatch(parse[n + 1])
  <2>1. M(n + 1) = M(n) \cup {n + 1} /\ n + 1 \notin M(n)
    BY <1>3
  <2>2. Cardinality(M(n) \cup {n + 1}) = Cardinality(M(n)) + 1
    <3> HIDE DEF M
    <3> QED
      BY <1>1, <2>1, FS_AddElement
  <2> QED
    BY <1>1, <1>2, <1>3, <2>1, <2>2
<1>4. CASE ~IsMatch(parse[n + 1])
  <2>1. M(n + 1) = M(n)
    BY <1>4
  <2>2. Cardinality(M(n + 1)) = Cardinality(M(n))
    BY <2>1
  <2> HIDE DEF M
  <2>3. Cardinality(M(n + 1)) = Cardinality(M(n)) + IF IsMatch(parse[n + 1]) THEN 1 ELSE 0
    BY <1>2, <1>4, <2>2
  <2> QED
    BY <1>1, <1>2, <2>3 DEF M
<1> QED
  BY <1>3, <1>4

\* A token takes a byte or three, and the first of a group one more for the flags.
LEMMA LaidNext ==
    ASSUME NEW parse, NEW n \in Nat
    PROVE  /\ Laid(parse, 0) = 2
           /\ Laid(parse, n) \in Nat /\ Laid(parse, n) >= 2
           /\ Laid(parse, n + 1) = Laid(parse, n) + (IF n % ByteBits = 0 THEN 1 ELSE 0)
                                                  + (IF IsMatch(parse[n + 1]) THEN 3 ELSE 1)
<1> DEFINE M(m) == Cardinality({k \in 1 .. m : IsMatch(parse[k])})
           G(m) == (m + ByteBits - 1) \div ByteBits
<1>1. Laid(parse, n) = 2 + G(n) + n + 2 * M(n) /\ Laid(parse, n + 1) = 2 + G(n + 1) + (n + 1) + 2 * M(n + 1)
      /\ Laid(parse, 0) = 2 + G(0) + 0 + 2 * M(0)
  BY DEF Laid
<1>2. M(n) \in Nat /\ M(n + 1) = M(n) + IF IsMatch(parse[n + 1]) THEN 1 ELSE 0
  BY MatchesAre, Zenon
<1>3. G(n) \in Nat /\ G(n + 1) = G(n) + IF n % ByteBits = 0 THEN 1 ELSE 0
  BY NextInGroup
<1>4. M(0) = 0
  <2>1. {k \in 1 .. 0 : IsMatch(parse[k])} = {}
    OBVIOUS
  <2> QED
    BY <2>1, FS_EmptySet
<1>5. G(0) = 0
  <2>1. ByteBits \in Nat \ {0} /\ 0 + ByteBits - 1 = ByteBits * 0 + (ByteBits - 1)
        /\ ByteBits - 1 \in 0 .. ByteBits - 1 /\ 0 + ByteBits - 1 \in Nat
    BY ByteIs
  <2> QED
    BY <2>1, RemainderIs
<1> HIDE DEF M, G
<1>6. CASE IsMatch(parse[n + 1])
  BY <1>1, <1>2, <1>3, <1>4, <1>5, <1>6
<1>7. CASE ~IsMatch(parse[n + 1])
  BY <1>1, <1>2, <1>3, <1>4, <1>5, <1>7
<1> QED
  BY <1>6, <1>7

\* A payload is longer after more tokens.
LEMMA LaidGrows ==
    ASSUME NEW parse, NEW m \in Nat, NEW n \in Nat, m <= n
    PROVE  Laid(parse, m) <= Laid(parse, n) /\ Laid(parse, m) \in Nat /\ Laid(parse, n) \in Nat
<1> DEFINE S == {k \in 0 .. n - m : Laid(parse, m) <= Laid(parse, m + k)}
<1>1. n - m \in Nat /\ Laid(parse, m) \in Nat
  BY LaidNext
<1>2. 0 \in S
  BY <1>1
<1>3. ASSUME NEW k \in 0 .. (n - m) - 1, k \in S PROVE k + 1 \in S
  <2>1. m + k \in Nat /\ (m + k) + 1 = m + (k + 1)
    BY <1>1
  <2>2. Laid(parse, m + k) \in Nat /\ Laid(parse, m + k) <= Laid(parse, m + (k + 1)) /\ Laid(parse, m + (k + 1)) \in Nat
    BY <2>1, LaidNext
  <2> QED
    BY <1>1, <1>3, <2>2
<1>4. \A k \in 0 .. n - m : k \in S
  <2> HIDE DEF S
  <2> QED
    BY <1>1, <1>2, <1>3, CountsUp
<1>5. n - m \in S /\ m + (n - m) = n
  <2>1. n - m \in 0 .. n - m /\ m + (n - m) = n
    BY <1>1
  <2> HIDE DEF S
  <2> QED
    BY <1>4, <2>1
<1> QED
  BY <1>5, LaidNext

\* It is what comes before that counts.
LEMMA LaidAgrees ==
    ASSUME NEW parse, NEW p, NEW n \in Nat, \A k \in 1 .. n : p[k] = parse[k]
    PROVE  /\ \A m \in 0 .. n : Laid(p, m) = Laid(parse, m)
           /\ \A m \in 1 .. n + 1 : FlagAt(p, m) = FlagAt(parse, m)
<1>1. ASSUME NEW m \in 0 .. n PROVE Laid(p, m) = Laid(parse, m)
  <2>1. {k \in 1 .. m : IsMatch(p[k])} = {k \in 1 .. m : IsMatch(parse[k])}
    OBVIOUS
  <2> QED
    BY <2>1 DEF Laid
<1>2. ASSUME NEW m \in 1 .. n + 1 PROVE FlagAt(p, m) = FlagAt(parse, m)
  <2>1. (m - 1) - ((m - 1) % ByteBits) \in 0 .. n
    <3>1. m - 1 \in Nat /\ m - 1 <= n
      OBVIOUS
    <3>2. (m - 1) - ((m - 1) % ByteBits) \in 0 .. m - 1
      BY <3>1, NextInGroup
    <3> QED
      BY <3>1, <3>2
  <2> QED
    BY <1>1, <2>1 DEF FlagAt
<1> QED
  BY <1>1, <1>2

\* The flags of a token are in the payload before it.
LEMMA FlagIsAt ==
    ASSUME NEW parse, NEW n \in Nat
    PROVE  /\ FlagAt(parse, n + 1) \in 3 .. Laid(parse, n + 1)
           /\ n % ByteBits = 0 => FlagAt(parse, n + 1) = Laid(parse, n) + 1
           /\ n % ByteBits # 0 => FlagAt(parse, n + 1) = FlagAt(parse, n) /\ FlagAt(parse, n + 1) <= Laid(parse, n)
<1> DEFINE j == n % ByteBits
           s == n - j
<1>1. FlagAt(parse, n + 1) = Laid(parse, s) + 1
  <2>1. (n + 1) - 1 = n
    OBVIOUS
  <2> QED
    BY <2>1 DEF FlagAt
<1>2. s \in 0 .. n /\ j \in 0 .. ByteBits - 1 /\ ByteBits \in Nat
  BY NextInGroup, ByteIs, Zenon
<1>3. Laid(parse, s) \in Nat /\ Laid(parse, s) >= 2
  BY <1>2, LaidNext
<1>4. CASE j = 0
  <2>1. s = n
    BY <1>2, <1>4
  <2>2. Laid(parse, n + 1) >= Laid(parse, n) + 1 /\ Laid(parse, n + 1) \in Nat
    BY <1>4, <2>1, <1>3, LaidNext
  <2> QED
    BY <1>1, <1>3, <1>4, <2>1, <2>2
<1>5. CASE j # 0
  <2>1. n >= 1 /\ (n - 1) - ((n - 1) % ByteBits) = s
    BY <1>5, NextInGroup
  <2>2. FlagAt(parse, n) = Laid(parse, s) + 1
    BY <2>1 DEF FlagAt
  <2>3. s + 1 \in Nat /\ s + 1 <= n
    BY <1>2, <1>5
  <2>4. Laid(parse, s + 1) <= Laid(parse, n) /\ Laid(parse, n) <= Laid(parse, n + 1)
        /\ Laid(parse, s + 1) \in Nat /\ Laid(parse, n) \in Nat /\ Laid(parse, n + 1) \in Nat
    BY <2>3, LaidGrows
  <2>5. Laid(parse, s) + 1 <= Laid(parse, s + 1)
    BY <1>2, <1>3, LaidNext
  <2> QED
    BY <1>1, <1>3, <1>5, <2>2, <2>4, <2>5
<1> QED
  BY <1>4, <1>5

------------------------------------------------------------------------------
\* Reading a payload of tokens

\* The bytes hold a token of a list where it is laid.
Holds(bytes, parse, k) ==
    /\ SubSeq(bytes, Laid(parse, k) - Len(Lz!Fields(parse[k])) + 1, Laid(parse, k)) = Lz!Fields(parse[k])
    /\ IsMatch(parse[k]) <=> (bytes[FlagAt(parse, k)] \div 2 ^ (ByteBits - 1 - ((k - 1) % ByteBits))) % 2 = 1

\* Lzss!LaidOut says of each token that the payload holds it.
LEMMA LaidOutIs ==
    ASSUME NEW parse
    PROVE  Lz!LaidOut(parse) <=> \A k \in DOMAIN parse : Holds(payload, parse, k)
BY LaidIs, LzTokens DEF Lz!LaidOut, Holds

\* Lists that begin in the same way hold their first tokens in the same bytes.
LEMMA HoldsAgrees ==
    ASSUME NEW bytes, NEW parse, NEW p, NEW k \in Nat \ {0}, \A m \in 1 .. k : p[m] = parse[m]
    PROVE  Holds(bytes, p, k) <=> Holds(bytes, parse, k)
<1>1. Laid(p, k) = Laid(parse, k) /\ FlagAt(p, k) = FlagAt(parse, k) /\ p[k] = parse[k]
  BY LaidAgrees
<1> QED
  BY <1>1 DEF Holds

\* The fields of a token.
LEMMA FieldsAre ==
    ASSUME NEW t
    PROVE  /\ ~IsMatch(t) => Lz!Fields(t) = <<t.literal>> /\ Len(Lz!Fields(t)) = 1
           /\ IsMatch(t) =>
                 /\ Lz!Fields(t) = << ((t.distance - 1) % 2 ^ (2 * ByteBits)) % 2 ^ ByteBits,
                                      ((t.distance - 1) % 2 ^ (2 * ByteBits)) \div 2 ^ ByteBits,
                                      (t.length - minMatch) % 2 ^ ByteBits >>
                 /\ Len(Lz!Fields(t)) = 3
BY LzTokens DEF Lz!Fields

LzReading ==
    /\ Len(payload) >= 2 /\ windowBits = payload[1] /\ minMatch = payload[2]
    /\ windowBits \in Windows["lz77"] /\ minMatch \in MinMatches["lz77"]
    /\ decoded \in Seq(TokenRecords)
    /\ at = Laid(decoded, Len(decoded)) /\ at <= Len(payload)
    /\ inGroup = IF Len(decoded) % ByteBits = 0 THEN 0 ELSE ByteBits - (Len(decoded) % ByteBits)
    /\ inGroup # 0 =>
          flags = (payload[FlagAt(decoded, Len(decoded))] * 2 ^ (Len(decoded) % ByteBits)) % 2 ^ ByteBits
    /\ \A k \in DOMAIN decoded : Holds(payload, decoded, k)
    /\ Covered(decoded) <= original
    /\ WithinReach(decoded, 2 ^ windowBits)

\* A list of no tokens.
LEMMA NoTokens ==
    /\ << >> \in Seq(TokenRecords) /\ Covered(<< >>) = 0
    /\ \A reach : WithinReach(<< >>, reach)
    /\ Laid(<< >>, 0) = 2
<1>1. << >> \in Seq(TokenRecords) /\ Len(<< >>) = 0
  OBVIOUS
<1>2. Covered(<< >>) = 0
  BY <1>1, CoveredIs, Zenon
<1>3. \A reach : WithinReach(<< >>, reach)
  BY DEF WithinReach
<1> QED
  BY <1>1, <1>2, <1>3, LaidNext

\* The flags at hand when the next token is read: those of its group, shifted.
LEMMA FlagsAre ==
    ASSUME LzReading, payload \in Seq(Byte), Len(payload) - at >= Lz!FlagTaken
    PROVE  LET n == Len(decoded)
               j == n % ByteBits
               b == payload[FlagAt(decoded, n + 1)]
           IN  /\ Lz!FlagTaken = IF j = 0 THEN 1 ELSE 0
               /\ b \in Byte
               /\ Lz!Flags \in Nat
               /\ Lz!NextIsMatch <=> (b \div 2 ^ (ByteBits - 1 - j)) % 2 = 1
               /\ (2 * Lz!Flags) % 2 ^ ByteBits = (b * 2 ^ (j + 1)) % 2 ^ ByteBits
<1> DEFINE n == Len(decoded)
           j == n % ByteBits
           b == payload[FlagAt(decoded, n + 1)]
<1>1. n \in Nat /\ j \in 0 .. ByteBits - 1 /\ ByteBits \in Nat \ {0} /\ Len(payload) \in Nat
      /\ at \in Nat /\ at = Laid(decoded, n) /\ at <= Len(payload)
  <2>1. n \in Nat
    BY DEF LzReading
  <2>2. at = Laid(decoded, n) /\ at <= Len(payload)
    BY DEF LzReading
  <2>3. Len(payload) \in Nat
    OBVIOUS
  <2> HIDE DEF n
  <2> QED
    BY <2>1, <2>2, <2>3, NextInGroup, ByteIs, LaidNext
<1>2. /\ FlagAt(decoded, n + 1) \in 3 .. Laid(decoded, n + 1)
      /\ j = 0 => FlagAt(decoded, n + 1) = at + 1
      /\ j # 0 => FlagAt(decoded, n + 1) = FlagAt(decoded, n) /\ FlagAt(decoded, n + 1) <= at
  <2> HIDE DEF n
  <2> QED
    BY <1>1, FlagIsAt, Zenon
<1>3. inGroup = (IF j = 0 THEN 0 ELSE ByteBits - j) /\ (inGroup = 0 <=> j = 0)
  BY <1>1 DEF LzReading
<1>4. Lz!FlagTaken = IF j = 0 THEN 1 ELSE 0
  BY <1>3 DEF Lz!FlagTaken
<1>5. b \in Byte
  <2>1. FlagAt(decoded, n + 1) \in 1 .. Len(payload)
    BY <1>1, <1>2, <1>4, SMTT(40)
  <2> QED
    BY <2>1
<1>6. Lz!Flags = (b * 2 ^ j) % 2 ^ ByteBits
  <2>1. CASE j = 0
    <3>1. Lz!Flags = b
      BY <1>2, <1>3, <2>1 DEF Lz!Flags
    <3>2. b \in 0 .. 2 ^ ByteBits - 1 /\ b \in Nat /\ 2 ^ ByteBits \in Nat \ {0}
      BY <1>5, ByteIs
    <3>3. b * 2 ^ j = b
      BY <2>1, <3>2, PowersOf, ByteIs
    <3>4. b = 2 ^ ByteBits * 0 + b
      BY <3>2
    <3> HIDE DEF b
    <3>5. b % 2 ^ ByteBits = b
      BY <3>2, <3>4, RemainderIs
    <3> QED
      BY <3>1, <3>3, <3>5
  <2>2. CASE j # 0
    BY <1>2, <1>3, <2>2 DEF LzReading, Lz!Flags
  <2> QED
    BY <2>1, <2>2
<1> DEFINE f == Lz!Flags
<1>7. f = (b * 2 ^ j) % 2 ^ ByteBits /\ b \in 0 .. 2 ^ ByteBits - 1
  BY <1>5, <1>6, ByteIs
<1>8. Lz!NextIsMatch <=> f >= 2 ^ (ByteBits - 1)
  BY DEF Lz!NextIsMatch
<1> HIDE DEF f, b, j
<1>9. /\ f \in Nat
      /\ f >= 2 ^ (ByteBits - 1) <=> (b \div 2 ^ (ByteBits - 1 - j)) % 2 = 1
      /\ (2 * f) % 2 ^ ByteBits = (b * 2 ^ (j + 1)) % 2 ^ ByteBits
  BY <1>1, <1>7, ByteIs, TopFlag, ZenonT(60)
<1> QED
  BY <1>4, <1>5, <1>8, <1>9 DEF f, b, j

\* The token that is read, given that all of it is there.
ReadHere == IF Lz!NextIsMatch THEN Reference(Lz!ReadReference) ELSE Literal(payload[Lz!TokenAt + 1])

\* What ReadToken reads is the token that is there.
LEMMA ReadHereIs ==
    ASSUME LzReading, payload \in Seq(Byte), Lz!Complete
    PROVE  /\ ReadHere \in TokenRecords
           /\ IsMatch(ReadHere) <=> Lz!NextIsMatch
           /\ Lz!NextIsMatch =>
                 /\ ReadHere.distance = Lz!ReadReference.distance
                 /\ ReadHere.length = Lz!ReadReference.length
           /\ ~Lz!NextIsMatch => ReadHere.distance = 0
           /\ Lz!TokenAt \in Nat /\ Lz!TokenAt = at + Lz!FlagTaken
           /\ Lz!TokenSize = (IF Lz!NextIsMatch THEN 3 ELSE 1)
           /\ Lz!TokenAt + Lz!TokenSize <= Len(payload)
           /\ SubSeq(payload, Lz!TokenAt + 1, Lz!TokenAt + Lz!TokenSize) = Lz!Fields(ReadHere)
<1> DEFINE e == Lz!TokenAt
<1>1. Len(payload) \in Nat /\ at \in Nat /\ Lz!FlagTaken \in 0 .. 1 /\ e = at + Lz!FlagTaken
      /\ Len(payload) - e >= Lz!TokenSize /\ Lz!TokenSize = (IF Lz!NextIsMatch THEN 3 ELSE 1)
      /\ Len(decoded) \in Nat
  <2>1. at = Laid(decoded, Len(decoded)) /\ Len(decoded) \in Nat
    BY DEF LzReading
  <2>2. at \in Nat
    BY <2>1, LaidNext
  <2>3. Lz!FlagTaken \in 0 .. 1
    BY DEF Lz!FlagTaken
  <2> QED
    BY <2>1, <2>2, <2>3 DEF Lz!Complete, Lz!TokenAt, Lz!TokenSize
<1> HIDE DEF e
<1>2. e \in Nat /\ e + Lz!TokenSize <= Len(payload)
  BY <1>1
<1>3. minMatch \in Byte /\ minMatch \in Nat
  <2>1. minMatch \in MinMatches["lz77"]
    BY DEF LzReading
  <2> QED
    BY <2>1, BlockCodecAssumption, ByteIs, Zenon
<1>4. CASE Lz!NextIsMatch
  <2> DEFINE a == payload[e + 1]
             b == payload[e + 2]
             c == payload[e + 3]
             W == 2 ^ ByteBits
             x == a + b * W
  <2>1. e + 1 \in 1 .. Len(payload) /\ e + 2 \in 1 .. Len(payload) /\ e + 3 \in 1 .. Len(payload)
        /\ e + 3 \in 3 .. Len(payload) /\ Lz!TokenSize = 3 /\ (e + 3) - 2 = e + 1 /\ (e + 3) - 1 = e + 2
    BY <1>1, <1>2, <1>4
  <2>2. a \in Byte /\ b \in Byte /\ c \in Byte
    BY <2>1
  <2>3. Lz!ReadReference = [distance |-> x + 1, length |-> c + minMatch]
    BY DEF Lz!ReadReference, e
  <2>4. ReadHere = [distance |-> x + 1, length |-> c + minMatch, literal |-> 0]
    <3> HIDE DEF x, c
    <3> QED
      BY <1>4, <2>3 DEF ReadHere, Reference
  <2> HIDE DEF a, b, c
  <2>5. x \in 0 .. 2 ^ (2 * ByteBits) - 1 /\ x % W = a /\ x \div W = b
    BY <2>2, TwoBytes
  <2>6. x \in Nat /\ c \in 0 .. W - 1 /\ W \in Nat \ {0} /\ 2 ^ (2 * ByteBits) \in Nat \ {0}
    <3>1. W \in Nat \ {0} /\ 2 ^ (2 * ByteBits) = W * W /\ Byte = 0 .. W - 1
      BY ByteIs
    <3>2. W * W \in Nat \ {0}
      BY <3>1
    <3> HIDE DEF x, W
    <3> QED
      BY <2>2, <2>5, <3>1, <3>2
  <2> HIDE DEF W, x
  <2>7. ReadHere \in TokenRecords /\ ReadHere.distance = x + 1 /\ ReadHere.length = c + minMatch /\ IsMatch(ReadHere)
    BY <1>3, <2>4, <2>6 DEF TokenRecords, IsMatch
  <2>8. ReadHere.distance - 1 = x /\ ReadHere.length - minMatch = c
    BY <1>3, <2>6, <2>7
  <2>9. x % 2 ^ (2 * ByteBits) = x /\ c % W = c
    <3> DEFINE V == 2 ^ (2 * ByteBits)
    <3>1. x \in 0 .. V - 1 /\ V \in Nat \ {0}
      BY <2>5, <2>6
    <3> HIDE DEF V
    <3>2. x = V * 0 + x /\ c = W * 0 + c /\ x \in Nat /\ c \in Nat
      BY <2>6, <3>1
    <3>3. x % V = x /\ c % W = c
      BY <2>6, <3>1, <3>2, RemainderIs
    <3> QED
      BY <3>3 DEF V
  <2>10. Lz!Fields(ReadHere) = <<a, b, c>>
    <3>1. Lz!Fields(ReadHere) =
             << ((ReadHere.distance - 1) % 2 ^ (2 * ByteBits)) % 2 ^ ByteBits,
                ((ReadHere.distance - 1) % 2 ^ (2 * ByteBits)) \div 2 ^ ByteBits,
                (ReadHere.length - minMatch) % 2 ^ ByteBits >>
      BY <2>7, FieldsAre
    <3> QED
      BY <2>5, <2>8, <2>9, <3>1 DEF W
  <2>11. SubSeq(payload, e + 1, e + 3) = <<a, b, c>>
    BY <2>1, Three DEF a, b, c
  <2> QED
    BY <1>1, <1>2, <1>4, <2>1, <2>3, <2>7, <2>10, <2>11 DEF e
<1>5. CASE ~Lz!NextIsMatch
  <2>1. e + 1 \in 1 .. Len(payload) /\ Lz!TokenSize = 1
    BY <1>1, <1>2, <1>5
  <2>2. payload[e + 1] \in Byte /\ payload[e + 1] \in Nat
    BY <2>1, ByteIs
  <2>3. ReadHere = [distance |-> 0, length |-> 0, literal |-> payload[e + 1]]
    BY <1>5 DEF ReadHere, Literal, e
  <2>4. ReadHere \in TokenRecords /\ ~IsMatch(ReadHere) /\ ReadHere.literal = payload[e + 1] /\ ReadHere.distance = 0
    BY <2>2, <2>3 DEF TokenRecords, IsMatch
  <2>5. SubSeq(payload, e + 1, e + 1) = <<payload[e + 1]>>
    BY <2>1, One
  <2> QED
    BY <1>1, <1>2, <1>5, <2>1, <2>4, <2>5, FieldsAre DEF e
<1> QED
  BY <1>4, <1>5

\* A step that reads a token keeps what the decoder promises.
LEMMA LzReads ==
    ASSUME LzReading, payload \in Seq(Byte), original \in Nat, Lz!ReadToken
    PROVE  LzReading' /\ decoded' = Append(decoded, ReadHere) /\ payload' = payload /\ original' = original
<1> DEFINE n == Len(decoded)
           j == n % ByteBits
           b == payload[FlagAt(decoded, n + 1)]
           t == ReadHere
           W == 2 ^ ByteBits
<1>1. /\ Lz!Complete /\ (Lz!NextIsMatch => Lz!Legal(Lz!ReadReference))
      /\ stage = "decode" /\ Covered(decoded) < original
      /\ decoded' = Append(decoded, t)
      /\ flags' = (2 * Lz!Flags) % W
      /\ inGroup' = (IF inGroup = 0 THEN ByteBits ELSE inGroup) - 1
      /\ at' = Lz!TokenAt + Lz!TokenSize
      /\ windowBits' = windowBits /\ minMatch' = minMatch /\ payload' = payload /\ original' = original
  BY LzTokens DEF Lz!ReadToken, Lz!Readable, Lz!Unfinished, Lz!config, ReadHere
<1>2. /\ t \in TokenRecords
      /\ IsMatch(t) <=> Lz!NextIsMatch
      /\ Lz!NextIsMatch => t.distance = Lz!ReadReference.distance /\ t.length = Lz!ReadReference.length
      /\ ~Lz!NextIsMatch => t.distance = 0
      /\ Lz!TokenAt \in Nat /\ Lz!TokenAt = at + Lz!FlagTaken
      /\ Lz!TokenSize = (IF Lz!NextIsMatch THEN 3 ELSE 1)
      /\ Lz!TokenAt + Lz!TokenSize <= Len(payload)
      /\ SubSeq(payload, Lz!TokenAt + 1, Lz!TokenAt + Lz!TokenSize) = Lz!Fields(t)
  BY <1>1, ReadHereIs, Zenon
<1>3. /\ Lz!FlagTaken = IF j = 0 THEN 1 ELSE 0
      /\ b \in Byte
      /\ Lz!NextIsMatch <=> (b \div 2 ^ (ByteBits - 1 - j)) % 2 = 1
      /\ (2 * Lz!Flags) % W = (b * 2 ^ (j + 1)) % W
  <2>1. Len(payload) - at >= Lz!FlagTaken
    BY <1>1 DEF Lz!Complete
  <2> QED
    BY <2>1, FlagsAre
<1> HIDE DEF t
<1>4. decoded \in Seq(TokenRecords) /\ n \in Nat /\ DOMAIN decoded = 1 .. n /\ at = Laid(decoded, n)
  BY DEF LzReading
<1> DEFINE p == Append(decoded, t)
<1>5. /\ p \in Seq(TokenRecords) /\ Len(p) = n + 1 /\ p[n + 1] = t /\ \A k \in 1 .. n : p[k] = decoded[k]
      /\ Covered(p) = Covered(decoded) + Width(t)
      /\ \A reach \in Nat :
            WithinReach(decoded, reach) /\ t.distance <= reach /\ t.distance <= Covered(decoded)
               => WithinReach(p, reach)
  BY <1>2, <1>4, AppendCovers
<1> HIDE DEF p
<1>6. /\ \A m \in 0 .. n : Laid(p, m) = Laid(decoded, m)
      /\ \A m \in 1 .. n + 1 : FlagAt(p, m) = FlagAt(decoded, m)
  BY <1>4, <1>5, LaidAgrees, Zenon
<1>7. Lz!TokenAt + Lz!TokenSize = Laid(p, n + 1)
  <2>1. n \in 0 .. n
    BY <1>4
  <2>2. Laid(p, n) = at
    BY <1>4, <1>6, <2>1
  <2>3. Laid(p, n + 1) = Laid(p, n) + (IF n % ByteBits = 0 THEN 1 ELSE 0) + (IF IsMatch(p[n + 1]) THEN 3 ELSE 1)
    BY <1>4, LaidNext, Zenon
  <2> HIDE DEF n
  <2> QED
    BY <1>2, <1>3, <1>5, <2>2, <2>3
<1>8. ASSUME NEW k \in DOMAIN p PROVE Holds(payload, p, k)
  <2>1. k \in 1 .. n + 1
    BY <1>5
  <2>2. CASE k \in 1 .. n
    <3>1. \A m \in 1 .. k : p[m] = decoded[m]
      BY <1>4, <1>5, <2>2
    <3>2. Holds(payload, decoded, k)
      BY <1>4, <2>2 DEF LzReading
    <3>3. k \in Nat \ {0}
      BY <2>2
    <3> HIDE DEF n
    <3> QED
      BY <3>1, <3>2, <3>3, HoldsAgrees
  <2>3. CASE k = n + 1
    <3>1. n + 1 \in 1 .. n + 1 /\ (n + 1) - 1 = n
      BY <1>4
    <3>2. FlagAt(p, k) = FlagAt(decoded, n + 1)
      BY <1>6, <2>3, <3>1
    <3>3. IsMatch(p[k]) <=> (payload[FlagAt(p, k)] \div 2 ^ (ByteBits - 1 - ((k - 1) % ByteBits))) % 2 = 1
      BY <1>2, <1>3, <1>5, <2>3, <3>1, <3>2
    <3>4. Len(Lz!Fields(t)) = Lz!TokenSize
      BY <1>2, FieldsAre, Zenon
    <3>5. Laid(p, k) - Len(Lz!Fields(p[k])) + 1 = Lz!TokenAt + 1
      <4>1. Lz!TokenSize \in Nat
        BY <1>2
      <4> QED
        BY <1>2, <1>5, <1>7, <2>3, <3>4, <4>1
    <3>6. SubSeq(payload, Laid(p, k) - Len(Lz!Fields(p[k])) + 1, Laid(p, k)) = Lz!Fields(p[k])
      BY <1>2, <1>5, <1>7, <2>3, <3>5, Zenon
    <3> QED
      BY <3>3, <3>6 DEF Holds
  <2> QED
    BY <1>4, <2>1, <2>2, <2>3
<1>9. /\ inGroup' = IF (n + 1) % ByteBits = 0 THEN 0 ELSE ByteBits - ((n + 1) % ByteBits)
      /\ inGroup' # 0 => flags' = (payload[FlagAt(p, n + 1)] * 2 ^ ((n + 1) % ByteBits)) % W
  <2>1. /\ j \in 0 .. ByteBits - 1 /\ ByteBits \in Nat \ {0}
        /\ (n + 1) % ByteBits = IF j = ByteBits - 1 THEN 0 ELSE j + 1
    BY <1>4, NextInGroup, ByteIs
  <2>2. inGroup = IF j = 0 THEN 0 ELSE ByteBits - j
    BY DEF LzReading
  <2>3. FlagAt(p, n + 1) = FlagAt(decoded, n + 1)
    <3>1. n + 1 \in 1 .. n + 1
      BY <1>4
    <3> QED
      BY <1>6, <3>1
  <2> HIDE DEF n, j
  <2>4. inGroup' = ByteBits - j - 1
    BY <1>1, <2>1, <2>2
  <2>5. CASE j = ByteBits - 1
    BY <2>1, <2>4, <2>5
  <2>6. CASE j # ByteBits - 1
    <3>1. (n + 1) % ByteBits = j + 1 /\ j + 1 # 0 /\ inGroup' = ByteBits - (j + 1)
      BY <2>1, <2>4, <2>6
    <3>2. flags' = (payload[FlagAt(p, n + 1)] * 2 ^ (j + 1)) % W
      BY <1>1, <1>3, <2>3
    <3> QED
      BY <3>1, <3>2
  <2> QED
    BY <2>5, <2>6
<1>10. Covered(p) <= original /\ WithinReach(p, 2 ^ windowBits)
  <2>1. Covered(decoded) \in Nat /\ Width(t) \in Nat
    BY <1>2, <1>4, CoveredIs, WidthIs
  <2>2. 2 ^ windowBits \in Nat
    <3>1. windowBits \in Windows["lz77"] /\ PowersDouble(2 * ByteBits)
      BY ByteIs DEF LzReading
    <3>2. windowBits \in 0 .. 2 * ByteBits
      BY <3>1, BlockCodecAssumption
    <3> QED
      BY <3>1, <3>2 DEF PowersDouble
  <2>3. WithinReach(decoded, 2 ^ windowBits)
    BY DEF LzReading
  <2>4. CASE IsMatch(t)
    <3>1. /\ t.distance <= Covered(decoded) /\ t.distance <= 2 ^ windowBits
          /\ Covered(decoded) + t.length <= original
      BY <1>1, <1>2, <2>4, LzTokens, Zenon DEF Lz!Legal
    <3>2. Width(t) = t.length
      BY <2>4 DEF Width
    <3> QED
      BY <1>5, <2>2, <2>3, <3>1, <3>2
  <2>5. CASE ~IsMatch(t)
    <3>1. t.distance = 0 /\ Width(t) = 1
      BY <1>2, <2>5 DEF Width
    <3>2. Covered(decoded) + 1 <= original
      BY <1>1, <2>1
    <3>3. t.distance <= 2 ^ windowBits /\ t.distance <= Covered(decoded)
      BY <2>1, <2>2, <3>1
    <3> QED
      BY <1>5, <2>2, <2>3, <3>1, <3>2, <3>3
  <2> QED
    BY <2>4, <2>5
<1>11. \A k \in DOMAIN decoded' : Holds(payload, decoded, k)'
  <2>1. \A k : Holds(payload, p, k) => Holds(payload, decoded, k)'
    BY <1>1, Zenon DEF Holds, Lz!Fields, p
  <2> QED
    BY <1>1, <1>8, <2>1 DEF p
<1> QED
  <2>1. decoded' = p
    BY <1>1 DEF p
  <2>2. /\ Len(payload') >= 2 /\ windowBits' = payload'[1] /\ minMatch' = payload'[2]
        /\ windowBits' \in Windows["lz77"] /\ minMatch' \in MinMatches["lz77"]
    BY <1>1 DEF LzReading
  <2>3. decoded' \in Seq(TokenRecords) /\ Len(decoded') = n + 1
    BY <1>5, <2>1
  <2>4. at' = Laid(p, n + 1) /\ at' <= Len(payload)
    BY <1>1, <1>2, <1>7
  <2>5. Laid(decoded, Len(decoded))' = Laid(p, n + 1)
    BY <2>1, <2>3 DEF Laid
  <2>6. FlagAt(decoded, Len(decoded))' = FlagAt(p, n + 1)
    BY <2>1, <2>3 DEF FlagAt, Laid
  <2>7. (Covered(decoded) <= original /\ WithinReach(decoded, 2 ^ windowBits))'
    BY <1>1, <1>10, <2>1
  <2>8. inGroup' = (IF Len(decoded) % ByteBits = 0 THEN 0 ELSE ByteBits - (Len(decoded) % ByteBits))'
    BY <1>9, <2>3
  <2>9. (inGroup # 0 =>
          flags = (payload[FlagAt(decoded, Len(decoded))] * 2 ^ (Len(decoded) % ByteBits)) % 2 ^ ByteBits)'
    BY <1>1, <1>9, <2>3, <2>6
  <2> HIDE DEF n, p, W
  <2> QED
    BY <1>1, <1>11, <2>1, <2>2, <2>3, <2>4, <2>5, <2>7, <2>8, <2>9, Zenon DEF LzReading, t

------------------------------------------------------------------------------
\* Writing a payload of tokens

\* The payload as it is once the flags at hand are in it.
Patch == IF inGroup # 0 THEN [payload EXCEPT ![flagIndex] = flags] ELSE payload

LzWritten ==
    /\ i \in 0 .. Len(tokens) /\ inGroup = i % ByteBits
    /\ Len(payload) = Laid(tokens, i)
    /\ inGroup # 0 =>
          /\ flagIndex = FlagAt(tokens, i)
          /\ \E g \in 0 .. 2 ^ inGroup - 1 : flags = g * 2 ^ (ByteBits - inGroup)
    /\ \A k \in 1 .. i : Holds(Patch, tokens, k)

LzEncodable ==
    /\ tokens \in Parses["lz77"] /\ Lz!Encodable(tokens, windowBits, minMatch)
    /\ windowBits \in Windows["lz77"] /\ minMatch \in MinMatches["lz77"]
    /\ original = Covered(tokens)
    /\ Len(payload) >= 2 /\ payload[1] = windowBits /\ payload[2] = minMatch

LzHeld ==
    /\ Len(payload) = Laid(tokens, Len(tokens))
    /\ \A k \in 1 .. Len(tokens) : Holds(payload, tokens, k)

\* What is read is what was written, as far as it is read.
Begun(read, written) ==
    Len(read) <= Len(written) /\ \A k \in 1 .. Len(read) : read[k] = written[k]

LzInv ==
    /\ budget \in Nat /\ original \in Nat /\ payload \in Seq(Byte)
    /\ stage \in {"encode", "stored", "open", "decode", "done", "corrupt"}
    /\ stage \in {"encode", "stored"} => Encoded
    /\ stage \in {"encode", "stored", "open"} => decoded = << >> /\ at = 0
    /\ Encoded => LzEncodable /\ Begun(decoded, tokens) /\ stage # "corrupt"
    /\ stage = "encode" => LzWritten
    /\ Encoded /\ stage \in {"open", "decode", "done"} => LzHeld
    /\ stage \in {"decode", "done"} => LzReading
    /\ stage = "corrupt" => (decoded = << >> /\ at = 0) \/ LzReading
    /\ stage = "done" => Covered(decoded) = original

\* The group of a token.
LEMMA SameGroup ==
    ASSUME NEW n \in Nat, NEW k \in n - (n % ByteBits) + 1 .. n + 1
    PROVE  /\ (k - 1) % ByteBits = (k - 1) - (n - (n % ByteBits))
           /\ (k - 1) - ((k - 1) % ByteBits) = n - (n % ByteBits)
           /\ \A parse : FlagAt(parse, k) = Laid(parse, n - (n % ByteBits)) + 1
<1> DEFINE j == n % ByteBits
           q == n \div ByteBits
<1>1. n = ByteBits * q + j /\ q \in Nat /\ j \in 0 .. ByteBits - 1 /\ ByteBits * q \in Nat /\ ByteBits \in Nat \ {0}
  BY ByteIs, DividesInto, Zenon
<1>2. k \in n - j + 1 .. n + 1
  OBVIOUS
<1> HIDE DEF j, q
<1> DEFINE r == (k - 1) - (n - j)
<1>3. k - 1 = ByteBits * q + r /\ r \in 0 .. ByteBits - 1 /\ k - 1 \in Nat
  BY <1>1, <1>2
<1>4. (k - 1) % ByteBits = r
  <2> HIDE DEF r
  <2> QED
    BY <1>1, <1>3, RemainderIs, Zenon
<1>5. (k - 1) - r = n - j
  BY <1>1, <1>3
<1>6. \A parse : FlagAt(parse, k) = Laid(parse, n - j) + 1
  BY <1>4, <1>5 DEF FlagAt
<1> QED
  BY <1>4, <1>5, <1>6 DEF r, j

\* A token's own bytes.
LEMMA FieldsHere ==
    ASSUME NEW parse, NEW k \in Nat \ {0}
    PROVE  /\ Len(Lz!Fields(parse[k])) = (IF IsMatch(parse[k]) THEN 3 ELSE 1)
           /\ Laid(parse, k) - Len(Lz!Fields(parse[k]))
                 = Laid(parse, k - 1) + (IF (k - 1) % ByteBits = 0 THEN 1 ELSE 0)
           /\ Laid(parse, k) \in Nat /\ Laid(parse, k - 1) \in Nat /\ Laid(parse, k - 1) >= 2
<1>1. k - 1 \in Nat /\ (k - 1) + 1 = k
  OBVIOUS
<1>2. Laid(parse, k) = Laid(parse, k - 1) + (IF (k - 1) % ByteBits = 0 THEN 1 ELSE 0)
                                          + (IF IsMatch(parse[k]) THEN 3 ELSE 1)
  BY <1>1, LaidNext
<1>3. Laid(parse, k - 1) \in Nat /\ Laid(parse, k - 1) >= 2
  BY <1>1, LaidNext
<1>4. Len(Lz!Fields(parse[k])) = (IF IsMatch(parse[k]) THEN 3 ELSE 1)
  BY FieldsAre, Zenon
<1> QED
  BY <1>2, <1>3, <1>4

\* No flags are among a token's own bytes.
LEMMA FlagsApart ==
    ASSUME NEW parse, NEW n \in Nat, NEW k \in Nat \ {0}
    PROVE  FlagAt(parse, n + 1) \notin Laid(parse, k) - Len(Lz!Fields(parse[k])) + 1 .. Laid(parse, k)
<1> DEFINE s == n - (n % ByteBits)
           f == FlagAt(parse, n + 1)
<1>1. s \in Nat /\ f = Laid(parse, s) + 1
  <2>1. (n + 1) - 1 = n
    OBVIOUS
  <2>2. s \in 0 .. n
    BY NextInGroup
  <2> QED
    BY <2>1, <2>2 DEF FlagAt
<1> HIDE DEF s, f
<1>2. /\ Laid(parse, k) - Len(Lz!Fields(parse[k]))
            = Laid(parse, k - 1) + (IF (k - 1) % ByteBits = 0 THEN 1 ELSE 0)
      /\ Laid(parse, k) \in Nat /\ Laid(parse, k - 1) \in Nat /\ Laid(parse, s) \in Nat
  BY <1>1, FieldsHere, LaidNext, Zenon
<1>3. CASE k <= s
  <2>1. Laid(parse, k) <= Laid(parse, s)
    BY <1>1, <1>3, LaidGrows
  <2>2. Laid(parse, k) < f
    BY <1>1, <1>2, <2>1
  <2> QED
    BY <1>1, <1>2, <2>2 DEF f
<1>4. CASE k = s + 1
  <2>1. (k - 1) % ByteBits = 0 /\ k - 1 = s
    <3>1. k - 1 = s
      BY <1>1, <1>4
    <3>2. s % ByteBits = 0
      <4>1. n \in Nat /\ s = n - (n % ByteBits) /\ s \in 0 .. n
        BY NextInGroup DEF s
      <4>2. s + 1 \in n - (n % ByteBits) + 1 .. n + 1
        BY <4>1
      <4>3. ((s + 1) - 1) % ByteBits = ((s + 1) - 1) - (n - (n % ByteBits))
        BY <4>2, SameGroup
      <4>4. (s + 1) - 1 = s /\ s - s = 0
        BY <4>1
      <4> QED
        BY <4>1, <4>3, <4>4
    <3> QED
      BY <3>1, <3>2
  <2>2. Laid(parse, k) - Len(Lz!Fields(parse[k])) = f
    BY <1>1, <1>2, <2>1
  <2> QED
    BY <1>1, <1>2, <2>2 DEF f
<1>5. CASE k > s + 1
  <2>1. s + 1 \in Nat /\ k - 1 \in Nat /\ s + 1 <= k - 1
    BY <1>1, <1>5
  <2>2. Laid(parse, s + 1) <= Laid(parse, k - 1) /\ Laid(parse, s + 1) \in Nat
    BY <2>1, LaidGrows
  <2>3. Laid(parse, s + 1) >= Laid(parse, s) + 1
    <3>1. Laid(parse, s + 1) = Laid(parse, s) + (IF s % ByteBits = 0 THEN 1 ELSE 0)
                                              + (IF IsMatch(parse[s + 1]) THEN 3 ELSE 1)
      BY <1>1, LaidNext
    <3> QED
      BY <1>2, <3>1
  <2>4. Laid(parse, k) - Len(Lz!Fields(parse[k])) >= f
    BY <1>1, <1>2, <2>2, <2>3
  <2> QED
    BY <1>1, <1>2, <2>4 DEF f
<1> QED
  BY <1>1, <1>3, <1>4, <1>5

\* What the parse promises of each token.
LEMMA EncodableIs ==
    ASSUME LzEncodable
    PROVE  /\ tokens \in Seq(TokenRecords) /\ tokens # << >> /\ Len(tokens) \in Nat /\ DOMAIN tokens = 1 .. Len(tokens)
           /\ windowBits \in 0 .. 2 * ByteBits /\ windowBits \in Byte
           /\ minMatch \in Byte /\ minMatch \in Nat /\ minMatch >= 1
           /\ \A n \in 1 .. Len(tokens) :
                 /\ tokens[n] \in TokenRecords
                 /\ tokens[n].literal \in Byte
                 /\ tokens[n] = IF IsMatch(tokens[n]) THEN Reference(tokens[n]) ELSE Literal(tokens[n].literal)
                 /\ tokens[n].distance <= CoveredBy(tokens, n - 1)
                 /\ IsMatch(tokens[n]) =>
                       /\ tokens[n].distance < 2 ^ windowBits
                       /\ tokens[n].distance - 1 \in 0 .. 2 ^ (2 * ByteBits) - 1
                       /\ tokens[n].length - minMatch \in Byte
                       /\ tokens[n].length >= 1
                 /\ Width(tokens[n]) \in Nat /\ Width(tokens[n]) >= 1
<1>1. /\ tokens \in Parses["lz77"] /\ Lz!Encodable(tokens, windowBits, minMatch)
      /\ windowBits \in Windows["lz77"] /\ minMatch \in MinMatches["lz77"]
  BY DEF LzEncodable
<1>2. tokens # << >> /\ WellFormed(tokens) /\ WithinReach(tokens, Covered(tokens))
      /\ \A n \in DOMAIN tokens : tokens[n].literal \in Byte
  BY <1>1, ParsesAssumption
<1>3. tokens \in Seq(TokenRecords)
      /\ \A n \in DOMAIN tokens :
            tokens[n] = IF IsMatch(tokens[n]) THEN Reference(tokens[n]) ELSE Literal(tokens[n].literal)
  BY <1>2 DEF WellFormed, TokenRecords
<1>4. Len(tokens) \in Nat /\ DOMAIN tokens = 1 .. Len(tokens)
  BY <1>3
<1>5. windowBits \in 0 .. 2 * ByteBits /\ windowBits \in Byte /\ minMatch \in Byte \ {0} /\ PowersDouble(2 * ByteBits)
  BY <1>1, BlockCodecAssumption, ByteIs
<1>6. minMatch \in Nat /\ minMatch >= 1
  BY <1>5, ByteIs
<1> DEFINE w == windowBits
<1>7. 2 ^ windowBits <= 2 ^ (2 * ByteBits) /\ 2 ^ windowBits \in Nat \ {0} /\ 2 ^ (2 * ByteBits) \in Nat
  <2> DEFINE T == 2 * ByteBits
             d == T - windowBits
  <2>1. T \in Nat /\ windowBits \in 0 .. T + 1 /\ d \in 0 .. T + 1 - windowBits /\ windowBits + d = T /\ d \in 0 .. T + 1
        /\ T \in 0 .. T + 1
    BY <1>5, ByteIs
  <2>2. PowersDouble(T)
    BY <1>5
  <2> HIDE DEF T, d
  <2>3. 2 ^ T = 2 ^ windowBits * 2 ^ d /\ 2 ^ windowBits \in Nat \ {0} /\ 2 ^ d \in Nat \ {0} /\ 2 ^ T \in Nat
    BY <2>1, <2>2, PowersOf
  <2>4. \A a \in Nat \ {0}, b \in Nat \ {0} : a <= a * b
    OBVIOUS
  <2> QED
    BY <2>3, <2>4 DEF T
<1>8. ASSUME NEW n \in 1 .. Len(tokens)
      PROVE  /\ tokens[n] \in TokenRecords
             /\ tokens[n].literal \in Byte
             /\ tokens[n] = IF IsMatch(tokens[n]) THEN Reference(tokens[n]) ELSE Literal(tokens[n].literal)
             /\ tokens[n].distance <= CoveredBy(tokens, n - 1)
             /\ IsMatch(tokens[n]) =>
                   /\ tokens[n].distance < 2 ^ windowBits
                   /\ tokens[n].distance - 1 \in 0 .. 2 ^ (2 * ByteBits) - 1
                   /\ tokens[n].length - minMatch \in Byte
                   /\ tokens[n].length >= 1
             /\ Width(tokens[n]) \in Nat /\ Width(tokens[n]) >= 1
  <2>1. tokens[n] \in TokenRecords
    BY <1>3
  <2>2. tokens[n].distance <= CoveredBy(tokens, n - 1)
    BY <1>2, <1>4 DEF WithinReach
  <2>3. tokens[n].distance \in Nat /\ tokens[n].length \in Nat
    BY <2>1 DEF TokenRecords
  <2>4. ASSUME IsMatch(tokens[n])
        PROVE  /\ tokens[n].distance < 2 ^ windowBits
               /\ tokens[n].distance - 1 \in 0 .. 2 ^ (2 * ByteBits) - 1
               /\ tokens[n].length - minMatch \in Byte
               /\ tokens[n].length >= 1
    <3>1. tokens[n].distance < 2 ^ windowBits /\ tokens[n].length - minMatch \in Byte
      BY <1>1, <1>4, <2>4, LzTokens DEF Lz!Encodable
    <3>2. tokens[n].distance # 0
      BY <2>4 DEF IsMatch
    <3>3. tokens[n].length - minMatch \in Nat
      BY <3>1, ByteIs
    <3>4. tokens[n].distance - 1 \in 0 .. 2 ^ (2 * ByteBits) - 1
      BY <1>7, <2>3, <3>1, <3>2
    <3> QED
      BY <1>6, <2>3, <3>1, <3>3, <3>4
  <2>5. Width(tokens[n]) \in Nat /\ Width(tokens[n]) >= 1
    BY <2>3, <2>4 DEF Width
  <2> QED
    BY <1>2, <1>3, <1>4, <2>1, <2>2, <2>4, <2>5
<1> QED
  BY <1>2, <1>3, <1>4, <1>5, <1>6, <1>8

\* The fields that are written are bytes, one or three of them.
LEMMA FieldsAreBytes ==
    ASSUME LzEncodable, NEW n \in 1 .. Len(tokens)
    PROVE  /\ Lz!Fields(tokens[n]) \in Seq(Byte)
           /\ Len(Lz!Fields(tokens[n])) = IF IsMatch(tokens[n]) THEN 3 ELSE 1
<1> DEFINE t == tokens[n]
           W == 2 ^ ByteBits
           V == 2 ^ (2 * ByteBits)
           x == (t.distance - 1) % V
           y == (t.length - minMatch) % W
<1>1. t.literal \in Byte /\ (IsMatch(t) => t.distance - 1 \in 0 .. V - 1 /\ t.length - minMatch \in Byte)
  BY EncodableIs
<1>2. W \in Nat \ {0} /\ V = W * W /\ Byte = 0 .. W - 1
  BY ByteIs
<1> HIDE DEF t, W, V
<1>3. CASE IsMatch(t)
  <2>1. V \in Nat \ {0}
    BY <1>2
  <2>2. x \in 0 .. V - 1 /\ y \in 0 .. W - 1 /\ x \in Nat
    <3> DEFINE u == t.distance - 1
               v == t.length - minMatch
    <3>1. u \in Nat /\ v \in Nat
      BY <1>1, <1>2, <1>3, <2>1
    <3> HIDE DEF u, v
    <3>2. u % V \in 0 .. V - 1 /\ v % W \in 0 .. W - 1
      BY <1>2, <2>1, <3>1, DividesInto, Zenon
    <3> QED
      BY <1>2, <2>1, <3>2 DEF u, v
  <2> HIDE DEF x, y
  <2>3. x = W * (x \div W) + (x % W) /\ x \div W \in Nat /\ x % W \in 0 .. W - 1
    BY <1>2, <2>2, DividesInto, Zenon
  <2>4. x \div W \in 0 .. W - 1
    <3> DEFINE q == x \div W
    <3>1. W * q <= x /\ q \in Nat /\ x < W * W
      BY <1>2, <2>1, <2>2, <2>3
    <3> HIDE DEF q
    <3>2. q < W
      <4> SUFFICES ASSUME q >= W PROVE FALSE
        BY <1>2, <3>1
      <4>1. W * W <= q * W
        BY <1>2, <3>1, Product
      <4> QED
        BY <1>2, <2>2, <3>1, <4>1
    <3> QED
      BY <1>2, <3>1, <3>2 DEF q
  <2>5. Lz!Fields(t) = << x % W, x \div W, y >> /\ Len(Lz!Fields(t)) = 3
    BY <1>3, FieldsAre DEF x, y, W, V
  <2>6. x % W \in Byte /\ x \div W \in Byte /\ y \in Byte
    BY <1>2, <2>2, <2>3, <2>4
  <2>7. \A a \in Byte, b \in Byte, c \in Byte : << a, b, c >> \in Seq(Byte)
    OBVIOUS
  <2> QED
    BY <1>3, <2>5, <2>6, <2>7 DEF t
<1>4. CASE ~IsMatch(t)
  <2>1. Lz!Fields(t) = << t.literal >> /\ Len(Lz!Fields(t)) = 1
    BY <1>4, FieldsAre
  <2>2. \A a \in Byte : << a >> \in Seq(Byte)
    OBVIOUS
  <2> QED
    BY <1>1, <1>4, <2>1, <2>2 DEF t
<1> QED
  BY <1>3, <1>4

\* A payload that is the same where a token is.
LEMMA HoldsStill ==
    ASSUME NEW p \in Seq(Byte), NEW q \in Seq(Byte), NEW parse, NEW k \in Nat \ {0},
           Laid(parse, k) <= Len(p), Laid(parse, k) <= Len(q),
           \A m \in Laid(parse, k) - Len(Lz!Fields(parse[k])) + 1 .. Laid(parse, k) : q[m] = p[m],
           LET e == ByteBits - 1 - ((k - 1) % ByteBits)
               f == FlagAt(parse, k)
           IN  (q[f] \div 2 ^ e) % 2 = (p[f] \div 2 ^ e) % 2,
           Holds(p, parse, k)
    PROVE  Holds(q, parse, k)
<1> DEFINE l == Len(Lz!Fields(parse[k]))
           a == Laid(parse, k) - l + 1
           b == Laid(parse, k)
<1>1. l \in Nat \ {0} /\ a \in Nat \ {0} /\ b \in Nat /\ a <= b + 1 /\ a >= 1
  <2>1. /\ l = (IF IsMatch(parse[k]) THEN 3 ELSE 1)
        /\ b - l = Laid(parse, k - 1) + (IF (k - 1) % ByteBits = 0 THEN 1 ELSE 0)
        /\ b \in Nat /\ Laid(parse, k - 1) \in Nat
    BY FieldsHere
  <2>2. l \in Nat \ {0} /\ b - l \in Nat /\ a = (b - l) + 1
    BY <2>1
  <2> HIDE DEF l, b
  <2> QED
    BY <2>1, <2>2, SMTT(40)
<1>2. b <= Len(p) /\ b <= Len(q) /\ \A m \in a .. b : q[m] = p[m]
  OBVIOUS
<1> HIDE DEF l, a, b
<1>3. SubSeq(q, a, b) = SubSeq(p, a, b)
  <2> DEFINE s == SubSeq(q, a, b)
             r == SubSeq(p, a, b)
  <2>1. s \in Seq(Byte) /\ Len(s) = b - a + 1 /\ \A m \in 1 .. b - a + 1 : s[m] = q[a + m - 1]
    BY <1>1, <1>2
  <2>2. r \in Seq(Byte) /\ Len(r) = b - a + 1 /\ \A m \in 1 .. b - a + 1 : r[m] = p[a + m - 1]
    BY <1>1, <1>2
  <2> HIDE DEF s, r
  <2>3. \A m \in 1 .. b - a + 1 : s[m] = r[m]
    BY <1>1, <1>2, <2>1, <2>2
  <2>4. s = r
    BY <2>1, <2>2, <2>3, SeqEqual
  <2> QED
    BY <2>4 DEF s, r
<1> QED
  BY <1>3 DEF Holds, l, a, b

\* The flags of a token are before its group, or are those at hand.
LEMMA FlagAtIs ==
    ASSUME NEW parse, NEW n \in Nat, NEW k \in 1 .. n
    PROVE  /\ FlagAt(parse, k) \in 1 .. Laid(parse, n)
           /\ k <= n - (n % ByteBits) => FlagAt(parse, k) # FlagAt(parse, n + 1)
           /\ k > n - (n % ByteBits) =>
                 /\ n % ByteBits # 0
                 /\ FlagAt(parse, k) = FlagAt(parse, n + 1)
                 /\ ByteBits - 1 - ((k - 1) % ByteBits) \in ByteBits - (n % ByteBits) .. ByteBits - 1
<1> DEFINE j == n % ByteBits
           s == n - j
<1>1. j \in 0 .. ByteBits - 1 /\ s \in 0 .. n /\ ByteBits \in Nat \ {0}
  BY NextInGroup, ByteIs, Zenon
<1>2. FlagAt(parse, n + 1) = Laid(parse, s) + 1
  <2>1. n + 1 \in s + 1 .. n + 1
    BY <1>1
  <2> QED
    BY <2>1, SameGroup
<1>3. FlagAt(parse, k) \in 3 .. Laid(parse, k) /\ Laid(parse, k) <= Laid(parse, n) /\ Laid(parse, k) \in Nat
      /\ Laid(parse, n) \in Nat /\ Laid(parse, s) \in Nat
  <2>1. k - 1 \in Nat /\ (k - 1) + 1 = k /\ k \in Nat /\ k <= n /\ s \in Nat /\ s <= n
    BY <1>1
  <2>2. FlagAt(parse, k) \in 3 .. Laid(parse, k)
    BY <2>1, FlagIsAt, Zenon
  <2> QED
    BY <2>1, <2>2, LaidGrows
<1>4. ASSUME k <= s PROVE FlagAt(parse, k) # FlagAt(parse, n + 1)
  <2>1. Laid(parse, k) <= Laid(parse, s)
    BY <1>1, <1>4, LaidGrows
  <2> HIDE DEF s
  <2> QED
    BY <1>2, <1>3, <2>1
<1>5. ASSUME k > s
      PROVE  j # 0 /\ FlagAt(parse, k) = FlagAt(parse, n + 1)
             /\ ByteBits - 1 - ((k - 1) % ByteBits) \in ByteBits - j .. ByteBits - 1
  <2>1. k \in s + 1 .. n + 1 /\ j # 0
    BY <1>1, <1>5
  <2>2. (k - 1) % ByteBits = (k - 1) - s /\ FlagAt(parse, k) = Laid(parse, s) + 1
    BY <2>1, SameGroup
  <2>3. s = n - j
    OBVIOUS
  <2> HIDE DEF j, s
  <2> QED
    BY <1>1, <1>2, <2>1, <2>2, <2>3
<1> QED
  BY <1>3, <1>4, <1>5

\* The flags at hand once the next token's flag is added, and where they go.
LEMMA PatchIs ==
    ASSUME LzWritten, LzEncodable, payload \in Seq(Byte)
    PROVE  LET j == i % ByteBits
               f == FlagAt(tokens, i + 1)
               F == IF j = 0 THEN 0 ELSE flags
           IN  /\ j \in 0 .. ByteBits - 1 /\ inGroup = j /\ i \in Nat
               /\ \E g \in 0 .. 2 ^ j - 1 : F = g * 2 ^ (ByteBits - j)
               /\ F \in Byte
               /\ j # 0 => flagIndex = f
               /\ Patch \in Seq(Byte) /\ Len(Patch) = Laid(tokens, i) /\ Len(payload) = Laid(tokens, i)
               /\ \A m \in 1 .. Laid(tokens, i) : m # f => Patch[m] = payload[m]
               /\ j # 0 => Patch[f] = F /\ f \in 1 .. Laid(tokens, i)
<1> DEFINE j == i % ByteBits
           f == FlagAt(tokens, i + 1)
           F == IF j = 0 THEN 0 ELSE flags
<1>1. i \in Nat /\ inGroup = j /\ Len(payload) = Laid(tokens, i)
  <2>1. Len(tokens) \in Nat
    BY EncodableIs
  <2> QED
    BY <2>1 DEF LzWritten
<1>2. /\ j \in 0 .. ByteBits - 1 /\ ByteBits \in Nat \ {0}
      /\ j # 0 => FlagAt(tokens, i) = f /\ f \in 3 .. Laid(tokens, i)
      /\ Laid(tokens, i) \in Nat /\ 2 ^ 0 = 1
  <2>1. j \in 0 .. ByteBits - 1 /\ ByteBits \in Nat \ {0} /\ 2 ^ 0 = 1 /\ Laid(tokens, i) \in Nat
    BY <1>1, NextInGroup, ByteIs, LaidNext DEF PowersDouble
  <2>2. f \in 3 .. Laid(tokens, i + 1) /\ (j # 0 => FlagAt(tokens, i) = f /\ f <= Laid(tokens, i))
    BY <1>1, FlagIsAt
  <2>3. Laid(tokens, i + 1) \in Nat
    BY <1>1, LaidNext
  <2> HIDE DEF f, j
  <2> QED
    BY <2>1, <2>2, <2>3
<1>3. \E g \in 0 .. 2 ^ j - 1 : F = g * 2 ^ (ByteBits - j)
  <2>1. CASE j = 0
    <3>1. 0 \in 0 .. 2 ^ j - 1 /\ F = 0
      <4>1. 2 ^ j = 1
        BY <1>2, <2>1, Zenon
      <4> HIDE DEF j
      <4> QED
        BY <2>1, <4>1
    <3>2. 0 * 2 ^ (ByteBits - j) = 0
      <4>1. ByteBits - j = ByteBits
        BY <1>2, <2>1
      <4> QED
        BY <4>1, ByteIs
    <3> QED
      BY <3>1, <3>2
  <2>2. CASE j # 0
    BY <1>1, <2>2 DEF LzWritten
  <2> QED
    BY <2>1, <2>2
<1>4. F \in Byte
  <2>1. PICK g \in 0 .. 2 ^ j - 1 : F = g * 2 ^ (ByteBits - j)
    BY <1>3
  <2> DEFINE c == 0
             G == F + c * 2 ^ (ByteBits - 1 - j)
  <2>2. c \in 0 .. 1 /\ G = F + c * 2 ^ (ByteBits - 1 - j)
    OBVIOUS
  <2> HIDE DEF c, G, F, j
  <2> QED
    BY <1>2, <2>1, <2>2, FlagBits
<1>5. j # 0 => flagIndex = f
  BY <1>1, <1>2 DEF LzWritten
<1>6. CASE j = 0
  <2>1. Patch = payload
    BY <1>1, <1>6 DEF Patch
  <2> HIDE DEF f, F, j
  <2>2. \A m \in 1 .. Laid(tokens, i) : m # f => Patch[m] = payload[m]
    BY <2>1
  <2> QED
    BY <1>1, <1>2, <1>3, <1>4, <1>5, <1>6, <2>1, <2>2, Zenon DEF f, F, j
<1>7. CASE j # 0
  <2>1. Patch = [payload EXCEPT ![f] = F]
    BY <1>1, <1>5, <1>7, Zenon DEF Patch
  <2>2. f \in 1 .. Len(payload)
    BY <1>1, <1>2, <1>7
  <2>3. /\ Patch \in Seq(Byte) /\ Len(Patch) = Len(payload) /\ Patch[f] = F
        /\ \A m \in 1 .. Len(payload) : m # f => Patch[m] = payload[m]
    <3> HIDE DEF f, F
    <3> QED
      BY <1>4, <2>1, <2>2
  <2> HIDE DEF f, F, j
  <2> QED
    BY <1>1, <1>2, <1>3, <1>4, <1>5, <1>7, <2>2, <2>3, Zenon DEF f, F, j
<1> QED
  BY <1>6, <1>7

\* A step that writes a token.
LEMMA LzWrites ==
    ASSUME LzWritten, LzEncodable, payload \in Seq(Byte), Lz!WriteToken
    PROVE  LzWritten' /\ LzEncodable' /\ payload' \in Seq(Byte)
<1> DEFINE j == i % ByteBits
           f == FlagAt(tokens, i + 1)
           F == IF j = 0 THEN 0 ELSE flags
           t == tokens[i + 1]
           c == IF IsMatch(t) THEN 1 ELSE 0
           G == F + c * 2 ^ (ByteBits - 1 - j)
           R == IF j = 0 THEN Append(payload, 0) ELSE payload
           Q == R \o Lz!Fields(t)
           N == [Q EXCEPT ![f] = G]
           l == Len(Lz!Fields(t))
<1>1. /\ j \in 0 .. ByteBits - 1 /\ inGroup = j /\ i \in Nat
      /\ \E g \in 0 .. 2 ^ j - 1 : F = g * 2 ^ (ByteBits - j)
      /\ F \in Byte
      /\ j # 0 => flagIndex = f
      /\ Patch \in Seq(Byte) /\ Len(Patch) = Laid(tokens, i) /\ Len(payload) = Laid(tokens, i)
      /\ \A m \in 1 .. Laid(tokens, i) : m # f => Patch[m] = payload[m]
      /\ j # 0 => Patch[f] = F /\ f \in 1 .. Laid(tokens, i)
  BY PatchIs
<1>2. /\ i + 1 \in 1 .. Len(tokens) /\ ByteBits \in Nat \ {0}
      /\ f \in 3 .. Laid(tokens, i + 1) /\ (j = 0 => f = Laid(tokens, i) + 1)
      /\ Laid(tokens, i) \in Nat /\ Laid(tokens, i) >= 2 /\ Laid(tokens, i + 1) \in Nat
      /\ Laid(tokens, i + 1) = Laid(tokens, i) + (IF j = 0 THEN 1 ELSE 0) + (IF IsMatch(t) THEN 3 ELSE 1)
      /\ Lz!Fields(t) \in Seq(Byte) /\ l = (IF IsMatch(t) THEN 3 ELSE 1)
      /\ (i + 1) % ByteBits = IF j = ByteBits - 1 THEN 0 ELSE j + 1
      /\ i' = i + 1
  <2>1. i + 1 \in 1 .. Len(tokens) /\ i' = i + 1
    BY <1>1, EncodableIs DEF Lz!WriteToken
  <2>2. i \in Nat
    BY <1>1
  <2>3. f \in 3 .. Laid(tokens, i + 1) /\ (j = 0 => f = Laid(tokens, i) + 1)
    BY <2>2, FlagIsAt
  <2>4. /\ Laid(tokens, i) \in Nat /\ Laid(tokens, i) >= 2
        /\ Laid(tokens, i + 1) = Laid(tokens, i) + (IF j = 0 THEN 1 ELSE 0) + (IF IsMatch(t) THEN 3 ELSE 1)
    BY <2>2, LaidNext, Zenon
  <2>5. Lz!Fields(t) \in Seq(Byte) /\ l = (IF IsMatch(t) THEN 3 ELSE 1)
    BY <2>1, FieldsAreBytes
  <2>6. (i + 1) % ByteBits = IF j = ByteBits - 1 THEN 0 ELSE j + 1
    BY <2>2, NextInGroup
  <2>7. Laid(tokens, i + 1) \in Nat /\ ByteBits \in Nat \ {0}
    BY <2>2, LaidNext, ByteIs
  <2> HIDE DEF f, j, t, l
  <2> QED
    BY <2>1, <2>3, <2>4, <2>5, <2>6, <2>7
<1>3. /\ flagIndex' = f /\ flags' = G /\ inGroup' = (j + 1) % ByteBits
      /\ payload' = IF j + 1 = ByteBits THEN N ELSE Q
      /\ windowBits' = windowBits /\ minMatch' = minMatch /\ tokens' = tokens /\ budget' = budget
      /\ original' = original
  <2>1. ByteBits - 1 - j = ByteBits - 1 - inGroup
    BY <1>1
  <2>2. j = 0 => Len(R) = f
    BY <1>1, <1>2
  <2>3. c * 2 ^ (ByteBits - 1 - j) = IF IsMatch(t) THEN 2 ^ (ByteBits - 1 - j) ELSE 0
    <3>1. 2 ^ (ByteBits - 1 - j) \in Nat
      BY <1>1, <1>2, ByteIs DEF PowersDouble
    <3> HIDE DEF t
    <3> QED
      BY <3>1
  <2>4. flagIndex' = (IF inGroup = 0 THEN Len(R) ELSE flagIndex)
        /\ flags' = (IF inGroup = 0 THEN 0 ELSE flags) + (IF IsMatch(t) THEN 2 ^ (ByteBits - 1 - inGroup) ELSE 0)
        /\ payload' = (IF inGroup + 1 = ByteBits THEN [Q EXCEPT ![flagIndex'] = flags'] ELSE Q)
        /\ inGroup' = (inGroup + 1) % ByteBits
        /\ windowBits' = windowBits /\ minMatch' = minMatch /\ tokens' = tokens /\ budget' = budget
        /\ original' = original
    BY <1>1, LzTokens, Zenon DEF Lz!WriteToken, Lz!Patched, Lz!config
  <2>5. flagIndex' = f
    BY <1>1, <2>2, <2>4, Zenon
  <2>6. flags' = G
    BY <1>1, <2>3, <2>4
  <2>7. payload' = IF j + 1 = ByteBits THEN N ELSE Q
    <3> HIDE DEF Q, G, f, j
    <3> QED
      BY <1>1, <2>4, <2>5, <2>6, Zenon
  <2>8. inGroup' = (j + 1) % ByteBits
    BY <1>1, <2>4
  <2>9. windowBits' = windowBits /\ minMatch' = minMatch /\ tokens' = tokens /\ budget' = budget
        /\ original' = original
    BY <2>4
  <2> QED
    BY <2>5, <2>6, <2>7, <2>8, <2>9, Zenon
<1>4. PICK g \in 0 .. 2 ^ j - 1 : F = g * 2 ^ (ByteBits - j)
  BY <1>1
<1>5. /\ G \in Byte
      /\ \E h \in 0 .. 2 ^ (j + 1) - 1 : G = h * 2 ^ (ByteBits - (j + 1))
      /\ (G \div 2 ^ (ByteBits - 1 - j)) % 2 = c
      /\ \A e \in ByteBits - j .. ByteBits - 1 : G \div 2 ^ e = F \div 2 ^ e
  <2>1. c \in 0 .. 1 /\ G = F + c * 2 ^ (ByteBits - 1 - j)
    OBVIOUS
  <2>2. j \in 0 .. ByteBits - 1 /\ F = g * 2 ^ (ByteBits - j) /\ g \in 0 .. 2 ^ j - 1
    BY <1>1, <1>4
  <2> HIDE DEF c, G, F, j
  <2>3. F \in Byte /\ G \in Byte
    BY <2>1, <2>2, FlagBits
  <2>4. \E h \in 0 .. 2 ^ (j + 1) - 1 : G = h * 2 ^ (ByteBits - (j + 1))
    BY <2>1, <2>2, FlagBits
  <2>6. (G \div 2 ^ (ByteBits - 1 - j)) % 2 = c
    BY <2>1, <2>2, FlagBits
  <2>7. \A e \in ByteBits - j .. ByteBits - 1 : G \div 2 ^ e = F \div 2 ^ e
    BY <2>1, <2>2, FlagBits
  <2> QED
    BY <2>3, <2>4, <2>6, <2>7
<1>6. /\ R \in Seq(Byte) /\ Len(R) = Laid(tokens, i) + (IF j = 0 THEN 1 ELSE 0)
      /\ \A m \in 1 .. Laid(tokens, i) : R[m] = payload[m]
  <2>1. 0 \in Byte
    BY ByteIs
  <2>2. payload \in Seq(Byte) /\ Len(payload) = Laid(tokens, i) /\ Laid(tokens, i) \in Nat
    BY <1>1, <1>2
  <2> HIDE DEF j
  <2>3. CASE j = 0
    <3>1. R = Append(payload, 0)
      BY <2>3
    <3> QED
      BY <2>1, <2>2, <2>3, <3>1
  <2>4. CASE j # 0
    <3>1. R = payload
      BY <2>4
    <3> QED
      BY <2>2, <2>4, <3>1
  <2> QED
    BY <2>3, <2>4, Zenon
<1>7. /\ Q \in Seq(Byte) /\ Len(Q) = Laid(tokens, i + 1)
      /\ \A m \in 1 .. Laid(tokens, i) : Q[m] = payload[m]
      /\ Laid(tokens, i + 1) - l = Len(R)
      /\ \A m \in 1 .. l : Q[Len(R) + m] = Lz!Fields(t)[m]
  <2>1. Laid(tokens, i + 1) = Len(R) + l /\ Len(R) \in Nat /\ l \in Nat /\ Laid(tokens, i) <= Len(R)
    <3> HIDE DEF R, j, t, l, f
    <3> QED
      BY <1>2, <1>6
  <2>2. R \in Seq(Byte) /\ Lz!Fields(t) \in Seq(Byte)
    BY <1>2, <1>6
  <2>3. \A a \in Seq(Byte), b \in Seq(Byte) :
           /\ a \o b \in Seq(Byte) /\ Len(a \o b) = Len(a) + Len(b)
           /\ \A m \in 1 .. Len(a) : (a \o b)[m] = a[m]
           /\ \A m \in 1 .. Len(b) : (a \o b)[Len(a) + m] = b[m]
    OBVIOUS
  <2>4. /\ Q \in Seq(Byte) /\ Len(Q) = Len(R) + l
        /\ \A m \in 1 .. Len(R) : Q[m] = R[m]
        /\ \A m \in 1 .. l : Q[Len(R) + m] = Lz!Fields(t)[m]
    <3> HIDE DEF R, t
    <3> QED
      BY <2>2, <2>3
  <2>5. \A m \in 1 .. Laid(tokens, i) : R[m] = payload[m]
    BY <1>6, Zenon
  <2>6. Laid(tokens, i) \in Nat
    BY <1>2
  <2> HIDE DEF R, t, l, Q
  <2> QED
    BY <2>1, <2>4, <2>5, <2>6
<1>8. /\ N \in Seq(Byte) /\ Len(N) = Laid(tokens, i + 1) /\ N[f] = G
      /\ \A m \in 1 .. Laid(tokens, i + 1) : m # f => N[m] = Q[m]
  <2>1. f \in 1 .. Len(Q)
    <3> HIDE DEF Q, f, j, t, l
    <3> QED
      BY <1>2, <1>7
  <2> HIDE DEF Q, G, f
  <2> QED
    BY <1>5, <1>7, <2>1
<1> HIDE DEF N, Q, R, G
<1>9. ASSUME NEW k \in 1 .. i PROVE Holds(N, tokens, k)
  <2>1. k \in Nat \ {0} /\ k <= i
    BY <1>1
  <2>2. /\ FlagAt(tokens, k) \in 1 .. Laid(tokens, i)
        /\ k <= i - j => FlagAt(tokens, k) # f
        /\ k > i - j =>
              /\ j # 0
              /\ FlagAt(tokens, k) = f
              /\ ByteBits - 1 - ((k - 1) % ByteBits) \in ByteBits - j .. ByteBits - 1
    BY <1>1, FlagAtIs
  <2>3. Holds(Patch, tokens, k)
    BY <1>9 DEF LzWritten
  <2>4. Laid(tokens, k) <= Laid(tokens, i) /\ Laid(tokens, k) \in Nat /\ Laid(tokens, i) <= Laid(tokens, i + 1)
    <3>1. i + 1 \in Nat /\ i <= i + 1 /\ k \in Nat
      BY <1>1, <2>1
    <3> QED
      BY <1>1, <2>1, <3>1, LaidGrows
  <2>5. Laid(tokens, k) <= Len(Patch) /\ Laid(tokens, k) <= Len(N)
    BY <1>1, <1>2, <1>8, <2>4, SMTT(40)
  <2>6. ASSUME NEW m \in Laid(tokens, k) - Len(Lz!Fields(tokens[k])) + 1 .. Laid(tokens, k)
        PROVE  N[m] = Patch[m]
    <3>1. m # f
      BY <1>1, <2>1, FlagsApart, Zenon
    <3>2. /\ Laid(tokens, k) - Len(Lz!Fields(tokens[k]))
                = Laid(tokens, k - 1) + (IF (k - 1) % ByteBits = 0 THEN 1 ELSE 0)
          /\ Laid(tokens, k - 1) \in Nat
      BY <2>1, FieldsHere
    <3>3. m \in 1 .. Laid(tokens, i)
      <4> DEFINE a == Laid(tokens, k) - Len(Lz!Fields(tokens[k]))
      <4>1. a \in Nat /\ m \in a + 1 .. Laid(tokens, k)
        BY <3>2
      <4> HIDE DEF a
      <4> QED
        BY <1>2, <2>4, <4>1, SMTT(40)
    <3>4. m \in 1 .. Laid(tokens, i + 1)
      BY <1>2, <2>4, <3>3, SMTT(40)
    <3> HIDE DEF f
    <3> QED
      BY <1>1, <1>7, <1>8, <3>1, <3>3, <3>4
  <2> DEFINE e == ByteBits - 1 - ((k - 1) % ByteBits)
             fk == FlagAt(tokens, k)
  <2>7. (N[fk] \div 2 ^ e) % 2 = (Patch[fk] \div 2 ^ e) % 2
    <3>1. CASE k <= i - j
      <4>1. fk # f /\ fk \in 1 .. Laid(tokens, i) /\ fk \in 1 .. Laid(tokens, i + 1)
        BY <1>2, <2>2, <2>4, <3>1, SMTT(40)
      <4>2. N[fk] = Patch[fk]
        <5> HIDE DEF f, fk
        <5> QED
          BY <1>1, <1>7, <1>8, <4>1
      <4> QED
        BY <4>2
    <3>2. CASE k > i - j
      <4>1. j # 0 /\ fk = f /\ e \in ByteBits - j .. ByteBits - 1
        BY <2>2, <3>2
      <4>2. N[fk] = G /\ Patch[fk] = F
        BY <1>1, <1>8, <4>1
      <4>3. G \div 2 ^ e = F \div 2 ^ e
        BY <1>5, <4>1
      <4> QED
        BY <4>2, <4>3
    <3> QED
      BY <1>1, <2>1, <3>1, <3>2
  <2> QED
    BY <1>1, <1>8, <2>1, <2>3, <2>5, <2>6, <2>7, HoldsStill, Zenon
<1>10. Holds(N, tokens, i + 1)
  <2> DEFINE k == i + 1
             a == Laid(tokens, k) - l + 1
             b == Laid(tokens, k)
             s == SubSeq(N, a, b)
  <2>1. k - 1 = i /\ tokens[k] = t /\ k \in Nat \ {0}
    BY <1>1
  <2>2. a = Len(R) + 1 /\ b = Len(R) + l /\ Len(R) \in Nat /\ l \in Nat \ {0} /\ b <= Len(N)
    BY <1>2, <1>6, <1>7, <1>8, SMTT(40)
  <2>3. \A m \in 1 .. l : N[Len(R) + m] = Lz!Fields(t)[m]
    <3>1. ASSUME NEW m \in 1 .. l PROVE N[Len(R) + m] = Lz!Fields(t)[m]
      <4>1. Len(R) + m \in a .. b /\ Len(R) + m \in 1 .. Laid(tokens, i + 1)
        <5> HIDE DEF l, a
        <5> QED
          BY <2>2
      <4>2. f \notin a .. b
        BY <1>1, <2>1, FlagsApart
      <4>3. N[Len(R) + m] = Q[Len(R) + m]
        BY <1>8, <4>1, <4>2, Zenon
      <4> QED
        BY <1>7, <4>3
    <3> QED
      BY <3>1
  <2> HIDE DEF l, a, b
  <2>4. s \in Seq(Byte) /\ Len(s) = l /\ \A m \in 1 .. l : s[m] = N[Len(R) + m]
    BY <1>8, <2>2
  <2> HIDE DEF s
  <2>5. s = Lz!Fields(t)
    BY <1>2, <2>3, <2>4, SeqEqual, Zenon DEF l
  <2>6. (N[f] \div 2 ^ (ByteBits - 1 - j)) % 2 = 1 <=> IsMatch(t)
    <3> HIDE DEF t, j
    <3> QED
      BY <1>5, <1>8
  <2> QED
    BY <2>1, <2>5, <2>6 DEF Holds, s, a, b, l
<1>11. Patch' = N
  <2>1. Patch' = IF inGroup' # 0 THEN [payload' EXCEPT ![flagIndex'] = flags'] ELSE payload'
    BY DEF Patch
  <2>2. inGroup' = IF j + 1 = ByteBits THEN 0 ELSE j + 1
    <3>1. CASE j + 1 = ByteBits
      <4>1. j + 1 = ByteBits * 1 + 0 /\ 0 \in 0 .. ByteBits - 1 /\ j + 1 \in Nat
        BY <1>1, <1>2, <3>1, SMTT(40)
      <4>2. (j + 1) % ByteBits = 0
        <5> HIDE DEF j
        <5> QED
          BY <1>2, <4>1, RemainderIs
      <4> QED
        BY <1>3, <3>1, <4>2
    <3>2. CASE j + 1 # ByteBits
      <4>1. j + 1 = ByteBits * 0 + (j + 1) /\ j + 1 \in 0 .. ByteBits - 1 /\ j + 1 \in Nat
        BY <1>1, <1>2, <3>2, SMTT(40)
      <4>2. (j + 1) % ByteBits = j + 1
        <5> DEFINE y == j + 1
        <5>1. y = ByteBits * 0 + y /\ y \in 0 .. ByteBits - 1 /\ y \in Nat
          BY <4>1
        <5> HIDE DEF y
        <5> QED
          BY <1>2, <5>1, RemainderIs, SMTT(40) DEF y
      <4> QED
        BY <1>3, <3>2, <4>2
    <3> QED
      BY <3>1, <3>2
  <2>3. CASE j + 1 = ByteBits
    BY <1>3, <2>1, <2>2, <2>3
  <2>4. CASE j + 1 # ByteBits
    <3>1. inGroup' # 0 /\ payload' = Q
      BY <1>1, <1>3, <2>2, <2>4
    <3> QED
      BY <1>3, <2>1, <3>1, Zenon DEF N
  <2> QED
    BY <2>3, <2>4
<1>12. payload' \in Seq(Byte) /\ Len(payload') = Laid(tokens, i + 1) /\ payload'[1] = payload[1] /\ payload'[2] = payload[2]
  <2>1. /\ 1 # f /\ 2 # f /\ 1 \in 1 .. Laid(tokens, i) /\ 2 \in 1 .. Laid(tokens, i)
        /\ 1 \in 1 .. Laid(tokens, i + 1) /\ 2 \in 1 .. Laid(tokens, i + 1)
    <3>1. f \in 3 .. Laid(tokens, i + 1) /\ Laid(tokens, i) \in Nat /\ Laid(tokens, i) >= 2
          /\ Laid(tokens, i + 1) \in Nat
      BY <1>2
    <3>2. Laid(tokens, i + 1) >= Laid(tokens, i)
      <4>1. i + 1 \in Nat /\ i <= i + 1
        BY <1>1
      <4> QED
        BY <1>1, <4>1, LaidGrows
    <3> HIDE DEF f
    <3> QED
      BY <3>1, <3>2
  <2>2. Q[1] = payload[1] /\ Q[2] = payload[2] /\ N[1] = Q[1] /\ N[2] = Q[2]
    BY <1>7, <1>8, <2>1
  <2>3. CASE j + 1 = ByteBits
    BY <1>3, <1>8, <2>2, <2>3
  <2>4. CASE j + 1 # ByteBits
    BY <1>3, <1>7, <2>2, <2>4
  <2> QED
    BY <2>3, <2>4
<1>13. inGroup' = (i + 1) % ByteBits
  <2>1. (j + 1) % ByteBits = (i + 1) % ByteBits
    <3> DEFINE y == 1
               k == i % ByteBits
    <3>1. i = ByteBits * (i \div ByteBits) + k /\ i \div ByteBits \in Nat /\ k \in Nat
      <4>1. i = ByteBits * (i \div ByteBits) + k /\ i \div ByteBits \in Nat /\ k \in 0 .. ByteBits - 1
        BY <1>1, <1>2, DividesInto, Zenon
      <4> QED
        BY <4>1
    <3> DEFINE q == i \div ByteBits
               z == k + 1
    <3>2. i + 1 = ByteBits * q + z /\ z \in Nat /\ q \in Nat
      BY <1>1, <1>2, <3>1
    <3> HIDE DEF z, q
    <3>3. (ByteBits * q + z) % ByteBits = z % ByteBits
      BY <1>2, <3>2, RemainderOf, Zenon
    <3> QED
      BY <3>2, <3>3 DEF z
  <2> QED
    BY <1>3, <2>1
<1>14. LzWritten'
  <2>1. i' \in 0 .. Len(tokens')
    <3>1. i' = i + 1 /\ i + 1 \in 1 .. Len(tokens) /\ tokens' = tokens /\ i \in Nat
      BY <1>1, <1>2, <1>3
    <3> QED
      BY <3>1
  <2>2. inGroup' = (i % ByteBits)' /\ Len(payload') = Laid(tokens, i)'
    BY <1>2, <1>3, <1>12, <1>13 DEF Laid
  <2>3. ASSUME inGroup' # 0
        PROVE  flagIndex' = FlagAt(tokens, i)' /\ (\E h \in 0 .. 2 ^ inGroup - 1 : flags = h * 2 ^ (ByteBits - inGroup))'
    <3>1. FlagAt(tokens, i)' = f
      BY <1>2, <1>3 DEF FlagAt, Laid
    <3>2. inGroup' = j + 1
      <4>1. (i + 1) % ByteBits = IF j = ByteBits - 1 THEN 0 ELSE j + 1
        BY <1>2
      <4> QED
        BY <1>13, <2>3, <4>1
    <3>3. \E h \in 0 .. 2 ^ inGroup' - 1 : flags' = h * 2 ^ (ByteBits - inGroup')
      BY <1>3, <1>5, <3>2
    <3> QED
      BY <1>3, <3>1, <3>3
  <2>4. ASSUME NEW k \in 1 .. i' PROVE Holds(Patch, tokens, k)'
    <3>1. Holds(N, tokens, k)
      <4>1. k \in 1 .. i \/ k = i + 1
        BY <1>1, <1>2
      <4> QED
        BY <1>9, <1>10, <4>1
    <3>2. Holds(N, tokens, k) <=> Holds(Patch, tokens, k)'
      BY <1>3, <1>11 DEF Holds, Lz!Fields, Laid, FlagAt
    <3> QED
      BY <3>1, <3>2
  <2> QED
    BY <2>1, <2>2, <2>3, <2>4 DEF LzWritten
<1>15. LzEncodable'
  <2>1. Len(payload') >= 2
    <3> HIDE DEF f, j, t
    <3> QED
      BY <1>2, <1>12
  <2>2. Lz!Encodable(tokens, windowBits, minMatch)' = Lz!Encodable(tokens, windowBits, minMatch)
    BY <1>3 DEF Lz!Encodable
  <2>3. Covered(tokens)' = Covered(tokens)
    BY <1>3
  <2> QED
    BY <1>3, <1>12, <2>1, <2>2, <2>3 DEF LzEncodable
<1> QED
  BY <1>12, <1>14, <1>15

\* There are tokens left as long as there are bytes to cover.
LEMMA BegunCovers ==
    ASSUME LzEncodable, decoded \in Seq(TokenRecords), Begun(decoded, tokens)
    PROVE  /\ Covered(decoded) = CoveredBy(tokens, Len(decoded))
           /\ Len(decoded) \in 0 .. Len(tokens)
           /\ Covered(decoded) < original <=> Len(decoded) < Len(tokens)
           /\ \A k \in 1 .. Len(decoded) : decoded[k] = tokens[k]
           /\ Laid(decoded, Len(decoded)) = Laid(tokens, Len(decoded))
<1> DEFINE n == Len(decoded)
<1>1. n \in 0 .. Len(tokens) /\ (\A k \in 1 .. n : decoded[k] = tokens[k]) /\ Len(tokens) \in Nat /\ n \in Nat
  <2>1. n \in Nat /\ Len(tokens) \in Nat
    BY EncodableIs
  <2> QED
    BY <2>1 DEF Begun
<1>2. tokens \in Seq(TokenRecords) /\ original = Covered(tokens)
  BY EncodableIs DEF LzEncodable
<1>3. Covered(decoded) = CoveredBy(tokens, n) /\ CoveredBy(tokens, n) \in Nat
  <2>1. n \in 0 .. n
    BY <1>1
  <2>2. CoveredBy(decoded, n) = CoveredBy(tokens, n)
    <3> HIDE DEF n
    <3>1. n <= Len(decoded)
      BY <1>1 DEF n
    <3> QED
      BY <1>1, <1>2, <2>1, <3>1, CoveredAgrees
  <2>3. CoveredBy(tokens, n) \in Nat
    BY <1>1, <1>2, CoveredIs
  <2> QED
    BY <2>2, <2>3 DEF Covered
<1>4. Laid(decoded, n) = Laid(tokens, n)
  <2>1. n \in 0 .. n
    BY <1>1
  <2> HIDE DEF n
  <2> QED
    BY <1>1, <2>1, LaidAgrees, ZenonT(60)
<1>5. original = CoveredBy(tokens, Len(tokens)) /\ original \in Nat
  BY <1>2, CoveredIs
<1>6. ASSUME n < Len(tokens) PROVE Covered(decoded) < original
  <2>1. n + 1 \in 1 .. Len(tokens) /\ (n + 1) - 1 = n /\ n + 1 \in 0 .. Len(tokens) /\ Len(tokens) \in n + 1 .. Len(tokens)
    BY <1>1, <1>6
  <2>2. CoveredBy(tokens, n + 1) = CoveredBy(tokens, n) + Width(tokens[n + 1])
    BY <1>2, <2>1, CoveredIs
  <2>3. Width(tokens[n + 1]) \in Nat /\ Width(tokens[n + 1]) >= 1
    BY <2>1, EncodableIs
  <2>4. CoveredBy(tokens, n + 1) <= CoveredBy(tokens, Len(tokens))
    BY <1>2, <2>1, CoveredGrows
  <2> QED
    BY <1>3, <1>5, <2>2, <2>3, <2>4
<1>7. ASSUME Covered(decoded) < original PROVE n < Len(tokens)
  <2>1. n # Len(tokens)
    BY <1>3, <1>5, <1>7
  <2> QED
    BY <1>1, <2>1
<1> QED
  BY <1>1, <1>3, <1>4, <1>6, <1>7

\* The token that is read is the one that was written there.
LEMMA ReadsBack ==
    ASSUME LzReading, LzEncodable, LzHeld, payload \in Seq(Byte), Begun(decoded, tokens), Covered(decoded) < original
    PROVE  /\ Lz!Readable
           /\ Len(decoded) + 1 \in 1 .. Len(tokens)
           /\ ReadHere = tokens[Len(decoded) + 1]
<1> DEFINE n == Len(decoded)
           t == tokens[n + 1]
           j == n % ByteBits
<1>1. /\ Covered(decoded) = CoveredBy(tokens, n)
      /\ n \in Nat /\ n + 1 \in 1 .. Len(tokens) /\ Len(tokens) \in Nat
      /\ \A k \in 1 .. n : decoded[k] = tokens[k]
      /\ at = Laid(tokens, n) /\ at \in Nat /\ at <= Len(payload) /\ Len(payload) \in Nat
      /\ decoded \in Seq(TokenRecords)
  <2>1. decoded \in Seq(TokenRecords) /\ at = Laid(decoded, n) /\ at <= Len(payload)
    BY DEF LzReading
  <2>2. /\ Covered(decoded) = CoveredBy(tokens, n) /\ n \in 0 .. Len(tokens)
        /\ n < Len(tokens)
        /\ \A k \in 1 .. n : decoded[k] = tokens[k]
        /\ Laid(decoded, n) = Laid(tokens, n)
    BY <2>1, BegunCovers
  <2>3. Len(tokens) \in Nat /\ Len(payload) \in Nat
    BY EncodableIs
  <2> HIDE DEF n
  <2>4. n \in Nat
    BY <2>2, <2>3
  <2>5. Laid(tokens, n) \in Nat
    BY <2>4, LaidNext
  <2> QED
    BY <2>1, <2>2, <2>3, <2>4, <2>5
<1>2. /\ Laid(tokens, n + 1) = at + (IF j = 0 THEN 1 ELSE 0) + (IF IsMatch(t) THEN 3 ELSE 1)
      /\ Laid(tokens, n + 1) <= Len(payload)
  <2>1. n + 1 \in Nat /\ n + 1 <= Len(tokens)
    BY <1>1
  <2>2. Laid(tokens, n + 1) <= Laid(tokens, Len(tokens))
    BY <1>1, <2>1, LaidGrows
  <2>3. Len(payload) = Laid(tokens, Len(tokens))
    BY DEF LzHeld
  <2> QED
    BY <1>1, <2>2, <2>3, LaidNext, Zenon
<1>3. Holds(payload, tokens, n + 1)
  BY <1>1 DEF LzHeld
<1>4. FlagAt(decoded, n + 1) = FlagAt(tokens, n + 1)
  <2>1. n + 1 \in 1 .. n + 1
    BY <1>1
  <2> QED
    BY <1>1, <2>1, LaidAgrees, Zenon
<1>5. inGroup = (IF j = 0 THEN 0 ELSE ByteBits - j) /\ Lz!FlagTaken = IF j = 0 THEN 1 ELSE 0
  <2>1. inGroup = (IF j = 0 THEN 0 ELSE ByteBits - j)
    BY DEF LzReading
  <2>2. j \in 0 .. ByteBits - 1 /\ ByteBits \in Nat
    BY <1>1, NextInGroup, ByteIs
  <2> HIDE DEF j
  <2> QED
    BY <2>1, <2>2 DEF Lz!FlagTaken
<1>6. Len(payload) - at >= Lz!FlagTaken
  <2> HIDE DEF n, j, t
  <2> QED
    BY <1>1, <1>2, <1>5
<1>7. Lz!NextIsMatch <=> IsMatch(t)
  <2>1. Lz!NextIsMatch <=> (payload[FlagAt(decoded, n + 1)] \div 2 ^ (ByteBits - 1 - j)) % 2 = 1
    BY <1>6, FlagsAre
  <2>2. (n + 1) - 1 = n
    BY <1>1
  <2>3. IsMatch(t) <=> (payload[FlagAt(tokens, n + 1)] \div 2 ^ (ByteBits - 1 - j)) % 2 = 1
    BY <1>3, <2>2 DEF Holds
  <2> QED
    BY <1>4, <2>1, <2>3
<1> DEFINE e == Lz!TokenAt
<1>8. /\ e = at + (IF j = 0 THEN 1 ELSE 0) /\ Lz!TokenSize = (IF IsMatch(t) THEN 3 ELSE 1)
      /\ e \in Nat /\ Laid(tokens, n + 1) = e + Lz!TokenSize
  <2>1. e = at + (IF j = 0 THEN 1 ELSE 0) /\ Lz!TokenSize = (IF IsMatch(t) THEN 3 ELSE 1)
    BY <1>5, <1>7 DEF Lz!TokenAt, Lz!TokenSize
  <2> HIDE DEF e, j, t, n
  <2> QED
    BY <1>1, <1>2, <2>1
<1> HIDE DEF e
<1>9. Lz!Complete
  <2> HIDE DEF n, j, t
  <2>1. Len(payload) - e >= Lz!TokenSize
    BY <1>1, <1>2, <1>8, SMTT(40)
  <2> QED
    BY <1>6, <2>1 DEF Lz!Complete, e
<1>10. SubSeq(payload, e + 1, e + Lz!TokenSize) = Lz!Fields(t)
  <2>1. Len(Lz!Fields(t)) = Lz!TokenSize
    BY <1>8, FieldsAre, Zenon
  <2>2. Laid(tokens, n + 1) - Len(Lz!Fields(t)) + 1 = e + 1
    <3> HIDE DEF t, n, j
    <3> QED
      BY <1>8, <2>1
  <2>3. SubSeq(payload, Laid(tokens, n + 1) - Len(Lz!Fields(t)) + 1, Laid(tokens, n + 1)) = Lz!Fields(t)
    BY <1>3 DEF Holds
  <2> QED
    BY <1>8, <2>2, <2>3
<1>11. /\ t \in TokenRecords
       /\ t = IF IsMatch(t) THEN Reference(t) ELSE Literal(t.literal)
       /\ t.distance <= CoveredBy(tokens, n)
       /\ IsMatch(t) =>
             /\ t.distance < 2 ^ windowBits
             /\ t.distance - 1 \in 0 .. 2 ^ (2 * ByteBits) - 1
             /\ t.length - minMatch \in Byte
             /\ t.length >= 1
       /\ minMatch \in Nat /\ windowBits \in 0 .. 2 * ByteBits
  <2>1. (n + 1) - 1 = n
    BY <1>1
  <2> QED
    BY <1>1, <2>1, EncodableIs, Zenon
<1>12. CASE IsMatch(t)
  <2> DEFINE a == payload[e + 1]
             b == payload[e + 2]
             c == payload[e + 3]
             W == 2 ^ ByteBits
             V == 2 ^ (2 * ByteBits)
             x == t.distance - 1
             y == t.length - minMatch
  <2>1. e + 3 \in 3 .. Len(payload) /\ Lz!TokenSize = 3 /\ (e + 3) - 2 = e + 1 /\ (e + 3) - 1 = e + 2
    <3> HIDE DEF t, n, j
    <3> QED
      BY <1>1, <1>2, <1>8, <1>12, SMTT(40)
  <2>2. SubSeq(payload, e + 1, e + 3) = << a, b, c >>
    BY <2>1, Three
  <2>3. Lz!Fields(t) = << (x % V) % W, (x % V) \div W, y % W >>
    BY <1>12, FieldsAre
  <2>4. a = (x % V) % W /\ b = (x % V) \div W /\ c = y % W
    <3> HIDE DEF a, b, c, x, y, V, W
    <3>1. << a, b, c >> = << (x % V) % W, (x % V) \div W, y % W >>
      BY <1>10, <2>1, <2>2, <2>3
    <3> QED
      BY <3>1
  <2>5. W \in Nat \ {0} /\ V = W * W /\ Byte = 0 .. W - 1
    BY ByteIs
  <2>6. x \in 0 .. V - 1 /\ y \in 0 .. W - 1
    BY <1>11, <1>12, <2>5
  <2>7. t.distance \in Nat /\ t.length \in Nat
    BY <1>11 DEF TokenRecords
  <2>8. x + 1 = t.distance /\ y + minMatch = t.length
    BY <1>11, <2>7, SMTT(40)
  <2> HIDE DEF x, y, V, W
  <2>9. V \in Nat \ {0}
    BY <2>5
  <2>10. x % V = x /\ y % W = y
    <3>1. x = V * 0 + x /\ y = W * 0 + y /\ x \in Nat /\ y \in Nat
      BY <2>5, <2>6, <2>9
    <3>2. W \in Nat \ {0}
      BY <2>5
    <3>3. x % V = x
      BY <2>6, <2>9, <3>1, RemainderIs
    <3>4. y % W = y
      BY <2>6, <3>1, <3>2, RemainderIs
    <3> QED
      BY <3>3, <3>4
  <2>11. a + b * W = x /\ c = y
    <3>1. x = W * (x \div W) + (x % W) /\ x \div W \in Nat /\ x % W \in 0 .. W - 1
      <4>1. x \in Nat
        BY <2>6, <2>9
      <4> QED
        BY <2>5, <4>1, DividesInto, Zenon
    <3> DEFINE q == x \div W
               r == x % W
    <3>2. a = r /\ b = q /\ x = W * q + r /\ q \in Nat /\ r \in 0 .. W - 1
      BY <2>4, <2>10, <3>1
    <3>3. c = y
      BY <2>4, <2>10
    <3> HIDE DEF q, r, a, b, c
    <3>4. r + q * W = W * q + r
      BY <2>5, <3>2
    <3> QED
      BY <3>2, <3>3, <3>4
  <2>12. Lz!ReadReference = [distance |-> t.distance, length |-> t.length]
    <3>1. Lz!ReadReference = [distance |-> (a + b * W) + 1, length |-> c + minMatch]
      BY DEF Lz!ReadReference, e, W
    <3> HIDE DEF a, b, c
    <3>2. (a + b * W) + 1 = t.distance /\ c + minMatch = t.length
      BY <2>8, <2>11
    <3> QED
      BY <3>1, <3>2
  <2>13. ReadHere = t
    <3>1. ReadHere = Reference(Lz!ReadReference)
      BY <1>7, <1>12 DEF ReadHere
    <3> HIDE DEF t
    <3> QED
      BY <1>11, <1>12, <2>12, <3>1 DEF Reference
  <2>14. Lz!Legal(Lz!ReadReference)
    <3>1. t.distance <= Covered(decoded)
      BY <1>1, <1>11
    <3>2. t.distance <= 2 ^ windowBits
      <4>1. 2 ^ windowBits \in Nat
        BY <1>11, ByteIs DEF PowersDouble
      <4> QED
        BY <1>11, <1>12, <2>7, <4>1
    <3>3. Covered(decoded) + t.length <= original
      <4>1. /\ tokens \in Seq(TokenRecords) /\ original = CoveredBy(tokens, Len(tokens))
        BY EncodableIs DEF LzEncodable, Covered
      <4>2. n + 1 \in 0 .. Len(tokens) /\ Len(tokens) \in n + 1 .. Len(tokens) /\ (n + 1) - 1 = n
        BY <1>1
      <4>3. CoveredBy(tokens, n + 1) <= original
        BY <4>1, <4>2, CoveredGrows
      <4>4. CoveredBy(tokens, n + 1) = CoveredBy(tokens, n) + Width(t)
        BY <1>1, <4>1, <4>2, CoveredIs
      <4>5. Width(t) = t.length
        BY <1>12 DEF Width
      <4> QED
        BY <1>1, <4>3, <4>4, <4>5
    <3>4. Lz!ReadReference.distance = t.distance /\ Lz!ReadReference.length = t.length
      <4> HIDE DEF t
      <4> QED
        BY <2>12
    <3> QED
      BY <3>1, <3>2, <3>3, <3>4, LzTokens DEF Lz!Legal
  <2> QED
    BY <1>1, <1>9, <2>13, <2>14 DEF Lz!Readable
<1>13. CASE ~IsMatch(t)
  <2>1. e + 1 \in 1 .. Len(payload) /\ Lz!TokenSize = 1
    <3> HIDE DEF t, n, j
    <3> QED
      BY <1>1, <1>2, <1>8, <1>13
  <2>2. << payload[e + 1] >> = << t.literal >>
    BY <1>10, <1>13, <2>1, One, FieldsAre
  <2>3. payload[e + 1] = t.literal
    BY <2>2
  <2>4. ReadHere = Literal(payload[e + 1]) /\ ~Lz!NextIsMatch
    BY <1>7, <1>13 DEF ReadHere, e
  <2> QED
    BY <1>1, <1>9, <1>11, <1>13, <2>3, <2>4 DEF Lz!Readable
<1> QED
  BY <1>12, <1>13

lzShared == <<budget, payload, original, i, decoded, stage, tokens>>

\* What a step leaves alone stays as it is.
LEMMA LzUnchanged ==
    ASSUME UNCHANGED <<payload, tokens, windowBits, minMatch>>
    PROVE  /\ UNCHANGED original => (LzEncodable <=> LzEncodable')
           /\ LzHeld <=> LzHeld'
           /\ UNCHANGED <<original, decoded, at, inGroup, flags>> => (LzReading <=> LzReading')
           /\ UNCHANGED <<i, inGroup, flagIndex, flags>> => (LzWritten <=> LzWritten')
<1>1. UNCHANGED original => (LzEncodable <=> LzEncodable')
  BY DEF LzEncodable, Lz!Encodable
<1>2. \A bytes, parse, k : Holds(bytes, parse, k) <=> Holds(bytes, parse, k)'
  BY DEF Holds, Lz!Fields
<1>3. LzHeld <=> LzHeld'
  BY <1>2 DEF LzHeld, Laid, Holds, Lz!Fields
<1>4. UNCHANGED <<original, decoded, at, inGroup, flags>> => (LzReading <=> LzReading')
  BY <1>2 DEF LzReading, Holds, Lz!Fields
<1>5. UNCHANGED <<i, inGroup, flagIndex, flags>> => (LzWritten <=> LzWritten')
  BY <1>2 DEF LzWritten, Patch, Holds, Lz!Fields
<1> QED
  BY <1>1, <1>3, <1>4, <1>5

\* The invariant of Lzss: it is kept where nothing of Lzss changes.
LEMMA LzStutters == LzInv /\ UNCHANGED <<lzShared, lzVars>> => LzInv'
<1> SUFFICES ASSUME LzInv, UNCHANGED <<lzShared, lzVars>> PROVE LzInv'
  OBVIOUS
<1> USE DEF lzShared, lzVars
<1>1. /\ LzEncodable <=> LzEncodable'
      /\ LzHeld <=> LzHeld'
      /\ LzReading <=> LzReading'
      /\ LzWritten <=> LzWritten'
  BY LzUnchanged
<1>2. Begun(decoded, tokens)' = Begun(decoded, tokens)
  OBVIOUS
<1>3. Encoded' = Encoded /\ Covered(decoded)' = Covered(decoded)
  BY DEF Encoded
<1> QED
  BY <1>1, <1>2, <1>3 DEF LzInv

\* It holds at first.
LEMMA LzStarts == Lz!Init => LzInv
<1> SUFFICES ASSUME Lz!Init PROVE LzInv
  OBVIOUS
<1>1. decoded = << >> /\ at = 0 /\ Begun(decoded, tokens)
  <2>1. decoded = << >> /\ at = 0
    BY DEF Lz!Init
  <2>2. \A parse : Begun(<< >>, parse) <=> 0 <= Len(parse)
    BY DEF Begun
  <2>3. 0 <= Len(tokens)
    <3>1. tokens \in Parses["lz77"] \/ tokens = << >>
      BY DEF Lz!Init
    <3>2. \A parse \in Parses["lz77"] : parse \in Seq([distance : Nat, length : Nat, literal : Nat])
      BY ParsesAssumption DEF WellFormed
    <3>3. \A S : \A parse \in Seq(S) : 0 <= Len(parse)
      OBVIOUS
    <3>4. << >> \in Seq(Nat)
      OBVIOUS
    <3> QED
      BY <3>1, <3>2, <3>3, <3>4
  <2> QED
    BY <2>1, <2>2, <2>3
<1>2. CASE budget # 0
  <2>1. /\ windowBits \in Windows["lz77"] /\ minMatch \in MinMatches["lz77"]
        /\ tokens \in Parses["lz77"] /\ Lz!Encodable(tokens, windowBits, minMatch)
        /\ budget \in Budgets["lz77"] /\ payload = <<windowBits, minMatch>>
        /\ original = Covered(tokens) /\ stage = "encode"
        /\ inGroup = 0 /\ i = 0
    BY <1>2, LzTokens DEF Lz!Init
  <2>2. windowBits \in Byte /\ minMatch \in Byte /\ budget \in Nat
    BY <2>1, BlockCodecAssumption DEF Coders
  <2>3. payload \in Seq(Byte) /\ Len(payload) = 2 /\ payload[1] = windowBits /\ payload[2] = minMatch
    BY <2>1, <2>2
  <2>4. LzEncodable
    BY <2>1, <2>3 DEF LzEncodable
  <2>5. LzWritten
    <3>1. Laid(tokens, 0) = 2 /\ 0 % ByteBits = 0
      <4>1. 0 = ByteBits * 0 + 0 /\ 0 \in Nat /\ ByteBits \in Nat \ {0} /\ 0 \in 0 .. ByteBits - 1
        BY ByteIs
      <4> QED
        BY <4>1, LaidNext, RemainderIs
    <3>2. 0 \in 0 .. Len(tokens) /\ 1 .. 0 = {}
      BY <2>4, EncodableIs
    <3> QED
      BY <2>1, <2>3, <3>1, <3>2 DEF LzWritten
  <2>6. original \in Nat
    BY <2>1, <2>4, EncodableIs, CoveredIs
  <2> QED
    BY <1>1, <1>2, <2>1, <2>2, <2>3, <2>4, <2>5, <2>6 DEF LzInv, Encoded
<1>3. CASE budget = 0
  <2>1. 0 \notin Budgets["lz77"] /\ Foreign["lz77"] \subseteq Seq(Byte) /\ Originals["lz77"] \subseteq Nat
    BY BlockCodecAssumption DEF Coders
  <2>2. payload \in Seq(Byte) /\ original \in Nat /\ stage = "open"
    BY <1>3, <2>1 DEF Lz!Init
  <2> QED
    BY <1>1, <1>3, <2>2 DEF LzInv, Encoded
<1> QED
  BY <1>2, <1>3

\* Every step of Lzss keeps it.
LEMMA LzSteps == LzInv /\ Lz!Step => LzInv'
<1> SUFFICES ASSUME LzInv, Lz!Step PROVE LzInv'
  OBVIOUS
<1>1. ASSUME Lz!GiveUp PROVE LzInv'
  <2>1. /\ stage = "encode" /\ stage' = "stored"
        /\ UNCHANGED <<budget, payload, original, i, decoded, tokens, windowBits, minMatch, flagIndex, flags, inGroup, at>>
    BY <1>1 DEF Lz!GiveUp, Lz!config, Lz!group
  <2>2. LzEncodable' <=> LzEncodable
    BY <2>1, LzUnchanged
  <2> QED
    BY <2>1, <2>2 DEF LzInv, Encoded, Begun
<1>2. ASSUME Lz!WriteToken PROVE LzInv'
  <2>1. stage = "encode" /\ stage' = "encode" /\ UNCHANGED <<budget, original, decoded, tokens, at>>
    BY <1>2 DEF Lz!WriteToken, Lz!config
  <2>2. LzWritten' /\ LzEncodable' /\ payload' \in Seq(Byte)
    BY <1>2, <2>1, LzWrites DEF LzInv
  <2> QED
    BY <2>1, <2>2 DEF LzInv, Encoded, Begun
<1>3. ASSUME Lz!EndEncode PROVE LzInv'
  <2>1. /\ stage = "encode" /\ stage' = "open" /\ payload' = Patch /\ i = Len(tokens)
        /\ UNCHANGED <<budget, original, i, decoded, tokens, windowBits, minMatch, flagIndex, flags, inGroup, at>>
    BY <1>3 DEF Lz!EndEncode, Lz!config, Lz!group, Lz!Patched, Patch
  <2>2. LzWritten /\ LzEncodable /\ payload \in Seq(Byte) /\ original \in Nat /\ budget \in Nat
        /\ decoded = << >> /\ at = 0 /\ Begun(decoded, tokens)
    BY <2>1 DEF LzInv
  <2> DEFINE f == FlagAt(tokens, i + 1)
  <2>3. /\ Patch \in Seq(Byte) /\ Len(Patch) = Laid(tokens, i) /\ Len(payload) = Laid(tokens, i)
        /\ \A m \in 1 .. Laid(tokens, i) : m # f => Patch[m] = payload[m]
        /\ i \in Nat
    BY <2>2, PatchIs
  <2>4. f \in 3 .. Laid(tokens, i + 1) /\ Laid(tokens, i) \in Nat /\ Laid(tokens, i) >= 2
    BY <2>3, FlagIsAt, LaidNext
  <2>5. Patch[1] = payload[1] /\ Patch[2] = payload[2] /\ Len(Patch) >= 2
    <3> HIDE DEF f
    <3>1. 1 # f /\ 2 # f /\ 1 \in 1 .. Laid(tokens, i) /\ 2 \in 1 .. Laid(tokens, i)
      <4>1. Laid(tokens, i + 1) \in Nat
        BY <2>3, LaidNext
      <4> QED
        BY <2>4, <4>1
    <3> QED
      BY <2>3, <2>4, <3>1
  <2>6. LzEncodable'
    BY <2>1, <2>2, <2>5 DEF LzEncodable, Lz!Encodable
  <2>7. LzHeld'
    <3>1. \A k \in 1 .. Len(tokens) : Holds(Patch, tokens, k)
      BY <2>1, <2>2 DEF LzWritten
    <3>2. \A k : Holds(Patch, tokens, k) <=> Holds(payload, tokens, k)'
      BY <2>1 DEF Holds, Lz!Fields
    <3> QED
      BY <2>1, <2>3, <3>1, <3>2 DEF LzHeld
  <2> QED
    BY <2>1, <2>2, <2>3, <2>6, <2>7 DEF LzInv, Encoded
<1>4. ASSUME Lz!OpenFails PROVE LzInv'
  <2>1. /\ stage = "open" /\ stage' = "corrupt" /\ ~Lz!LegalParameters
        /\ UNCHANGED <<budget, payload, original, i, decoded, tokens, windowBits, minMatch, flagIndex, flags, inGroup, at>>
    BY <1>4 DEF Lz!OpenFails, Lz!config, Lz!group
  <2>2. ~Encoded
    BY <2>1 DEF LzInv, LzEncodable, Lz!LegalParameters
  <2> QED
    BY <2>1, <2>2 DEF LzInv, Encoded
<1>5. ASSUME Lz!Open PROVE LzInv'
  <2>1. /\ stage = "open" /\ stage' = "decode"
        /\ Len(payload) >= 2 /\ payload[1] \in Windows["lz77"] /\ payload[2] \in MinMatches["lz77"]
        /\ windowBits' = payload[1] /\ minMatch' = payload[2] /\ at' = 2 /\ inGroup' = 0
        /\ UNCHANGED <<budget, payload, original, i, decoded, tokens>>
    BY <1>5 DEF Lz!Open, Lz!LegalParameters
  <2>2. decoded = << >> /\ payload \in Seq(Byte) /\ original \in Nat
    BY <2>1 DEF LzInv
  <2>3. LzReading'
    <3>1. << >> \in Seq(TokenRecords) /\ Covered(<< >>) = 0 /\ Laid(<< >>, 0) = 2
          /\ \A reach : WithinReach(<< >>, reach)
      BY NoTokens
    <3>2. 0 % ByteBits = 0
      <4>1. 0 = ByteBits * 0 + 0 /\ 0 \in Nat /\ ByteBits \in Nat \ {0} /\ 0 \in 0 .. ByteBits - 1
        BY ByteIs
      <4> QED
        BY <4>1, RemainderIs
    <3>3. decoded' = << >> /\ Len(<< >>) = 0 /\ DOMAIN << >> = {}
      BY <2>1, <2>2
    <3>4. Covered(decoded)' = 0 /\ Laid(decoded, Len(decoded))' = 2 /\ (Len(decoded) % ByteBits)' = 0
      BY <3>1, <3>2, <3>3 DEF Laid
    <3>5. WithinReach(decoded, 2 ^ windowBits)'
      BY <3>1, <3>3
    <3>6. \A k \in DOMAIN decoded' : Holds(payload, decoded, k)'
      BY <3>3
    <3>7. decoded' \in Seq(TokenRecords)
      BY <3>1, <3>3
    <3> QED
      BY <2>1, <2>2, <3>4, <3>5, <3>6, <3>7 DEF LzReading
  <2>4. ASSUME Encoded PROVE LzEncodable' /\ LzHeld'
    <3>1. LzEncodable /\ LzHeld
      BY <2>1, <2>4 DEF LzInv
    <3>2. UNCHANGED <<windowBits, minMatch>>
      BY <2>1, <3>1 DEF LzEncodable
    <3> QED
      BY <2>1, <3>1, <3>2, LzUnchanged
  <2> QED
    BY <2>1, <2>2, <2>3, <2>4 DEF LzInv, Encoded, Begun
<1>6. ASSUME Lz!ReadToken PROVE LzInv'
  <2>1. /\ stage = "decode" /\ stage' = "decode" /\ Covered(decoded) < original
        /\ UNCHANGED <<budget, payload, original, i, tokens, windowBits, minMatch>>
    BY <1>6, LzTokens DEF Lz!ReadToken, Lz!Unfinished, Lz!config
  <2>2. LzReading /\ payload \in Seq(Byte) /\ original \in Nat
    BY <2>1 DEF LzInv
  <2>3. LzReading' /\ decoded' = Append(decoded, ReadHere)
    BY <1>6, <2>2, LzReads
  <2>4. ASSUME Encoded PROVE LzEncodable' /\ LzHeld' /\ Begun(decoded, tokens)'
    <3>1. LzEncodable /\ LzHeld /\ Begun(decoded, tokens)
      BY <2>1, <2>4 DEF LzInv
    <3>2. LzEncodable' /\ LzHeld'
      BY <2>1, <3>1, LzUnchanged
    <3>3. Len(decoded) + 1 \in 1 .. Len(tokens) /\ ReadHere = tokens[Len(decoded) + 1]
      BY <2>1, <2>2, <3>1, ReadsBack
    <3>4. decoded \in Seq(TokenRecords)
      BY <2>2 DEF LzReading
    <3>5. /\ Len(decoded') = Len(decoded) + 1 /\ decoded'[Len(decoded) + 1] = ReadHere
          /\ \A k \in 1 .. Len(decoded) : decoded'[k] = decoded[k]
      <4>1. \A x : Len(Append(decoded, x)) = Len(decoded) + 1 /\ Append(decoded, x)[Len(decoded) + 1] = x
               /\ \A k \in 1 .. Len(decoded) : Append(decoded, x)[k] = decoded[k]
        BY <3>4
      <4> QED
        BY <2>3, <4>1
    <3>6. Begun(decoded', tokens)
      <4>1. Len(decoded) \in Nat /\ Len(tokens) \in Nat
        BY <3>1, <3>4, EncodableIs
      <4>2. Len(decoded') <= Len(tokens)
        BY <3>3, <3>5, <4>1
      <4>3. ASSUME NEW k \in 1 .. Len(decoded') PROVE decoded'[k] = tokens[k]
        <5>1. k \in 1 .. Len(decoded) \/ k = Len(decoded) + 1
          BY <3>5, <4>1
        <5> QED
          BY <3>1, <3>3, <3>5, <5>1 DEF Begun
      <4> QED
        BY <4>2, <4>3 DEF Begun
    <3>7. Begun(decoded, tokens)' = Begun(decoded', tokens)
      BY <2>1 DEF Begun
    <3> QED
      BY <3>2, <3>6, <3>7
  <2> QED
    BY <2>1, <2>2, <2>3, <2>4 DEF LzInv, Encoded
<1>7. ASSUME Lz!ReadFails PROVE LzInv'
  <2>1. /\ stage = "decode" /\ stage' = "corrupt" /\ Covered(decoded) < original /\ ~Lz!Readable
        /\ UNCHANGED <<budget, payload, original, i, decoded, tokens, windowBits, minMatch, flagIndex, flags, inGroup, at>>
    BY <1>7, LzTokens DEF Lz!ReadFails, Lz!Unfinished, Lz!config, Lz!group
  <2>2. LzReading /\ payload \in Seq(Byte) /\ original \in Nat
    BY <2>1 DEF LzInv
  <2>3. ~Encoded
    <3> SUFFICES ASSUME Encoded PROVE FALSE
      OBVIOUS
    <3>1. LzEncodable /\ LzHeld /\ Begun(decoded, tokens)
      BY <2>1 DEF LzInv
    <3> QED
      BY <2>1, <2>2, <3>1, ReadsBack
  <2>4. LzReading'
    BY <2>1, <2>2, LzUnchanged
  <2> QED
    BY <2>1, <2>2, <2>3, <2>4 DEF LzInv, Encoded
<1>8. ASSUME Lz!EndDecode PROVE LzInv'
  <2>1. /\ stage = "decode" /\ stage' = "done" /\ Covered(decoded) >= original
        /\ UNCHANGED <<budget, payload, original, i, decoded, tokens, windowBits, minMatch, flagIndex, flags, inGroup, at>>
    BY <1>8, LzTokens DEF Lz!EndDecode, Lz!config, Lz!group
  <2>2. LzReading /\ payload \in Seq(Byte) /\ original \in Nat
    BY <2>1 DEF LzInv
  <2>3. LzReading' /\ Covered(decoded) = original
    <3>1. Covered(decoded) <= original /\ Covered(decoded) \in Nat
      BY <2>2, CoveredIs DEF LzReading
    <3> QED
      BY <2>1, <2>2, <3>1, LzUnchanged
  <2>4. ASSUME Encoded PROVE LzEncodable' /\ LzHeld' /\ Begun(decoded, tokens)'
    <3>1. LzEncodable /\ LzHeld /\ Begun(decoded, tokens)
      BY <2>1, <2>4 DEF LzInv
    <3> QED
      BY <2>1, <3>1, LzUnchanged DEF Begun
  <2> QED
    BY <2>1, <2>2, <2>3, <2>4 DEF LzInv, Encoded
<1> QED
  BY <1>1, <1>2, <1>3, <1>4, <1>5, <1>6, <1>7, <1>8 DEF Lz!Step

\* The invariant gives the two properties.
LEMMA LzIsSound == LzInv => Lz!DecodeSound
<1> SUFFICES ASSUME LzInv, stage \in {"decode", "done", "corrupt"}
             PROVE  /\ at <= Len(payload) /\ Covered(decoded) <= original
                    /\ WithinReach(decoded, 2 ^ windowBits)
                    /\ Lz!LaidOut(decoded)
                    /\ stage = "done" => Covered(decoded) = original
  BY LzTokens DEF Lz!DecodeSound
<1>1. CASE decoded = << >> /\ at = 0 /\ stage = "corrupt"
  <2>1. Covered(<< >>) = 0 /\ (\A reach : WithinReach(<< >>, reach)) /\ DOMAIN << >> = {}
    BY NoTokens
  <2>2. Lz!LaidOut(decoded)
    BY <1>1, <2>1, LaidOutIs
  <2>3. payload \in Seq(Byte) /\ original \in Nat
    BY DEF LzInv
  <2>4. Len(payload) \in Nat
    BY <2>3
  <2> QED
    BY <1>1, <2>1, <2>2, <2>3, <2>4
<1>2. CASE LzReading
  BY <1>2, LaidOutIs DEF LzReading, LzInv
<1> QED
  BY <1>1, <1>2 DEF LzInv

\* Nor is anything lost.
LEMMA LzIsLossless == LzInv => Lz!Lossless
<1> SUFFICES ASSUME LzInv, Encoded
             PROVE  /\ stage \in {"open", "decode"} => Len(payload) = Lz!Total
                    /\ decoded = SubSeq(tokens, 1, Len(decoded)) /\ stage # "corrupt"
                    /\ stage = "done" => decoded = tokens /\ at = Len(payload)
  BY DEF Lz!Lossless, Lz!Encoded, Encoded
<1>1. LzEncodable /\ Begun(decoded, tokens) /\ stage # "corrupt"
  BY DEF LzInv
<1>2. decoded \in Seq(TokenRecords)
  BY NoTokens, Zenon DEF LzInv, LzReading
<1>3. /\ Len(decoded) \in 0 .. Len(tokens)
      /\ Covered(decoded) < original <=> Len(decoded) < Len(tokens)
      /\ \A k \in 1 .. Len(decoded) : decoded[k] = tokens[k]
      /\ Laid(decoded, Len(decoded)) = Laid(tokens, Len(decoded))
  BY <1>1, <1>2, BegunCovers
<1>4. tokens \in Seq(TokenRecords) /\ DOMAIN tokens = 1 .. Len(tokens) /\ Len(tokens) \in Nat
  BY <1>1, EncodableIs
<1>5. Laid(tokens, Len(tokens)) = Lz!Total
  <2> DEFINE n == Len(tokens)
             M == {k \in 1 .. n : IsMatch(tokens[k])}
             m == Cardinality(M)
             h == (n + ByteBits - 1) \div ByteBits
  <2>1. Lz!Matches = M
    BY <1>4, LzTokens DEF Lz!Matches
  <2>2. \A S : Lz!Cardinality(S) = Cardinality(S)
    BY DEF Lz!Cardinality, Cardinality
  <2>3. Laid(tokens, n) = 2 + h + n + 2 * m
    BY DEF Laid
  <2>4. Lz!Total = 2 + h + (n - m) + 3 * m
    <3> HIDE DEF M
    <3> QED
      BY <2>1, <2>2 DEF Lz!Total
  <2>5. m \in Nat /\ h \in Nat /\ n \in Nat
    <3>1. n \in Nat
      BY <1>4
    <3> HIDE DEF n
    <3> QED
      BY <3>1, MatchesAre, NextInGroup, Zenon
  <2> HIDE DEF n, m, h
  <2>6. 2 + h + n + 2 * m = 2 + h + (n - m) + 3 * m
    BY <2>5
  <2> QED
    BY <2>3, <2>4, <2>6 DEF n
<1>6. stage \in {"open", "decode", "done"} => Len(payload) = Laid(tokens, Len(tokens))
  BY DEF LzInv, LzHeld
<1>7. decoded = SubSeq(tokens, 1, Len(decoded))
  <2> DEFINE b == SubSeq(tokens, 1, Len(decoded))
  <2>1. b \in Seq(TokenRecords) /\ Len(b) = Len(decoded) /\ \A k \in 1 .. Len(decoded) : b[k] = tokens[k]
    BY <1>2, <1>3, <1>4
  <2> HIDE DEF b
  <2>2. decoded = b
    BY <1>2, <1>3, <2>1, SeqEqual
  <2> QED
    BY <2>2 DEF b
<1>8. ASSUME stage = "done" PROVE decoded = tokens /\ at = Len(payload)
  <2>1. Covered(decoded) = original /\ LzReading
    BY <1>8 DEF LzInv
  <2>2. original \in Nat
    BY DEF LzInv
  <2>3. Len(decoded) = Len(tokens)
    BY <1>3, <1>4, <2>1, <2>2
  <2>4. decoded = tokens
    BY <1>2, <1>3, <1>4, <2>3, SeqEqual
  <2> QED
    BY <1>3, <1>6, <1>8, <2>1, <2>3, <2>4 DEF LzReading
<1> QED
  BY <1>1, <1>5, <1>6, <1>7, <1>8

------------------------------------------------------------------------------
\* The codes and bits of HuffmanPayload

\* Huffman's coder has the codes and the bits defined here.
LEMMA HuBits ==
    /\ Hu!Byte = Byte /\ Hu!NewWriter = NewWriter
    /\ \A w, v, c : Hu!Wrote(w, v, c) = Wrote(w, v, c)
    /\ \A w : Hu!Flushed(w) = Flushed(w)
    /\ \A w : Hu!Held(w) = Held(w)
    /\ \A bytes : Hu!UnpackedBits(bytes, ByteBits) = Unpacked(bytes)
    /\ \A n : Hu!BytesFor(n, ByteBits) = BytesFor(n, ByteBits)
<1>1. Hu!Byte = Byte /\ Hu!NewWriter = NewWriter
  BY DEF Hu!Byte, Byte, Hu!NewWriter, NewWriter
<1>2. \A w, v, c : Hu!Wrote(w, v, c) = Wrote(w, v, c)
  BY DEF Hu!Wrote, Wrote, Hu!Appended, Appended, Hu!Emitted, Emitted
<1>3. \A w : Hu!Flushed(w) = Flushed(w)
  BY DEF Hu!Flushed, Flushed
<1>4. \A bytes : Hu!UnpackedBits(bytes, ByteBits) = Unpacked(bytes)
  BY DEF Hu!UnpackedBits, UnpackedBits, Unpacked, Hu!LowBits, LowBits
<1>5. \A w : Hu!Held(w) = Held(w)
  BY DEF Hu!Held, Held, Hu!UnpackedBits, UnpackedBits, Hu!LowBits, LowBits
<1>6. \A n : Hu!BytesFor(n, ByteBits) = BytesFor(n, ByteBits)
  BY DEF Hu!BytesFor, BytesFor
<1> QED
  BY <1>1, <1>2, <1>3, <1>4, <1>5, <1>6

\* And the codes.
LEMMA HuCodes ==
    /\ \A ls : Hu!Coded(ls) = Coded(ls)
    /\ \A ls, s : Hu!CodeValue(ls, s) = CodeValue(ls, s)
    /\ \A ls, s : Hu!Code(ls, s) = Code(ls, s)
    /\ \A ls, bits : Hu!DecodeSymbol(ls, bits) = DecodeSymbol(ls, bits)
    /\ Hu!NotACode = NotACode
    /\ \A alphabet, occurring : Hu!CodeLengths(alphabet, occurring) = CodeLengths(alphabet, occurring)
    /\ \A f, ls, size : Hu!BitsTaken(f, ls, size) = BitsTaken(f, ls, size)
    /\ \A seqs : Hu!FlattenSeq(seqs) = FlattenSeq(seqs)
    /\ \A S : Hu!Cardinality(S) = Cardinality(S)
    /\ \A S : Hu!Max(S) = Max(S)
<1>1. \A ls : Hu!Coded(ls) = Coded(ls)
  BY DEF Hu!Coded, Coded
<1>2. \A S : Hu!Cardinality(S) = Cardinality(S)
  BY DEF Hu!Cardinality, Cardinality
<1>3. \A S : Hu!Max(S) = Max(S)
  BY DEF Hu!Max, Max
<1>4. \A ls, s : Hu!CodeValue(ls, s) = CodeValue(ls, s)
  BY DEF Hu!CodeValue, CodeValue, Hu!FirstCode, FirstCode, Hu!NumberOf, NumberOf, Hu!Coded, Coded,
         Hu!Cardinality, Cardinality
<1>5. \A ls, s : Hu!Code(ls, s) = Code(ls, s)
  BY DEF Hu!Code, Code, Hu!LowBits, LowBits,
         Hu!CodeValue, CodeValue, Hu!FirstCode, FirstCode, Hu!NumberOf, NumberOf, Hu!Coded, Coded,
         Hu!Cardinality, Cardinality
<1>6. Hu!NotACode = NotACode
  BY DEF Hu!NotACode, NotACode
<1>7. \A ls, bits : Hu!DecodeSymbol(ls, bits) = DecodeSymbol(ls, bits)
  BY DEF Hu!DecodeSymbol, DecodeSymbol, Hu!SymbolsAt, SymbolsAt, Hu!Path, Path, Hu!NotACode, NotACode,
         Hu!Min, Min, Hu!Max, Max,
         Hu!Code, Code, Hu!LowBits, LowBits,
         Hu!CodeValue, CodeValue, Hu!FirstCode, FirstCode, Hu!NumberOf, NumberOf, Hu!Coded, Coded,
         Hu!Cardinality, Cardinality
<1>8. \A alphabet, occurring : Hu!CodeLengths(alphabet, occurring) = CodeLengths(alphabet, occurring)
  BY DEF Hu!CodeLengths, CodeLengths, Hu!KraftSum, KraftSum, Hu!Lengths, Lengths, Hu!SumUpTo, SumUpTo,
         Hu!NumberOf, NumberOf, Hu!Coded, Coded, Hu!Cardinality, Cardinality
<1>9. \A f, ls, size : Hu!BitsTaken(f, ls, size) = BitsTaken(f, ls, size)
  BY DEF Hu!BitsTaken, BitsTaken, Hu!SumUpTo, SumUpTo
<1>10. \A seqs : Hu!FlattenSeq(seqs) = FlattenSeq(seqs)
  BY DEF Hu!FlattenSeq, FlattenSeq
<1> QED
  BY <1>1, <1>2, <1>3, <1>4, <1>5, <1>6, <1>7, <1>8, <1>9, <1>10

------------------------------------------------------------------------------
\* The table of a Huffman block: every symbol that has a code, and its length.

Pairs(ls) == [n \in 1 .. 2 ^ ByteBits |-> IF ls[n - 1] = 0 THEN << >> ELSE <<n - 1, ls[n - 1]>>]

Below(ls, n) == {s \in Coded(ls) : s < n}

Lists(q, ls, n, c) ==
    /\ c \in Nat /\ Len(q) = 2 * c
    /\ \A k \in 1 .. c : q[2 * k - 1] \in Below(ls, n) /\ q[2 * k] = ls[q[2 * k - 1]]
    /\ \A k \in 1 .. c : \A m \in 1 .. c : q[2 * k - 1] = q[2 * m - 1] => k = m
    /\ \A s \in Below(ls, n) : \E k \in 1 .. c : q[2 * k - 1] = s

ByteTable(ls) == ls \in [Byte -> 0 .. MaxCodeLength]

\* A table with a code length for every byte.
LEMMA ByteTableIs ==
    ASSUME NEW ls, ByteTable(ls)
    PROVE  /\ IsTable(ls) /\ DOMAIN ls = Byte
           /\ IsFiniteSet(Coded(ls)) /\ Coded(ls) \subseteq Byte
           /\ \A s \in Byte : ls[s] \in Byte /\ ls[s] \in Nat
           /\ Coded(ls) = {s \in Byte : ls[s] # 0}
<1>1. ls \in [Byte -> 0 .. MaxCodeLength] /\ DOMAIN ls = Byte
  BY DEF ByteTable
<1>2. 2 ^ ByteBits \in Nat /\ Byte = 0 .. 2 ^ ByteBits - 1
  BY ByteIs
<1>3. IsFiniteSet(Byte) /\ Byte \subseteq Int
  <2> DEFINE t == 2 ^ ByteBits
  <2>1. t - 1 \in Int /\ Byte = 0 .. t - 1
    BY <1>2
  <2> HIDE DEF t
  <2>2. IsFiniteSet(0 .. t - 1)
    BY <2>1, FS_Interval
  <2> QED
    BY <2>1, <2>2
<1>4. IsTable(ls)
  BY <1>1, <1>3 DEF IsTable
<1>5. Coded(ls) = {s \in Byte : ls[s] # 0}
  BY <1>1 DEF Coded
<1>6. IsFiniteSet(Coded(ls))
  BY <1>3, <1>5, FS_Subset
<1>7. MaxCodeLength \in Byte /\ MaxCodeLength \in Nat
  BY BlockCodecAssumption, CodeAssumption
<1>8. ASSUME NEW s \in Byte PROVE ls[s] \in Byte /\ ls[s] \in Nat
  <2>1. ls[s] \in 0 .. MaxCodeLength
    BY <1>1
  <2> QED
    BY <1>2, <1>7, <2>1
<1> QED
  BY <1>1, <1>4, <1>5, <1>6, <1>8

\* The table as it is written: pairs of a symbol and a length.
LEMMA PairsAre ==
    ASSUME NEW ls, ByteTable(ls)
    PROVE  /\ Flat(Pairs(ls), 2 ^ ByteBits) \in Seq(Byte)
           /\ Lists(Flat(Pairs(ls), 2 ^ ByteBits), ls, 2 ^ ByteBits, Cardinality(Coded(ls)))
<1> DEFINE N == 2 ^ ByteBits
           t == Pairs(ls)
           q(n) == Flat(t, n)
           c(n) == Cardinality(Below(ls, n))
           T == {n \in 0 .. N : Lists(q(n), ls, n, c(n))}
<1>1. N \in Nat /\ Byte = 0 .. N - 1
  BY ByteIs
<1> HIDE DEF N
<1>2. \A n \in 1 .. N : t[n] = IF ls[n - 1] = 0 THEN << >> ELSE <<n - 1, ls[n - 1]>>
  BY DEF Pairs, N
<1> HIDE DEF t
<1>3. ASSUME NEW n \in 1 .. N PROVE t[n] \in Seq(Byte)
  <2>1. n - 1 \in Byte /\ ls[n - 1] \in Byte
    <3>1. n - 1 \in Byte
      BY <1>1
    <3> QED
      BY <3>1, ByteTableIs
  <2> DEFINE a == n - 1
             b == ls[n - 1]
  <2>2. a \in Byte /\ b \in Byte
    BY <2>1
  <2> HIDE DEF a, b
  <2>3. <<a, b>> \in Seq(Byte) /\ << >> \in Seq(Byte)
    BY <2>2
  <2> QED
    BY <1>2, <2>3, Zenon DEF a, b
<1>4. /\ q(0) = << >>
      /\ \A n \in 0 .. N : q(n) \in Seq(Byte)
      /\ \A n \in 1 .. N : q(n) = q(n - 1) \o t[n]
  BY <1>1, <1>3, Flattens, ZenonT(60)
<1> HIDE DEF q
<1>5. Coded(ls) \subseteq Byte /\ IsFiniteSet(Coded(ls)) /\ Coded(ls) = {s \in Byte : ls[s] # 0}
  BY ByteTableIs
<1>6. ASSUME NEW n PROVE IsFiniteSet(Below(ls, n)) /\ c(n) \in Nat
  <2>1. IsFiniteSet(Below(ls, n))
    BY <1>5, FS_Subset DEF Below
  <2> QED
    BY <2>1, FS_CardinalityType
<1>7. 0 \in T
  <2>1. Below(ls, 0) = {}
    BY <1>1, <1>5 DEF Below
  <2>2. c(0) = 0
    BY <2>1, FS_EmptySet
  <2>3. Lists(<< >>, ls, 0, 0)
    BY <2>1 DEF Lists
  <2> QED
    BY <1>1, <1>4, <2>2, <2>3
<1>8. ASSUME NEW n \in 0 .. N - 1, n \in T PROVE n + 1 \in T
  <2>1. n + 1 \in 1 .. N /\ (n + 1) - 1 = n /\ n \in Byte /\ n \in 0 .. N /\ n + 1 \in 0 .. N /\ n \in Int
    BY <1>1
  <2>2. q(n + 1) = q(n) \o t[n + 1] /\ q(n) \in Seq(Byte) /\ q(n + 1) \in Seq(Byte)
    BY <1>4, <2>1, Zenon
  <2>3. Lists(q(n), ls, n, c(n))
    BY <1>8
  <2>4. CASE ls[n] = 0
    <3>1. Below(ls, n + 1) = Below(ls, n)
      BY <1>1, <1>5, <2>1, <2>4 DEF Below
    <3>2. q(n + 1) = q(n)
      <4>1. t[n + 1] = << >>
        BY <1>2, <2>1, <2>4, Zenon
      <4> QED
        BY <2>2, <4>1
    <3>3. Lists(q(n + 1), ls, n + 1, c(n + 1))
      BY <2>3, <3>1, <3>2, Zenon DEF Lists
    <3> QED
      BY <2>1, <3>3
  <2>5. CASE ls[n] # 0
    <3> DEFINE p == q(n)
               d == c(n)
               r == q(n + 1)
    <3>1. n \in Coded(ls)
      BY <1>5, <2>1, <2>5
    <3>2. Below(ls, n + 1) = Below(ls, n) \cup {n} /\ n \notin Below(ls, n)
      BY <1>1, <1>5, <2>1, <3>1 DEF Below
    <3>3. c(n + 1) = d + 1 /\ d \in Nat
      BY <1>6, <3>2, FS_AddElement
    <3>4. /\ Len(p) = 2 * d
          /\ \A k \in 1 .. d : p[2 * k - 1] \in Below(ls, n) /\ p[2 * k] = ls[p[2 * k - 1]]
          /\ \A k \in 1 .. d : \A m \in 1 .. d : p[2 * k - 1] = p[2 * m - 1] => k = m
          /\ \A s \in Below(ls, n) : \E k \in 1 .. d : p[2 * k - 1] = s
      BY <2>3 DEF Lists
    <3>5. t[n + 1] = <<n, ls[n]>> /\ t[n + 1] \in Seq(Byte)
      BY <1>2, <1>3, <2>1, <2>5, Zenon
    <3>6. IsJoin(r, p, t[n + 1])
      BY <2>2, <3>5, Joined2, Zenon
    <3>7. /\ Len(r) = 2 * d + 2
          /\ \A k \in 1 .. 2 * d : r[k] = p[k]
          /\ r[2 * d + 1] = n /\ r[2 * d + 2] = ls[n]
      <4>1. Len(t[n + 1]) = 2 /\ t[n + 1][1] = n /\ t[n + 1][2] = ls[n]
        BY <3>5
      <4> HIDE DEF p, r, d
      <4>2. 1 \in 1 .. Len(t[n + 1]) /\ 2 \in 1 .. Len(t[n + 1])
        BY <4>1
      <4> QED
        BY <3>4, <3>6, <4>1, <4>2 DEF IsJoin
    <3> HIDE DEF p, r, d
    <3>8. ASSUME NEW k \in 1 .. d + 1
          PROVE  /\ k <= d => k \in 1 .. d /\ r[2 * k - 1] = p[2 * k - 1] /\ r[2 * k] = p[2 * k]
                 /\ ~(k <= d) => k = d + 1 /\ r[2 * k - 1] = n /\ r[2 * k] = ls[n]
      <4>1. CASE k <= d
        <5>1. 2 * k - 1 \in 1 .. 2 * d /\ 2 * k \in 1 .. 2 * d /\ k \in 1 .. d
          BY <3>3, <4>1
        <5> QED
          BY <3>7, <4>1, <5>1
      <4>2. CASE ~(k <= d)
        <5>1. k = d + 1 /\ 2 * k - 1 = 2 * d + 1 /\ 2 * k = 2 * d + 2
          BY <3>3, <4>2
        <5> QED
          BY <3>7, <4>2, <5>1
      <4> QED
        BY <4>1, <4>2
    <3>9. ASSUME NEW k \in 1 .. d + 1
          PROVE  r[2 * k - 1] \in Below(ls, n + 1) /\ r[2 * k] = ls[r[2 * k - 1]]
      BY <3>2, <3>4, <3>8
    <3>10. ASSUME NEW k \in 1 .. d + 1, NEW m \in 1 .. d + 1, r[2 * k - 1] = r[2 * m - 1] PROVE k = m
      <4>1. CASE k <= d /\ m <= d
        BY <3>4, <3>8, <3>10, <4>1
      <4>2. CASE k <= d /\ ~(m <= d)
        <5>1. p[2 * k - 1] \in Below(ls, n) /\ p[2 * k - 1] = n
          BY <3>4, <3>8, <3>10, <4>2
        <5> QED
          BY <3>2, <5>1
      <4>3. CASE ~(k <= d) /\ m <= d
        <5>1. p[2 * m - 1] \in Below(ls, n) /\ p[2 * m - 1] = n
          BY <3>4, <3>8, <3>10, <4>3
        <5> QED
          BY <3>2, <5>1
      <4>4. CASE ~(k <= d) /\ ~(m <= d)
        BY <3>8, <4>4
      <4> QED
        BY <4>1, <4>2, <4>3, <4>4
    <3>11. ASSUME NEW s \in Below(ls, n + 1) PROVE \E k \in 1 .. d + 1 : r[2 * k - 1] = s
      <4>1. CASE s \in Below(ls, n)
        <5>1. PICK k \in 1 .. d : p[2 * k - 1] = s
          BY <3>4, <4>1
        <5>2. k \in 1 .. d + 1 /\ k <= d
          BY <3>3
        <5> QED
          BY <3>8, <5>1, <5>2
      <4>2. CASE s = n
        <5>1. d + 1 \in 1 .. d + 1 /\ ~(d + 1 <= d)
          BY <3>3
        <5> QED
          BY <3>8, <4>2, <5>1
      <4> QED
        BY <3>2, <4>1, <4>2
    <3>12. Lists(r, ls, n + 1, d + 1)
      <4>1. d + 1 \in Nat /\ Len(r) = 2 * (d + 1)
        BY <3>3, <3>7
      <4> QED
        BY <3>9, <3>10, <3>11, <4>1 DEF Lists
    <3> QED
      BY <2>1, <3>3, <3>12 DEF r, d
  <2> QED
    BY <2>4, <2>5
<1>9. \A n \in 0 .. N : n \in T
  <2> HIDE DEF T
  <2> QED
    BY <1>1, <1>7, <1>8, CountsUp
<1>10. Lists(q(N), ls, N, c(N)) /\ q(N) \in Seq(Byte)
  <2>1. N \in 0 .. N
    BY <1>1
  <2> QED
    BY <1>4, <1>9, <2>1
<1>11. Below(ls, N) = Coded(ls)
  BY <1>1, <1>5 DEF Below
<1> QED
  BY <1>10, <1>11 DEF q, N, t

------------------------------------------------------------------------------
\* The table read.

Symbols2 == payload[1] + 1

OpenedTable ==
    [s \in Byte |->
        LET entries == {n \in 1 .. Symbols2 : payload[2 * n] = s}
        IN  IF entries = {} THEN 0 ELSE payload[2 * Max(entries) + 1]]

LegalPairs ==
    /\ Len(payload) >= 1
    /\ Len(payload) >= 1 + 2 * Symbols2
    /\ \A n \in 1 .. Symbols2 : payload[2 * n + 1] \in 1 .. MaxCodeLength
    /\ \A n \in 1 .. Symbols2 : \A m \in 1 .. Symbols2 : payload[2 * n] = payload[2 * m] => n = m

\* What a decoder asks of the table it reads.
LEMMA LegalTableIs ==
    /\ Hu!LegalTable <=> LegalPairs
    /\ Hu!Count = Symbols2 /\ Hu!TableSize = 1 + 2 * Symbols2
    /\ Hu!Stream = Unpacked(SubSeq(payload, 1 + 2 * Symbols2 + 1, Len(payload)))
<1>1. Hu!Count = Symbols2 /\ Hu!TableSize = 1 + 2 * Symbols2
  BY DEF Hu!Count, Hu!TableSize, Symbols2
<1>2. Hu!LegalTable <=> LegalPairs
  BY <1>1 DEF Hu!LegalTable, LegalPairs, Hu!SymbolAt, Hu!LengthAt
<1>3. Hu!Stream = Unpacked(SubSeq(payload, 1 + 2 * Symbols2 + 1, Len(payload)))
  BY <1>1, HuBits DEF Hu!Stream
<1> QED
  BY <1>1, <1>2, <1>3

\* A legal table of a payload is a table of code lengths with as many symbols as pairs.
LEMMA OpenedIs ==
    ASSUME payload \in Seq(Byte), LegalPairs
    PROVE  /\ ByteTable(OpenedTable)
           /\ Symbols2 \in Nat \ {0}
           /\ \A n \in 1 .. Symbols2 :
                 payload[2 * n] \in Byte /\ OpenedTable[payload[2 * n]] = payload[2 * n + 1]
           /\ \A s \in Byte : OpenedTable[s] # 0 => \E n \in 1 .. Symbols2 : payload[2 * n] = s
           /\ Cardinality(Coded(OpenedTable)) = Symbols2
<1> DEFINE c == Symbols2
           t == OpenedTable
           at2(s) == {n \in 1 .. c : payload[2 * n] = s}
<1>1. /\ Len(payload) >= 1 /\ Len(payload) \in Nat /\ Len(payload) >= 1 + 2 * c
      /\ \A n \in 1 .. c : payload[2 * n + 1] \in 1 .. MaxCodeLength
      /\ \A n \in 1 .. c : \A m \in 1 .. c : payload[2 * n] = payload[2 * m] => n = m
  BY DEF LegalPairs
<1>2. c \in Nat \ {0}
  <2>1. payload[1] \in Byte
    BY <1>1
  <2>2. payload[1] \in Nat
    BY <2>1, ByteIs
  <2> QED
    BY <2>2 DEF Symbols2
<1> HIDE DEF c
<1>3. ASSUME NEW n \in 1 .. c PROVE payload[2 * n] \in Byte
  <2>1. 2 * n \in 1 .. Len(payload)
    BY <1>1, <1>2
  <2> QED
    BY <2>1
<1>4. DOMAIN t = Byte
      /\ \A s \in Byte : t[s] = IF at2(s) = {} THEN 0 ELSE payload[2 * Max(at2(s)) + 1]
  BY DEF OpenedTable, c
<1> HIDE DEF t
<1>5. ASSUME NEW n \in 1 .. c PROVE t[payload[2 * n]] = payload[2 * n + 1]
  <2>1. at2(payload[2 * n]) = {n}
    BY <1>1
  <2>2. Max({n}) = n
    BY <1>2, MaxOfOne
  <2> HIDE DEF at2
  <2> QED
    BY <1>3, <1>4, <2>1, <2>2, Zenon
<1>6. ASSUME NEW s \in Byte
      PROVE  /\ t[s] # 0 => \E n \in 1 .. c : payload[2 * n] = s
             /\ t[s] \in 0 .. MaxCodeLength
  <2>1. CASE \E n \in 1 .. c : payload[2 * n] = s
    <3>1. PICK n \in 1 .. c : payload[2 * n] = s
      BY <2>1
    <3>2. t[s] \in 1 .. MaxCodeLength
      BY <1>1, <1>5, <3>1
    <3> QED
      BY <2>1, <3>2, CodeAssumption
  <2>2. CASE ~\E n \in 1 .. c : payload[2 * n] = s
    <3>1. at2(s) = {}
      BY <2>2
    <3>2. t[s] = 0
      BY <1>4, <3>1, Zenon
    <3> QED
      BY <3>2, CodeAssumption
  <2> QED
    BY <2>1, <2>2
<1>7. t = [s \in Byte |-> t[s]]
  BY <1>4 DEF t, OpenedTable
<1>8. ByteTable(t)
  BY <1>6, <1>7 DEF ByteTable
<1>9. Cardinality(Coded(t)) = c
  <2> DEFINE f == [n \in 1 .. c |-> payload[2 * n]]
             C == Coded(t)
  <2>1. C = {s \in Byte : t[s] # 0}
    BY <1>8, ByteTableIs
  <2>2. ASSUME NEW n \in 1 .. c PROVE payload[2 * n] \in C
    <3>1. payload[2 * n + 1] # 0
      BY <1>1
    <3> QED
      BY <1>3, <1>5, <2>1, <3>1
  <2>3. \A s \in C : \E n \in 1 .. c : payload[2 * n] = s
    BY <1>6, <2>1
  <2> HIDE DEF C
  <2>4. f \in Bijection(1 .. c, C)
    <3>1. f \in [1 .. c -> C]
      BY <2>2
    <3>2. \A n \in 1 .. c : \A m \in 1 .. c : f[n] = f[m] => n = m
      BY <1>1
    <3>3. \A s \in C : \E n \in 1 .. c : f[n] = s
      BY <2>3
    <3> HIDE DEF f
    <3> QED
      BY <3>1, <3>2, <3>3 DEF Bijection, Injection, Surjection, IsInjective
  <2>5. Cardinality(C) = c
    BY <1>2, <2>4, FS_CountingElements DEF ExistsBijection
  <2> QED
    BY <2>5 DEF C
<1> QED
  BY <1>2, <1>3, <1>5, <1>6, <1>8, <1>9 DEF c, t

\* A table written is read back.
LEMMA TableReadBack ==
    ASSUME NEW ls, ByteTable(ls), Coded(ls) # {}, NEW tail \in Seq(Byte),
           payload = << (Cardinality(Coded(ls)) - 1) % 2 ^ ByteBits >> \o Flat(Pairs(ls), 2 ^ ByteBits) \o tail
    PROVE  /\ LegalPairs /\ OpenedTable = ls
           /\ Hu!Stream = Unpacked(tail)
           /\ payload \in Seq(Byte)
           /\ Len(payload) = 1 + 2 * Cardinality(Coded(ls)) + Len(tail)
<1> DEFINE N == 2 ^ ByteBits
           d == Cardinality(Coded(ls))
           x == (d - 1) % N
           q == Flat(Pairs(ls), N)
           h == << x >>
           hq == h \o q
<1>1. N \in Nat \ {0} /\ Byte = 0 .. N - 1
  BY ByteIs
<1>2. d \in 1 .. N /\ d \in Nat
  <2>1. IsFiniteSet(Coded(ls)) /\ Coded(ls) \subseteq Byte
    BY ByteTableIs
  <2>2. d \in Nat /\ d # 0
    BY <2>1, FS_CardinalityType, FS_EmptySet
  <2>3. IsFiniteSet(Byte) /\ Cardinality(Byte) = N
    <3> HIDE DEF N
    <3>1. IsFiniteSet(0 .. N - 1) /\ Cardinality(0 .. N - 1) = N
      BY <1>1, FS_Interval
    <3> QED
      BY <1>1, <3>1
  <2>4. d <= N
    BY <2>1, <2>3, FS_Subset
  <2> QED
    BY <1>1, <2>2, <2>4
<1>3. q \in Seq(Byte) /\ Lists(q, ls, N, d)
  BY PairsAre
<1> HIDE DEF N, d, q
<1>4. x = d - 1 /\ x \in Byte
  <2> DEFINE y == d - 1
  <2>1. y \in 0 .. N - 1 /\ y \in Nat /\ y = N * 0 + y /\ 0 \in Nat
    BY <1>1, <1>2
  <2> HIDE DEF y
  <2>2. y % N = y
    BY <1>1, <2>1, RemainderIs, Zenon
  <2> QED
    BY <1>1, <2>1, <2>2 DEF y
<1> HIDE DEF x
<1>5. h \in Seq(Byte) /\ Len(h) = 1 /\ h[1] = x
  BY <1>4
<1> HIDE DEF h
<1>6. hq \in Seq(Byte) /\ IsJoin(hq, h, q)
  BY <1>3, <1>5, Joined2
<1>7. payload = hq \o tail
  BY DEF N, d, x, q, h
<1> HIDE DEF hq
<1>8. payload \in Seq(Byte) /\ IsJoin(payload, hq, tail)
  BY <1>6, <1>7, Joined2, Zenon
<1>9. /\ Len(q) = 2 * d
      /\ \A k \in 1 .. d : q[2 * k - 1] \in Below(ls, N) /\ q[2 * k] = ls[q[2 * k - 1]]
      /\ \A k \in 1 .. d : \A m \in 1 .. d : q[2 * k - 1] = q[2 * m - 1] => k = m
      /\ \A s \in Below(ls, N) : \E k \in 1 .. d : q[2 * k - 1] = s
  BY <1>3 DEF Lists
<1>10. /\ Len(hq) = 1 + 2 * d /\ Len(payload) = 1 + 2 * d + Len(tail) /\ Len(tail) \in Nat
       /\ payload[1] = x
       /\ \A k \in 1 .. 2 * d : payload[k + 1] = q[k]
  <2>1. Len(hq) = 1 + 2 * d /\ Len(payload) = 1 + 2 * d + Len(tail) /\ Len(tail) \in Nat
    BY <1>2, <1>5, <1>6, <1>8, <1>9 DEF IsJoin
  <2>2. hq[1] = x /\ payload[1] = hq[1]
    <3>1. 1 \in 1 .. Len(h) /\ 1 \in 1 .. Len(hq)
      BY <1>2, <1>5, <2>1
    <3> QED
      BY <1>5, <1>6, <1>8, <3>1 DEF IsJoin
  <2>3. ASSUME NEW k \in 1 .. 2 * d PROVE payload[k + 1] = q[k]
    <3>1. k \in 1 .. Len(q) /\ k + 1 \in 1 .. Len(hq) /\ k + 1 = Len(h) + k
      BY <1>2, <1>5, <1>9, <2>1
    <3> QED
      BY <1>6, <1>8, <3>1 DEF IsJoin
  <2> QED
    BY <2>1, <2>2, <2>3, Zenon
<1>11. Symbols2 = d
  BY <1>2, <1>4, <1>10 DEF Symbols2
<1>12. ASSUME NEW n \in 1 .. d
       PROVE  payload[2 * n] = q[2 * n - 1] /\ payload[2 * n + 1] = q[2 * n]
  <2>1. 2 * n - 1 \in 1 .. 2 * d /\ 2 * n \in 1 .. 2 * d /\ (2 * n - 1) + 1 = 2 * n
    BY <1>2
  <2> QED
    BY <1>10, <2>1, Zenon
<1>13. Coded(ls) \subseteq Byte /\ Coded(ls) = {s \in Byte : ls[s] # 0} /\ ls \in [Byte -> 0 .. MaxCodeLength]
  BY ByteTableIs DEF ByteTable
<1>14. LegalPairs
  <2>1. ASSUME NEW n \in 1 .. d PROVE payload[2 * n + 1] \in 1 .. MaxCodeLength
    <3>1. q[2 * n - 1] \in Coded(ls) /\ q[2 * n] = ls[q[2 * n - 1]]
      BY <1>9 DEF Below
    <3>2. ls[q[2 * n - 1]] \in 1 .. MaxCodeLength
      BY <1>13, <3>1, CodeAssumption
    <3> QED
      BY <1>12, <3>1, <3>2, Zenon
  <2>2. ASSUME NEW n \in 1 .. d, NEW m \in 1 .. d, payload[2 * n] = payload[2 * m] PROVE n = m
    <3>1. payload[2 * n] = q[2 * n - 1] /\ payload[2 * m] = q[2 * m - 1]
      BY <1>12, Zenon
    <3>2. q[2 * n - 1] = q[2 * m - 1]
      BY <2>2, <3>1, Zenon
    <3> QED
      BY <1>9, <3>2
  <2>3. Len(payload) >= 1 + 2 * d /\ Len(payload) >= 1
    BY <1>2, <1>10
  <2> QED
    BY <1>11, <2>1, <2>2, <2>3, Zenon DEF LegalPairs
<1>15. OpenedTable = ls
  <2>1. /\ ByteTable(OpenedTable)
        /\ \A n \in 1 .. d : payload[2 * n] \in Byte /\ OpenedTable[payload[2 * n]] = payload[2 * n + 1]
        /\ \A s \in Byte : OpenedTable[s] # 0 => \E n \in 1 .. d : payload[2 * n] = s
    BY <1>8, <1>11, <1>14, OpenedIs, Zenon
  <2>2. ASSUME NEW s \in Byte PROVE OpenedTable[s] = ls[s]
    <3>1. CASE ls[s] # 0
      <4>1. s \in Below(ls, N)
        <5>1. s < N
          BY <1>1
        <5> QED
          BY <1>13, <3>1, <5>1 DEF Below
      <4>2. PICK k \in 1 .. d : q[2 * k - 1] = s
        BY <1>9, <4>1
      <4>3. payload[2 * k] = s /\ payload[2 * k + 1] = q[2 * k]
        BY <1>12, <4>2, Zenon
      <4>4. q[2 * k] = ls[s]
        BY <1>9, <4>2
      <4>5. OpenedTable[payload[2 * k]] = payload[2 * k + 1]
        BY <2>1, Zenon
      <4> QED
        BY <4>3, <4>4, <4>5
    <3>2. CASE ls[s] = 0
      <4>1. OpenedTable[s] = 0
        <5> SUFFICES ASSUME OpenedTable[s] # 0 PROVE FALSE
          OBVIOUS
        <5>1. PICK k \in 1 .. d : payload[2 * k] = s
          BY <2>1, Zenon
        <5>2. s \in Coded(ls)
          BY <1>9, <1>12, <5>1, Zenon DEF Below
        <5> QED
          BY <1>13, <3>2, <5>2
      <4> QED
        BY <3>2, <4>1
    <3> QED
      BY <3>1, <3>2
  <2> QED
    BY <1>13, <2>1, <2>2 DEF ByteTable
<1>16. Hu!Stream = Unpacked(tail)
  <2>1. SubSeq(hq \o tail, (1 + 2 * d) + 1, Len(hq \o tail)) = tail
    <3> DEFINE n == 1 + 2 * d
    <3>1. n = Len(hq)
      BY <1>10
    <3> HIDE DEF n
    <3>2. SubSeq(hq \o tail, n + 1, Len(hq \o tail)) = tail
      BY <1>6, <3>1, RestIs
    <3> QED
      BY <3>2, Zenon DEF n
  <2> QED
    BY <1>7, <1>11, <2>1, LegalTableIs, Zenon
<1> QED
  BY <1>8, <1>10, <1>14, <1>15, <1>16 DEF d

------------------------------------------------------------------------------
\* The invariant of HuffmanPayload.

\* The bits a decoder reads, and the table it should have read before.
HuStream == Unpacked(SubSeq(payload, 1 + 2 * Symbols2 + 1, Len(payload)))

TableFor(ls, word) ==
    /\ ByteTable(ls) /\ Fits(ls)
    /\ Coded(ls) = {s \in Byte : Found(word, Len(word), s) # 0}

HuWord == data \in Seq(Byte) /\ data # << >> /\ original = Len(data)

HuTable == TableFor(table, data)

HuWriting ==
    IsWriter(writer) /\ i \in 0 .. Len(data) /\ Held(writer) = Coding(table, data, i)

HuHeld ==
    \E tail \in Seq(Byte) :
        /\ payload = << (Cardinality(Coded(table)) - 1) % 2 ^ ByteBits >>
                        \o Flat(Pairs(table), 2 ^ ByteBits) \o tail
        /\ Carries(Unpacked(tail), Coding(table, data, Len(data)))
        /\ Len(tail) = BytesFor(Len(Coding(table, data, Len(data))), ByteBits)

HuReading ==
    /\ LegalPairs /\ table = OpenedTable
    /\ Spelled(table, decoded)
    /\ pos \in 0 .. Len(HuStream)
    /\ SubSeq(HuStream, 1, pos) = Coding(table, decoded, Len(decoded))
    /\ Len(decoded) <= original

HuInv ==
    /\ budget \in Nat /\ original \in Nat /\ payload \in Seq(Byte)
    /\ stage \in {"plan", "write", "stored", "open", "decode", "done", "corrupt"}
    /\ stage \in {"plan", "write", "stored"} => Encoded
    /\ stage \in {"plan", "write", "stored", "open"} => decoded = << >> /\ pos = 0
    /\ Encoded => HuWord /\ stage # "corrupt"
    /\ stage = "plan" => writer = NewWriter /\ i = 0
    /\ stage = "write" => HuTable /\ HuWriting
    /\ Encoded /\ stage \in {"open", "decode", "done"} => HuTable /\ HuHeld /\ Begun(decoded, data)
    /\ stage \in {"decode", "done"} => HuReading
    /\ stage = "done" => Len(decoded) = original

\* A block and a table made for it.
LEMMA HuWordIs ==
    ASSUME HuWord, NEW ls, TableFor(ls, data)
    PROVE  /\ Spelled(ls, data) /\ IsTable(ls) /\ Coded(ls) # {}
           /\ Len(data) \in Nat /\ Len(data) >= 1 /\ DOMAIN data = 1 .. Len(data)
<1>1. data \in Seq(Byte) /\ data # << >>
  BY DEF HuWord
<1>2. Len(data) \in Nat /\ Len(data) >= 1 /\ DOMAIN data = 1 .. Len(data)
  BY <1>1
<1>3. ASSUME NEW k \in 1 .. Len(data) PROVE data[k] \in Coded(ls)
  <2>1. data[k] \in Byte
    BY <1>1
  <2>2. Found(data, Len(data), data[k]) # 0
    BY <1>2, FoundIs
  <2> QED
    BY <2>1, <2>2 DEF TableFor
<1>4. IsTable(ls)
  BY DEF TableFor, Fits
<1> QED
  BY <1>1, <1>2, <1>3, <1>4 DEF Spelled

\* HuffmanPayload's names for what is defined here.
LEMMA HuNames ==
    /\ Hu!LegalTable <=> LegalPairs
    /\ Hu!Stream = HuStream /\ Hu!NextSymbol = DecodeSymbol(table, SubSeq(HuStream, pos + 1, Len(HuStream)))
    /\ Hu!Distinct = Cardinality(Coded(table))
    /\ Hu!StoredCount = (Cardinality(Coded(table)) - 1) % 2 ^ ByteBits
    /\ Hu!Table = Flat(Pairs(table), 2 ^ ByteBits)
    /\ Hu!Count = Symbols2
    /\ Hu!Encoded <=> Encoded
<1>1. Hu!Stream = HuStream
  BY LegalTableIs DEF HuStream
<1>2. Hu!NextSymbol = DecodeSymbol(table, SubSeq(HuStream, pos + 1, Len(HuStream)))
  BY <1>1, HuCodes DEF Hu!NextSymbol
<1>3. Hu!Distinct = Cardinality(Coded(table))
  BY HuCodes DEF Hu!Distinct
<1>4. Hu!StoredCount = (Cardinality(Coded(table)) - 1) % 2 ^ ByteBits
  BY <1>3 DEF Hu!StoredCount
<1>5. Hu!Table = Flat(Pairs(table), 2 ^ ByteBits)
  <2>1. Hu!Table = FlattenSeq(Pairs(table))
    BY HuCodes DEF Hu!Table, Pairs
  <2>2. FirstOf(Pairs(table), 2 ^ ByteBits) = Pairs(table)
    BY DEF FirstOf, Pairs
  <2> QED
    BY <2>1, <2>2 DEF Flat
<1> QED
  BY <1>1, <1>2, <1>3, <1>4, <1>5, LegalTableIs DEF Hu!Encoded, Encoded

\* What a step leaves alone stays as it is.
LEMMA HuUnchanged ==
    ASSUME UNCHANGED <<payload, data, table>>
    PROVE  /\ UNCHANGED original => (HuWord <=> HuWord')
           /\ HuTable <=> HuTable'
           /\ HuHeld <=> HuHeld'
           /\ UNCHANGED <<writer, i>> => (HuWriting <=> HuWriting')
           /\ UNCHANGED <<original, decoded, pos>> => (HuReading <=> HuReading')
<1>1. UNCHANGED original => (HuWord <=> HuWord')
  BY DEF HuWord
<1>2. HuTable <=> HuTable'
  BY DEF HuTable
<1>3. HuHeld <=> HuHeld'
  BY DEF HuHeld
<1>4. UNCHANGED <<writer, i>> => (HuWriting <=> HuWriting')
  BY DEF HuWriting
<1>5. UNCHANGED <<original, decoded, pos>> => (HuReading <=> HuReading')
  BY DEF HuReading, HuStream, LegalPairs, OpenedTable, Symbols2
<1> QED
  BY <1>1, <1>2, <1>3, <1>4, <1>5

\* The invariant is kept where nothing of HuffmanPayload changes.
LEMMA HuStutters ==
    HuInv /\ UNCHANGED <<budget, payload, original, i, decoded, stage, pos, writer, data, table>> => HuInv'
<1> SUFFICES ASSUME HuInv, UNCHANGED <<budget, payload, original, i, decoded, stage, pos, writer, data, table>>
             PROVE  HuInv'
  OBVIOUS
<1>1. /\ HuWord <=> HuWord'
      /\ HuTable <=> HuTable'
      /\ HuHeld <=> HuHeld'
      /\ HuWriting <=> HuWriting'
      /\ HuReading <=> HuReading'
  BY HuUnchanged
<1>2. Begun(decoded, data)' = Begun(decoded, data)
  OBVIOUS
<1> QED
  BY <1>1, <1>2 DEF HuInv, Encoded

\* It holds at first.
LEMMA HuStarts == Hu!Init => HuInv
<1> SUFFICES ASSUME Hu!Init PROVE HuInv
  OBVIOUS
<1>1. decoded = << >> /\ pos = 0 /\ writer = NewWriter /\ i = 0
  BY HuBits DEF Hu!Init
<1>2. CASE stage = "plan"
  <2>1. data \in Blocks["huffman"] /\ budget \in Budgets["huffman"] /\ payload = << >> /\ original = Len(data)
    BY <1>2 DEF Hu!Init
  <2>2. data \in Seq(Byte) /\ data # << >> /\ budget \in Nat \ {0}
    BY <2>1, BlockCodecAssumption DEF Coders
  <2>3. payload \in Seq(Byte) /\ original \in Nat
    BY <2>1, <2>2
  <2> QED
    BY <1>1, <1>2, <2>1, <2>2, <2>3 DEF HuInv, Encoded, HuWord
<1>3. CASE stage # "plan"
  <2>1. budget = 0 /\ payload \in Foreign["huffman"] /\ original \in Originals["huffman"] /\ stage = "open"
    BY <1>3 DEF Hu!Init
  <2>2. payload \in Seq(Byte) /\ original \in Nat
    BY <2>1, BlockCodecAssumption DEF Coders
  <2> QED
    BY <1>1, <2>1, <2>2 DEF HuInv, Encoded
<1> QED
  BY <1>2, <1>3

------------------------------------------------------------------------------
\* Reading symbols out of a stream of bits.

\* What a payload that was encoded holds.
LEMMA HuStored ==
    ASSUME HuWord, HuTable, HuHeld
    PROVE  /\ LegalPairs /\ OpenedTable = table
           /\ HuStream \in Seq(Binary)
           /\ Carries(HuStream, Coding(table, data, Len(data)))
           /\ Len(payload) = 1 + 2 * Cardinality(Coded(table))
                               + BytesFor(Len(Coding(table, data, Len(data))), ByteBits)
<1>1. PICK tail \in Seq(Byte) :
          /\ payload = << (Cardinality(Coded(table)) - 1) % 2 ^ ByteBits >>
                          \o Flat(Pairs(table), 2 ^ ByteBits) \o tail
          /\ Carries(Unpacked(tail), Coding(table, data, Len(data)))
          /\ Len(tail) = BytesFor(Len(Coding(table, data, Len(data))), ByteBits)
  BY Zenon DEF HuHeld
<1>2. ByteTable(table) /\ Coded(table) # {}
  BY HuWordIs DEF HuTable, TableFor
<1>3. /\ LegalPairs /\ OpenedTable = table /\ Hu!Stream = Unpacked(tail)
      /\ Len(payload) = 1 + 2 * Cardinality(Coded(table)) + Len(tail)
  BY <1>1, <1>2, TableReadBack, Zenon
<1>4. HuStream = Unpacked(tail)
  BY <1>3, HuNames
<1> QED
  BY <1>1, <1>3, <1>4 DEF Carries

\* The next symbol that is read is the next that was written.
LEMMA HuReadsBack ==
    ASSUME HuWord, HuTable, HuHeld, HuReading, Begun(decoded, data), Len(decoded) < original
    PROVE  /\ Len(decoded) + 1 \in 1 .. Len(data)
           /\ data[Len(decoded) + 1] \in Coded(table)
           /\ Peek(table, HuStream, pos) = [symbol |-> data[Len(decoded) + 1],
                                            used |-> table[data[Len(decoded) + 1]]]
<1> DEFINE n == Len(decoded)
           L == Len(data)
           s == data[n + 1]
           all == Coding(table, data, L)
           done == Coding(table, data, n)
<1>1. /\ Spelled(table, data) /\ IsTable(table) /\ L \in Nat /\ original = L
  BY HuWordIs DEF HuTable, HuWord
<1>2. n \in Nat /\ n < L
  <2>1. decoded \in Seq(Byte)
    BY DEF HuReading, Spelled
  <2> QED
    BY <1>1, <2>1
<1>3. n + 1 \in 1 .. L /\ n \in 0 .. L /\ n + 1 \in 0 .. L /\ (n + 1) - 1 = n /\ L \in 0 .. L
  BY <1>1, <1>2
<1>4. s \in Coded(table)
  BY <1>1, <1>3 DEF Spelled
<1>5. HuStream \in Seq(Binary) /\ Carries(HuStream, all)
  BY HuStored
<1>6. Coding(table, decoded, n) = done
  BY <1>2, CodingAgrees DEF Begun
<1>7. pos = Len(done) /\ pos \in 0 .. Len(HuStream)
  <2>1. pos \in 0 .. Len(HuStream) /\ SubSeq(HuStream, 1, pos) = done
    BY <1>6 DEF HuReading
  <2>2. Len(SubSeq(HuStream, 1, pos)) = pos
    BY <1>5, <2>1
  <2> QED
    BY <2>1, <2>2
<1> HIDE DEF n, L
<1>8. /\ Coding(table, data, n + 1) = done \o Code(table, s)
      /\ done \in Seq(Binary) /\ Coding(table, data, n + 1) \in Seq(Binary)
      /\ Len(Coding(table, data, n + 1)) <= Len(all)
      /\ \A k \in 1 .. Len(Coding(table, data, n + 1)) : all[k] = Coding(table, data, n + 1)[k]
      /\ Len(all) \in Nat
  <2> HIDE DEF s
  <2>1. s = data[n + 1]
    BY DEF s
  <2> DEFINE q == n + 1
  <2>2. q \in 1 .. Len(data) /\ q \in 0 .. Len(data) /\ n \in 0 .. Len(data) /\ q - 1 = n /\ Len(data) \in 0 .. Len(data)
    BY <1>3 DEF L
  <2>3. s = data[q]
    BY <2>1
  <2> HIDE DEF q
  <2>4. /\ Coding(table, data, q) = Coding(table, data, n) \o Code(table, s)
        /\ Coding(table, data, n) \in Seq(Binary) /\ Coding(table, data, q) \in Seq(Binary)
    <3>1. Coding(table, data, q) = Coding(table, data, q - 1) \o Code(table, data[q])
      BY <1>1, <2>2, CodingNext
    <3>2. \A m \in 0 .. Len(data) : Coding(table, data, m) \in Seq(Binary)
      BY <1>1, CodingIs
    <3> QED
      BY <2>2, <2>3, <3>1, <3>2, Zenon
  <2>5. /\ Len(Coding(table, data, q)) <= Len(Coding(table, data, Len(data)))
        /\ \A k \in 1 .. Len(Coding(table, data, q)) : Coding(table, data, Len(data))[k] = Coding(table, data, q)[k]
        /\ Len(Coding(table, data, Len(data))) \in Nat
    BY <1>1, <2>2, CodingIs, SMTT(40)
  <2> QED
    BY <2>4, <2>5 DEF q, L
<1>9. Code(table, s) \in Seq(Binary) /\ Len(Code(table, s)) = table[s] /\ table[s] \in 1 .. MaxCodeLength
  BY <1>1, <1>4, CodeIs
<1> DEFINE c == Code(table, s)
           next == Coding(table, data, n + 1)
<1>10. IsJoin(next, done, c)
  BY <1>8, <1>9, Joined2, Zenon
<1> HIDE DEF s, all, done, c, next
<1>11. /\ Len(next) = Len(done) + table[s] /\ table[s] \in Nat /\ Len(done) \in Nat
       /\ \A k \in 1 .. table[s] : next[Len(done) + k] = c[k]
  BY <1>9, <1>10 DEF IsJoin, c
<1>12. pos + table[s] <= Len(HuStream)
  <2>1. Len(next) <= Len(all) /\ Len(all) \in Nat
    BY <1>8 DEF next
  <2>2. Len(HuStream) - Len(all) \in 0 .. ByteBits - 1
    BY <1>5 DEF Carries
  <2>3. Len(HuStream) \in Nat
    BY <1>5
  <2>4. Len(all) <= Len(HuStream)
    BY <2>1, <2>2, <2>3
  <2> QED
    BY <1>7, <1>11, <2>1, <2>3, <2>4
<1>13. ASSUME NEW k \in 1 .. table[s] PROVE HuStream[pos + k] = c[k]
  <2>1. pos + k = Len(done) + k /\ pos + k \in 1 .. Len(next)
    BY <1>7, <1>11
  <2>2. pos + k \in 1 .. Len(all) /\ all[pos + k] = next[pos + k]
    BY <1>8, <1>11, <2>1 DEF next
  <2>3. HuStream[pos + k] = all[pos + k]
    BY <1>5, <2>2 DEF Carries
  <2> QED
    BY <1>11, <2>1, <2>2, <2>3
<1>14. Peek(table, HuStream, pos) = [symbol |-> s, used |-> table[s]]
  <2>1. Fits(table) /\ s \in Coded(table)
    BY <1>4 DEF HuTable, TableFor
  <2>2. \A k \in 1 .. table[s] : HuStream[pos + k] = Code(table, s)[k]
    BY <1>13 DEF c
  <2> QED
    BY <1>5, <1>7, <1>12, <2>1, <2>2, ReadsWritten, Zenon
<1> QED
  BY <1>3, <1>4, <1>14 DEF s, n, L

\* The bits before a place of a stream that were read as the codes of a word.

\* What follows the table of a legal payload is a stream of bits.
LEMMA StreamIs ==
    ASSUME payload \in Seq(Byte), LegalPairs
    PROVE  /\ HuStream \in Seq(Binary)
           /\ ByteTable(OpenedTable)
           /\ IsTable(OpenedTable) /\ DOMAIN OpenedTable = Byte /\ Coded(OpenedTable) \subseteq Byte
<1>1. ByteTable(OpenedTable) /\ Symbols2 \in Nat \ {0}
  BY OpenedIs
<1>2. SubSeq(payload, 1 + 2 * Symbols2 + 1, Len(payload)) \in Seq(Byte)
  <2>1. Len(payload) \in Nat /\ Len(payload) >= 1 + 2 * Symbols2
    BY DEF LegalPairs
  <2> DEFINE a == 1 + 2 * Symbols2
  <2>2. a + 1 \in 1 .. Len(payload) + 1
    BY <1>1, <2>1
  <2> HIDE DEF a
  <2>3. SubSeq(payload, a + 1, Len(payload)) \in Seq(Byte)
    BY <2>2
  <2> QED
    BY <2>3 DEF a
<1>3. HuStream \in Seq(Binary)
  BY <1>2, UnpackedIs, Zenon DEF HuStream
<1> QED
  BY <1>1, <1>3, ByteTableIs

\* A step that reads a symbol keeps what the decoder promises.
LEMMA HuReads ==
    ASSUME HuReading, payload \in Seq(Byte), original \in Nat, Hu!ReadSymbol
    PROVE  /\ HuReading'
           /\ decoded' = Append(decoded, Peek(table, HuStream, pos).symbol)
           /\ Len(decoded) < original
<1> DEFINE d == Peek(table, HuStream, pos)
           n == Len(decoded)
<1>1. /\ d # NotACode /\ Len(decoded) < original
      /\ decoded' = Append(decoded, d.symbol) /\ pos' = pos + d.used
      /\ UNCHANGED <<payload, original, table>>
  BY HuNames, HuCodes DEF Hu!ReadSymbol, Hu!input, Peek
<1>2. /\ LegalPairs /\ table = OpenedTable /\ Spelled(table, decoded) /\ pos \in 0 .. Len(HuStream)
      /\ SubSeq(HuStream, 1, pos) = Coding(table, decoded, Len(decoded))
  BY DEF HuReading
<1>3. HuStream \in Seq(Binary) /\ IsTable(table) /\ DOMAIN table = Byte /\ Coded(table) \subseteq Byte
  BY <1>2, StreamIs
<1>4. DOMAIN table \subseteq 0 .. 2 ^ ByteBits - 1 /\ 2 ^ ByteBits - 1 \in Nat
  BY <1>3, ByteIs
<1>5. Reading(table, HuStream, pos, d)
  <2> DEFINE m == 2 ^ ByteBits - 1
  <2>1. m \in Nat /\ DOMAIN table \subseteq 0 .. m
    BY <1>4
  <2> HIDE DEF m
  <2> QED
    BY <1>1, <1>2, <1>3, <2>1, ReadsOn, Zenon
<1> HIDE DEF d
<1>6. /\ d.symbol \in Coded(table) /\ d.symbol \in Byte
      /\ pos + d.used \in 0 .. Len(HuStream)
      /\ SubSeq(HuStream, 1, pos + d.used) = SubSeq(HuStream, 1, pos) \o Code(table, d.symbol)
  BY <1>3, <1>5, Zenon DEF Reading
<1>7. /\ Spelled(table, decoded')
      /\ Len(decoded') = n + 1
      /\ Coding(table, decoded', n + 1) = Coding(table, decoded, n) \o Code(table, d.symbol)
  BY <1>1, <1>2, <1>3, <1>6, CodingGrows, Zenon
<1>8. SubSeq(HuStream, 1, pos') = Coding(table, decoded', Len(decoded'))
  BY <1>1, <1>2, <1>6, <1>7, Zenon
<1>9. Len(decoded') <= original
  <2>1. n \in Nat
    BY <1>2 DEF Spelled
  <2> QED
    BY <1>1, <1>7, <2>1
<1>10. HuStream' = HuStream /\ OpenedTable' = OpenedTable /\ LegalPairs' = LegalPairs
  BY <1>1 DEF HuStream, OpenedTable, LegalPairs, Symbols2
<1>11. /\ Spelled(table, decoded)' /\ pos' \in 0 .. Len(HuStream)
       /\ SubSeq(HuStream, 1, pos') = Coding(table, decoded, Len(decoded))'
  BY <1>1, <1>6, <1>7, <1>8
<1> QED
  BY <1>1, <1>2, <1>9, <1>10, <1>11 DEF HuReading, d

\* The table that is planned is one for the block.
LEMMA HuPlans == HuInv /\ Hu!Plan => HuInv'
<1> SUFFICES ASSUME HuInv, Hu!Plan PROVE HuInv'
  OBVIOUS
<1> DEFINE occurring == {s \in Byte : Hu!Freq[s] # 0}
<1>1. /\ stage = "plan" /\ stage' = "write"
      /\ table' \in CodeLengths(Byte, occurring)
      /\ UNCHANGED <<data, budget, original, writer, i, payload, pos, decoded>>
  BY HuBits, HuCodes DEF Hu!Plan, Hu!input
<1>2. HuWord /\ Encoded /\ budget \in Nat /\ original \in Nat /\ payload \in Seq(Byte)
      /\ decoded = << >> /\ pos = 0 /\ writer = NewWriter /\ i = 0
  BY <1>1 DEF HuInv
<1>3. Len(data) \in Nat /\ DOMAIN data = 1 .. Len(data)
  BY <1>2 DEF HuWord
<1>4. occurring = {s \in Byte : Found(data, Len(data), s) # 0}
  <2>1. \A s \in Byte : Hu!Freq[s] = Found(data, Len(data), s)
    BY <1>3, HuBits, HuCodes, Zenon DEF Hu!Freq, Found
  <2> QED
    BY <2>1
<1> HIDE DEF occurring
<1>5. TableFor(table', data)
  <2>1. table' \in [Byte -> 0 .. MaxCodeLength]
    BY <1>1 DEF CodeLengths
  <2>2. IsFiniteSet(Byte) /\ Byte \subseteq Int
    <3>1. Byte = 0 .. 2 ^ ByteBits - 1 /\ 2 ^ ByteBits - 1 \in Int
      BY ByteIs
    <3>2. \A n \in Int : IsFiniteSet(0 .. n) /\ 0 .. n \subseteq Int
      BY FS_Interval
    <3> QED
      BY <3>1, <3>2
  <2>3. Coded(table') = occurring /\ Fits(table')
    BY <1>1, <2>1, <2>2, FitsIs, Zenon
  <2> QED
    BY <1>4, <2>1, <2>3 DEF TableFor, ByteTable
<1>6. HuWord' /\ HuTable'
  BY <1>1, <1>2, <1>5 DEF HuWord, HuTable
<1>7. HuWriting'
  <2>1. Spelled(table', data) /\ IsTable(table')
    BY <1>2, <1>5, HuWordIs
  <2>2. Coding(table', data, 0) = << >>
    BY <2>1, CodingIs
  <2>3. IsWriter(NewWriter) /\ Held(NewWriter) = << >>
    BY NewHolds
  <2>4. writer' = NewWriter /\ i' = 0 /\ data' = data
    BY <1>1, <1>2
  <2>5. IsWriter(writer') /\ i' \in 0 .. Len(data') /\ Held(writer') = Coding(table', data', i')
    BY <1>3, <2>2, <2>3, <2>4
  <2> QED
    BY <2>5 DEF HuWriting
<1> QED
  BY <1>1, <1>2, <1>6, <1>7 DEF HuInv, Encoded

\* A step that writes a symbol.
LEMMA HuWrites == HuInv /\ Hu!WriteSymbol => HuInv'
<1> SUFFICES ASSUME HuInv, Hu!WriteSymbol PROVE HuInv'
  OBVIOUS
<1> DEFINE n == i + 1
           s == data[n]
<1>1. /\ stage = "write" /\ stage' = "write" /\ i < Len(data)
      /\ writer' = Wrote(writer, CodeValue(table, s), table[s])
      /\ i' = n
      /\ UNCHANGED <<data, budget, original, table, payload, pos, decoded>>
  BY HuBits, HuCodes DEF Hu!WriteSymbol, Hu!input
<1>2. HuWord /\ HuTable /\ HuWriting /\ Encoded /\ budget \in Nat /\ original \in Nat /\ payload \in Seq(Byte)
      /\ decoded = << >> /\ pos = 0
  BY <1>1 DEF HuInv
<1>3. Spelled(table, data) /\ IsTable(table) /\ Len(data) \in Nat
  BY <1>2, HuWordIs DEF HuTable
<1>4. i \in Nat /\ n \in 1 .. Len(data) /\ n \in 0 .. Len(data) /\ n - 1 = i
  BY <1>1, <1>2, <1>3 DEF HuWriting
<1>5. s \in Coded(table)
  BY <1>3, <1>4 DEF Spelled
<1> HIDE DEF n
<1>6. table[s] \in 1 .. MaxCodeLength /\ CodeValue(table, s) \in Nat
  <2> HIDE DEF s
  <2> QED
    BY <1>3, <1>5, CodeIs
<1>7. table[s] \in 0 .. MaxCount
  <2> HIDE DEF s
  <2> QED
    BY <1>6, BlockCodecAssumption, CodeAssumption, BitIOAssumption, SMTT(40)
<1>8. IsWriter(writer') /\ Held(writer') = Coding(table, data, i) \o Code(table, s)
  <2> DEFINE v == CodeValue(table, s)
             c == table[s]
  <2>1. v \in Nat /\ c \in 0 .. MaxCount /\ writer' = Wrote(writer, v, c) /\ Code(table, s) = LowBits(v, c)
    BY <1>1, <1>6, <1>7 DEF Code
  <2> HIDE DEF v, c, s
  <2> QED
    BY <1>2, <2>1, WroteHolds, Zenon DEF HuWriting
<1>9. Coding(table, data, n) = Coding(table, data, i) \o Code(table, s)
  BY <1>3, <1>4, CodingNext
<1>10. HuWriting'
  <2>1. IsWriter(writer') /\ i' \in 0 .. Len(data') /\ Held(writer') = Coding(table', data', i')
    BY <1>1, <1>4, <1>8, <1>9
  <2> QED
    BY <2>1 DEF HuWriting
<1>11. HuWord' /\ HuTable'
  BY <1>1, <1>2, HuUnchanged
<1> QED
  BY <1>1, <1>2, <1>10, <1>11 DEF HuInv, Encoded

\* The payload that is left holds the table and the codes.
LEMMA HuEnds == HuInv /\ Hu!EndEncode => HuInv'
<1> SUFFICES ASSUME HuInv, Hu!EndEncode PROVE HuInv'
  OBVIOUS
<1> DEFINE first == << (Cardinality(Coded(table)) - 1) % 2 ^ ByteBits >>
           listed == Flat(Pairs(table), 2 ^ ByteBits)
           tail == Flushed(writer)
<1>1. /\ stage = "write" /\ stage' = "open" /\ i = Len(data)
      /\ payload' = first \o listed \o tail
      /\ UNCHANGED <<data, budget, original, table, writer, i, pos, decoded>>
  BY HuBits, HuNames, Zenon DEF Hu!EndEncode, Hu!input
<1>2. HuWord /\ HuTable /\ HuWriting /\ Encoded /\ budget \in Nat /\ original \in Nat
      /\ decoded = << >> /\ pos = 0
  BY <1>1 DEF HuInv
<1>3. Spelled(table, data) /\ IsTable(table) /\ Coded(table) # {} /\ Len(data) \in Nat /\ ByteTable(table)
  BY <1>2, HuWordIs DEF HuTable, TableFor
<1>4. IsWriter(writer) /\ Held(writer) = Coding(table, data, Len(data))
  BY <1>1, <1>2 DEF HuWriting
<1>5. /\ tail \in Seq(Byte)
      /\ Len(tail) = BytesFor(Len(Coding(table, data, Len(data))), ByteBits)
      /\ Carries(Unpacked(tail), Coding(table, data, Len(data)))
  <2>1. /\ tail \in Seq(Byte) /\ Len(tail) = BytesFor(Len(Held(writer)), ByteBits)
        /\ Unpacked(tail) \in Seq(Binary)
        /\ Len(Unpacked(tail)) - Len(Held(writer)) \in 0 .. ByteBits - 1
        /\ \A k \in 1 .. Len(Held(writer)) : Unpacked(tail)[k] = Held(writer)[k]
    BY <1>4, FlushedHolds
  <2> HIDE DEF tail
  <2> QED
    BY <1>4, <2>1 DEF Carries
<1>6. first \in Seq(Byte)
  <2> DEFINE c == Cardinality(Coded(table))
             x == (c - 1) % 2 ^ ByteBits
  <2>1. c \in Nat /\ c # 0
    BY <1>3, ByteTableIs, FS_CardinalityType, FS_EmptySet
  <2>2. x \in Byte
    <3> DEFINE d == 2 ^ ByteBits
    <3>1. d \in Nat \ {0} /\ Byte = 0 .. d - 1
      BY ByteIs
    <3> HIDE DEF d, c
    <3>2. c - 1 \in Nat
      BY <2>1
    <3>3. \A m \in Nat : m % d \in 0 .. d - 1
      BY <3>1
    <3> QED
      BY <3>1, <3>2, <3>3 DEF d
  <2> HIDE DEF x
  <2>3. << x >> \in Seq(Byte)
    BY <2>2
  <2> QED
    BY <2>3 DEF x
<1>7. listed \in Seq(Byte)
  BY <1>3, PairsAre
<1> HIDE DEF first, listed, tail
<1>8. payload' \in Seq(Byte)
  BY <1>1, <1>5, <1>6, <1>7
<1>9. HuHeld'
  <2>1. table' = table /\ data' = data
    BY <1>1
  <2>2. \E t \in Seq(Byte) :
          /\ payload' = << (Cardinality(Coded(table')) - 1) % 2 ^ ByteBits >>
                          \o Flat(Pairs(table'), 2 ^ ByteBits) \o t
          /\ Carries(Unpacked(t), Coding(table', data', Len(data')))
          /\ Len(t) = BytesFor(Len(Coding(table', data', Len(data'))), ByteBits)
    BY <1>1, <1>5, <2>1, Zenon DEF first, listed
  <2> QED
    BY <2>2, Zenon DEF HuHeld
<1>10. HuWord' /\ HuTable'
  BY <1>1, <1>2 DEF HuWord, HuTable
<1>11. Begun(decoded, data)'
  <2>1. decoded' = << >> /\ Len(data') \in Nat
    BY <1>1, <1>2, <1>3
  <2>2. \A parse : Begun(<< >>, parse) <=> 0 <= Len(parse)
    BY DEF Begun
  <2>3. 0 <= Len(data')
    BY <2>1
  <2> QED
    BY <2>1, <2>2, <2>3
<1> QED
  BY <1>1, <1>2, <1>8, <1>9, <1>10, <1>11 DEF HuInv, Encoded

\* The table that is read is legal, and is the one that was written.
LEMMA HuOpens == HuInv /\ Hu!Open => HuInv'
<1> SUFFICES ASSUME HuInv, Hu!Open PROVE HuInv'
  OBVIOUS
<1>1. /\ stage = "open" /\ stage' = "decode" /\ LegalPairs /\ table' = OpenedTable
      /\ UNCHANGED <<data, budget, original, writer, i, payload, pos, decoded>>
  <2>1. Hu!Open => table' = OpenedTable
    BY LegalTableIs, HuBits, HuCodes DEF Hu!Open, Hu!SymbolAt, Hu!LengthAt, OpenedTable
  <2> QED
    BY <2>1, HuNames DEF Hu!Open, Hu!input
<1>2. budget \in Nat /\ original \in Nat /\ payload \in Seq(Byte) /\ decoded = << >> /\ pos = 0
  BY <1>1 DEF HuInv
<1>3. HuReading'
  <2>1. HuStream \in Seq(Binary) /\ IsTable(OpenedTable)
    BY <1>1, <1>2, StreamIs
  <2>2. Spelled(OpenedTable, << >>)
    <3>1. << >> \in Seq(Byte) /\ Len(<< >>) = 0
      OBVIOUS
    <3> QED
      BY <3>1 DEF Spelled
  <2>3. Coding(OpenedTable, << >>, 0) = << >>
    BY <2>1, <2>2, CodingIs
  <2>4. SubSeq(HuStream, 1, 0) = << >> /\ 0 \in 0 .. Len(HuStream)
    BY <2>1
  <2>5. HuStream' = HuStream /\ OpenedTable' = OpenedTable /\ LegalPairs' = LegalPairs
    BY <1>1 DEF HuStream, OpenedTable, LegalPairs, Symbols2
  <2>6. Len(decoded') = 0 /\ decoded' = << >> /\ pos' = 0
    BY <1>1, <1>2
  <2>7. SubSeq(HuStream, 1, pos') = Coding(OpenedTable, decoded', Len(decoded'))
    BY <2>3, <2>4, <2>6, Zenon
  <2>8. /\ LegalPairs' /\ table' = OpenedTable'
        /\ pos' \in 0 .. Len(HuStream')
        /\ Len(decoded') <= original'
    BY <1>1, <1>2, <2>4, <2>5, <2>6
  <2>9. Spelled(table', decoded')
    BY <1>1, <2>2, <2>6
  <2>10. SubSeq(HuStream', 1, pos') = Coding(table', decoded', Len(decoded'))
    BY <1>1, <2>5, <2>7
  <2> QED
    BY <2>8, <2>9, <2>10, Zenon DEF HuReading
<1>4. ASSUME Encoded PROVE HuWord' /\ HuTable' /\ HuHeld' /\ Begun(decoded, data)'
  <2>1. HuWord /\ HuTable /\ HuHeld /\ Begun(decoded, data)
    BY <1>1, <1>4 DEF HuInv
  <2>2. table' = table
    BY <1>1, <2>1, HuStored
  <2> QED
    BY <1>1, <2>1, <2>2, HuUnchanged
<1> QED
  BY <1>1, <1>2, <1>3, <1>4 DEF HuInv, Encoded

\* A symbol read is the one that was written.
LEMMA HuReadsSymbol == HuInv /\ Hu!ReadSymbol => HuInv'
<1> SUFFICES ASSUME HuInv, Hu!ReadSymbol PROVE HuInv'
  OBVIOUS
<1>1. /\ stage = "decode" /\ stage' = "decode"
      /\ UNCHANGED <<data, budget, original, table, writer, i, payload>>
  BY DEF Hu!ReadSymbol, Hu!input
<1>2. budget \in Nat /\ original \in Nat /\ payload \in Seq(Byte) /\ HuReading
  BY <1>1 DEF HuInv
<1> DEFINE d == Peek(table, HuStream, pos)
<1>3. HuReading' /\ decoded' = Append(decoded, d.symbol) /\ Len(decoded) < original
  BY <1>2, HuReads
<1>4. ASSUME Encoded PROVE HuWord' /\ HuTable' /\ HuHeld' /\ Begun(decoded, data)'
  <2>1. HuWord /\ HuTable /\ HuHeld /\ Begun(decoded, data)
    BY <1>1, <1>4 DEF HuInv
  <2>2. HuWord' /\ HuTable' /\ HuHeld'
    BY <1>1, <2>1, HuUnchanged
  <2>3. Len(decoded) + 1 \in 1 .. Len(data) /\ d.symbol = data[Len(decoded) + 1]
    BY <1>2, <1>3, <2>1, HuReadsBack
  <2> HIDE DEF d
  <2>4. Begun(decoded', data)
    <3>1. decoded \in Seq(Byte)
      BY <1>2 DEF HuReading, Spelled
    <3>2. /\ Len(decoded') = Len(decoded) + 1 /\ decoded'[Len(decoded) + 1] = d.symbol
          /\ \A k \in 1 .. Len(decoded) : decoded'[k] = decoded[k]
      <4>1. \A x : Len(Append(decoded, x)) = Len(decoded) + 1 /\ Append(decoded, x)[Len(decoded) + 1] = x
               /\ \A k \in 1 .. Len(decoded) : Append(decoded, x)[k] = decoded[k]
        BY <3>1
      <4> QED
        BY <1>3, <4>1
    <3>3. Len(decoded) \in Nat /\ Len(data) \in Nat
      BY <2>1, <3>1 DEF HuWord
    <3>4. Len(decoded') <= Len(data)
      BY <2>3, <3>2, <3>3
    <3>5. ASSUME NEW k \in 1 .. Len(decoded') PROVE decoded'[k] = data[k]
      <4>1. k \in 1 .. Len(decoded) \/ k = Len(decoded) + 1
        BY <3>2, <3>3
      <4> QED
        BY <2>1, <2>3, <3>2, <4>1 DEF Begun
    <3> QED
      BY <3>4, <3>5 DEF Begun
  <2>5. Begun(decoded, data)' = Begun(decoded', data)
    BY <1>1 DEF Begun
  <2> QED
    BY <2>2, <2>4, <2>5
<1> QED
  BY <1>1, <1>2, <1>3, <1>4 DEF HuInv, Encoded

\* Every step of HuffmanPayload keeps the invariant.
LEMMA HuSteps == HuInv /\ Hu!Step => HuInv'
<1> SUFFICES ASSUME HuInv, Hu!Step PROVE HuInv'
  OBVIOUS
<1>1. ASSUME Hu!GiveUp PROVE HuInv'
  <2>1. /\ stage = "write" /\ stage' = "stored"
        /\ UNCHANGED <<data, budget, original, table, writer, i, payload, pos, decoded>>
    BY <1>1 DEF Hu!GiveUp, Hu!input
  <2>2. HuWord' <=> HuWord
    BY <2>1, HuUnchanged
  <2> QED
    BY <2>1, <2>2 DEF HuInv, Encoded
<1>2. ASSUME Hu!OpenFails PROVE HuInv'
  <2>1. /\ stage = "open" /\ stage' = "corrupt" /\ ~LegalPairs
        /\ UNCHANGED <<data, budget, original, table, writer, i, payload, pos, decoded>>
    BY <1>2, HuNames DEF Hu!OpenFails, Hu!input
  <2>2. ~Encoded
    BY <2>1, HuStored DEF HuInv
  <2> QED
    BY <2>1, <2>2 DEF HuInv, Encoded
<1>3. ASSUME Hu!ReadFails PROVE HuInv'
  <2>1. /\ stage = "decode" /\ stage' = "corrupt" /\ Len(decoded) < original
        /\ Peek(table, HuStream, pos) = NotACode
        /\ UNCHANGED <<data, budget, original, table, writer, i, payload, pos, decoded>>
    BY <1>3, HuNames, HuCodes, Zenon DEF Hu!ReadFails, Hu!input, Peek
  <2>2. ~Encoded
    <3> SUFFICES ASSUME Encoded PROVE FALSE
      OBVIOUS
    <3>1. HuWord /\ HuTable /\ HuHeld /\ HuReading /\ Begun(decoded, data)
      BY <2>1 DEF HuInv
    <3> DEFINE s == data[Len(decoded) + 1]
    <3>2. s \in Coded(table) /\ Peek(table, HuStream, pos) = [symbol |-> s, used |-> table[s]]
      BY <2>1, <3>1, HuReadsBack
    <3>3. s # -1
      <4>1. Coded(table) \subseteq Byte /\ Byte \subseteq Nat
        BY <3>1, ByteTableIs, ByteIs DEF HuTable, TableFor
      <4>2. -1 \notin Nat
        OBVIOUS
      <4> QED
        BY <3>2, <4>1, <4>2
    <3> QED
      BY <2>1, <3>2, <3>3 DEF NotACode
  <2> QED
    BY <2>1, <2>2 DEF HuInv, Encoded
<1>4. ASSUME Hu!EndDecode PROVE HuInv'
  <2>1. /\ stage = "decode" /\ stage' = "done" /\ Len(decoded) = original
        /\ UNCHANGED <<data, budget, original, table, writer, i, payload, pos, decoded>>
    BY <1>4 DEF Hu!EndDecode, Hu!input
  <2>2. /\ HuWord <=> HuWord'
        /\ HuTable <=> HuTable'
        /\ HuHeld <=> HuHeld'
        /\ HuReading <=> HuReading'
    BY <2>1, HuUnchanged
  <2>3. Begun(decoded, data)' = Begun(decoded, data)
    BY <2>1 DEF Begun
  <2> QED
    BY <2>1, <2>2, <2>3 DEF HuInv, Encoded
<1> QED
  BY <1>1, <1>2, <1>3, <1>4, HuPlans, HuWrites, HuEnds, HuOpens, HuReadsSymbol DEF Hu!Step

\* The invariant gives the two properties.
LEMMA HuIsSound == HuInv => Hu!DecodeSound
<1> SUFFICES ASSUME HuInv, stage \in {"decode", "done"} PROVE Hu!DecodeSound
  BY DEF Hu!DecodeSound
<1>1. HuReading /\ payload \in Seq(Byte)
  BY DEF HuInv
<1>2. /\ LegalPairs /\ table = OpenedTable /\ Spelled(table, decoded) /\ pos \in 0 .. Len(HuStream)
      /\ SubSeq(HuStream, 1, pos) = Coding(table, decoded, Len(decoded))
      /\ Len(decoded) <= original
  BY <1>1 DEF HuReading
<1>3. Cardinality(Coded(table)) = Symbols2
  BY <1>1, <1>2, OpenedIs
<1>4. IsTable(table) /\ HuStream \in Seq(Binary)
  BY <1>1, <1>2, StreamIs
<1>5. decoded \in Seq(Byte) /\ Len(decoded) \in Nat /\ DOMAIN decoded = 1 .. Len(decoded)
  BY <1>2 DEF Spelled
<1>6. Len(decoded) <= pos
  <2>1. Len(decoded) <= Len(Coding(table, decoded, Len(decoded)))
    <3> DEFINE n == Len(decoded)
    <3>1. n \in 0 .. Len(decoded)
      BY <1>5
    <3> HIDE DEF n
    <3>2. n <= Len(Coding(table, decoded, n))
      BY <1>2, <1>4, <3>1, CodingIs
    <3> QED
      BY <3>2 DEF n
  <2>2. Len(SubSeq(HuStream, 1, pos)) = pos
    BY <1>2, <1>4
  <2> QED
    BY <1>2, <2>1, <2>2
<1>7. Hu!FlattenSeq([n \in DOMAIN decoded |-> Hu!Code(table, decoded[n])]) = Coding(table, decoded, Len(decoded))
  BY <1>5, HuCodes DEF Coding
<1>8. /\ Hu!Cardinality(Hu!Coded(table)) = Hu!Count
      /\ SubSeq(Hu!Stream, 1, pos) = Hu!FlattenSeq([n \in DOMAIN decoded |-> Hu!Code(table, decoded[n])])
  BY <1>2, <1>3, <1>7, HuNames, HuCodes, Zenon
<1> QED
  BY <1>2, <1>6, <1>8 DEF Hu!DecodeSound

\* The size computed before is the size that is written.
LEMMA HuTotalIs ==
    ASSUME HuWord, HuTable
    PROVE  Hu!Total = 1 + 2 * Cardinality(Coded(table)) + BytesFor(Len(Coding(table, data, Len(data))), ByteBits)
<1> DEFINE n == Len(data)
           N == 2 ^ ByteBits
<1>1. Spelled(table, data) /\ IsTable(table) /\ n \in Nat /\ DOMAIN data = 1 .. n /\ ByteTable(table)
  BY HuWordIs DEF HuTable, TableFor
<1>2. Byte = 0 .. N - 1 /\ N \in Nat
  BY ByteIs
<1>3. \A s \in Byte : table[s] \in Nat
  BY <1>1, ByteTableIs
<1>4. \A s \in Byte : Hu!Freq[s] = Found(data, n, s)
  BY <1>1, HuBits, HuCodes, Zenon DEF Hu!Freq, Found
<1> HIDE DEF n, N
<1>5. BitsTaken(Hu!Freq, table, N) = SumUpTo([k \in 1 .. n |-> Taken(table, data, N, k)], n)
  <2> DEFINE f == Hu!Freq
  <2>1. \A s \in 0 .. N - 1 : f[s] = Found(data, n, s)
    BY <1>2, <1>4
  <2>2. \A s \in 0 .. N - 1 : table[s] \in Nat
    BY <1>2, <1>3
  <2> HIDE DEF f
  <2>3. BitsTaken(f, table, N) = SumUpTo([k \in 1 .. n |-> Taken(table, data, N, k)], n)
    BY <1>1, <1>2, <2>1, <2>2, CountedTwice, Zenon
  <2> QED
    BY <2>3 DEF f
<1>6. [k \in 1 .. n |-> Taken(table, data, N, k)] = Costs(table, data)
  <2>1. ASSUME NEW k \in 1 .. n PROVE Taken(table, data, N, k) = table[data[k]]
    <3>1. data[k] \in Byte
      BY <1>1, <2>1 DEF Spelled, n
    <3> QED
      BY <1>2, <3>1 DEF Taken
  <2> QED
    BY <2>1 DEF Costs, n
<1>7. SumUpTo(Costs(table, data), n) = Len(Coding(table, data, n))
  <2>1. n \in 0 .. Len(data)
    BY <1>1 DEF n
  <2> QED
    BY <1>1, <2>1, CodingIs
<1>8. Hu!PayloadBits = Len(Coding(table, data, n))
  BY <1>5, <1>6, <1>7, HuCodes, Zenon DEF Hu!PayloadBits, N
<1> QED
  BY <1>8, HuNames, HuBits DEF Hu!Total, n

\* Nor is anything lost.
LEMMA HuIsLossless == HuInv => Hu!Lossless
<1> SUFFICES ASSUME HuInv, Encoded
             PROVE  /\ stage = "write" =>
                           Hu!Held(writer) = Hu!FlattenSeq([n \in 1 .. i |-> Hu!Code(table, data[n])])
                    /\ stage \in {"open", "decode", "done"} => Len(payload) = Hu!Total
                    /\ stage # "corrupt" /\ Hu!IsPrefix(decoded, data)
                    /\ stage = "done" => decoded = data /\ Len(HuStream) - pos \in 0 .. ByteBits - 1
  BY HuNames DEF Hu!Lossless
<1>1. HuWord /\ stage # "corrupt"
  BY DEF HuInv
<1>2. data \in Seq(Byte) /\ Len(data) \in Nat /\ original = Len(data)
  BY <1>1 DEF HuWord
<1>3. stage = "write" => Hu!Held(writer) = Hu!FlattenSeq([n \in 1 .. i |-> Hu!Code(table, data[n])])
  BY HuBits, HuCodes DEF HuInv, HuWriting, Coding
<1>4. stage \in {"open", "decode", "done"} => Len(payload) = Hu!Total
  BY <1>1, HuStored, HuTotalIs DEF HuInv
<1>5. decoded \in Seq(Byte) /\ Begun(decoded, data)
  <2>1. << >> \in Seq(Byte) /\ Len(<< >>) = 0 /\ 0 <= Len(data)
    BY <1>2
  <2>2. \A parse : Begun(<< >>, parse) <=> 0 <= Len(parse)
    BY DEF Begun
  <2>3. CASE stage \in {"plan", "write", "stored", "open"}
    BY <2>1, <2>2, <2>3, Zenon DEF HuInv
  <2>4. CASE stage \in {"decode", "done"}
    BY <2>4 DEF HuInv, HuReading, Spelled
  <2> QED
    BY <1>1, <2>3, <2>4 DEF HuInv
<1>6. Hu!IsPrefix(decoded, data)
  <2> DEFINE a == SubSeq(decoded, 1, Len(decoded))
             b == SubSeq(data, 1, Len(decoded))
  <2>1. a \in Seq(Byte) /\ Len(a) = Len(decoded) /\ \A k \in 1 .. Len(decoded) : a[k] = decoded[k]
    BY <1>5
  <2>2. Len(decoded) \in 0 .. Len(data) /\ \A k \in 1 .. Len(decoded) : decoded[k] = data[k]
    BY <1>2, <1>5 DEF Begun
  <2>3. b \in Seq(Byte) /\ Len(b) = Len(decoded) /\ \A k \in 1 .. Len(decoded) : b[k] = data[k]
    BY <1>2, <2>2
  <2> HIDE DEF a, b
  <2>4. a = b
    BY <2>1, <2>2, <2>3, SeqEqual
  <2> QED
    BY <1>2, <2>2, <2>4 DEF a, b, Hu!IsPrefix
<1>7. ASSUME stage = "done" PROVE decoded = data /\ Len(HuStream) - pos \in 0 .. ByteBits - 1
  <2>1. HuTable /\ HuHeld /\ HuReading /\ Len(decoded) = original
    BY <1>7 DEF HuInv
  <2>2. decoded = data
    <3>1. Len(decoded) = Len(data) /\ \A k \in 1 .. Len(decoded) : decoded[k] = data[k]
      BY <1>2, <1>5, <2>1 DEF Begun
    <3> QED
      BY <1>2, <1>5, <3>1, SeqEqual
  <2>3. HuStream \in Seq(Binary) /\ Carries(HuStream, Coding(table, data, Len(data)))
    BY <1>1, <2>1, HuStored
  <2>4. pos = Len(Coding(table, data, Len(data)))
    <3>1. pos \in 0 .. Len(HuStream) /\ SubSeq(HuStream, 1, pos) = Coding(table, data, Len(data))
      BY <2>1, <2>2 DEF HuReading
    <3>2. Len(SubSeq(HuStream, 1, pos)) = pos
      BY <2>3, <3>1
    <3> QED
      BY <3>1, <3>2
  <2> QED
    BY <2>2, <2>3, <2>4 DEF Carries
<1> QED
  BY <1>1, <1>3, <1>4, <1>6, <1>7

------------------------------------------------------------------------------
\* Deflate's coder has the codes, the bits, the tokens and the tables defined here.

\* The bits.
LEMMA DfBits ==
    /\ Df!Byte = Byte /\ Df!NewWriter = NewWriter
    /\ \A w, v, c : Df!Wrote(w, v, c) = Wrote(w, v, c)
    /\ \A w : Df!Flushed(w) = Flushed(w)
    /\ \A bytes : Df!UnpackedBits(bytes, ByteBits) = Unpacked(bytes)
    /\ \A n : Df!BytesFor(n, ByteBits) = BytesFor(n, ByteBits)
    /\ \A bits : Df!Value(bits) = Value(bits)
<1>1. Df!Byte = Byte /\ Df!NewWriter = NewWriter
  BY DEF Df!Byte, Byte, Df!NewWriter, NewWriter
<1>2. \A w, v, c : Df!Wrote(w, v, c) = Wrote(w, v, c)
  BY DEF Df!Wrote, Wrote, Df!Appended, Appended, Df!Emitted, Emitted
<1>3. \A w : Df!Flushed(w) = Flushed(w)
  BY DEF Df!Flushed, Flushed
<1>4. \A bytes : Df!UnpackedBits(bytes, ByteBits) = Unpacked(bytes)
  BY DEF Df!UnpackedBits, UnpackedBits, Unpacked, Df!LowBits, LowBits
<1>5. \A n : Df!BytesFor(n, ByteBits) = BytesFor(n, ByteBits)
  BY DEF Df!BytesFor, BytesFor
<1>6. \A bits : Df!Value(bits) = Value(bits)
  BY DEF Df!Value, Value
<1> QED
  BY <1>1, <1>2, <1>3, <1>4, <1>5, <1>6

\* The codes.
LEMMA DfCodes ==
    /\ \A ls : Df!Coded(ls) = Coded(ls)
    /\ \A ls, s : Df!CodeValue(ls, s) = CodeValue(ls, s)
    /\ \A ls, bits : Df!DecodeSymbol(ls, bits) = DecodeSymbol(ls, bits)
    /\ Df!NotACode = NotACode
    /\ \A alphabet, occurring : Df!CodeLengths(alphabet, occurring) = CodeLengths(alphabet, occurring)
    /\ \A f, ls, size : Df!BitsTaken(f, ls, size) = BitsTaken(f, ls, size)
    /\ \A term, n : Df!SumUpTo(term, n) = SumUpTo(term, n)
    /\ \A S : Df!Cardinality(S) = Cardinality(S)
    /\ \A S : Df!Max(S) = Max(S)
<1>1. \A ls : Df!Coded(ls) = Coded(ls)
  BY DEF Df!Coded, Coded
<1>2. \A S : Df!Cardinality(S) = Cardinality(S)
  BY DEF Df!Cardinality, Cardinality
<1>3. \A S : Df!Max(S) = Max(S)
  BY DEF Df!Max, Max
<1>4. \A ls, s : Df!CodeValue(ls, s) = CodeValue(ls, s)
  BY DEF Df!CodeValue, CodeValue, Df!FirstCode, FirstCode, Df!NumberOf, NumberOf, Df!Coded, Coded,
         Df!Cardinality, Cardinality
<1>5. Df!NotACode = NotACode
  BY DEF Df!NotACode, NotACode
<1>6. \A ls, bits : Df!DecodeSymbol(ls, bits) = DecodeSymbol(ls, bits)
  BY DEF Df!DecodeSymbol, DecodeSymbol, Df!SymbolsAt, SymbolsAt, Df!Path, Path, Df!NotACode, NotACode,
         Df!Min, Min, Df!Max, Max,
         Df!Code, Code, Df!LowBits, LowBits,
         Df!CodeValue, CodeValue, Df!FirstCode, FirstCode, Df!NumberOf, NumberOf, Df!Coded, Coded,
         Df!Cardinality, Cardinality
<1>7. \A alphabet, occurring : Df!CodeLengths(alphabet, occurring) = CodeLengths(alphabet, occurring)
  BY DEF Df!CodeLengths, CodeLengths, Df!KraftSum, KraftSum, Df!Lengths, Lengths, Df!SumUpTo, SumUpTo,
         Df!NumberOf, NumberOf, Df!Coded, Coded, Df!Cardinality, Cardinality
<1>8. \A f, ls, size : Df!BitsTaken(f, ls, size) = BitsTaken(f, ls, size)
  BY DEF Df!BitsTaken, BitsTaken, Df!SumUpTo, SumUpTo
<1>9. \A term, n : Df!SumUpTo(term, n) = SumUpTo(term, n)
  BY DEF Df!SumUpTo, SumUpTo
<1> QED
  BY <1>1, <1>2, <1>3, <1>4, <1>5, <1>6, <1>7, <1>8, <1>9

\* The tokens.
LEMMA DfTokens ==
    /\ \A b : Df!Literal(b) = Literal(b)
    /\ \A m : Df!Reference(m) = Reference(m)
    /\ \A t : Df!IsMatch(t) = IsMatch(t)
    /\ \A parse : Df!Covered(parse) = Covered(parse)
    /\ \A parse, reach : Df!WithinReach(parse, reach) = WithinReach(parse, reach)
<1>1. \A b : Df!Literal(b) = Literal(b)
  BY DEF Df!Literal, Literal
<1>2. \A m : Df!Reference(m) = Reference(m)
  BY DEF Df!Reference, Reference
<1>3. \A t : Df!IsMatch(t) = IsMatch(t)
  BY DEF Df!IsMatch, IsMatch
<1>4. \A t : Df!Width(t) = Width(t)
  BY <1>3 DEF Df!Width, Width
<1>5. \A parse, n : Df!CoveredBy(parse, n) = CoveredBy(parse, n)
  BY <1>4, DfCodes DEF Df!CoveredBy, CoveredBy
<1>6. \A parse : Df!Covered(parse) = Covered(parse)
  BY <1>5 DEF Df!Covered, Covered
<1>7. \A parse, reach : Df!WithinReach(parse, reach) = WithinReach(parse, reach)
  BY <1>5 DEF Df!WithinReach, WithinReach
<1> QED
  BY <1>1, <1>2, <1>3, <1>6, <1>7

\* The tables of lengths and distances.
LEMMA DfTables ==
    /\ Df!MinMatch = MinMatch /\ Df!LengthCodes = LengthCodes /\ Df!DistanceCodes = DistanceCodes
    /\ \A length : Df!SplitLength(length) = SplitLength(length)
    /\ \A distance : Df!SplitDistance(distance) = SplitDistance(distance)
    /\ \A symbol : Df!LengthStart(symbol) = LengthStart(symbol)
    /\ \A symbol : Df!LengthExtraBits(symbol) = LengthExtraBits(symbol)
    /\ \A code : Df!DistanceStart(code) = DistanceStart(code)
    /\ \A code : Df!DistanceExtraBits(code) = DistanceExtraBits(code)
<1>1. Df!MinMatch = MinMatch /\ Df!LengthCodes = LengthCodes /\ Df!DistanceCodes = DistanceCodes
  BY DEF Df!MinMatch, MinMatch, Df!LengthCodes, LengthCodes, Df!DistanceCodes, DistanceCodes
<1>2. \A S : Df!Max(S) = Max(S)
  BY DfCodes
<1>3. \A codes : Df!Entry(codes) = Entry(codes)
  BY <1>2 DEF Df!Entry, Entry
<1>4. /\ \A n : Df!LastLength(n) = LastLength(n)
      /\ \A c : Df!LastDistance(c) = LastDistance(c)
  BY <1>1 DEF Df!LastLength, LastLength, Df!LastDistance, LastDistance
<1>5. Df!LengthIndex = LengthIndex
  BY <1>1, <1>3, <1>4 DEF Df!LengthIndex, LengthIndex
<1>6. Df!DistLow = DistLow
  BY <1>1, <1>3, <1>4 DEF Df!DistLow, DistLow
<1>7. \A d : Df!Bucket(d) = Bucket(d)
  BY DEF Df!Bucket, Bucket
<1>8. Df!DistHigh = DistHigh
  BY <1>1, <1>2, <1>3, <1>4, <1>7, Zenon DEF Df!DistHigh, DistHigh
<1>9. \A length : Df!SplitLength(length) = SplitLength(length)
  BY <1>5 DEF Df!SplitLength, SplitLength, Df!Split, Split
<1>10. \A distance : Df!SplitDistance(distance) = SplitDistance(distance)
  BY <1>6, <1>7, <1>8 DEF Df!SplitDistance, SplitDistance, Df!Split, Split
<1> QED
  BY <1>1, <1>9, <1>10 DEF Df!LengthStart, LengthStart, Df!LengthExtraBits, LengthExtraBits,
       Df!DistanceStart, DistanceStart, Df!DistanceExtraBits, DistanceExtraBits

------------------------------------------------------------------------------
\* How a token is written.

LitLenCodes == 0 .. FirstLengthSymbol + Len(LengthBase) - 1

\* The extra bits of a symbol, as the decoder looks them up.
LengthPart(symbol) ==
    /\ symbol \in LitLenCodes
    /\ LengthExtraBits(symbol) \in 0 .. MaxCount
    /\ LengthStart(symbol) \in Nat \ {0}

DistancePart(code) ==
    /\ code \in DistanceCodes
    /\ DistanceExtraBits(code) \in 0 .. MaxCount
    /\ DistanceStart(code) \in Nat \ {0}

\* The sizes of the tables.
LEMMA SizesAre ==
    /\ FirstLengthSymbol \in Nat \ {0}
    /\ Len(LengthBase) \in Nat \ {0} /\ Len(DistBase) \in Nat \ {0}
    /\ LengthCodes = 0 .. Len(LengthBase) - 1 /\ DistanceCodes = 0 .. Len(DistBase) - 1
    /\ Df!LitLen = LitLenCodes /\ Df!EndOfBlock = FirstLengthSymbol - 1
    /\ MaxCount \in Nat /\ MaxCount <= AccBits /\ MaxCodeLength \in 0 .. MaxCount
<1>1. /\ LengthBase \in Seq(Nat \ {0}) /\ LengthBase # << >>
      /\ DistBase \in Seq(Nat \ {0}) /\ DistBase # << >> /\ FirstLengthSymbol \in Nat \ {0}
  BY TablesAssumption DEF AreRanges
<1>2. Len(LengthBase) \in Nat \ {0} /\ Len(DistBase) \in Nat \ {0}
  BY <1>1
<1>3. MaxCount \in Nat /\ MaxCount <= AccBits /\ MaxCodeLength \in 0 .. MaxCount
  BY AccIs, BlockCodecAssumption, CodeAssumption
<1> QED
  BY <1>1, <1>2, <1>3 DEF LengthCodes, DistanceCodes, Df!LitLen, LitLenCodes, Df!EndOfBlock

\* Every length symbol has an entry in the tables.
LEMMA LengthPartIs ==
    ASSUME NEW symbol \in LitLenCodes, symbol >= FirstLengthSymbol
    PROVE  LengthPart(symbol)
<1> DEFINE n == symbol - FirstLengthSymbol + 1
<1>1. n \in 1 .. Len(LengthBase) /\ Len(LengthBase) \in Nat
  BY SizesAre DEF LitLenCodes
<1>2. /\ LengthBase \in Seq(Nat \ {0}) /\ LengthExtra \in Seq(Nat) /\ Len(LengthExtra) = Len(LengthBase)
      /\ \A k \in DOMAIN LengthExtra : LengthExtra[k] <= MaxCount
  BY TablesAssumption, BlockCodecAssumption DEF AreRanges
<1> HIDE DEF n
<1>3. LengthBase[n] \in Nat \ {0} /\ LengthExtra[n] \in 0 .. MaxCount
  <2>1. LengthBase[n] \in Nat \ {0}
    BY <1>1, <1>2
  <2>2. LengthExtra[n] \in Nat /\ n \in DOMAIN LengthExtra
    BY <1>1, <1>2
  <2> QED
    BY <1>2, <2>1, <2>2, SizesAre
<1> QED
  BY <1>3 DEF LengthPart, LengthExtraBits, LengthStart, n

\* So has every distance code.
LEMMA DistancePartIs ==
    ASSUME NEW code \in DistanceCodes
    PROVE  DistancePart(code)
<1> DEFINE n == code + 1
<1>1. n \in 1 .. Len(DistBase) /\ Len(DistBase) \in Nat
  BY SizesAre
<1>2. /\ DistBase \in Seq(Nat \ {0}) /\ DistExtra \in Seq(Nat) /\ Len(DistExtra) = Len(DistBase)
      /\ \A k \in DOMAIN DistExtra : DistExtra[k] <= MaxCount
  BY TablesAssumption, BlockCodecAssumption DEF AreRanges
<1> HIDE DEF n
<1>3. DistBase[n] \in Nat \ {0} /\ DistExtra[n] \in 0 .. MaxCount
  <2>1. DistBase[n] \in Nat \ {0}
    BY <1>1, <1>2
  <2>2. DistExtra[n] \in Nat /\ n \in DOMAIN DistExtra
    BY <1>1, <1>2
  <2> QED
    BY <1>2, <2>1, <2>2, SizesAre
<1> QED
  BY <1>3 DEF DistancePart, DistanceExtraBits, DistanceStart, n

LengthSplits(length) ==
    LET s == SplitLength(length)
    IN  /\ s.symbol \in LitLenCodes /\ s.symbol >= FirstLengthSymbol
        /\ s.extraBits = LengthExtraBits(s.symbol) /\ s.extraBits \in 0 .. MaxCount
        /\ s.extraValue \in 0 .. 2 ^ s.extraBits - 1
        /\ LengthStart(s.symbol) + s.extraValue = length

DistanceSplits(distance) ==
    LET s == SplitDistance(distance)
    IN  /\ s.symbol \in DistanceCodes
        /\ s.extraBits = DistanceExtraBits(s.symbol) /\ s.extraBits \in 0 .. MaxCount
        /\ s.extraValue \in 0 .. 2 ^ s.extraBits - 1
        /\ DistanceStart(s.symbol) + s.extraValue = distance

\* A length is split into a symbol and extra bits of the size the table says.
LEMMA LengthSplitsIs ==
    ASSUME NEW length \in MinMatch .. MaxMatch
    PROVE  LengthSplits(length)
<1> DEFINE s == SplitLength(length)
           c == LastBegun(LengthBase, length)
<1>1. /\ LengthStart(s.symbol) + s.extraValue = length
      /\ s.extraValue \in 0 .. 2 ^ s.extraBits - 1
      /\ s.extraBits = LengthExtraBits(s.symbol)
  BY LengthsAreJoined DEF LengthsJoin
<1>2. c \in LengthCodes /\ LengthIndex[length] = c
  BY LengthCodeIs
<1> HIDE DEF c
<1>3. s.symbol = FirstLengthSymbol + c
  BY <1>2 DEF SplitLength, Split
<1> HIDE DEF s
<1>4. s.symbol \in LitLenCodes /\ s.symbol >= FirstLengthSymbol
  BY <1>2, <1>3, SizesAre DEF LitLenCodes
<1>5. LengthPart(s.symbol)
  BY <1>4, LengthPartIs
<1> QED
  BY <1>1, <1>4, <1>5 DEF LengthSplits, LengthPart, s

\* So is a distance.
LEMMA DistanceSplitsIs ==
    ASSUME NEW distance \in 1 .. MaxDistance
    PROVE  DistanceSplits(distance)
<1> DEFINE s == SplitDistance(distance)
           c == LastBegun(DistBase, distance)
<1>1. /\ DistanceStart(s.symbol) + s.extraValue = distance
      /\ s.extraValue \in 0 .. 2 ^ s.extraBits - 1
      /\ s.extraBits = DistanceExtraBits(s.symbol)
      /\ s.symbol = c
  BY DistancesAreJoined DEF DistancesJoin
<1>2. c \in DistanceCodes
  BY DistanceCodeIs
<1> HIDE DEF s, c
<1>3. DistancePart(s.symbol)
  BY <1>1, <1>2, DistancePartIs
<1> QED
  BY <1>1, <1>3 DEF DistanceSplits, DistancePart, s

LitLenOf(t) == IF IsMatch(t) THEN SplitLength(t.length).symbol ELSE t.literal

DistOf(t)   == IF IsMatch(t) THEN SplitDistance(t.distance).symbol ELSE -1

\* A token for which there are codes.
Codable(ll, dd, t) ==
    /\ LitLenOf(t) \in Coded(ll)
    /\ IsMatch(t) =>
          /\ LengthSplits(t.length) /\ DistanceSplits(t.distance)
          /\ DistOf(t) \in Coded(dd)

ExtraOf(part) == LowBits(part.extraValue, part.extraBits)

TokenBits(ll, dd, t) ==
    IF IsMatch(t)
    THEN ((Code(ll, LitLenOf(t)) \o ExtraOf(SplitLength(t.length)))
             \o Code(dd, DistOf(t))) \o ExtraOf(SplitDistance(t.distance))
    ELSE Code(ll, LitLenOf(t))

\* The parts of a token's bits.
LEMMA PartsAre ==
    ASSUME NEW ll, IsTable(ll), NEW dd, IsTable(dd), NEW t, Codable(ll, dd, t)
    PROVE  /\ Code(ll, LitLenOf(t)) \in Seq(Binary) /\ Len(Code(ll, LitLenOf(t))) = ll[LitLenOf(t)]
           /\ ll[LitLenOf(t)] \in 1 .. MaxCodeLength /\ CodeValue(ll, LitLenOf(t)) \in Nat
           /\ IsMatch(t) =>
                 /\ Code(dd, DistOf(t)) \in Seq(Binary) /\ Len(Code(dd, DistOf(t))) = dd[DistOf(t)]
                 /\ dd[DistOf(t)] \in 1 .. MaxCodeLength /\ CodeValue(dd, DistOf(t)) \in Nat
                 /\ ExtraOf(SplitLength(t.length)) \in Seq(Binary)
                 /\ Len(ExtraOf(SplitLength(t.length))) = SplitLength(t.length).extraBits
                 /\ SplitLength(t.length).extraBits \in 0 .. MaxCount
                 /\ SplitLength(t.length).extraValue \in Nat
                 /\ ExtraOf(SplitDistance(t.distance)) \in Seq(Binary)
                 /\ Len(ExtraOf(SplitDistance(t.distance))) = SplitDistance(t.distance).extraBits
                 /\ SplitDistance(t.distance).extraBits \in 0 .. MaxCount
                 /\ SplitDistance(t.distance).extraValue \in Nat
<1>1. /\ Code(ll, LitLenOf(t)) \in Seq(Binary) /\ Len(Code(ll, LitLenOf(t))) = ll[LitLenOf(t)]
      /\ ll[LitLenOf(t)] \in 1 .. MaxCodeLength /\ CodeValue(ll, LitLenOf(t)) \in Nat
  <2> DEFINE s == LitLenOf(t)
  <2>1. s \in Coded(ll)
    BY DEF Codable
  <2> HIDE DEF s
  <2>2. /\ Code(ll, s) \in Seq(Binary) /\ Len(Code(ll, s)) = ll[s]
        /\ ll[s] \in 1 .. MaxCodeLength /\ CodeValue(ll, s) \in Nat
    BY <2>1, CodeIs
  <2> QED
    BY <2>2 DEF s
<1>2. ASSUME NEW part, part.extraBits \in 0 .. MaxCount, part.extraValue \in 0 .. 2 ^ part.extraBits - 1
      PROVE  /\ ExtraOf(part) \in Seq(Binary) /\ Len(ExtraOf(part)) = part.extraBits
             /\ part.extraValue \in Nat
  <2> DEFINE c == part.extraBits
             v == part.extraValue
  <2>1. c \in 0 .. AccBits + 1 /\ v \in 0 .. 2 ^ c - 1
    <3>1. AccBits \in Nat /\ MaxCount \in Nat /\ MaxCount <= AccBits
      BY AccIs, SizesAre
    <3> QED
      BY <1>2, <3>1
  <2> HIDE DEF c, v
  <2>2. v \in Nat
    BY <2>1
  <2>3. LowBits(v, c) \in Seq(Binary) /\ Len(LowBits(v, c)) = c
    BY <2>1, <2>2, LowBitsAre
  <2> QED
    BY <2>2, <2>3 DEF ExtraOf, c, v
<1>3. ASSUME IsMatch(t)
      PROVE  /\ Code(dd, DistOf(t)) \in Seq(Binary) /\ Len(Code(dd, DistOf(t))) = dd[DistOf(t)]
             /\ dd[DistOf(t)] \in 1 .. MaxCodeLength /\ CodeValue(dd, DistOf(t)) \in Nat
  <2> DEFINE s == DistOf(t)
  <2>1. s \in Coded(dd)
    BY <1>3 DEF Codable
  <2> HIDE DEF s
  <2>2. /\ Code(dd, s) \in Seq(Binary) /\ Len(Code(dd, s)) = dd[s]
        /\ dd[s] \in 1 .. MaxCodeLength /\ CodeValue(dd, s) \in Nat
    BY <2>1, CodeIs
  <2> QED
    BY <2>2 DEF s
<1>4. ASSUME IsMatch(t)
      PROVE  /\ SplitLength(t.length).extraBits \in 0 .. MaxCount
             /\ SplitLength(t.length).extraValue \in 0 .. 2 ^ SplitLength(t.length).extraBits - 1
             /\ SplitDistance(t.distance).extraBits \in 0 .. MaxCount
             /\ SplitDistance(t.distance).extraValue \in 0 .. 2 ^ SplitDistance(t.distance).extraBits - 1
  BY <1>4 DEF Codable, LengthSplits, DistanceSplits
<1> QED
  BY <1>1, <1>2, <1>3, <1>4, Zenon

CostOf(ll, dd, t) ==
    ll[LitLenOf(t)] + (IF IsMatch(t) THEN dd[DistOf(t)] ELSE 0)
        + (IF IsMatch(t) THEN SplitLength(t.length).extraBits + SplitDistance(t.distance).extraBits ELSE 0)

\* A token takes as many bits as it costs, and at least one.
LEMMA TokenBitsAre ==
    ASSUME NEW ll, IsTable(ll), NEW dd, IsTable(dd), NEW t, Codable(ll, dd, t)
    PROVE  /\ TokenBits(ll, dd, t) \in Seq(Binary)
           /\ Len(TokenBits(ll, dd, t)) = CostOf(ll, dd, t)
           /\ CostOf(ll, dd, t) \in Nat /\ CostOf(ll, dd, t) >= 1
<1> DEFINE a == Code(ll, LitLenOf(t))
           b == ExtraOf(SplitLength(t.length))
           c == Code(dd, DistOf(t))
           e == ExtraOf(SplitDistance(t.distance))
<1>1. a \in Seq(Binary) /\ Len(a) = ll[LitLenOf(t)] /\ ll[LitLenOf(t)] \in 1 .. MaxCodeLength
  BY PartsAre
<1>2. MaxCodeLength \in Nat
  BY CodeAssumption
<1>3. CASE ~IsMatch(t)
  BY <1>1, <1>2, <1>3 DEF TokenBits, CostOf
<1>4. CASE IsMatch(t)
  <2>1. /\ b \in Seq(Binary) /\ Len(b) = SplitLength(t.length).extraBits
        /\ c \in Seq(Binary) /\ Len(c) = dd[DistOf(t)]
        /\ e \in Seq(Binary) /\ Len(e) = SplitDistance(t.distance).extraBits
    BY <1>4, PartsAre
  <2>2. TokenBits(ll, dd, t) = ((a \o b) \o c) \o e
    BY <1>4 DEF TokenBits
  <2>3. CostOf(ll, dd, t) = Len(a) + Len(c) + (Len(b) + Len(e))
    BY <1>1, <1>4, <2>1 DEF CostOf
  <2>4. Len(a) \in Nat /\ Len(a) >= 1
    BY <1>1, <1>2
  <2> HIDE DEF a, b, c, e
  <2>5. a \o b \in Seq(Binary) /\ Len(a \o b) = Len(a) + Len(b)
    BY <1>1, <2>1, BinaryJoins, Zenon
  <2>6. (a \o b) \o c \in Seq(Binary) /\ Len((a \o b) \o c) = Len(a \o b) + Len(c)
    BY <2>1, <2>5, BinaryJoins, Zenon
  <2>7. ((a \o b) \o c) \o e \in Seq(Binary) /\ Len(((a \o b) \o c) \o e) = Len((a \o b) \o c) + Len(e)
    BY <2>1, <2>6, BinaryJoins, Zenon
  <2>8. Len(b) \in Nat /\ Len(c) \in Nat /\ Len(e) \in Nat
    BY <2>1
  <2>9. Len(TokenBits(ll, dd, t)) = Len(a) + Len(b) + Len(c) + Len(e)
    BY <2>2, <2>5, <2>6, <2>7
  <2> QED
    BY <2>2, <2>3, <2>4, <2>7, <2>8, <2>9
<1> QED
  BY <1>3, <1>4

\* The parts are written one after the other.
LEMMA WroteTokenIs ==
    ASSUME litLen \in [DOMAIN litLen -> 0 .. MaxCodeLength], IsTable(litLen), IsTable(dist),
           NEW w, IsWriter(w), NEW t, Codable(litLen, dist, t)
    PROVE  IsWriter(Df!WroteToken(w, t)) /\ Held(Df!WroteToken(w, t)) = Held(w) \o TokenBits(litLen, dist, t)
<1> DEFINE s == LitLenOf(t)
           q == DistOf(t)
           l == SplitLength(t.length)
           d == SplitDistance(t.distance)
           w1 == Wrote(w, CodeValue(litLen, s), litLen[s])
           w2 == Wrote(w1, l.extraValue, l.extraBits)
           w3 == Wrote(w2, CodeValue(dist, q), dist[q])
           w4 == Wrote(w3, d.extraValue, d.extraBits)
           a == Code(litLen, s)
           b == ExtraOf(l)
           c == Code(dist, q)
           e == ExtraOf(d)
<1>1. Df!WroteToken(w, t) = IF IsMatch(t) THEN w4 ELSE w1
  BY DfBits, DfCodes, DfTokens, DfTables
     DEF Df!WroteToken, Df!WroteLitLen, Df!WroteDist, Df!WroteExtra, LitLenOf, DistOf
<1>2. IsWriter(w1) /\ Held(w1) = Held(w) \o a /\ a \in Seq(Binary) /\ Held(w) \in Seq(Binary)
  <2> DEFINE v == CodeValue(litLen, s)
             n == litLen[s]
  <2>1. n \in 0 .. MaxCount /\ v \in Nat /\ a \in Seq(Binary)
    <3>1. n \in 1 .. MaxCodeLength /\ v \in Nat /\ a \in Seq(Binary)
      BY PartsAre
    <3> HIDE DEF n, v, a
    <3> QED
      BY <3>1, SizesAre
  <2>2. a = LowBits(v, n) /\ w1 = Wrote(w, v, n)
    BY DEF Code
  <2> HIDE DEF v, n, a, w1
  <2> QED
    BY <2>1, <2>2, WroteHolds, HeldIs, Zenon
<1>3. CASE ~IsMatch(t)
  BY <1>1, <1>2, <1>3 DEF TokenBits
<1>4. CASE IsMatch(t)
  <2>1. /\ dist[q] \in 1 .. MaxCodeLength /\ CodeValue(dist, q) \in Nat
        /\ l.extraBits \in 0 .. MaxCount /\ l.extraValue \in Nat
        /\ d.extraBits \in 0 .. MaxCount /\ d.extraValue \in Nat
        /\ b \in Seq(Binary) /\ c \in Seq(Binary) /\ e \in Seq(Binary)
    BY <1>4, PartsAre
  <2>2. dist[q] \in 0 .. MaxCount
    <3> DEFINE n == dist[q]
    <3>1. n \in 1 .. MaxCodeLength
      BY <2>1
    <3> HIDE DEF n
    <3>2. n \in 0 .. MaxCount
      BY <3>1, SizesAre
    <3> QED
      BY <3>2 DEF n
  <2> HIDE DEF w1
  <2>3. IsWriter(w2) /\ Held(w2) = Held(w1) \o b
    <3> DEFINE v == l.extraValue
               n == l.extraBits
    <3>1. v \in Nat /\ n \in 0 .. MaxCount /\ w2 = Wrote(w1, v, n) /\ b = LowBits(v, n)
      BY <2>1 DEF ExtraOf
    <3> HIDE DEF v, n, b, w2
    <3> QED
      BY <1>2, <3>1, WroteHolds, Zenon
  <2> HIDE DEF w2
  <2>4. IsWriter(w3) /\ Held(w3) = Held(w2) \o c
    <3> DEFINE v == CodeValue(dist, q)
               n == dist[q]
    <3>1. v \in Nat /\ n \in 0 .. MaxCount /\ w3 = Wrote(w2, v, n) /\ c = LowBits(v, n)
      BY <2>1, <2>2 DEF Code
    <3> HIDE DEF v, n, c, w3
    <3> QED
      BY <2>3, <3>1, WroteHolds, Zenon
  <2> HIDE DEF w3
  <2>5. IsWriter(w4) /\ Held(w4) = Held(w3) \o e
    <3> DEFINE v == d.extraValue
               n == d.extraBits
    <3>1. v \in Nat /\ n \in 0 .. MaxCount /\ w4 = Wrote(w3, v, n) /\ e = LowBits(v, n)
      BY <2>1 DEF ExtraOf
    <3> HIDE DEF v, n, e, w4
    <3> QED
      BY <2>4, <3>1, WroteHolds, Zenon
  <2>6. TokenBits(litLen, dist, t) = ((a \o b) \o c) \o e
    BY <1>4 DEF TokenBits
  <2> HIDE DEF w4, a, b, c, e
  <2> DEFINE h == Held(w)
  <2>7. Held(w4) = ((h \o a) \o b) \o c \o e
    BY <1>2, <2>3, <2>4, <2>5, Zenon
  <2>8. Held(w4) = (((h \o a) \o b) \o c) \o e /\ h \in Seq(Binary)
    BY <1>2, <2>7
  <2> HIDE DEF h
  <2>9. (h \o a) \o b = h \o (a \o b) /\ a \o b \in Seq(Binary)
    BY <1>2, <2>1, <2>8, BinaryJoins, ZenonT(60)
  <2>10. (h \o (a \o b)) \o c = h \o ((a \o b) \o c) /\ (a \o b) \o c \in Seq(Binary)
    BY <2>1, <2>8, <2>9, BinaryJoins, ZenonT(60)
  <2>11. (h \o ((a \o b) \o c)) \o e = h \o (((a \o b) \o c) \o e)
    BY <2>1, <2>8, <2>10, BinaryJoins, ZenonT(60)
  <2>12. Held(w4) = h \o (((a \o b) \o c) \o e)
    <3>1. (((h \o a) \o b) \o c) \o e = h \o (((a \o b) \o c) \o e)
      BY <2>9, <2>10, <2>11, Zenon
    <3> QED
      BY <2>8, <3>1
  <2> QED
    BY <1>1, <1>4, <2>5, <2>6, <2>12 DEF h
<1> QED
  BY <1>3, <1>4

------------------------------------------------------------------------------
\* The invariant of Deflate.

Spelling(ll, dd, toks, n) == FlattenSeq([k \in 1 .. n |-> TokenBits(ll, dd, toks[k])])

LitWord(toks)  == [k \in 1 .. Len(toks) |-> LitLenOf(toks[k])]

DistWord(toks) == [k \in 1 .. Len(toks) |-> DistOf(toks[k])]

\* What buildLengths makes of the symbols that occur.
TablesFor(ll, dd, toks) ==
    /\ ll \in [LitLenCodes -> 0 .. MaxCodeLength] /\ Fits(ll)
    /\ Coded(ll) = {s \in LitLenCodes : Found(LitWord(toks), Len(toks), s) # 0}
    /\ dd \in [DistanceCodes -> 0 .. MaxCodeLength] /\ Fits(dd)
    /\ Coded(dd) = {s \in DistanceCodes : Found(DistWord(toks), Len(toks), s) # 0}

DfChosen ==
    /\ config \in Configs["deflate"] /\ tokens \in Parses["deflate"]
    /\ \A n \in DOMAIN tokens : IsMatch(tokens[n]) =>
          tokens[n].distance < 2 ^ config.windowBits /\ tokens[n].length >= config.minMatch
    /\ original = Covered(tokens)

DfAllowed == config.minMatch = MinMatch /\ config.windowBits \in Windows["deflate"]

DfTabled == TablesFor(litLen, dist, tokens)

DfWriting ==
    IsWriter(writer) /\ i \in 0 .. Len(tokens) /\ Held(writer) = Spelling(litLen, dist, tokens, i)

\* Of a table, the entries up to the last symbol that has a code.
UsedOf(ls) == IF Coded(ls) = {} THEN 0 ELSE Max(Coded(ls)) + 1

StoredOf(ls) == [n \in 1 .. UsedOf(ls) |-> ls[n - 1]]

Header(w, ll, dd) ==
    << w, UsedOf(ll) % 2 ^ ByteBits, UsedOf(ll) \div 2 ^ ByteBits, UsedOf(dd) % 2 ^ ByteBits >>

DfHeld ==
    \E tail \in Seq(Byte) :
        /\ payload = Header(config.windowBits, litLen, dist) \o StoredOf(litLen) \o StoredOf(dist) \o tail
        /\ Carries(Unpacked(tail), Spelling(litLen, dist, tokens, Len(tokens)))
        /\ Len(tail) = BytesFor(Len(Spelling(litLen, dist, tokens, Len(tokens))), ByteBits)

DfHLit  == payload[2] + payload[3] * 2 ^ ByteBits

DfHDist == payload[4]

DfStream == Unpacked(SubSeq(payload, 4 + DfHLit + DfHDist + 1, Len(payload)))

LegalHead ==
    /\ Len(payload) >= 4 /\ payload[1] \in Windows["deflate"]
    /\ DfHLit \in 1 .. FirstLengthSymbol + Len(LengthBase)
    /\ DfHDist <= Len(DistBase)
    /\ Len(payload) >= 4 + DfHLit + DfHDist
    /\ \A n \in 5 .. 4 + DfHLit + DfHDist : payload[n] <= MaxCodeLength

DfReading ==
    /\ LegalHead
    /\ litLen \in [LitLenCodes -> 0 .. MaxCodeLength]
    /\ dist \in [DistanceCodes -> 0 .. MaxCodeLength]
    /\ decoded \in Seq(TokenRecords)
    /\ pos \in 0 .. Len(DfStream) /\ Len(decoded) <= pos
    /\ Covered(decoded) <= original
    /\ WithinReach(decoded, 2 ^ payload[1])

DfPlace == pos = Len(Spelling(litLen, dist, tokens, Len(decoded)))

DfInv ==
    /\ budget \in Nat /\ original \in Nat /\ payload \in Seq(Byte)
    /\ stage \in {"plan", "refused", "write", "stored", "open", "decode", "done", "corrupt"}
    /\ stage \in {"plan", "refused", "write", "stored"} => Encoded
    /\ stage \in {"plan", "refused", "write", "stored", "open"} => decoded = << >> /\ pos = 0
    /\ Encoded => DfChosen /\ stage # "corrupt"
    /\ stage = "plan" => writer = NewWriter /\ i = 0
    /\ stage = "write" => DfAllowed /\ DfTabled /\ DfWriting
    /\ Encoded /\ stage \in {"open", "decode", "done"} =>
          DfAllowed /\ DfTabled /\ DfHeld /\ Begun(decoded, tokens)
    /\ Encoded /\ stage \in {"decode", "done"} => DfPlace
    /\ stage \in {"decode", "done"} => DfReading
    /\ stage = "done" => Covered(decoded) = original

Spellable(ll, dd, toks) ==
    /\ IsTable(ll) /\ IsTable(dd) /\ toks \in Seq(TokenRecords)
    /\ \A k \in 1 .. Len(toks) : Codable(ll, dd, toks[k])

TokenCosts(ll, dd, toks) == [k \in 1 .. Len(toks) |-> CostOf(ll, dd, toks[k])]

\* The bits of the first tokens, one token after the other.
LEMMA SpellingIs ==
    ASSUME NEW ll, NEW dd, NEW toks, Spellable(ll, dd, toks)
    PROVE  /\ Spelling(ll, dd, toks, 0) = << >>
           /\ \A n \in 0 .. Len(toks) :
                 Spelling(ll, dd, toks, n) \in Seq(Binary) /\ Len(Spelling(ll, dd, toks, n)) \in Nat
           /\ \A n \in 1 .. Len(toks) :
                 Spelling(ll, dd, toks, n) = Spelling(ll, dd, toks, n - 1) \o TokenBits(ll, dd, toks[n])
           /\ \A n \in 0 .. Len(toks) :
                 /\ Len(Spelling(ll, dd, toks, n)) = SumUpTo(TokenCosts(ll, dd, toks), n)
                 /\ n <= Len(Spelling(ll, dd, toks, n))
                 /\ Len(Spelling(ll, dd, toks, n)) <= Len(Spelling(ll, dd, toks, Len(toks)))
                 /\ \A k \in 1 .. Len(Spelling(ll, dd, toks, n)) :
                       Spelling(ll, dd, toks, Len(toks))[k] = Spelling(ll, dd, toks, n)[k]
<1> DEFINE L == Len(toks)
           t == [k \in 1 .. L |-> TokenBits(ll, dd, toks[k])]
           C(n) == Spelling(ll, dd, toks, n)
           c == TokenCosts(ll, dd, toks)
<1>1. L \in Nat /\ \A k \in 1 .. L : Codable(ll, dd, toks[k])
  BY DEF Spellable
<1> HIDE DEF L
<1>2. ASSUME NEW k \in 1 .. L
      PROVE  t[k] \in Seq(Binary) /\ t[k] = TokenBits(ll, dd, toks[k]) /\ Len(t[k]) = c[k] /\ c[k] \in Nat /\ c[k] >= 1
  <2> DEFINE u == toks[k]
  <2>1. Codable(ll, dd, u) /\ IsTable(ll) /\ IsTable(dd)
    BY <1>1 DEF Spellable
  <2>2. c[k] = CostOf(ll, dd, u) /\ t[k] = TokenBits(ll, dd, u)
    BY DEF TokenCosts, L
  <2> HIDE DEF u, c, t
  <2>3. TokenBits(ll, dd, u) \in Seq(Binary) /\ Len(TokenBits(ll, dd, u)) = CostOf(ll, dd, u)
        /\ CostOf(ll, dd, u) \in Nat /\ CostOf(ll, dd, u) >= 1
    BY <2>1, TokenBitsAre
  <2> QED
    BY <2>2, <2>3 DEF u
<1>3. ASSUME NEW n \in 0 .. L PROVE C(n) = Flat(t, n)
  <2>1. [k \in 1 .. n |-> TokenBits(ll, dd, toks[k])] = [k \in 1 .. n |-> t[k]]
    <3>1. \A k \in 1 .. n : k \in 1 .. L
      BY <1>1
    <3>2. \A k \in 1 .. n : t[k] = TokenBits(ll, dd, toks[k])
      BY <3>1
    <3> QED
      BY <3>2
  <2> QED
    BY <2>1, Zenon DEF Spelling, Flat, FirstOf
<1> HIDE DEF t, c
<1>4. /\ Flat(t, 0) = << >>
      /\ \A n \in 0 .. L : Flat(t, n) \in Seq(Binary)
      /\ \A n \in 1 .. L : Flat(t, n) = Flat(t, n - 1) \o t[n]
  BY <1>1, <1>2, Flattens, Zenon
<1>5. /\ SumUpTo(c, 0) = 0
      /\ \A n \in 0 .. L : SumUpTo(c, n) \in Nat
      /\ \A n \in 1 .. L : SumUpTo(c, n) = SumUpTo(c, n - 1) + c[n]
  BY <1>1, <1>2, SumIs, Zenon
<1> HIDE DEF C
<1>6. /\ C(0) = << >>
      /\ \A n \in 0 .. L : C(n) \in Seq(Binary)
      /\ \A n \in 1 .. L : C(n) = C(n - 1) \o TokenBits(ll, dd, toks[n])
  <2>1. C(0) = << >>
    BY <1>1, <1>3, <1>4
  <2>2. ASSUME NEW n \in 1 .. L PROVE C(n) = C(n - 1) \o TokenBits(ll, dd, toks[n])
    <3>1. n \in 0 .. L /\ n - 1 \in 0 .. L
      BY <1>1
    <3>2. C(n) = Flat(t, n) /\ C(n - 1) = Flat(t, n - 1)
      BY <1>3, <3>1
    <3> QED
      BY <1>2, <1>4, <3>2, Zenon
  <2>3. \A n \in 0 .. L : C(n) \in Seq(Binary)
    BY <1>3, <1>4
  <2> QED
    BY <2>1, <2>2, <2>3
<1> DEFINE T == {n \in 0 .. L : Len(C(n)) = SumUpTo(c, n) /\ n <= Len(C(n))}
<1>7. 0 \in T
  BY <1>1, <1>5, <1>6
<1>8. ASSUME NEW n \in 0 .. L - 1, n \in T PROVE n + 1 \in T
  <2>1. n + 1 \in 1 .. L /\ (n + 1) - 1 = n /\ n \in 0 .. L /\ n + 1 \in 0 .. L
    BY <1>1
  <2>2. C(n + 1) = C(n) \o t[n + 1] /\ C(n) \in Seq(Binary) /\ t[n + 1] \in Seq(Binary)
    BY <1>2, <1>6, <2>1, Zenon
  <2>3. IsJoin(C(n + 1), C(n), t[n + 1])
    BY <2>2, Joined2, Zenon
  <2>4. Len(C(n + 1)) = Len(C(n)) + c[n + 1] /\ c[n + 1] \in Nat /\ c[n + 1] >= 1
    BY <1>2, <2>1, <2>3 DEF IsJoin
  <2>5. SumUpTo(c, n + 1) = SumUpTo(c, n) + c[n + 1]
    BY <1>5, <2>1
  <2>6. Len(C(n)) = SumUpTo(c, n) /\ n <= Len(C(n)) /\ SumUpTo(c, n) \in Nat
    BY <1>5, <1>8, <2>1
  <2>7. Len(C(n + 1)) = SumUpTo(c, n + 1) /\ n + 1 <= Len(C(n + 1))
    BY <2>4, <2>5, <2>6
  <2> QED
    BY <2>1, <2>7
<1>9. \A n \in 0 .. L : n \in T
  <2> HIDE DEF T
  <2> QED
    BY <1>1, <1>7, <1>8, CountsUp
<1>10. ASSUME NEW n \in 0 .. L
       PROVE  /\ Len(C(n)) <= Len(C(L))
              /\ \A k \in 1 .. Len(C(n)) : C(L)[k] = C(n)[k]
  <2>1. L \in 0 .. L
    BY <1>1
  <2>2. C(n) = Flat(t, n) /\ C(L) = Flat(t, L)
    BY <1>3, <2>1
  <2> QED
    BY <1>1, <1>2, <2>2, FlatGrows
<1>11. \A n \in 0 .. L : Len(C(n)) \in Nat
  BY <1>6
<1>12. \A n \in 0 .. L : Len(C(n)) = SumUpTo(c, n) /\ n <= Len(C(n))
  BY <1>9
<1> QED
  BY <1>6, <1>10, <1>11, <1>12 DEF C, L, c

\* One token more.
LEMMA SpellingNext ==
    ASSUME NEW ll, NEW dd, NEW toks, Spellable(ll, dd, toks), NEW n \in 1 .. Len(toks)
    PROVE  Spelling(ll, dd, toks, n) = Spelling(ll, dd, toks, n - 1) \o TokenBits(ll, dd, toks[n])
<1>1. \A m \in 1 .. Len(toks) :
         Spelling(ll, dd, toks, m) = Spelling(ll, dd, toks, m - 1) \o TokenBits(ll, dd, toks[m])
  BY SpellingIs
<1> QED
  BY <1>1, Zenon

\* What the encoder is given, and what it makes of it.

\* The legal windows are within the reach of the distance codes.
LEMMA WindowsAre ==
    ASSUME NEW w \in Windows["deflate"]
    PROVE  /\ w \in Byte /\ w \in 0 .. 2 * ByteBits
           /\ 2 ^ w \in Nat \ {0} /\ MaxDistance \in Nat /\ 2 ^ w <= MaxDistance
<1> DEFINE T == 2 * ByteBits
           W == Windows["deflate"]
           m == Max(W)
<1>1. W \subseteq Byte \cap (0 .. T) /\ W # {} /\ MaxDistance = 2 ^ m /\ PowersDouble(T)
  BY BlockCodecAssumption, ByteIs
<1>2. T \in Nat /\ ByteBits \in Nat
  BY ByteIs
<1> HIDE DEF T, W
<1>3. m \in W /\ \A k \in W : k <= m
  <2>1. W \subseteq 0 .. T
    BY <1>1
  <2> QED
    BY <1>1, <1>2, <2>1, GreatestElement, Zenon
<1>4. w \in W
  BY DEF W
<1> HIDE DEF m
<1>5. w \in 0 .. T /\ m \in 0 .. T /\ w <= m
  BY <1>1, <1>3, <1>4
<1> DEFINE d == m - w
<1>6. d \in 0 .. T + 1 - w /\ w + d = m /\ d \in 0 .. T + 1 /\ w \in 0 .. T + 1
  BY <1>2, <1>5
<1> HIDE DEF d
<1>7. 2 ^ m = 2 ^ w * 2 ^ d /\ 2 ^ w \in Nat \ {0} /\ 2 ^ d \in Nat \ {0}
  BY <1>1, <1>2, <1>6, PowersOf
<1>8. \A a \in Nat \ {0}, b \in Nat \ {0} : a <= a * b /\ a * b \in Nat
  OBVIOUS
<1>9. 2 ^ w <= 2 ^ m /\ 2 ^ m \in Nat
  BY <1>7, <1>8
<1> QED
  BY <1>1, <1>4, <1>5, <1>7, <1>9 DEF T

\* The tokens that are encoded.
LEMMA ChosenIs ==
    ASSUME DfChosen
    PROVE  /\ tokens \in Seq(TokenRecords) /\ tokens # << >>
           /\ Len(tokens) \in Nat /\ DOMAIN tokens = 1 .. Len(tokens)
           /\ config.windowBits \in 0 .. 2 * ByteBits /\ config.minMatch \in Nat
           /\ original = Covered(tokens) /\ original \in Nat
           /\ \A n \in 1 .. Len(tokens) :
                 /\ tokens[n] \in TokenRecords
                 /\ tokens[n].literal < FirstLengthSymbol - 1
                 /\ tokens[n].length <= MaxMatch
                 /\ tokens[n] = IF IsMatch(tokens[n]) THEN Reference(tokens[n]) ELSE Literal(tokens[n].literal)
                 /\ tokens[n].distance <= CoveredBy(tokens, n - 1)
                 /\ IsMatch(tokens[n]) =>
                       /\ tokens[n].distance < 2 ^ config.windowBits
                       /\ tokens[n].length >= config.minMatch
<1>1. /\ config \in Configs["deflate"] /\ tokens \in Parses["deflate"]
      /\ \A n \in DOMAIN tokens : IsMatch(tokens[n]) =>
            tokens[n].distance < 2 ^ config.windowBits /\ tokens[n].length >= config.minMatch
      /\ original = Covered(tokens)
  BY DEF DfChosen
<1>2. tokens # << >> /\ WellFormed(tokens) /\ WithinReach(tokens, Covered(tokens))
      /\ \A n \in DOMAIN tokens : tokens[n].literal < FirstLengthSymbol - 1 /\ tokens[n].length <= MaxMatch
  BY <1>1, ParsesAssumption
<1>3. tokens \in Seq(TokenRecords)
      /\ \A n \in DOMAIN tokens :
            tokens[n] = IF IsMatch(tokens[n]) THEN Reference(tokens[n]) ELSE Literal(tokens[n].literal)
  BY <1>2 DEF WellFormed, TokenRecords
<1>4. Len(tokens) \in Nat /\ DOMAIN tokens = 1 .. Len(tokens)
  BY <1>3
<1>5. config \in [windowBits : 0 .. 2 * ByteBits, minMatch : Nat]
  BY <1>1, BlockCodecAssumption
<1>6. config.windowBits \in 0 .. 2 * ByteBits /\ config.minMatch \in Nat
  BY <1>5
<1>7. Covered(tokens) \in Nat
  BY <1>3, CoveredIs
<1>8. ASSUME NEW n \in 1 .. Len(tokens)
      PROVE  tokens[n] \in TokenRecords /\ tokens[n].distance <= CoveredBy(tokens, n - 1)
  BY <1>2, <1>3, <1>4 DEF WithinReach
<1> QED
  BY <1>1, <1>2, <1>3, <1>4, <1>6, <1>7, <1>8, Zenon

\* With a configuration that is not refused, all of them have symbols.
LEMMA AllowedIs ==
    ASSUME DfChosen, DfAllowed, NEW n \in 1 .. Len(tokens)
    PROVE  /\ LitLenOf(tokens[n]) \in LitLenCodes
           /\ ~IsMatch(tokens[n]) => LitLenOf(tokens[n]) < FirstLengthSymbol - 1
           /\ IsMatch(tokens[n]) =>
                 /\ LengthSplits(tokens[n].length) /\ DistanceSplits(tokens[n].distance)
                 /\ LitLenOf(tokens[n]) >= FirstLengthSymbol
                 /\ DistOf(tokens[n]) \in DistanceCodes
                 /\ tokens[n].distance <= 2 ^ config.windowBits
           /\ Width(tokens[n]) \in Nat /\ Width(tokens[n]) >= 1
           /\ IsMatch(tokens[n]) \in BOOLEAN
<1> DEFINE t == tokens[n]
<1>1. /\ t \in TokenRecords /\ t.literal < FirstLengthSymbol - 1 /\ t.length <= MaxMatch
      /\ IsMatch(t) => t.distance < 2 ^ config.windowBits /\ t.length >= config.minMatch
  BY ChosenIs
<1>2. config.minMatch = MinMatch /\ config.windowBits \in Windows["deflate"]
  BY DEF DfAllowed
<1> DEFINE w == config.windowBits
<1>3. 2 ^ w \in Nat \ {0} /\ MaxDistance \in Nat /\ 2 ^ w <= MaxDistance
  <2> HIDE DEF w
  <2>1. w \in Windows["deflate"]
    BY <1>2 DEF w
  <2> QED
    BY <2>1, WindowsAre
<1>4. MinMatch \in Nat \ {0}
  BY TablesAssumption DEF MinMatch, AreRanges
<1>5. t.distance \in Nat /\ t.length \in Nat /\ t.literal \in Nat /\ (IsMatch(t) <=> t.distance # 0)
  BY <1>1 DEF TokenRecords, IsMatch
<1> HIDE DEF t, w
<1>0. IsMatch(t) \in BOOLEAN
  BY DEF IsMatch
<1>6. CASE IsMatch(t)
  <2>1. t.distance < 2 ^ w /\ t.length >= MinMatch
    BY <1>1, <1>2, <1>6 DEF w
  <2>2. MaxMatch \in Int
    <3>1. LastLength(Len(LengthBase) - 1) \in Nat /\ Len(LengthBase) \in Nat \ {0}
      <4>1. Len(LengthBase) \in Nat \ {0}
        BY SizesAre
      <4>2. Len(LengthBase) - 1 \in 0 .. Len(LengthBase) - 1
        BY <4>1
      <4> QED
        BY <4>1, <4>2, TablesAssumption, Zenon DEF AreRanges
    <3>2. ~((Len(LengthBase) - 1) + 1 \in LengthCodes)
      BY <3>1, SizesAre
    <3> QED
      BY <3>1, <3>2 DEF LastLength
  <2>3. t.length \in MinMatch .. MaxMatch
    BY <1>1, <1>4, <1>5, <2>1, <2>2
  <2>4. t.distance \in 1 .. MaxDistance
    BY <1>3, <1>5, <1>6, <2>1
  <2>5. LengthSplits(t.length) /\ DistanceSplits(t.distance)
    BY <2>3, <2>4, LengthSplitsIs, DistanceSplitsIs
  <2>6. LitLenOf(t) \in LitLenCodes /\ LitLenOf(t) >= FirstLengthSymbol /\ DistOf(t) \in DistanceCodes
    BY <1>6, <2>5 DEF LitLenOf, DistOf, LengthSplits, DistanceSplits
  <2>7. Width(t) = t.length
    BY <1>6 DEF Width
  <2>8. t.distance <= 2 ^ w
    BY <1>3, <1>5, <2>1
  <2>9. t.length >= 1
    BY <1>4, <1>5, <2>1
  <2> QED
    BY <1>0, <1>5, <1>6, <2>5, <2>6, <2>7, <2>8, <2>9 DEF t, w
<1>7. CASE ~IsMatch(t)
  <2>1. LitLenOf(t) = t.literal /\ Width(t) = 1
    BY <1>7 DEF LitLenOf, Width
  <2>2. t.literal \in LitLenCodes
    BY <1>1, <1>5, SizesAre DEF LitLenCodes
  <2> QED
    BY <1>0, <1>1, <1>5, <1>7, <2>1, <2>2 DEF t
<1> QED
  BY <1>0, <1>6, <1>7 DEF t

\* What a pair of tables made for tokens is.
LEMMA DfTablesAre ==
    ASSUME NEW ll, NEW dd, NEW toks, TablesFor(ll, dd, toks)
    PROVE  /\ IsTable(ll) /\ IsTable(dd) /\ DOMAIN ll = LitLenCodes /\ DOMAIN dd = DistanceCodes
           /\ Coded(ll) \subseteq LitLenCodes /\ Coded(dd) \subseteq DistanceCodes
           /\ Fits(ll) /\ Fits(dd)
           /\ ll \in [LitLenCodes -> 0 .. MaxCodeLength] /\ dd \in [DistanceCodes -> 0 .. MaxCodeLength]
<1>1. /\ ll \in [LitLenCodes -> 0 .. MaxCodeLength] /\ dd \in [DistanceCodes -> 0 .. MaxCodeLength]
      /\ Fits(ll) /\ Fits(dd)
      /\ Coded(ll) \subseteq LitLenCodes /\ Coded(dd) \subseteq DistanceCodes
  BY DEF TablesFor
<1>2. IsTable(ll) /\ IsTable(dd)
  BY <1>1 DEF Fits
<1>3. DOMAIN ll = LitLenCodes /\ DOMAIN dd = DistanceCodes
  BY <1>1
<1> QED
  BY <1>1, <1>2, <1>3

\* With such tables all tokens can be written.
LEMMA TabledIs ==
    ASSUME DfChosen, DfAllowed, NEW ll, NEW dd, TablesFor(ll, dd, tokens)
    PROVE  Spellable(ll, dd, tokens) /\ Coded(ll) # {}
<1> DEFINE L == Len(tokens)
<1>1. L \in Nat /\ tokens \in Seq(TokenRecords) /\ tokens # << >>
  BY ChosenIs
<1>2. L >= 1
  BY <1>1
<1>3. IsTable(ll) /\ IsTable(dd)
  BY DfTablesAre
<1>4. /\ Coded(ll) = {s \in LitLenCodes : Found(LitWord(tokens), L, s) # 0}
      /\ Coded(dd) = {s \in DistanceCodes : Found(DistWord(tokens), L, s) # 0}
  BY DEF TablesFor
<1>5. ASSUME NEW n \in 1 .. L PROVE Codable(ll, dd, tokens[n])
  <2>1. /\ LitLenOf(tokens[n]) \in LitLenCodes
        /\ IsMatch(tokens[n]) =>
              /\ LengthSplits(tokens[n].length) /\ DistanceSplits(tokens[n].distance)
              /\ DistOf(tokens[n]) \in DistanceCodes
    BY AllowedIs
  <2>2. LitWord(tokens)[n] = LitLenOf(tokens[n]) /\ DistWord(tokens)[n] = DistOf(tokens[n])
    BY DEF LitWord, DistWord
  <2>0. \A word : Found(word, L, word[n]) # 0
    <3> HIDE DEF L
    <3>1. \A word, s : Found(word, L, s) # 0 <=> \E k \in 1 .. L : word[k] = s
      BY <1>1, FoundIs
    <3> QED
      BY <3>1
  <2>3. Found(LitWord(tokens), L, LitLenOf(tokens[n])) # 0
    BY <2>0, <2>2
  <2>4. Found(DistWord(tokens), L, DistOf(tokens[n])) # 0
    BY <2>0, <2>2
  <2> QED
    BY <1>4, <2>1, <2>3, <2>4 DEF Codable
<1>6. Coded(ll) # {}
  <2>1. 1 \in 1 .. L
    BY <1>1, <1>2
  <2> QED
    BY <1>5, <2>1 DEF Codable
<1> QED
  BY <1>1, <1>3, <1>5, <1>6 DEF Spellable

\* The header of a payload, and the tables stored after it.

\* The entries that are stored are those up to the last that is not 0.
LEMMA UsedIs ==
    ASSUME NEW N \in Nat, NEW ls \in [0 .. N - 1 -> 0 .. MaxCodeLength]
    PROVE  /\ UsedOf(ls) \in 0 .. N
           /\ \A s \in 0 .. N - 1 : s >= UsedOf(ls) => ls[s] = 0
           /\ Coded(ls) # {} => UsedOf(ls) >= 1
           /\ StoredOf(ls) \in Seq(Byte) /\ Len(StoredOf(ls)) = UsedOf(ls)
           /\ \A n \in 1 .. UsedOf(ls) : StoredOf(ls)[n] = ls[n - 1] /\ ls[n - 1] \in 0 .. MaxCodeLength
<1> DEFINE C == Coded(ls)
           u == UsedOf(ls)
<1>1. C = {s \in 0 .. N - 1 : ls[s] # 0}
  BY DEF Coded
<1> HIDE DEF C
<1>2. u \in 0 .. N /\ (\A s \in 0 .. N - 1 : s >= u => ls[s] = 0) /\ (C # {} => u >= 1)
  <2>1. CASE C = {}
    <3>1. u = 0
      BY <2>1 DEF UsedOf, C
    <3> HIDE DEF u
    <3> QED
      BY <1>1, <2>1, <3>1
  <2>2. CASE C # {}
    <3> DEFINE m == Max(C)
    <3>1. u = m + 1
      BY <2>2 DEF UsedOf, C
    <3>2. C \subseteq 0 .. N
      BY <1>1
    <3>3. m \in C /\ \A s \in C : s <= m
      BY <2>2, <3>2, GreatestElement, Zenon
    <3> HIDE DEF m, u
    <3>4. m \in 0 .. N - 1
      BY <1>1, <3>3
    <3>5. ASSUME NEW s \in 0 .. N - 1, s >= u PROVE ls[s] = 0
      <4>1. s \notin C
        BY <3>1, <3>3, <3>4, <3>5
      <4> QED
        BY <1>1, <4>1
    <3> QED
      BY <3>1, <3>4, <3>5
  <2> QED
    BY <2>1, <2>2
<1> HIDE DEF u
<1>3. ASSUME NEW n \in 1 .. u PROVE ls[n - 1] \in 0 .. MaxCodeLength /\ ls[n - 1] \in Byte
  <2>1. n - 1 \in 0 .. N - 1
    BY <1>2
  <2>2. ls[n - 1] \in 0 .. MaxCodeLength
    BY <2>1
  <2>3. MaxCodeLength \in Byte
    BY BlockCodecAssumption
  <2>4. Byte = 0 .. 2 ^ ByteBits - 1 /\ 2 ^ ByteBits \in Nat
    BY ByteIs
  <2> QED
    BY <2>2, <2>3, <2>4
<1>4. StoredOf(ls) = [n \in 1 .. u |-> ls[n - 1]]
  BY DEF StoredOf, u
<1>5. StoredOf(ls) \in Seq(Byte) /\ Len(StoredOf(ls)) = u
  BY <1>2, <1>3, <1>4
<1>6. \A n \in 1 .. u : StoredOf(ls)[n] = ls[n - 1]
  BY <1>4
<1> QED
  BY <1>2, <1>3, <1>5, <1>6 DEF u, C

\* The header is four bytes, and is read back.
LEMMA HeaderIs ==
    ASSUME NEW ll \in [LitLenCodes -> 0 .. MaxCodeLength], NEW dd \in [DistanceCodes -> 0 .. MaxCodeLength],
           NEW w \in Byte
    PROVE  /\ Header(w, ll, dd) \in Seq(Byte) /\ Len(Header(w, ll, dd)) = 4
           /\ Header(w, ll, dd)[1] = w
           /\ Header(w, ll, dd)[2] + Header(w, ll, dd)[3] * 2 ^ ByteBits = UsedOf(ll)
           /\ Header(w, ll, dd)[4] = UsedOf(dd)
<1> DEFINE B == 2 ^ ByteBits
           N == FirstLengthSymbol + Len(LengthBase)
           u == UsedOf(ll)
           v == UsedOf(dd)
<1>1. B \in Nat \ {0} /\ 2 ^ (2 * ByteBits) = B * B /\ Byte = 0 .. B - 1
  BY ByteIs
<1>2. u \in 0 .. N /\ N \in Nat /\ N < B * B
  <2>1. N \in Nat /\ LitLenCodes = 0 .. N - 1
    BY SizesAre DEF LitLenCodes
  <2>2. N < 2 ^ (2 * ByteBits)
    BY BlockCodecAssumption
  <2> HIDE DEF N, B
  <2>3. u \in 0 .. N
    BY <2>1, UsedIs, Zenon
  <2> QED
    BY <1>1, <2>1, <2>2, <2>3
<1>3. v \in 0 .. B - 1
  <2> DEFINE M == Len(DistBase)
  <2>1. M \in Nat /\ DistanceCodes = 0 .. M - 1
    BY SizesAre
  <2>2. M \in Byte
    BY BlockCodecAssumption
  <2> HIDE DEF M, B
  <2>3. v \in 0 .. M
    BY <2>1, UsedIs, Zenon
  <2> QED
    BY <1>1, <2>1, <2>2, <2>3
<1>4. Header(w, ll, dd) = << w, u % B, u \div B, v % B >>
  BY DEF Header
<1> HIDE DEF B, N, u, v
<1>5. u = B * (u \div B) + (u % B) /\ u \div B \in Nat /\ u % B \in 0 .. B - 1 /\ B * (u \div B) \in Nat
  <2>1. u \in Nat /\ B \in Nat \ {0}
    BY <1>1, <1>2
  <2> QED
    BY <2>1, DividesInto, Zenon
<1>6. u \div B \in 0 .. B - 1
  <2> DEFINE q == u \div B
  <2>1. q \in Nat /\ B * q <= u /\ u < B * B /\ u \in Nat /\ B * q \in Nat
    <3>2. B * B \in Nat
      BY <1>1
    <3> QED
      BY <1>1, <1>2, <1>5, <3>2
  <2> HIDE DEF q
  <2>2. q < B
    <3> SUFFICES ASSUME q >= B PROVE FALSE
      BY <1>1, <2>1
    <3>1. B * B <= q * B /\ q * B = B * q
      BY <1>1, <2>1, Product
    <3> QED
      BY <1>1, <2>1, <3>1
  <2> QED
    BY <1>1, <2>1, <2>2 DEF q
<1>7. v % B = v
  BY <1>1, <1>3
<1>8. (u % B) + (u \div B) * B = u
  <2> DEFINE q == u \div B
             r == u % B
  <2>1. u = B * q + r /\ q \in Nat /\ r \in Nat
    BY <1>1, <1>5
  <2> HIDE DEF q, r
  <2>2. r + q * B = u
    BY <1>1, <2>1
  <2> QED
    BY <2>2 DEF q, r
<1>9. \A a \in Byte, b \in Byte, c \in Byte, d \in Byte :
         /\ << a, b, c, d >> \in Seq(Byte) /\ Len(<< a, b, c, d >>) = 4
         /\ << a, b, c, d >>[1] = a /\ << a, b, c, d >>[2] = b
         /\ << a, b, c, d >>[3] = c /\ << a, b, c, d >>[4] = d
  OBVIOUS
<1>10. u % B \in Byte /\ u \div B \in Byte /\ v % B \in Byte
  BY <1>1, <1>3, <1>5, <1>6, <1>7, Zenon
<1> DEFINE b == u % B
           c == u \div B
           d == v % B
<1>11. b \in Byte /\ c \in Byte /\ d \in Byte /\ d = v /\ b + c * B = u /\ Header(w, ll, dd) = << w, b, c, d >>
  BY <1>4, <1>7, <1>8, <1>10
<1> HIDE DEF b, c, d
<1> QED
  BY <1>9, <1>11 DEF B, u, v

OpenedLit  == [s \in LitLenCodes |-> IF s < DfHLit THEN payload[5 + s] ELSE 0]

OpenedDist == [c \in DistanceCodes |-> IF c < DfHDist THEN payload[5 + DfHLit + c] ELSE 0]

\* The tables of a payload with a legal header.
LEMMA DfOpenedAre ==
    ASSUME payload \in Seq(Byte), LegalHead
    PROVE  /\ OpenedLit \in [LitLenCodes -> 0 .. MaxCodeLength]
           /\ OpenedDist \in [DistanceCodes -> 0 .. MaxCodeLength]
           /\ DfStream \in Seq(Binary)
           /\ payload[1] \in Windows["deflate"]
<1> DEFINE h == DfHLit
           d == DfHDist
<1>1. /\ Len(payload) >= 4 /\ h \in 1 .. FirstLengthSymbol + Len(LengthBase) /\ d <= Len(DistBase)
      /\ Len(payload) >= 4 + h + d /\ \A n \in 5 .. 4 + h + d : payload[n] <= MaxCodeLength
      /\ payload[1] \in Windows["deflate"]
  BY DEF LegalHead
<1>2. Len(payload) \in Nat /\ \A n \in 1 .. Len(payload) : payload[n] \in Nat
  <2>1. Byte \subseteq Nat
    BY ByteIs
  <2>2. Len(payload) \in Nat /\ \A n \in 1 .. Len(payload) : payload[n] \in Byte
    OBVIOUS
  <2> QED
    BY <2>1, <2>2, Zenon
<1>3. d \in Nat /\ h \in Nat
  <2>1. 4 \in 1 .. Len(payload)
    BY <1>1, <1>2
  <2>2. d = payload[4]
    BY DEF DfHDist
  <2> HIDE DEF d, h
  <2>3. FirstLengthSymbol + Len(LengthBase) \in Nat
    BY SizesAre
  <2> QED
    BY <1>1, <1>2, <2>1, <2>2, <2>3
<1>4. OpenedLit = [s \in LitLenCodes |-> IF s < h THEN payload[5 + s] ELSE 0]
      /\ OpenedDist = [c \in DistanceCodes |-> IF c < d THEN payload[5 + h + c] ELSE 0]
      /\ DfStream = Unpacked(SubSeq(payload, 4 + h + d + 1, Len(payload)))
  BY DEF OpenedLit, OpenedDist, DfStream
<1> HIDE DEF h, d
<1>5. ASSUME NEW n \in 5 .. 4 + h + d PROVE payload[n] \in 0 .. MaxCodeLength
  <2>1. n \in 1 .. Len(payload)
    BY <1>1, <1>2, <1>3
  <2> QED
    BY <1>1, <1>2, <2>1, SizesAre
<1>6. 0 \in 0 .. MaxCodeLength
  BY SizesAre
<1>7. ASSUME NEW s \in LitLenCodes PROVE (IF s < h THEN payload[5 + s] ELSE 0) \in 0 .. MaxCodeLength
  <2>1. s \in Nat
    BY SizesAre DEF LitLenCodes
  <2>2. s < h => 5 + s \in 5 .. 4 + h + d
    BY <1>3, <2>1
  <2> QED
    BY <1>5, <1>6, <2>2
<1>8. ASSUME NEW c \in DistanceCodes PROVE (IF c < d THEN payload[5 + h + c] ELSE 0) \in 0 .. MaxCodeLength
  <2>1. c \in Nat
    BY SizesAre
  <2>2. c < d => 5 + h + c \in 5 .. 4 + h + d
    BY <1>3, <2>1
  <2> QED
    BY <1>5, <1>6, <2>2
<1>9. SubSeq(payload, 4 + h + d + 1, Len(payload)) \in Seq(Byte)
  <2> DEFINE a == 4 + h + d + 1
  <2>1. a \in 1 .. Len(payload) + 1
    BY <1>1, <1>2, <1>3
  <2> HIDE DEF a
  <2>2. SubSeq(payload, a, Len(payload)) \in Seq(Byte)
    BY <2>1
  <2> QED
    BY <2>2 DEF a
<1>10. DfStream \in Seq(Binary)
  BY <1>4, <1>9, UnpackedIs, Zenon
<1> QED
  BY <1>1, <1>4, <1>7, <1>8, <1>10

\* A header and tables that were written are read back.
LEMMA HeaderReadBack ==
    ASSUME NEW ll \in [LitLenCodes -> 0 .. MaxCodeLength], NEW dd \in [DistanceCodes -> 0 .. MaxCodeLength],
           Coded(ll) # {}, NEW w \in Windows["deflate"], NEW tail \in Seq(Byte),
           payload = Header(w, ll, dd) \o StoredOf(ll) \o StoredOf(dd) \o tail
    PROVE  /\ LegalHead /\ payload \in Seq(Byte) /\ payload[1] = w
           /\ OpenedLit = ll /\ OpenedDist = dd
           /\ DfStream = Unpacked(tail)
           /\ Len(payload) = 4 + UsedOf(ll) + UsedOf(dd) + Len(tail)
<1> DEFINE H == Header(w, ll, dd)
           A == StoredOf(ll)
           D == StoredOf(dd)
           u == UsedOf(ll)
           v == UsedOf(dd)
           N == FirstLengthSymbol + Len(LengthBase)
           M == Len(DistBase)
<1>1. N \in Nat /\ LitLenCodes = 0 .. N - 1 /\ M \in Nat /\ DistanceCodes = 0 .. M - 1
  BY SizesAre DEF LitLenCodes
<1>2. /\ H \in Seq(Byte) /\ Len(H) = 4 /\ H[1] = w
      /\ H[2] + H[3] * 2 ^ ByteBits = u /\ H[4] = v
  <2>1. w \in Byte
    BY WindowsAre
  <2> QED
    BY <2>1, HeaderIs, ZenonT(60)
<1>0. \A x \in 0 .. MaxCodeLength : x <= MaxCodeLength
  BY SizesAre
<1>3. /\ u \in 0 .. N /\ (\A s \in 0 .. N - 1 : s >= u => ll[s] = 0) /\ u >= 1
      /\ A \in Seq(Byte) /\ Len(A) = u
      /\ \A n \in 1 .. u : A[n] = ll[n - 1] /\ ll[n - 1] \in 0 .. MaxCodeLength
  <2> HIDE DEF N
  <2> QED
    BY <1>1, UsedIs, Zenon
<1>4. /\ v \in 0 .. M /\ (\A s \in 0 .. M - 1 : s >= v => dd[s] = 0)
      /\ D \in Seq(Byte) /\ Len(D) = v
      /\ \A n \in 1 .. v : D[n] = dd[n - 1] /\ dd[n - 1] \in 0 .. MaxCodeLength
  <2> HIDE DEF M
  <2> QED
    BY <1>1, UsedIs, Zenon
<1>5. payload = ((H \o A) \o D) \o tail
  OBVIOUS
<1> HIDE DEF H, A, D, u, v, N, M
<1> DEFINE X == H \o A
           Y == X \o D
<1>6. X \in Seq(Byte) /\ IsJoin(X, H, A)
  BY <1>2, <1>3, Joined2
<1> HIDE DEF X
<1>7. Y \in Seq(Byte) /\ IsJoin(Y, X, D)
  BY <1>4, <1>6, Joined2
<1>8. payload = Y \o tail
  BY <1>5 DEF X
<1> HIDE DEF Y
<1>9. payload \in Seq(Byte) /\ IsJoin(payload, Y, tail)
  BY <1>7, <1>8, Joined2
<1>10. /\ Len(X) = 4 + u /\ Len(Y) = 4 + u + v /\ Len(payload) = 4 + u + v + Len(tail)
       /\ u \in Nat /\ v \in Nat /\ Len(tail) \in Nat
  BY <1>2, <1>3, <1>4, <1>6, <1>7, <1>9 DEF IsJoin
<1>11. ASSUME NEW k \in 1 .. 4 PROVE payload[k] = H[k]
  <2>1. k \in 1 .. Len(H) /\ k \in 1 .. Len(X) /\ k \in 1 .. Len(Y)
    BY <1>2, <1>10
  <2>2. X[k] = H[k]
    BY <1>6, <2>1 DEF IsJoin
  <2>3. Y[k] = X[k]
    BY <1>7, <2>1 DEF IsJoin
  <2>4. payload[k] = Y[k]
    BY <1>9, <2>1, Zenon DEF IsJoin
  <2> QED
    BY <2>2, <2>3, <2>4
<1>12. ASSUME NEW k \in 1 .. u PROVE payload[4 + k] = ll[k - 1] /\ ll[k - 1] \in 0 .. MaxCodeLength
  <2>1. k \in 1 .. Len(A) /\ 4 + k \in 1 .. Len(X) /\ 4 + k \in 1 .. Len(Y)
    BY <1>3, <1>10
  <2>2. X[Len(H) + k] = A[k]
    BY <1>6, <2>1 DEF IsJoin
  <2>3. Y[4 + k] = X[4 + k]
    BY <1>7, <2>1 DEF IsJoin
  <2>4. payload[4 + k] = Y[4 + k]
    BY <1>9, <2>1, Zenon DEF IsJoin
  <2>5. A[k] = ll[k - 1] /\ ll[k - 1] \in 0 .. MaxCodeLength
    BY <1>3
  <2> QED
    BY <1>2, <2>2, <2>3, <2>4, <2>5
<1>13. ASSUME NEW k \in 1 .. v PROVE payload[4 + u + k] = dd[k - 1] /\ dd[k - 1] \in 0 .. MaxCodeLength
  <2>1. k \in 1 .. Len(D) /\ 4 + u + k \in 1 .. Len(Y)
    BY <1>4, <1>10
  <2>2. Y[Len(X) + k] = D[k]
    BY <1>7, <2>1 DEF IsJoin
  <2>3. payload[4 + u + k] = Y[4 + u + k]
    BY <1>9, <2>1, Zenon DEF IsJoin
  <2>4. D[k] = dd[k - 1] /\ dd[k - 1] \in 0 .. MaxCodeLength
    BY <1>4
  <2> QED
    BY <1>10, <2>2, <2>3, <2>4
<1>14. DfHLit = u /\ DfHDist = v /\ payload[1] = w
  <2>0. 1 \in 1 .. 4 /\ 2 \in 1 .. 4 /\ 3 \in 1 .. 4 /\ 4 \in 1 .. 4
    OBVIOUS
  <2>1. payload[1] = H[1] /\ payload[2] = H[2] /\ payload[3] = H[3] /\ payload[4] = H[4]
    BY <1>11, <2>0, Zenon
  <2> QED
    BY <1>2, <2>1 DEF DfHLit, DfHDist
<1>15. LegalHead
  <2>1. ASSUME NEW n \in 5 .. 4 + u + v PROVE payload[n] <= MaxCodeLength
    <3>1. CASE n <= 4 + u
      <4> DEFINE k == n - 4
      <4>1. k \in 1 .. u /\ 4 + k = n
        BY <1>10, <3>1
      <4> HIDE DEF k
      <4>2. payload[n] \in 0 .. MaxCodeLength
        BY <1>12, <4>1, Zenon
      <4> QED
        BY <1>0, <4>2, Zenon
    <3>2. CASE n > 4 + u
      <4> DEFINE k == n - (4 + u)
      <4>1. k \in 1 .. v /\ 4 + u + k = n
        BY <1>10, <3>2
      <4> HIDE DEF k
      <4>2. payload[n] \in 0 .. MaxCodeLength
        BY <1>13, <4>1, Zenon
      <4> QED
        BY <1>0, <4>2, Zenon
    <3>3. n <= 4 + u \/ n > 4 + u
      BY <1>10
    <3> QED
      BY <3>1, <3>2, <3>3, Zenon
  <2>2. u \in 1 .. N /\ v <= M /\ Len(payload) >= 4 /\ Len(payload) >= 4 + u + v
    BY <1>1, <1>3, <1>4, <1>10
  <2> QED
    BY <1>14, <2>1, <2>2, Zenon DEF LegalHead, N, M
<1>16. OpenedLit = ll
  <2>1. OpenedLit = [s \in LitLenCodes |-> IF s < u THEN payload[5 + s] ELSE 0]
    BY <1>14 DEF OpenedLit
  <2>2. ASSUME NEW s \in LitLenCodes PROVE (IF s < u THEN payload[5 + s] ELSE 0) = ll[s]
    <3>1. CASE s < u
      <4> DEFINE k == s + 1
      <4>1. k \in 1 .. u /\ 4 + k = 5 + s /\ k - 1 = s
        BY <1>1, <1>10, <3>1
      <4> HIDE DEF k
      <4>2. payload[4 + k] = ll[k - 1]
        BY <1>12, <4>1, Zenon
      <4> QED
        BY <3>1, <4>1, <4>2, Zenon
    <3>2. CASE ~(s < u)
      <4>1. s >= u /\ s \in 0 .. N - 1
        BY <1>1, <1>10, <3>2
      <4> QED
        BY <1>3, <3>2, <4>1
    <3> QED
      BY <3>1, <3>2, Zenon
  <2> QED
    BY <2>1, <2>2, Zenon
<1>17. OpenedDist = dd
  <2>1. OpenedDist = [c \in DistanceCodes |-> IF c < v THEN payload[5 + u + c] ELSE 0]
    BY <1>14 DEF OpenedDist
  <2>2. ASSUME NEW c \in DistanceCodes PROVE (IF c < v THEN payload[5 + u + c] ELSE 0) = dd[c]
    <3>1. CASE c < v
      <4> DEFINE k == c + 1
      <4>1. k \in 1 .. v /\ 4 + u + k = 5 + u + c /\ k - 1 = c
        BY <1>1, <1>10, <3>1
      <4> HIDE DEF k
      <4>2. payload[4 + u + k] = dd[k - 1]
        BY <1>13, <4>1, Zenon
      <4> QED
        BY <3>1, <4>1, <4>2, Zenon
    <3>2. CASE ~(c < v)
      <4>1. c >= v /\ c \in 0 .. M - 1
        BY <1>1, <1>10, <3>2
      <4> QED
        BY <1>4, <3>2, <4>1
    <3> QED
      BY <3>1, <3>2, Zenon
  <2> QED
    BY <2>1, <2>2, Zenon
<1>18. DfStream = Unpacked(tail)
  <2> DEFINE n == 4 + u + v
  <2>1. DfStream = Unpacked(SubSeq(payload, n + 1, Len(payload)))
    BY <1>14 DEF DfStream
  <2>2. n = Len(Y)
    BY <1>10
  <2> HIDE DEF n
  <2>3. SubSeq(payload, n + 1, Len(payload)) = tail
    BY <1>7, <1>8, <2>2, RestIs
  <2> QED
    BY <2>1, <2>3, Zenon
<1> QED
  BY <1>9, <1>10, <1>14, <1>15, <1>16, <1>17, <1>18 DEF u, v

\* Deflate's names for what is defined here.
LEMMA DfNames ==
    /\ Df!LegalHeader <=> LegalHead
    /\ Df!HLit = DfHLit /\ Df!HDist = DfHDist /\ Df!TableBytes = 4 + DfHLit + DfHDist
    /\ Df!Stream = DfStream
    /\ \A place, n : Df!ValueAt(place, n) = ValueIn(DfStream, place, n)
    /\ \A place : Df!DecodeSymbol(dist, Df!From(place)) = Peek(dist, DfStream, place)
    /\ Df!NextSymbol = Peek(litLen, DfStream, pos)
    /\ \A ls : Df!UsedLength(ls) = UsedOf(ls)
    /\ \A ls : Df!Stored(ls) = StoredOf(ls)
    /\ Df!Encoded <=> Encoded
<1>1. Df!HLit = DfHLit /\ Df!HDist = DfHDist
  BY DEF Df!HLit, DfHLit, Df!HDist, DfHDist
<1>2. Df!TableBytes = 4 + DfHLit + DfHDist
  BY <1>1 DEF Df!TableBytes
<1>3. Df!LegalHeader <=> LegalHead
  BY <1>1, <1>2 DEF Df!LegalHeader, LegalHead
<1>4. Df!Stream = DfStream
  BY <1>2, DfBits DEF Df!Stream, DfStream
<1>5. \A place, n : Df!ValueAt(place, n) = ValueIn(DfStream, place, n)
  BY <1>4, DfBits DEF Df!ValueAt, ValueIn
<1>6. \A place : Df!From(place) = SubSeq(DfStream, place + 1, Len(DfStream))
  BY <1>4 DEF Df!From
<1>7. \A place : Df!DecodeSymbol(dist, Df!From(place)) = Peek(dist, DfStream, place)
  BY <1>6, DfCodes, Zenon DEF Peek
<1>8. Df!NextSymbol = Peek(litLen, DfStream, pos)
  BY <1>6, DfCodes, Zenon DEF Df!NextSymbol, Peek
<1>9. \A ls : Df!UsedLength(ls) = UsedOf(ls)
  BY DfCodes DEF Df!UsedLength, UsedOf
<1>10. \A ls : Df!Stored(ls) = StoredOf(ls)
  BY <1>9 DEF Df!Stored, StoredOf
<1>11. Df!Encoded <=> Encoded
  BY DEF Df!Encoded, Encoded
<1> QED
  BY <1>1, <1>2, <1>3, <1>4, <1>5, <1>7, <1>8, <1>9, <1>10, <1>11

\* What a step leaves alone stays as it is.
LEMMA DfUnchanged ==
    ASSUME UNCHANGED <<payload, tokens, config, litLen, dist>>
    PROVE  /\ UNCHANGED original => (DfChosen <=> DfChosen')
           /\ DfAllowed <=> DfAllowed'
           /\ DfTabled <=> DfTabled'
           /\ DfHeld <=> DfHeld'
           /\ UNCHANGED <<writer, i>> => (DfWriting <=> DfWriting')
           /\ UNCHANGED <<original, decoded, pos>> => (DfReading <=> DfReading')
           /\ UNCHANGED <<decoded, pos>> => (DfPlace <=> DfPlace')
           /\ DfStream = DfStream'
           /\ LegalHead <=> LegalHead'
<1>1. UNCHANGED original => (DfChosen <=> DfChosen')
  BY DEF DfChosen
<1>2. DfAllowed <=> DfAllowed'
  BY DEF DfAllowed
<1>3. DfTabled <=> DfTabled'
  BY DEF DfTabled
<1>4. DfHeld <=> DfHeld'
  BY DEF DfHeld
<1>5. UNCHANGED <<writer, i>> => (DfWriting <=> DfWriting')
  BY DEF DfWriting
<1>6. DfStream = DfStream'
  BY DEF DfStream, DfHLit, DfHDist
<1>7. LegalHead <=> LegalHead'
  BY DEF LegalHead, DfHLit, DfHDist
<1>8. UNCHANGED <<original, decoded, pos>> => (DfReading <=> DfReading')
  BY <1>6, <1>7 DEF DfReading
<1>9. UNCHANGED <<decoded, pos>> => (DfPlace <=> DfPlace')
  BY DEF DfPlace
<1> QED
  BY <1>1, <1>2, <1>3, <1>4, <1>5, <1>6, <1>7, <1>8, <1>9

\* The invariant is kept where nothing of Deflate changes.
LEMMA DfStutters ==
    DfInv /\ UNCHANGED <<shared, dfVars>> => DfInv'
<1> SUFFICES ASSUME DfInv, UNCHANGED <<shared, dfVars>> PROVE DfInv'
  OBVIOUS
<1>0. UNCHANGED <<budget, payload, original, i, decoded, stage, tokens, pos, writer, config, litLen, dist>>
  BY DEF shared, dfVars
<1>1. /\ DfChosen <=> DfChosen'
      /\ DfAllowed <=> DfAllowed'
      /\ DfTabled <=> DfTabled'
      /\ DfHeld <=> DfHeld'
      /\ DfWriting <=> DfWriting'
      /\ DfReading <=> DfReading'
      /\ DfPlace <=> DfPlace'
  BY <1>0, DfUnchanged
<1>2. Begun(decoded, tokens)' = Begun(decoded, tokens)
  BY <1>0
<1> QED
  BY <1>0, <1>1, <1>2 DEF DfInv, Encoded

\* It holds at first.
LEMMA DfStarts == Df!Init => DfInv
<1> SUFFICES ASSUME Df!Init PROVE DfInv
  OBVIOUS
<1>1. decoded = << >> /\ pos = 0 /\ writer = NewWriter /\ i = 0
  BY DfBits DEF Df!Init
<1>2. CASE stage = "plan"
  <2>1. /\ config \in Configs["deflate"] /\ budget \in Budgets["deflate"] /\ payload = << >>
        /\ tokens \in Parses["deflate"] /\ original = Covered(tokens)
        /\ \A n \in DOMAIN tokens : IsMatch(tokens[n]) =>
              tokens[n].distance < 2 ^ config.windowBits /\ tokens[n].length >= config.minMatch
    BY <1>2, DfTokens DEF Df!Init
  <2>2. budget \in Nat \ {0}
    BY <2>1, BlockCodecAssumption DEF Coders
  <2>3. DfChosen
    BY <2>1 DEF DfChosen
  <2>4. payload \in Seq(Byte) /\ original \in Nat
    BY <2>1, <2>3, ChosenIs
  <2> QED
    BY <1>1, <1>2, <2>2, <2>3, <2>4 DEF DfInv, Encoded
<1>3. CASE stage # "plan"
  <2>1. budget = 0 /\ payload \in Foreign["deflate"] /\ original \in Originals["deflate"] /\ stage = "open"
    BY <1>3 DEF Df!Init
  <2>2. payload \in Seq(Byte) /\ original \in Nat
    BY <2>1, BlockCodecAssumption DEF Coders
  <2> QED
    BY <1>1, <2>1, <2>2 DEF DfInv, Encoded
<1> QED
  BY <1>2, <1>3

------------------------------------------------------------------------------

\* Its frequencies are those of the words of symbols.
LEMMA DfFreqs ==
    ASSUME DfChosen
    PROVE  /\ \A s \in LitLenCodes : Df!LitLenFreq[s] = Found(LitWord(tokens), Len(tokens), s)
           /\ \A c \in DistanceCodes : Df!DistFreq[c] = Found(DistWord(tokens), Len(tokens), c)
<1> DEFINE L == Len(tokens)
<1>1. L \in Nat /\ DOMAIN tokens = 1 .. L
  BY ChosenIs
<1>2. \A s \in LitLenCodes : Df!LitLenFreq[s] = Found(LitWord(tokens), L, s)
  <2>1. \A s \in LitLenCodes :
           Df!LitLenFreq[s] = Cardinality({n \in 1 .. L : Df!LitLenSymbol(tokens[n]) = s})
    BY <1>1, DfCodes, SizesAre, Zenon DEF Df!LitLenFreq
  <2>2. \A n \in 1 .. L : LitWord(tokens)[n] = Df!LitLenSymbol(tokens[n])
    BY DfTokens, DfTables DEF LitWord, LitLenOf, Df!LitLenSymbol
  <2>3. \A s : {n \in 1 .. L : Df!LitLenSymbol(tokens[n]) = s} = {n \in 1 .. L : LitWord(tokens)[n] = s}
    BY <2>2
  <2> QED
    BY <2>1, <2>3, Zenon DEF Found
<1>3. \A c \in DistanceCodes : Df!DistFreq[c] = Found(DistWord(tokens), L, c)
  <2>1. \A c \in DistanceCodes :
           Df!DistFreq[c] = Cardinality({n \in 1 .. L :
              IsMatch(tokens[n]) /\ SplitDistance(tokens[n].distance).symbol = c})
    BY <1>1, DfCodes, DfTokens, DfTables, Zenon DEF Df!DistFreq
  <2>2. \A n \in 1 .. L : DistWord(tokens)[n] = DistOf(tokens[n])
    BY DEF DistWord
  <2>3. \A c \in DistanceCodes : c # -1
    BY SizesAre
  <2>4. \A c \in DistanceCodes : \A n \in 1 .. L :
           (IsMatch(tokens[n]) /\ SplitDistance(tokens[n].distance).symbol = c) <=> DistWord(tokens)[n] = c
    BY <2>2, <2>3 DEF DistOf
  <2>5. \A c \in DistanceCodes :
           {n \in 1 .. L : IsMatch(tokens[n]) /\ SplitDistance(tokens[n].distance).symbol = c}
              = {n \in 1 .. L : DistWord(tokens)[n] = c}
    BY <2>4
  <2> QED
    BY <2>1, <2>5, Zenon DEF Found
<1> QED
  BY <1>2, <1>3

\* Encoding.

\* The tables that are planned are made for the tokens.
LEMMA DfPlans == DfInv /\ Df!Plan => DfInv'
<1> SUFFICES ASSUME DfInv, Df!Plan PROVE DfInv'
  OBVIOUS
<1> DEFINE litLens == {s \in LitLenCodes : Df!LitLenFreq[s] # 0}
           dists == {c \in DistanceCodes : Df!DistFreq[c] # 0}
           L == Len(tokens)
<1>1. /\ stage = "plan" /\ stage' = "write"
      /\ config.minMatch = MinMatch /\ config.windowBits <= Max(Windows["deflate"])
      /\ litLen' \in CodeLengths(LitLenCodes, litLens)
      /\ dist' \in CodeLengths(DistanceCodes, dists)
      /\ UNCHANGED <<config, tokens, budget, original, writer, i, payload, pos, decoded>>
  BY DfCodes, DfTables, SizesAre DEF Df!Plan, Df!input
<1>2. DfChosen /\ Encoded /\ budget \in Nat /\ original \in Nat /\ payload \in Seq(Byte)
      /\ decoded = << >> /\ pos = 0 /\ writer = NewWriter /\ i = 0
  BY <1>1 DEF DfInv
<1>3. L \in Nat /\ DOMAIN tokens = 1 .. L
  BY <1>2, ChosenIs
<1>4. DfAllowed
  <2>1. config \in Configs["deflate"]
    BY <1>2 DEF DfChosen
  <2>2. config.windowBits \in Windows["deflate"]
    BY <1>1, <2>1, BlockCodecAssumption
  <2> QED
    BY <1>1, <2>2 DEF DfAllowed
<1>5. litLens = {s \in LitLenCodes : Found(LitWord(tokens), L, s) # 0}
  BY <1>2, DfFreqs
<1>6. dists = {c \in DistanceCodes : Found(DistWord(tokens), L, c) # 0}
  BY <1>2, DfFreqs
<1> HIDE DEF litLens, dists, L
<1>7. \A n \in Int : IsFiniteSet(0 .. n) /\ 0 .. n \subseteq Int
  BY FS_Interval
<1>8. IsFiniteSet(LitLenCodes) /\ LitLenCodes \subseteq Int /\ IsFiniteSet(DistanceCodes) /\ DistanceCodes \subseteq Int
  <2>1. FirstLengthSymbol + Len(LengthBase) - 1 \in Int /\ Len(DistBase) - 1 \in Int
    BY SizesAre
  <2>2. DistanceCodes = 0 .. Len(DistBase) - 1
    BY SizesAre
  <2> QED
    BY <1>7, <2>1, <2>2 DEF LitLenCodes
<1>9. TablesFor(litLen', dist', tokens)
  <2>1. litLen' \in [LitLenCodes -> 0 .. MaxCodeLength] /\ dist' \in [DistanceCodes -> 0 .. MaxCodeLength]
    BY <1>1 DEF CodeLengths
  <2>2. Coded(litLen') = litLens /\ Fits(litLen')
    BY <1>1, <1>8, <2>1, FitsIs, Zenon
  <2>3. Coded(dist') = dists /\ Fits(dist')
    BY <1>1, <1>8, <2>1, FitsIs, Zenon
  <2> QED
    BY <1>5, <1>6, <2>1, <2>2, <2>3 DEF TablesFor, L
<1>10. DfChosen' /\ DfAllowed' /\ DfTabled'
  BY <1>1, <1>2, <1>4, <1>9 DEF DfChosen, DfAllowed, DfTabled
<1>11. DfWriting'
  <2>1. Spellable(litLen', dist', tokens)
    BY <1>2, <1>4, <1>9, TabledIs
  <2>2. Spelling(litLen', dist', tokens, 0) = << >>
    BY <2>1, SpellingIs
  <2>3. IsWriter(NewWriter) /\ Held(NewWriter) = << >>
    BY NewHolds
  <2>4. writer' = NewWriter /\ i' = 0 /\ tokens' = tokens
    BY <1>1, <1>2
  <2>5. 0 \in 0 .. Len(tokens)
    BY <1>3 DEF L
  <2>6. IsWriter(writer') /\ i' \in 0 .. Len(tokens') /\ Held(writer') = Spelling(litLen', dist', tokens', i')
    BY <2>2, <2>3, <2>4, <2>5
  <2> QED
    BY <2>6 DEF DfWriting
<1> QED
  BY <1>1, <1>2, <1>10, <1>11 DEF DfInv, Encoded

\* A step that writes a token.
LEMMA DfWrites == DfInv /\ Df!WriteToken => DfInv'
<1> SUFFICES ASSUME DfInv, Df!WriteToken PROVE DfInv'
  OBVIOUS
<1> DEFINE n == i + 1
           t == tokens[n]
<1>1. /\ stage = "write" /\ stage' = "write" /\ i < Len(tokens)
      /\ writer' = Df!WroteToken(writer, t)
      /\ i' = n
      /\ UNCHANGED <<config, tokens, budget, original, litLen, dist, payload, pos, decoded>>
  BY DEF Df!WriteToken, Df!input
<1>2. DfChosen /\ DfAllowed /\ DfTabled /\ DfWriting /\ Encoded
      /\ budget \in Nat /\ original \in Nat /\ payload \in Seq(Byte) /\ decoded = << >> /\ pos = 0
  BY <1>1 DEF DfInv
<1>3. Spellable(litLen, dist, tokens) /\ Len(tokens) \in Nat
  BY <1>2, TabledIs, ChosenIs DEF DfTabled
<1>4. i \in Nat /\ n \in 1 .. Len(tokens) /\ n \in 0 .. Len(tokens) /\ n - 1 = i
  BY <1>1, <1>2, <1>3 DEF DfWriting
<1> HIDE DEF n
<1>5. Codable(litLen, dist, t)
  BY <1>3, <1>4 DEF Spellable
<1>6. /\ IsTable(litLen) /\ IsTable(dist) /\ litLen \in [DOMAIN litLen -> 0 .. MaxCodeLength]
  BY <1>3 DEF Spellable, IsTable
<1>7. IsWriter(writer') /\ Held(writer') = Spelling(litLen, dist, tokens, i) \o TokenBits(litLen, dist, t)
  <2>1. IsWriter(writer) /\ Held(writer) = Spelling(litLen, dist, tokens, i)
    BY <1>2 DEF DfWriting
  <2> HIDE DEF t
  <2>2. IsWriter(Df!WroteToken(writer, t))
        /\ Held(Df!WroteToken(writer, t)) = Held(writer) \o TokenBits(litLen, dist, t)
    BY <1>5, <1>6, <2>1, WroteTokenIs
  <2> QED
    BY <1>1, <2>1, <2>2
<1>8. Spelling(litLen, dist, tokens, n) = Spelling(litLen, dist, tokens, i) \o TokenBits(litLen, dist, t)
  BY <1>3, <1>4, SpellingNext
<1>9. DfWriting'
  <2>1. IsWriter(writer') /\ i' \in 0 .. Len(tokens') /\ Held(writer') = Spelling(litLen', dist', tokens', i')
    BY <1>1, <1>4, <1>7, <1>8
  <2> QED
    BY <2>1 DEF DfWriting
<1>10. DfChosen' /\ DfAllowed' /\ DfTabled'
  BY <1>1, <1>2, DfUnchanged
<1> QED
  BY <1>1, <1>2, <1>9, <1>10 DEF DfInv, Encoded

\* What a payload that was encoded holds.
LEMMA DfStored ==
    ASSUME DfChosen, DfAllowed, DfTabled, DfHeld
    PROVE  /\ LegalHead /\ payload[1] = config.windowBits
           /\ OpenedLit = litLen /\ OpenedDist = dist
           /\ DfStream \in Seq(Binary)
           /\ Carries(DfStream, Spelling(litLen, dist, tokens, Len(tokens)))
           /\ Len(payload) = 4 + UsedOf(litLen) + UsedOf(dist)
                               + BytesFor(Len(Spelling(litLen, dist, tokens, Len(tokens))), ByteBits)
<1> DEFINE text == Spelling(litLen, dist, tokens, Len(tokens))
           w == config.windowBits
<1>1. PICK tail \in Seq(Byte) :
          /\ payload = Header(w, litLen, dist) \o StoredOf(litLen) \o StoredOf(dist) \o tail
          /\ Carries(Unpacked(tail), text)
          /\ Len(tail) = BytesFor(Len(text), ByteBits)
  BY Zenon DEF DfHeld
<1>2. /\ litLen \in [LitLenCodes -> 0 .. MaxCodeLength] /\ dist \in [DistanceCodes -> 0 .. MaxCodeLength]
      /\ Coded(litLen) # {}
  BY DfTablesAre, TabledIs DEF DfTabled
<1>3. w \in Windows["deflate"]
  BY DEF DfAllowed
<1> HIDE DEF text, w
<1>4. /\ LegalHead /\ payload[1] = w /\ OpenedLit = litLen /\ OpenedDist = dist
      /\ DfStream = Unpacked(tail)
      /\ Len(payload) = 4 + UsedOf(litLen) + UsedOf(dist) + Len(tail)
  BY <1>1, <1>2, <1>3, HeaderReadBack, Zenon
<1>5. Unpacked(tail) \in Seq(Binary)
  BY <1>1 DEF Carries
<1> QED
  BY <1>1, <1>4, <1>5 DEF text, w

\* The payload that is left holds the header, the tables and the tokens.
LEMMA DfEnds == DfInv /\ Df!EndEncode => DfInv'
<1> SUFFICES ASSUME DfInv, Df!EndEncode PROVE DfInv'
  OBVIOUS
<1> DEFINE tail == Flushed(writer)
           text == Spelling(litLen, dist, tokens, Len(tokens))
           w == config.windowBits
           head == Header(w, litLen, dist)
           A == StoredOf(litLen)
           D == StoredOf(dist)
<1>1. /\ stage = "write" /\ stage' = "open" /\ i = Len(tokens)
      /\ payload' = head \o A \o D \o tail
      /\ UNCHANGED <<config, tokens, budget, original, litLen, dist, writer, i, pos, decoded>>
  <2>1. payload' = << config.windowBits, UsedOf(litLen) % 2 ^ ByteBits, UsedOf(litLen) \div 2 ^ ByteBits,
                      UsedOf(dist) % 2 ^ ByteBits >> \o StoredOf(litLen) \o StoredOf(dist) \o Flushed(writer)
    BY DfNames, DfBits, Zenon DEF Df!EndEncode
  <2> QED
    BY <2>1, Zenon DEF Df!EndEncode, Df!input, Header
<1>2. DfChosen /\ DfAllowed /\ DfTabled /\ DfWriting /\ Encoded /\ budget \in Nat /\ original \in Nat
      /\ decoded = << >> /\ pos = 0
  BY <1>1 DEF DfInv
<1>3. /\ litLen \in [LitLenCodes -> 0 .. MaxCodeLength] /\ dist \in [DistanceCodes -> 0 .. MaxCodeLength]
      /\ Coded(litLen) # {} /\ Len(tokens) \in Nat
  BY <1>2, DfTablesAre, TabledIs, ChosenIs DEF DfTabled
<1>4. IsWriter(writer) /\ Held(writer) = text
  BY <1>1, <1>2 DEF DfWriting
<1>5. tail \in Seq(Byte) /\ Len(tail) = BytesFor(Len(text), ByteBits) /\ Carries(Unpacked(tail), text)
  <2>1. /\ tail \in Seq(Byte) /\ Len(tail) = BytesFor(Len(Held(writer)), ByteBits)
        /\ Unpacked(tail) \in Seq(Binary)
        /\ Len(Unpacked(tail)) - Len(Held(writer)) \in 0 .. ByteBits - 1
        /\ \A k \in 1 .. Len(Held(writer)) : Unpacked(tail)[k] = Held(writer)[k]
    BY <1>4, FlushedHolds
  <2> HIDE DEF tail, text
  <2> QED
    BY <1>4, <2>1 DEF Carries
<1>6. head \in Seq(Byte) /\ A \in Seq(Byte) /\ D \in Seq(Byte)
  <2>1. w \in Byte
    BY <1>2, WindowsAre DEF DfAllowed
  <2>2. head \in Seq(Byte)
    <3> HIDE DEF w
    <3> QED
      BY <1>3, <2>1, HeaderIs
  <2>3. A \in Seq(Byte)
    <3> DEFINE N == FirstLengthSymbol + Len(LengthBase)
    <3>1. N \in Nat /\ LitLenCodes = 0 .. N - 1
      BY SizesAre DEF LitLenCodes
    <3> HIDE DEF N
    <3> QED
      BY <1>3, <3>1, UsedIs, Zenon
  <2>4. D \in Seq(Byte)
    <3> DEFINE N == Len(DistBase)
    <3>1. N \in Nat /\ DistanceCodes = 0 .. N - 1
      BY SizesAre
    <3> HIDE DEF N
    <3> QED
      BY <1>3, <3>1, UsedIs, Zenon
  <2> QED
    BY <2>2, <2>3, <2>4
<1>7. DfHeld'
  <2>1. tokens' = tokens /\ litLen' = litLen /\ dist' = dist /\ config' = config
    BY <1>1
  <2>2. \E t \in Seq(Byte) :
          /\ payload' = Header(config'.windowBits, litLen', dist') \o StoredOf(litLen') \o StoredOf(dist') \o t
          /\ Carries(Unpacked(t), Spelling(litLen', dist', tokens', Len(tokens')))
          /\ Len(t) = BytesFor(Len(Spelling(litLen', dist', tokens', Len(tokens'))), ByteBits)
    <3> HIDE DEF tail
    <3> QED
      BY <1>1, <1>5, <2>1, Zenon
  <2> QED
    BY <2>2, Zenon DEF DfHeld
<1> HIDE DEF tail, text, head, A, D, w
<1>8. payload' \in Seq(Byte)
  BY <1>1, <1>5, <1>6
<1>9. DfChosen' /\ DfAllowed' /\ DfTabled'
  BY <1>1, <1>2 DEF DfChosen, DfAllowed, DfTabled
<1>10. Begun(decoded, tokens)'
  <2>1. decoded' = << >> /\ Len(tokens') \in Nat
    BY <1>1, <1>2, <1>3
  <2>2. \A parse : Begun(<< >>, parse) <=> 0 <= Len(parse)
    BY DEF Begun
  <2>3. 0 <= Len(tokens')
    BY <2>1
  <2> QED
    BY <2>1, <2>2, <2>3
<1> QED
  BY <1>1, <1>2, <1>7, <1>8, <1>9, <1>10 DEF DfInv, Encoded

------------------------------------------------------------------------------
\* Decoding.

\* The tables that are read are the ones that were written.
LEMMA DfOpens == DfInv /\ Df!Open => DfInv'
<1> SUFFICES ASSUME DfInv, Df!Open PROVE DfInv'
  OBVIOUS
<1>1. /\ stage = "open" /\ stage' = "decode" /\ LegalHead
      /\ litLen' = OpenedLit /\ dist' = OpenedDist
      /\ UNCHANGED <<config, tokens, budget, original, writer, i, payload, pos, decoded>>
  <2>1. litLen' = OpenedLit
    BY DfNames, SizesAre DEF Df!Open, OpenedLit
  <2>2. dist' = OpenedDist
    BY DfNames, DfTables DEF Df!Open, OpenedDist
  <2> QED
    BY <2>1, <2>2, DfNames DEF Df!Open, Df!input
<1>2. budget \in Nat /\ original \in Nat /\ payload \in Seq(Byte) /\ decoded = << >> /\ pos = 0
  BY <1>1 DEF DfInv
<1>3. /\ OpenedLit \in [LitLenCodes -> 0 .. MaxCodeLength]
      /\ OpenedDist \in [DistanceCodes -> 0 .. MaxCodeLength]
      /\ DfStream \in Seq(Binary)
      /\ payload[1] \in Windows["deflate"]
  BY <1>1, <1>2, DfOpenedAre
<1>4. DfReading'
  <2>1. DfStream' = DfStream /\ LegalHead' = LegalHead
    BY <1>1 DEF DfStream, LegalHead, DfHLit, DfHDist
  <2>2. decoded' = << >> /\ pos' = 0 /\ payload' = payload /\ original' = original
    BY <1>1, <1>2
  <2>3. /\ << >> \in Seq(TokenRecords) /\ Covered(<< >>) = 0 /\ Len(<< >>) = 0
        /\ \A reach : WithinReach(<< >>, reach)
    BY NoTokens
  <2>4. 0 \in 0 .. Len(DfStream)
    BY <1>3
  <2>5. /\ LegalHead'
        /\ litLen' \in [LitLenCodes -> 0 .. MaxCodeLength] /\ dist' \in [DistanceCodes -> 0 .. MaxCodeLength]
        /\ decoded' \in Seq(TokenRecords) /\ WithinReach(decoded', 2 ^ payload'[1])
    BY <1>1, <1>3, <2>1, <2>2, <2>3
  <2>6. pos' \in 0 .. Len(DfStream') /\ Len(decoded') <= pos' /\ Covered(decoded') <= original'
    BY <1>2, <2>1, <2>2, <2>3, <2>4
  <2> QED
    BY <2>5, <2>6 DEF DfReading
<1>5. ASSUME Encoded
      PROVE  DfChosen' /\ DfAllowed' /\ DfTabled' /\ DfHeld' /\ Begun(decoded, tokens)' /\ DfPlace'
  <2>1. DfChosen /\ DfAllowed /\ DfTabled /\ DfHeld /\ Begun(decoded, tokens)
    BY <1>1, <1>5 DEF DfInv
  <2>2. litLen' = litLen /\ dist' = dist
    BY <1>1, <2>1, DfStored
  <2>3. DfChosen' /\ DfAllowed' /\ DfTabled' /\ DfHeld'
    BY <1>1, <2>1, <2>2, DfUnchanged
  <2>4. Begun(decoded, tokens)'
    BY <1>1, <2>1
  <2>5. DfPlace'
    <3>1. Spellable(litLen, dist, tokens)
      BY <2>1, TabledIs DEF DfTabled
    <3>2. Spelling(litLen, dist, tokens, 0) = << >>
      BY <3>1, SpellingIs
    <3>3. pos' = 0 /\ Len(decoded') = 0 /\ tokens' = tokens /\ Len(<< >>) = 0
      BY <1>1, <1>2
    <3>4. pos' = Len(Spelling(litLen', dist', tokens', Len(decoded')))
      BY <2>2, <3>2, <3>3
    <3> QED
      BY <3>4 DEF DfPlace
  <2> QED
    BY <2>3, <2>4, <2>5
<1> QED
  BY <1>1, <1>2, <1>4, <1>5 DEF DfInv, Encoded

Nothing == [distance |-> 0, length |-> 0, used |-> 0]

\* What is read after a length symbol.
DistancePlace(stream, symbol, place) == place + LengthExtraBits(symbol)

CodeIn(dd, stream, symbol, place) == Peek(dd, stream, place + LengthExtraBits(symbol))

AfterCode(dd, stream, symbol, place) ==
    place + LengthExtraBits(symbol) + CodeIn(dd, stream, symbol, place).used

MatchIn(dd, stream, symbol, place) ==
    LET code == CodeIn(dd, stream, symbol, place)
        bits == DistanceExtraBits(code.symbol)
        last == AfterCode(dd, stream, symbol, place)
    IN  IF \/ ValueIn(stream, place, LengthExtraBits(symbol)) = -1
           \/ code = NotACode
           \/ ValueIn(stream, last, bits) = -1
        THEN Nothing
        ELSE [length   |-> LengthStart(symbol) + ValueIn(stream, place, LengthExtraBits(symbol)),
              distance |-> DistanceStart(code.symbol) + ValueIn(stream, last, bits),
              used     |-> LengthExtraBits(symbol) + code.used + bits]

\* It is what MatchAfter of Deflate reads.
LEMMA MatchAfterIs ==
    /\ Df!Corrupt = Nothing
    /\ \A symbol, place : Df!MatchAfter(symbol, place) = MatchIn(dist, DfStream, symbol, place)
<1>1. \A symbol, place : Df!MatchAfter(symbol, place) = MatchIn(dist, DfStream, symbol, place)
  BY DfNames, DfCodes, DfTables
     DEF Df!MatchAfter, MatchIn, CodeIn, AfterCode, Df!Corrupt, Nothing
<1> QED
  BY <1>1 DEF Df!Corrupt, Nothing

\* A symbol that is read is one of the table, and takes bits of the stream.
LEMMA SymbolRead ==
    ASSUME NEW N \in Nat, NEW ls \in [0 .. N - 1 -> 0 .. MaxCodeLength], NEW stream \in Seq(Binary),
           NEW p \in 0 .. Len(stream), Peek(ls, stream, p) # NotACode
    PROVE  /\ Peek(ls, stream, p).symbol \in Coded(ls) /\ Peek(ls, stream, p).symbol \in 0 .. N - 1
           /\ Peek(ls, stream, p).used \in Nat /\ Peek(ls, stream, p).used >= 1
           /\ p + Peek(ls, stream, p).used \in 0 .. Len(stream)
<1>1. DOMAIN ls = 0 .. N - 1 /\ IsFiniteSet(0 .. N - 1) /\ 0 .. N - 1 \subseteq 0 .. N /\ 0 .. N - 1 \subseteq Int
  BY FS_Interval
<1>2. IsTable(ls)
  BY <1>1 DEF IsTable
<1>3. Reading(ls, stream, p, Peek(ls, stream, p))
  BY <1>1, <1>2, ReadsOn, Zenon
<1>4. Coded(ls) \subseteq 0 .. N - 1
  BY <1>1 DEF Coded
<1> QED
  BY <1>3, <1>4 DEF Reading

\* A match that is read takes bits of the stream and stands for bytes.
LEMMA MatchRead ==
    ASSUME NEW dd \in [DistanceCodes -> 0 .. MaxCodeLength], NEW stream \in Seq(Binary),
           NEW symbol \in LitLenCodes, symbol >= FirstLengthSymbol, NEW p \in 0 .. Len(stream),
           MatchIn(dd, stream, symbol, p) # Nothing
    PROVE  /\ MatchIn(dd, stream, symbol, p).length \in Nat
           /\ MatchIn(dd, stream, symbol, p).distance \in Nat \ {0}
           /\ MatchIn(dd, stream, symbol, p).used \in Nat
           /\ p + MatchIn(dd, stream, symbol, p).used \in 0 .. Len(stream)
<1> DEFINE n == LengthExtraBits(symbol)
           code == CodeIn(dd, stream, symbol, p)
           m == DistanceExtraBits(code.symbol)
           q == p + n
           last == AfterCode(dd, stream, symbol, p)
           x == ValueIn(stream, p, n)
           y == ValueIn(stream, last, m)
           a == LengthStart(symbol)
           b == DistanceStart(code.symbol)
           L == Len(stream)
<1>1. /\ x # -1 /\ code # NotACode /\ y # -1
      /\ MatchIn(dd, stream, symbol, p) = [length |-> a + x, distance |-> b + y, used |-> n + code.used + m]
  BY DEF MatchIn
<1>2. n \in Nat /\ a \in Nat \ {0}
  <2>1. LengthPart(symbol) /\ MaxCount \in Nat
    BY LengthPartIs, SizesAre
  <2> QED
    BY <2>1 DEF LengthPart
<1>3. code = Peek(dd, stream, q) /\ last = q + code.used
  BY DEF CodeIn, AfterCode
<1>4. L \in Nat
  OBVIOUS
<1>5. p + n <= L /\ x \in Nat
  <2> HIDE DEF n
  <2> QED
    BY <1>1, <1>2, ValueInIs
<1>6. q \in 0 .. L
  BY <1>2, <1>4, <1>5
<1> HIDE DEF q, last, code, n, a
<1>7. code.symbol \in DistanceCodes /\ code.used \in Nat /\ q + code.used \in 0 .. L
  <2> DEFINE N == Len(DistBase)
  <2>1. N \in Nat /\ DistanceCodes = 0 .. N - 1
    BY SizesAre
  <2> HIDE DEF N
  <2>2. dd \in [0 .. N - 1 -> 0 .. MaxCodeLength]
    BY <2>1
  <2> QED
    BY <1>1, <1>3, <1>6, <2>1, <2>2, SymbolRead, Zenon
<1>8. m \in Nat /\ b \in Nat \ {0}
  <2>1. DistancePart(code.symbol) /\ MaxCount \in Nat
    BY <1>7, DistancePartIs, SizesAre, Zenon
  <2> QED
    BY <2>1 DEF DistancePart
<1> HIDE DEF m, b
<1>9. last + m <= L /\ y \in Nat
  <2>1. last \in 0 .. L
    BY <1>3, <1>7
  <2> QED
    BY <1>1, <1>8, <2>1, ValueInIs
<1> HIDE DEF x, y
<1>10. a + x \in Nat /\ b + y \in Nat \ {0} /\ n + code.used + m \in Nat /\ p + (n + code.used + m) = last + m
  BY <1>2, <1>3, <1>5, <1>7, <1>8, <1>9, SMTT(40) DEF q
<1>11. p + (n + code.used + m) \in 0 .. L
  BY <1>4, <1>9, <1>10
<1> QED
  BY <1>1, <1>10, <1>11

------------------------------------------------------------------------------
\* A step of the decoder keeps what it promises.

\* A literal.
LEMMA DfReadsLiteral ==
    ASSUME DfReading, payload \in Seq(Byte), original \in Nat, Df!ReadLiteral
    PROVE  /\ DfReading'
           /\ decoded' = Append(decoded, Literal(Peek(litLen, DfStream, pos).symbol))
           /\ pos' = pos + Peek(litLen, DfStream, pos).used
           /\ Peek(litLen, DfStream, pos).symbol < FirstLengthSymbol - 1
<1> DEFINE d == Peek(litLen, DfStream, pos)
           N == FirstLengthSymbol + Len(LengthBase)
           t == Literal(d.symbol)
<1>1. /\ d # NotACode /\ d.symbol < FirstLengthSymbol - 1 /\ Covered(decoded) < original
      /\ decoded' = Append(decoded, t) /\ pos' = pos + d.used
      /\ UNCHANGED <<payload, original, litLen, dist>>
  BY DfNames, DfCodes, DfTokens, SizesAre DEF Df!ReadLiteral, Df!input, Df!Unfinished
<1>2. /\ LegalHead /\ litLen \in [LitLenCodes -> 0 .. MaxCodeLength] /\ dist \in [DistanceCodes -> 0 .. MaxCodeLength]
      /\ decoded \in Seq(TokenRecords) /\ pos \in 0 .. Len(DfStream) /\ Len(decoded) <= pos
      /\ WithinReach(decoded, 2 ^ payload[1])
  BY DEF DfReading
<1>3. DfStream \in Seq(Binary) /\ payload[1] \in Windows["deflate"]
  BY <1>2, DfOpenedAre
<1>4. d.symbol \in 0 .. N - 1 /\ d.used \in Nat /\ d.used >= 1 /\ pos + d.used \in 0 .. Len(DfStream)
  <2>1. N \in Nat /\ LitLenCodes = 0 .. N - 1
    BY SizesAre DEF LitLenCodes
  <2> HIDE DEF N
  <2>2. litLen \in [0 .. N - 1 -> 0 .. MaxCodeLength]
    BY <1>2, <2>1
  <2> QED
    BY <1>1, <1>2, <1>3, <2>1, <2>2, SymbolRead, Zenon
<1> HIDE DEF d
<1>5. t \in TokenRecords /\ t.distance = 0 /\ Width(t) = 1
  <2>1. d.symbol \in Nat
    BY <1>4, SizesAre
  <2> QED
    BY <2>1 DEF Literal, TokenRecords, Width, IsMatch
<1>6. Covered(decoded) \in Nat
  BY <1>2, CoveredIs
<1>7. 2 ^ payload[1] \in Nat
  <2> DEFINE w == payload[1]
  <2>1. w \in Windows["deflate"]
    BY <1>3
  <2> HIDE DEF w
  <2>2. 2 ^ w \in Nat
    BY <2>1, WindowsAre
  <2> QED
    BY <2>2 DEF w
<1> HIDE DEF t
<1>8. /\ decoded' \in Seq(TokenRecords) /\ Len(decoded') = Len(decoded) + 1
      /\ Covered(decoded') = Covered(decoded) + 1
      /\ WithinReach(decoded', 2 ^ payload[1])
  <2> DEFINE r == 2 ^ payload[1]
  <2>1. r \in Nat /\ WithinReach(decoded, r) /\ t.distance <= r /\ t.distance <= Covered(decoded)
    BY <1>2, <1>5, <1>6, <1>7
  <2> HIDE DEF r
  <2>2. /\ Append(decoded, t) \in Seq(TokenRecords)
        /\ Len(Append(decoded, t)) = Len(decoded) + 1
        /\ Covered(Append(decoded, t)) = Covered(decoded) + Width(t)
        /\ WithinReach(Append(decoded, t), r)
    BY <1>2, <1>5, <2>1, AppendCovers
  <2> QED
    BY <1>1, <1>5, <2>2 DEF r
<1>9. DfStream' = DfStream /\ LegalHead' = LegalHead
  BY <1>1 DEF DfStream, LegalHead, DfHLit, DfHDist
<1>10. pos' \in 0 .. Len(DfStream) /\ Len(decoded') <= pos' /\ Covered(decoded') <= original
  <2>1. Len(decoded) \in Nat /\ pos \in Nat
    BY <1>2
  <2> QED
    BY <1>1, <1>2, <1>4, <1>6, <1>8, <2>1, SMTT(40)
<1>11. DfReading'
  BY <1>1, <1>2, <1>8, <1>9, <1>10 DEF DfReading
<1> QED
  BY <1>1, <1>11 DEF d, t

\* A legal match.
LEMMA DfReadsMatch ==
    ASSUME DfReading, payload \in Seq(Byte), original \in Nat, Df!ReadMatch
    PROVE  /\ DfReading'
           /\ Peek(litLen, DfStream, pos).symbol >= FirstLengthSymbol
           /\ LET d == Peek(litLen, DfStream, pos)
                  m == MatchIn(dist, DfStream, d.symbol, pos + d.used)
              IN  /\ decoded' = Append(decoded, Reference(m))
                  /\ pos' = pos + d.used + m.used
<1> DEFINE d == Peek(litLen, DfStream, pos)
           N == FirstLengthSymbol + Len(LengthBase)
           m == MatchIn(dist, DfStream, d.symbol, pos + d.used)
           t == Reference(m)
<1>0. Df!NextSymbol = d /\ Df!NextMatch = m
  BY DfNames, MatchAfterIs DEF Df!NextMatch
<1>1. /\ d.symbol > FirstLengthSymbol - 1 /\ Covered(decoded) < original
      /\ m # Nothing /\ m.distance <= Covered(decoded) /\ m.distance <= 2 ^ payload[1]
      /\ Covered(decoded) + m.length <= original
      /\ decoded' = Append(decoded, t) /\ pos' = pos + d.used + m.used
      /\ UNCHANGED <<payload, original, litLen, dist>>
  BY <1>0, DfTokens, SizesAre, MatchAfterIs, Zenon DEF Df!ReadMatch, Df!input, Df!Unfinished, Df!Legal
<1>2. /\ LegalHead /\ litLen \in [LitLenCodes -> 0 .. MaxCodeLength] /\ dist \in [DistanceCodes -> 0 .. MaxCodeLength]
      /\ decoded \in Seq(TokenRecords) /\ pos \in 0 .. Len(DfStream) /\ Len(decoded) <= pos
      /\ WithinReach(decoded, 2 ^ payload[1])
  BY DEF DfReading
<1>3. DfStream \in Seq(Binary) /\ payload[1] \in Windows["deflate"]
  BY <1>2, DfOpenedAre
<1>4. d # NotACode
  BY <1>1, SizesAre DEF NotACode
<1>5. d.symbol \in 0 .. N - 1 /\ d.used \in Nat /\ d.used >= 1 /\ pos + d.used \in 0 .. Len(DfStream)
  <2>1. N \in Nat /\ LitLenCodes = 0 .. N - 1
    BY SizesAre DEF LitLenCodes
  <2> HIDE DEF N
  <2>2. litLen \in [0 .. N - 1 -> 0 .. MaxCodeLength]
    BY <1>2, <2>1
  <2> QED
    BY <1>2, <1>3, <1>4, <2>1, <2>2, SymbolRead, Zenon
<1> HIDE DEF d
<1>6. d.symbol \in LitLenCodes /\ d.symbol >= FirstLengthSymbol
  <2>1. FirstLengthSymbol \in Nat /\ N \in Nat /\ LitLenCodes = 0 .. N - 1
    BY SizesAre DEF LitLenCodes
  <2> HIDE DEF N
  <2>2. d.symbol \in Int /\ d.symbol \in LitLenCodes
    BY <1>5, <2>1
  <2> QED
    BY <1>1, <2>1, <2>2
<1>7. m.length \in Nat /\ m.distance \in Nat \ {0} /\ m.used \in Nat /\ (pos + d.used) + m.used \in 0 .. Len(DfStream)
  <2> DEFINE p == pos + d.used
  <2>1. p \in 0 .. Len(DfStream) /\ m = MatchIn(dist, DfStream, d.symbol, p)
    BY <1>5
  <2> HIDE DEF p, m
  <2>2. m.length \in Nat /\ m.distance \in Nat \ {0} /\ m.used \in Nat /\ p + m.used \in 0 .. Len(DfStream)
    BY <1>1, <1>2, <1>3, <1>6, <2>1, MatchRead, Zenon
  <2> QED
    BY <2>2 DEF p
<1> HIDE DEF m
<1>8. t \in TokenRecords /\ t.distance = m.distance /\ Width(t) = m.length
  BY <1>7 DEF Reference, TokenRecords, Width, IsMatch
<1>9. Covered(decoded) \in Nat
  BY <1>2, CoveredIs
<1>10. 2 ^ payload[1] \in Nat
  <2> DEFINE w == payload[1]
  <2>1. w \in Windows["deflate"]
    BY <1>3
  <2> HIDE DEF w
  <2>2. 2 ^ w \in Nat
    BY <2>1, WindowsAre
  <2> QED
    BY <2>2 DEF w
<1> HIDE DEF t
<1>11. /\ decoded' \in Seq(TokenRecords) /\ Len(decoded') = Len(decoded) + 1
       /\ Covered(decoded') = Covered(decoded) + m.length
       /\ WithinReach(decoded', 2 ^ payload[1])
  <2> DEFINE r == 2 ^ payload[1]
  <2>1. r \in Nat /\ WithinReach(decoded, r) /\ t.distance <= r /\ t.distance <= Covered(decoded)
    BY <1>1, <1>2, <1>8, <1>10
  <2> HIDE DEF r
  <2>2. /\ Append(decoded, t) \in Seq(TokenRecords)
        /\ Len(Append(decoded, t)) = Len(decoded) + 1
        /\ Covered(Append(decoded, t)) = Covered(decoded) + Width(t)
        /\ WithinReach(Append(decoded, t), r)
    BY <1>2, <1>8, <2>1, AppendCovers
  <2> QED
    BY <1>1, <1>8, <2>2 DEF r
<1>12. DfStream' = DfStream /\ LegalHead' = LegalHead
  BY <1>1 DEF DfStream, LegalHead, DfHLit, DfHDist
<1>13. pos' \in 0 .. Len(DfStream) /\ Len(decoded') <= pos' /\ Covered(decoded') <= original
  <2>1. Len(decoded) \in Nat /\ pos \in Nat
    BY <1>2
  <2> QED
    BY <1>1, <1>2, <1>5, <1>7, <1>11, <2>1, SMTT(40)
<1>14. DfReading'
  BY <1>1, <1>2, <1>11, <1>12, <1>13 DEF DfReading
<1> QED
  BY <1>1, <1>6, <1>14 DEF d, m, t

------------------------------------------------------------------------------
\* What was written is read back.

\* There are tokens left as long as there are bytes to cover.
LEMMA DfBegunCovers ==
    ASSUME DfChosen, DfAllowed, decoded \in Seq(TokenRecords), Begun(decoded, tokens)
    PROVE  /\ Covered(decoded) = CoveredBy(tokens, Len(decoded))
           /\ Len(decoded) \in 0 .. Len(tokens)
           /\ Covered(decoded) < original <=> Len(decoded) < Len(tokens)
           /\ \A k \in 1 .. Len(decoded) : decoded[k] = tokens[k]
<1> DEFINE n == Len(decoded)
           L == Len(tokens)
<1>1. tokens \in Seq(TokenRecords) /\ L \in Nat /\ original = Covered(tokens)
  BY ChosenIs
<1>2. n \in 0 .. L /\ n \in Nat /\ \A k \in 1 .. n : decoded[k] = tokens[k]
  BY <1>1 DEF Begun
<1>3. Covered(decoded) = CoveredBy(tokens, n)
  <2>1. \A k \in 0 .. n : CoveredBy(decoded, k) = CoveredBy(tokens, k)
    BY <1>1, <1>2, CoveredAgrees
  <2>2. Covered(decoded) = CoveredBy(decoded, n)
    BY CoveredIs
  <2> QED
    BY <1>2, <2>1, <2>2
<1>4. original = CoveredBy(tokens, L) /\ original \in Nat
  BY <1>1, CoveredIs
<1>5. CASE n < L
  <2> DEFINE q == n + 1
  <2>1. q \in 1 .. L /\ q - 1 = n /\ q \in 0 .. L /\ n \in 0 .. L
    BY <1>1, <1>2, <1>5
  <2> HIDE DEF q, n, L
  <2>2. Width(tokens[q]) \in Nat /\ Width(tokens[q]) >= 1
    BY <2>1, AllowedIs DEF L
  <2>3. CoveredBy(tokens, q) = CoveredBy(tokens, n) + Width(tokens[q]) /\ CoveredBy(tokens, n) \in Nat
        /\ CoveredBy(tokens, q) \in Nat
    BY <1>1, <2>1, CoveredIs DEF L
  <2>4. CoveredBy(tokens, q) <= CoveredBy(tokens, L)
    <3>1. L \in q .. L
      BY <1>1, <2>1
    <3> QED
      BY <1>1, <2>1, <3>1, CoveredGrows DEF L
  <2>5. CoveredBy(tokens, n) < original
    BY <1>4, <2>2, <2>3, <2>4
  <2> QED
    BY <1>2, <1>3, <1>5, <2>5 DEF n, L
<1>6. CASE n = L
  <2>1. Covered(decoded) = original
    BY <1>3, <1>4, <1>6
  <2>2. ~(Covered(decoded) < original)
    BY <1>4, <2>1
  <2> QED
    BY <1>2, <1>3, <1>6, <2>2
<1>7. n < L \/ n = L
  BY <1>1, <1>2
<1> QED
  BY <1>5, <1>6, <1>7

\* Where a literal lies, it is read.
LEMMA LiteralReads ==
    ASSUME NEW ll, Fits(ll), NEW dd, NEW t, Codable(ll, dd, t), ~IsMatch(t),
           NEW stream \in Seq(Binary), NEW p, Lies(stream, p, TokenBits(ll, dd, t))
    PROVE  /\ Peek(ll, stream, p) = [symbol |-> t.literal, used |-> ll[t.literal]]
           /\ Len(TokenBits(ll, dd, t)) = ll[t.literal]
<1>1. LitLenOf(t) = t.literal /\ TokenBits(ll, dd, t) = Code(ll, LitLenOf(t)) /\ LitLenOf(t) \in Coded(ll)
  BY DEF LitLenOf, TokenBits, Codable
<1> QED
  BY <1>1, CodeLies

\* Where a match lies, it is read.
LEMMA MatchReads ==
    ASSUME NEW ll, Fits(ll), NEW dd, Fits(dd), NEW t, Codable(ll, dd, t), IsMatch(t),
           NEW stream \in Seq(Binary), NEW p, Lies(stream, p, TokenBits(ll, dd, t))
    PROVE  /\ Peek(ll, stream, p) = [symbol |-> LitLenOf(t), used |-> ll[LitLenOf(t)]]
           /\ MatchIn(dd, stream, LitLenOf(t), p + ll[LitLenOf(t)])
                 = [length |-> t.length, distance |-> t.distance,
                    used |-> SplitLength(t.length).extraBits + dd[DistOf(t)] + SplitDistance(t.distance).extraBits]
           /\ Len(TokenBits(ll, dd, t))
                 = ll[LitLenOf(t)]
                     + (SplitLength(t.length).extraBits + dd[DistOf(t)] + SplitDistance(t.distance).extraBits)
<1> DEFINE s == LitLenOf(t)
           c == DistOf(t)
           length == SplitLength(t.length)
           distance == SplitDistance(t.distance)
           C == Code(ll, s)
           X == ExtraOf(length)
           D == Code(dd, c)
           Y == ExtraOf(distance)
           u == ll[s]
           v == dd[c]
           n == length.extraBits
           m == distance.extraBits
<1>1. IsTable(ll) /\ IsTable(dd)
  BY DEF Fits
<1>2. /\ C \in Seq(Binary) /\ X \in Seq(Binary) /\ D \in Seq(Binary) /\ Y \in Seq(Binary)
      /\ Len(C) = u /\ Len(X) = n /\ Len(D) = v /\ Len(Y) = m
      /\ u \in Nat /\ v \in Nat /\ n \in 0 .. MaxCount /\ m \in 0 .. MaxCount
  BY <1>1, PartsAre, SizesAre
<1>3. s \in Coded(ll) /\ c \in Coded(dd) /\ LengthSplits(t.length) /\ DistanceSplits(t.distance)
  BY DEF Codable
<1>4. /\ s = length.symbol /\ n = LengthExtraBits(s) /\ length.extraValue \in 0 .. 2 ^ n - 1
      /\ LengthStart(s) + length.extraValue = t.length
  BY <1>3 DEF LengthSplits, LitLenOf
<1>5. /\ c = distance.symbol /\ m = DistanceExtraBits(c) /\ distance.extraValue \in 0 .. 2 ^ m - 1
      /\ DistanceStart(c) + distance.extraValue = t.distance
  BY <1>3 DEF DistanceSplits, DistOf
<1>6. TokenBits(ll, dd, t) = ((C \o X) \o D) \o Y
  BY DEF TokenBits
<1>7. X = LowBits(length.extraValue, n) /\ Y = LowBits(distance.extraValue, m)
  BY DEF ExtraOf
<1>8. c # -1
  <2>1. DistanceSplits(t.distance)
    BY <1>3
  <2>2. c \in DistanceCodes
    BY <1>5, <2>1 DEF DistanceSplits
  <2> HIDE DEF c
  <2> QED
    BY <2>2, SizesAre
<1> DEFINE x == length.extraValue
           y == distance.extraValue
<1>9. n \in 0 .. AccBits /\ m \in 0 .. AccBits
  <2> HIDE DEF n, m
  <2> QED
    BY <1>2, SizesAre, AccIs
<1>10. Lies(stream, p, ((C \o X) \o D) \o Y)
  BY <1>6
<1> HIDE DEF s, c, length, distance, C, X, D, Y, u, v, n, m, x, y
<1>11. /\ C \o X \in Seq(Binary) /\ (C \o X) \o D \in Seq(Binary)
       /\ Len(C \o X) = u + n /\ Len((C \o X) \o D) = u + n + v
       /\ Len(((C \o X) \o D) \o Y) = u + n + v + m
  <2>1. C \o X \in Seq(Binary) /\ Len(C \o X) = u + n
    BY <1>2, BinaryJoins, Zenon
  <2> DEFINE J == C \o X
  <2>2. J \in Seq(Binary) /\ Len(J) = u + n
    BY <2>1
  <2> HIDE DEF J
  <2>3. J \o D \in Seq(Binary) /\ Len(J \o D) = u + n + v
    BY <1>2, <2>2, BinaryJoins, ZenonT(60)
  <2> DEFINE K == J \o D
  <2>4. K \in Seq(Binary) /\ Len(K) = u + n + v
    BY <2>3
  <2> HIDE DEF K
  <2>5. Len(K \o Y) = u + n + v + m
    <3>1. Len(K \o Y) = Len(K) + Len(Y)
      BY <1>2, <2>4, BinaryJoins, Zenon
    <3> QED
      BY <1>2, <2>4, <3>1
  <2> QED
    BY <2>1, <2>3, <2>5 DEF J, K
<1>12. Lies(stream, p, (C \o X) \o D) /\ Lies(stream, p + (u + n + v), Y)
  <2> DEFINE K == (C \o X) \o D
  <2>1. K \in Seq(Binary) /\ Len(K) = u + n + v /\ Lies(stream, p, K \o Y)
    BY <1>10, <1>11
  <2> HIDE DEF K
  <2>2. Lies(stream, p, K) /\ Lies(stream, p + Len(K), Y)
    BY <1>2, <2>1, LiesSplit, Zenon
  <2> QED
    BY <2>1, <2>2 DEF K
<1>13. Lies(stream, p, C \o X) /\ Lies(stream, p + (u + n), D)
  <2> DEFINE J == C \o X
  <2>1. J \in Seq(Binary) /\ Len(J) = u + n /\ Lies(stream, p, J \o D)
    BY <1>11, <1>12
  <2> HIDE DEF J
  <2>2. Lies(stream, p, J) /\ Lies(stream, p + Len(J), D)
    BY <1>2, <2>1, LiesSplit, Zenon
  <2> QED
    BY <2>1, <2>2 DEF J
<1>14. Lies(stream, p, C) /\ Lies(stream, p + u, X)
  <2>1. Lies(stream, p, C) /\ Lies(stream, p + Len(C), X)
    BY <1>2, <1>13, LiesSplit
  <2> QED
    BY <1>2, <2>1
<1>15. Peek(ll, stream, p) = [symbol |-> s, used |-> u]
  BY <1>3, <1>14, CodeLies DEF C, u
<1>16. ValueIn(stream, p + u, n) = x
  <2> DEFINE q == p + u
  <2>1. Lies(stream, q, LowBits(x, n)) /\ x \in 0 .. 2 ^ n - 1
    BY <1>4, <1>7, <1>14 DEF x
  <2> HIDE DEF q
  <2>2. ValueIn(stream, q, n) = x
    BY <1>9, <2>1, BitsLie
  <2> QED
    BY <2>2 DEF q
<1>17. p \in Nat
  BY <1>14 DEF Lies
<1>18. Peek(dd, stream, p + u + n) = [symbol |-> c, used |-> v]
  <2> DEFINE q == p + (u + n)
  <2>1. q = p + u + n /\ Lies(stream, q, Code(dd, c))
    BY <1>2, <1>13, <1>17 DEF D
  <2> HIDE DEF q
  <2>2. Peek(dd, stream, q) = [symbol |-> c, used |-> dd[c]]
    BY <1>3, <2>1, CodeLies
  <2> QED
    BY <2>1, <2>2 DEF v
<1>19. ValueIn(stream, p + u + n + v, m) = y
  <2> DEFINE q == p + (u + n + v)
  <2>1. q = p + u + n + v /\ Lies(stream, q, LowBits(y, m)) /\ y \in 0 .. 2 ^ m - 1
    BY <1>2, <1>5, <1>7, <1>12, <1>17 DEF y
  <2> HIDE DEF q
  <2>2. ValueIn(stream, q, m) = y
    BY <1>9, <2>1, BitsLie
  <2> QED
    BY <2>1, <2>2
<1> DEFINE w == p + u
<1>20. MatchIn(dd, stream, s, w) = [length |-> t.length, distance |-> t.distance, used |-> n + v + m]
  <2>1. LengthExtraBits(s) = n /\ DistanceExtraBits(c) = m
        /\ LengthStart(s) + x = t.length /\ DistanceStart(c) + y = t.distance
    BY <1>4, <1>5 DEF x, y
  <2>2. ValueIn(stream, w, n) = x
    BY <1>16
  <2>3. Peek(dd, stream, w + n) = [symbol |-> c, used |-> v]
    BY <1>18
  <2>4. ValueIn(stream, w + n + v, m) = y
    BY <1>19
  <2>5. x # -1 /\ y # -1
    <3>1. x \in Nat /\ y \in Nat
      BY <1>4, <1>5 DEF x, y
    <3> QED
      BY <3>1
  <2> HIDE DEF w
  <2> DEFINE code == CodeIn(dd, stream, s, w)
  <2>6. code = [symbol |-> c, used |-> v]
    BY <2>1, <2>3 DEF CodeIn
  <2>7. code.symbol = c /\ code.used = v /\ code # NotACode
    BY <1>8, <2>6 DEF NotACode
  <2>8. AfterCode(dd, stream, s, w) = w + n + v
    BY <2>1, <2>7 DEF AfterCode
  <2> HIDE DEF code
  <2>9. MatchIn(dd, stream, s, w)
           = IF \/ ValueIn(stream, w, n) = -1 \/ code = NotACode \/ ValueIn(stream, w + n + v, m) = -1
             THEN Nothing
             ELSE [length   |-> LengthStart(s) + ValueIn(stream, w, n),
                   distance |-> DistanceStart(c) + ValueIn(stream, w + n + v, m),
                   used     |-> n + v + m]
    BY <2>1, <2>7, <2>8 DEF MatchIn, code
  <2> QED
    BY <2>1, <2>2, <2>4, <2>5, <2>7, <2>9
<1>21. Len(TokenBits(ll, dd, t)) = u + (n + v + m)
  BY <1>2, <1>6, <1>11
<1> QED
  BY <1>15, <1>20, <1>21 DEF s, c, u, v, n, m, length, distance

\* Where the decoder is, the next token lies.
LEMMA DfLies ==
    ASSUME DfChosen, DfAllowed, DfTabled, DfHeld, DfPlace,
           decoded \in Seq(TokenRecords), Begun(decoded, tokens), Len(decoded) < Len(tokens)
    PROVE  /\ Len(decoded) + 1 \in 1 .. Len(tokens)
           /\ Codable(litLen, dist, tokens[Len(decoded) + 1])
           /\ DfStream \in Seq(Binary)
           /\ Lies(DfStream, pos, TokenBits(litLen, dist, tokens[Len(decoded) + 1]))
           /\ pos \in Nat
           /\ Len(Spelling(litLen, dist, tokens, Len(decoded) + 1))
                 = pos + Len(TokenBits(litLen, dist, tokens[Len(decoded) + 1]))
<1> DEFINE n == Len(decoded)
           q == n + 1
           L == Len(tokens)
           t == tokens[q]
           all == Spelling(litLen, dist, tokens, L)
           done == Spelling(litLen, dist, tokens, n)
           next == Spelling(litLen, dist, tokens, q)
           bits == TokenBits(litLen, dist, t)
<1>1. Spellable(litLen, dist, tokens) /\ L \in Nat
  BY TabledIs, ChosenIs DEF DfTabled
<1>2. n \in Nat /\ n < L
  OBVIOUS
<1>3. q \in 1 .. L /\ q \in 0 .. L /\ n \in 0 .. L /\ q - 1 = n /\ L \in 0 .. L
  BY <1>1, <1>2
<1>4. DfStream \in Seq(Binary) /\ Carries(DfStream, all)
  BY DfStored
<1>5. pos = Len(done)
  BY DEF DfPlace
<1> HIDE DEF q, n, L
<1>6. Codable(litLen, dist, t) /\ IsTable(litLen) /\ IsTable(dist)
  BY <1>1, <1>3 DEF Spellable, L
<1>7. next = done \o bits
  <2>1. Spelling(litLen, dist, tokens, q) = Spelling(litLen, dist, tokens, q - 1) \o TokenBits(litLen, dist, tokens[q])
    BY <1>1, <1>3, SpellingNext DEF L
  <2> QED
    BY <1>3, <2>1
<1>8. done \in Seq(Binary) /\ next \in Seq(Binary) /\ all \in Seq(Binary)
  <2>1. \A m \in 0 .. L : Spelling(litLen, dist, tokens, m) \in Seq(Binary)
    BY <1>1, SpellingIs DEF L
  <2> QED
    BY <1>3, <2>1
<1>9. Len(next) <= Len(all) /\ \A k \in 1 .. Len(next) : all[k] = next[k]
  BY <1>1, <1>3, SpellingIs DEF L
<1>10. bits \in Seq(Binary)
  <2> HIDE DEF t
  <2> QED
    BY <1>6, TokenBitsAre
<1> HIDE DEF t, all, done, next, bits
<1>11. Lies(DfStream, Len(done), bits)
  <2> DEFINE m == Len(next)
  <2>1. m \in Nat /\ m = Len(done \o bits) /\ m <= Len(all) /\ \A k \in 1 .. m : all[k] = (done \o bits)[k]
    BY <1>7, <1>8, <1>9
  <2> HIDE DEF m
  <2> QED
    BY <1>4, <1>8, <1>10, <2>1, LiesWithin
<1>12. Len(next) = pos + Len(bits) /\ pos \in Nat
  BY <1>5, <1>7, <1>8, <1>10, BinaryJoins
<1> QED
  BY <1>3, <1>4, <1>5, <1>6, <1>11, <1>12 DEF n, q, L, t, bits, next

\* The next step of the decoder reads the next token.
ReadsBackHere ==
    LET t == tokens[Len(decoded) + 1]
        d == Peek(litLen, DfStream, pos)
    IN  /\ d.symbol = LitLenOf(t) /\ LitLenOf(t) \in LitLenCodes /\ d.used \in Nat
        /\ ~IsMatch(t) =>
              /\ LitLenOf(t) = t.literal /\ LitLenOf(t) < FirstLengthSymbol - 1
              /\ pos + d.used = Len(Spelling(litLen, dist, tokens, Len(decoded) + 1))
        /\ IsMatch(t) =>
              LET m == MatchIn(dist, DfStream, d.symbol, pos + d.used)
              IN  /\ LitLenOf(t) >= FirstLengthSymbol
                  /\ m.length = t.length /\ m.distance = t.distance /\ m # Nothing
                  /\ pos + d.used + m.used = Len(Spelling(litLen, dist, tokens, Len(decoded) + 1))

\* So it is read.
LEMMA DfReadsBack ==
    ASSUME DfChosen, DfAllowed, DfTabled, DfHeld, DfPlace,
           decoded \in Seq(TokenRecords), Begun(decoded, tokens), Len(decoded) < Len(tokens)
    PROVE  Len(decoded) + 1 \in 1 .. Len(tokens) /\ ReadsBackHere
<1> DEFINE q == Len(decoded) + 1
           t == tokens[q]
           d == Peek(litLen, DfStream, pos)
           goal == Len(Spelling(litLen, dist, tokens, q))
<1>1. /\ q \in 1 .. Len(tokens) /\ Codable(litLen, dist, t) /\ DfStream \in Seq(Binary)
      /\ Lies(DfStream, pos, TokenBits(litLen, dist, t)) /\ pos \in Nat
      /\ goal = pos + Len(TokenBits(litLen, dist, t))
  BY DfLies
<1>2. Fits(litLen) /\ Fits(dist)
  BY DfTablesAre DEF DfTabled
<1> HIDE DEF goal
<1>3. /\ LitLenOf(t) \in LitLenCodes
      /\ ~IsMatch(t) => LitLenOf(t) < FirstLengthSymbol - 1
      /\ IsMatch(t) => LitLenOf(t) >= FirstLengthSymbol
      /\ IsMatch(t) \in BOOLEAN
  <2> HIDE DEF q
  <2> QED
    BY <1>1, AllowedIs
<1>4. litLen[LitLenOf(t)] \in Nat
  <2> HIDE DEF t
  <2> QED
    BY <1>1, <1>2, PartsAre, SizesAre, SMTT(40) DEF Fits
<1> HIDE DEF t
<1>5. CASE ~IsMatch(t)
  <2>1. d = [symbol |-> t.literal, used |-> litLen[t.literal]]
        /\ Len(TokenBits(litLen, dist, t)) = litLen[t.literal]
    BY <1>1, <1>2, <1>5, LiteralReads
  <2>2. LitLenOf(t) = t.literal
    BY <1>5 DEF LitLenOf
  <2>3. d.symbol = LitLenOf(t) /\ d.used = litLen[LitLenOf(t)]
    BY <2>1, <2>2
  <2>4. pos + d.used = goal
    BY <1>1, <2>1, <2>2, <2>3
  <2> HIDE DEF d
  <2> QED
    BY <1>1, <1>3, <1>4, <1>5, <2>2, <2>3, <2>4 DEF ReadsBackHere, d, t, q, goal
<1>6. CASE IsMatch(t)
  <2> DEFINE u == litLen[LitLenOf(t)]
             e == SplitLength(t.length).extraBits + dist[DistOf(t)] + SplitDistance(t.distance).extraBits
             m == MatchIn(dist, DfStream, LitLenOf(t), pos + u)
  <2>1. /\ d = [symbol |-> LitLenOf(t), used |-> u]
        /\ m = [length |-> t.length, distance |-> t.distance, used |-> e]
        /\ Len(TokenBits(litLen, dist, t)) = u + e
    BY <1>1, <1>2, <1>6, MatchReads
  <2>2. e \in Nat
    <3>1. IsTable(litLen) /\ IsTable(dist)
      BY <1>2 DEF Fits
    <3>2. /\ dist[DistOf(t)] \in 1 .. MaxCodeLength
          /\ SplitLength(t.length).extraBits \in 0 .. MaxCount /\ SplitDistance(t.distance).extraBits \in 0 .. MaxCount
      BY <1>1, <1>6, <3>1, PartsAre
    <3> QED
      BY <3>2
  <2> HIDE DEF u, e, m
  <2>3. d.symbol = LitLenOf(t) /\ d.used = u /\ m.length = t.length /\ m.distance = t.distance /\ m.used = e
    BY <2>1
  <2>4. m # Nothing
    <3>1. t.distance # 0
      BY <1>6 DEF IsMatch
    <3>2. Nothing.distance = 0
      BY DEF Nothing
    <3> QED
      BY <2>3, <3>1, <3>2
  <2>5. (pos + u) + e = goal
    BY <1>1, <1>4, <2>1, <2>2 DEF u
  <2>6. pos + d.used + m.used = goal
    BY <2>3, <2>5
  <2>7. m = MatchIn(dist, DfStream, d.symbol, pos + d.used)
    BY <2>3 DEF m
  <2>8. u \in Nat
    BY <1>4 DEF u
  <2> HIDE DEF d
  <2>9. LET mm == MatchIn(dist, DfStream, d.symbol, pos + d.used)
        IN  /\ LitLenOf(t) >= FirstLengthSymbol
            /\ mm.length = t.length /\ mm.distance = t.distance /\ mm # Nothing
            /\ pos + d.used + mm.used = goal
    BY <1>3, <1>6, <2>3, <2>4, <2>6, <2>7
  <2>10. d.symbol = LitLenOf(t) /\ LitLenOf(t) \in LitLenCodes /\ d.used \in Nat
    BY <1>3, <2>3, <2>8
  <2> QED
    BY <1>1, <1>6, <2>9, <2>10 DEF ReadsBackHere, d, t, q, goal
<1> QED
  BY <1>3, <1>5, <1>6

\* A token that was written is appended to those that are read back.
LEMMA DfAppends ==
    ASSUME DfChosen, DfAllowed, DfTabled, DfHeld, decoded \in Seq(TokenRecords), Begun(decoded, tokens),
           Len(decoded) + 1 \in 1 .. Len(tokens),
           decoded' = Append(decoded, tokens[Len(decoded) + 1]),
           pos' = Len(Spelling(litLen, dist, tokens, Len(decoded) + 1)),
           UNCHANGED <<payload, tokens, config, litLen, dist, original>>
    PROVE  DfChosen' /\ DfAllowed' /\ DfTabled' /\ DfHeld' /\ Begun(decoded, tokens)' /\ DfPlace'
<1> DEFINE n == Len(decoded)
           t == tokens[n + 1]
<1>1. DfChosen' /\ DfAllowed' /\ DfTabled' /\ DfHeld'
  BY DfUnchanged
<1>2. /\ Len(decoded') = n + 1 /\ decoded'[n + 1] = t
      /\ \A k \in 1 .. n : decoded'[k] = decoded[k]
  <2>1. \A x : Len(Append(decoded, x)) = n + 1 /\ Append(decoded, x)[n + 1] = x
           /\ \A k \in 1 .. n : Append(decoded, x)[k] = decoded[k]
    OBVIOUS
  <2> HIDE DEF n
  <2> QED
    BY <2>1 DEF n
<1>3. n \in Nat /\ n + 1 <= Len(tokens) /\ \A k \in 1 .. n : decoded[k] = tokens[k]
  <2>1. Len(tokens) \in Nat
    BY ChosenIs
  <2> QED
    BY <2>1 DEF Begun
<1>4. Begun(decoded', tokens)
  <2>1. ASSUME NEW k \in 1 .. Len(decoded') PROVE decoded'[k] = tokens[k]
    <3>1. k \in 1 .. n \/ k = n + 1
      BY <1>2, <1>3
    <3> QED
      BY <1>2, <1>3, <3>1
  <2> QED
    BY <1>2, <1>3, <2>1 DEF Begun
<1>5. Begun(decoded, tokens)' = Begun(decoded', tokens)
  BY DEF Begun
<1>6. DfPlace'
  <2>1. pos' = Len(Spelling(litLen', dist', tokens', Len(decoded')))
    BY <1>2
  <2> QED
    BY <2>1 DEF DfPlace
<1> QED
  BY <1>1, <1>4, <1>5, <1>6

\* A match that was written is legal where it is read back.
LEMMA DfLegal ==
    ASSUME DfChosen, DfAllowed, DfTabled, DfHeld, decoded \in Seq(TokenRecords), Begun(decoded, tokens),
           Len(decoded) + 1 \in 1 .. Len(tokens), NEW t, t = tokens[Len(decoded) + 1], IsMatch(t)
    PROVE  /\ t.distance <= Covered(decoded) /\ t.distance <= 2 ^ payload[1]
           /\ Covered(decoded) + t.length <= original
<1> DEFINE q == Len(decoded) + 1
           L == Len(tokens)
<1>1. tokens \in Seq(TokenRecords) /\ L \in Nat /\ original = Covered(tokens)
  BY ChosenIs
<1>2. q \in 1 .. L /\ q \in 0 .. L /\ q - 1 = Len(decoded) /\ L \in q .. L
  BY <1>1
<1>3. Covered(decoded) = CoveredBy(tokens, Len(decoded))
  BY DfBegunCovers
<1>4. payload[1] = config.windowBits
  BY DfStored
<1> HIDE DEF q, L
<1>5. t = tokens[q]
  BY DEF q
<1>6. t.distance <= CoveredBy(tokens, q - 1)
  BY <1>2, <1>5, ChosenIs DEF L
<1>7. t.distance <= 2 ^ config.windowBits
  BY <1>2, <1>5, AllowedIs DEF L
<1>8. CoveredBy(tokens, q) = CoveredBy(tokens, q - 1) + Width(t)
  BY <1>1, <1>2, <1>5, CoveredIs DEF L
<1>9. CoveredBy(tokens, q) <= CoveredBy(tokens, L) /\ Covered(tokens) = CoveredBy(tokens, L)
  <2>1. CoveredBy(tokens, q) <= CoveredBy(tokens, L)
    BY <1>1, <1>2, CoveredGrows DEF L
  <2>2. Covered(tokens) = CoveredBy(tokens, L)
    BY <1>1, CoveredIs DEF L
  <2> QED
    BY <2>1, <2>2
<1>10. Width(t) = t.length
  BY DEF Width
<1> QED
  BY <1>1, <1>2, <1>3, <1>4, <1>6, <1>7, <1>8, <1>9, <1>10

\* A literal read is the one that was written.
LEMMA DfReadsLiteralBack == DfInv /\ Df!ReadLiteral => DfInv'
<1> SUFFICES ASSUME DfInv, Df!ReadLiteral PROVE DfInv'
  OBVIOUS
<1>1. /\ stage = "decode" /\ stage' = "decode" /\ Covered(decoded) < original
      /\ UNCHANGED <<config, tokens, budget, original, litLen, dist, writer, i, payload>>
  BY DfTokens DEF Df!ReadLiteral, Df!input, Df!Unfinished
<1>2. budget \in Nat /\ original \in Nat /\ payload \in Seq(Byte) /\ DfReading
  BY <1>1 DEF DfInv
<1> DEFINE d == Peek(litLen, DfStream, pos)
<1>3. DfReading' /\ decoded' = Append(decoded, Literal(d.symbol)) /\ pos' = pos + d.used
      /\ d.symbol < FirstLengthSymbol - 1
  BY <1>2, DfReadsLiteral
<1>4. ASSUME Encoded
      PROVE  DfChosen' /\ DfAllowed' /\ DfTabled' /\ DfHeld' /\ Begun(decoded, tokens)' /\ DfPlace'
  <2>1. DfChosen /\ DfAllowed /\ DfTabled /\ DfHeld /\ Begun(decoded, tokens) /\ DfPlace
    BY <1>1, <1>4 DEF DfInv
  <2>2. decoded \in Seq(TokenRecords)
    BY <1>2 DEF DfReading
  <2>3. Len(decoded) < Len(tokens)
    BY <1>1, <2>1, <2>2, DfBegunCovers
  <2>4. Len(decoded) + 1 \in 1 .. Len(tokens) /\ ReadsBackHere
    BY <2>1, <2>2, <2>3, DfReadsBack
  <2> DEFINE t == tokens[Len(decoded) + 1]
  <2> HIDE DEF d
  <2>5. /\ d.symbol = LitLenOf(t)
        /\ ~IsMatch(t) => LitLenOf(t) = t.literal
              /\ pos + d.used = Len(Spelling(litLen, dist, tokens, Len(decoded) + 1))
        /\ IsMatch(t) => LitLenOf(t) >= FirstLengthSymbol
    BY <2>4 DEF ReadsBackHere, d
  <2>6. ~IsMatch(t)
    <3>1. FirstLengthSymbol \in Nat /\ LitLenOf(t) \in LitLenCodes /\ LitLenCodes \subseteq Int
      <4>1. LitLenOf(t) \in LitLenCodes
        BY <2>4 DEF ReadsBackHere
      <4> HIDE DEF t
      <4> QED
        BY <4>1, SizesAre DEF LitLenCodes
    <3> DEFINE s == d.symbol
               u == LitLenOf(t)
               F == FirstLengthSymbol
    <3>2. s < F - 1
      BY <1>3
    <3>3. s = u
      BY <2>5
    <3>4. IsMatch(t) => u >= F
      BY <2>5
    <3>5. u \in Int /\ F \in Int
      <4>1. u \in LitLenCodes /\ LitLenCodes \subseteq Int /\ F \in Nat
        BY <3>1
      <4> HIDE DEF u, F
      <4> QED
        BY <4>1
    <3> HIDE DEF s, u, F, t
    <3>6. ~(u >= F)
      BY <3>2, <3>3, <3>5
    <3> QED
      BY <3>4, <3>6
  <2>7. t = Literal(t.literal)
    <3> DEFINE q == Len(decoded) + 1
    <3>1. q \in 1 .. Len(tokens) /\ t = tokens[q]
      BY <2>4
    <3> HIDE DEF q, t
    <3> QED
      BY <2>1, <2>6, <3>1, ChosenIs
  <2>8. decoded' = Append(decoded, t) /\ pos' = Len(Spelling(litLen, dist, tokens, Len(decoded) + 1))
    BY <1>3, <2>5, <2>6, <2>7
  <2> QED
    BY <1>1, <2>1, <2>2, <2>4, <2>8, DfAppends
<1> QED
  BY <1>1, <1>2, <1>3, <1>4 DEF DfInv, Encoded

\* A match read is the one that was written.
LEMMA DfReadsMatchBack == DfInv /\ Df!ReadMatch => DfInv'
<1> SUFFICES ASSUME DfInv, Df!ReadMatch PROVE DfInv'
  OBVIOUS
<1>1. /\ stage = "decode" /\ stage' = "decode" /\ Covered(decoded) < original
      /\ UNCHANGED <<config, tokens, budget, original, litLen, dist, writer, i, payload>>
  BY DfTokens DEF Df!ReadMatch, Df!input, Df!Unfinished
<1>2. budget \in Nat /\ original \in Nat /\ payload \in Seq(Byte) /\ DfReading
  BY <1>1 DEF DfInv
<1> DEFINE d == Peek(litLen, DfStream, pos)
           m == MatchIn(dist, DfStream, d.symbol, pos + d.used)
<1>3. DfReading' /\ decoded' = Append(decoded, Reference(m)) /\ pos' = pos + d.used + m.used
      /\ d.symbol >= FirstLengthSymbol
  BY <1>2, DfReadsMatch
<1>4. ASSUME Encoded
      PROVE  DfChosen' /\ DfAllowed' /\ DfTabled' /\ DfHeld' /\ Begun(decoded, tokens)' /\ DfPlace'
  <2>1. DfChosen /\ DfAllowed /\ DfTabled /\ DfHeld /\ Begun(decoded, tokens) /\ DfPlace
    BY <1>1, <1>4 DEF DfInv
  <2>2. decoded \in Seq(TokenRecords)
    BY <1>2 DEF DfReading
  <2>3. Len(decoded) < Len(tokens)
    BY <1>1, <2>1, <2>2, DfBegunCovers
  <2>4. Len(decoded) + 1 \in 1 .. Len(tokens) /\ ReadsBackHere
    BY <2>1, <2>2, <2>3, DfReadsBack
  <2> DEFINE t == tokens[Len(decoded) + 1]
  <2>5. /\ d.symbol = LitLenOf(t) /\ LitLenOf(t) \in LitLenCodes
        /\ ~IsMatch(t) => LitLenOf(t) < FirstLengthSymbol - 1
        /\ IsMatch(t) =>
              /\ m.length = t.length /\ m.distance = t.distance
              /\ pos + d.used + m.used = Len(Spelling(litLen, dist, tokens, Len(decoded) + 1))
    BY <2>4 DEF ReadsBackHere
  <2> HIDE DEF d, m
  <2>6. IsMatch(t)
    <3>1. FirstLengthSymbol \in Nat /\ LitLenCodes \subseteq Int
      BY SizesAre DEF LitLenCodes
    <3> DEFINE s == d.symbol
               u == LitLenOf(t)
               F == FirstLengthSymbol
    <3>2. s >= F
      BY <1>3
    <3>3. s = u
      BY <2>5
    <3>4. ~IsMatch(t) => u < F - 1
      BY <2>5
    <3>5. u \in Int /\ F \in Int
      <4>1. u \in LitLenCodes /\ LitLenCodes \subseteq Int /\ F \in Nat
        BY <2>5, <3>1
      <4> HIDE DEF u, F
      <4> QED
        BY <4>1
    <3> HIDE DEF s, u, F, t
    <3>6. ~(u < F - 1)
      BY <3>2, <3>3, <3>5
    <3> QED
      BY <3>4, <3>6
  <2>7. t = Reference(t)
    <3> DEFINE q == Len(decoded) + 1
    <3>1. q \in 1 .. Len(tokens) /\ t = tokens[q]
      BY <2>4
    <3> HIDE DEF q, t
    <3> QED
      BY <2>1, <2>6, <3>1, ChosenIs
  <2>8. Reference(t) = Reference(m)
    BY <2>5, <2>6 DEF Reference
  <2>9. decoded' = Append(decoded, t) /\ pos' = Len(Spelling(litLen, dist, tokens, Len(decoded) + 1))
    BY <1>3, <2>5, <2>6, <2>7, <2>8
  <2> QED
    BY <1>1, <2>1, <2>2, <2>4, <2>9, DfAppends
<1> QED
  BY <1>1, <1>2, <1>3, <1>4 DEF DfInv, Encoded

\* Nothing that was written is refused.
LEMMA DfFails == DfInv /\ Df!ReadFails => DfInv'
<1> SUFFICES ASSUME DfInv, Df!ReadFails PROVE DfInv'
  OBVIOUS
<1> DEFINE d == Peek(litLen, DfStream, pos)
           m == MatchIn(dist, DfStream, d.symbol, pos + d.used)
<1>1. /\ stage = "decode" /\ stage' = "corrupt" /\ Covered(decoded) < original
      /\ d.symbol \in {-1, FirstLengthSymbol - 1} \/ (d.symbol > FirstLengthSymbol - 1 /\ ~Df!Legal(m))
      /\ UNCHANGED <<config, tokens, budget, original, litLen, dist, writer, i, payload, pos, decoded>>
  BY DfNames, DfTokens, MatchAfterIs, SizesAre DEF Df!ReadFails, Df!input, Df!Unfinished, Df!NextMatch
<1>2. budget \in Nat /\ original \in Nat /\ payload \in Seq(Byte) /\ DfReading
  BY <1>1 DEF DfInv
<1>3. ~Encoded
  <2> SUFFICES ASSUME Encoded PROVE FALSE
    OBVIOUS
  <2>1. DfChosen /\ DfAllowed /\ DfTabled /\ DfHeld /\ Begun(decoded, tokens) /\ DfPlace
    BY <1>1 DEF DfInv
  <2>2. decoded \in Seq(TokenRecords)
    BY <1>2 DEF DfReading
  <2>3. Len(decoded) < Len(tokens)
    BY <1>1, <2>1, <2>2, DfBegunCovers
  <2>4. Len(decoded) + 1 \in 1 .. Len(tokens) /\ ReadsBackHere
    BY <2>1, <2>2, <2>3, DfReadsBack
  <2> DEFINE t == tokens[Len(decoded) + 1]
  <2>5. /\ d.symbol = LitLenOf(t) /\ LitLenOf(t) \in LitLenCodes
        /\ ~IsMatch(t) => LitLenOf(t) < FirstLengthSymbol - 1
        /\ IsMatch(t) =>
              /\ LitLenOf(t) >= FirstLengthSymbol
              /\ m.length = t.length /\ m.distance = t.distance /\ m # Nothing
    BY <2>4 DEF ReadsBackHere
  <2>6. IsMatch(t) =>
           /\ t.distance <= Covered(decoded) /\ t.distance <= 2 ^ payload[1]
           /\ Covered(decoded) + t.length <= original
    BY <2>1, <2>2, <2>4, DfLegal
  <2> HIDE DEF d, m, t
  <2>7. IsMatch(t) => Df!Legal(m)
    BY <2>5, <2>6, DfTokens, MatchAfterIs DEF Df!Legal
  <2>8. FirstLengthSymbol \in Nat \ {0} /\ LitLenCodes \subseteq Nat
    BY SizesAre DEF LitLenCodes
  <2> DEFINE s == d.symbol
             u == LitLenOf(t)
             F == FirstLengthSymbol
  <2>9. u \in Nat /\ F \in Nat \ {0} /\ s = u
    BY <2>5, <2>8, Zenon
  <2>10. s \in {-1, F - 1} \/ (s > F - 1 /\ ~Df!Legal(m))
    BY <1>1
  <2>11. ~IsMatch(t) => u < F - 1
    BY <2>5
  <2>12. IsMatch(t) => u >= F
    BY <2>5
  <2> HIDE DEF s, u, F
  <2>13. CASE IsMatch(t)
    <3>1. Df!Legal(m) /\ u >= F
      BY <2>7, <2>12, <2>13
    <3>2. s \in {-1, F - 1}
      BY <2>10, <3>1
    <3> QED
      BY <2>9, <3>1, <3>2
  <2>14. CASE ~IsMatch(t)
    <3>1. u < F - 1
      BY <2>11, <2>14
    <3>2. s \in {-1, F - 1} \/ s > F - 1
      BY <2>10
    <3> QED
      BY <2>9, <3>1, <3>2
  <2> QED
    BY <2>13, <2>14
<1> QED
  BY <1>1, <1>2, <1>3 DEF DfInv, Encoded

\* Every step of Deflate keeps the invariant.
LEMMA DfSteps == DfInv /\ Df!Step => DfInv'
<1> SUFFICES ASSUME DfInv, Df!Step PROVE DfInv'
  OBVIOUS
<1>1. ASSUME Df!Refuse PROVE DfInv'
  <2>1. /\ stage = "plan" /\ stage' = "refused"
        /\ UNCHANGED <<config, tokens, budget, original, litLen, dist, writer, i, payload, pos, decoded>>
    BY <1>1 DEF Df!Refuse, Df!input
  <2>2. DfChosen' <=> DfChosen
    BY <2>1, DfUnchanged
  <2> QED
    BY <2>1, <2>2 DEF DfInv, Encoded
<1>2. ASSUME Df!GiveUp PROVE DfInv'
  <2>1. /\ stage = "write" /\ stage' = "stored"
        /\ UNCHANGED <<config, tokens, budget, original, litLen, dist, writer, i, payload, pos, decoded>>
    BY <1>2 DEF Df!GiveUp, Df!input
  <2>2. DfChosen' <=> DfChosen
    BY <2>1, DfUnchanged
  <2> QED
    BY <2>1, <2>2 DEF DfInv, Encoded
<1>3. ASSUME Df!OpenFails PROVE DfInv'
  <2>1. /\ stage = "open" /\ stage' = "corrupt" /\ ~LegalHead
        /\ UNCHANGED <<config, tokens, budget, original, litLen, dist, writer, i, payload, pos, decoded>>
    BY <1>3, DfNames DEF Df!OpenFails, Df!input
  <2>2. ~Encoded
    BY <2>1, DfStored DEF DfInv
  <2> QED
    BY <2>1, <2>2 DEF DfInv, Encoded
<1>4. ASSUME Df!EndDecode PROVE DfInv'
  <2>1. /\ stage = "decode" /\ stage' = "done" /\ Covered(decoded) >= original
        /\ UNCHANGED <<config, tokens, budget, original, litLen, dist, writer, i, payload, pos, decoded>>
    BY <1>4, DfTokens DEF Df!EndDecode, Df!input
  <2>2. DfReading /\ original \in Nat
    BY <2>1 DEF DfInv
  <2>3. Covered(decoded) = original
    <3>1. Covered(decoded) <= original /\ Covered(decoded) \in Nat
      BY <2>2, CoveredIs DEF DfReading
    <3> QED
      BY <2>1, <2>2, <3>1
  <2>4. /\ DfChosen <=> DfChosen'
        /\ DfAllowed <=> DfAllowed'
        /\ DfTabled <=> DfTabled'
        /\ DfHeld <=> DfHeld'
        /\ DfReading <=> DfReading'
        /\ DfPlace <=> DfPlace'
    BY <2>1, DfUnchanged
  <2>5. Begun(decoded, tokens)' = Begun(decoded, tokens)
    BY <2>1 DEF Begun
  <2> QED
    BY <2>1, <2>3, <2>4, <2>5 DEF DfInv, Encoded
<1> QED
  BY <1>1, <1>2, <1>3, <1>4, DfPlans, DfWrites, DfEnds, DfOpens, DfReadsLiteralBack, DfReadsMatchBack, DfFails
     DEF Df!Step

\* The size computed before is the size that is written.
LEMMA DfTotalIs ==
    ASSUME DfChosen, DfAllowed, DfTabled
    PROVE  Df!Total = 4 + UsedOf(litLen) + UsedOf(dist)
                        + BytesFor(Len(Spelling(litLen, dist, tokens, Len(tokens))), ByteBits)
<1> DEFINE L == Len(tokens)
           NL == FirstLengthSymbol + Len(LengthBase)
           ND == Len(DistBase)
           a == [k \in 1 .. L |-> Taken(litLen, LitWord(tokens), NL, k)]
           b == [k \in 1 .. L |-> Taken(dist, DistWord(tokens), ND, k)]
           e == [n \in 1 .. L |->
                   IF IsMatch(tokens[n])
                   THEN SplitLength(tokens[n].length).extraBits + SplitDistance(tokens[n].distance).extraBits
                   ELSE 0]
           c == TokenCosts(litLen, dist, tokens)
<1>1. L \in Nat /\ DOMAIN tokens = 1 .. L
  BY ChosenIs
<1>2. NL \in Nat /\ ND \in Nat /\ LitLenCodes = 0 .. NL - 1 /\ DistanceCodes = 0 .. ND - 1
  <2>1. FirstLengthSymbol \in Nat /\ Len(LengthBase) \in Nat /\ Len(DistBase) \in Nat
    BY SizesAre
  <2> QED
    BY <2>1, SizesAre DEF LitLenCodes
<1>3. /\ \A s \in LitLenCodes : litLen[s] \in Nat
      /\ \A s \in DistanceCodes : dist[s] \in Nat
      /\ Spellable(litLen, dist, tokens)
  <2>1. litLen \in [LitLenCodes -> 0 .. MaxCodeLength] /\ dist \in [DistanceCodes -> 0 .. MaxCodeLength]
    BY DfTablesAre DEF DfTabled
  <2>2. MaxCodeLength \in Nat
    BY CodeAssumption
  <2> QED
    BY <2>1, <2>2, TabledIs DEF DfTabled
<1> HIDE DEF NL, ND
<1>4. BitsTaken(Df!LitLenFreq, litLen, NL) = SumUpTo(a, L)
  <2> DEFINE f == Df!LitLenFreq
             w == LitWord(tokens)
  <2>1. \A s \in 0 .. NL - 1 : f[s] = Found(w, L, s)
    BY <1>2, DfFreqs
  <2>2. \A s \in 0 .. NL - 1 : litLen[s] \in Nat
    BY <1>2, <1>3
  <2>3. a = [k \in 1 .. L |-> Taken(litLen, w, NL, k)]
    OBVIOUS
  <2> HIDE DEF f, w, L, a
  <2>4. BitsTaken(f, litLen, NL) = SumUpTo([k \in 1 .. L |-> Taken(litLen, w, NL, k)], L)
    <3>1. NL \in Nat
      BY <1>2
    <3>2. L \in Nat
      BY <1>1
    <3> QED
      BY <2>1, <2>2, <3>1, <3>2, CountedTwice, ZenonT(60)
  <2>5. BitsTaken(f, litLen, NL) = SumUpTo(a, L)
    BY <2>3, <2>4
  <2> QED
    BY <2>5 DEF f
<1>5. BitsTaken(Df!DistFreq, dist, ND) = SumUpTo(b, L)
  <2> DEFINE f == Df!DistFreq
             w == DistWord(tokens)
  <2>1. \A s \in 0 .. ND - 1 : f[s] = Found(w, L, s)
    BY <1>2, DfFreqs
  <2>2. \A s \in 0 .. ND - 1 : dist[s] \in Nat
    BY <1>2, <1>3
  <2>3. b = [k \in 1 .. L |-> Taken(dist, w, ND, k)]
    OBVIOUS
  <2> HIDE DEF f, w, L, b
  <2>4. BitsTaken(f, dist, ND) = SumUpTo([k \in 1 .. L |-> Taken(dist, w, ND, k)], L)
    <3>1. ND \in Nat
      BY <1>2
    <3>2. L \in Nat
      BY <1>1
    <3> QED
      BY <2>1, <2>2, <3>1, <3>2, CountedTwice, ZenonT(60)
  <2>5. BitsTaken(f, dist, ND) = SumUpTo(b, L)
    BY <2>3, <2>4
  <2> QED
    BY <2>5 DEF f
<1>6. Df!ExtraBits = SumUpTo(e, L)
  BY <1>1, DfTokens, DfTables, DfCodes DEF Df!ExtraBits
<1>7. ASSUME NEW k \in 1 .. L
      PROVE  a[k] \in Nat /\ b[k] \in Nat /\ e[k] \in Nat /\ c[k] = a[k] + b[k] + e[k]
  <2> DEFINE t == tokens[k]
  <2>1. /\ LitLenOf(t) \in LitLenCodes
        /\ IsMatch(t) => LengthSplits(t.length) /\ DistanceSplits(t.distance) /\ DistOf(t) \in DistanceCodes
        /\ IsMatch(t) \in BOOLEAN
    BY <1>7, AllowedIs
  <2>2. LitWord(tokens)[k] = LitLenOf(t) /\ DistWord(tokens)[k] = DistOf(t)
    BY <1>7 DEF LitWord, DistWord
  <2>3. c[k] = CostOf(litLen, dist, t)
    BY <1>7 DEF TokenCosts
  <2>4. e[k] = IF IsMatch(t) THEN SplitLength(t.length).extraBits + SplitDistance(t.distance).extraBits ELSE 0
    OBVIOUS
  <2>5. a[k] = Taken(litLen, LitWord(tokens), NL, k) /\ b[k] = Taken(dist, DistWord(tokens), ND, k)
    OBVIOUS
  <2> HIDE DEF t, a, b, c, e
  <2>6. a[k] = litLen[LitLenOf(t)] /\ litLen[LitLenOf(t)] \in Nat
    BY <1>2, <1>3, <2>1, <2>2, <2>5 DEF Taken
  <2>7. CASE IsMatch(t)
    <3>1. b[k] = dist[DistOf(t)] /\ dist[DistOf(t)] \in Nat
      BY <1>2, <1>3, <2>1, <2>2, <2>5, <2>7 DEF Taken
    <3>2. e[k] = SplitLength(t.length).extraBits + SplitDistance(t.distance).extraBits
      BY <2>4, <2>7
    <3>3. SplitLength(t.length).extraBits \in Nat /\ SplitDistance(t.distance).extraBits \in Nat
      BY <2>1, <2>7, SizesAre, SMTT(40) DEF LengthSplits, DistanceSplits
    <3>4. c[k] = litLen[LitLenOf(t)] + dist[DistOf(t)]
                    + (SplitLength(t.length).extraBits + SplitDistance(t.distance).extraBits)
      BY <2>3, <2>7 DEF CostOf
    <3> QED
      BY <2>6, <3>1, <3>2, <3>3, <3>4
  <2>8. CASE ~IsMatch(t)
    <3>1. DistOf(t) = -1 /\ DistWord(tokens)[k] \notin 0 .. ND - 1
      BY <2>2, <2>8 DEF DistOf
    <3>2. b[k] = 0
      BY <2>5, <3>1 DEF Taken
    <3>3. e[k] = 0
      BY <2>4, <2>8
    <3>4. c[k] = litLen[LitLenOf(t)] + 0 + 0
      BY <2>3, <2>8 DEF CostOf
    <3> QED
      BY <2>6, <3>2, <3>3, <3>4
  <2> QED
    BY <2>1, <2>7, <2>8
<1>8. SumUpTo(c, L) = Len(Spelling(litLen, dist, tokens, L))
  <2>1. L \in 0 .. Len(tokens)
    BY <1>1
  <2> HIDE DEF L
  <2> QED
    BY <1>3, <2>1, SpellingIs
<1> HIDE DEF a, b, c, e
<1>9. SumUpTo(c, L) = SumUpTo(a, L) + SumUpTo(b, L) + SumUpTo(e, L)
  <2> HIDE DEF L
  <2> QED
    BY <1>1, <1>7, SumsAdd, SMTT(40)
<1>10. SumUpTo(a, L) \in Nat /\ SumUpTo(b, L) \in Nat /\ SumUpTo(e, L) \in Nat
  <2> HIDE DEF L
  <2>1. L \in 0 .. L
    BY <1>1
  <2>2. SumUpTo(a, L) \in Nat
    BY <1>1, <1>7, <2>1, SumIs, Zenon
  <2>3. SumUpTo(b, L) \in Nat
    BY <1>1, <1>7, <2>1, SumIs, Zenon
  <2>4. SumUpTo(e, L) \in Nat
    BY <1>1, <1>7, <2>1, SumIs, Zenon
  <2> QED
    BY <2>2, <2>3, <2>4
<1>11. Df!PayloadBits = SumUpTo(e, L) + SumUpTo(a, L) + SumUpTo(b, L)
  BY <1>4, <1>5, <1>6, DfCodes, DfTables, SMTT(40) DEF Df!PayloadBits, NL, ND
<1>12. Df!PayloadBits = Len(Spelling(litLen, dist, tokens, L))
  BY <1>8, <1>9, <1>10, <1>11
<1> QED
  BY <1>12, DfNames, DfBits DEF Df!Total

\* The invariant gives the two properties.
LEMMA DfIsSound == DfInv => Df!DecodeSound
<1> SUFFICES ASSUME DfInv, stage \in {"decode", "done"} PROVE Df!DecodeSound
  BY DEF Df!DecodeSound
<1>1. DfReading /\ (stage = "done" => Covered(decoded) = original)
  BY DEF DfInv
<1>2. pos <= Len(DfStream) /\ Len(decoded) <= pos
  BY <1>1 DEF DfReading
<1> QED
  BY <1>1, <1>2, DfNames, DfTokens DEF Df!DecodeSound, DfReading

\* Nor is anything lost.
LEMMA DfIsLossless == DfInv => Df!Lossless
<1> SUFFICES ASSUME DfInv, Encoded
             PROVE  /\ stage \in {"open", "decode", "done"} => Len(payload) = Df!Total
                    /\ stage # "corrupt" /\ decoded = SubSeq(tokens, 1, Len(decoded))
                    /\ stage = "done" => decoded = tokens /\ Len(DfStream) - pos \in 0 .. ByteBits - 1
  BY DfNames DEF Df!Lossless
<1>1. DfChosen /\ stage # "corrupt"
  BY DEF DfInv
<1>2. tokens \in Seq(TokenRecords) /\ Len(tokens) \in Nat
  BY <1>1, ChosenIs
<1>3. stage \in {"open", "decode", "done"} => Len(payload) = Df!Total
  BY <1>1, DfStored, DfTotalIs DEF DfInv
<1>4. decoded \in Seq(TokenRecords) /\ Begun(decoded, tokens)
  <2>1. << >> \in Seq(TokenRecords) /\ Len(<< >>) = 0 /\ 0 <= Len(tokens)
    BY <1>2
  <2>2. \A parse : Begun(<< >>, parse) <=> 0 <= Len(parse)
    BY DEF Begun
  <2>3. CASE stage \in {"plan", "refused", "write", "stored", "open"}
    BY <2>1, <2>2, <2>3, Zenon DEF DfInv
  <2>4. CASE stage \in {"decode", "done"}
    BY <2>4 DEF DfInv, DfReading
  <2> QED
    BY <1>1, <2>3, <2>4 DEF DfInv
<1>5. decoded = SubSeq(tokens, 1, Len(decoded))
  <2> DEFINE b == SubSeq(tokens, 1, Len(decoded))
  <2>1. Len(decoded) \in 0 .. Len(tokens) /\ \A k \in 1 .. Len(decoded) : decoded[k] = tokens[k]
    BY <1>2, <1>4 DEF Begun
  <2>2. b \in Seq(TokenRecords) /\ Len(b) = Len(decoded) /\ \A k \in 1 .. Len(decoded) : b[k] = tokens[k]
    BY <1>2, <2>1
  <2> HIDE DEF b
  <2>3. decoded = b
    BY <1>4, <2>1, <2>2, SeqEqual
  <2> QED
    BY <2>3 DEF b
<1>6. ASSUME stage = "done" PROVE decoded = tokens /\ Len(DfStream) - pos \in 0 .. ByteBits - 1
  <2>1. DfAllowed /\ DfTabled /\ DfHeld /\ DfPlace /\ Covered(decoded) = original
    BY <1>6 DEF DfInv
  <2>2. original \in Nat
    BY DEF DfInv
  <2>3. Len(decoded) = Len(tokens) /\ \A k \in 1 .. Len(decoded) : decoded[k] = tokens[k]
    BY <1>1, <1>2, <1>4, <2>1, <2>2, DfBegunCovers
  <2>4. decoded = tokens
    BY <1>2, <1>4, <2>3, SeqEqual
  <2>5. DfStream \in Seq(Binary) /\ Carries(DfStream, Spelling(litLen, dist, tokens, Len(tokens)))
    BY <1>1, <2>1, DfStored
  <2>6. pos = Len(Spelling(litLen, dist, tokens, Len(tokens)))
    BY <2>1, <2>3 DEF DfPlace
  <2> QED
    BY <2>4, <2>5, <2>6 DEF Carries
<1> QED
  BY <1>1, <1>3, <1>5, <1>6

------------------------------------------------------------------------------
\* The codec: the coder at work keeps its invariant, and what it writes is
\* smaller than the budget.

LzSmall == stage = "open" => Lz!Total < budget

HuSmall ==
    stage = "open" =>
        1 + 2 * Cardinality(Coded(table)) + BytesFor(Len(Coding(table, data, Len(data))), ByteBits) < budget

DfSmall ==
    stage = "open" =>
        4 + UsedOf(litLen) + UsedOf(dist)
          + BytesFor(Len(Spelling(litLen, dist, tokens, Len(tokens))), ByteBits) < budget

CodecInv ==
    /\ method \in Coders \cup {"stored", "unknown"}
    /\ method = "lz77" => LzInv /\ data = << >> /\ (Encoded => LzSmall)
    /\ method = "huffman" => HuInv /\ (Encoded => HuSmall)
    /\ method = "deflate" => DfInv /\ data = << >> /\ (Encoded => DfSmall)
    /\ method = "stored" =>
          /\ stage \in {"open", "done", "corrupt"}
          /\ stage = "done" => decoded = payload
          /\ Encoded => stage # "corrupt" /\ payload = Source /\ original = Len(Source)
    /\ method = "unknown" => ~Encoded /\ stage \in {"open", "corrupt"}

\* It holds at first.
LEMMA CodecStarts == CodecInit => CodecInv
<1>1. ASSUME method = "lz77", Lz!Init, HuIdle PROVE CodecInv
  <2>1. LzInv
    BY <1>1, LzStarts
  <2>2. Encoded => stage # "open"
    BY <1>1 DEF Lz!Init, Encoded
  <2> QED
    BY <1>1, <2>1, <2>2 DEF CodecInv, HuIdle, LzSmall, Coders
<1>2. ASSUME method = "huffman", Hu!Init PROVE CodecInv
  <2>1. HuInv
    BY <1>2, HuStarts
  <2>2. Encoded => stage # "open"
    BY <1>2 DEF Hu!Init, Encoded
  <2> QED
    BY <1>2, <2>1, <2>2 DEF CodecInv, HuSmall, Coders
<1>3. ASSUME method = "deflate", Df!Init, HuIdle PROVE CodecInv
  <2>1. DfInv
    BY <1>3, DfStarts
  <2>2. Encoded => stage # "open"
    BY <1>3 DEF Df!Init, Encoded
  <2> QED
    BY <1>3, <2>1, <2>2 DEF CodecInv, HuIdle, DfSmall, Coders
<1>4. ASSUME ForeignInit PROVE CodecInv
  BY <1>4 DEF ForeignInit, CodecInv, Encoded, Coders
<1> QED
  BY <1>1, <1>2, <1>3, <1>4 DEF CodecInit

\* The tokens Lzss encodes stand for a block of the original size.
LEMMA LzReachesBack ==
    ASSUME LzEncodable
    PROVE  ReachesBack(tokens) /\ Len(Detokenize(tokens)) = original
<1>1. ReachesBack(tokens)
  BY EncodableIs DEF ReachesBack
<1> QED
  BY <1>1, DetokenizeIs DEF LzEncodable

\* So do those of Deflate.
LEMMA DfReachesBack ==
    ASSUME DfChosen
    PROVE  ReachesBack(tokens) /\ Len(Detokenize(tokens)) = original
<1>1. ReachesBack(tokens)
  BY ChosenIs DEF ReachesBack
<1> QED
  BY <1>1, DetokenizeIs DEF DfChosen

\* A step of Lzss keeps the invariant, and ends below the budget.
LEMMA LzStepKeeps == CodecInv /\ Lz77Step => CodecInv'
<1> SUFFICES ASSUME CodecInv, Lz77Step PROVE CodecInv'
  OBVIOUS
<1>1. method = "lz77" /\ method' = "lz77" /\ data' = data /\ Lz!Step
  BY DEF Lz77Step, huVars
<1>2. LzInv /\ data = << >>
  BY <1>1 DEF CodecInv
<1>3. LzInv'
  BY <1>1, <1>2, LzSteps
<1>4. ASSUME stage' = "open" PROVE LzSmall'
  <2>1. Lz!EndEncode
    BY <1>1, <1>4, Zenon DEF Lz!Step, Lz!GiveUp, Lz!WriteToken, Lz!OpenFails, Lz!Open, Lz!ReadToken, Lz!ReadFails,
                      Lz!EndDecode, Lz!Unfinished
  <2>2. Lz!Total < budget /\ UNCHANGED <<tokens, budget>>
    BY <2>1 DEF Lz!EndEncode, Lz!config
  <2>3. Lz!Total' = Lz!Total
    BY <2>2 DEF Lz!Total, Lz!Matches
  <2> QED
    BY <2>2, <2>3 DEF LzSmall
<1>5. LzSmall'
  BY <1>4 DEF LzSmall
<1> QED
  BY <1>1, <1>2, <1>3, <1>5 DEF CodecInv

\* So does one of HuffmanPayload.
LEMMA HuStepKeeps == CodecInv /\ HuffmanStep => CodecInv'
<1> SUFFICES ASSUME CodecInv, HuffmanStep PROVE CodecInv'
  OBVIOUS
<1>1. method = "huffman" /\ method' = "huffman" /\ Hu!Step
  BY DEF HuffmanStep
<1>2. HuInv
  BY <1>1 DEF CodecInv
<1>3. HuInv'
  BY <1>1, <1>2, HuSteps
<1>4. ASSUME Encoded, stage' = "open" PROVE HuSmall'
  <2>1. Hu!EndEncode
    BY <1>1, <1>4 DEF Hu!Step, Hu!Plan, Hu!GiveUp, Hu!WriteSymbol, Hu!OpenFails, Hu!Open, Hu!ReadSymbol,
                      Hu!ReadFails, Hu!EndDecode
  <2>2. stage = "write" /\ Hu!Total < budget /\ UNCHANGED <<data, budget, table>>
    BY <2>1 DEF Hu!EndEncode, Hu!input
  <2>3. HuWord /\ HuTable
    BY <1>2, <1>4, <2>2 DEF HuInv
  <2>4. 1 + 2 * Cardinality(Coded(table)) + BytesFor(Len(Coding(table, data, Len(data))), ByteBits) < budget
    BY <2>2, <2>3, HuTotalIs
  <2> QED
    BY <2>2, <2>4 DEF HuSmall
<1>5. Encoded' => HuSmall'
  <2>1. budget' = budget
    BY <1>1 DEF Hu!Step, Hu!Plan, Hu!GiveUp, Hu!WriteSymbol, Hu!EndEncode, Hu!OpenFails, Hu!Open, Hu!ReadSymbol,
                Hu!ReadFails, Hu!EndDecode, Hu!input
  <2>2. CASE stage' = "open"
    BY <1>4, <2>1, <2>2 DEF Encoded
  <2>3. CASE stage' # "open"
    BY <2>3 DEF HuSmall
  <2> QED
    BY <2>2, <2>3
<1> QED
  BY <1>1, <1>3, <1>5 DEF CodecInv

\* So does one of Deflate.
LEMMA DfStepKeeps == CodecInv /\ DeflateStep => CodecInv'
<1> SUFFICES ASSUME CodecInv, DeflateStep PROVE CodecInv'
  OBVIOUS
<1>1. method = "deflate" /\ method' = "deflate" /\ data' = data /\ Df!Step
  BY DEF DeflateStep, huVars
<1>2. DfInv /\ data = << >>
  BY <1>1 DEF CodecInv
<1>3. DfInv'
  BY <1>1, <1>2, DfSteps
<1>4. ASSUME Encoded, stage' = "open" PROVE DfSmall'
  <2>1. Df!EndEncode
    BY <1>1, <1>4 DEF Df!Step, Df!Refuse, Df!Plan, Df!GiveUp, Df!WriteToken, Df!OpenFails, Df!Open,
                      Df!ReadLiteral, Df!ReadMatch, Df!ReadFails, Df!EndDecode, Df!Unfinished
  <2>2. stage = "write" /\ Df!Total < budget /\ UNCHANGED <<tokens, budget, litLen, dist>>
    BY <2>1 DEF Df!EndEncode, Df!input
  <2>3. DfChosen /\ DfAllowed /\ DfTabled
    BY <1>2, <1>4, <2>2 DEF DfInv
  <2>4. 4 + UsedOf(litLen) + UsedOf(dist)
          + BytesFor(Len(Spelling(litLen, dist, tokens, Len(tokens))), ByteBits) < budget
    BY <2>2, <2>3, DfTotalIs
  <2> QED
    BY <2>2, <2>4 DEF DfSmall
<1>5. Encoded' => DfSmall'
  <2>1. budget' = budget
    BY <1>1 DEF Df!Step, Df!Refuse, Df!Plan, Df!GiveUp, Df!WriteToken, Df!EndEncode, Df!OpenFails, Df!Open,
                Df!ReadLiteral, Df!ReadMatch, Df!ReadFails, Df!EndDecode, Df!input
  <2>2. CASE stage' = "open"
    BY <1>4, <2>1, <2>2 DEF Encoded
  <2>3. CASE stage' # "open"
    BY <2>3 DEF DfSmall
  <2> QED
    BY <2>2, <2>3
<1> QED
  BY <1>1, <1>2, <1>3, <1>5 DEF CodecInv

\* A block that is stored is as long as the block.
LEMMA StoreKeeps == CodecInv /\ Store => CodecInv'
<1> SUFFICES ASSUME CodecInv, Store PROVE CodecInv'
  OBVIOUS
<1>1. /\ stage = "stored" /\ method' = "stored" /\ payload' = Source /\ stage' = "open"
      /\ UNCHANGED <<budget, original, tokens, data>>
  BY DEF Store, huVars
<1>2. original = Len(Source)
  <2>1. CASE method = "lz77"
    <3>1. LzInv /\ data = << >> /\ Encoded
      BY <1>1, <2>1 DEF CodecInv, LzInv
    <3> QED
      BY <3>1, LzReachesBack DEF LzInv, Source
  <2>2. CASE method = "huffman"
    <3>1. HuInv /\ Encoded
      BY <1>1, <2>2 DEF CodecInv, HuInv
    <3> QED
      BY <3>1 DEF HuInv, HuWord, Source
  <2>3. CASE method = "deflate"
    <3>1. DfInv /\ data = << >> /\ Encoded
      BY <1>1, <2>3 DEF CodecInv, DfInv
    <3> QED
      BY <3>1, DfReachesBack DEF DfInv, Source
  <2> QED
    BY <1>1, <2>1, <2>2, <2>3 DEF CodecInv, Coders
<1>3. Source' = Source
  BY <1>1 DEF Source
<1> QED
  BY <1>1, <1>2, <1>3 DEF CodecInv

\* Stored blocks and unknown methods.
LEMMA StoredKeeps == CodecInv /\ (DecodeStored \/ DecodeUnknown) => CodecInv'
<1> SUFFICES ASSUME CodecInv, DecodeStored \/ DecodeUnknown PROVE CodecInv'
  OBVIOUS
<1>1. UNCHANGED <<method, budget, payload, original, tokens, data>> /\ method \in {"stored", "unknown"}
  BY DEF DecodeStored, DecodeUnknown, huVars
<1>2. Source' = Source
  BY <1>1 DEF Source
<1>3. CASE DecodeStored
  <2>1. /\ method = "stored" /\ stage = "open"
        /\ \/ Len(payload) = original /\ decoded' = payload /\ stage' = "done"
           \/ Len(payload) # original /\ stage' = "corrupt"
    BY <1>3 DEF DecodeStored
  <2>2. Encoded => payload = Source /\ original = Len(Source)
    BY <2>1 DEF CodecInv
  <2> QED
    BY <1>1, <1>2, <2>1, <2>2 DEF CodecInv, Encoded
<1>4. CASE DecodeUnknown
  <2>1. method = "unknown" /\ stage' = "corrupt"
    BY <1>4 DEF DecodeUnknown
  <2> QED
    BY <1>1, <2>1 DEF CodecInv, Encoded
<1> QED
  BY <1>3, <1>4

\* Nothing happens.
LEMMA CodecStutters == CodecInv /\ UNCHANGED codecVars => CodecInv'
<1> SUFFICES ASSUME CodecInv, UNCHANGED codecVars PROVE CodecInv'
  OBVIOUS
<1>1. /\ UNCHANGED <<method, budget, payload, original, i, decoded, stage, tokens, pos, writer>>
      /\ UNCHANGED <<data, table, litLen, dist>>
      /\ UNCHANGED <<lzShared, lzVars>> /\ UNCHANGED <<shared, dfVars>>
  BY DEF codecVars, shared, lzVars, huVars, dfVars, lzShared
<1>2. method = "lz77" => LzInv' /\ (LzSmall => LzSmall')
  <2>1. Lz!Total' = Lz!Total
    BY <1>1 DEF Lz!Total, Lz!Matches
  <2>2. LzSmall => LzSmall'
    BY <1>1, <2>1 DEF LzSmall
  <2> QED
    BY <1>1, <2>2, LzStutters DEF CodecInv
<1>3. method = "huffman" => HuInv' /\ (HuSmall => HuSmall')
  <2>1. HuSmall => HuSmall'
    BY <1>1 DEF HuSmall
  <2> QED
    BY <1>1, <2>1, HuStutters DEF CodecInv
<1>4. method = "deflate" => DfInv' /\ (DfSmall => DfSmall')
  <2>1. DfSmall => DfSmall'
    BY <1>1 DEF DfSmall
  <2> QED
    BY <1>1, <2>1, DfStutters DEF CodecInv
<1>5. Source' = Source
  BY <1>1 DEF Source
<1>6. Encoded' <=> Encoded
  BY <1>1 DEF Encoded
<1> QED
  BY <1>1, <1>2, <1>3, <1>4, <1>5, <1>6 DEF CodecInv

\* Every step keeps the invariant.
LEMMA CodecKeeps == CodecInv /\ [CodecNext]_codecVars => CodecInv'
BY LzStepKeeps, HuStepKeeps, DfStepKeeps, StoreKeeps, StoredKeeps, CodecStutters DEF CodecNext, CodecOver

\* What the invariant says of a block.
LEMMA CodecDecodesSoundly == CodecInv => DecodesSoundly
BY LzIsSound, HuIsSound, DfIsSound DEF CodecInv, DecodesSoundly

\* Every coder is lossless.
LEMMA CodecIsLossless == CodecInv => Lossless
BY LzIsLossless, HuIsLossless, DfIsLossless DEF CodecInv, Lossless

\* And what comes back is what was encoded.
LEMMA CodecKeepsBlocks == CodecInv => BlockKept
<1> SUFFICES ASSUME CodecInv, Encoded
             PROVE  /\ stage # "corrupt"
                    /\ stage = "done" => Returned = Source
                    /\ stage = "open" /\ method # "stored" => Len(payload) < budget
  BY DEF BlockKept
<1>1. CASE method = "lz77"
  <2>1. LzInv /\ data = << >> /\ LzSmall
    BY <1>1 DEF CodecInv
  <2>2. Lz!Lossless
    BY <2>1, LzIsLossless
  <2>3. /\ stage # "corrupt" /\ (stage = "done" => decoded = tokens)
        /\ stage = "open" => Len(payload) = Lz!Total
    BY <2>2 DEF Lz!Lossless, Lz!Encoded, Encoded
  <2>4. Returned = Detokenize(decoded) /\ Source = Detokenize(tokens)
    BY <1>1, <2>1 DEF Returned, Source
  <2> QED
    BY <2>1, <2>3, <2>4 DEF LzSmall
<1>2. CASE method = "huffman"
  <2>1. HuInv /\ HuSmall
    BY <1>2 DEF CodecInv
  <2>2. Hu!Lossless /\ HuWord
    BY <2>1, HuIsLossless DEF HuInv
  <2>3. stage # "corrupt" /\ (stage = "done" => decoded = data)
    BY <2>2 DEF Hu!Lossless, Hu!Encoded, Encoded
  <2>4. Returned = decoded /\ Source = data
    BY <1>2, <2>2 DEF Returned, Source, HuWord
  <2>5. ASSUME stage = "open" PROVE Len(payload) < budget
    <3>1. HuTable /\ HuHeld
      BY <2>1, <2>5 DEF HuInv
    <3>2. Len(payload) = 1 + 2 * Cardinality(Coded(table)) + BytesFor(Len(Coding(table, data, Len(data))), ByteBits)
      BY <2>2, <3>1, HuStored
    <3> QED
      BY <2>1, <2>5, <3>2 DEF HuSmall
  <2> QED
    BY <2>3, <2>4, <2>5
<1>3. CASE method = "deflate"
  <2>1. DfInv /\ data = << >> /\ DfSmall
    BY <1>3 DEF CodecInv
  <2>2. Df!Lossless
    BY <2>1, DfIsLossless
  <2>3. stage # "corrupt" /\ (stage = "done" => decoded = tokens)
    BY <2>2 DEF Df!Lossless, Df!Encoded, Encoded
  <2>4. Returned = Detokenize(decoded) /\ Source = Detokenize(tokens)
    BY <1>3, <2>1 DEF Returned, Source
  <2>5. ASSUME stage = "open" PROVE Len(payload) < budget
    <3>1. DfChosen /\ DfAllowed /\ DfTabled /\ DfHeld
      BY <2>1, <2>5 DEF DfInv
    <3>2. Len(payload) = 4 + UsedOf(litLen) + UsedOf(dist)
                           + BytesFor(Len(Spelling(litLen, dist, tokens, Len(tokens))), ByteBits)
      BY <3>1, DfStored
    <3> QED
      BY <2>1, <2>5, <3>2 DEF DfSmall
  <2> QED
    BY <2>3, <2>4, <2>5
<1>4. CASE method \in {"stored", "unknown"}
  <2>1. method = "stored" /\ stage # "corrupt" /\ payload = Source /\ (stage = "done" => decoded = payload)
    BY <1>4 DEF CodecInv
  <2> QED
    BY <2>1 DEF Returned
<1> QED
  BY <1>1, <1>2, <1>3, <1>4 DEF CodecInv, Coders

------------------------------------------------------------------------------

\* (block.cpp:159-214, deflate.cpp:212-302, block.cpp:61-99) Whatever payload is
\* decoded, of whatever method: no reference reaches before the output, past the
\* window or past the size asked for, and a table of codes is used only if it is one.
THEOREM BlocksDecodeSoundly == CodecSpec => []DecodesSoundly
<1>1. CodecInit => CodecInv
  BY CodecStarts
<1>2. CodecInv /\ [CodecNext]_codecVars => CodecInv'
  BY CodecKeeps
<1>3. CodecInv => DecodesSoundly
  BY CodecDecodesSoundly
<1> QED
  BY <1>1, <1>2, <1>3, PTL DEF CodecSpec

\* (deflate.cpp:161-177, 191-210, 270-300; block.cpp:101-157, 36-99) The three
\* coders are lossless: what is written has exactly the size computed before, and
\* is read back symbol by symbol as it was.
THEOREM CodersAreLossless == CodecSpec => []Lossless
<1>1. CodecInit => CodecInv
  BY CodecStarts
<1>2. CodecInv /\ [CodecNext]_codecVars => CodecInv'
  BY CodecKeeps
<1>3. CodecInv => Lossless
  BY CodecIsLossless
<1> QED
  BY <1>1, <1>2, <1>3, PTL DEF CodecSpec

\* (block.cpp:218-271) A block that is encoded comes back as it was, coded or
\* stored, and coded it is smaller than its budget.
THEOREM BlocksAreKept == CodecSpec => []BlockKept
<1>1. CodecInit => CodecInv
  BY CodecStarts
<1>2. CodecInv /\ [CodecNext]_codecVars => CodecInv'
  BY CodecKeeps
<1>3. CodecInv => BlockKept
  BY CodecKeepsBlocks
<1> QED
  BY <1>1, <1>2, <1>3, PTL DEF CodecSpec
==============================================================================
