---------------------------- MODULE TokenizerProofs ----------------------------
(***************************************************************************)
(* lz77::tokenize for every input, every hash function and every Config:   *)
(* the chains in their ring, the bounds of a search, what it finds, and    *)
(* the parse that comes out.                                               *)
(***************************************************************************)
EXTENDS Tokenizer, SequenceTheorems, WellFoundedInduction, TLAPS

\* The inductive invariant.

Searching == {"search", "walk", "decide"}

\* How far the chains have been filled, in each phase.
Progress ==
    /\ pc \in {"insert"} \cup Searching => Valid /\ From < size
    /\ pc = "begin" => inserted <= position + 1
    /\ pc = "insert" => inserted <= From + 1
    /\ pc \in Searching => inserted = From + 1
    /\ ahead = 1 => pc \in {"insert"} \cup Searching

\* A match from p is one a decoder can replay.
Replays(m, p) ==
    m.length > 0 =>
        /\ m.distance >= 1 /\ m.distance <= p
        /\ p + m.length <= size
        /\ \A k \in 0 .. m.length - 1 : data[p - m.distance + k] = data[p + k]

\* The match found first, while another is looked for one byte later.
Pending == ahead = 1 => match.length >= config.minMatch /\ Replays(match, position)

BestReplays == pc \in {"walk", "decide"} => Replays(best, From)

Walking ==
    pc = "walk" =>
        /\ From + config.minMatch <= size
        /\ best.length < Limit
        /\ candidate + best.distance < From

\* The candidate has the hash of the position searched from.
Linked ==
    pc = "walk" /\ candidate # NoPosition =>
        Hashed(candidate) /\ HashAt(candidate) = HashAt(From)

Length(q) == MatchLength(From, q, Limit)

BestIs ==
    pc \in {"walk", "decide"} =>
        IF best.length = 0 THEN best = NoMatch
        ELSE best.distance \in 1 .. From /\ best.length = Length(From - best.distance)

\* Of the positions in reach after c none has a longer match than best, and
\* none that is nearer has one as long.
Ruled(c) ==
    \A q \in 0 .. From - 1 :
        q > c /\ InWindow(From - q) /\ Length(q) >= HashBytes =>
            /\ Length(q) <= best.length
            /\ From - q < best.distance => Length(q) < best.length

Exact ==
    /\ pc = "walk" => Ruled(candidate)
    /\ pc = "decide" /\ From + config.minMatch <= size /\ chain > 0 => Ruled(NoPosition)
    /\ pc = "decide" /\ From + config.minMatch > size => best = NoMatch

IInv ==
    /\ TypeOK /\ Progress /\ Pending /\ BestReplays /\ Walking
    /\ ChainsSound /\ Linked /\ BestIs /\ Exact

------------------------------------------------------------------------------
\* Lemmas about numbers

\* A set of naturals has a least element.
LEMMA LeastElement ==
    ASSUME NEW S, S \subseteq Nat, S # {}
    PROVE  \E m \in S : \A k \in S : m <= k
<1>1. IsWellFoundedOn(OpToRel(<, Nat), Nat)
  BY NatLessThanWellFounded
<1>2. PICK m \in S : \A k \in S : <<k, m>> \notin OpToRel(<, Nat)
  BY <1>1, WFMin
<1>3. \A k \in S : ~(k < m)
  BY <1>2 DEF OpToRel
<1> QED
  BY <1>3

\* A set of naturals with a bound has a greatest element.
LEMMA GreatestElement ==
    ASSUME NEW n \in Nat, NEW S, S \subseteq 0 .. n, S # {}
    PROVE  \E m \in S : \A k \in S : k <= m
<1> DEFINE T == {i \in 0 .. n : n - i \in S}
<1>1. T \subseteq Nat
  OBVIOUS
<1>2. \A k \in S : n - k \in T
  OBVIOUS
<1>3. PICK t \in T : \A i \in T : t <= i
  BY <1>1, <1>2, LeastElement
<1>4. n - t \in S
  BY <1>3
<1>5. ASSUME NEW k \in S PROVE k <= n - t
  <2>1. t <= n - k /\ k \in 0 .. n /\ t \in 0 .. n
    BY <1>2, <1>3
  <2> QED
    BY <2>1
<1> QED
  BY <1>4, <1>5

\* Induction up to a bound, for a set.
LEMMA CountsUp ==
    ASSUME NEW n \in Nat, NEW S, 0 \in S, \A k \in 0 .. n - 1 : k \in S => k + 1 \in S
    PROVE  \A k \in 0 .. n : k \in S
<1> DEFINE T == {k \in 0 .. n : k \notin S}
<1>1. SUFFICES ASSUME T # {} PROVE FALSE
  OBVIOUS
<1>2. T \subseteq Nat
  OBVIOUS
<1>3. PICK m \in T : \A k \in T : m <= k
  BY <1>1, <1>2, LeastElement
<1>4. m \in 0 .. n /\ m # 0 /\ m \notin S
  BY <1>3
<1>5. m - 1 \in 0 .. n - 1 /\ (m - 1) + 1 = m /\ ~(m <= m - 1)
  BY <1>4
<1>6. m - 1 \in S
  BY <1>3, <1>5
<1> QED
  BY <1>4, <1>5, <1>6

\* A number is a multiple and a remainder.
LEMMA Division ==
    ASSUME NEW w \in Nat \ {0}, NEW p \in Nat
    PROVE  p % w \in 0 .. w - 1 /\ \E i \in Int : p = w * i + (p % w)
<1>1. p = w * (p \div w) + (p % w) /\ p \div w \in Int
  OBVIOUS
<1>2. p % w \in 0 .. w - 1
  OBVIOUS
<1> QED
  BY <1>1, <1>2

\* Two positions less than a window apart have slots of their own in the ring.
LEMMA SlotsDiffer ==
    ASSUME NEW w \in Nat \ {0}, NEW p \in Nat, NEW q \in Nat, p < q, q - p < w
    PROVE  p % w # q % w
<1> SUFFICES ASSUME p % w = q % w PROVE FALSE
  OBVIOUS
<1>1. PICK i \in Int : p = w * i + (p % w)
  BY Division
<1>2. PICK j \in Int : q = w * j + (q % w)
  BY Division
<1>3. p % w \in Int
  OBVIOUS
<1>4. q - p = w * (j - i)
  BY <1>1, <1>2, <1>3
<1>5. CASE j - i <= 0
  <2>1. w * (j - i) <= 0
    BY <1>5
  <2> QED
    BY <1>4, <2>1
<1>6. CASE j - i >= 1
  <2>1. w * (j - i) >= w
    BY <1>6
  <2> QED
    BY <1>4, <2>1
<1> QED
  BY <1>5, <1>6

\* Latest is the greatest of a bounded set of positions, or NoPosition.
LEMMA LatestIs ==
    ASSUME NEW n \in Nat, NEW S, S \subseteq 0 .. n
    PROVE  /\ S = {} => Latest(S) = NoPosition
           /\ S # {} => Latest(S) \in S
           /\ \A q \in S : q <= Latest(S)
<1>1. CASE S = {}
  BY <1>1 DEF Latest
<1>2. CASE S # {}
  <2>1. \E m \in S : \A q \in S : q <= m
    BY <1>2, GreatestElement
  <2> QED
    BY <1>2, <2>1 DEF Latest
<1> QED
  BY <1>1, <1>2

\* matchLength counts the bytes that agree.
LEMMA MatchLengthIs ==
    ASSUME NEW a, NEW b, NEW limit \in Nat
    PROVE  /\ MatchLength(a, b, limit) \in 0 .. limit
           /\ \A k \in 0 .. MatchLength(a, b, limit) - 1 : data[a + k] = data[b + k]
<1> DEFINE S == {n \in 0 .. limit : n = limit \/ data[a + n] # data[b + n]}
<1>1. limit \in S /\ S \subseteq Nat
  OBVIOUS
<1>2. PICK n \in S : \A m \in S : n <= m
  BY <1>1, LeastElement
<1>3. ASSUME NEW k \in 0 .. n - 1 PROVE data[a + k] = data[b + k]
  <2>1. k \in 0 .. limit /\ k # limit /\ k \notin S
    BY <1>2
  <2> QED
    BY <2>1
<1>4. n \in 0 .. limit /\ (n = limit \/ data[a + n] # data[b + n])
  BY <1>2
<1>5. \E m \in 0 .. limit : /\ \A k \in 0 .. m - 1 : data[a + k] = data[b + k]
                            /\ m = limit \/ data[a + m] # data[b + m]
  BY <1>3, <1>4
<1> QED
  BY <1>5 DEF MatchLength

------------------------------------------------------------------------------
\* Lemmas about the state

\* What the types say of Config and of the numbers.
LEMMA Numbers ==
    ASSUME TypeOK
    PROVE  /\ WindowSize \in Nat \ {0} /\ config.minMatch \in Nat
           /\ LongestMatch \in Nat /\ config.minMatch <= LongestMatch
           /\ config.lazyMatching \in BOOLEAN /\ config.maxChainLength \in Int
           /\ size \in Nat /\ position \in 0 .. size /\ inserted \in 0 .. size
           /\ ahead \in {0, 1} /\ From \in Nat
           /\ candidate \in Int /\ chain \in Int
           /\ best.length \in 0 .. LongestMatch /\ best.distance \in 0 .. WindowSize - 1
           /\ match.length \in 0 .. LongestMatch /\ match.distance \in 0 .. WindowSize - 1
<1>1. /\ config.windowBits \in WindowBits /\ config.minMatch \in MinMatches
      /\ config.maxChainLength \in ChainLengths /\ config.lazyMatching \in BOOLEAN
  BY DEF TypeOK, Configs
<1>2. WindowSize \in Nat \ {0}
  BY <1>1, PowersAssumption DEF WindowSize
<1>3. config.minMatch \in Nat /\ config.maxChainLength \in Int /\ MaxExtra \in Nat
  BY <1>1, TokenizerAssumption
<1>4. LongestMatch \in Nat /\ config.minMatch <= LongestMatch
  BY <1>3 DEF LongestMatch
<1>5. /\ size \in Nat /\ position \in 0 .. size /\ inserted \in 0 .. size /\ ahead \in {0, 1}
      /\ candidate \in Int /\ chain \in Int
      /\ best.length \in 0 .. LongestMatch /\ best.distance \in 0 .. WindowSize - 1
      /\ match.length \in 0 .. LongestMatch /\ match.distance \in 0 .. WindowSize - 1
  <2>1. size \in Nat
    BY TokenizerAssumption DEF TypeOK
  <2>2. position \in 0 .. size /\ inserted \in 0 .. size /\ ahead \in {0, 1} /\ chain \in Int
    BY DEF TypeOK
  <2>3. candidate \in Int
    BY <2>1 DEF TypeOK, NoPosition
  <2>4. /\ best.length \in 0 .. LongestMatch /\ best.distance \in 0 .. WindowSize - 1
        /\ match.length \in 0 .. LongestMatch /\ match.distance \in 0 .. WindowSize - 1
    BY DEF TypeOK
  <2> QED
    BY <2>1, <2>2, <2>3, <2>4
<1>6. From \in Nat
  BY <1>5 DEF From
<1> QED
  BY <1>1, <1>2, <1>3, <1>4, <1>5, <1>6

\* Where nothing is inserted, the chains stay as they are.
LEMMA ChainsStay ==
    ASSUME ChainsSound, UNCHANGED <<input, rings>>
    PROVE  ChainsSound'
<1>1. UNCHANGED <<data, size, config, hash, head, prev, inserted>>
  BY DEF input, rings
<1> QED
  BY <1>1 DEF ChainsSound, Hashed, HashAt, WindowSize

\* Hashes are buckets.
LEMMA HashIsBucket ==
    ASSUME TypeOK, NEW p \in Nat, p + HashBytes <= size
    PROVE  HashAt(p) \in Buckets
<1>1. p \in 0 .. size - 1 /\ p + 1 \in 0 .. size - 1 /\ p + 2 \in 0 .. size - 1
  <2>1. size \in Nat
    BY Numbers
  <2> QED
    BY <2>1 DEF HashBytes
<1>2. <<data[p], data[p + 1], data[p + 2]>> \in Alphabet \X Alphabet \X Alphabet
  BY <1>1 DEF TypeOK
<1>3. Hashes[hash] \in [Alphabet \X Alphabet \X Alphabet -> Buckets]
  BY TokenizerAssumption DEF TypeOK
<1> QED
  BY <1>2, <1>3 DEF HashAt

\* Nothing is inserted yet.
LEMMA InitIInv == Init => IInv
<1> SUFFICES ASSUME Init PROVE IInv
  OBVIOUS
<1>1. config.windowBits \in WindowBits /\ config.minMatch \in MinMatches
  BY DEF Init, Configs
<1>2. WindowSize \in Nat \ {0} /\ LongestMatch \in Nat /\ size \in Nat
  <2>1. WindowSize \in Nat \ {0}
    BY <1>1, PowersAssumption DEF WindowSize
  <2>2. config.minMatch \in Nat /\ MaxExtra \in Nat /\ MaxSize \in Nat
    BY <1>1, TokenizerAssumption
  <2> QED
    BY <2>1, <2>2 DEF LongestMatch, Init
<1>3. NoMatch \in [distance : 0 .. WindowSize - 1, length : 0 .. LongestMatch]
  BY <1>2 DEF NoMatch
<1>4. TypeOK
  BY <1>2, <1>3 DEF Init, TypeOK, PCs, NoPosition
<1>5. Progress /\ Pending /\ BestReplays /\ Walking
  BY DEF Init, Progress, Pending, BestReplays, Walking, Searching
<1>6. ChainsSound
  <2>1. \A p : ~Hashed(p) \/ p \notin 0 .. size - 1
    BY <1>2 DEF Init, Hashed
  <2>2. ASSUME NEW b \in Buckets
        PROVE  {q \in 0 .. size - 1 : Hashed(q) /\ HashAt(q) = b} = {}
    BY <2>1
  <2> QED
    BY <2>1, <2>2 DEF ChainsSound, Latest, Init
<1>7. Linked /\ BestIs /\ Exact
  BY DEF Init, Linked, BestIs, Exact
<1> QED
  BY <1>4, <1>5, <1>6, <1>7 DEF IInv

\* Before a search begins nothing is said of it.
LEMMA NoSearchYet ==
    ASSUME pc' \notin {"walk", "decide"}
    PROVE  BestReplays' /\ Walking' /\ Linked' /\ BestIs' /\ Exact'
BY DEF BestReplays, Walking, Linked, BestIs, Exact

\* The head of the loop.
LEMMA BeginKeeps ==
    ASSUME IInv, Begin
    PROVE  IInv'
<1>1. /\ UNCHANGED <<input, rings, search, position, tokens, match>>
      /\ pc = "begin" /\ ahead' = 0
      /\ pc' \in {"invalid", "insert", "done"}
      /\ pc' = "insert" => Valid /\ position < size
  BY DEF Begin
<1>2. TypeOK'
  BY <1>1 DEF IInv, TypeOK, PCs, input, rings, search, WindowSize, LongestMatch
<1>3. Progress' /\ Pending'
  BY <1>1, Numbers DEF IInv, Progress, Pending, Searching, input, rings, Valid, From
<1> QED
  BY <1>1, <1>2, <1>3, ChainsStay, NoSearchYet DEF IInv

\* insertUpTo has come to its end.
LEMMA InsertedKeeps ==
    ASSUME IInv, Inserted
    PROVE  IInv'
<1>1. /\ UNCHANGED <<input, rings, search, position, tokens, ahead, match>>
      /\ pc = "insert" /\ inserted > From /\ pc' = "search"
  BY DEF Inserted
<1>2. TypeOK'
  BY <1>1 DEF IInv, TypeOK, PCs, input, rings, search, WindowSize, LongestMatch
<1>3. Progress'
  BY <1>1, Numbers DEF IInv, Progress, Searching, input, rings, Valid, From
<1>4. Pending'
  BY <1>1 DEF IInv, Pending, Replays, input
<1> QED
  BY <1>1, <1>2, <1>3, <1>4, ChainsStay, NoSearchYet DEF IInv

\* One position more is linked; what is overwritten is a window old.
LEMMA InsertKeeps ==
    ASSUME IInv, InsertOne
    PROVE  IInv'
<1>1. /\ UNCHANGED <<data, size, config, hash, best, candidate, chain, position, tokens, ahead, match, pc>>
      /\ pc = "insert" /\ inserted <= From /\ inserted' = inserted + 1
  BY DEF InsertOne, input, search
<1>2. /\ WindowSize \in Nat \ {0} /\ size \in Nat /\ inserted \in Nat /\ inserted < size
      /\ WindowSize' = WindowSize
  BY <1>1, Numbers DEF IInv, Progress, WindowSize
<1>3. Progress' /\ Pending'
  BY <1>1, <1>2, Numbers DEF IInv, Progress, Pending, Replays, Searching, Valid, From
<1>4. \A q \in Nat : Hashed(q)' <=> Hashed(q) \/ (q = inserted /\ q + HashBytes <= size)
  BY <1>1, <1>2 DEF Hashed, HashBytes
<1>5. \A q : HashAt(q)' = HashAt(q)
  BY <1>1 DEF HashAt
<1>6. CASE inserted + HashBytes > size
  <2>1. head' = head /\ prev' = prev
    BY <1>6 DEF InsertOne
  <2>2. TypeOK'
    BY <1>1, <1>2, <2>1 DEF IInv, TypeOK, WindowSize, LongestMatch
  <2>3. \A q \in Nat : Hashed(q)' <=> Hashed(q)
    <3>1. ASSUME NEW q \in Nat PROVE ~(q = inserted /\ q + HashBytes <= size)
      BY <1>2, <1>6 DEF HashBytes
    <3> QED
      BY <1>4, <3>1
  <2>4. ASSUME NEW b \in Buckets
        PROVE  head'[b] = Latest({q \in 0 .. size - 1 : Hashed(q)' /\ HashAt(q)' = b})
    <3>1. {q \in 0 .. size - 1 : Hashed(q)' /\ HashAt(q)' = b} = {q \in 0 .. size - 1 : Hashed(q) /\ HashAt(q) = b}
      BY <1>5, <2>3
    <3> QED
      BY <2>1, <3>1 DEF IInv, ChainsSound
  <2>5. ASSUME NEW p \in 0 .. size - 1, Hashed(p)', inserted' <= p + WindowSize
        PROVE  prev'[p % WindowSize] = Latest({q \in 0 .. p - 1 : Hashed(q)' /\ HashAt(q)' = HashAt(p)'})
    <3>1. {q \in 0 .. p - 1 : Hashed(q)' /\ HashAt(q)' = HashAt(p)'}
            = {q \in 0 .. p - 1 : Hashed(q) /\ HashAt(q) = HashAt(p)}
      BY <1>5, <2>3
    <3>2. Hashed(p) /\ inserted <= p + WindowSize
      BY <1>1, <1>2, <2>3, <2>5
    <3> QED
      BY <2>1, <3>1, <3>2 DEF IInv, ChainsSound
  <2>6. ChainsSound'
    BY <1>1, <1>2, <2>4, <2>5 DEF ChainsSound
  <2> QED
    BY <1>1, <1>3, <2>2, <2>6, NoSearchYet DEF IInv
<1>7. CASE inserted + HashBytes <= size
  <2> DEFINE new == HashAt(inserted)
             slot == inserted % WindowSize
  <2>1. /\ prev' = [prev EXCEPT ![slot] = head[new]]
        /\ head' = [head EXCEPT ![new] = inserted]
    BY <1>2, <1>7 DEF InsertOne, HashBytes
  <2>2. new \in Buckets
    BY <1>2, <1>7, HashIsBucket DEF IInv
  <2>3. slot \in 0 .. WindowSize - 1
    BY <1>2, Division
  <2>4. head[new] \in 0 .. size - 1 \cup {NoPosition} /\ inserted \in 0 .. size - 1
    BY <1>2, <2>2 DEF IInv, TypeOK
  <2>5. TypeOK'
    BY <1>1, <1>2, <2>1, <2>2, <2>3, <2>4 DEF IInv, TypeOK, WindowSize, LongestMatch
  <2>6. \A q \in Nat : Hashed(q)' <=> Hashed(q) \/ q = inserted
    BY <1>4, <1>7
  <2>7. \A q \in Nat : Hashed(q) => q < inserted
    BY DEF Hashed
  <2>8. ASSUME NEW b \in Buckets
        PROVE  head'[b] = Latest({q \in 0 .. size - 1 : Hashed(q)' /\ HashAt(q)' = b})
    <3> DEFINE S == {q \in 0 .. size - 1 : Hashed(q)' /\ HashAt(q)' = b}
    <3>1. CASE b = new
      <4>1. inserted \in S /\ \A q \in S : q <= inserted
        BY <1>2, <1>5, <2>4, <2>6, <2>7, <3>1
      <4>2. S \subseteq 0 .. size
        BY <1>2
      <4>3. Latest(S) \in S /\ inserted <= Latest(S)
        BY <1>2, <4>1, <4>2, LatestIs
      <4>4. Latest(S) = inserted
        BY <1>2, <4>1, <4>2, <4>3
      <4>5. head'[b] = inserted
        BY <2>1, <2>2, <3>1 DEF IInv, TypeOK
      <4> QED
        BY <4>4, <4>5
    <3>2. CASE b # new
      <4>1. S = {q \in 0 .. size - 1 : Hashed(q) /\ HashAt(q) = b}
        BY <1>5, <2>6, <3>2
      <4>2. head'[b] = head[b]
        BY <2>1, <3>2 DEF IInv, TypeOK
      <4> QED
        BY <4>1, <4>2 DEF IInv, ChainsSound
    <3> QED
      BY <3>1, <3>2
  <2>9. ASSUME NEW p \in 0 .. size - 1, Hashed(p)', inserted' <= p + WindowSize
        PROVE  prev'[p % WindowSize] = Latest({q \in 0 .. p - 1 : Hashed(q)' /\ HashAt(q)' = HashAt(p)'})
    <3>1. p <= inserted
      BY <1>2, <2>6, <2>7, <2>9
    <3>2. {q \in 0 .. p - 1 : Hashed(q)' /\ HashAt(q)' = HashAt(p)'}
            = {q \in 0 .. p - 1 : Hashed(q) /\ HashAt(q) = HashAt(p)}
      BY <1>2, <1>5, <2>6, <3>1
    <3>3. CASE p = inserted
      <4>1. prev'[p % WindowSize] = head[new]
        BY <2>1, <2>3, <3>3 DEF IInv, TypeOK
      <4>2. {q \in 0 .. size - 1 : Hashed(q) /\ HashAt(q) = new}
              = {q \in 0 .. p - 1 : Hashed(q) /\ HashAt(q) = HashAt(p)}
        BY <1>2, <2>4, <2>7, <3>3
      <4> QED
        BY <2>2, <3>2, <4>1, <4>2 DEF IInv, ChainsSound
    <3>4. CASE p # inserted
      <4>1. p < inserted /\ inserted - p < WindowSize /\ Hashed(p)
        BY <1>1, <1>2, <2>6, <2>9, <3>1, <3>4
      <4>2. p % WindowSize # slot /\ p % WindowSize \in 0 .. WindowSize - 1
        <5>1. p \in Nat /\ inserted \in Nat /\ p < inserted /\ inserted - p < WindowSize
          BY <1>2, <4>1
        <5>2. p % WindowSize # slot
          BY <1>2, <5>1, SlotsDiffer
        <5>3. p % WindowSize \in 0 .. WindowSize - 1
          BY <1>2, <5>1, Division
        <5> QED
          BY <5>2, <5>3
      <4>3. prev'[p % WindowSize] = prev[p % WindowSize]
        BY <2>1, <4>2 DEF IInv, TypeOK
      <4>4. inserted <= p + WindowSize
        BY <1>2, <4>1
      <4> QED
        BY <3>2, <4>1, <4>3, <4>4 DEF IInv, ChainsSound
    <3> QED
      BY <3>3, <3>4
  <2>10. ChainsSound'
    BY <1>1, <1>2, <2>8, <2>9 DEF ChainsSound
  <2> QED
    BY <1>1, <1>3, <2>5, <2>10, NoSearchYet DEF IInv
<1> QED
  BY <1>2, <1>6, <1>7 DEF HashBytes

------------------------------------------------------------------------------
\* findLongest

\* A step of a search changes nothing but its locals.
Steady == UNCHANGED <<input, rings, position, tokens, ahead, match, foreseen>>

\* So what is stated in terms of the rest stays as it is.
LEMMA SteadyIs ==
    ASSUME Steady
    PROVE  /\ UNCHANGED <<data, size, config, hash, head, prev, inserted, position, tokens, ahead, match>>
           /\ UNCHANGED <<WindowSize, LongestMatch, From, Limit, Valid>>
           /\ \A q : Length(q)' = Length(q) /\ HashAt(q)' = HashAt(q) /\ (Hashed(q)' <=> Hashed(q))
           /\ \A q : InWindow(q)' <=> InWindow(q)
<1>1. UNCHANGED <<data, size, config, hash, head, prev, inserted, position, tokens, ahead, match>>
  BY DEF Steady, input, rings
<1>2. UNCHANGED <<WindowSize, LongestMatch, From, Valid>>
  BY <1>1 DEF WindowSize, LongestMatch, From, Valid
<1>3. Limit' = Limit
  BY <1>1, <1>2 DEF Limit
<1>4. \A q : Length(q)' = Length(q)
  BY <1>1, <1>2, <1>3 DEF Length, MatchLength
<1>5. \A q : HashAt(q)' = HashAt(q) /\ (Hashed(q)' <=> Hashed(q)) /\ (InWindow(q)' <=> InWindow(q))
  BY <1>1, <1>2 DEF HashAt, Hashed, InWindow
<1> QED
  BY <1>1, <1>2, <1>3, <1>4, <1>5

\* The parts of the invariant that a step of a search does not touch.
LEMMA SteadyKeeps ==
    ASSUME IInv, Steady, pc \in Searching, pc' \in Searching,
           best' \in [distance : 0 .. WindowSize - 1, length : 0 .. LongestMatch],
           candidate' \in 0 .. size - 1 \cup {NoPosition}, chain' \in Int
    PROVE  TypeOK' /\ Progress' /\ Pending' /\ ChainsSound'
<1> USE SteadyIs
<1>1. TypeOK'
  BY DEF IInv, TypeOK, PCs, Searching
<1>2. Progress'
  BY DEF IInv, Progress, Searching
<1>3. Pending'
  BY DEF IInv, Pending, Replays
<1>4. ChainsSound'
  BY ChainsStay DEF IInv, Steady
<1> QED
  BY <1>1, <1>2, <1>3, <1>4

\* The link of a position not yet a window old.
LEMMA LinkIs ==
    ASSUME IInv, NEW p \in Nat, Hashed(p), inserted <= p + WindowSize,
           NEW link, link = prev[p % WindowSize]
    PROVE  /\ link \in 0 .. size - 1 \cup {NoPosition} /\ link < p
           /\ link # NoPosition => Hashed(link) /\ HashAt(link) = HashAt(p)
           /\ \A q \in 0 .. p - 1 : q > link => HashAt(q) # HashAt(p)
<1> DEFINE S == {q \in 0 .. p - 1 : Hashed(q) /\ HashAt(q) = HashAt(p)}
<1>1. p \in 0 .. size - 1 /\ size \in Nat /\ inserted \in Nat /\ WindowSize \in Nat
  BY Numbers DEF IInv, Hashed, HashBytes
<1>2. link = Latest(S)
  BY <1>1 DEF IInv, ChainsSound
<1>3. S \subseteq 0 .. p
  OBVIOUS
<1>4. /\ S = {} => link = NoPosition
      /\ S # {} => link \in S
      /\ \A q \in S : q <= link
  BY <1>2, <1>3, LatestIs
<1>5. \A q \in 0 .. p - 1 : Hashed(q)
  BY <1>1 DEF Hashed, HashBytes
<1>6. link \in Int /\ link < p
  BY <1>4 DEF NoPosition
<1>7. \A q \in 0 .. p - 1 : q > link => q \notin S
  BY <1>4, <1>6
<1> QED
  BY <1>1, <1>4, <1>5, <1>6, <1>7

\* Where three bytes agree, so do the hashes.
LEMMA HashTells ==
    ASSUME NEW q \in Nat, NEW limit \in Nat, From \in Nat,
           MatchLength(From, q, limit) >= HashBytes
    PROVE  HashAt(q) = HashAt(From)
<1>1. MatchLength(From, q, limit) \in Nat
  BY MatchLengthIs
<1>2. /\ 0 \in 0 .. MatchLength(From, q, limit) - 1
      /\ 1 \in 0 .. MatchLength(From, q, limit) - 1
      /\ 2 \in 0 .. MatchLength(From, q, limit) - 1
  BY <1>1 DEF HashBytes
<1>3. data[From + 0] = data[q + 0] /\ data[From + 1] = data[q + 1] /\ data[From + 2] = data[q + 2]
  BY <1>2, MatchLengthIs
<1>4. From + 0 = From /\ q + 0 = q
  OBVIOUS
<1> QED
  BY <1>3, <1>4 DEF HashAt

\* The limit of a search, and what is compared within it.
LEMMA LimitIs ==
    ASSUME IInv, pc \in Searching
    PROVE  /\ Limit \in Nat /\ Limit <= LongestMatch /\ From + Limit <= size
           /\ From + config.minMatch <= size => config.minMatch <= Limit
           /\ config.minMatch \in 3 .. 8
           /\ \A q : Length(q) \in 0 .. Limit /\ \A k \in 0 .. Length(q) - 1 : data[From + k] = data[q + k]
<1>1. From < size /\ Valid
  BY DEF IInv, Progress
<1>2. Limit \in Nat /\ Limit <= LongestMatch /\ From + Limit <= size
  BY <1>1, Numbers DEF IInv, Limit, Least
<1>3. From + config.minMatch <= size => config.minMatch <= Limit
  BY <1>1, Numbers DEF IInv, Limit, Least
<1>4. config.minMatch \in 3 .. 8
  BY <1>1 DEF Valid
<1>5. \A q : Length(q) \in 0 .. Limit /\ \A k \in 0 .. Length(q) - 1 : data[From + k] = data[q + k]
  BY <1>2, MatchLengthIs DEF Length
<1> QED
  BY <1>2, <1>3, <1>4, <1>5

\* There is no room for a match, or the walk starts one link in.
LEMMA StartSearchKeeps ==
    ASSUME IInv, StartSearch
    PROVE  IInv'
<1> USE SteadyIs
<1>1. Steady /\ pc = "search" /\ best' = NoMatch
  BY DEF StartSearch, Steady
<1>2. NoMatch \in [distance : 0 .. WindowSize - 1, length : 0 .. LongestMatch]
  BY Numbers DEF IInv, NoMatch
<1>3. BestReplays' /\ BestIs'
  BY <1>1 DEF BestReplays, BestIs, Replays, NoMatch
<1>4. CASE From + config.minMatch > size
  <2>1. pc' = "decide" /\ UNCHANGED <<candidate, chain>>
    BY <1>4 DEF StartSearch
  <2>2. TypeOK' /\ Progress' /\ Pending' /\ ChainsSound'
    BY <1>1, <1>2, <2>1, SteadyKeeps, Numbers DEF IInv, TypeOK, Searching
  <2>3. Walking' /\ Linked'
    BY <2>1 DEF Walking, Linked
  <2>4. Exact'
    BY <1>1, <1>4, <2>1, Numbers DEF Exact, IInv
  <2> QED
    BY <1>3, <2>2, <2>3, <2>4 DEF IInv
<1>5. CASE From + config.minMatch <= size
  <2>1. /\ pc' = "walk" /\ candidate' = prev[From % WindowSize] /\ chain' = config.maxChainLength
    BY <1>5, Numbers DEF IInv, StartSearch
  <2>2. From \in Nat /\ inserted = From + 1 /\ Hashed(From) /\ inserted <= From + WindowSize
    BY <1>1, <1>5, LimitIs, Numbers DEF IInv, Progress, Searching, Hashed, HashBytes
  <2>3. /\ candidate' \in 0 .. size - 1 \cup {NoPosition} /\ candidate' < From
        /\ candidate' # NoPosition => Hashed(candidate') /\ HashAt(candidate') = HashAt(From)
        /\ \A q \in 0 .. From - 1 : q > candidate' => HashAt(q) # HashAt(From)
    BY <2>1, <2>2, LinkIs
  <2>4. TypeOK' /\ Progress' /\ Pending' /\ ChainsSound'
    BY <1>1, <1>2, <2>1, <2>3, SteadyKeeps, Numbers DEF IInv, Searching
  <2>5. Walking'
    <3>1. config.minMatch \in 3 .. 8 /\ config.minMatch <= Limit /\ Limit \in Nat
      BY <1>1, <1>5, LimitIs DEF Searching
    <3> QED
      BY <1>1, <1>5, <2>1, <2>2, <2>3, <3>1 DEF Walking, NoMatch, NoPosition
  <2>6. Linked'
    BY <1>1, <2>3 DEF Linked
  <2>7. Exact'
    <3>1. ASSUME NEW q \in 0 .. From - 1, q > candidate' PROVE ~(Length(q) >= HashBytes)
      <4>1. Limit \in Nat
        BY <1>1, LimitIs DEF Searching
      <4> QED
        BY <2>2, <2>3, <3>1, <4>1, HashTells DEF Length
    <3>2. Ruled(candidate)'
      BY <1>1, <3>1 DEF Ruled
    <3> QED
      BY <2>1, <3>2 DEF Exact
  <2> QED
    BY <1>3, <2>4, <2>5, <2>6, <2>7 DEF IInv
<1> QED
  BY <1>4, <1>5, Numbers DEF IInv

\* What a step of the walk knows of its candidate.
LEMMA Candidate ==
    ASSUME IInv, pc = "walk", MayExamine,
           NEW link, link = prev[candidate % WindowSize]
    PROVE  /\ candidate \in 0 .. From - 1 /\ Hashed(candidate) /\ HashAt(candidate) = HashAt(From)
           /\ link \in 0 .. size - 1 \cup {NoPosition} /\ link < candidate
           /\ link # NoPosition => Hashed(link) /\ HashAt(link) = HashAt(From)
           /\ \A q \in 0 .. From - 1 : q > link /\ q < candidate => Length(q) < HashBytes
<1>1. candidate \in 0 .. From - 1
  BY Numbers DEF IInv, TypeOK, Walking, MayExamine, NoPosition
<1>2. Hashed(candidate) /\ HashAt(candidate) = HashAt(From)
  BY DEF IInv, Linked, MayExamine
<1>3. inserted = From + 1 /\ inserted <= candidate + WindowSize /\ From \in Nat
  BY <1>1, Numbers DEF IInv, Progress, Searching, MayExamine, InWindow
<1>4. candidate \in Nat
  BY <1>1
<1>5. /\ link \in 0 .. size - 1 \cup {NoPosition} /\ link < candidate
      /\ link # NoPosition => Hashed(link) /\ HashAt(link) = HashAt(candidate)
      /\ \A q \in 0 .. candidate - 1 : q > link => HashAt(q) # HashAt(candidate)
  BY <1>2, <1>3, <1>4, LinkIs
<1>6. Limit \in Nat
  BY LimitIs DEF Searching
<1>7. ASSUME NEW q \in 0 .. From - 1, q > link, q < candidate PROVE Length(q) < HashBytes
  <2>1. q \in Nat /\ q \in 0 .. candidate - 1
    BY <1>1, <1>7
  <2>2. HashAt(q) # HashAt(From)
    BY <1>2, <1>5, <1>7, <2>1
  <2>3. ~(Length(q) >= HashBytes)
    BY <1>3, <1>6, <2>1, <2>2, HashTells DEF Length
  <2>4. Length(q) \in Int
    BY LimitIs DEF Searching
  <2> QED
    BY <2>3, <2>4 DEF HashBytes
<1> QED
  BY <1>1, <1>2, <1>5, <1>7

\* The byte past the best match rules a candidate out only where it is no better.
LEMMA TestIsSound ==
    ASSUME IInv, pc = "walk", MayExamine, ~Improves(Length(candidate))
    PROVE  Length(candidate) <= best.length
<1>1. /\ best.length \in Nat /\ Length(candidate) \in Nat
      /\ \A k \in 0 .. Length(candidate) - 1 : data[From + k] = data[candidate + k]
  BY LimitIs, Numbers DEF IInv, Searching
<1>2. CASE Promising
  BY <1>1, <1>2 DEF Improves
<1>3. CASE ~Promising
  <2>1. data[candidate + best.length] # data[From + best.length]
    BY <1>3 DEF Promising
  <2>2. best.length \notin 0 .. Length(candidate) - 1
    BY <1>1, <2>1
  <2> QED
    BY <1>1, <2>2
<1> QED
  BY <1>2, <1>3

\* A candidate that is no better is passed over, for its link.
LEMMA PassKeeps ==
    ASSUME IInv, Examine, ~Improves(Length(candidate))
    PROVE  IInv'
<1> USE SteadyIs
<1>1. /\ Steady /\ pc = "walk" /\ MayExamine /\ pc' = "walk"
      /\ best' = best /\ chain' = chain - 1 /\ candidate' = prev[candidate % WindowSize]
  BY DEF Examine, Steady, Length
<1>2. /\ candidate \in 0 .. From - 1
      /\ candidate' \in 0 .. size - 1 \cup {NoPosition} /\ candidate' < candidate
      /\ candidate' # NoPosition => Hashed(candidate') /\ HashAt(candidate') = HashAt(From)
      /\ \A q \in 0 .. From - 1 : q > candidate' /\ q < candidate => Length(q) < HashBytes
  BY <1>1, Candidate
<1>3. candidate' \in Int /\ From \in Nat /\ best.distance \in Nat /\ best.length \in Nat /\ chain \in Int
  BY <1>2, Numbers DEF IInv, NoPosition
<1>4. TypeOK' /\ Progress' /\ Pending' /\ ChainsSound'
  <2>1. best' \in [distance : 0 .. WindowSize - 1, length : 0 .. LongestMatch]
    BY <1>1 DEF IInv, TypeOK
  <2> QED
    BY <1>1, <1>2, <1>3, <2>1, SteadyKeeps DEF Searching
<1>5. BestReplays' /\ BestIs'
  BY <1>1 DEF IInv, BestReplays, BestIs, Replays
<1>6. Walking'
  <2>1. candidate' + best.distance < From
    BY <1>1, <1>2, <1>3 DEF IInv, Walking
  <2> QED
    BY <1>1, <2>1 DEF IInv, Walking
<1>7. Linked'
  BY <1>1, <1>2 DEF Linked
<1>8. Exact'
  <2>1. ASSUME NEW q \in 0 .. From - 1, q > candidate', InWindow(From - q), Length(q) >= HashBytes
        PROVE  Length(q) <= best.length /\ (From - q < best.distance => Length(q) < best.length)
    <3>1. CASE q > candidate
      BY <1>1, <2>1, <3>1 DEF IInv, Exact, Ruled
    <3>2. CASE q = candidate
      <4>1. Length(q) <= best.length
        BY <1>1, <3>2, TestIsSound
      <4>2. candidate + best.distance < From
        BY <1>1 DEF IInv, Walking
      <4> QED
        BY <1>2, <1>3, <3>2, <4>1, <4>2
    <3>3. CASE q < candidate
      <4>1. Length(q) < HashBytes /\ Length(q) \in Int
        BY <1>1, <1>2, <2>1, <3>3, LimitIs DEF Searching
      <4> QED
        BY <2>1, <4>1 DEF HashBytes
    <3> QED
      BY <1>2, <3>1, <3>2, <3>3
  <2>2. Ruled(candidate)'
    BY <1>1, <2>1 DEF Ruled
  <2> QED
    BY <1>1, <2>2 DEF Exact
<1> QED
  BY <1>4, <1>5, <1>6, <1>7, <1>8 DEF IInv

\* A better candidate becomes the best; one that cannot be beaten ends the walk.
LEMMA TakeKeeps ==
    ASSUME IInv, Examine, Improves(Length(candidate))
    PROVE  IInv'
<1> USE SteadyIs
<1> DEFINE len == Length(candidate)
<1>1. /\ Steady /\ pc = "walk" /\ MayExamine /\ pc' \in {"walk", "decide"}
      /\ best' = [distance |-> From - candidate, length |-> len] /\ chain' = chain - 1
      /\ pc' = "walk" => ~(len >= Limit) /\ candidate' = prev[candidate % WindowSize]
      /\ pc' = "decide" => len >= Limit /\ UNCHANGED candidate
  BY DEF Examine, Steady, Length
<1>2. candidate \in 0 .. From - 1
  BY <1>1, Candidate
<1>3. pc' = "walk" =>
      /\ candidate' \in 0 .. size - 1 \cup {NoPosition} /\ candidate' < candidate
      /\ candidate' # NoPosition => Hashed(candidate') /\ HashAt(candidate') = HashAt(From)
      /\ \A q \in 0 .. From - 1 : q > candidate' /\ q < candidate => Length(q) < HashBytes
  BY <1>1, Candidate
<1>4. /\ From \in Nat /\ size \in Nat /\ WindowSize \in Nat /\ LongestMatch \in Nat
      /\ best.length \in Nat /\ chain \in Int
  BY Numbers DEF IInv
<1>5. /\ Limit \in Nat /\ Limit <= LongestMatch /\ From + Limit <= size /\ len \in 0 .. Limit
      /\ \A k \in 0 .. len - 1 : data[From + k] = data[candidate + k]
      /\ \A q : Length(q) \in 0 .. Limit
  BY <1>1, LimitIs DEF Searching
<1>6. len > best.length
  BY DEF Improves
<1>7. /\ best'.length = len /\ best'.distance = From - candidate
      /\ From - candidate \in 1 .. From /\ From - candidate <= WindowSize - 1
  BY <1>1, <1>2, <1>4 DEF MayExamine, InWindow
<1>8. TypeOK' /\ Progress' /\ Pending' /\ ChainsSound'
  <2>1. best' \in [distance : 0 .. WindowSize - 1, length : 0 .. LongestMatch]
    BY <1>1, <1>4, <1>5, <1>7
  <2>2. candidate' \in 0 .. size - 1 \cup {NoPosition}
    BY <1>1, <1>3 DEF IInv, TypeOK
  <2> QED
    BY <1>1, <1>4, <2>1, <2>2, SteadyKeeps DEF Searching
<1>9. BestReplays'
  <2>1. ASSUME NEW k \in 0 .. len - 1 PROVE data[From - (From - candidate) + k] = data[From + k]
    <3>1. From - (From - candidate) + k = candidate + k
      BY <1>2, <1>4
    <3> QED
      BY <1>5, <3>1
  <2>2. From + len <= size
    BY <1>4, <1>5
  <2> QED
    BY <1>1, <1>7, <2>1, <2>2 DEF BestReplays, Replays
<1>10. BestIs'
  <2>1. From - (From - candidate) = candidate
    BY <1>2, <1>4
  <2>2. len # 0
    BY <1>4, <1>5, <1>6
  <2> QED
    BY <1>1, <1>7, <2>1, <2>2 DEF BestIs
<1>11. Walking'
  <2>1. SUFFICES ASSUME pc' = "walk"
                 PROVE  From + config.minMatch <= size /\ len < Limit /\ candidate' + (From - candidate) < From
    BY <1>1, <1>7 DEF Walking
  <2>2. candidate' \in Int /\ candidate' < candidate
    BY <1>3, <2>1 DEF NoPosition
  <2>3. From + config.minMatch <= size
    BY <1>1 DEF IInv, Walking
  <2>4. len < Limit
    BY <1>1, <1>5, <2>1
  <2>5. candidate' + (From - candidate) < From
    <3>1. \A a, b, c \in Int : a < b => a + (c - b) < c
      OBVIOUS
    <3>2. candidate \in Int /\ From \in Int
      BY <1>2, <1>4
    <3> QED
      BY <2>2, <3>1, <3>2
  <2> QED
    BY <2>3, <2>4, <2>5
<1>12. Linked'
  BY <1>1, <1>3 DEF Linked
<1>13. ASSUME NEW q \in 0 .. From - 1, q > candidate, InWindow(From - q), Length(q) >= HashBytes
       PROVE  Length(q) < len
  <2>1. Length(q) <= best.length
    BY <1>1, <1>13 DEF IInv, Exact, Ruled
  <2> QED
    BY <1>4, <1>5, <1>6, <2>1
<1>14. CASE pc' = "walk"
  <2>1. ASSUME NEW q \in 0 .. From - 1, q > candidate', InWindow(From - q), Length(q) >= HashBytes
        PROVE  Length(q) <= len /\ (From - q < From - candidate => Length(q) < len)
    <3>1. CASE q > candidate
      BY <1>5, <1>13, <2>1, <3>1
    <3>2. CASE q = candidate
      BY <1>4, <1>5, <3>2
    <3>3. CASE q < candidate
      <4>1. Length(q) < HashBytes /\ Length(q) \in Int
        BY <1>3, <1>5, <1>14, <2>1, <3>3
      <4> QED
        BY <2>1, <4>1 DEF HashBytes
    <3> QED
      BY <1>2, <3>1, <3>2, <3>3
  <2>2. Ruled(candidate)'
    BY <1>1, <1>7, <2>1 DEF Ruled
  <2>3. Exact'
    BY <1>14, <2>2 DEF Exact
  <2> QED
    BY <1>8, <1>9, <1>10, <1>11, <1>12, <2>3 DEF IInv
<1>15. CASE pc' = "decide"
  <2>1. len = Limit
    BY <1>1, <1>5, <1>15
  <2>2. ASSUME NEW q \in 0 .. From - 1, InWindow(From - q), Length(q) >= HashBytes
        PROVE  Length(q) <= len /\ (From - q < From - candidate => Length(q) < len)
    <3>1. Length(q) <= len
      BY <1>5, <2>1
    <3>2. From - q < From - candidate => q > candidate
      BY <1>2, <1>4
    <3> QED
      BY <1>13, <2>2, <3>1, <3>2
  <2>3. Ruled(NoPosition)'
    BY <1>1, <1>7, <2>2 DEF Ruled
  <2>4. From + config.minMatch <= size /\ config.minMatch \in Nat
    BY <1>1, Numbers DEF IInv, Walking
  <2>5. Exact'
    BY <1>1, <1>4, <1>15, <2>3, <2>4 DEF Exact
  <2> QED
    BY <1>8, <1>9, <1>10, <1>11, <1>12, <2>5 DEF IInv
<1> QED
  BY <1>1, <1>14, <1>15

\* The walk is at its end: out of links, of the window or of patience.
LEMMA EndWalkKeeps ==
    ASSUME IInv, EndWalk
    PROVE  IInv'
<1> USE SteadyIs
<1>1. Steady /\ UNCHANGED <<best, candidate, chain>> /\ pc = "walk" /\ pc' = "decide" /\ ~MayExamine
  BY DEF EndWalk, Steady, search
<1>2. TypeOK' /\ Progress' /\ Pending' /\ ChainsSound'
  <2>1. /\ best' \in [distance : 0 .. WindowSize - 1, length : 0 .. LongestMatch]
        /\ candidate' \in 0 .. size - 1 \cup {NoPosition} /\ chain' \in Int
    BY <1>1 DEF IInv, TypeOK
  <2> QED
    BY <1>1, <2>1, SteadyKeeps DEF Searching
<1>3. BestReplays' /\ BestIs'
  BY <1>1 DEF IInv, BestReplays, BestIs, Replays
<1>4. Walking' /\ Linked'
  BY <1>1 DEF Walking, Linked
<1>5. Exact'
  <2>1. ASSUME chain > 0 PROVE Ruled(NoPosition)
    <3>1. candidate = NoPosition \/ ~InWindow(From - candidate)
      BY <1>1, <2>1 DEF MayExamine
    <3>2. Ruled(candidate)
      BY <1>1 DEF IInv, Exact
    <3>3. ASSUME ~InWindow(From - candidate), NEW q \in 0 .. From - 1, InWindow(From - q)
          PROVE  q > candidate
      BY <3>3, Numbers DEF IInv, InWindow
    <3> QED
      BY <3>1, <3>2, <3>3 DEF Ruled
  <2>2. Ruled(NoPosition)' <=> Ruled(NoPosition)
    BY <1>1 DEF Ruled
  <2>3. From + config.minMatch <= size /\ From \in Nat /\ config.minMatch \in Nat /\ size \in Nat
    BY <1>1, Numbers DEF IInv, Walking
  <2> QED
    BY <1>1, <2>1, <2>2, <2>3 DEF Exact
<1> QED
  BY <1>2, <1>3, <1>4, <1>5 DEF IInv

------------------------------------------------------------------------------
\* The loop of tokenize

\* What a search returns: nothing, or a match that can be replayed.
LEMMA FoundIs ==
    ASSUME IInv, pc = "decide"
    PROVE  /\ Found \in [distance : 0 .. WindowSize - 1, length : 0 .. LongestMatch]
           /\ Found.length \in Nat /\ Found.length # 0 => Found.length >= config.minMatch
           /\ Replays(Found, From)
<1>1. CASE best.length < config.minMatch
  <2>1. Found = NoMatch
    BY <1>1 DEF Found
  <2> QED
    BY <2>1, Numbers DEF IInv, NoMatch, Replays
<1>2. CASE ~(best.length < config.minMatch)
  <2>1. Found = best /\ best.length >= config.minMatch
    BY <1>2, Numbers DEF Found, IInv
  <2>2. best \in [distance : 0 .. WindowSize - 1, length : 0 .. LongestMatch] /\ best.length \in Nat
    BY Numbers DEF IInv, TypeOK
  <2> QED
    BY <2>1, <2>2 DEF IInv, BestReplays
<1> QED
  BY <1>1, <1>2

\* The match is kept while the next position is searched.
LEMMA LookAheadKeeps ==
    ASSUME IInv, LookAhead
    PROVE  IInv'
<1>1. /\ UNCHANGED <<data, size, config, hash, head, prev, inserted, best, candidate, chain, position>>
      /\ pc = "decide" /\ ahead = 0 /\ match' = Found /\ Found.length # 0
      /\ ahead' = 1 /\ pc' = "insert" /\ position + 1 < size
  BY DEF LookAhead, input, rings, search
<1>2. UNCHANGED <<WindowSize, LongestMatch, Valid>>
  BY <1>1 DEF WindowSize, LongestMatch, Valid
<1>3. From = position /\ From' = position + 1
  BY <1>1, Numbers DEF IInv, From
<1>4. /\ Found \in [distance : 0 .. WindowSize - 1, length : 0 .. LongestMatch]
      /\ Found.length >= config.minMatch /\ Replays(Found, position)
  BY <1>1, <1>3, FoundIs
<1>5. TypeOK'
  BY <1>1, <1>2, <1>4 DEF IInv, TypeOK, PCs
<1>6. Progress'
  BY <1>1, <1>2, <1>3, Numbers DEF IInv, Progress, Searching
<1>7. Pending'
  BY <1>1, <1>4 DEF Pending, Replays
<1>8. ChainsSound'
  BY <1>1, ChainsStay DEF IInv, input, rings
<1> QED
  BY <1>1, <1>5, <1>6, <1>7, <1>8, NoSearchYet DEF IInv

\* A token is emitted for the bytes at position, and the next is begun.
LEMMA EmitKeeps ==
    ASSUME IInv, pc = "decide", NEW token, NEW length \in Nat \ {0}, position + length <= size,
           Emit(token, length), match' = NoMatch
    PROVE  IInv'
<1>1. /\ UNCHANGED <<data, size, config, hash, head, prev, inserted, best, candidate, chain>>
      /\ position' = position + length /\ pc' = "begin" /\ ahead' = 0
  BY DEF Emit, input, rings, search
<1>2. UNCHANGED <<WindowSize, LongestMatch>>
  BY <1>1 DEF WindowSize, LongestMatch
<1>3. position \in Nat /\ size \in Nat /\ inserted \in Nat /\ ahead \in {0, 1} /\ From = position + ahead
  BY Numbers DEF IInv, From
<1>4. NoMatch \in [distance : 0 .. WindowSize - 1, length : 0 .. LongestMatch]
  BY Numbers DEF IInv, NoMatch
<1>5. TypeOK'
  <2>1. position' \in 0 .. size
    BY <1>1, <1>3
  <2> QED
    BY <1>1, <1>2, <1>4, <2>1 DEF IInv, TypeOK, PCs
<1>6. Progress'
  <2>1. inserted = From + 1
    BY DEF IInv, Progress, Searching
  <2>2. inserted' <= position' + 1
    BY <1>1, <1>3, <2>1
  <2> QED
    BY <1>1, <2>2 DEF Progress, Searching
<1>7. Pending'
  BY <1>1 DEF Pending
<1>8. ChainsSound'
  BY <1>1, ChainsStay DEF IInv, input, rings
<1> QED
  BY <1>1, <1>5, <1>6, <1>7, <1>8, NoSearchYet DEF IInv

\* The byte at position stands for itself.
LEMMA LiteralKeeps ==
    ASSUME IInv, EmitLiteral \/ Defer
    PROVE  IInv'
<1>1. /\ pc = "decide" /\ match' = NoMatch
      /\ Emit(Parse!Literal(data[position]), 1)
  BY DEF EmitLiteral, Defer
<1>2. position + 1 <= size
  BY <1>1, Numbers DEF IInv, Progress, Searching, From
<1> QED
  BY <1>1, <1>2, EmitKeeps

\* The match that EmitMatch takes is one of those found.
LEMMA Taken ==
    ASSUME IInv, EmitMatch
    PROVE  \E m \in {Found, match} :
              /\ m \in [distance : 0 .. WindowSize - 1, length : 0 .. LongestMatch]
              /\ m.length >= config.minMatch /\ Replays(m, position)
              /\ TakeMatch(m)
<1>1. pc = "decide"
  BY DEF EmitMatch
<1>2. CASE ahead = 0 /\ Found.length # 0 /\ TakeMatch(Found)
  <2>1. From = position
    BY <1>2, Numbers DEF IInv, From
  <2> QED
    BY <1>1, <1>2, <2>1, FoundIs
<1>3. CASE ahead = 1 /\ TakeMatch(match)
  <2>1. match \in [distance : 0 .. WindowSize - 1, length : 0 .. LongestMatch]
    BY DEF IInv, TypeOK
  <2> QED
    BY <1>3, <2>1 DEF IInv, Pending
<1> QED
  BY <1>2, <1>3 DEF EmitMatch

\* The bytes of a match are passed over.
LEMMA MatchKeeps ==
    ASSUME IInv, EmitMatch
    PROVE  IInv'
<1>1. pc = "decide"
  BY DEF EmitMatch
<1>2. PICK m \in {Found, match} : /\ m \in [distance : 0 .. WindowSize - 1, length : 0 .. LongestMatch]
                                  /\ m.length >= config.minMatch /\ Replays(m, position)
                                  /\ TakeMatch(m)
  BY Taken
<1>3. config.minMatch \in 3 .. 8 /\ LongestMatch \in Nat
  BY <1>1, LimitIs, Numbers DEF IInv, Searching
<1>4. m.length \in Nat \ {0}
  BY <1>2, <1>3
<1>5. position + m.length <= size
  BY <1>2, <1>4 DEF Replays
<1>6. Emit(Parse!Reference(m), m.length) /\ match' = NoMatch
  BY <1>2 DEF TakeMatch
<1> QED
  BY <1>1, <1>4, <1>5, <1>6, EmitKeeps

\* A step that changes nothing.
LEMMA StutterKeeps ==
    ASSUME IInv, UNCHANGED vars
    PROVE  IInv'
<1> USE DEF vars
<1>1. TypeOK'
  BY DEF IInv, TypeOK, WindowSize, LongestMatch
<1>2. Progress' /\ Pending' /\ BestReplays'
  BY DEF IInv, Progress, Pending, BestReplays, Replays, Valid, From
<1>3. Walking' /\ Linked'
  BY DEF IInv, Walking, Linked, Hashed, HashAt, From, Limit, LongestMatch
<1>4. ChainsSound'
  BY ChainsStay DEF IInv, input, rings
<1>5. Steady
  BY DEF Steady, input, rings
<1>6. BestIs'
  BY <1>5, SteadyIs DEF IInv, BestIs
<1>7. (Ruled(candidate)' <=> Ruled(candidate)) /\ (Ruled(NoPosition)' <=> Ruled(NoPosition))
  BY <1>5, SteadyIs DEF Ruled
<1>8. Exact'
  BY <1>5, <1>7, SteadyIs DEF IInv, Exact
<1> QED
  BY <1>1, <1>2, <1>3, <1>4, <1>6, <1>8 DEF IInv

\* Every step keeps the invariant.
LEMMA NextIInv == IInv /\ [Next]_vars => IInv'
<1> SUFFICES ASSUME IInv, [Next]_vars PROVE IInv'
  OBVIOUS
<1>1. CASE Begin
  BY <1>1, BeginKeeps
<1>2. CASE InsertOne
  BY <1>2, InsertKeeps
<1>3. CASE Inserted
  BY <1>3, InsertedKeeps
<1>4. CASE StartSearch
  BY <1>4, StartSearchKeeps
<1>5. CASE Examine
  BY <1>5, PassKeeps, TakeKeeps
<1>6. CASE EndWalk
  BY <1>6, EndWalkKeeps
<1>7. CASE LookAhead
  BY <1>7, LookAheadKeeps
<1>8. CASE EmitLiteral \/ Defer
  BY <1>8, LiteralKeeps
<1>9. CASE EmitMatch
  BY <1>9, MatchKeeps
<1>10. CASE UNCHANGED vars
  BY <1>10, StutterKeeps
<1> QED
  BY <1>1, <1>2, <1>3, <1>4, <1>5, <1>6, <1>7, <1>8, <1>9, <1>10 DEF Next, Step, Over

\* The invariant holds in every state.
LEMMA Invariance == Spec => []IInv
<1> QED
  BY InitIInv, NextIInv, PTL DEF Spec

------------------------------------------------------------------------------
\* The theorems

\* The chains are what findLongest takes them for, in spite of the ring (lz77.cpp:79-85, 124-129).
THEOREM ChainsAreSound == Spec => []ChainsSound
<1>1. IInv => ChainsSound
  BY DEF IInv
<1> QED
  BY <1>1, Invariance, PTL

\* The types, and the bounds of every search (lz77.cpp:62-108).
THEOREM StaysInBounds == Spec => []Inv
<1>1. IInv => SearchInBounds
  <2> SUFFICES ASSUME IInv, pc = "walk" PROVE SearchInBounds
    BY DEF SearchInBounds
  <2>1. inserted = From + 1
    BY DEF IInv, Progress, Searching
  <2>2. /\ best.length \in Nat /\ best.distance \in Nat /\ candidate \in Int /\ From \in Nat /\ size \in Nat
        /\ Limit \in Nat /\ From + Limit <= size
    BY LimitIs, Numbers DEF IInv, Searching
  <2>3. best.length < Limit /\ candidate + best.distance < From
    BY DEF IInv, Walking
  <2>4. From + best.length < size /\ candidate < From
    BY <2>2, <2>3
  <2> QED
    BY <2>1, <2>3, <2>4 DEF SearchInBounds
<1>2. IInv => Inv
  BY <1>1 DEF IInv, Inv
<1> QED
  BY <1>2, Invariance, PTL

\* A walk goes strictly back, so it ends (lz77.cpp:52-54, 79-87).
THEOREM WalksGoBack == Spec => WalkGoesBack
<1>1. ASSUME IInv, [Next]_vars, pc = "walk", pc' = "walk", vars' # vars
      PROVE  candidate' < candidate
  <2>1. Examine
    BY <1>1 DEF Next, Step, Over, Begin, InsertOne, Inserted, StartSearch, EndWalk, LookAhead,
                EmitLiteral, Defer, EmitMatch, vars
  <2>2. MayExamine /\ candidate' = prev[candidate % WindowSize]
    BY <1>1, <2>1 DEF Examine
  <2> QED
    BY <1>1, <2>2, Candidate
<1>2. IInv /\ [Next]_vars => [pc = "walk" /\ pc' = "walk" => candidate' < candidate]_vars
  BY <1>1
<1> QED
  BY <1>2, Invariance, PTL DEF Spec, WalkGoesBack

\* The best match of a search not cut short is the longest, and the nearest of
\* the longest.
LEMMA BestIsLongest ==
    ASSUME IInv, pc = "decide", From + config.minMatch <= size, chain > 0
    PROVE  Found = LongestFrom(From)
<1> DEFINE distances == 1 .. Least(From, WindowSize - 1)
           length == [d \in distances |-> Length(From - d)]
           longest == {d \in distances : /\ length[d] >= config.minMatch
                                         /\ \A e \in distances : length[e] <= length[d]}
           nearest == CHOOSE d \in longest : \A e \in longest : d <= e
<1>1. LongestFrom(From) = IF longest = {} THEN NoMatch
                          ELSE [distance |-> nearest, length |-> length[nearest]]
  BY DEF LongestFrom, Length, Limit
<1>2. /\ From \in Nat /\ WindowSize \in Nat \ {0} /\ best.length \in Nat /\ best.distance \in 0 .. WindowSize - 1
      /\ config.minMatch \in 3 .. 8 /\ \A q : Length(q) \in Nat
  BY LimitIs, Numbers DEF IInv, Searching
<1>3. \A d : d \in distances <=> d \in 1 .. From /\ d < WindowSize
  BY <1>2 DEF Least
<1>4. ASSUME NEW d \in distances
      PROVE  /\ length[d] = Length(From - d) /\ length[d] \in Nat /\ d \in Nat
             /\ length[d] >= HashBytes =>
                  length[d] <= best.length /\ (d < best.distance => length[d] < best.length)
  <2>1. From - d \in 0 .. From - 1 /\ From - (From - d) = d /\ d < WindowSize /\ d \in Nat
    BY <1>2, <1>3, <1>4
  <2>2. Ruled(NoPosition)
    BY DEF IInv, Exact
  <2>3. From - d > NoPosition /\ InWindow(From - (From - d))
    BY <1>2, <2>1 DEF NoPosition, InWindow
  <2>4. length[d] = Length(From - d)
    OBVIOUS
  <2>5. Length(From - d) >= HashBytes =>
          Length(From - d) <= best.length /\ (d < best.distance => Length(From - d) < best.length)
    BY <2>1, <2>2, <2>3 DEF Ruled
  <2> QED
    BY <1>2, <2>1, <2>4, <2>5
<1> HIDE DEF distances, length
<1>5. CASE best.length < config.minMatch
  <2>1. \A d \in distances : ~(length[d] >= config.minMatch)
    BY <1>2, <1>4, <1>5 DEF HashBytes
  <2>2. longest = {}
    BY <2>1
  <2> QED
    BY <1>1, <1>5, <2>2 DEF Found
<1>6. CASE best.length >= config.minMatch
  <2>1. best.distance \in distances /\ length[best.distance] = best.length
    <3>1. best.distance \in 1 .. From /\ best.length = Length(From - best.distance)
      BY <1>2, <1>6 DEF IInv, BestIs
    <3>2. best.distance \in distances
      BY <1>2, <1>3, <3>1
    <3> QED
      BY <1>4, <3>1, <3>2
  <2>2. \A e \in distances : length[e] <= best.length
    BY <1>2, <1>4, <1>6 DEF HashBytes
  <2>3. best.distance \in longest
    BY <1>6, <2>1, <2>2
  <2>4. ASSUME NEW d \in longest PROVE best.distance <= d
    <3>1. d \in distances /\ best.length <= length[d] /\ length[d] >= HashBytes
      BY <1>2, <1>4, <2>1, <2>4 DEF HashBytes
    <3>2. ~(length[d] < best.length) /\ d \in Nat
      BY <1>2, <1>4, <3>1
    <3> QED
      BY <1>2, <1>4, <3>1, <3>2
  <2>5. \A d \in longest : d \in Nat
    BY <1>4
  <2>6. nearest = best.distance
    <3> HIDE DEF longest
    <3>1. nearest \in longest /\ \A e \in longest : nearest <= e
      BY <2>3, <2>4
    <3>2. nearest <= best.distance /\ best.distance <= nearest
      BY <2>3, <2>4, <3>1
    <3> QED
      BY <1>2, <2>5, <3>1, <3>2
  <2>7. best = [distance |-> best.distance, length |-> best.length]
    BY DEF IInv, TypeOK
  <2>8. Found = best
    BY <1>2, <1>6 DEF Found
  <2> QED
    BY <1>1, <2>1, <2>3, <2>6, <2>7, <2>8
<1> QED
  BY <1>2, <1>5, <1>6

\* A search not cut short by maxChainLength finds the longest match in reach, and
\* the nearest of the longest (lz77.cpp:27-31, 91-95).
THEOREM SearchesAreExact == Spec => []SearchExact
<1>1. ASSUME IInv, pc = "decide", From + config.minMatch > size
      PROVE  Found = LongestFrom(From)
  <2>1. /\ Limit \in Nat /\ From \in Nat /\ size \in Nat /\ WindowSize \in Nat \ {0}
        /\ config.minMatch \in 3 .. 8 /\ From + Limit <= size
    BY <1>1, LimitIs, Numbers DEF IInv, Searching
  <2>2. \A q : Length(q) \in 0 .. Limit
    BY <1>1, LimitIs DEF Searching
  <2>3. \A q : ~(Length(q) >= config.minMatch)
    BY <1>1, <2>1, <2>2
  <2>4. LongestFrom(From) = NoMatch
    <3> DEFINE distances == 1 .. Least(From, WindowSize - 1)
               length == [d \in distances |-> Length(From - d)]
    <3>1. {d \in distances : /\ length[d] >= config.minMatch
                             /\ \A e \in distances : length[e] <= length[d]} = {}
      BY <2>3
    <3> QED
      BY <3>1 DEF LongestFrom, Length, Limit
  <2>5. best = NoMatch
    BY <1>1 DEF IInv, Exact
  <2> QED
    BY <2>1, <2>4, <2>5 DEF Found, NoMatch
<1>2. IInv => SearchExact
  BY <1>1, BestIsLongest, Numbers DEF SearchExact, IInv
<1> QED
  BY <1>2, Invariance, PTL

\* Nothing is covered yet.
LEMMA InitParses == Init => Parse!Init
BY DEF Init, Parse!Init

\* A step emits a token, or covers nothing.
LEMMA StepParses == IInv /\ [Next]_vars => [Parse!Next]_(Parse!vars)
<1> SUFFICES ASSUME IInv, [Next]_vars PROVE Parse!Next \/ UNCHANGED Parse!vars
  OBVIOUS
<1>1. CASE Begin \/ InsertOne \/ Inserted \/ StartSearch \/ Examine \/ EndWalk \/ LookAhead \/ UNCHANGED vars
  <2>1. UNCHANGED <<input, position, tokens>>
    BY <1>1 DEF Begin, InsertOne, Inserted, StartSearch, Examine, EndWalk, LookAhead, vars, input
  <2>2. UNCHANGED <<data, size, config, position, tokens>>
    BY <2>1 DEF input
  <2> QED
    BY <2>2 DEF Parse!vars, WindowSize, LongestMatch
<1>2. CASE EmitLiteral \/ Defer
  <2>1. pc = "decide" /\ Emit(Parse!Literal(data[position]), 1)
    BY <1>2 DEF EmitLiteral, Defer
  <2>2. position < size
    BY <2>1, Numbers DEF IInv, Progress, Searching, From
  <2>3. Parse!EmitLiteral
    BY <2>1, <2>2 DEF Parse!EmitLiteral, Emit, input, WindowSize, LongestMatch
  <2> QED
    BY <2>3 DEF Parse!Next
<1>3. CASE EmitMatch
  <2>1. PICK m \in {Found, match} : /\ m \in [distance : 0 .. WindowSize - 1, length : 0 .. LongestMatch]
                                    /\ m.length >= config.minMatch /\ Replays(m, position)
                                    /\ TakeMatch(m)
    BY <1>3, Taken
  <2>2. config.minMatch \in 3 .. 8 /\ LongestMatch \in Nat /\ WindowSize \in Nat
    BY <1>3, LimitIs, Numbers DEF IInv, EmitMatch, Searching
  <2>3. m.length \in config.minMatch .. LongestMatch /\ m.length > 0
    BY <2>1, <2>2
  <2>4. /\ m.distance >= 1 /\ m.distance <= position /\ position + m.length <= size
        /\ \A k \in 0 .. m.length - 1 : data[position - m.distance + k] = data[position + k]
    BY <2>1, <2>3 DEF Replays
  <2>5. m.distance \in 1 .. WindowSize - 1
    BY <2>1, <2>2, <2>4
  <2>6. Emit(Parse!Reference(m), m.length)
    BY <2>1 DEF TakeMatch
  <2>7. UNCHANGED <<data, size, WindowSize - 1, config.minMatch .. LongestMatch>>
    BY <2>6 DEF Emit, input, WindowSize, LongestMatch
  <2>8. Parse!EmitMatch(m)
    BY <2>3, <2>4, <2>5, <2>6, <2>7 DEF Parse!EmitMatch, Parse!Repeats, Emit
  <2>9. m = [distance |-> m.distance, length |-> m.length]
    BY <2>1
  <2> QED
    BY <2>3, <2>5, <2>8, <2>9 DEF Parse!Next
<1> QED
  BY <1>1, <1>2, <1>3 DEF Next, Step, Over

\* tokenize produces an LZ77 parse of its input (lz77.cpp:173-205).
THEOREM TokenizeParses == Spec => Contract
<1> QED
  BY InitParses, StepParses, Invariance, PTL DEF Spec, Contract, Parse!Spec

------------------------------------------------------------------------------
\* Looking ahead

\* The locals of a search, and what a turn of its loop makes of them.
Now == [best |-> best, candidate |-> candidate, chain |-> chain, walking |-> pc = "walk"]

Start == [best |-> NoMatch, candidate |-> prev[From % WindowSize],
          chain |-> config.maxChainLength, walking |-> TRUE]

Goes(s) == s.candidate # NoPosition /\ s.chain > 0 /\ InWindow(From - s.candidate)

Betters(s) ==
    /\ s.best.length = 0 \/ data[s.candidate + s.best.length] = data[From + s.best.length]
    /\ Length(s.candidate) > s.best.length

After(s) ==
    IF ~Goes(s)
    THEN [best |-> s.best, candidate |-> s.candidate, chain |-> s.chain, walking |-> FALSE]
    ELSE [best      |-> IF Betters(s)
                        THEN [distance |-> From - s.candidate, length |-> Length(s.candidate)]
                        ELSE s.best,
          candidate |-> IF Betters(s) /\ Length(s.candidate) >= Limit THEN s.candidate
                        ELSE prev[s.candidate % WindowSize],
          chain     |-> s.chain - 1,
          walking   |-> ~(Betters(s) /\ Length(s.candidate) >= Limit)]

Path(f, n, s, t) ==
    /\ DOMAIN f = 0 .. n /\ f[0] = s /\ f[n] = t
    /\ \A i \in 0 .. n - 1 : f[i].walking /\ f[i + 1] = After(f[i])

Reaches(s, t) == \E n \in Nat : \E f : Path(f, n, s, t)

Answer(s) == IF s.best.length < config.minMatch THEN NoMatch ELSE s.best

\* The search made one byte ahead went from Start to where it is.
Walked ==
    ahead = 1 /\ (pc = "walk" \/ (pc = "decide" /\ From + config.minMatch <= size)) =>
        Reaches(Start, Now)

\* What was foreseen is where the search from here goes.
Foretold ==
    ahead = 0 /\ foreseen # NotForeseen =>
        /\ inserted = From + 1 /\ From + config.minMatch <= size
        /\ \E t : /\ ~t.walking /\ foreseen = Answer(t)
                  /\ Reaches(IF pc \in {"walk", "decide"} THEN Now ELSE Start, t)

\* A turn of the loop is After.
LEMMA TurnIs ==
    ASSUME Examine \/ EndWalk
    PROVE  Now.walking /\ Now' = After(Now)
<1>1. pc = "walk" /\ Now.walking /\ (Goes(Now) <=> MayExamine)
  BY DEF Examine, EndWalk, Now, Goes, MayExamine
<1>2. CASE EndWalk
  <2>1. ~Goes(Now) /\ pc' = "decide" /\ UNCHANGED <<best, candidate, chain>>
    BY <1>1, <1>2 DEF EndWalk, search
  <2>2. Now' = [best |-> best, candidate |-> candidate, chain |-> chain, walking |-> FALSE]
    BY <2>1 DEF Now
  <2> QED
    BY <1>1, <2>1, <2>2 DEF After, Now
<1>3. CASE Examine
  <2>1. Goes(Now) /\ (Betters(Now) <=> Improves(Length(candidate)))
    BY <1>1, <1>3 DEF Examine, Betters, Improves, Promising, Now
  <2>2. CASE Betters(Now) /\ Length(candidate) >= Limit
    <3>1. /\ best' = [distance |-> From - candidate, length |-> Length(candidate)]
          /\ candidate' = candidate /\ chain' = chain - 1 /\ pc' = "decide"
      BY <1>3, <2>1, <2>2 DEF Examine, Length
    <3> QED
      BY <1>1, <2>1, <2>2, <3>1 DEF After, Now
  <2>3. CASE ~(Betters(Now) /\ Length(candidate) >= Limit)
    <3>1. /\ best' = IF Betters(Now)
                     THEN [distance |-> From - candidate, length |-> Length(candidate)] ELSE best
          /\ candidate' = prev[candidate % WindowSize] /\ chain' = chain - 1 /\ pc' = "walk"
      BY <1>1, <1>3, <2>1, <2>3 DEF Examine, Length
    <3> QED
      BY <1>1, <2>1, <2>3, <3>1 DEF After, Now
  <2> QED
    BY <2>2, <2>3
<1> QED
  BY <1>2, <1>3

\* A search depends on the input, the chains and its position alone.
LEMMA SameSearch ==
    ASSUME UNCHANGED <<data, size, config, hash, prev, From>>
    PROVE  Start' = Start /\ \A s, t : (Answer(s)' = Answer(s)) /\ (Reaches(s, t)' <=> Reaches(s, t))
<1>1. UNCHANGED <<WindowSize, LongestMatch>>
  BY DEF WindowSize, LongestMatch
<1>2. Limit' = Limit
  BY <1>1 DEF Limit
<1>3. \A q : Length(q)' = Length(q)
  BY <1>2 DEF Length, MatchLength
<1>4. \A s : (Goes(s)' <=> Goes(s)) /\ (Betters(s)' <=> Betters(s))
  BY <1>1, <1>3 DEF Goes, Betters, InWindow
<1>5. \A s : After(s)' = After(s)
  BY <1>1, <1>2, <1>3, <1>4 DEF After
<1>6. \A s, t : Reaches(s, t)' <=> Reaches(s, t)
  BY <1>5 DEF Reaches, Path
<1>7. \A s : Answer(s)' = Answer(s)
  BY DEF Answer
<1>8. Start' = Start
  BY <1>1 DEF Start
<1> QED
  BY <1>6, <1>7, <1>8

\* A search is where it is.
LEMMA ReachesSelf ==
    ASSUME NEW s
    PROVE  Reaches(s, s)
<1>1. Path([i \in 0 .. 0 |-> s], 0, s, s)
  BY DEF Path
<1> QED
  BY <1>1 DEF Reaches

\* A turn more at the end of a path.
LEMMA ReachesFurther ==
    ASSUME NEW s, NEW t, Reaches(s, t), t.walking
    PROVE  Reaches(s, After(t))
<1>1. PICK n \in Nat : \E h : Path(h, n, s, t)
  BY DEF Reaches
<1>2. PICK f : Path(f, n, s, t)
  BY <1>1
<1> DEFINE g == [i \in 0 .. n + 1 |-> IF i = n + 1 THEN After(t) ELSE f[i]]
<1>3. g[0] = s /\ g[n + 1] = After(t) /\ g[n] = t
  BY <1>2 DEF Path
<1>4. ASSUME NEW i \in 0 .. n PROVE g[i].walking /\ g[i + 1] = After(g[i])
  <2>1. CASE i = n
    BY <1>3, <2>1
  <2>2. CASE i # n
    <3>1. i \in 0 .. n - 1 /\ g[i] = f[i] /\ g[i + 1] = f[i + 1]
      BY <2>2
    <3> QED
      BY <1>2, <3>1 DEF Path
  <2> QED
    BY <2>1, <2>2
<1>5. Path(g, n + 1, s, After(t))
  <2>1. DOMAIN g = 0 .. n + 1 /\ 0 .. (n + 1) - 1 = 0 .. n
    OBVIOUS
  <2> HIDE DEF g
  <2> QED
    BY <1>3, <1>4, <2>1 DEF Path
<1> QED
  BY <1>5 DEF Reaches

\* A turn less at its beginning.
LEMMA ReachesFrom ==
    ASSUME NEW s, NEW t, Reaches(s, t), s.walking, ~t.walking
    PROVE  Reaches(After(s), t)
<1>1. PICK n \in Nat : \E h : Path(h, n, s, t)
  BY DEF Reaches
<1>2. PICK f : Path(f, n, s, t)
  BY <1>1
<1>3. n # 0
  BY <1>2 DEF Path
<1> DEFINE g == [i \in 0 .. n - 1 |-> f[i + 1]]
<1>4. n - 1 \in Nat /\ g[0] = After(s) /\ g[n - 1] = t
  <2>1. 0 \in 0 .. n - 1 /\ n - 1 \in 0 .. n - 1 /\ f[0 + 1] = After(s) /\ f[n] = t
    BY <1>2, <1>3 DEF Path
  <2> QED
    BY <1>3, <2>1
<1>5. ASSUME NEW i \in 0 .. (n - 1) - 1 PROVE g[i].walking /\ g[i + 1] = After(g[i])
  <2>1. i + 1 \in 0 .. n - 1 /\ i \in 0 .. n - 1 /\ g[i] = f[i + 1] /\ g[i + 1] = f[(i + 1) + 1]
    OBVIOUS
  <2> QED
    BY <1>2, <2>1 DEF Path
<1>6. Path(g, n - 1, After(s), t)
  <2>1. DOMAIN g = 0 .. n - 1
    OBVIOUS
  <2> HIDE DEF g
  <2> QED
    BY <1>4, <1>5, <2>1 DEF Path
<1> QED
  BY <1>4, <1>6 DEF Reaches

\* A search at its end goes nowhere else.
LEMMA ReachesItsEnd ==
    ASSUME NEW s, NEW t, Reaches(s, t), ~s.walking
    PROVE  t = s
<1>1. PICK n \in Nat : \E h : Path(h, n, s, t)
  BY DEF Reaches
<1>2. PICK f : Path(f, n, s, t)
  BY <1>1
<1>3. n = 0
  <2>1. SUFFICES ASSUME n # 0 PROVE FALSE
    OBVIOUS
  <2>2. 0 \in 0 .. n - 1
    BY <2>1
  <2> QED
    BY <1>2, <2>2 DEF Path
<1> QED
  BY <1>2, <1>3 DEF Path

\* Nothing is foreseen at first.
LEMMA InitForetold == Init => Walked /\ Foretold
BY DEF Init, Walked, Foretold

\* The search one byte ahead is followed turn by turn.
LEMMA NextWalked ==
    ASSUME IInv, IInv', Walked, [Next]_vars
    PROVE  Walked'
<1> SUFFICES ASSUME ahead' = 1, pc' = "walk" \/ (pc' = "decide" /\ (From + config.minMatch <= size)')
             PROVE  Reaches(Start, Now)'
  BY DEF Walked
<1>1. StartSearch \/ Examine \/ EndWalk \/ UNCHANGED vars
  BY DEF Next, Step, Over, Begin, InsertOne, Inserted, LookAhead, EmitLiteral, Defer, EmitMatch,
         TakeMatch, Emit
<1>2. UNCHANGED <<data, size, config, hash, head, prev, inserted, position, ahead>>
  BY <1>1 DEF StartSearch, Examine, EndWalk, vars, input, rings
<1>3. From' = From
  BY <1>2 DEF From
<1>4. \A t : Reaches(Start, t)' <=> Reaches(Start, t)
  BY <1>2, <1>3, SameSearch
<1>5. SUFFICES Reaches(Start, Now')
  BY <1>2, <1>3, SameSearch
<1>6. CASE StartSearch
  <2>1. ~(From + config.minMatch > size)
    BY <1>2, <1>3, <1>6, Numbers DEF IInv, StartSearch
  <2>2. Now' = Start
    BY <1>6, <2>1 DEF StartSearch, Now, Start
  <2> QED
    BY <2>2, ReachesSelf
<1>7. CASE Examine \/ EndWalk
  <2>1. pc = "walk" /\ Now.walking /\ Now' = After(Now)
    BY <1>7, TurnIs DEF Examine, EndWalk
  <2>2. Reaches(Start, Now)
    BY <1>2, <2>1 DEF Walked
  <2> QED
    BY <2>1, <2>2, ReachesFurther
<1>8. CASE UNCHANGED vars
  <2>1. Now' = Now /\ pc' = pc
    BY <1>8 DEF vars, Now
  <2> QED
    BY <1>2, <1>3, <2>1 DEF Walked
<1> QED
  BY <1>1, <1>6, <1>7, <1>8

\* What was foreseen stays ahead of the search that comes to it.
LEMMA NextForetold ==
    ASSUME IInv, IInv', Walked, Foretold, [Next]_vars
    PROVE  Foretold'
<1> SUFFICES ASSUME ahead' = 0, foreseen' # NotForeseen
             PROVE  /\ (inserted = From + 1)' /\ (From + config.minMatch <= size)'
                    /\ \E t : /\ ~t.walking /\ foreseen' = Answer(t)'
                              /\ Reaches(IF pc \in {"walk", "decide"} THEN Now ELSE Start, t)'
  BY DEF Foretold
<1>1. CASE Defer
  <2>1. /\ pc = "decide" /\ ahead = 1 /\ Found.length > match.length /\ foreseen' = Found
        /\ UNCHANGED <<data, size, config, hash, head, prev, inserted, best, candidate, chain>>
        /\ position' = position + 1 /\ pc' = "begin"
    BY <1>1 DEF Defer, Emit, input, rings, search
  <2>2. From' = From /\ From \in Nat /\ config.minMatch \in Nat /\ size \in Nat
    BY <2>1, Numbers DEF IInv, From
  <2>3. From + config.minMatch <= size
    <3>1. SUFFICES ASSUME From + config.minMatch > size PROVE FALSE
      BY <2>2
    <3>2. best = NoMatch
      BY <2>1, <3>1 DEF IInv, Exact
    <3>3. Found.length = 0
      BY <3>2 DEF Found, NoMatch
    <3> QED
      BY <2>1, <3>3, Numbers DEF IInv
  <2>4. Reaches(Start, Now) /\ ~Now.walking
    BY <2>1, <2>3 DEF Walked, Now
  <2>5. Found = Answer(Now)
    BY DEF Found, Answer, Now
  <2>6. inserted = From + 1
    BY <2>1 DEF IInv, Progress, Searching
  <2>7. \A t : Answer(t)' = Answer(t) /\ (Reaches(Start, t)' <=> Reaches(Start, t))
    BY <2>1, <2>2, SameSearch
  <2> QED
    BY <2>1, <2>2, <2>3, <2>4, <2>5, <2>6, <2>7
<1>2. CASE ~Defer
  <2>1. /\ ahead = 0 /\ foreseen # NotForeseen
        /\ Begin \/ InsertOne \/ Inserted \/ StartSearch \/ Examine \/ EndWalk \/ UNCHANGED vars
    <3>1. ~LookAhead /\ ~EmitLiteral /\ ~EmitMatch
      BY DEF LookAhead, EmitLiteral, EmitMatch, TakeMatch
    <3>2. Begin \/ InsertOne \/ Inserted \/ StartSearch \/ Examine \/ EndWalk \/ UNCHANGED vars
      BY <1>2, <3>1 DEF Next, Step, Over
    <3>3. foreseen' = foreseen
      BY <3>2 DEF Begin, InsertOne, Inserted, StartSearch, Examine, EndWalk, vars
    <3>4. ahead = 0
      <4>1. CASE Begin
        BY <4>1, Numbers DEF IInv, Progress, Begin, Searching
      <4>2. CASE InsertOne \/ Inserted \/ StartSearch \/ Examine \/ EndWalk \/ UNCHANGED vars
        BY <4>2 DEF InsertOne, Inserted, StartSearch, Examine, EndWalk, vars
      <4> QED
        BY <3>2, <4>1, <4>2
    <3> QED
      BY <3>2, <3>3, <3>4
  <2>2. /\ inserted = From + 1 /\ From + config.minMatch <= size
        /\ \E t : /\ ~t.walking /\ foreseen = Answer(t)
                  /\ Reaches(IF pc \in {"walk", "decide"} THEN Now ELSE Start, t)
    BY <2>1 DEF Foretold
  <2>3. PICK t : /\ ~t.walking /\ foreseen = Answer(t)
                 /\ Reaches(IF pc \in {"walk", "decide"} THEN Now ELSE Start, t)
    BY <2>2
  <2>4. ~InsertOne
    BY <2>2, Numbers DEF IInv, InsertOne
  <2>5. UNCHANGED <<data, size, config, hash, head, prev, inserted, position, ahead, foreseen>>
    <3>1. CASE Begin
      BY <2>1, <3>1 DEF Begin, input, rings
    <3>2. CASE Inserted \/ StartSearch \/ Examine \/ EndWalk \/ UNCHANGED vars
      BY <3>2 DEF Inserted, StartSearch, Examine, EndWalk, vars, input, rings
    <3> QED
      BY <2>1, <2>4, <3>1, <3>2
  <2>6. From' = From
    BY <2>5 DEF From
  <2>7. \A s, u : (Answer(u)' = Answer(u)) /\ (Reaches(s, u)' <=> Reaches(s, u))
    BY <2>5, <2>6, SameSearch
  <2>8. Start' = Start
    BY <2>5, <2>6, SameSearch
  <2>9. SUFFICES Reaches(IF pc' \in {"walk", "decide"} THEN Now' ELSE Start, t)
    BY <2>2, <2>3, <2>5, <2>6, <2>7, <2>8
  <2>10. CASE Begin \/ Inserted
    BY <2>3, <2>10 DEF Begin, Inserted
  <2>11. CASE StartSearch
    <3>1. pc = "search" /\ ~(From + config.minMatch > size)
      BY <2>2, <2>11, Numbers DEF IInv, StartSearch
    <3>2. Now' = Start
      BY <2>11, <3>1 DEF StartSearch, Now, Start
    <3> QED
      BY <2>3, <3>1, <3>2
  <2>12. CASE Examine \/ EndWalk
    <3>1. pc = "walk" /\ Now.walking /\ Now' = After(Now) /\ pc' \in {"walk", "decide"}
      BY <2>12, TurnIs DEF Examine, EndWalk
    <3> QED
      BY <2>3, <3>1, ReachesFrom
  <2>13. CASE UNCHANGED vars
    <3>1. Now' = Now /\ pc' = pc
      BY <2>13 DEF vars, Now
    <3> QED
      BY <2>3, <3>1
  <2> QED
    BY <2>1, <2>4, <2>10, <2>11, <2>12, <2>13
<1> QED
  BY <1>1, <1>2

\* A match one byte later for which a byte was given up is then found again:
\* looking ahead leaves the chains as the next search would have had them
\* (lz77.cpp:51-54, 178-190).
THEOREM LookaheadIsRepeated == Spec => []LookaheadRepeats
<1>1. Init => IInv /\ Walked /\ Foretold
  BY InitIInv, InitForetold
<1>2. IInv /\ Walked /\ Foretold /\ [Next]_vars => (IInv /\ Walked /\ Foretold)'
  BY NextIInv, NextWalked, NextForetold
<1>3. ASSUME IInv, Foretold, pc = "decide", ahead = 0, foreseen # NotForeseen
      PROVE  Found = foreseen
  <2>1. PICK t : ~t.walking /\ foreseen = Answer(t) /\ Reaches(Now, t)
    BY <1>3 DEF Foretold
  <2>2. ~Now.walking
    BY <1>3 DEF Now
  <2>3. t = Now
    BY <2>1, <2>2, ReachesItsEnd
  <2> QED
    BY <2>1, <2>3 DEF Found, Answer, Now
<1>4. IInv /\ Foretold => LookaheadRepeats
  BY <1>3 DEF LookaheadRepeats
<1> QED
  BY <1>1, <1>2, <1>4, PTL DEF Spec

------------------------------------------------------------------------------
\* The round trip

\* The input as far as n.
Prefix(n) == [k \in 1 .. n |-> data[k - 1]]

\* A byte more of the input.
LEMMA PrefixGrows ==
    ASSUME TypeOK, NEW n \in Nat, n < size
    PROVE  /\ Prefix(n) \in Seq(Alphabet) /\ Len(Prefix(n)) = n
           /\ Append(Prefix(n), data[n]) = Prefix(n + 1)
<1>1. size \in Nat /\ data \in [0 .. size - 1 -> Alphabet]
  BY Numbers DEF TypeOK
<1>2. \A k \in 1 .. n + 1 : data[k - 1] \in Alphabet
  BY <1>1
<1>3. Prefix(n) \in Seq(Alphabet) /\ Len(Prefix(n)) = n
  BY <1>2 DEF Prefix
<1>4. Prefix(n + 1) \in Seq(Alphabet) /\ Len(Prefix(n + 1)) = n + 1
  BY <1>2 DEF Prefix
<1>5. data[n] \in Alphabet
  BY <1>1
<1>6. /\ Append(Prefix(n), data[n]) \in Seq(Alphabet)
      /\ Len(Append(Prefix(n), data[n])) = n + 1
  BY <1>3, <1>5
<1>7. ASSUME NEW k \in 1 .. n + 1 PROVE Append(Prefix(n), data[n])[k] = Prefix(n + 1)[k]
  <2>1. CASE k = n + 1
    BY <1>3, <1>5, <2>1 DEF Prefix
  <2>2. CASE k # n + 1
    <3>1. k \in 1 .. n
      BY <2>2
    <3>2. Append(Prefix(n), data[n])[k] = Prefix(n)[k]
      BY <1>3, <1>5, <3>1
    <3> QED
      BY <3>1, <3>2 DEF Prefix
  <2> QED
    BY <2>1, <2>2
<1>8. Append(Prefix(n), data[n]) = Prefix(n + 1)
  BY <1>4, <1>6, <1>7, SeqEqual
<1> QED
  BY <1>3, <1>8

\* CopyMatch's bytes, one more at a time.
Copying(p, m, f) ==
    f = [k \in 0 .. m.length |->
            IF k = 0 THEN Prefix(p)
            ELSE LET before == f[k - 1]
                 IN  Append(before, before[p - m.distance + k])]

\* Copying a match byte by byte gives the bytes of the input after it, even
\* where it reaches into itself.
LEMMA CopyMatchIs ==
    ASSUME TypeOK, NEW p \in Nat, NEW m, m.length \in Nat \ {0}, m.distance \in Nat, Replays(m, p)
    PROVE  Parse!CopyMatch(Prefix(p), Parse!Reference(m)) = Prefix(p + m.length)
<1>1. /\ m.distance >= 1 /\ m.distance <= p /\ p + m.length <= size /\ size \in Nat
      /\ \A k \in 0 .. m.length - 1 : data[p - m.distance + k] = data[p + k]
  BY Numbers DEF Replays
<1>2. ASSUME NEW k \in 1 .. m.length
      PROVE  Append(Prefix(p + (k - 1)), Prefix(p + (k - 1))[p - m.distance + k]) = Prefix(p + k)
  <2>1. k - 1 \in 0 .. m.length - 1
    BY <1>2
  <2>2. Prefix(p + (k - 1))[p - m.distance + k] = data[(p - m.distance + k) - 1]
    <3>1. p - m.distance + k \in 1 .. p + (k - 1)
      BY <1>1, <1>2
    <3> QED
      BY <3>1 DEF Prefix
  <2>3. (p - m.distance + k) - 1 = p - m.distance + (k - 1)
    BY <1>1, <1>2
  <2>4. Prefix(p + (k - 1))[p - m.distance + k] = data[p + (k - 1)]
    BY <1>1, <2>1, <2>2, <2>3
  <2>5. p + (k - 1) \in Nat /\ p + (k - 1) < size /\ (p + (k - 1)) + 1 = p + k
    BY <1>1, <1>2
  <2>6. Append(Prefix(p + (k - 1)), data[p + (k - 1)]) = Prefix((p + (k - 1)) + 1)
    BY <2>5, PrefixGrows
  <2> QED
    BY <2>4, <2>5, <2>6
<1> DEFINE e == [k \in 0 .. m.length |-> Prefix(p + k)]
           g == CHOOSE f : Copying(p, m, f)
<1>3. Copying(p, m, e)
  <2>1. ASSUME NEW k \in 0 .. m.length
        PROVE  e[k] = IF k = 0 THEN Prefix(p)
                      ELSE Append(e[k - 1], e[k - 1][p - m.distance + k])
    <3>1. CASE k = 0
      BY <3>1
    <3>2. CASE k # 0
      <4>1. k \in 1 .. m.length /\ k - 1 \in 0 .. m.length
        BY <3>2
      <4>2. e[k] = Prefix(p + k) /\ e[k - 1] = Prefix(p + (k - 1))
        BY <4>1
      <4> HIDE DEF e
      <4> QED
        BY <1>2, <3>2, <4>1, <4>2
    <3> QED
      BY <3>1, <3>2
  <2>2. e = [k \in 0 .. m.length |-> e[k]]
    OBVIOUS
  <2> HIDE DEF e
  <2>3. e = [k \in 0 .. m.length |-> IF k = 0 THEN Prefix(p)
                                     ELSE Append(e[k - 1], e[k - 1][p - m.distance + k])]
    BY <2>1, <2>2
  <2> QED
    BY <2>3 DEF Copying
<1>4. Copying(p, m, g)
  BY <1>3
<1> HIDE DEF g
<1> DEFINE S == {k \in 0 .. m.length : g[k] = Prefix(p + k)}
<1>5. 0 \in S
  BY <1>4 DEF Copying
<1>6. ASSUME NEW k \in 0 .. m.length - 1, k \in S PROVE k + 1 \in S
  <2>1. k + 1 \in 1 .. m.length /\ (k + 1) - 1 = k /\ k + 1 # 0 /\ k + 1 \in 0 .. m.length
    BY <1>6
  <2>2. g[k + 1] = Append(g[k], g[k][p - m.distance + (k + 1)])
    BY <1>4, <2>1 DEF Copying
  <2>3. g[k] = Prefix(p + k)
    BY <1>6
  <2>4. g[k + 1] = Prefix(p + (k + 1))
    BY <1>2, <2>1, <2>2, <2>3
  <2> QED
    BY <2>1, <2>4
<1>7. \A k \in 0 .. m.length : k \in S
  BY <1>5, <1>6, CountsUp
<1>8. g[m.length] = Prefix(p + m.length)
  BY <1>7
<1>9. Len(Prefix(p)) = p
  <2>1. p < size
    BY <1>1
  <2> QED
    BY <2>1, PrefixGrows
<1>10. Parse!CopyMatch(Prefix(p), Parse!Reference(m)) = g[m.length]
  BY <1>9 DEF Parse!CopyMatch, Parse!Reference, g, Copying
<1> QED
  BY <1>8, <1>10

Tokens == [distance : Nat, length : Nat, literal : Nat]

\* Detokenize's bytes, one token more at a time.
Replaying(list, f) ==
    f = [n \in 0 .. Len(list) |->
            IF n = 0 THEN << >> ELSE Parse!Replay(f[n - 1], list[n])]

\* Replaying the tokens has given the input as far as position.
Replayed ==
    /\ tokens \in Seq(Tokens)
    /\ \E f : Replaying(tokens, f) /\ f[Len(tokens)] = Prefix(position)
    /\ pc = "done" => position = size

\* There is one way to replay the tokens.
LEMMA ReplayIs ==
    ASSUME Replayed
    PROVE  Parse!Detokenize(tokens) = Prefix(position)
<1> DEFINE n == Len(tokens)
           g == CHOOSE f : Replaying(tokens, f)
<1>1. n \in Nat
  BY DEF Replayed
<1>2. PICK f : Replaying(tokens, f) /\ f[n] = Prefix(position)
  BY DEF Replayed
<1>3. Replaying(tokens, g)
  BY <1>2
<1>4. Parse!Detokenize(tokens) = g[n]
  BY DEF Parse!Detokenize, Replaying
<1> HIDE DEF g, n
<1> DEFINE S == {k \in 0 .. n : g[k] = f[k]}
<1>5. 0 \in S
  BY <1>1, <1>2, <1>3 DEF Replaying, n
<1>6. ASSUME NEW k \in 0 .. n - 1, k \in S PROVE k + 1 \in S
  <2>1. k + 1 \in 0 .. n /\ k + 1 # 0 /\ (k + 1) - 1 = k
    BY <1>1, <1>6
  <2>2. g[k + 1] = Parse!Replay(g[k], tokens[k + 1]) /\ f[k + 1] = Parse!Replay(f[k], tokens[k + 1])
    BY <1>2, <1>3, <2>1 DEF Replaying, n
  <2> QED
    BY <1>6, <2>1, <2>2
<1>7. \A k \in 0 .. n : k \in S
  BY <1>1, <1>5, <1>6, CountsUp
<1>8. g[n] = f[n]
  BY <1>1, <1>7
<1> QED
  BY <1>2, <1>4, <1>8

\* No token yet, and nothing covered.
LEMMA InitReplayed == Init => Replayed
<1> SUFFICES ASSUME Init PROVE Replayed
  OBVIOUS
<1> DEFINE f == [n \in 0 .. 0 |-> << >>]
<1>1. tokens = << >> /\ Len(tokens) = 0 /\ position = 0 /\ pc # "done"
  BY DEF Init
<1>2. Prefix(0) = << >>
  BY DEF Prefix
<1>3. Replaying(tokens, f)
  BY <1>1 DEF Replaying
<1>4. f[Len(tokens)] = << >>
  BY <1>1
<1>5. tokens \in Seq(Tokens)
  BY <1>1
<1> QED
  BY <1>1, <1>2, <1>3, <1>4, <1>5 DEF Replayed

\* Only the tokens decide how they are replayed.
LEMMA ReplayingNext ==
    \A f : Replaying(tokens, f)' <=> Replaying(tokens', f)
BY DEF Replaying

\* A token that stands for the bytes after position covers them.
LEMMA EmitReplayed ==
    ASSUME IInv, Replayed, NEW token \in Tokens, NEW length \in Nat, Emit(token, length),
           Parse!Replay(Prefix(position), token) = Prefix(position + length)
    PROVE  Replayed'
<1> DEFINE n == Len(tokens)
<1>1. /\ tokens' = Append(tokens, token) /\ position' = position + length /\ pc' = "begin"
      /\ UNCHANGED data
  BY DEF Emit, input
<1>2. tokens \in Seq(Tokens) /\ n \in Nat
  BY DEF Replayed
<1>3. /\ tokens' \in Seq(Tokens) /\ Len(tokens') = n + 1 /\ tokens'[n + 1] = token
      /\ \A k \in 1 .. n : tokens'[k] = tokens[k]
  BY <1>1, <1>2, AppendProperties
<1>4. PICK f : Replaying(tokens, f) /\ f[n] = Prefix(position)
  BY DEF Replayed
<1> HIDE DEF n
<1> DEFINE g == [k \in 0 .. n + 1 |-> IF k = n + 1 THEN Prefix(position + length) ELSE f[k]]
<1>5. ASSUME NEW k \in 0 .. n + 1
      PROVE  g[k] = IF k = 0 THEN << >> ELSE Parse!Replay(g[k - 1], tokens'[k])
  <2>1. CASE k = 0
    <3>1. g[0] = f[0] /\ f[0] = << >>
      BY <1>2, <1>4 DEF Replaying, n
    <3> QED
      BY <2>1, <3>1
  <2>2. CASE k \in 1 .. n
    <3>1. g[k] = f[k] /\ g[k - 1] = f[k - 1] /\ tokens'[k] = tokens[k] /\ k # 0 /\ k \in 0 .. n
      BY <1>2, <1>3, <2>2
    <3>2. f[k] = Parse!Replay(f[k - 1], tokens[k])
      BY <1>4, <3>1 DEF Replaying, n
    <3> QED
      BY <3>1, <3>2
  <2>3. CASE k = n + 1
    <3>1. g[k] = Prefix(position + length) /\ g[k - 1] = Prefix(position) /\ tokens'[k] = token /\ k # 0
      BY <1>2, <1>3, <1>4, <2>3
    <3> QED
      BY <3>1
  <2> QED
    BY <1>2, <2>1, <2>2, <2>3
<1>6. g = [k \in 0 .. n + 1 |-> g[k]] /\ g[n + 1] = Prefix(position + length)
  BY <1>2
<1> HIDE DEF g
<1>7. g = [k \in 0 .. n + 1 |-> IF k = 0 THEN << >> ELSE Parse!Replay(g[k - 1], tokens'[k])]
  BY <1>5, <1>6
<1>8. Prefix(position)' = Prefix(position + length)
  BY <1>1 DEF Prefix
<1>9. Replaying(tokens', g)
  BY <1>3, <1>7 DEF Replaying
<1> QED
  BY <1>1, <1>3, <1>6, <1>8, <1>9, ReplayingNext DEF Replayed

\* No byte is CorruptBytes.
LEMMA NotCorrupt ==
    ASSUME TypeOK, NEW n \in 0 .. size
    PROVE  Prefix(n) # Parse!CorruptBytes
<1>1. SUFFICES ASSUME Prefix(n) = <<-1>> PROVE FALSE
  BY DEF Parse!CorruptBytes
<1>2. size \in Nat /\ data \in [0 .. size - 1 -> Alphabet] /\ Alphabet \subseteq Nat
  BY Numbers, TokenizerAssumption DEF TypeOK
<1>3. DOMAIN Prefix(n) = 1 .. n /\ DOMAIN <<-1>> = 1 .. 1
  BY DEF Prefix
<1>4. n = 1
  BY <1>1, <1>2, <1>3
<1>5. Prefix(n)[1] = data[0]
  BY <1>4 DEF Prefix
<1>6. 0 \in 0 .. size - 1
  BY <1>2, <1>4
<1>7. data[0] \in Nat
  BY <1>2, <1>6
<1> QED
  BY <1>1, <1>5, <1>7

\* Every step covers what its token stands for.
LEMMA NextReplayed ==
    ASSUME IInv, Replayed, [Next]_vars
    PROVE  Replayed'
<1>1. CASE Begin \/ InsertOne \/ Inserted \/ StartSearch \/ Examine \/ EndWalk \/ LookAhead \/ UNCHANGED vars
  <2>1. UNCHANGED <<data, size, position, tokens>>
    BY <1>1 DEF Begin, InsertOne, Inserted, StartSearch, Examine, EndWalk, LookAhead, vars, input
  <2>2. pc' = "done" => position = size
    <3>1. CASE Begin
      BY <3>1, Numbers DEF IInv, Begin
    <3>2. CASE UNCHANGED vars
      BY <3>2 DEF Replayed, vars
    <3>3. CASE InsertOne \/ Inserted \/ StartSearch \/ Examine \/ EndWalk \/ LookAhead
      BY <3>3 DEF InsertOne, Inserted, StartSearch, Examine, EndWalk, LookAhead
    <3> QED
      BY <1>1, <3>1, <3>2, <3>3
  <2>3. \A f : Replaying(tokens, f)' <=> Replaying(tokens, f)
    BY <2>1, ReplayingNext
  <2>4. Prefix(position)' = Prefix(position)
    BY <2>1 DEF Prefix
  <2> QED
    BY <2>1, <2>2, <2>3, <2>4 DEF Replayed
<1>2. CASE EmitLiteral \/ Defer
  <2> DEFINE token == Parse!Literal(data[position])
  <2>1. pc = "decide" /\ Emit(token, 1)
    BY <1>2 DEF EmitLiteral, Defer
  <2>2. position \in Nat /\ size \in Nat /\ position < size
    BY <2>1, Numbers DEF IInv, Progress, Searching, From
  <2>3. token \in Tokens
    <3>1. data[position] \in Alphabet
      BY <2>2 DEF IInv, TypeOK
    <3>2. data[position] \in Nat
      BY <3>1, TokenizerAssumption
    <3> QED
      BY <3>2 DEF Parse!Literal, Tokens
  <2>4. Parse!Replay(Prefix(position), token) = Append(Prefix(position), data[position])
    BY <2>2, NotCorrupt DEF IInv, Parse!Replay, Parse!Literal, Parse!IsMatch
  <2>5. Append(Prefix(position), data[position]) = Prefix(position + 1)
    BY <2>2, PrefixGrows DEF IInv
  <2> HIDE DEF token
  <2> QED
    BY <2>1, <2>3, <2>4, <2>5, EmitReplayed
<1>3. CASE EmitMatch
  <2>1. PICK m \in {Found, match} : /\ m \in [distance : 0 .. WindowSize - 1, length : 0 .. LongestMatch]
                                    /\ m.length >= config.minMatch /\ Replays(m, position)
                                    /\ TakeMatch(m)
    BY <1>3, Taken
  <2> DEFINE token == Parse!Reference(m)
  <2>2. /\ config.minMatch \in 3 .. 8 /\ LongestMatch \in Nat /\ WindowSize \in Nat
        /\ position \in Nat /\ size \in Nat
    BY <1>3, LimitIs, Numbers DEF IInv, EmitMatch, Searching
  <2>3. m.length \in Nat \ {0} /\ m.distance \in Nat
    BY <2>1, <2>2
  <2>4. m.distance >= 1 /\ m.distance <= position /\ position + m.length <= size
    BY <2>1, <2>3 DEF Replays
  <2>5. token \in Tokens /\ token.distance = m.distance
    BY <2>3 DEF Parse!Reference, Tokens
  <2>6. position \in 0 .. size /\ position < size
    BY <2>2, <2>3, <2>4
  <2>7. Len(Prefix(position)) = position
    BY <2>2, <2>6, PrefixGrows DEF IInv
  <2>8. Parse!Replay(Prefix(position), token) = Parse!CopyMatch(Prefix(position), token)
    <3>1. Prefix(position) # Parse!CorruptBytes
      BY <2>6, NotCorrupt DEF IInv
    <3>2. ~(token.distance > Len(Prefix(position))) /\ token.distance # 0
      BY <2>2, <2>3, <2>4, <2>5, <2>7
    <3> QED
      BY <3>1, <3>2 DEF Parse!Replay, Parse!IsMatch
  <2>9. Parse!CopyMatch(Prefix(position), token) = Prefix(position + m.length)
    BY <2>1, <2>2, <2>3, CopyMatchIs DEF IInv
  <2>10. Emit(token, m.length)
    BY <2>1 DEF TakeMatch
  <2> HIDE DEF token
  <2> QED
    BY <2>3, <2>5, <2>8, <2>9, <2>10, EmitReplayed
<1> QED
  BY <1>1, <1>2, <1>3 DEF Next, Step, Over

\* Replaying the tokens gives back the input covered so far, and at the end all
\* of it: no input is lost or altered by the parse (lz77.h:90-92).
THEOREM ParseIsLossless == Spec => []RoundTrip
<1>1. Init => IInv /\ Replayed
  BY InitIInv, InitReplayed
<1>2. IInv /\ Replayed /\ [Next]_vars => (IInv /\ Replayed)'
  BY NextIInv, NextReplayed
<1>3. Replayed => RoundTrip
  BY ReplayIs DEF RoundTrip, Replayed, Prefix
<1> QED
  BY <1>1, <1>2, <1>3, PTL DEF Spec
==============================================================================
