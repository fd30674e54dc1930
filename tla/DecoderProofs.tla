----------------------------- MODULE DecoderProofs -----------------------------
(***************************************************************************)
(* decompress and decompressStream agree on every file (codec.h:54-57),    *)
(* whatever its frames, its lengths and the bytes it was cut off after;    *)
(* each takes exactly the files that hold what their header declares, and  *)
(* both take what compress and compressStream make (codec.h:46).           *)
(*                                                                         *)
(* The two run at paces of their own, so their agreement goes by the path  *)
(* that the one further ahead has made through the file: the other one is  *)
(* somewhere on it.  The rest goes by the sums of the frames behind each.  *)
(***************************************************************************)
EXTENDS Decoder, SequenceTheorems, WellFoundedInduction, TLAPS

------------------------------------------------------------------------------
\* The blocks of an input, as in EncoderProofs.

\* Multiplication is monotonic.
LEMMA TimesMonotonic ==
    ASSUME NEW a \in Nat, NEW b \in Nat, a <= b, NEW m \in Nat
    PROVE  a * m <= b * m /\ a * m \in Nat /\ b * m \in Nat
<1>1. (b - a) * m \in Nat /\ (b - a) * m >= 0
  <2>1. b - a \in Nat
    OBVIOUS
  <2> DEFINE d == b - a
  <2> HIDE DEF d
  <2>2. d * m \in Nat
    BY <2>1 DEF d
  <2> QED
    BY <2>2 DEF d
<1>2. b * m = a * m + (b - a) * m
  OBVIOUS
<1> QED
  BY <1>1, <1>2

\* There is a block j exactly if the input goes beyond its start.
LEMMA BlockCount ==
    ASSUME NEW size \in Nat, NEW blockSize \in Nat \ {0}
    PROVE  /\ BlockCountFor(size, blockSize) \in Nat
           /\ \A j \in Nat : j < BlockCountFor(size, blockSize) <=> j * blockSize < size
<1> DEFINE n == BlockCountFor(size, blockSize)
           r == (size + blockSize - 1) % blockSize
<1>1. n \in Nat /\ r \in 0 .. blockSize - 1 /\ size + blockSize - 1 = n * blockSize + r
  BY DEF BlockCountFor
<1> HIDE DEF n, r
<1>2. ASSUME NEW j \in Nat, j < n PROVE j * blockSize < size
  <2>1. j + 1 \in Nat /\ j + 1 <= n
    BY <1>1, <1>2
  <2>2. (j + 1) * blockSize <= n * blockSize
    BY <1>1, <2>1, TimesMonotonic
  <2>3. (j + 1) * blockSize = j * blockSize + blockSize
    OBVIOUS
  <2>4. j * blockSize \in Nat /\ n * blockSize \in Nat
    BY <1>1, TimesMonotonic
  <2> QED
    BY <1>1, <2>2, <2>3, <2>4
<1>3. ASSUME NEW j \in Nat, n <= j PROVE size <= j * blockSize
  <2>1. n * blockSize <= j * blockSize /\ j * blockSize \in Nat /\ n * blockSize \in Nat
    BY <1>1, <1>3, TimesMonotonic
  <2> QED
    BY <1>1, <2>1
<1>4. \A j \in Nat : j < n <=> j * blockSize < size
  <2> SUFFICES ASSUME NEW j \in Nat PROVE j < n <=> j * blockSize < size
    OBVIOUS
  <2>1. j * blockSize \in Nat
    BY TimesMonotonic
  <2> QED
    BY <1>1, <1>2, <1>3, <2>1
<1> QED
  BY <1>1, <1>4 DEF n

\* A block starts where the one before it ends, and the last ends with the input.
LEMMA BlockEnds ==
    ASSUME NEW size \in Nat, NEW blockSize \in Nat \ {0},
           NEW j \in Nat, j < BlockCountFor(size, blockSize)
    PROVE  /\ BlockOf(j, size, blockSize).from = j * blockSize
           /\ BlockOf(j, size, blockSize).len \in 1 .. blockSize
           /\ BlockOf(j, size, blockSize).len <= size
           /\ Least(size, j * blockSize) = j * blockSize
           /\ j * blockSize + BlockOf(j, size, blockSize).len = Least(size, (j + 1) * blockSize)
<1>1. j * blockSize \in Nat /\ j * blockSize < size /\ (j + 1) * blockSize = j * blockSize + blockSize
  BY BlockCount, TimesMonotonic
<1> DEFINE start == j * blockSize
           next == (j + 1) * blockSize
<1>2. start \in Nat /\ start < size /\ next = start + blockSize
  BY <1>1
<1>3. BlockOf(j, size, blockSize) = [from |-> start, len |-> Least(blockSize, size - start)]
  BY DEF BlockOf, Stretch
<1> HIDE DEF start, next
<1>4. /\ BlockOf(j, size, blockSize).from = start
      /\ BlockOf(j, size, blockSize).len \in 1 .. blockSize
      /\ BlockOf(j, size, blockSize).len <= size
      /\ Least(size, start) = start
      /\ start + BlockOf(j, size, blockSize).len = Least(size, next)
  BY <1>2, <1>3 DEF Least
<1> QED
  BY <1>4 DEF start, next

\* The pieces of a container of several blocks.
Pieces(size, blockSize) ==
    {Blocked(size, blockSize)[p] : p \in 1 .. 1 + BlockCountFor(size, blockSize)}

\* A blocked container is its header and then one frame for each block.
LEMMA BlockedPieces ==
    ASSUME NEW size \in Nat, NEW blockSize \in Nat \ {0}
    PROVE  /\ Blocked(size, blockSize) \in Seq(Pieces(size, blockSize))
           /\ Len(Blocked(size, blockSize)) = 1 + BlockCountFor(size, blockSize)
           /\ Blocked(size, blockSize)[1] = Header("blocked", size)
           /\ \A j \in Nat : j < BlockCountFor(size, blockSize) =>
                 Blocked(size, blockSize)[j + 2] =
                    Frame(BlockOf(j, size, blockSize).len, EncodeBlock(BlockOf(j, size, blockSize)))
<1> DEFINE n == 1 + BlockCountFor(size, blockSize)
           piece(p) == IF p = 1
                       THEN Header("blocked", size)
                       ELSE LET stretch == BlockOf(p - 2, size, blockSize)
                            IN  Frame(stretch.len, EncodeBlock(stretch))
<1>1. n \in Nat /\ n >= 1
  BY BlockCount
<1>2. Blocked(size, blockSize) = [p \in 1 .. n |-> piece(p)]
  BY DEF Blocked
<1>3. \A j \in Nat : piece(j + 2) = Frame(BlockOf(j, size, blockSize).len, EncodeBlock(BlockOf(j, size, blockSize)))
  OBVIOUS
<1>4. piece(1) = Header("blocked", size)
  OBVIOUS
<1>5. \A j \in Nat : j < BlockCountFor(size, blockSize) => j + 2 \in 1 .. n
  BY BlockCount
<1>6. Pieces(size, blockSize) = {Blocked(size, blockSize)[p] : p \in 1 .. n}
  BY DEF Pieces
<1> HIDE DEF n, piece
<1>7. Blocked(size, blockSize) \in Seq(Pieces(size, blockSize)) /\ Len(Blocked(size, blockSize)) = n
  BY <1>1, <1>2, <1>6
<1>8. Blocked(size, blockSize)[1] = Header("blocked", size)
  BY <1>1, <1>2, <1>4
<1>9. \A j \in Nat : j < BlockCountFor(size, blockSize) =>
          Blocked(size, blockSize)[j + 2] =
             Frame(BlockOf(j, size, blockSize).len, EncodeBlock(BlockOf(j, size, blockSize)))
  BY <1>2, <1>3, <1>5
<1> QED
  BY <1>7, <1>8, <1>9 DEF n

------------------------------------------------------------------------------

\* Where a decoder is after n frames.
Place(a, p, o) == [at |-> a, produced |-> p, out |-> o]

More(s) == s.produced < file.size

\* What either loop asks of the frame after the first n.
Passes(s, n) ==
    /\ More(s)
    /\ file.length - s.at >= FrameHeader
    /\ file.length - s.at >= FrameHeader + file.frames[n + 1].compressed
    /\ file.frames[n + 1].uncompressed <= file.size - s.produced
    /\ FrameDecodes(file.frames[n + 1])

\* Where it is then.
After(s, n) ==
    Place(s.at + FrameHeader + file.frames[n + 1].compressed,
          s.produced + file.frames[n + 1].uncompressed,
          Append(s.out, Block(n + 1, file.frames[n + 1].uncompressed)))

\* The places a decoder goes through on the way past the first n frames.
IsPath(path, n) ==
    /\ path[0] = Place(0, 0, << >>)
    /\ \A m \in 0 .. n - 1 : Passes(path[m], m) /\ path[m + 1] = After(path[m], m)

Here(d) == Place(at[d], produced[d], out[d])

\* A decoder is on the path, and ended where the path says it must.
OnPath(d, path, n) ==
    /\ k[d] <= n
    /\ verdict[d] = "running" => Here(d) = path[k[d]]
    /\ verdict[d] = "ok" => out[d] = path[k[d]].out /\ ~More(path[k[d]])
    /\ verdict[d] = "corrupt" => More(path[k[d]]) /\ ~Passes(path[k[d]], k[d])

AllOnPath(path, n) ==
    /\ n \in Nat /\ IsPath(path, n)
    /\ \A d \in Decoders : OnPath(d, path, n)

IsBlocked == file.header = "whole" /\ file.method = "blocked"

\* A file in one piece: one decision.
InOnePiece(d) ==
    /\ pc[d] # "blocks"
    /\ verdict[d] = "ok" =>
          file.header = "whole" /\ WholeDecodes /\ out[d] = <<Block(0, file.size)>>
    /\ verdict[d] = "corrupt" => ~(file.header = "whole" /\ WholeDecodes)

Typed ==
    /\ pc \in [Decoders -> {"open", "blocks", "ended"}]
    /\ verdict \in [Decoders -> {"running", "ok", "corrupt", "write"}]
    /\ k \in [Decoders -> Nat]
    /\ DOMAIN at = Decoders /\ DOMAIN produced = Decoders /\ DOMAIN out = Decoders
    /\ \A d \in Decoders : pc[d] = "ended" <=> verdict[d] # "running"

IInv ==
    /\ Typed
    /\ ~IsBlocked => \A d \in Decoders : InOnePiece(d)
    /\ IsBlocked => \E n, path : AllOnPath(path, n)

------------------------------------------------------------------------------

\* Both start at the beginning of the path.
LEMMA InitIInv == Init => IInv
<1> SUFFICES ASSUME Init PROVE IInv
  OBVIOUS
<1>1. Typed /\ \A d \in Decoders : InOnePiece(d)
  BY DEF Init, Typed, InOnePiece
<1>2. ASSUME IsBlocked
      PROVE  \E n, path : AllOnPath(path, n)
  <2> DEFINE path == [m \in {0} |-> Place(0, 0, << >>)]
  <2>1. IsPath(path, 0)
    BY DEF IsPath
  <2>2. ASSUME NEW d \in Decoders PROVE OnPath(d, path, 0)
    <3>1. k[d] = 0 /\ verdict[d] = "running" /\ Here(d) = Place(0, 0, << >>) /\ path[0] = Place(0, 0, << >>)
      BY DEF Init, Here
    <3> QED
      BY <3>1 DEF OnPath
  <2>3. AllOnPath(path, 0)
    BY <2>1, <2>2 DEF AllOnPath
  <2> QED
    BY <2>3
<1> QED
  BY <1>1, <1>2 DEF IInv

\* One frame more of the path.
LEMMA PathGrows ==
    ASSUME NEW n \in Nat, NEW path, IsPath(path, n), Passes(path[n], n)
    PROVE  \E longer : /\ IsPath(longer, n + 1)
                       /\ longer[n + 1] = After(path[n], n)
                       /\ \A m \in 0 .. n : longer[m] = path[m]
<1> DEFINE longer == [m \in 0 .. n + 1 |-> IF m <= n THEN path[m] ELSE After(path[n], n)]
<1>1. longer[n + 1] = After(path[n], n) /\ \A m \in 0 .. n : longer[m] = path[m]
  OBVIOUS
<1> HIDE DEF longer
<1>2. ASSUME NEW m \in 0 .. n PROVE Passes(longer[m], m) /\ longer[m + 1] = After(longer[m], m)
  <2>1. longer[m] = path[m]
    BY <1>1
  <2>2. CASE m = n
    BY <1>1, <2>1, <2>2
  <2>3. CASE m # n
    <3>1. m \in 0 .. n - 1 /\ m + 1 \in 0 .. n
      BY <2>3
    <3> QED
      BY <1>1, <2>1, <3>1 DEF IsPath
  <2> QED
    BY <2>2, <2>3
<1>3. longer[0] = Place(0, 0, << >>)
  BY <1>1 DEF IsPath
<1>4. IsPath(longer, n + 1)
  BY <1>2, <1>3 DEF IsPath
<1> QED
  BY <1>1, <1>4

\* What a turn of either loop comes to.
Turn(d) ==
    /\ pc[d] = "blocks"
    /\ \/ Passes(Here(d), k[d]) /\ Advance(d)
       \/ More(Here(d)) /\ ~Passes(Here(d), k[d]) /\ Throw(d, "corrupt")
       \/ Throw(d, "write")

\* Either loop's turn, whatever the order of its questions, is this turn.
LEMMA TurnsAreAlike ==
    /\ MemoryBlock => Turn("memory")
    /\ StreamBlock => Turn("stream")
BY DEF MemoryBlock, StreamBlock, Turn, Passes, More, Here, Place, MoreBlocks, HeaderWhole, PayloadWhole,
       Fits, Remaining, NextFrame

\* A decoder that goes past a frame is one place further on the path, which
\* grows if that place is new.
LEMMA AdvanceKeeps ==
    ASSUME IInv, NEW d \in Decoders, pc[d] = "blocks", Passes(Here(d), k[d]), Advance(d)
    PROVE  IInv'
<1>1. UNCHANGED <<file, pc, verdict>>
  BY DEF Advance
<1>2. /\ k' = [k EXCEPT ![d] = k[d] + 1] /\ Here(d)' = After(Here(d), k[d])
      /\ \A e \in Decoders : e # d => Here(e)' = Here(e)
  BY DEF Advance, Here, After, Place, NextFrame, IInv, Typed
<1>3. Typed'
  BY <1>1, <1>2 DEF Advance, IInv, Typed
<1>4. IsBlocked /\ verdict[d] = "running"
  BY DEF IInv, InOnePiece, Typed
<1>5. PICK n, path : n \in Nat /\ IsPath(path, n) /\ \A e \in Decoders : OnPath(e, path, n)
  BY <1>4 DEF IInv, AllOnPath
<1>6. k[d] \in Nat /\ k[d] <= n /\ Here(d) = path[k[d]]
  BY <1>4, <1>5 DEF OnPath, IInv, Typed
<1>7. PICK m, long : /\ m \in Nat /\ IsPath(long, m) /\ n <= m /\ k[d] + 1 <= m
                     /\ long[k[d] + 1] = After(path[k[d]], k[d])
                     /\ \A i \in 0 .. n : long[i] = path[i]
  <2>1. CASE k[d] = n
    <3>1. PICK longer : /\ IsPath(longer, n + 1)
                        /\ longer[n + 1] = After(path[n], n)
                        /\ \A i \in 0 .. n : longer[i] = path[i]
      BY <1>5, <1>6, <2>1, PathGrows
    <3>2. n + 1 \in Nat /\ n <= n + 1 /\ k[d] + 1 <= n + 1
      BY <1>5, <2>1
    <3> QED
      BY <2>1, <3>1, <3>2
  <2>2. CASE k[d] < n
    <3>1. path[k[d] + 1] = After(path[k[d]], k[d])
      BY <1>5, <1>6, <2>2 DEF IsPath
    <3> QED
      BY <1>5, <1>6, <2>2, <3>1
  <2>3. k[d] = n \/ k[d] < n
    BY <1>5, <1>6
  <2> QED
    BY <2>1, <2>2, <2>3
<1>8. IsPath(long, m)'
  BY <1>1, <1>7 DEF IsPath, Passes, More, After
<1>9. ASSUME NEW e \in Decoders PROVE OnPath(e, long, m)'
  <2>1. CASE e = d
    BY <1>1, <1>2, <1>4, <1>6, <1>7, <2>1 DEF OnPath, IInv, Typed
  <2>2. CASE e # d
    <3>1. k'[e] = k[e] /\ k[e] \in Nat /\ k[e] <= n /\ Here(e)' = Here(e) /\ out'[e] = out[e]
      BY <1>2, <1>5, <2>2 DEF OnPath, IInv, Typed, Advance
    <3>2. long[k[e]] = path[k[e]]
      BY <1>7, <3>1
    <3> QED
      BY <1>1, <1>5, <1>7, <3>1, <3>2 DEF OnPath, More, Passes
  <2> QED
    BY <2>1, <2>2
<1>10. AllOnPath(long, m)'
  BY <1>7, <1>8, <1>9 DEF AllOnPath
<1> QED
  BY <1>1, <1>3, <1>4, <1>10 DEF IInv, IsBlocked

\* A decoder may stop where the path, or the file in one piece, says.
LEMMA StoppingKeeps ==
    ASSUME IInv, NEW d \in Decoders, NEW why \in {"ok", "corrupt", "write"}, End(d, why),
           DOMAIN produced' = Decoders, DOMAIN out' = Decoders,
           \A e \in Decoders : e # d => out'[e] = out[e] /\ produced'[e] = produced[e],
           IsBlocked => \/ why = "ok" /\ verdict[d] = "running" /\ ~More(Here(d)) /\ out' = out
                        \/ /\ why = "corrupt" /\ verdict[d] = "running"
                           /\ More(Here(d)) /\ ~Passes(Here(d), k[d])
                        \/ why = "write",
           ~IsBlocked => \/ /\ why = "ok" /\ file.header = "whole" /\ WholeDecodes
                            /\ out'[d] = <<Block(0, file.size)>>
                         \/ why = "corrupt" /\ ~(file.header = "whole" /\ WholeDecodes)
                         \/ why = "write"
    PROVE  IInv'
<1>1. /\ UNCHANGED <<file, at, k>>
      /\ verdict'[d] = why /\ pc'[d] = "ended"
      /\ \A e \in Decoders : e # d => verdict'[e] = verdict[e] /\ pc'[e] = pc[e] /\ Here(e)' = Here(e)
  BY DEF End, IInv, Typed, Here
<1>2. Typed'
  BY DEF End, IInv, Typed
<1>3. ASSUME ~IsBlocked, NEW e \in Decoders PROVE InOnePiece(e)'
  BY <1>1, <1>3 DEF IInv, InOnePiece, WholeDecodes
<1>4. ASSUME IsBlocked
      PROVE  \E n, path : AllOnPath(path, n)'
  <2>1. PICK n, path : n \in Nat /\ IsPath(path, n) /\ \A e \in Decoders : OnPath(e, path, n)
    BY <1>4 DEF IInv, AllOnPath
  <2>2. IsPath(path, n)'
    BY <1>1, <2>1 DEF IsPath, Passes, More, After
  <2>3. ASSUME NEW e \in Decoders PROVE OnPath(e, path, n)'
    <3>1. CASE e # d
      BY <1>1, <2>1, <3>1 DEF OnPath, More, Passes
    <3>2. CASE e = d
      <4>1. k[d] <= n /\ (verdict[d] = "running" => Here(d) = path[k[d]])
        BY <2>1 DEF OnPath
      <4>2. verdict[d] = "running" => out[d] = path[k[d]].out
        BY <4>1 DEF Here, Place
      <4> QED
        BY <1>1, <1>4, <3>2, <4>1, <4>2 DEF OnPath, More, Passes
    <3> QED
      BY <3>1, <3>2
  <2>4. AllOnPath(path, n)'
    BY <2>1, <2>2, <2>3 DEF AllOnPath
  <2> QED
    BY <2>4
<1> QED
  BY <1>1, <1>2, <1>3, <1>4 DEF IInv, IsBlocked

\* Every step keeps both on one path.
LEMMA NextIInv == IInv /\ [Next]_vars => IInv'
<1> SUFFICES ASSUME IInv, [Next]_vars PROVE IInv'
  OBVIOUS
<1>1. ASSUME NEW d \in Decoders, NEW why, Throw(d, why)
      PROVE  /\ End(d, why) /\ DOMAIN produced' = Decoders /\ DOMAIN out' = Decoders
             /\ \A e \in Decoders : e # d => out'[e] = out[e] /\ produced'[e] = produced[e]
  BY <1>1 DEF Throw, IInv, Typed
<1>2. ASSUME NEW d \in Decoders, Turn(d) PROVE IInv'
  <2>1. IsBlocked /\ verdict[d] = "running"
    BY <1>2 DEF Turn, IInv, InOnePiece, Typed
  <2>2. CASE Passes(Here(d), k[d]) /\ Advance(d)
    BY <1>2, <2>2, AdvanceKeeps DEF Turn
  <2>3. CASE More(Here(d)) /\ ~Passes(Here(d), k[d]) /\ Throw(d, "corrupt")
    BY <1>1, <2>1, <2>3, StoppingKeeps
  <2>4. CASE Throw(d, "write")
    BY <1>1, <2>1, <2>4, StoppingKeeps
  <2> QED
    BY <1>2, <2>2, <2>3, <2>4 DEF Turn
<1>3. ASSUME NEW d \in Decoders, RefuseHeader(d) PROVE IInv'
  BY <1>1, <1>3, StoppingKeeps DEF RefuseHeader, IsBlocked
<1>4. ASSUME NEW d \in Decoders, DecodeWhole(d) PROVE IInv'
  <2>1. /\ End(d, "ok") /\ ~IsBlocked /\ file.header = "whole" /\ WholeDecodes
        /\ DOMAIN produced' = Decoders /\ DOMAIN out' = Decoders
        /\ out'[d] = <<Block(0, file.size)>>
        /\ \A e \in Decoders : e # d => out'[e] = out[e] /\ produced'[e] = produced[e]
    BY <1>4 DEF DecodeWhole, IsBlocked, IInv, Typed
  <2> QED
    BY <2>1, StoppingKeeps
<1>5. ASSUME NEW d \in Decoders, DecodeWholeFails(d) PROVE IInv'
  <2>1. ~IsBlocked /\ ((~WholeDecodes /\ Throw(d, "corrupt")) \/ Throw(d, "write"))
    BY <1>5 DEF DecodeWholeFails, IsBlocked
  <2> QED
    BY <1>1, <2>1, StoppingKeeps
<1>6. ASSUME NEW d \in Decoders, OpenBlocked(d) PROVE IInv'
  <2>1. /\ IsBlocked /\ UNCHANGED <<file, verdict, at, k, produced, out>>
        /\ pc' = [pc EXCEPT ![d] = "blocks"] /\ pc[d] = "open"
    BY <1>6 DEF OpenBlocked, IsBlocked
  <2>2. Typed'
    BY <2>1 DEF IInv, Typed
  <2>3. PICK n, path : n \in Nat /\ IsPath(path, n) /\ \A e \in Decoders : OnPath(e, path, n)
    BY <2>1 DEF IInv, AllOnPath
  <2>4. AllOnPath(path, n)'
    BY <2>1, <2>3 DEF AllOnPath, IsPath, OnPath, Passes, More, After, Here
  <2> QED
    BY <2>1, <2>2, <2>4 DEF IInv, IsBlocked
<1>7. ASSUME NEW d \in Decoders, EndBlocks(d) PROVE IInv'
  <2>1. /\ IsBlocked /\ verdict[d] = "running" /\ ~More(Here(d))
        /\ End(d, "ok") /\ UNCHANGED <<produced, out>>
    BY <1>7 DEF EndBlocks, Return, MoreBlocks, More, Here, Place, IInv, InOnePiece, Typed
  <2> QED
    BY <2>1, StoppingKeeps DEF IInv, Typed
<1>8. CASE UNCHANGED vars
  <2>1. Typed' /\ \A d \in Decoders : InOnePiece(d) => InOnePiece(d)'
    BY <1>8 DEF vars, IInv, Typed, InOnePiece, WholeDecodes
  <2>2. ASSUME NEW n, NEW path, AllOnPath(path, n) PROVE AllOnPath(path, n)'
    BY <1>8, <2>2 DEF vars, AllOnPath, IsPath, OnPath, Passes, More, After, Here
  <2>3. IsBlocked' <=> IsBlocked
    BY <1>8 DEF vars, IsBlocked
  <2> QED
    BY <2>1, <2>2, <2>3 DEF IInv
<1> QED
  BY <1>2, <1>3, <1>4, <1>5, <1>6, <1>7, <1>8, TurnsAreAlike DEF Next, Step, Run, Over, Decoders

(***************************************************************************)
(* There is one path through a file, and both decoders are on it.          *)
(***************************************************************************)
THEOREM Invariance == Spec => []IInv
<1> QED
  BY InitIInv, NextIInv, PTL DEF Spec

(***************************************************************************)
(* The two decoders agree: same verdict and same bytes, unless a write     *)
(* failed (codec.h:54-57).                                                 *)
(***************************************************************************)
THEOREM BothDecodersAgree == Spec => []DecodersAgree
<1>1. IInv => DecodersAgree
  <2> SUFFICES ASSUME IInv, \A d \in Decoders : verdict[d] \in {"ok", "corrupt"}
               PROVE  /\ verdict["memory"] = verdict["stream"]
                      /\ verdict["memory"] = "ok" => out["memory"] = out["stream"]
    BY DEF DecodersAgree
  <2>1. CASE ~IsBlocked
    BY <2>1 DEF IInv, InOnePiece, Decoders
  <2>2. CASE IsBlocked
    <3>1. PICK n, path : n \in Nat /\ IsPath(path, n) /\ \A e \in Decoders : OnPath(e, path, n)
      BY <2>2 DEF IInv, AllOnPath
    <3>2. ASSUME NEW d \in Decoders PROVE k[d] = n
      <4>1. k[d] \in Nat /\ k[d] <= n
        BY <3>1 DEF OnPath, IInv, Typed
      <4>2. ~Passes(path[k[d]], k[d])
        BY <3>1 DEF OnPath, Passes
      <4> QED
        BY <3>1, <4>1, <4>2 DEF IsPath
    <3>3. \A d \in Decoders : /\ verdict[d] = "ok" <=> ~More(path[n])
                              /\ verdict[d] = "ok" => out[d] = path[n].out
      BY <3>1, <3>2 DEF OnPath
    <3> QED
      BY <3>3 DEF Decoders
  <2> QED
    BY <2>1, <2>2
<1> QED
  BY <1>1, Invariance, PTL

------------------------------------------------------------------------------
\* What frames add up to

\* Induction up to a bound, for a set.
LEMMA CountsUp ==
    ASSUME NEW n \in Nat, NEW S, 0 \in S, \A i \in 0 .. n - 1 : i \in S => i + 1 \in S
    PROVE  \A i \in 0 .. n : i \in S
<1> DEFINE T == {i \in 0 .. n : i \notin S}
<1>1. SUFFICES ASSUME T # {} PROVE FALSE
  OBVIOUS
<1>2. T \subseteq Nat
  OBVIOUS
<1>3. PICK m \in T : \A i \in T : <<i, m>> \notin OpToRel(<, Nat)
  BY <1>1, <1>2, NatLessThanWellFounded, WFMin
<1>4. m \in 0 .. n /\ m # 0 /\ m \notin S
  BY <1>3
<1>5. m - 1 \in 0 .. n - 1 /\ (m - 1) + 1 = m /\ m - 1 < m
  BY <1>4
<1>6. m - 1 \notin T
  BY <1>2, <1>3, <1>5 DEF OpToRel
<1> QED
  BY <1>4, <1>5, <1>6

IsTotals(frames, n, f) ==
    f = [m \in 0 .. n |->
            IF m = 0 THEN [bytes |-> 0, plain |-> 0]
            ELSE [bytes |-> f[m - 1].bytes + FrameHeader + frames[m].compressed,
                  plain |-> f[m - 1].plain + frames[m].uncompressed]]

\* There are totals of any list of frames.
LEMMA TotalsExist ==
    ASSUME NEW frames, Len(frames) \in Nat
    PROVE  \E f : IsTotals(frames, Len(frames), f)
<1> DEFINE S == {n \in 0 .. Len(frames) : \E f : IsTotals(frames, n, f)}
<1>1. 0 \in S
  <2>1. IsTotals(frames, 0, [m \in 0 .. 0 |-> [bytes |-> 0, plain |-> 0]])
    BY DEF IsTotals
  <2> QED
    BY <2>1
<1>2. ASSUME NEW n \in 0 .. Len(frames) - 1, n \in S PROVE n + 1 \in S
  <2>1. PICK f : IsTotals(frames, n, f)
    BY <1>2
  <2> DEFINE last == [bytes |-> f[n].bytes + FrameHeader + frames[n + 1].compressed,
                      plain |-> f[n].plain + frames[n + 1].uncompressed]
             g == [m \in 0 .. n + 1 |-> IF m = n + 1 THEN last ELSE f[m]]
             Value(m) == IF m = 0 THEN [bytes |-> 0, plain |-> 0]
                         ELSE [bytes |-> g[m - 1].bytes + FrameHeader + frames[m].compressed,
                               plain |-> g[m - 1].plain + frames[m].uncompressed]
  <2>2. ASSUME NEW m \in 0 .. n + 1 PROVE g[m] = Value(m)
    <3>1. CASE m = n + 1
      <4>1. g[m] = last /\ g[m - 1] = f[n] /\ m # 0
        BY <1>2, <3>1
      <4> HIDE DEF g
      <4> QED
        BY <3>1, <4>1
    <3>2. CASE m = 0
      <4>1. g[m] = f[0] /\ f[0] = [bytes |-> 0, plain |-> 0]
        BY <1>2, <2>1, <3>2 DEF IsTotals
      <4> HIDE DEF g
      <4> QED
        BY <3>2, <4>1
    <3>3. CASE m \in 1 .. n
      <4>1. g[m] = f[m] /\ g[m - 1] = f[m - 1] /\ m # 0 /\ m \in 0 .. n
        BY <3>3
      <4>2. f[m] = [bytes |-> f[m - 1].bytes + FrameHeader + frames[m].compressed,
                    plain |-> f[m - 1].plain + frames[m].uncompressed]
        BY <2>1, <4>1 DEF IsTotals
      <4> HIDE DEF g
      <4> QED
        BY <4>1, <4>2
    <3> QED
      BY <1>2, <3>1, <3>2, <3>3
  <2>3. g = [m \in 0 .. n + 1 |-> g[m]]
    OBVIOUS
  <2> HIDE DEF g
  <2>4. g = [m \in 0 .. n + 1 |-> Value(m)]
    BY <2>2, <2>3
  <2>5. IsTotals(frames, n + 1, g)
    BY <2>4 DEF IsTotals
  <2> QED
    BY <1>2, <2>5
<1>3. \A n \in 0 .. Len(frames) : n \in S
  BY <1>1, <1>2, CountsUp
<1> QED
  BY <1>3

IsFrames(frames) ==
    /\ Len(frames) \in Nat
    /\ \A n \in 1 .. Len(frames) : frames[n].uncompressed \in Nat /\ frames[n].compressed \in Nat

\* Totals are the sums they are defined as.
LEMMA TotalsAre ==
    ASSUME NEW frames, IsFrames(frames)
    PROVE  /\ Totals(frames)[0] = [bytes |-> 0, plain |-> 0]
           /\ \A n \in 0 .. Len(frames) - 1 :
                 /\ Totals(frames)[n + 1].bytes = Totals(frames)[n].bytes + FrameHeader + frames[n + 1].compressed
                 /\ Totals(frames)[n + 1].plain = Totals(frames)[n].plain + frames[n + 1].uncompressed
           /\ \A n \in 0 .. Len(frames) : Totals(frames)[n].bytes \in Nat /\ Totals(frames)[n].plain \in Nat
<1> DEFINE f == CHOOSE g : IsTotals(frames, Len(frames), g)
<1>1. Totals(frames) = f
  BY DEF Totals, IsTotals
<1>2. IsTotals(frames, Len(frames), f)
  BY TotalsExist DEF IsFrames
<1> HIDE DEF f
<1>3. f[0] = [bytes |-> 0, plain |-> 0]
  BY <1>2 DEF IsTotals, IsFrames
<1>4. ASSUME NEW n \in 0 .. Len(frames) - 1
      PROVE  /\ f[n + 1].bytes = f[n].bytes + FrameHeader + frames[n + 1].compressed
             /\ f[n + 1].plain = f[n].plain + frames[n + 1].uncompressed
  <2>1. n + 1 \in 0 .. Len(frames) /\ n + 1 # 0 /\ (n + 1) - 1 = n
    BY DEF IsFrames
  <2>2. f[n + 1] = [bytes |-> f[n].bytes + FrameHeader + frames[n + 1].compressed,
                    plain |-> f[n].plain + frames[n + 1].uncompressed]
    BY <1>2, <2>1 DEF IsTotals
  <2> QED
    BY <2>2
<1> DEFINE S == {n \in 0 .. Len(frames) : f[n].bytes \in Nat /\ f[n].plain \in Nat}
<1>5. 0 \in S
  BY <1>3 DEF IsFrames
<1>6. ASSUME NEW n \in 0 .. Len(frames) - 1, n \in S PROVE n + 1 \in S
  <2>1. n + 1 \in 1 .. Len(frames) /\ n + 1 \in 0 .. Len(frames)
    BY DEF IsFrames
  <2>2. frames[n + 1].uncompressed \in Nat /\ frames[n + 1].compressed \in Nat /\ FrameHeader \in Nat
    BY <2>1, DecoderAssumption DEF IsFrames
  <2>3. f[n].bytes \in Nat /\ f[n].plain \in Nat
    BY <1>6
  <2>4. /\ f[n + 1].bytes = f[n].bytes + FrameHeader + frames[n + 1].compressed
        /\ f[n + 1].plain = f[n].plain + frames[n + 1].uncompressed
    BY <1>4
  <2>5. f[n + 1].bytes \in Nat /\ f[n + 1].plain \in Nat
    <3> DEFINE x == f[n + 1].bytes
               y == f[n + 1].plain
               a == f[n].bytes
               b == f[n].plain
               c == frames[n + 1].compressed
               d == frames[n + 1].uncompressed
    <3>1. x = a + FrameHeader + c /\ y = b + d
      BY <2>4
    <3>2. a \in Nat /\ b \in Nat /\ c \in Nat /\ d \in Nat
      BY <2>2, <2>3
    <3> HIDE DEF x, y, a, b, c, d
    <3>3. x \in Nat /\ y \in Nat
      BY <2>2, <3>1, <3>2
    <3> QED
      BY <3>3 DEF x, y
  <2> QED
    BY <2>1, <2>5
<1>7. \A n \in 0 .. Len(frames) : n \in S
  BY <1>5, <1>6, CountsUp DEF IsFrames
<1> QED
  BY <1>1, <1>3, <1>4, <1>7

\* They never go down.
LEMMA TotalsGrow ==
    ASSUME NEW frames, IsFrames(frames), NEW m \in 0 .. Len(frames), NEW n \in m .. Len(frames)
    PROVE  /\ Totals(frames)[m].bytes <= Totals(frames)[n].bytes
           /\ Totals(frames)[m].plain <= Totals(frames)[n].plain
<1> DEFINE T == Totals(frames)
           S == {i \in 0 .. n - m : T[m].bytes <= T[m + i].bytes /\ T[m].plain <= T[m + i].plain}
<1>1. Len(frames) \in Nat /\ n - m \in Nat
  BY DEF IsFrames
<1>2. /\ \A i \in 0 .. Len(frames) : T[i].bytes \in Nat /\ T[i].plain \in Nat
      /\ \A i \in 0 .. Len(frames) - 1 :
            /\ T[i + 1].bytes = T[i].bytes + FrameHeader + frames[i + 1].compressed
            /\ T[i + 1].plain = T[i].plain + frames[i + 1].uncompressed
  BY TotalsAre
<1> HIDE DEF T
<1>3. 0 \in S
  BY <1>1, <1>2
<1>4. ASSUME NEW i \in 0 .. (n - m) - 1, i \in S PROVE i + 1 \in S
  <2>1. /\ m + i \in 0 .. Len(frames) - 1 /\ (m + i) + 1 \in 1 .. Len(frames)
        /\ m + i \in 0 .. Len(frames) /\ m \in 0 .. Len(frames)
        /\ (m + i) + 1 = m + (i + 1) /\ i + 1 \in 0 .. n - m
    BY <1>1, <1>4
  <2>2. /\ frames[(m + i) + 1].uncompressed \in Nat /\ frames[(m + i) + 1].compressed \in Nat
        /\ FrameHeader \in Nat
    BY <2>1, DecoderAssumption DEF IsFrames
  <2>3. /\ T[m + (i + 1)].bytes = T[m + i].bytes + FrameHeader + frames[(m + i) + 1].compressed
        /\ T[m + (i + 1)].plain = T[m + i].plain + frames[(m + i) + 1].uncompressed
        /\ T[m].bytes \in Nat /\ T[m + i].bytes \in Nat /\ T[m].plain \in Nat /\ T[m + i].plain \in Nat
    BY <1>2, <2>1
  <2>4. T[m].bytes <= T[m + i].bytes /\ T[m].plain <= T[m + i].plain
    BY <1>4
  <2>5. T[m + i].bytes <= T[m + (i + 1)].bytes /\ T[m + i].plain <= T[m + (i + 1)].plain
    <3> DEFINE a == T[m + i].bytes
               b == T[m + i].plain
               c == frames[(m + i) + 1].compressed
               u == frames[(m + i) + 1].uncompressed
    <3>1. a \in Nat /\ b \in Nat /\ c \in Nat /\ u \in Nat
      BY <2>2, <2>3
    <3> HIDE DEF a, b, c, u
    <3>2. a <= a + FrameHeader + c /\ b <= b + u
      BY <2>2, <3>1
    <3> QED
      BY <2>3, <3>2 DEF a, b, c, u
  <2>6. T[m + (i + 1)].bytes \in Int /\ T[m + (i + 1)].plain \in Int
    <3>1. i + 1 \in 0 .. n - m /\ m + (i + 1) \in 0 .. Len(frames)
      BY <1>1, <2>1
    <3> QED
      BY <1>2, <3>1
  <2>7. T[m].bytes <= T[m + (i + 1)].bytes /\ T[m].plain <= T[m + (i + 1)].plain
    <3> DEFINE a == T[m].bytes
               b == T[m + i].bytes
               c == T[m + (i + 1)].bytes
               x == T[m].plain
               y == T[m + i].plain
               z == T[m + (i + 1)].plain
    <3>1. a \in Int /\ b \in Int /\ c \in Int /\ x \in Int /\ y \in Int /\ z \in Int
      BY <2>3, <2>6
    <3>2. a <= b /\ b <= c /\ x <= y /\ y <= z
      BY <2>4, <2>5
    <3> HIDE DEF a, b, c, x, y, z
    <3>3. a <= c /\ x <= z
      BY <3>1, <3>2
    <3> QED
      BY <3>3 DEF a, c, x, z
  <2> QED
    BY <2>1, <2>7
<1>5. \A i \in 0 .. n - m : i \in S
  BY <1>1, <1>3, <1>4, CountsUp
<1>6. n - m \in 0 .. n - m /\ m + (n - m) = n
  BY <1>1
<1> QED
  BY <1>5, <1>6 DEF T

------------------------------------------------------------------------------
\* Where each decoder is, by what the frames behind it add up to.

\* The frame after the first n is whole, fits and decodes.
Continues(n) ==
    /\ n < Len(file.frames)
    /\ Upto[n + 1].bytes <= file.length
    /\ Upto[n + 1].plain <= file.size
    /\ FrameDecodes(file.frames[n + 1])

Placed(d) ==
    /\ k[d] \in 0 .. Len(file.frames)
    /\ at[d] = Upto[k[d]].bytes /\ at[d] <= file.length
    /\ Upto[k[d]].plain <= file.size
    /\ \A m \in 1 .. k[d] : Upto[m - 1].plain < file.size /\ FrameDecodes(file.frames[m])
    /\ produced[d] = IF d = "memory" /\ verdict[d] \in {"corrupt", "write"}
                     THEN 0 ELSE Upto[k[d]].plain
    /\ verdict[d] = "ok" => ~(Upto[k[d]].plain < file.size)
    /\ verdict[d] = "corrupt" => Upto[k[d]].plain < file.size /\ ~Continues(k[d])

\* A file in one piece is never entered.
Unentered(d) ==
    /\ at[d] = 0 /\ k[d] = 0 /\ produced[d] \in {0, file.size}
    /\ verdict[d] = "ok" => produced[d] = file.size
    /\ verdict[d] # "ok" => produced[d] = 0 /\ out[d] = << >>

\* The blocks of the first n frames.
Blocks(n) == [m \in 1 .. n |-> Block(m, file.frames[m].uncompressed)]

Tallied ==
    /\ IsFile(file)
    /\ ~IsBlocked => \A d \in Decoders : Unentered(d)
    /\ IsBlocked => /\ \A d \in Decoders : Placed(d)
                    /\ out["stream"] = Blocks(k["stream"])

\* What IsFile gives of the totals.
LEMMA UptoIs ==
    ASSUME IsFile(file)
    PROVE  /\ IsFrames(file.frames) /\ Len(file.frames) \in Nat
           /\ file.size \in Nat /\ file.length \in Nat /\ FrameHeader \in Nat \ {0}
           /\ Upto[0].bytes = 0 /\ Upto[0].plain = 0
           /\ \A n \in 0 .. Len(file.frames) : Upto[n].bytes \in Nat /\ Upto[n].plain \in Nat
           /\ \A n \in 0 .. Len(file.frames) - 1 :
                 /\ file.frames[n + 1].uncompressed \in Nat /\ file.frames[n + 1].compressed \in Nat
                 /\ Upto[n + 1].bytes = Upto[n].bytes + FrameHeader + file.frames[n + 1].compressed
                 /\ Upto[n + 1].plain = Upto[n].plain + file.frames[n + 1].uncompressed
           /\ file.method = "blocked" => file.length < Upto[Len(file.frames)].bytes + FrameHeader
<1>1. /\ IsFrames(file.frames) /\ Len(file.frames) \in Nat
      /\ file.size \in Nat /\ file.length \in Nat /\ FrameHeader \in Nat \ {0}
  BY DecoderAssumption DEF IsFile, IsFrames
<1>2. Upto = Totals(file.frames)
  BY DEF Upto
<1>3. file.method = "blocked" => file.length < Upto[Len(file.frames)].bytes + FrameHeader
  BY <1>2 DEF IsFile, FrameBytes
<1>4. ASSUME NEW n \in 0 .. Len(file.frames) - 1
      PROVE  file.frames[n + 1].uncompressed \in Nat /\ file.frames[n + 1].compressed \in Nat
  <2>1. n + 1 \in 1 .. Len(file.frames)
    BY <1>1
  <2> QED
    BY <1>1, <2>1 DEF IsFrames
<1>5. Upto[0] = [bytes |-> 0, plain |-> 0]
  BY <1>1, <1>2, TotalsAre
<1>6. Upto[0].bytes = 0 /\ Upto[0].plain = 0
  BY <1>5
<1> QED
  BY <1>1, <1>2, <1>3, <1>4, <1>6, TotalsAre

\* What a decoder asks is whether the file continues.
LEMMA AsksRight ==
    ASSUME IsFile(file), IsBlocked, NEW d \in Decoders, Placed(d), verdict[d] = "running"
    PROVE  /\ More(Here(d)) <=> Upto[k[d]].plain < file.size
           /\ Passes(Here(d), k[d]) <=> Upto[k[d]].plain < file.size /\ Continues(k[d])
<1> DEFINE n == k[d]
           f == file.frames[n + 1]
<1>1. /\ n \in 0 .. Len(file.frames) /\ at[d] = Upto[n].bytes /\ at[d] <= file.length
      /\ produced[d] = Upto[n].plain /\ produced[d] <= file.size
  BY DEF Placed
<1>2. /\ Len(file.frames) \in Nat /\ file.size \in Nat /\ file.length \in Nat /\ FrameHeader \in Nat \ {0}
      /\ Upto[n].bytes \in Nat /\ Upto[n].plain \in Nat
      /\ file.length < Upto[Len(file.frames)].bytes + FrameHeader
  BY <1>1, UptoIs DEF IsBlocked
<1>3. More(Here(d)) <=> Upto[n].plain < file.size
  BY <1>1 DEF More, Here, Place
<1>4. CASE n = Len(file.frames)
  <2>1. ~(file.length - at[d] >= FrameHeader)
    BY <1>1, <1>2, <1>4
  <2>2. ~Passes(Here(d), n)
    BY <2>1 DEF Passes, Here, Place
  <2>3. ~Continues(n)
    BY <1>2, <1>4 DEF Continues
  <2> QED
    BY <1>3, <2>2, <2>3
<1>5. CASE n # Len(file.frames)
  <2>1. n \in 0 .. Len(file.frames) - 1 /\ n < Len(file.frames)
    BY <1>1, <1>2, <1>5
  <2>2. /\ f.uncompressed \in Nat /\ f.compressed \in Nat
        /\ Upto[n + 1].bytes = Upto[n].bytes + FrameHeader + f.compressed
        /\ Upto[n + 1].plain = Upto[n].plain + f.uncompressed
    BY <2>1, UptoIs
  <2>3. /\ Passes(Here(d), n) <=>
              /\ More(Here(d))
              /\ file.length - at[d] >= FrameHeader
              /\ file.length - at[d] >= FrameHeader + f.compressed
              /\ f.uncompressed <= file.size - produced[d]
              /\ FrameDecodes(f)
        /\ Continues(n) <=> /\ Upto[n + 1].bytes <= file.length
                            /\ Upto[n + 1].plain <= file.size
                            /\ FrameDecodes(f)
    BY <2>1 DEF Passes, Continues, Here, Place
  <2> HIDE DEF n, f
  <2>4. /\ (file.length - at[d] >= FrameHeader + f.compressed) <=> (Upto[n + 1].bytes <= file.length)
        /\ (file.length - at[d] >= FrameHeader + f.compressed) => (file.length - at[d] >= FrameHeader)
        /\ (f.uncompressed <= file.size - produced[d]) <=> (Upto[n + 1].plain <= file.size)
    <3> DEFINE a == Upto[n].bytes
               p == Upto[n].plain
               c == f.compressed
               u == f.uncompressed
               l == file.length
               s == file.size
    <3>1. /\ a \in Nat /\ p \in Nat /\ c \in Nat /\ u \in Nat /\ l \in Nat /\ s \in Nat
          /\ at[d] = a /\ produced[d] = p
          /\ Upto[n + 1].bytes = a + FrameHeader + c /\ Upto[n + 1].plain = p + u
      BY <1>1, <1>2, <2>2
    <3> HIDE DEF a, p, c, u, l, s
    <3>2. /\ (l - a >= FrameHeader + c) <=> (a + FrameHeader + c <= l)
          /\ (l - a >= FrameHeader + c) => (l - a >= FrameHeader)
          /\ (u <= s - p) <=> (p + u <= s)
      BY <1>2, <3>1
    <3> QED
      BY <3>1, <3>2 DEF a, p, c, u, l, s
  <2>5. Passes(Here(d), n) <=> Upto[n].plain < file.size /\ Continues(n)
    BY <1>3, <2>3, <2>4
  <2> QED
    BY <1>3, <2>5 DEF n
<1> QED
  BY <1>4, <1>5

\* One block more.
LEMMA BlocksGrow ==
    ASSUME IsFile(file), NEW n \in 0 .. Len(file.frames) - 1
    PROVE  Append(Blocks(n), Block(n + 1, file.frames[n + 1].uncompressed)) = Blocks(n + 1)
<1> DEFINE S == [frame : Nat, length : Nat]
           next == Block(n + 1, file.frames[n + 1].uncompressed)
<1>1. Len(file.frames) \in Nat /\ n \in Nat
  BY UptoIs
<1>2. ASSUME NEW m \in 1 .. n + 1 PROVE Block(m, file.frames[m].uncompressed) \in S
  <2>1. m \in 1 .. Len(file.frames) /\ m \in Nat
    BY <1>1, <1>2
  <2>2. file.frames[m].uncompressed \in Nat
    BY <2>1, UptoIs DEF IsFrames
  <2> QED
    BY <2>1, <2>2 DEF Block
<1>3. next \in S
  <2>1. n + 1 \in 1 .. n + 1
    BY <1>1
  <2> QED
    BY <1>2, <2>1
<1>4. Blocks(n) \in Seq(S) /\ Len(Blocks(n)) = n
  BY <1>1, <1>2 DEF Blocks
<1>5. Blocks(n + 1) \in Seq(S) /\ Len(Blocks(n + 1)) = n + 1
  BY <1>1, <1>2 DEF Blocks
<1> HIDE DEF S, next
<1>6. /\ Append(Blocks(n), next) \in Seq(S) /\ Len(Append(Blocks(n), next)) = n + 1
      /\ \A i \in 1 .. n : Append(Blocks(n), next)[i] = Blocks(n)[i]
      /\ Append(Blocks(n), next)[n + 1] = next
  BY <1>3, <1>4, AppendProperties
<1>7. ASSUME NEW i \in 1 .. n + 1 PROVE Append(Blocks(n), next)[i] = Blocks(n + 1)[i]
  <2>1. CASE i = n + 1
    BY <1>1, <1>6, <2>1 DEF Blocks, next
  <2>2. CASE i # n + 1
    <3>1. i \in 1 .. n
      BY <1>1, <2>2
    <3>2. Blocks(n)[i] = Blocks(n + 1)[i]
      BY <1>1, <3>1 DEF Blocks
    <3> QED
      BY <1>6, <3>1, <3>2
  <2> QED
    BY <2>1, <2>2
<1> QED
  BY <1>5, <1>6, <1>7, SeqEqual DEF next

\* The file stays, so what it adds up to does.
LEMMA SameFile ==
    ASSUME file' = file
    PROVE  /\ Upto' = Upto /\ (IsFile(file)' <=> IsFile(file)) /\ (IsBlocked' <=> IsBlocked)
           /\ \A n : (Continues(n)' <=> Continues(n)) /\ Blocks(n)' = Blocks(n)
<1>1. Upto' = Upto
  BY DEF Upto, Totals
<1>2. \A n : Continues(n)' <=> Continues(n)
  BY <1>1 DEF Continues, FrameDecodes, Decodes
<1>3. \A n : Blocks(n)' = Blocks(n)
  BY DEF Blocks
<1>4. IsFile(file)' <=> IsFile(file)
  BY DEF IsFile, FrameBytes, Totals
<1>5. IsBlocked' <=> IsBlocked
  BY DEF IsBlocked
<1> QED
  BY <1>1, <1>2, <1>3, <1>4, <1>5

\* A decoder that a step leaves alone stays placed.
LEMMA StaysPlaced ==
    ASSUME file' = file, NEW d \in Decoders,
           at'[d] = at[d], k'[d] = k[d], produced'[d] = produced[d], verdict'[d] = verdict[d],
           out'[d] = out[d]
    PROVE  (Placed(d) => Placed(d)') /\ (Unentered(d) => Unentered(d)')
<1>1. Upto' = Upto /\ \A n : Continues(n)' <=> Continues(n)
  BY SameFile
<1>2. Placed(d) => Placed(d)'
  BY <1>1 DEF Placed, FrameDecodes, Decodes
<1>3. Unentered(d) => Unentered(d)'
  BY DEF Unentered
<1> QED
  BY <1>2, <1>3

\* Past a frame.
LEMMA AdvanceTallied ==
    ASSUME IInv, Tallied, NEW d \in Decoders, pc[d] = "blocks", Passes(Here(d), k[d]), Advance(d)
    PROVE  Tallied'
<1> DEFINE n == k[d]
           f == file.frames[n + 1]
<1>1. file' = file /\ UNCHANGED <<pc, verdict>>
  BY DEF Advance
<1>2. /\ k'[d] = n + 1 /\ at'[d] = at[d] + FrameHeader + f.compressed
      /\ produced'[d] = produced[d] + f.uncompressed
      /\ out'[d] = Append(out[d], Block(n + 1, f.uncompressed))
      /\ \A e \in Decoders : e # d => k'[e] = k[e] /\ at'[e] = at[e] /\ produced'[e] = produced[e]
                                      /\ out'[e] = out[e]
  BY DEF Advance, NextFrame, IInv, Typed
<1>3. IsBlocked /\ verdict[d] = "running"
  BY DEF IInv, InOnePiece, Typed
<1>4. Placed(d) /\ IsFile(file) /\ n \in 0 .. Len(file.frames)
  BY <1>3 DEF Tallied, Placed
<1>5. Upto[n].plain < file.size /\ Continues(n)
  BY <1>3, <1>4, AsksRight
<1>6. /\ n \in 0 .. Len(file.frames) - 1 /\ n + 1 \in 0 .. Len(file.frames) /\ n \in Nat
      /\ Upto[n + 1].bytes <= file.length /\ Upto[n + 1].plain <= file.size /\ FrameDecodes(f)
  BY <1>4, <1>5, UptoIs DEF Continues
<1>7. Upto[n + 1].bytes = at'[d] /\ Upto[n + 1].plain = produced'[d]
  <2>1. /\ Upto[n + 1].bytes = Upto[n].bytes + FrameHeader + f.compressed
        /\ Upto[n + 1].plain = Upto[n].plain + f.uncompressed
    BY <1>4, <1>6, UptoIs
  <2>2. at[d] = Upto[n].bytes /\ produced[d] = Upto[n].plain
    BY <1>3, <1>4 DEF Placed
  <2> QED
    BY <1>2, <2>1, <2>2
<1>8. ASSUME NEW m \in 1 .. n + 1 PROVE Upto[m - 1].plain < file.size /\ FrameDecodes(file.frames[m])
  <2>1. CASE m = n + 1
    <3>1. m - 1 = n
      BY <1>6, <2>1
    <3> QED
      BY <1>5, <1>6, <2>1, <3>1
  <2>2. CASE m # n + 1
    <3>1. m \in 1 .. n
      BY <1>6, <2>2
    <3> QED
      BY <1>4, <3>1 DEF Placed
  <2> QED
    BY <2>1, <2>2
<1> HIDE DEF n, f
<1>9. Upto' = Upto /\ (IsFile(file)' <=> IsFile(file)) /\ (IsBlocked' <=> IsBlocked)
  BY <1>1, SameFile
<1>10. Placed(d)'
  BY <1>1, <1>2, <1>3, <1>6, <1>7, <1>8, <1>9 DEF Placed, FrameDecodes, Decodes
<1>11. ASSUME NEW e \in Decoders, e # d PROVE Placed(e)'
  <2>1. Placed(e)
    BY <1>3 DEF Tallied
  <2> QED
    BY <1>1, <1>2, <1>11, <2>1, StaysPlaced
<1>12. (out["stream"] = Blocks(k["stream"]))'
  <2>1. out["stream"] = Blocks(k["stream"])
    BY <1>3 DEF Tallied
  <2>2. \A i : Blocks(i)' = Blocks(i)
    BY <1>1, SameFile
  <2>3. CASE d = "stream"
    <3>1. Append(Blocks(n), Block(n + 1, f.uncompressed)) = Blocks(n + 1)
      BY <1>4, <1>6, BlocksGrow DEF n, f
    <3>2. out'["stream"] = Blocks(n + 1) /\ k'["stream"] = n + 1
      BY <1>2, <2>1, <2>3, <3>1 DEF n
    <3> QED
      BY <1>1, <3>2 DEF Blocks
  <2>4. CASE d # "stream"
    <3>1. out'["stream"] = out["stream"] /\ k'["stream"] = k["stream"]
      BY <1>2, <2>4 DEF Decoders
    <3> QED
      BY <1>1, <2>1, <3>1 DEF Blocks
  <2> QED
    BY <2>3, <2>4
<1> QED
  BY <1>3, <1>4, <1>9, <1>10, <1>11, <1>12 DEF Tallied

\* A decoder that stops stays where it is.
LEMMA StopTallied ==
    ASSUME IInv, Tallied, NEW d \in Decoders, verdict[d] = "running",
           \/ Throw(d, "corrupt") /\ (IsBlocked => More(Here(d)) /\ ~Passes(Here(d), k[d]))
           \/ Throw(d, "write")
           \/ Return(d) /\ IsBlocked /\ ~More(Here(d))
    PROVE  Tallied'
<1>1. /\ file' = file /\ UNCHANGED <<at, k>> /\ verdict'[d] \in {"corrupt", "write", "ok"}
      /\ produced'[d] = IF d = "memory" /\ verdict'[d] # "ok" THEN 0 ELSE produced[d]
      /\ out'[d] = IF d = "memory" /\ verdict'[d] # "ok" THEN << >> ELSE out[d]
      /\ \A e \in Decoders : e # d => /\ produced'[e] = produced[e] /\ out'[e] = out[e]
                                      /\ verdict'[e] = verdict[e]
  BY DEF Throw, Return, End, IInv, Typed
<1>2. /\ verdict'[d] = "corrupt" => (IsBlocked => More(Here(d)) /\ ~Passes(Here(d), k[d]))
      /\ verdict'[d] = "ok" => IsBlocked /\ ~More(Here(d))
  BY DEF Throw, Return, End, IInv, Typed
<1>3. Upto' = Upto /\ (IsFile(file)' <=> IsFile(file)) /\ (IsBlocked' <=> IsBlocked)
  BY <1>1, SameFile
<1>4. \A e \in Decoders : e # d => (Placed(e) => Placed(e)') /\ (Unentered(e) => Unentered(e)')
  BY <1>1, StaysPlaced
<1>5. CASE IsBlocked
  <2>1. Placed(d) /\ out["stream"] = Blocks(k["stream"])
    BY <1>5 DEF Tallied
  <2>2. /\ More(Here(d)) <=> Upto[k[d]].plain < file.size
        /\ Passes(Here(d), k[d]) <=> Upto[k[d]].plain < file.size /\ Continues(k[d])
    BY <1>5, <2>1, AsksRight DEF Tallied
  <2>3. \A n : Continues(n)' <=> Continues(n)
    BY <1>1, SameFile
  <2>4. Placed(d)'
    BY <1>1, <1>2, <1>3, <1>5, <2>1, <2>2, <2>3 DEF Placed, FrameDecodes, Decodes
  <2>5. out'["stream"] = out["stream"]
    BY <1>1 DEF Decoders
  <2>6. (out["stream"] = Blocks(k["stream"]))'
    BY <1>1, <2>1, <2>5 DEF Blocks
  <2> QED
    BY <1>3, <1>4, <1>5, <2>4, <2>6 DEF Tallied
<1>6. CASE ~IsBlocked
  <2>1. Unentered(d)
    BY <1>6 DEF Tallied
  <2>2. Unentered(d)'
    BY <1>1, <1>2, <1>6, <2>1 DEF Unentered
  <2> QED
    BY <1>3, <1>4, <1>6, <2>2 DEF Tallied
<1> QED
  BY <1>5, <1>6

\* Every step keeps the tally.
LEMMA NextTallied == IInv /\ Tallied /\ [Next]_vars => Tallied'
<1> SUFFICES ASSUME IInv, Tallied, [Next]_vars PROVE Tallied'
  OBVIOUS
<1>1. \A d \in Decoders : pc[d] # "ended" => verdict[d] = "running"
  BY DEF IInv, Typed
<1>2. ASSUME NEW d \in Decoders, Turn(d) PROVE Tallied'
  <2>1. IsBlocked /\ verdict[d] = "running"
    BY <1>1, <1>2 DEF Turn, IInv, InOnePiece
  <2> QED
    BY <1>2, <2>1, AdvanceTallied, StopTallied DEF Turn
<1>3. ASSUME NEW d \in Decoders, RefuseHeader(d) PROVE Tallied'
  BY <1>1, <1>3, StopTallied DEF RefuseHeader, IsBlocked
<1>4. ASSUME NEW d \in Decoders, DecodeWhole(d) PROVE Tallied'
  <2>1. /\ file' = file /\ UNCHANGED <<at, k>> /\ ~IsBlocked
        /\ verdict'[d] = "ok" /\ produced'[d] = file.size
        /\ \A e \in Decoders : e # d => /\ produced'[e] = produced[e] /\ out'[e] = out[e]
                                        /\ verdict'[e] = verdict[e]
    BY <1>4 DEF DecodeWhole, End, IsBlocked, IInv, Typed
  <2>2. Unentered(d)'
    BY <2>1 DEF Unentered, Tallied
  <2>3. \A e \in Decoders : e # d => Unentered(e)'
    BY <2>1, StaysPlaced DEF Tallied
  <2> QED
    BY <2>1, <2>2, <2>3, SameFile DEF Tallied
<1>5. ASSUME NEW d \in Decoders, DecodeWholeFails(d) PROVE Tallied'
  BY <1>1, <1>5, StopTallied DEF DecodeWholeFails, IsBlocked
<1>6. ASSUME NEW d \in Decoders, EndBlocks(d) PROVE Tallied'
  <2>1. IsBlocked /\ verdict[d] = "running" /\ ~More(Here(d)) /\ Return(d)
    BY <1>1, <1>6 DEF EndBlocks, MoreBlocks, More, Here, Place, IInv, InOnePiece
  <2> QED
    BY <2>1, StopTallied
<1>7. ASSUME UNCHANGED <<file, verdict, at, k, produced, out>> PROVE Tallied'
  BY <1>7, StaysPlaced, SameFile DEF Tallied
<1>8. ASSUME NEW d \in Decoders, OpenBlocked(d) PROVE Tallied'
  BY <1>7, <1>8 DEF OpenBlocked
<1>9. CASE UNCHANGED vars
  BY <1>7, <1>9 DEF vars
<1> QED
  BY <1>2, <1>3, <1>4, <1>5, <1>6, <1>8, <1>9, TurnsAreAlike DEF Next, Step, Run, Over, Decoders

------------------------------------------------------------------------------
\* The files made here

\* A payload of either kind.
LEMMA PayloadIs ==
    ASSUME NEW length \in Nat, NEW packed \in BOOLEAN
    PROVE  /\ Payload(length, packed).compressed \in Nat
           /\ Decodes(Payload(length, packed).method, Payload(length, packed).compressed, length,
                      Payload(length, packed).yields)
<1>1. CASE packed
  BY <1>1 DEF Payload, Decodes
<1>2. CASE ~packed
  BY <1>2 DEF Payload, Decodes
<1> QED
  BY <1>1, <1>2

MadeFrames(size, blockSize, packed) ==
    [n \in 1 .. BlockCountFor(size, blockSize) |->
        MadeFrame(Container(size, blockSize)[n + 1], packed)]

\* An input of more than a block is framed.
LEMMA MadeBlocked ==
    ASSUME NEW size \in Nat, NEW blockSize \in Nat, ShouldBlock(size, blockSize), NEW packed \in BOOLEAN
    PROVE  /\ Made(size, blockSize, packed).header = "whole"
           /\ Made(size, blockSize, packed).method = "blocked"
           /\ Made(size, blockSize, packed).size = size
           /\ Made(size, blockSize, packed).frames = MadeFrames(size, blockSize, packed)
           /\ Made(size, blockSize, packed).length = FrameBytes(MadeFrames(size, blockSize, packed))
           /\ Made(size, blockSize, packed).ours
<1> DEFINE pieces == Container(size, blockSize)
<1>1. pieces = Blocked(size, blockSize) /\ blockSize \in Nat \ {0}
  BY DEF Container, ShouldBlock
<1>2. /\ Len(pieces) = 1 + BlockCountFor(size, blockSize) /\ BlockCountFor(size, blockSize) \in Nat
      /\ pieces[1].method = "blocked"
  <2>1. pieces[1] = Header("blocked", size)
    BY <1>1, BlockedPieces
  <2>2. Header("blocked", size).method = "blocked"
    BY DEF Header
  <2>3. Len(pieces) = 1 + BlockCountFor(size, blockSize) /\ BlockCountFor(size, blockSize) \in Nat
    BY <1>1, BlockedPieces, BlockCount
  <2> QED
    BY <2>1, <2>2, <2>3
<1>3. Len(pieces) - 1 = BlockCountFor(size, blockSize)
  BY <1>2
<1>4. [n \in 1 .. Len(pieces) - 1 |-> MadeFrame(pieces[n + 1], packed)] = MadeFrames(size, blockSize, packed)
  BY <1>3 DEF MadeFrames
<1> HIDE DEF pieces
<1>5. Made(size, blockSize, packed) =
        [header |-> "whole", method |-> "blocked", size |-> size, yields |-> {},
         frames |-> MadeFrames(size, blockSize, packed),
         length |-> FrameBytes(MadeFrames(size, blockSize, packed)), ours |-> TRUE]
  BY <1>2, <1>4 DEF Made, pieces
<1> QED
  BY <1>5

\* Its frames are its blocks, as far as a length field can tell.
LEMMA MadeFramesAre ==
    ASSUME NEW size \in Nat, NEW blockSize \in Nat, ShouldBlock(size, blockSize), NEW packed \in BOOLEAN
    PROVE  /\ Len(MadeFrames(size, blockSize, packed)) = BlockCountFor(size, blockSize)
           /\ IsFrames(MadeFrames(size, blockSize, packed))
           /\ \A i \in Nat : i < BlockCountFor(size, blockSize) =>
                 /\ MadeFrames(size, blockSize, packed)[i + 1].uncompressed
                      = BlockOf(i, size, blockSize).len % U32
                 /\ blockSize < U32 => FrameDecodes(MadeFrames(size, blockSize, packed)[i + 1])
<1> DEFINE N == BlockCountFor(size, blockSize)
           frames == MadeFrames(size, blockSize, packed)
<1>1. Container(size, blockSize) = Blocked(size, blockSize) /\ blockSize \in Nat \ {0} /\ N \in Nat
  BY BlockCount DEF Container, ShouldBlock
<1>2. Len(frames) = N
  <2>1. frames \in Seq({frames[i] : i \in 1 .. N})
    BY <1>1 DEF MadeFrames
  <2>2. DOMAIN frames = 1 .. N
    BY DEF MadeFrames
  <2> QED
    BY <1>1, <2>1, <2>2
<1>3. ASSUME NEW i \in Nat, i < N
      PROVE  /\ frames[i + 1].uncompressed = BlockOf(i, size, blockSize).len % U32
             /\ frames[i + 1].uncompressed \in Nat /\ frames[i + 1].compressed \in Nat
             /\ blockSize < U32 => FrameDecodes(frames[i + 1])
  <2> DEFINE len == BlockOf(i, size, blockSize).len
             payload == Payload(len, packed)
  <2>1. len \in 1 .. blockSize /\ U32 \in Nat \ {0}
    BY <1>1, <1>3, BlockEnds, DecoderAssumption
  <2>2. Blocked(size, blockSize)[i + 2] = Frame(len, EncodeBlock(BlockOf(i, size, blockSize)))
    BY <1>1, <1>3, BlockedPieces
  <2>3. i + 1 \in 1 .. N /\ (i + 1) + 1 = i + 2
    BY <1>1, <1>3
  <2>4. frames[i + 1] = MadeFrame(Frame(len, EncodeBlock(BlockOf(i, size, blockSize))), packed)
    BY <1>1, <2>2, <2>3 DEF MadeFrames
  <2>5. frames[i + 1] = [uncompressed |-> len % U32, compressed |-> payload.compressed,
                         method |-> payload.method, yields |-> payload.yields]
    BY <2>4 DEF MadeFrame, Frame, EncodeBlock
  <2>6. len \in Nat
    BY <2>1
  <2>7. payload.compressed \in Nat /\ Decodes(payload.method, payload.compressed, len, payload.yields)
    BY <2>6, PayloadIs
  <2> HIDE DEF len, payload
  <2>8. len % U32 \in Nat /\ (blockSize < U32 => len % U32 = len)
    BY <2>1, <2>6
  <2> HIDE DEF frames
  <2>9. blockSize < U32 => FrameDecodes(frames[i + 1])
    BY <2>5, <2>7, <2>8 DEF FrameDecodes
  <2> QED
    BY <2>5, <2>7, <2>8, <2>9 DEF len
<1> HIDE DEF frames, N
<1>4. ASSUME NEW n \in 1 .. N PROVE frames[n].uncompressed \in Nat /\ frames[n].compressed \in Nat
  <2>1. n - 1 \in Nat /\ n - 1 < N /\ (n - 1) + 1 = n
    BY <1>1, <1>4
  <2> QED
    BY <1>3, <2>1
<1>5. IsFrames(frames)
  BY <1>1, <1>2, <1>4 DEF IsFrames
<1> QED
  BY <1>2, <1>3, <1>5 DEF frames, N

\* Any other input is one payload, or nothing.
LEMMA MadeSingle ==
    ASSUME NEW size \in Nat, NEW blockSize \in Nat, ~ShouldBlock(size, blockSize), NEW packed \in BOOLEAN
    PROVE  LET f == Made(size, blockSize, packed)
           IN  /\ f.header = "whole" /\ f.method # "blocked" /\ f.size = size /\ f.frames = << >>
               /\ f.length \in Nat /\ Decodes(f.method, f.length, f.size, f.yields)
<1> DEFINE f == Made(size, blockSize, packed)
           single == Payload(size, packed)
<1>1. Container(size, blockSize) = SingleBlock(size)
  BY DEF Container
<1>2. SingleBlock(size)[1].method # "blocked"
  BY DEF SingleBlock, Header
<1>3. f = [header |-> "whole", method |-> IF size = 0 THEN "stored" ELSE single.method,
           size |-> size, yields |-> single.yields, frames |-> << >>,
           length |-> IF size = 0 THEN 0 ELSE single.compressed, ours |-> TRUE]
  BY <1>1, <1>2 DEF Made
<1>4. single.compressed \in Nat /\ Decodes(single.method, single.compressed, size, single.yields)
  BY PayloadIs
<1>5. single.method # "blocked"
  BY DEF Payload
<1> HIDE DEF f, single
<1>6. CASE size = 0
  BY <1>3, <1>6 DEF Decodes, f
<1>7. CASE size # 0
  BY <1>3, <1>4, <1>5, <1>7 DEF f
<1> QED
  BY <1>6, <1>7

\* What is made here is a file.
LEMMA MadeIsFile ==
    ASSUME NEW size \in Nat, NEW blockSize \in Nat, NEW packed \in BOOLEAN
    PROVE  IsFile(Made(size, blockSize, packed))
<1> DEFINE f == Made(size, blockSize, packed)
           frames == MadeFrames(size, blockSize, packed)
<1>1. CASE ShouldBlock(size, blockSize)
  <2>1. f.size = size /\ f.frames = frames /\ f.length = FrameBytes(frames)
    BY <1>1, MadeBlocked
  <2>2. IsFrames(frames)
    BY <1>1, MadeFramesAre
  <2> HIDE DEF f, frames
  <2>3. FrameBytes(frames) \in Nat
    <3>1. Len(frames) \in 0 .. Len(frames)
      BY <2>2 DEF IsFrames
    <3> QED
      BY <2>2, <3>1, TotalsAre DEF FrameBytes
  <2>4. f.length < FrameBytes(f.frames) + FrameHeader
    BY <2>1, <2>3, DecoderAssumption
  <2>5. IsFile(f)
    BY <2>1, <2>2, <2>3, <2>4 DEF IsFile, IsFrames
  <2> QED
    BY <2>5 DEF f
<1>2. CASE ~ShouldBlock(size, blockSize)
  <2>1. f.method # "blocked" /\ f.size = size /\ f.frames = << >> /\ f.length \in Nat
    BY <1>2, MadeSingle
  <2> HIDE DEF f
  <2>2. IsFile(f)
    BY <2>1 DEF IsFile
  <2> QED
    BY <2>2 DEF f
<1> QED
  BY <1>1, <1>2

\* Every file is one.
LEMMA InitTallied == Init => Tallied
<1> SUFFICES ASSUME Init PROVE Tallied
  OBVIOUS
<1>1. IsFile(file)
  <2>1. CASE file \in Foreign
    BY <2>1, DecoderAssumption
  <2>2. CASE file \in MadeFiles
    <3>1. PICK m \in MadeWith : file = Made(m.size, m.blockSize, m.packed)
      BY <2>2 DEF MadeFiles
    <3>2. m.size \in Nat /\ m.blockSize \in Nat /\ m.packed \in BOOLEAN
      BY DecoderAssumption DEF MadeWith
    <3> QED
      BY <3>1, <3>2, MadeIsFile
  <2> QED
    BY <2>1, <2>2 DEF Init
<1>2. ASSUME NEW d \in Decoders PROVE Unentered(d)
  BY DEF Init, Unentered
<1>3. ASSUME NEW d \in Decoders PROVE Placed(d)
  <2>1. at[d] = 0 /\ k[d] = 0 /\ produced[d] = 0 /\ verdict[d] = "running"
    BY DEF Init
  <2>2. Upto[0].bytes = 0 /\ Upto[0].plain = 0 /\ Len(file.frames) \in Nat /\ file.length \in Nat /\ file.size \in Nat
    BY <1>1, UptoIs
  <2> QED
    BY <2>1, <2>2 DEF Placed
<1>4. out["stream"] = Blocks(k["stream"])
  BY DEF Init, Decoders, Blocks
<1> QED
  BY <1>1, <1>2, <1>3, <1>4 DEF Tallied

\* The frames of the file are counted right in every state.
LEMMA TallyHolds == Spec => [](IInv /\ Tallied)
<1> QED
  BY InitIInv, InitTallied, NextIInv, NextTallied, PTL DEF Spec

(***************************************************************************)
(* Neither decoder reads past its file or produces more than was declared, *)
(* and what was written before an error is right (codec.cpp:116-129,       *)
(* 275-299).                                                               *)
(***************************************************************************)
THEOREM StaysInFile == Spec => []Inv
<1>1. ASSUME IInv, Tallied PROVE TypeOK
  <2>1. pc \in [Decoders -> {"open", "blocks", "ended"}] /\ verdict \in [Decoders -> {"running", "ok", "corrupt", "write"}]
    BY <1>1 DEF IInv, Typed
  <2>2. /\ file.size \in Nat /\ file.length \in Nat /\ Len(file.frames) \in Nat
        /\ \A n \in 0 .. Len(file.frames) : Upto[n].bytes \in Nat /\ Upto[n].plain \in Nat
    BY <1>1, UptoIs DEF Tallied
  <2>3. ASSUME NEW d \in Decoders
        PROVE  at[d] \in 0 .. file.length /\ produced[d] \in 0 .. file.size /\ k[d] \in 0 .. Len(file.frames)
    <3>1. CASE IsBlocked
      BY <1>1, <2>2, <3>1 DEF Tallied, Placed
    <3>2. CASE ~IsBlocked
      BY <1>1, <2>2, <3>2 DEF Tallied, Unentered
    <3> QED
      BY <3>1, <3>2
  <2> QED
    BY <2>1, <2>3 DEF TypeOK
<1>2. ASSUME IInv, Tallied PROVE WrittenIsDecoded
  <2>1. SUFFICES ASSUME file.method = "blocked"
                 PROVE  /\ Len(out["stream"]) = k["stream"]
                        /\ \A n \in DOMAIN out["stream"] :
                              /\ out["stream"][n] = Block(n, file.frames[n].uncompressed)
                              /\ FrameDecodes(file.frames[n])
    BY DEF WrittenIsDecoded
  <2>2. CASE IsBlocked
    <3>1. out["stream"] = Blocks(k["stream"]) /\ Placed("stream")
      BY <1>2, <2>2 DEF Tallied, Decoders
    <3>2. k["stream"] \in Nat
      BY <1>2 DEF IInv, Typed, Decoders
    <3>3. DOMAIN out["stream"] = 1 .. k["stream"] /\ Len(out["stream"]) = k["stream"]
      <4>1. ASSUME NEW n \in Nat PROVE DOMAIN Blocks(n) = 1 .. n /\ Len(Blocks(n)) = n
        <5>1. Blocks(n) \in Seq({Block(m, file.frames[m].uncompressed) : m \in 1 .. n})
          BY DEF Blocks
        <5>2. DOMAIN Blocks(n) = 1 .. n
          BY DEF Blocks
        <5> QED
          BY <5>1, <5>2
      <4> QED
        BY <3>1, <3>2, <4>1
    <3> QED
      BY <3>1, <3>3 DEF Blocks, Placed
  <2>3. CASE ~IsBlocked
    <3>1. verdict["stream"] # "ok"
      BY <1>2, <2>1, <2>3 DEF IInv, InOnePiece, IsBlocked, Decoders
    <3>2. out["stream"] = << >> /\ k["stream"] = 0
      BY <1>2, <2>3, <3>1 DEF Tallied, Unentered, Decoders
    <3> QED
      BY <3>2
  <2> QED
    BY <2>2, <2>3
<1>3. IInv /\ Tallied => Inv
  BY <1>1, <1>2 DEF Inv
<1> QED
  BY <1>3, TallyHolds, PTL

------------------------------------------------------------------------------
\* The verdicts

\* A decoder that stopped at a frame it could not use was given a file that no
\* number of frames makes up.
LEMMA StoppedShort ==
    ASSUME IsFile(file), IsBlocked, NEW n \in 0 .. Len(file.frames),
           Upto[n].plain < file.size, ~Continues(n),
           NEW m \in 0 .. Len(file.frames), IsTheFile(m)
    PROVE  FALSE
<1>1. /\ Len(file.frames) \in Nat /\ file.size \in Nat /\ file.length \in Nat /\ IsFrames(file.frames)
      /\ \A i \in 0 .. Len(file.frames) : Upto[i].bytes \in Nat /\ Upto[i].plain \in Nat
  BY UptoIs
<1>2. /\ Upto[m].plain = file.size /\ Upto[m].bytes <= file.length
      /\ \A i \in 1 .. m : FrameDecodes(file.frames[i])
  BY DEF IsTheFile
<1>3. \A i \in 0 .. Len(file.frames), j \in 0 .. Len(file.frames) :
         i <= j => Upto[i].bytes <= Upto[j].bytes /\ Upto[i].plain <= Upto[j].plain
  <2> SUFFICES ASSUME NEW i \in 0 .. Len(file.frames), NEW j \in 0 .. Len(file.frames), i <= j
               PROVE  Upto[i].bytes <= Upto[j].bytes /\ Upto[i].plain <= Upto[j].plain
    OBVIOUS
  <2>1. j \in i .. Len(file.frames)
    BY <1>1
  <2> QED
    BY <1>1, <2>1, TotalsGrow DEF Upto
<1>4. n < m
  <2>1. CASE m <= n
    BY <1>1, <1>2, <1>3, <2>1
  <2> QED
    BY <1>1, <2>1
<1>5. n + 1 \in 1 .. m /\ n + 1 \in 0 .. Len(file.frames) /\ n + 1 <= m /\ n < Len(file.frames)
  BY <1>1, <1>4
<1>6. Upto[n + 1].bytes <= file.length /\ Upto[n + 1].plain <= file.size
  BY <1>1, <1>2, <1>3, <1>5
<1>7. Continues(n)
  BY <1>2, <1>5, <1>6 DEF Continues
<1> QED
  BY <1>7

\* What the invariant says of the verdicts.
LEMMA VerdictsFollow == IInv /\ Tallied => VerdictRight
<1> SUFFICES ASSUME IInv, Tallied, NEW d \in Decoders
             PROVE  /\ verdict[d] = "ok" => Decodable /\ produced[d] = file.size
                    /\ verdict[d] = "corrupt" => ~Decodable
  BY DEF VerdictRight
<1>1. CASE IsBlocked
  <2>1. Placed(d) /\ IsFile(file) /\ k[d] \in 0 .. Len(file.frames)
    BY <1>1 DEF Tallied, Placed
  <2>2. Upto[k[d]].plain \in Nat /\ file.size \in Nat
    BY <2>1, UptoIs
  <2>3. ASSUME verdict[d] = "ok" PROVE Decodable /\ produced[d] = file.size
    <3>1. Upto[k[d]].plain = file.size
      BY <2>1, <2>2, <2>3 DEF Placed
    <3>2. IsTheFile(k[d])
      BY <2>1, <3>1 DEF IsTheFile, Placed
    <3>3. produced[d] = file.size
      BY <2>1, <2>3, <3>1 DEF Placed
    <3> QED
      BY <1>1, <2>1, <3>2, <3>3 DEF Decodable, IsBlocked
  <2>4. ASSUME verdict[d] = "corrupt" PROVE ~Decodable
    <3>1. Upto[k[d]].plain < file.size /\ ~Continues(k[d])
      BY <2>1, <2>4 DEF Placed
    <3>2. \A m \in 0 .. Len(file.frames) : ~IsTheFile(m)
      BY <1>1, <2>1, <3>1, StoppedShort
    <3> QED
      BY <1>1, <3>2 DEF Decodable, IsBlocked
  <2> QED
    BY <2>3, <2>4
<1>2. CASE ~IsBlocked
  <2>1. InOnePiece(d) /\ Unentered(d)
    BY <1>2 DEF IInv, Tallied
  <2> QED
    BY <1>2, <2>1 DEF InOnePiece, Unentered, Decodable, IsBlocked
<1> QED
  BY <1>1, <1>2

(***************************************************************************)
(* Each decoder succeeds exactly on the files of which some first frames   *)
(* are whole, decode and add up to the declared size, whatever order it    *)
(* asks its questions in (codec.cpp:117-134, 277-299).  What follows those *)
(* frames is not looked at, against codec.h:46-47: see OnlyWholeFiles.     *)
(***************************************************************************)
THEOREM VerdictsAreRight == Spec => []VerdictRight
<1> QED
  BY VerdictsFollow, TallyHolds, PTL

------------------------------------------------------------------------------
\* The files made here decode

\* The frames of an input add up to the input, and no fewer of them do, if no
\* block is too long for its length field.
LEMMA MadeTotals ==
    ASSUME NEW size \in Nat, NEW blockSize \in Nat, ShouldBlock(size, blockSize), blockSize < U32,
           NEW packed \in BOOLEAN
    PROVE  /\ Totals(MadeFrames(size, blockSize, packed))[BlockCountFor(size, blockSize)].plain = size
           /\ \A n \in 0 .. BlockCountFor(size, blockSize) - 1 :
                 Totals(MadeFrames(size, blockSize, packed))[n].plain < size
<1> DEFINE N == BlockCountFor(size, blockSize)
           frames == MadeFrames(size, blockSize, packed)
           T == Totals(frames)
           S == {n \in 0 .. N : T[n].plain = Least(size, n * blockSize)}
<1>1. blockSize \in Nat \ {0} /\ N \in Nat /\ IsFrames(frames) /\ Len(frames) = N
  BY BlockCount, MadeFramesAre DEF ShouldBlock
<1>0. \A i \in Nat : i < N <=> i * blockSize < size
  BY <1>1, BlockCount
<1>2. 0 \in S
  <2>1. T[0].plain = 0
    BY <1>1, TotalsAre
  <2>2. Least(size, 0 * blockSize) = 0
    BY <1>1 DEF Least
  <2> QED
    BY <1>1, <2>1, <2>2
<1>3. ASSUME NEW n \in 0 .. N - 1, n \in S PROVE n + 1 \in S
  <2> DEFINE len == BlockOf(n, size, blockSize).len
  <2>1. n \in Nat /\ n < N /\ n + 1 \in 0 .. N
    BY <1>1
  <2>2. /\ len \in 1 .. blockSize /\ Least(size, n * blockSize) = n * blockSize
        /\ n * blockSize + len = Least(size, (n + 1) * blockSize)
    BY <1>1, <2>1, BlockEnds
  <2>3. frames[n + 1].uncompressed = len % U32
    BY <2>1, MadeFramesAre
  <2>4. T[n + 1].plain = T[n].plain + frames[n + 1].uncompressed
    BY <1>1, <2>1, TotalsAre
  <2>5. T[n].plain = n * blockSize
    BY <1>3, <2>2
  <2> HIDE DEF len, T, frames
  <2>6. len % U32 = len
    BY <2>2, DecoderAssumption
  <2>7. T[n + 1].plain = Least(size, (n + 1) * blockSize)
    BY <2>2, <2>3, <2>4, <2>5, <2>6
  <2> QED
    BY <2>1, <2>7
<1>4. \A n \in 0 .. N : n \in S
  BY <1>1, <1>2, <1>3, CountsUp
<1> HIDE DEF T
<1>5. T[N].plain = size
  <2>1. N \in 0 .. N /\ ~(N * blockSize < size) /\ N * blockSize \in Nat
    <3>1. ~(N * blockSize < size)
      BY <1>0, <1>1
    <3>2. N * blockSize \in Nat
      BY <1>1, TimesMonotonic
    <3> QED
      BY <1>1, <3>1, <3>2
  <2>2. Least(size, N * blockSize) = size
    <3> DEFINE end == N * blockSize
    <3>1. end \in Nat /\ ~(end < size)
      BY <2>1
    <3> HIDE DEF end
    <3>2. Least(size, end) = size
      BY <3>1 DEF Least
    <3> QED
      BY <3>2 DEF end
  <2> QED
    BY <1>4, <2>1, <2>2
<1>6. ASSUME NEW n \in 0 .. N - 1 PROVE T[n].plain < size
  <2>1. n \in Nat /\ n < N /\ n \in 0 .. N
    BY <1>1
  <2>2. n * blockSize < size /\ Least(size, n * blockSize) = n * blockSize
    BY <1>0, <1>1, <2>1, BlockEnds
  <2> QED
    BY <1>4, <2>1, <2>2
<1> QED
  BY <1>5, <1>6 DEF T

\* A file made here is decodable, and nothing follows what decodes.
Sound(f) ==
    /\ f.header = "whole"
    /\ f.method # "blocked" => Decodes(f.method, f.length, f.size, f.yields)
    /\ f.method = "blocked" =>
          /\ f.length = FrameBytes(f.frames)
          /\ Totals(f.frames)[Len(f.frames)].plain = f.size
          /\ \A n \in 1 .. Len(f.frames) :
                Totals(f.frames)[n - 1].plain < f.size /\ FrameDecodes(f.frames[n])

\* Every file made here is such a file.
LEMMA MadeIsSound ==
    ASSUME MaxMadeBlock < U32, NEW size \in Nat, NEW blockSize \in 0 .. MaxMadeBlock, NEW packed \in BOOLEAN
    PROVE  Sound(Made(size, blockSize, packed))
<1> DEFINE f == Made(size, blockSize, packed)
           frames == MadeFrames(size, blockSize, packed)
           N == BlockCountFor(size, blockSize)
<1>1. blockSize \in Nat /\ blockSize < U32
  BY DecoderAssumption
<1>2. CASE ShouldBlock(size, blockSize)
  <2>1. /\ f.header = "whole" /\ f.method = "blocked" /\ f.size = size
        /\ f.frames = frames /\ f.length = FrameBytes(frames)
    BY <1>1, <1>2, MadeBlocked
  <2>2. Len(frames) = N /\ \A i \in Nat : i < N => FrameDecodes(frames[i + 1])
    BY <1>1, <1>2, MadeFramesAre
  <2>3. N \in Nat
    BY <1>1, <1>2, BlockCount DEF ShouldBlock
  <2>4. Totals(frames)[N].plain = size /\ \A n \in 0 .. N - 1 : Totals(frames)[n].plain < size
    BY <1>1, <1>2, MadeTotals
  <2> HIDE DEF f, frames, N
  <2>5. ASSUME NEW n \in 1 .. Len(frames)
        PROVE  Totals(frames)[n - 1].plain < size /\ FrameDecodes(frames[n])
    <3>1. n - 1 \in 0 .. N - 1 /\ n - 1 \in Nat /\ n - 1 < N /\ (n - 1) + 1 = n
      BY <2>2, <2>3
    <3>2. FrameDecodes(frames[(n - 1) + 1])
      BY <2>2, <3>1
    <3> QED
      BY <2>4, <3>1, <3>2
  <2>6. Sound(f)
    BY <2>1, <2>2, <2>4, <2>5 DEF Sound
  <2> QED
    BY <2>6 DEF f
<1>3. CASE ~ShouldBlock(size, blockSize)
  <2>1. f.header = "whole" /\ f.method # "blocked" /\ Decodes(f.method, f.length, f.size, f.yields)
    BY <1>1, <1>3, MadeSingle
  <2> HIDE DEF f
  <2>2. Sound(f)
    BY <2>1 DEF Sound
  <2> QED
    BY <2>2 DEF f
<1> QED
  BY <1>2, <1>3

\* So every file of the codec's own is one, from the first state on.
LEMMA OwnFilesAreSound ==
    ASSUME MaxMadeBlock < U32
    PROVE  Spec => [](file.ours => Sound(file))
<1>1. Init => (file.ours => Sound(file))
  <2> SUFFICES ASSUME Init, file.ours PROVE Sound(file)
    OBVIOUS
  <2>1. file \in MadeFiles
    BY DecoderAssumption DEF Init
  <2>2. PICK m \in MadeWith : file = Made(m.size, m.blockSize, m.packed)
    BY <2>1 DEF MadeFiles
  <2>3. m.size \in Nat /\ m.blockSize \in 0 .. MaxMadeBlock /\ m.packed \in BOOLEAN
    BY DecoderAssumption DEF MadeWith
  <2> QED
    BY <2>2, <2>3, MadeIsSound
<1>2. (file.ours => Sound(file)) /\ [Next]_vars => (file.ours => Sound(file))'
  <2>1. [Next]_vars => file' = file
    BY DEF Next, Step, Over, Run, vars, MemoryBlock, StreamBlock, RefuseHeader, DecodeWhole,
           DecodeWholeFails, OpenBlocked, EndBlocks, Advance, Throw, Return, End
  <2>2. ASSUME file' = file PROVE Sound(file)' <=> Sound(file)
    BY <2>2 DEF Sound, FrameBytes, Totals, Decodes, FrameDecodes
  <2> QED
    BY <2>1, <2>2
<1> QED
  BY <1>1, <1>2, PTL DEF Spec

(***************************************************************************)
(* Both decoders reverse what compress and compressStream make, up to the  *)
(* last byte (codec.h:46), as long as no block is too long for its length  *)
(* field.                                                                  *)
(***************************************************************************)
THEOREM OwnFilesDecodeHere ==
    ASSUME MaxMadeBlock < U32
    PROVE  Spec => []OwnFilesDecode
<1>1. IInv /\ Tallied /\ (file.ours => Sound(file)) => OwnFilesDecode
  <2> SUFFICES ASSUME IInv, Tallied, Sound(file), NEW d \in Decoders
               PROVE  /\ verdict[d] # "corrupt"
                      /\ verdict[d] = "ok" => at[d] = file.length \/ file.method # "blocked"
    BY DEF OwnFilesDecode
  <2>1. IsFile(file) /\ VerdictRight
    BY VerdictsFollow DEF Tallied
  <2> DEFINE N == Len(file.frames)
  <2>2. N \in Nat /\ N \in 0 .. N
    BY <2>1, UptoIs
  <2>3. file.method = "blocked" =>
           /\ file.length = Upto[N].bytes /\ Upto[N].plain = file.size
           /\ \A n \in 1 .. N : Upto[n - 1].plain < file.size /\ FrameDecodes(file.frames[n])
    BY DEF Sound, Upto, FrameBytes
  <2>4. Decodable
    <3>1. CASE file.method = "blocked"
      <4>1. IsTheFile(N)
        BY <2>1, <2>2, <2>3, <3>1, UptoIs DEF IsTheFile
      <4> QED
        BY <2>2, <3>1, <4>1 DEF Decodable, Sound
    <3>2. CASE file.method # "blocked"
      BY <3>2 DEF Decodable, Sound, WholeDecodes
    <3> QED
      BY <3>1, <3>2
  <2>5. verdict[d] # "corrupt"
    BY <2>1, <2>4 DEF VerdictRight
  <2>6. ASSUME verdict[d] = "ok", file.method = "blocked" PROVE at[d] = file.length
    <3>1. IsBlocked
      BY <2>6 DEF IsBlocked, Sound
    <3>2. k[d] \in 0 .. N /\ at[d] = Upto[k[d]].bytes /\ ~(Upto[k[d]].plain < file.size)
      BY <2>6, <3>1 DEF Tallied, Placed
    <3>3. CASE k[d] = N
      BY <2>3, <2>6, <3>2, <3>3
    <3>4. CASE k[d] # N
      <4>1. k[d] + 1 \in 1 .. N /\ (k[d] + 1) - 1 = k[d]
        BY <2>2, <3>2, <3>4
      <4> QED
        BY <2>3, <2>6, <3>2, <4>1
    <3> QED
      BY <3>3, <3>4
  <2> QED
    BY <2>5, <2>6
<1> QED
  BY <1>1, OwnFilesAreSound, TallyHolds, PTL
==============================================================================
