----------------------------- MODULE EncoderProofs -----------------------------
(***************************************************************************)
(* That compressStream writes, and compress returns, the one container of  *)
(* the input, whatever the threads do, for every input, block size and     *)
(* number of threads; that compressStream reads no further ahead than a    *)
(* batch; and the same of the two side by side in MCEncoders.              *)
(*                                                                         *)
(* The proof about compressStream comes first, then the one about compress *)
(* (names in Memory...), each with an inductive invariant of its own.      *)
(***************************************************************************)
EXTENDS MCEncoders, SequenceTheorems, TLAPS

------------------------------------------------------------------------------
\* The blocks of an input are what is left of it, cut at every multiple of the
\* block size; and what a beginning of a container is.

\* Multiplication is monotonic.
LEMMA TimesMonotonic ==
    ASSUME NEW a \in Nat, NEW b \in Nat, a <= b, NEW m \in Nat
    PROVE  a * m <= b * m /\ a * m \in Nat /\ b * m \in Nat
<1>1. (b - a) * m \in Nat /\ (b - a) * m >= 0
  <2>1. b - a \in Nat
    OBVIOUS
  <2> DEFINE d == b - a
  <2> HIDE DEF d
  <2>2. d * m \in Nat
    BY <2>1 DEF d
  <2> QED
    BY <2>2 DEF d
<1>2. b * m = a * m + (b - a) * m
  OBVIOUS
<1> QED
  BY <1>1, <1>2

\* There is a block k exactly if the input goes beyond its start.
LEMMA BlockCount ==
    ASSUME NEW size \in Nat, NEW blockSize \in Nat \ {0}
    PROVE  /\ BlockCountFor(size, blockSize) \in Nat
           /\ \A k \in Nat : k < BlockCountFor(size, blockSize) <=> k * blockSize < size
<1> DEFINE n == BlockCountFor(size, blockSize)
           r == (size + blockSize - 1) % blockSize
<1>1. n \in Nat /\ r \in 0 .. blockSize - 1 /\ size + blockSize - 1 = n * blockSize + r
  BY DEF BlockCountFor
<1> HIDE DEF n, r
<1>2. ASSUME NEW k \in Nat, k < n PROVE k * blockSize < size
  <2>1. k + 1 \in Nat /\ k + 1 <= n
    BY <1>1, <1>2
  <2>2. (k + 1) * blockSize <= n * blockSize
    BY <1>1, <2>1, TimesMonotonic
  <2>3. (k + 1) * blockSize = k * blockSize + blockSize
    OBVIOUS
  <2>4. k * blockSize \in Nat /\ n * blockSize \in Nat
    BY <1>1, TimesMonotonic
  <2> QED
    BY <1>1, <2>2, <2>3, <2>4
<1>3. ASSUME NEW k \in Nat, n <= k PROVE size <= k * blockSize
  <2>1. n * blockSize <= k * blockSize /\ k * blockSize \in Nat /\ n * blockSize \in Nat
    BY <1>1, <1>3, TimesMonotonic
  <2> QED
    BY <1>1, <2>1
<1>4. \A k \in Nat : k < n <=> k * blockSize < size
  <2> SUFFICES ASSUME NEW k \in Nat PROVE k < n <=> k * blockSize < size
    OBVIOUS
  <2>1. k * blockSize \in Nat
    BY TimesMonotonic
  <2> QED
    BY <1>1, <1>2, <1>3, <2>1
<1> QED
  BY <1>1, <1>4 DEF n

\* A block starts where the one before it ends, and the last ends with the input.
LEMMA BlockEnds ==
    ASSUME NEW size \in Nat, NEW blockSize \in Nat \ {0},
           NEW k \in Nat, k < BlockCountFor(size, blockSize)
    PROVE  /\ BlockOf(k, size, blockSize).from = k * blockSize
           /\ BlockOf(k, size, blockSize).len \in 1 .. blockSize
           /\ BlockOf(k, size, blockSize).len <= size
           /\ Least(size, k * blockSize) = k * blockSize
           /\ k * blockSize + BlockOf(k, size, blockSize).len = Least(size, (k + 1) * blockSize)
<1>1. k * blockSize \in Nat /\ k * blockSize < size /\ (k + 1) * blockSize = k * blockSize + blockSize
  BY BlockCount, TimesMonotonic
<1> DEFINE start == k * blockSize
           next == (k + 1) * blockSize
<1>2. start \in Nat /\ start < size /\ next = start + blockSize
  BY <1>1
<1>3. BlockOf(k, size, blockSize) = [from |-> start, len |-> Least(blockSize, size - start)]
  BY DEF BlockOf, Stretch
<1> HIDE DEF start, next
<1>4. /\ BlockOf(k, size, blockSize).from = start
      /\ BlockOf(k, size, blockSize).len \in 1 .. blockSize
      /\ BlockOf(k, size, blockSize).len <= size
      /\ Least(size, start) = start
      /\ start + BlockOf(k, size, blockSize).len = Least(size, next)
  BY <1>2, <1>3 DEF Least
<1> QED
  BY <1>4 DEF start, next

\* An input that is cut has at least two blocks, and no more than it has bytes.
LEMMA BlockCountBounds ==
    ASSUME NEW size \in Nat, NEW blockSize \in Nat \ {0}
    PROVE  /\ BlockCountFor(size, blockSize) <= size
           /\ size > blockSize => BlockCountFor(size, blockSize) >= 2
           /\ size > 0 => BlockCountFor(size, blockSize) >= 1
<1>1. ~(size < BlockCountFor(size, blockSize))
  <2>1. size * 1 <= size * blockSize /\ size * blockSize \in Nat
    <3>1. 1 * size <= blockSize * size /\ blockSize * size \in Nat
      BY TimesMonotonic
    <3> QED
      BY <3>1
  <2> QED
    BY <2>1, BlockCount
<1>2. size > blockSize => 1 < BlockCountFor(size, blockSize)
  <2>1. 1 < BlockCountFor(size, blockSize) <=> 1 * blockSize < size
    BY BlockCount
  <2> QED
    BY <2>1
<1>3. size > 0 => 0 < BlockCountFor(size, blockSize)
  <2>1. 0 < BlockCountFor(size, blockSize) <=> 0 * blockSize < size
    BY BlockCount
  <2> QED
    BY <2>1
<1>4. BlockCountFor(size, blockSize) \in Nat
  BY BlockCount
<1> QED
  BY <1>1, <1>2, <1>3, <1>4

------------------------------------------------------------------------------
\* Beginnings of a sequence.

\* A beginning of a sequence is one element longer with the next element appended.
LEMMA Beginnings ==
    ASSUME NEW S, NEW seq \in Seq(S), NEW n \in 0 .. Len(seq)
    PROVE  /\ SubSeq(seq, 1, n) \in Seq(S)
           /\ Len(SubSeq(seq, 1, n)) = n
           /\ n = 0 => SubSeq(seq, 1, n) = << >>
           /\ n = Len(seq) => SubSeq(seq, 1, n) = seq
           /\ n < Len(seq) => Append(SubSeq(seq, 1, n), seq[n + 1]) = SubSeq(seq, 1, n + 1)
<1>1. SubSeq(seq, 1, n) \in Seq(S) /\ Len(SubSeq(seq, 1, n)) = n
      /\ \A k \in 1 .. n : SubSeq(seq, 1, n)[k] = seq[k]
  OBVIOUS
<1>2. n = 0 => SubSeq(seq, 1, n) = << >>
  BY <1>1
<1>3. n = Len(seq) => SubSeq(seq, 1, n) = seq
  BY <1>1, SeqEqual
<1>4. ASSUME n < Len(seq) PROVE Append(SubSeq(seq, 1, n), seq[n + 1]) = SubSeq(seq, 1, n + 1)
  <2> DEFINE a == Append(SubSeq(seq, 1, n), seq[n + 1])
             b == SubSeq(seq, 1, n + 1)
  <2>1. a \in Seq(S) /\ Len(a) = n + 1 /\ a[n + 1] = seq[n + 1] /\ \A k \in 1 .. n : a[k] = seq[k]
    BY <1>1, <1>4
  <2>2. b \in Seq(S) /\ Len(b) = n + 1 /\ \A k \in 1 .. n + 1 : b[k] = seq[k]
    BY <1>4
  <2> HIDE DEF a, b
  <2>3. \A k \in 1 .. Len(a) : a[k] = b[k]
    BY <2>1, <2>2
  <2>4. a = b
    BY <2>1, <2>2, <2>3, SeqEqual
  <2> QED
    BY <2>4 DEF a, b
<1> QED
  BY <1>1, <1>2, <1>3, <1>4

\* The pieces of a container of several blocks.
Pieces(size, blockSize) ==
    {Blocked(size, blockSize)[p] : p \in 1 .. 1 + BlockCountFor(size, blockSize)}

\* A blocked container is its header and then one frame for each block.
LEMMA BlockedPieces ==
    ASSUME NEW size \in Nat, NEW blockSize \in Nat \ {0}
    PROVE  /\ Blocked(size, blockSize) \in Seq(Pieces(size, blockSize))
           /\ Len(Blocked(size, blockSize)) = 1 + BlockCountFor(size, blockSize)
           /\ Blocked(size, blockSize)[1] = Header("blocked", size)
           /\ \A k \in Nat : k < BlockCountFor(size, blockSize) =>
                 Blocked(size, blockSize)[k + 2] =
                    Frame(BlockOf(k, size, blockSize).len, EncodeBlock(BlockOf(k, size, blockSize)))
<1> DEFINE n == 1 + BlockCountFor(size, blockSize)
           piece(p) == IF p = 1
                       THEN Header("blocked", size)
                       ELSE LET stretch == BlockOf(p - 2, size, blockSize)
                            IN  Frame(stretch.len, EncodeBlock(stretch))
<1>1. n \in Nat /\ n >= 1
  BY BlockCount
<1>2. Blocked(size, blockSize) = [p \in 1 .. n |-> piece(p)]
  BY DEF Blocked
<1>3. \A k \in Nat : piece(k + 2) = Frame(BlockOf(k, size, blockSize).len, EncodeBlock(BlockOf(k, size, blockSize)))
  OBVIOUS
<1>4. piece(1) = Header("blocked", size)
  OBVIOUS
<1>5. \A k \in Nat : k < BlockCountFor(size, blockSize) => k + 2 \in 1 .. n
  BY BlockCount
<1>6. Pieces(size, blockSize) = {Blocked(size, blockSize)[p] : p \in 1 .. n}
  BY DEF Pieces
<1> HIDE DEF n, piece
<1>7. Blocked(size, blockSize) \in Seq(Pieces(size, blockSize)) /\ Len(Blocked(size, blockSize)) = n
  BY <1>1, <1>2, <1>6
<1>8. Blocked(size, blockSize)[1] = Header("blocked", size)
  BY <1>1, <1>2, <1>4
<1>9. \A k \in Nat : k < BlockCountFor(size, blockSize) =>
          Blocked(size, blockSize)[k + 2] =
             Frame(BlockOf(k, size, blockSize).len, EncodeBlock(BlockOf(k, size, blockSize)))
  BY <1>2, <1>3, <1>5
<1> QED
  BY <1>7, <1>8, <1>9 DEF n

\* The header comes first, then frame after frame, until all of it is there.
Beginning(size, blockSize, n) == SubSeq(Blocked(size, blockSize), 1, n)

\* What has only the header written is the beginning of one piece.
LEMMA HeaderFirst ==
    ASSUME NEW size \in Nat, NEW blockSize \in Nat \ {0}
    PROVE  <<Header("blocked", size)>> = Beginning(size, blockSize, 1)
<1> DEFINE seq == Blocked(size, blockSize)
<1>1. /\ seq \in Seq(Pieces(size, blockSize)) /\ seq[1] = Header("blocked", size)
      /\ 0 \in 0 .. Len(seq) /\ 0 < Len(seq)
  BY BlockedPieces, BlockCount
<1> HIDE DEF seq
<1>2. SubSeq(seq, 1, 0) = << >> /\ Append(SubSeq(seq, 1, 0), seq[0 + 1]) = SubSeq(seq, 1, 0 + 1)
  BY <1>1, Beginnings
<1> QED
  BY <1>1, <1>2 DEF Beginning, seq

\* The frame of block k makes the beginning one piece longer.
LEMMA FrameNext ==
    ASSUME NEW size \in Nat, NEW blockSize \in Nat \ {0},
           NEW k \in Nat, k < BlockCountFor(size, blockSize)
    PROVE  Append(Beginning(size, blockSize, 1 + k),
                  Frame(BlockOf(k, size, blockSize).len, EncodeBlock(BlockOf(k, size, blockSize))))
              = Beginning(size, blockSize, 2 + k)
<1> DEFINE seq == Blocked(size, blockSize)
<1>0. BlockCountFor(size, blockSize) \in Nat /\ Len(seq) = 1 + BlockCountFor(size, blockSize)
  BY BlockCount, BlockedPieces
<1>1. /\ seq \in Seq(Pieces(size, blockSize))
      /\ seq[k + 2] = Frame(BlockOf(k, size, blockSize).len, EncodeBlock(BlockOf(k, size, blockSize)))
      /\ 1 + k \in 0 .. Len(seq) /\ 1 + k < Len(seq)
  <2>1. /\ seq \in Seq(Pieces(size, blockSize))
        /\ seq[k + 2] = Frame(BlockOf(k, size, blockSize).len, EncodeBlock(BlockOf(k, size, blockSize)))
    BY BlockedPieces
  <2> QED
    BY <1>0, <2>1
<1> HIDE DEF seq
<1>2. Append(SubSeq(seq, 1, 1 + k), seq[(1 + k) + 1]) = SubSeq(seq, 1, (1 + k) + 1)
  BY <1>1, Beginnings
<1>3. (1 + k) + 1 = k + 2 /\ (1 + k) + 1 = 2 + k
  OBVIOUS
<1> QED
  BY <1>1, <1>2, <1>3 DEF Beginning, seq

\* After the last block the beginning is the container.
LEMMA Whole ==
    ASSUME NEW size \in Nat, NEW blockSize \in Nat \ {0}
    PROVE  Beginning(size, blockSize, 1 + BlockCountFor(size, blockSize)) = Blocked(size, blockSize)
<1> DEFINE seq == Blocked(size, blockSize)
<1>1. seq \in Seq(Pieces(size, blockSize)) /\ Len(seq) = 1 + BlockCountFor(size, blockSize) /\ Len(seq) \in 0 .. Len(seq)
  BY BlockedPieces, BlockCount
<1> HIDE DEF seq
<1>2. SubSeq(seq, 1, Len(seq)) = seq
  BY <1>1, Beginnings
<1> QED
  BY <1>1, <1>2 DEF Beginning, seq

\* A beginning of n pieces has n pieces.
LEMMA BeginningLength ==
    ASSUME NEW size \in Nat, NEW blockSize \in Nat \ {0},
           NEW n \in 0 .. 1 + BlockCountFor(size, blockSize)
    PROVE  Len(Beginning(size, blockSize, n)) = n
<1> DEFINE seq == Blocked(size, blockSize)
<1>1. seq \in Seq(Pieces(size, blockSize)) /\ n \in 0 .. Len(seq)
  BY BlockedPieces
<1> HIDE DEF seq
<1> QED
  BY <1>1, Beginnings DEF Beginning, seq

------------------------------------------------------------------------------

Stretches == [from : 0 .. MaxTotal, len : 0 .. MaxTotal]
Encodings == [encodes : Stretches]

\* The inductive invariant.

Typed ==
    /\ total \in 0 .. MaxTotal
    /\ have \in 0 .. MaxTotal
    /\ optBlockSize \in 0 .. MaxBlockSize
    /\ threads \in 0 .. MaxThreads
    /\ pc \in {"begin", "pool", "fill", "encode", "serial", "write", "ended"}
    /\ at \in 0 .. have
    /\ inputs \in [Slots -> Stretches]
    /\ encoded \in [Slots -> Encodings]
    /\ outcome \in {"running", "ok"} \cup Failures
    /\ Pool!TypeOK

InBatch == pc \in {"fill", "encode", "serial", "write"}

\* The call runs until it ends, and more than one block goes to the slots.
Running ==
    /\ pc # "ended" => outcome = "running"
    /\ pc = "begin" => out = << >>
    /\ pc = "pool" \/ InBatch => total > BlockSize

\* The blocks of earlier batches, and the loop within this one.
Place ==
    /\ done \in 0 .. Blocks
    /\ i \in 0 .. MaxBatch
    /\ pc \in {"begin", "pool"} => done = 0 /\ i = 0 /\ at = 0
    /\ pc = "encode" => i = 0
    /\ InBatch => done < Blocks /\ i <= Here

\* How far the input has been read.
ReadTo ==
    /\ pc = "fill" => at = Least(total, (done + i) * BlockSize)
    /\ pc \in {"encode", "serial", "write"} => at = Least(total, (done + Here) * BlockSize)

\* How much of the container has been written.
Written ==
    /\ pc \in {"pool", "fill", "encode", "serial"} => out = Beginning(total, BlockSize, 1 + done)
    /\ pc = "write" => out = Beginning(total, BlockSize, 1 + (done + i))

Read(s)  == inputs[s] = BlockOf(done + s, total, BlockSize)
Coded(s) == encoded[s] = EncodeBlock(inputs[s])

\* What is in the slots of this batch.
Filled ==
    /\ pc = "fill" => \A s \in Slots : s < i => Read(s)
    /\ pc \in {"encode", "serial", "write"} => \A s \in Slots : s < Here => Read(s)
    /\ pc = "serial" => \A s \in Slots : s < i => Coded(s)
    /\ pc = "write" => \A s \in Slots : s < Here => Coded(s)

\* The pool is used in one place, and a task that has ended well has filled its slot.
Tasks ==
    /\ pc # "encode" => phase = "idle"
    /\ pc = "encode" =>
          /\ phase = "busy" /\ count = Here
          /\ \A s \in Slots : task[s] # "todo" => s < Here
          /\ \A s \in Slots : task[s] = "ok" => Coded(s)

\* At the end too, what was read is at most a batch ahead of what was written.
Ahead ==
    pc = "ended" /\ total > BlockSize /\ out # << >> =>
        /\ Len(out) \in Nat \ {0}
        /\ at <= Least(total, (Len(out) - 1 + Batch) * BlockSize)

IInv ==
    /\ Typed /\ Running /\ Place /\ ReadTo /\ Written /\ Filled /\ Tasks
    /\ Ahead /\ ShortInputReported /\ FailedBatchUnwritten

------------------------------------------------------------------------------
\* Lemmas about the state.

\* The quantities that a call does not change.
LEMMA Constants ==
    ASSUME Typed
    PROVE  /\ MaxTotal \in Nat /\ total \in Nat /\ total <= MaxTotal /\ have \in Nat
           /\ BlockSize \in Nat \ {0}
           /\ Blocks \in Nat
           /\ MaxBatch \in Nat \ {0}
           /\ Batch \in 1 .. MaxBatch /\ Batch = Greatest(1, Workers)
<1>1. MaxTotal \in Nat /\ total \in Nat /\ total <= MaxTotal /\ have \in Nat /\ BlockSize \in Nat \ {0}
  BY EncoderAssumption DEF Typed, BlockSize
<1>2. Blocks \in Nat
  BY <1>1, BlockCount DEF Blocks
<1>3. Workers \in Nat /\ Workers <= MaxBatch /\ MaxBatch \in Nat \ {0}
  BY EncoderAssumption DEF Typed, Workers, ResolveThreadCount, MaxBatch, Greatest
<1> QED
  BY <1>1, <1>2, <1>3 DEF Batch, Greatest

\* The batch there is room for.
LEMMA BatchSize ==
    ASSUME Typed, Place
    PROVE  /\ done \in Nat /\ i \in Nat
           /\ Here \in 0 .. MaxBatch /\ Here <= Batch /\ Here <= Blocks - done
           /\ done < Blocks => Here >= 1
           /\ done + Here < Blocks \/ done + Here = Blocks \/ Here = Batch
BY Constants DEF Place, Here, Least

\* Where block k of this input is.
LEMMA Block ==
    ASSUME Typed, NEW k \in Nat, k < Blocks
    PROVE  /\ BlockOf(k, total, BlockSize) = Stretch(k * BlockSize, BlockOf(k, total, BlockSize).len)
           /\ BlockOf(k, total, BlockSize) \in Stretches
           /\ BlockOf(k, total, BlockSize).len \in Nat
           /\ k * BlockSize \in Nat
           /\ Least(total, k * BlockSize) = k * BlockSize
           /\ k * BlockSize + BlockOf(k, total, BlockSize).len = Least(total, (k + 1) * BlockSize)
<1>1. k * BlockSize \in Nat /\ k * BlockSize < total
  <2>1. k * BlockSize \in Nat
    BY Constants, TimesMonotonic
  <2>2. k < BlockCountFor(total, BlockSize) <=> k * BlockSize < total
    BY Constants, BlockCount
  <2> QED
    BY <2>1, <2>2 DEF Blocks
<1>2. /\ BlockOf(k, total, BlockSize).from = k * BlockSize
      /\ BlockOf(k, total, BlockSize).len \in 1 .. BlockSize
      /\ BlockOf(k, total, BlockSize).len <= total
      /\ Least(total, k * BlockSize) = k * BlockSize
      /\ k * BlockSize + BlockOf(k, total, BlockSize).len = Least(total, (k + 1) * BlockSize)
  BY Constants, BlockEnds, SMTT(30) DEF Blocks
<1>3. BlockOf(k, total, BlockSize) = Stretch(k * BlockSize, BlockOf(k, total, BlockSize).len)
  BY DEF BlockOf, Stretch
<1>4. BlockOf(k, total, BlockSize) \in Stretches
  BY <1>1, <1>2, <1>3, Constants DEF Stretch, Stretches
<1> QED
  BY <1>1, <1>2, <1>3, <1>4, Constants

\* Within a batch, not more is read than a batch beyond what is written.
LEMMA AheadInBatch ==
    ASSUME Typed, Place, ReadTo, Written, InBatch
    PROVE  /\ Len(out) = 1 + (IF pc = "write" THEN done + i ELSE done)
           /\ at <= Least(total, (Len(out) - 1 + Batch) * BlockSize)
<1>1. /\ total \in Nat /\ BlockSize \in Nat \ {0} /\ Blocks \in Nat /\ Batch \in Nat
      /\ done \in Nat /\ i \in Nat /\ Here \in Nat /\ Here <= Batch /\ Here <= Blocks - done
      /\ done < Blocks /\ i <= Here
  BY Constants, BatchSize DEF Place
<1> DEFINE w == IF pc = "write" THEN done + i ELSE done
           r == IF pc = "fill" THEN done + i ELSE done + Here
<1>2. w \in Nat /\ r \in Nat /\ w <= Blocks /\ r <= w + Batch
  BY <1>1
<1>3. out = Beginning(total, BlockSize, 1 + w) /\ at = Least(total, r * BlockSize)
  BY DEF Written, ReadTo, InBatch
<1> HIDE DEF w, r
<1>4. Len(out) = 1 + w
  <2>1. 1 + w \in 0 .. 1 + BlockCountFor(total, BlockSize)
    BY <1>1, <1>2 DEF Blocks
  <2> QED
    BY <1>1, <1>3, <2>1, BeginningLength
<1>5. r * BlockSize <= (w + Batch) * BlockSize /\ r * BlockSize \in Nat /\ (w + Batch) * BlockSize \in Nat
  BY <1>1, <1>2, TimesMonotonic
<1>6. at <= Least(total, (w + Batch) * BlockSize)
  BY <1>1, <1>3, <1>5 DEF Least
<1>7. Len(out) - 1 + Batch = w + Batch
  BY <1>1, <1>2, <1>4
<1> QED
  BY <1>4, <1>6, <1>7 DEF w

\* Nothing is read or written yet.
LEMMA InitIInv == Init => IInv
<1> SUFFICES ASSUME Init PROVE IInv
  OBVIOUS
<1>1. Stretch(0, 0) \in Stretches /\ NoBlock \in Encodings
  BY EncoderAssumption DEF NoBlock, EncodeBlock, Stretch, Stretches, Encodings
<1>2. MaxBatch \in Nat
  BY EncoderAssumption DEF MaxBatch, Greatest
<1>3. Pool!TypeOK
  BY <1>2 DEF Init, Pool!Init, Pool!TypeOK, Pool!Indices, Pool!NoError
<1>4. Typed
  BY <1>1, <1>3 DEF Init, Typed
<1>5. Place
  BY <1>2, <1>4, Constants DEF Init, Place, InBatch
<1> QED
  BY <1>4, <1>5 DEF Init, Pool!Init, IInv, Running, ReadTo, Written, Filled, Tasks, Ahead,
                    InBatch, ShortInputReported, FailedBatchUnwritten, Failures

\* The call ends by an exception.
LEMMA LeavingKeeps ==
    ASSUME IInv, NEW why \in Failures, Leave(why), pc # "ended",
           at' \in 0 .. have, Pool!TypeOK', phase' = "idle",
           why = "read" => have < total,
           why = "encode" => out = << >> \/ pc \in {"serial", "encode"},
           total > BlockSize /\ out # << >> =>
              /\ Len(out) \in Nat \ {0}
              /\ at' <= Least(total, (Len(out) - 1 + Batch) * BlockSize)
    PROVE  IInv'
<1> USE DEF IInv
<1>1. /\ UNCHANGED <<total, have, optBlockSize, threads, done, i, inputs, encoded, out>>
      /\ pc' = "ended" /\ outcome' = why
      /\ BlockSize' = BlockSize /\ Blocks' = Blocks /\ Batch' = Batch
  BY DEF Leave, args, slots, BlockSize, Blocks, Batch, Workers
<1>2. Typed'
  BY <1>1 DEF Typed
<1>3. Place'
  BY <1>1 DEF Place, InBatch
<1>4. Running' /\ ReadTo' /\ Written' /\ Filled' /\ Tasks' /\ Ahead'
  BY <1>1 DEF Running, ReadTo, Written, Filled, Tasks, Ahead, InBatch
<1>5. ShortInputReported'
  BY <1>1 DEF ShortInputReported, Failures
<1>6. FailedBatchUnwritten'
  <2>1. CASE pc \in {"serial", "encode"}
    <3>1. Len(out) = 1 + done
      BY <2>1, AheadInBatch DEF InBatch
    <3> QED
      BY <1>1, <3>1 DEF FailedBatchUnwritten
  <2>2. CASE pc \notin {"serial", "encode"}
    BY <1>1, <2>2 DEF FailedBatchUnwritten
  <2> QED
    BY <2>1, <2>2
<1> QED
  BY <1>2, <1>3, <1>4, <1>5, <1>6

\* In every state, no more is read than a batch beyond what is written.
LEMMA NotFarAhead ==
    ASSUME IInv, total > BlockSize, out # << >>
    PROVE  /\ Len(out) \in Nat \ {0}
           /\ at <= Least(total, (Len(out) - 1 + Batch) * BlockSize)
<1> USE DEF IInv
<1>1. CASE InBatch
  <2>1. done \in Nat /\ i \in Nat
    BY BatchSize
  <2> QED
    BY <1>1, <2>1, AheadInBatch
<1>2. CASE pc = "pool"
  <2>1. at = 0 /\ out = Beginning(total, BlockSize, 1 + 0) /\ done = 0
    BY <1>2 DEF Place, Written
  <2>2. Len(out) = 1
    <3>1. 1 + 0 \in 0 .. 1 + BlockCountFor(total, BlockSize) /\ 1 + 0 = 1
      BY Constants DEF Blocks
    <3> QED
      BY <2>1, <3>1, Constants, BeginningLength
  <2>3. Batch * BlockSize \in Nat /\ Len(out) - 1 + Batch = Batch
    BY <2>2, Constants, TimesMonotonic
  <2> QED
    BY <2>1, <2>2, <2>3, Constants DEF Least
<1>3. CASE pc = "ended"
  BY <1>3 DEF Ahead
<1> QED
  BY <1>1, <1>2, <1>3 DEF Typed, Running, InBatch

\* It ends without having read any more, and the pool at rest.
LEMMA FailingKeeps ==
    ASSUME IInv, NEW why \in Failures \ {"read"}, Fail(why), pc # "ended",
           Pool!TypeOK', phase' = "idle",
           why = "encode" => out = << >> \/ pc \in {"serial", "encode"}
    PROVE  IInv'
<1>1. Leave(why) /\ at' = at
  BY DEF Fail
<1>2. total > BlockSize /\ out # << >> =>
         /\ Len(out) \in Nat \ {0}
         /\ at <= Least(total, (Len(out) - 1 + Batch) * BlockSize)
  BY NotFarAhead
<1>3. at \in 0 .. have
  BY DEF IInv, Typed
<1> QED
  BY <1>1, <1>2, <1>3, LeavingKeeps

------------------------------------------------------------------------------
\* The inductive invariant, one lemma for each part of the call.

\* Not more than one block.
LEMMA WholeKeeps == IInv /\ (CompressWhole \/ CompressWholeFails) => IInv'
<1> SUFFICES ASSUME IInv, CompressWhole \/ CompressWholeFails PROVE IInv'
  OBVIOUS
<1> USE DEF IInv
<1>1. /\ UNCHANGED <<phase, count, task, result>> /\ phase = "idle" /\ Pool!TypeOK'
      /\ pc = "begin" /\ total <= BlockSize /\ out = << >>
  BY DEF CompressWhole, CompressWholeFails, pool, Tasks, Typed, Pool!TypeOK, Running
<1>2. /\ total \in Nat /\ BlockSize \in Nat /\ have \in Nat
  BY Constants
<1>3. CASE CompressWhole
  <2>1. /\ UNCHANGED <<total, have, optBlockSize, threads, done, i, inputs, encoded>>
        /\ pc' = "ended" /\ outcome' = "ok" /\ have >= total /\ at' = total
        /\ BlockSize' = BlockSize /\ Blocks' = Blocks
    BY <1>3 DEF CompressWhole, args, slots, BlockSize, Blocks
  <2>2. Typed'
    BY <1>1, <1>2, <2>1 DEF Typed
  <2>3. Place' /\ Ahead'
    BY <1>1, <1>2, <2>1 DEF Place, InBatch, Ahead
  <2> QED
    BY <1>1, <2>1, <2>2, <2>3 DEF Running, ReadTo, Written, Filled, Tasks, InBatch,
                                  ShortInputReported, FailedBatchUnwritten
<1>4. CASE CompressWholeFails
  <2>1. \E why \in Failures : Leave(why) /\ at' \in 0 .. have /\ (why = "read" => have < total)
    BY <1>2, <1>4 DEF CompressWholeFails, RunOut, Failures
  <2> QED
    BY <1>1, <1>2, <2>1, LeavingKeeps
<1> QED
  BY <1>3, <1>4

\* The header is written and the pool is built.
LEMMA OpeningKeeps == IInv /\ (WriteHeader \/ StartPool) => IInv'
<1> SUFFICES ASSUME IInv, WriteHeader \/ StartPool PROVE IInv'
  OBVIOUS
<1> USE DEF IInv
<1>1. /\ UNCHANGED <<phase, count, task, result>> /\ phase = "idle" /\ Pool!TypeOK'
      /\ pc \in {"begin", "pool"} /\ total > BlockSize
      /\ done = 0 /\ i = 0 /\ at = 0 /\ outcome = "running"
  BY DEF WriteHeader, StartPool, pool, Tasks, Typed, Pool!TypeOK, Running, Place
<1>2. total \in Nat /\ BlockSize \in Nat \ {0} /\ have \in Nat /\ Blocks >= 2 /\ Blocks \in Nat
  BY <1>1, Constants, BlockCountBounds DEF Blocks
<1>3. Here >= 1 /\ Here \in Nat
  BY <1>1, <1>2, BatchSize
<1>4. CASE /\ WriteHeader /\ out' = <<Header("blocked", total)>> /\ pc' = "pool"
           /\ UNCHANGED <<args, at, done, i, slots, outcome>>
  <2>1. /\ UNCHANGED <<total, have, optBlockSize, threads, at, done, i, inputs, encoded, outcome>>
        /\ BlockSize' = BlockSize /\ Blocks' = Blocks
    BY <1>4 DEF args, slots, BlockSize, Blocks
  <2>2. Written'
    BY <1>1, <1>2, <1>4, <2>1, HeaderFirst DEF Written
  <2>3. Typed' /\ Running'
    BY <1>1, <1>2, <1>4, <2>1 DEF Typed, Running, InBatch
  <2>4. Place'
    BY <1>1, <1>2, <1>4, <2>1 DEF Place, InBatch
  <2> QED
    BY <1>1, <1>4, <2>1, <2>2, <2>3, <2>4
       DEF ReadTo, Filled, Tasks, Ahead, InBatch, ShortInputReported, FailedBatchUnwritten
<1>5. CASE /\ StartPool /\ pc' = "fill" /\ UNCHANGED <<args, at, done, i, slots, out, outcome>>
  <2>1. /\ UNCHANGED <<total, have, optBlockSize, threads, at, done, i, inputs, encoded, out, outcome>>
        /\ pc = "pool" /\ BlockSize' = BlockSize /\ Blocks' = Blocks /\ Here' = Here
    BY <1>5 DEF StartPool, args, slots, BlockSize, Blocks, Here, Batch, Workers
  <2>2. Place' /\ Typed' /\ Running'
    BY <1>1, <1>2, <1>3, <1>5, <2>1 DEF Place, Typed, Running, InBatch
  <2>3. ReadTo'
    <3>1. (0 + 0) * BlockSize = 0
      BY <1>2
    <3> QED
      BY <1>1, <1>2, <1>5, <2>1, <3>1 DEF ReadTo, Least
  <2>4. Filled'
    BY <1>1, <1>5, <2>1 DEF Filled, Slots
  <2> QED
    BY <1>1, <1>5, <2>1, <2>2, <2>3, <2>4
       DEF Written, Tasks, Ahead, ShortInputReported, FailedBatchUnwritten
<1>6. CASE Fail("write") \/ Fail("pool")
  BY <1>1, <1>6, FailingKeeps DEF Failures
<1> QED
  BY <1>4, <1>5, <1>6 DEF WriteHeader, StartPool

\* A block is read into a slot, or the input has run out.
LEMMA ReadingKeeps == IInv /\ (ReadSlot \/ ReadSlotFails) => IInv'
<1> SUFFICES ASSUME IInv, ReadSlot \/ ReadSlotFails PROVE IInv'
  OBVIOUS
<1> USE DEF IInv
<1>1. /\ UNCHANGED <<phase, count, task, result>> /\ phase = "idle" /\ Pool!TypeOK'
      /\ pc = "fill" /\ i < Here /\ total > BlockSize /\ outcome = "running"
      /\ at = Least(total, (done + i) * BlockSize) /\ at \in 0 .. have
  BY DEF ReadSlot, ReadSlotFails, pool, Tasks, Typed, Pool!TypeOK, Running, InBatch, ReadTo
<1>2. /\ total \in Nat /\ BlockSize \in Nat \ {0} /\ have \in Nat /\ Blocks \in Nat
      /\ done \in Nat /\ i \in Nat /\ Here \in Nat /\ Here <= Blocks - done /\ Here <= MaxBatch
      /\ Batch \in Nat /\ Here <= Batch /\ MaxBatch \in Nat
  BY Constants, BatchSize
<1>3. done + i \in Nat /\ done + i < Blocks /\ (done + i) + 1 = done + (i + 1)
  BY <1>1, <1>2
<1>4. /\ at + SlotLength = Least(total, (done + (i + 1)) * BlockSize)
      /\ Stretch(at, SlotLength) = BlockOf(done + i, total, BlockSize)
      /\ Stretch(at, SlotLength) \in Stretches
      /\ SlotLength \in Nat
  <2>1. /\ at = (done + i) * BlockSize
        /\ (done + i) * BlockSize + SlotLength = Least(total, ((done + i) + 1) * BlockSize)
        /\ BlockOf(done + i, total, BlockSize) = Stretch((done + i) * BlockSize, SlotLength)
        /\ BlockOf(done + i, total, BlockSize) \in Stretches
        /\ SlotLength \in Nat
    BY <1>1, <1>3, Block DEF SlotLength
  <2> QED
    BY <1>3, <2>1
<1>5. CASE ReadSlot
  <2>1. /\ UNCHANGED <<total, have, optBlockSize, threads, pc, done, encoded, out, outcome>>
        /\ i' = i + 1 /\ at' = at + SlotLength /\ at + SlotLength <= have
        /\ inputs' = [inputs EXCEPT ![i] = Stretch(at, SlotLength)]
        /\ BlockSize' = BlockSize /\ Blocks' = Blocks /\ Here' = Here
    BY <1>5 DEF ReadSlot, args, BlockSize, Blocks, Here, Batch, Workers
  <2>2. Typed' /\ Running'
    <3>1. inputs' \in [Slots -> Stretches]
      BY <1>4, <2>1 DEF Typed
    <3>2. at' \in 0 .. have
      BY <1>1, <1>2, <1>4, <2>1
    <3> QED
      BY <1>1, <2>1, <3>1, <3>2 DEF Typed, Running, InBatch
  <2>3. Place'
    BY <1>1, <1>2, <2>1 DEF Place, InBatch
  <2>4. ReadTo' /\ Written'
    BY <1>1, <1>4, <2>1 DEF ReadTo, Written
  <2>5. PICK t \in Slots : t = i
    BY <1>1, <1>2 DEF Slots
  <2>6. \A s \in Slots : s < i' => Read(s)'
    <3>1. inputs'[t] = BlockOf(done + t, total, BlockSize)
      BY <1>4, <2>1, <2>5 DEF Typed
    <3>2. \A s \in Slots : s < i => inputs'[s] = inputs[s] /\ Read(s)
      BY <1>1, <1>2, <2>1, <2>5 DEF Typed, Filled, Slots
    <3>3. \A s \in Slots : s < i' => s < i \/ s = t
      BY <1>2, <2>1, <2>5 DEF Slots
    <3> QED
      BY <2>1, <3>1, <3>2, <3>3 DEF Read
  <2>7. Filled'
    BY <1>1, <2>1, <2>6 DEF Filled
  <2> QED
    BY <1>1, <2>1, <2>2, <2>3, <2>4, <2>7 DEF Tasks, Ahead, ShortInputReported, FailedBatchUnwritten
<1>6. CASE ReadSlotFails
  <2>1. Leave("read") /\ at' = have /\ at + SlotLength > have
    BY <1>6 DEF ReadSlotFails, RunOut
  <2>2. at + SlotLength <= total
    BY <1>2, <1>3, <1>4, TimesMonotonic DEF Least
  <2>3. /\ Len(out) \in Nat \ {0}
        /\ have <= Least(total, (Len(out) - 1 + Batch) * BlockSize)
    <3>1. Len(out) = 1 + done /\ Len(out) \in Nat \ {0}
      BY <1>1, <1>2, AheadInBatch DEF InBatch
    <3>2. /\ (done + (i + 1)) * BlockSize <= (done + Batch) * BlockSize
          /\ (done + (i + 1)) * BlockSize \in Nat /\ (done + Batch) * BlockSize \in Nat
      BY <1>1, <1>2, TimesMonotonic
    <3>3. Len(out) - 1 + Batch = done + Batch
      BY <1>2, <3>1
    <3> QED
      BY <1>2, <1>4, <2>1, <3>1, <3>2, <3>3 DEF Least
  <2> QED
    BY <1>1, <1>2, <1>4, <2>1, <2>2, <2>3, LeavingKeeps DEF Failures
<1> QED
  BY <1>5, <1>6

\* A slot is encoded from what was read into it.
LEMMA EncodeSlot ==
    ASSUME IInv, NEW s \in Slots, encoded' = [encoded EXCEPT ![s] = EncodeBlock(inputs[s])],
           inputs' = inputs
    PROVE  /\ encoded' \in [Slots -> Encodings]
           /\ Coded(s)'
           /\ \A t \in Slots : Coded(t) => Coded(t)'
<1>1. EncodeBlock(inputs[s]) \in Encodings
  BY DEF IInv, Typed, EncodeBlock, Encodings
<1> QED
  BY <1>1 DEF IInv, Typed, Coded

\* The batch is complete, and is given to the pool or to this thread.
LEMMA StartBatchKeeps == IInv /\ StartBatch => IInv'
<1> SUFFICES ASSUME IInv, StartBatch PROVE IInv'
  OBVIOUS
<1> USE DEF IInv
<1>1. /\ pc = "fill" /\ i = Here /\ i' = 0 /\ total > BlockSize /\ outcome = "running"
      /\ pc' \in {"serial", "encode"} /\ phase = "idle"
      /\ UNCHANGED <<total, have, optBlockSize, threads, at, done, inputs, encoded, out, outcome>>
      /\ BlockSize' = BlockSize /\ Blocks' = Blocks /\ Here' = Here /\ done < Blocks
  BY
    DEF StartBatch, args, slots, BlockSize, Blocks, Here, Batch, Workers, Tasks, Running, InBatch,
        Place
<1>2. Here \in 1 .. MaxBatch /\ done \in Nat /\ MaxBatch \in Nat
  BY <1>1, Constants, BatchSize
<1>3. Pool!TypeOK' /\ Tasks'
  <2>1. CASE pc' = "serial" /\ UNCHANGED pool
    BY <1>1, <2>1 DEF Typed, Pool!TypeOK, pool, Tasks
  <2>2. CASE pc' = "encode" /\ Pool!Begin(Here)
    <3>1. Pool!TypeOK'
      BY <1>2, <2>2 DEF Pool!Begin, Pool!TypeOK, Pool!Indices, Pool!NoError
    <3>2. Tasks'
      BY <1>1, <2>2 DEF Pool!Begin, Pool!Indices, Tasks, Slots
    <3> QED
      BY <3>1, <3>2
  <2> QED
    BY <2>1, <2>2 DEF StartBatch
<1>4. Typed' /\ Running'
  BY <1>1, <1>3 DEF Typed, Running, InBatch
<1>5. Place'
  BY <1>1, <1>2 DEF Place, InBatch
<1>6. ReadTo' /\ Written'
  BY <1>1 DEF ReadTo, Written
<1>7. Filled'
  BY <1>1 DEF Filled, Read, Slots
<1> QED
  BY <1>1, <1>3, <1>4, <1>5, <1>6, <1>7 DEF Ahead, ShortInputReported, FailedBatchUnwritten

\* The loop of a single worker.
LEMMA SerialKeeps == IInv /\ (EncodeHere \/ EndSerial) => IInv'
<1> SUFFICES ASSUME IInv, EncodeHere \/ EndSerial PROVE IInv'
  OBVIOUS
<1> USE DEF IInv
<1>1. /\ UNCHANGED <<phase, count, task, result>> /\ phase = "idle" /\ Pool!TypeOK'
      /\ pc = "serial" /\ total > BlockSize /\ outcome = "running" /\ done < Blocks
  BY DEF EncodeHere, EndSerial, pool, Tasks, Typed, Pool!TypeOK, Running, InBatch, Place
<1>2. Here \in 1 .. MaxBatch /\ done \in Nat /\ MaxBatch \in Nat /\ i \in Nat
  BY <1>1, Constants, BatchSize
<1>3. CASE /\ i < Here /\ encoded' = [encoded EXCEPT ![i] = EncodeBlock(inputs[i])]
           /\ i' = i + 1 /\ UNCHANGED <<args, pc, at, done, inputs, out, outcome>>
  <2>1. /\ UNCHANGED <<total, have, optBlockSize, threads, pc, at, done, inputs, out, outcome>>
        /\ BlockSize' = BlockSize /\ Blocks' = Blocks /\ Here' = Here
    BY <1>3 DEF args, BlockSize, Blocks, Here, Batch, Workers
  <2>2. PICK t \in Slots : t = i
    BY <1>2, <1>3 DEF Slots
  <2>3. /\ encoded' \in [Slots -> Encodings]
        /\ Coded(t)'
        /\ \A s \in Slots : Coded(s) => Coded(s)'
    BY <1>3, <2>1, <2>2, EncodeSlot
  <2>4. Typed' /\ Running'
    BY <1>1, <2>1, <2>3 DEF Typed, Running, InBatch
  <2>5. Place'
    BY <1>1, <1>2, <1>3, <2>1 DEF Place, InBatch
  <2>6. ReadTo' /\ Written'
    BY <1>1, <2>1 DEF ReadTo, Written
  <2>7. \A s \in Slots : s < i' => s < i \/ s = t
    BY <1>2, <1>3, <2>2 DEF Slots
  <2>8. Filled'
    BY <1>1, <2>1, <2>3, <2>7 DEF Filled, Read
  <2> QED
    BY <1>1, <2>1, <2>4, <2>5, <2>6, <2>8 DEF Tasks, Ahead, ShortInputReported, FailedBatchUnwritten
<1>4. CASE Fail("encode")
  BY <1>1, <1>4, FailingKeeps DEF Failures
<1>5. CASE EndSerial
  <2>1. /\ UNCHANGED <<total, have, optBlockSize, threads, at, done, inputs, encoded, out, outcome>>
        /\ i = Here /\ i' = 0 /\ pc' = "write"
        /\ BlockSize' = BlockSize /\ Blocks' = Blocks /\ Here' = Here
    BY <1>5 DEF EndSerial, args, slots, BlockSize, Blocks, Here, Batch, Workers
  <2>2. Typed' /\ Running'
    BY <1>1, <2>1 DEF Typed, Running, InBatch
  <2>3. Place'
    BY <1>1, <1>2, <2>1 DEF Place, InBatch
  <2>4. ReadTo' /\ Written'
    BY <1>1, <1>2, <2>1 DEF ReadTo, Written
  <2>5. Filled'
    BY <1>1, <2>1 DEF Filled, Read, Coded
  <2> QED
    BY <1>1, <2>1, <2>2, <2>3, <2>4, <2>5 DEF Tasks, Ahead, ShortInputReported, FailedBatchUnwritten
<1> QED
  BY <1>3, <1>4, <1>5 DEF EncodeHere

\* The tasks of the pool.
LEMMA TaskKeeps ==
    ASSUME IInv, NEW s \in Slots, TaskStarts(s) \/ TaskReturns(s) \/ TaskThrows(s)
    PROVE  IInv'
<1> USE DEF IInv
<1>1. /\ UNCHANGED <<total, have, optBlockSize, threads, pc, at, done, i, inputs, out, outcome,
                     phase, count, result>>
      /\ pc = "encode" /\ i = 0 /\ phase = "busy" /\ count = Here /\ outcome = "running"
      /\ BlockSize' = BlockSize /\ Blocks' = Blocks /\ Here' = Here
  BY DEF TaskStarts, TaskReturns, TaskThrows, args, slots, Pool!Start, Pool!End, Tasks, Place, Running,
         BlockSize, Blocks, Here, Batch, Workers
<1>2. Slots = Pool!Indices
  BY DEF Slots, Pool!Indices
<1>3. /\ encoded' \in [Slots -> Encodings]
      /\ Pool!TypeOK' /\ Tasks'
  <2>1. CASE TaskStarts(s) \/ TaskThrows(s)
    <3>1. encoded' = encoded /\ s < Here
      BY <1>1, <2>1 DEF TaskStarts, TaskThrows, slots, Pool!Start, Pool!End, Tasks
    <3>2. \E how \in {"running", "threw"} : task' = [task EXCEPT ![s] = how]
      BY <2>1 DEF TaskStarts, TaskThrows, Pool!Start, Pool!End
    <3>3. Pool!TypeOK'
      BY <1>1, <3>2 DEF Typed, Pool!TypeOK, Pool!Ended
    <3>4. Tasks'
      BY <1>1, <1>2, <3>1, <3>2 DEF Tasks, Typed, Pool!TypeOK, Coded
    <3> QED
      BY <3>1, <3>3, <3>4 DEF Typed
  <2>2. CASE TaskReturns(s)
    <3>1. /\ s < Here /\ task' = [task EXCEPT ![s] = "ok"]
          /\ encoded' = [encoded EXCEPT ![s] = EncodeBlock(inputs[s])]
      BY <1>1, <2>2 DEF TaskReturns, Pool!End, Tasks
    <3>2. /\ encoded' \in [Slots -> Encodings]
          /\ Coded(s)'
          /\ \A t \in Slots : Coded(t) => Coded(t)'
      BY <1>1, <3>1, EncodeSlot
    <3>3. Pool!TypeOK'
      BY <1>1, <3>1 DEF Typed, Pool!TypeOK, Pool!Ended
    <3>4. Tasks'
      BY <1>1, <1>2, <3>1, <3>2 DEF Tasks, Typed, Pool!TypeOK
    <3> QED
      BY <3>2, <3>3, <3>4
  <2> QED
    BY <2>1, <2>2
<1>4. Typed' /\ Running'
  BY <1>1, <1>3 DEF Typed, Running, InBatch
<1>5. Place' /\ ReadTo' /\ Written'
  BY <1>1 DEF Place, ReadTo, Written, InBatch
<1>6. Filled'
  BY <1>1 DEF Filled, Read
<1> QED
  BY <1>1, <1>3, <1>4, <1>5, <1>6 DEF Ahead, ShortInputReported, FailedBatchUnwritten

\* forEach returns with every slot of the batch encoded, or rethrows.
LEMMA EndBatchKeeps == IInv /\ EndBatch => IInv'
<1> SUFFICES ASSUME IInv, EndBatch PROVE IInv'
  OBVIOUS
<1> USE DEF IInv
<1>1. /\ pc = "encode" /\ i = 0 /\ phase = "busy" /\ count = Here /\ outcome = "running"
      /\ task' = task /\ phase' = "idle" /\ count' = 0
  BY DEF EndBatch, Pool!Return, Tasks, Place, Running
<1>2. MaxBatch \in Nat
  BY Constants
<1>3. Pool!TypeOK'
  BY <1>1, <1>2 DEF EndBatch, Typed, Pool!Return, Pool!TypeOK, Pool!Threw
<1>4. CASE result' = Pool!NoError
  <2>1. /\ UNCHANGED <<total, have, optBlockSize, threads, at, done, i, inputs, encoded, out, outcome>>
        /\ pc' = "write" /\ BlockSize' = BlockSize /\ Blocks' = Blocks /\ Here' = Here
    BY <1>4 DEF EndBatch, args, slots, BlockSize, Blocks, Here, Batch, Workers
  <2>2. Pool!Threw = {}
    BY <1>4 DEF EndBatch, Pool!Return, Pool!Threw, Pool!Indices, Pool!NoError
  <2>3. \A s \in Slots : s < Here => task[s] = "ok"
    BY <1>1, <2>2 DEF EndBatch, Pool!Return, Pool!Threw, Pool!Indices, Pool!Ended, Slots
  <2>4. Filled'
    BY <1>1, <2>1, <2>3 DEF Filled, Read, Coded, Tasks
  <2>5. Typed' /\ Running'
    BY <1>1, <1>3, <2>1 DEF Typed, Running, InBatch
  <2>6. Place'
    BY <1>1, <2>1 DEF Place, InBatch
  <2>7. ReadTo' /\ Written'
    <3>1. done + 0 = done
      BY Constants, BatchSize
    <3> QED
      BY <1>1, <2>1, <3>1 DEF ReadTo, Written
  <2> QED
    BY <1>1, <2>1, <2>4, <2>5, <2>6, <2>7 DEF Tasks, Ahead, ShortInputReported, FailedBatchUnwritten
<1>5. CASE Fail("encode")
  BY <1>1, <1>3, <1>5, FailingKeeps DEF Failures
<1> QED
  BY <1>4, <1>5 DEF EndBatch

\* The slots of the batch are written in order.
LEMMA WriteSlotKeeps == IInv /\ WriteSlot => IInv'
<1> SUFFICES ASSUME IInv, WriteSlot PROVE IInv'
  OBVIOUS
<1> USE DEF IInv
<1>1. /\ UNCHANGED <<phase, count, task, result>> /\ phase = "idle" /\ Pool!TypeOK'
      /\ pc = "write" /\ i < Here /\ total > BlockSize /\ outcome = "running" /\ done < Blocks
  BY DEF WriteSlot, pool, Tasks, Typed, Pool!TypeOK, Running, InBatch, Place
<1>2. /\ Here \in 1 .. MaxBatch /\ done \in Nat /\ MaxBatch \in Nat /\ i \in Nat
      /\ Here <= Blocks - done /\ Blocks \in Nat
      /\ total \in Nat /\ BlockSize \in Nat \ {0}
  BY <1>1, Constants, BatchSize
<1>3. CASE /\ out' = Append(out, Frame(inputs[i].len, encoded[i]))
           /\ i' = i + 1 /\ UNCHANGED <<args, pc, at, done, slots, outcome>>
  <2>1. /\ UNCHANGED <<total, have, optBlockSize, threads, pc, at, done, inputs, encoded, outcome>>
        /\ BlockSize' = BlockSize /\ Blocks' = Blocks /\ Here' = Here
    BY <1>3 DEF args, slots, BlockSize, Blocks, Here, Batch, Workers
  <2>2. i \in Slots /\ Read(i) /\ Coded(i)
    BY <1>1, <1>2 DEF Filled, Slots
  <2>3. out' = Append(Beginning(total, BlockSize, 1 + (done + i)),
                      Frame(BlockOf(done + i, total, BlockSize).len,
                            EncodeBlock(BlockOf(done + i, total, BlockSize))))
    BY <1>1, <1>3, <2>2 DEF Written, Read, Coded
  <2>4. done + i \in Nat /\ done + i < BlockCountFor(total, BlockSize)
        /\ 2 + (done + i) = 1 + (done + (i + 1))
    BY <1>1, <1>2 DEF Blocks
  <2>5. out' = Beginning(total, BlockSize, 1 + (done + (i + 1)))
    BY <1>2, <2>3, <2>4, FrameNext
  <2>6. Written'
    BY <1>1, <1>3, <2>1, <2>5 DEF Written
  <2>7. Typed' /\ Running'
    BY <1>1, <2>1 DEF Typed, Running, InBatch
  <2>8. Place'
    BY <1>1, <1>2, <1>3, <2>1 DEF Place, InBatch
  <2>9. ReadTo' /\ Filled'
    BY <1>1, <2>1 DEF ReadTo, Filled, Read, Coded
  <2> QED
    BY <1>1, <2>1, <2>6, <2>7, <2>8, <2>9 DEF Tasks, Ahead, ShortInputReported, FailedBatchUnwritten
<1>4. CASE Fail("write")
  BY <1>1, <1>4, FailingKeeps DEF Failures
<1> QED
  BY <1>3, <1>4 DEF WriteSlot

\* The next batch begins where this one ends; after the last, all is read and written.
LEMMA NextBatchKeeps == IInv /\ NextBatch => IInv'
<1> SUFFICES ASSUME IInv, NextBatch PROVE IInv'
  OBVIOUS
<1> USE DEF IInv
<1>1. /\ UNCHANGED <<total, have, optBlockSize, threads, at, inputs, encoded, out,
                     phase, count, task, result>>
      /\ phase = "idle" /\ Pool!TypeOK'
      /\ pc = "write" /\ i = Here /\ total > BlockSize /\ outcome = "running" /\ done < Blocks
      /\ done' = done + Here /\ i' = 0
      /\ BlockSize' = BlockSize /\ Blocks' = Blocks /\ Batch' = Batch
      /\ at \in 0 .. have /\ at = Least(total, (done + Here) * BlockSize)
      /\ out = Beginning(total, BlockSize, 1 + (done + Here))
  BY DEF NextBatch, args, slots, pool, BlockSize, Blocks, Batch, Workers, Tasks, Typed, Pool!TypeOK,
         Running, InBatch, Place, ReadTo, Written
<1>2. /\ Here \in 1 .. MaxBatch /\ done \in Nat /\ MaxBatch \in Nat
      /\ Here <= Blocks - done /\ Blocks \in Nat /\ have \in Nat
      /\ total \in Nat /\ BlockSize \in Nat \ {0} /\ Batch \in Nat
  BY <1>1, Constants, BatchSize
<1>3. CASE done' < Blocks /\ pc' = "fill" /\ UNCHANGED outcome
  <2>1. Here' \in 1 .. MaxBatch
    BY <1>1, <1>2, <1>3, Constants DEF Here, Least
  <2>2. Typed' /\ Running'
    BY <1>1, <1>3 DEF Typed, Running, InBatch
  <2>3. Place'
    BY <1>1, <1>2, <1>3, <2>1 DEF Place, InBatch
  <2>4. ReadTo' /\ Written'
    <3>1. done' + 0 = done + Here
      BY <1>1, <1>2
    <3> QED
      BY <1>1, <1>3, <3>1 DEF ReadTo, Written
  <2>5. Filled'
    BY <1>1, <1>3 DEF Filled, Slots
  <2> QED
    BY <1>1, <1>3, <2>2, <2>3, <2>4, <2>5 DEF Tasks, Ahead, ShortInputReported, FailedBatchUnwritten
<1>4. CASE ~(done' < Blocks) /\ pc' = "ended" /\ outcome' = "ok"
  <2>1. done' = Blocks /\ done + Here = Blocks
    BY <1>1, <1>2, <1>4
  <2>2. Blocks * BlockSize \in Nat /\ ~(Blocks * BlockSize < total)
    <3>1. Blocks < BlockCountFor(total, BlockSize) <=> Blocks * BlockSize < total
      BY <1>2, BlockCount
    <3> QED
      BY <1>2, <3>1, TimesMonotonic DEF Blocks
  <2>3. at = total
    BY <1>1, <1>2, <2>1, <2>2 DEF Least
  <2>4. ShortInputReported'
    BY <1>1, <1>2, <1>4, <2>3 DEF ShortInputReported
  <2>5. Ahead'
    <3>1. Len(out) = 1 + Blocks
      BY <1>1, <1>2, <2>1, BeginningLength DEF Blocks
    <3>2. /\ Blocks * BlockSize <= (Len(out) - 1 + Batch) * BlockSize
          /\ (Len(out) - 1 + Batch) * BlockSize \in Nat
      <4>1. Len(out) - 1 + Batch = Blocks + Batch
        BY <1>2, <3>1
      <4> QED
        BY <1>2, <4>1, TimesMonotonic
    <3>3. total <= Least(total, (Len(out) - 1 + Batch) * BlockSize)
      BY <1>2, <2>2, <3>2 DEF Least
    <3> QED
      BY <1>1, <1>2, <2>3, <3>1, <3>3 DEF Ahead
  <2>6. Typed' /\ Running'
    BY <1>1, <1>4 DEF Typed, Running, InBatch
  <2>7. Place'
    BY <1>1, <1>2, <1>4, <2>1 DEF Place, InBatch
  <2> QED
    BY <1>1, <1>4, <2>4, <2>5, <2>6, <2>7 DEF ReadTo, Written, Filled, Tasks, FailedBatchUnwritten
<1> QED
  BY <1>3, <1>4 DEF NextBatch

\* Every step of compressStream keeps the invariant.
LEMMA NextIInv == IInv /\ [Next]_vars => IInv'
<1> SUFFICES ASSUME IInv, [Next]_vars PROVE IInv'
  OBVIOUS
<1>1. CASE UNCHANGED vars
  <2>1. /\ UNCHANGED <<total, have, optBlockSize, threads, pc, at, done, i, inputs, encoded,
                       out, outcome, phase, count, task, result>>
        /\ BlockSize' = BlockSize /\ Blocks' = Blocks /\ Here' = Here /\ Batch' = Batch
    BY <1>1 DEF vars, BlockSize, Blocks, Here, Batch, Workers
  <2>2. Typed' /\ Running' /\ Place'
    BY <2>1 DEF IInv, Typed, Pool!TypeOK, Running, Place, InBatch
  <2>3. ReadTo' /\ Written' /\ Filled' /\ Tasks'
    BY <2>1 DEF IInv, ReadTo, Written, Filled, Read, Coded, Tasks
  <2>4. Ahead' /\ ShortInputReported' /\ FailedBatchUnwritten'
    BY <2>1 DEF IInv, Ahead, ShortInputReported, FailedBatchUnwritten
  <2> QED
    BY <2>2, <2>3, <2>4 DEF IInv
<1> QED
  BY <1>1, WholeKeeps, OpeningKeeps, ReadingKeeps, StartBatchKeeps, SerialKeeps, TaskKeeps,
     EndBatchKeeps, WriteSlotKeeps, NextBatchKeeps DEF Next, Step, Ended

------------------------------------------------------------------------------
\* Theorems

(***************************************************************************)
(* The inductive invariant of compressStream holds in every reachable      *)
(* state.                                                                  *)
(***************************************************************************)
THEOREM Invariance == Spec => []IInv
<1> QED
  BY InitIInv, NextIInv, PTL DEF Spec

\* The inductive invariant of compressStream says what Inv does.
LEMMA StreamInv == IInv => Inv
<1> SUFFICES ASSUME IInv PROVE Inv
  OBVIOUS
<1>1. \A s \in Slots : encoded[s].encodes \in [from : 0 .. MaxTotal, len : 0 .. MaxTotal]
  BY DEF IInv, Typed, Encodings, Stretches
<1>2. TypeOK
  BY <1>1 DEF IInv, Typed, Place, TypeOK, Stretches
<1>3. SlotsCurrent
  BY DEF IInv, Filled, SlotsCurrent, Read, Coded
<1> QED
  BY <1>2, <1>3 DEF Inv

(***************************************************************************)
(* A slot is written out only with the block that this batch read and      *)
(* encoded, never with what a larger earlier batch left there              *)
(* (codec.cpp:216-247).                                                    *)
(***************************************************************************)
THEOREM SlotsAreCurrent == Spec => []Inv
<1> QED
  BY StreamInv, Invariance, PTL

(***************************************************************************)
(* A success has read all of the declared input, and an input is called    *)
(* short only if it is (codec.cpp:195-197, 229-231).                       *)
(***************************************************************************)
THEOREM ShortInputIsReported == Spec => []ShortInputReported
<1>1. IInv => ShortInputReported
  BY DEF IInv
<1> QED
  BY <1>1, Invariance, PTL

(***************************************************************************)
(* Of a batch that could not be encoded nothing is written                 *)
(* (codec.cpp:240-247).                                                    *)
(***************************************************************************)
THEOREM FailedBatchIsUnwritten == Spec => []FailedBatchUnwritten
<1>1. IInv => FailedBatchUnwritten
  BY DEF IInv
<1> QED
  BY <1>1, Invariance, PTL

(***************************************************************************)
(* No more of the input is held in memory than one batch                   *)
(* (codec.cpp:210-211).                                                    *)
(***************************************************************************)
THEOREM ReadAheadIsBounded == Spec => []ReadAheadBounded
<1>1. IInv => ReadAheadBounded
  <2> SUFFICES ASSUME IInv, total > BlockSize, out # << >>
               PROVE  at - Least(total, (Len(out) - 1) * BlockSize) <= Greatest(1, Workers) * BlockSize
    BY DEF ReadAheadBounded
  <2> DEFINE w == Len(out) - 1
             ahead == (w + Batch) * BlockSize
             behind == w * BlockSize
             batch == Batch * BlockSize
  <2>1. /\ w \in Nat /\ Batch \in Nat /\ BlockSize \in Nat /\ total \in Nat /\ at \in Nat
        /\ at <= Least(total, ahead) /\ Batch = Greatest(1, Workers)
    BY NotFarAhead, Constants, SMTT(30) DEF IInv, Typed
  <2> HIDE DEF w
  <2>2. ahead = behind + batch /\ behind \in Nat /\ batch \in Nat /\ ahead \in Nat
    BY <2>1, TimesMonotonic
  <2> HIDE DEF ahead, behind, batch
  <2>3. at - Least(total, behind) <= batch
    BY <2>1, <2>2 DEF Least
  <2> QED
    BY <2>1, <2>3 DEF w, behind, batch
<1> QED
  BY <1>1, Invariance, PTL

\* Every step of compressStream is a step of Encoding, or changes nothing it sees.
LEMMA StreamEncodes == IInv /\ [Next]_vars => [E!Next]_(E!vars)
<1> SUFFICES ASSUME IInv, [Next]_vars PROVE [E!Next]_(E!vars)
  OBVIOUS
<1> USE DEF IInv
<1>0. /\ UNCHANGED args /\ BlockSize' = BlockSize
      /\ Container(total, BlockSize)' = Container(total, BlockSize)
  BY DEF Next, Step, CompressWhole, CompressWholeFails, RunOut, WriteHeader, StartPool, ReadSlot,
         ReadSlotFails, StartBatch, EncodeHere, EndSerial, TaskStarts, TaskReturns, TaskThrows,
         EndBatch, WriteSlot, NextBatch, Ended, Fail, Leave, vars, args, BlockSize
<1> DEFINE target == Container(total, BlockSize)
<1>1. /\ total \in Nat /\ BlockSize \in Nat \ {0} /\ Blocks \in Nat
      /\ total > BlockSize => target = Blocked(total, BlockSize)
  BY Constants DEF Container, ShouldBlock
<1>2. total > BlockSize => Len(target) = 1 + Blocks
  BY <1>1, BlockedPieces DEF Blocks
<1>3. CASE CompressWhole
  <2>1. Container(total, optBlockSize) = target
    BY <1>1, <1>3, EncoderAssumption DEF CompressWhole, Container, ShouldBlock, BlockSize, Typed
  <2> QED
    BY <1>0, <1>3, <2>1 DEF Running, CompressWhole, Failures, E!Next, E!Succeed
<1>4. ASSUME NEW why \in Failures, Leave(why), pc # "ended" PROVE E!Next
  BY <1>0, <1>4 DEF Running, Leave, Failures, E!Next, E!Fail
<1>5. ASSUME NEW n \in Nat, n > Len(out), n <= 1 + Blocks, total > BlockSize, pc # "ended",
             out' = Beginning(total, BlockSize, n), outcome' = outcome, Len(out) \in Nat
      PROVE  E!Next
  BY <1>0, <1>1, <1>2, <1>5 DEF Running, Beginning, Failures, E!Next, E!Extend
<1> HIDE DEF target
<1>6. CASE CompressWholeFails
  BY <1>4, <1>6 DEF CompressWholeFails, RunOut, Failures
<1>7. CASE WriteHeader
  <2>1. pc = "begin" /\ out = << >> /\ total > BlockSize
    BY <1>7 DEF WriteHeader, Running
  <2>2. CASE Fail("write")
    BY <1>4, <2>1, <2>2 DEF Fail, Failures
  <2>3. CASE out' = <<Header("blocked", total)>> /\ outcome' = outcome
    BY <1>1, <1>5, <2>1, <2>3, HeaderFirst
  <2> QED
    BY <1>7, <2>2, <2>3 DEF WriteHeader
<1>8. CASE StartPool \/ EncodeHere \/ EndBatch \/ ReadSlotFails
  <2>1. UNCHANGED <<out, outcome>> \/ \E why \in Failures : Leave(why) /\ pc # "ended"
    BY <1>8 DEF StartPool, EncodeHere, EndBatch, ReadSlotFails, RunOut, Fail, Failures
  <2> QED
    BY <1>0, <1>4, <2>1 DEF E!vars
<1>9. CASE ReadSlot \/ StartBatch \/ EndSerial \/ Ended \/ UNCHANGED vars
           \/ (\E s \in Slots : TaskStarts(s) \/ TaskReturns(s) \/ TaskThrows(s))
  BY <1>0, <1>9
    DEF ReadSlot, StartBatch, EndSerial, Ended, TaskStarts, TaskReturns, TaskThrows, vars, E!vars
<1>10. CASE WriteSlot
  <2>1. CASE Fail("write")
    BY <1>4, <1>10, <2>1 DEF WriteSlot, Fail, Failures
  <2>2. CASE out' = Append(out, Frame(inputs[i].len, encoded[i])) /\ outcome' = outcome
    <3>1. /\ pc = "write" /\ i < Here /\ total > BlockSize /\ Read(i) /\ Coded(i)
          /\ out = Beginning(total, BlockSize, 1 + (done + i))
          /\ done \in Nat /\ i \in Nat /\ Here <= Blocks - done /\ Here \in Nat
      BY <1>10, BatchSize, Constants DEF WriteSlot, Running, InBatch, Filled, Written, Slots
    <3>2. /\ done + i \in Nat /\ done + i < BlockCountFor(total, BlockSize)
          /\ 1 + (done + i) \in 0 .. 1 + BlockCountFor(total, BlockSize)
      BY <1>1, <3>1 DEF Blocks
    <3>3. out' = Beginning(total, BlockSize, 2 + (done + i))
      <4>1. out' = Append(Beginning(total, BlockSize, 1 + (done + i)),
                          Frame(BlockOf(done + i, total, BlockSize).len,
                                EncodeBlock(BlockOf(done + i, total, BlockSize))))
        BY <2>2, <3>1 DEF Read, Coded
      <4> QED
        BY <1>1, <3>2, <4>1, FrameNext
    <3>4. Len(out) = 1 + (done + i)
      BY <1>1, <3>1, <3>2, BeginningLength
    <3> QED
      BY <1>1, <1>5, <2>2, <3>1, <3>2, <3>3, <3>4, SMTT(30) DEF Blocks
  <2> QED
    BY <1>10, <2>1, <2>2 DEF WriteSlot
<1>11. CASE NextBatch
  <2>1. CASE UNCHANGED <<out, outcome>>
    BY <1>0, <2>1 DEF E!vars
  <2>2. CASE outcome' = "ok" /\ ~(done' < Blocks)
    <3>1. /\ pc = "write" /\ i = Here /\ total > BlockSize /\ out' = out /\ done' = done + Here
          /\ out = Beginning(total, BlockSize, 1 + (done + i)) /\ outcome = "running"
          /\ done \in Nat /\ Here <= Blocks - done /\ Here \in Nat
      BY <1>11, BatchSize, Constants DEF NextBatch, Running, InBatch, Written
    <3>2. done + i = Blocks
      BY <1>1, <2>2, <3>1
    <3>3. out = target
      BY <1>1, <3>1, <3>2, Whole DEF Blocks
    <3> QED
      BY <1>0, <2>2, <3>1, <3>3 DEF target, Failures, E!Next, E!Succeed
  <2> QED
    BY <1>11, <2>1, <2>2 DEF NextBatch
<1> QED
  BY <1>3, <1>6, <1>7, <1>8, <1>9, <1>10, <1>11 DEF Next, Step

(***************************************************************************)
(* What is written is always a beginning of the one container of the       *)
(* input, and all of it on success: compressStream implements Encoding     *)
(* (codec.cpp:210-213, codec.h:55-56).                                     *)
(***************************************************************************)
THEOREM WritesTheContainer == Spec => Contract
<1>1. Init => E!Init
  BY DEF Init, E!Init, Failures
<1> QED
  BY <1>1, StreamEncodes, Invariance, PTL DEF Spec, Contract, E!Spec

------------------------------------------------------------------------------
\* compress

\* Both encoders frame blocks in the same way: their copies of Framing are one.
LEMMA SameFraming ==
    ASSUME NEW length, NEW blockSize
    PROVE  /\ Memory!ShouldBlock(length, blockSize) = ShouldBlock(length, blockSize)
           /\ Memory!BlockCountFor(length, blockSize) = BlockCountFor(length, blockSize)
           /\ \A k : Memory!BlockOf(k, length, blockSize) = BlockOf(k, length, blockSize)
           /\ \A stretch : Memory!EncodeBlock(stretch) = EncodeBlock(stretch)
           /\ Memory!Header("blocked", length) = Header("blocked", length)
           /\ \A len, block : Memory!Frame(len, block) = Frame(len, block)
           /\ Memory!Blocked(length, blockSize) = Blocked(length, blockSize)
           /\ Memory!Container(length, blockSize) = Container(length, blockSize)
<1>1. /\ Memory!ShouldBlock(length, blockSize) = ShouldBlock(length, blockSize)
      /\ Memory!BlockCountFor(length, blockSize) = BlockCountFor(length, blockSize)
  BY DEF Memory!ShouldBlock, ShouldBlock, Memory!BlockCountFor, BlockCountFor
<1>2. \A k : Memory!BlockOf(k, length, blockSize) = BlockOf(k, length, blockSize)
  BY DEF Memory!BlockOf, BlockOf, Memory!Stretch, Stretch, Memory!Least, Least
<1>3. \A stretch : Memory!EncodeBlock(stretch) = EncodeBlock(stretch)
  BY DEF Memory!EncodeBlock, EncodeBlock
<1>4. \A method, n : Memory!Header(method, n) = Header(method, n)
  BY DEF Memory!Header, Header
<1>5. \A len, block : Memory!Frame(len, block) = Frame(len, block)
  BY DEF Memory!Frame, Frame
<1>6. Memory!Blocked(length, blockSize) = Blocked(length, blockSize)
  BY <1>1, <1>2, <1>3, <1>4, <1>5 DEF Memory!Blocked, Blocked
<1>7. Memory!SingleBlock(length) = SingleBlock(length)
  BY <1>3, <1>4
    DEF Memory!SingleBlock, SingleBlock, Memory!EncodeBlock, EncodeBlock, Memory!Stretch, Stretch
<1> QED
  BY <1>1, <1>2, <1>3, <1>4, <1>5, <1>6, <1>7 DEF Memory!Container, Container

\* The inductive invariant.

MemoryTyped ==
    /\ total \in 0 .. MaxTotal
    /\ optBlockSize \in 0 .. MaxBlockSize
    /\ threads \in 0 .. MaxThreads
    /\ pc \in {"begin", "encode", "serial", "assemble", "ended"}
    /\ encoded \in [Memory!Slots -> Encodings]
    /\ outcome \in {"running", "ok"} \cup Memory!Failures
    /\ Memory!Pool!TypeOK

MemoryFilled(s) == encoded[s] = Memory!EncodeBlock(Memory!BlockOf(s, total, optBlockSize))

\* The call runs until it ends, and more than one block goes to the slots.
MemoryRunning ==
    /\ pc # "ended" => outcome = "running"
    /\ pc \in {"encode", "serial", "assemble"} => Memory!ShouldBlock(total, optBlockSize)

\* The pool is used in one place, and a task that has ended well has filled its slot.
MemoryTasks ==
    /\ pc # "encode" => phase = "idle"
    /\ pc = "encode" =>
          /\ phase = "busy" /\ count = Memory!Blocks
          /\ \A s \in Memory!Slots : task[s] # "todo" => s < Memory!Blocks
          /\ \A s \in Memory!Slots : task[s] = "ok" => MemoryFilled(s)

\* Where the loops are, and what they have done.
MemoryLoops ==
    /\ pc \in {"begin", "encode"} => i = 0
    /\ i \in 0 .. MaxTotal
    /\ pc = "serial" => i <= Memory!Blocks /\ \A s \in Memory!Slots : s < i => MemoryFilled(s)
    /\ pc = "assemble" =>
          /\ i <= Memory!Blocks
          /\ \A s \in Memory!Slots : s < Memory!Blocks => MemoryFilled(s)
          /\ assembled = Beginning(total, optBlockSize, 1 + i)
    /\ Len(assembled) \in 0 .. 1 + MaxTotal

MemoryIInv == MemoryTyped /\ MemoryRunning /\ MemoryTasks /\ MemoryLoops

------------------------------------------------------------------------------

\* What is known of the blocks of an input that is cut.
LEMMA MemoryCut ==
    ASSUME MemoryTyped, Memory!ShouldBlock(total, optBlockSize)
    PROVE  /\ total \in Nat /\ optBlockSize \in Nat \ {0} /\ MaxTotal \in Nat
           /\ Memory!Blocks \in 1 .. MaxTotal
           /\ \A k \in Memory!Slots : k < Memory!Blocks =>
                 Memory!EncodeBlock(Memory!BlockOf(k, total, optBlockSize)) \in Encodings
           /\ Memory!Container(total, optBlockSize) = Blocked(total, optBlockSize)
<1>1. total \in Nat /\ total <= MaxTotal /\ optBlockSize \in Nat \ {0} /\ total > optBlockSize /\ MaxTotal \in Nat
  BY EncoderAssumption DEF MemoryTyped, Memory!ShouldBlock
<1>2. Memory!Blocks \in Nat /\ Memory!Blocks <= total /\ Memory!Blocks >= 1
  BY <1>1, SameFraming, BlockCount, BlockCountBounds DEF Memory!Blocks
<1>3. ASSUME NEW k \in Memory!Slots, k < Memory!Blocks
      PROVE  Memory!EncodeBlock(Memory!BlockOf(k, total, optBlockSize)) \in Encodings
  <2>1. k \in Nat /\ k * optBlockSize \in Nat /\ k * optBlockSize < total
    BY <1>1, <1>3, SameFraming, BlockCount, TimesMonotonic DEF Memory!Blocks, Memory!Slots
  <2>2. /\ Memory!BlockOf(k, total, optBlockSize).from = k * optBlockSize
        /\ Memory!BlockOf(k, total, optBlockSize).len \in 1 .. optBlockSize
        /\ Memory!BlockOf(k, total, optBlockSize).len <= total
    BY <1>1, <1>3, <2>1, SameFraming, BlockEnds DEF Memory!Blocks
  <2>3. Memory!BlockOf(k, total, optBlockSize) \in [from : 0 .. MaxTotal, len : 0 .. MaxTotal]
    BY <1>1, <2>1, <2>2 DEF Memory!BlockOf, Memory!Stretch
  <2> QED
    BY <2>3 DEF Memory!EncodeBlock, Encodings, Stretches
<1> QED
  BY <1>1, <1>2, <1>3, SameFraming DEF Memory!ShouldBlock, ShouldBlock, Container

\* Nothing is encoded yet.
LEMMA MemoryInit == Memory!Init => MemoryIInv
<1> SUFFICES ASSUME Memory!Init PROVE MemoryIInv
  OBVIOUS
<1>1. Memory!NoBlock \in Encodings
  BY EncoderAssumption DEF Memory!NoBlock, Memory!EncodeBlock, Memory!Stretch, Encodings, Stretches
<1>2. Memory!Pool!TypeOK
  BY EncoderAssumption
    DEF Memory!Init, Memory!Pool!Init, Memory!Pool!TypeOK, Memory!Pool!Indices,
        Memory!Pool!NoError
<1>3. MemoryTyped
  BY <1>1, <1>2 DEF Memory!Init, MemoryTyped
<1>4. MemoryRunning /\ MemoryTasks /\ MemoryLoops
  BY EncoderAssumption DEF Memory!Init, Memory!Pool!Init, MemoryRunning, MemoryTasks, MemoryLoops
<1> QED
  BY <1>3, <1>4 DEF MemoryIInv

\* An input that is not cut.
LEMMA MemorySingle == MemoryIInv /\ Memory!CompressSingle => MemoryIInv'
BY
  DEF MemoryIInv, MemoryTyped, MemoryRunning, MemoryTasks, MemoryLoops, Memory!CompressSingle,
      Memory!Fail, Memory!args, Memory!pool, Memory!Pool!TypeOK, Memory!Blocks, MemoryFilled,
      Memory!Failures, Memory!ShouldBlock

\* The pool is built and given its job, or is not needed, or cannot be built.
LEMMA MemoryStart == MemoryIInv /\ Memory!StartBlocked => MemoryIInv'
<1> SUFFICES ASSUME MemoryIInv, Memory!StartBlocked PROVE MemoryIInv'
  OBVIOUS
<1> USE DEF MemoryIInv
<1>1. /\ Memory!Blocks \in 1 .. MaxTotal /\ Memory!ShouldBlock(total, optBlockSize)
      /\ pc = "begin" /\ i = 0 /\ outcome = "running"
      /\ UNCHANGED <<total, optBlockSize, threads, i, encoded, assembled, out>>
      /\ Memory!Blocks' = Memory!Blocks
  BY MemoryCut
    DEF Memory!StartBlocked, MemoryRunning, MemoryLoops, Memory!Fail, Memory!args, Memory!Blocks
<1>2. CASE pc' = "serial" /\ UNCHANGED <<outcome, Memory!pool>>
  BY <1>1, <1>2
    DEF MemoryTyped, MemoryRunning, MemoryTasks, MemoryLoops, Memory!ShouldBlock,
        Memory!Pool!TypeOK, Memory!pool, Memory!Slots
<1>3. CASE pc' = "encode" /\ Memory!Pool!Begin(Memory!Blocks) /\ UNCHANGED outcome
  <2>1. Memory!Pool!TypeOK'
    BY <1>1, <1>3, EncoderAssumption
      DEF MemoryTyped, Memory!Pool!TypeOK, Memory!Pool!Begin, Memory!Pool!Indices,
          Memory!Pool!NoError
  <2>2. MemoryTasks'
    BY <1>1, <1>3 DEF MemoryTasks, Memory!Pool!Begin, Memory!Pool!Indices, Memory!Slots
  <2> QED
    BY <1>1, <1>3, <2>1, <2>2 DEF MemoryTyped, MemoryRunning, MemoryLoops, Memory!ShouldBlock
<1>4. CASE Memory!Fail("pool") /\ UNCHANGED Memory!pool
  BY <1>1, <1>4
    DEF MemoryTyped, MemoryRunning, MemoryTasks, MemoryLoops, Memory!Fail, Memory!Failures,
        Memory!Pool!TypeOK, Memory!pool
<1> QED
  BY <1>2, <1>3, <1>4 DEF Memory!StartBlocked

\* One slot is filled.
LEMMA MemoryFillSlot ==
    ASSUME MemoryIInv, Memory!ShouldBlock(total, optBlockSize),
           NEW s \in Memory!Slots, s < Memory!Blocks,
           Memory!EncodeSlot(s), UNCHANGED Memory!args
    PROVE  /\ encoded' \in [Memory!Slots -> Encodings]
           /\ MemoryFilled(s)'
           /\ \A t \in Memory!Slots : MemoryFilled(t) => MemoryFilled(t)'
<1>1. Memory!EncodeBlock(Memory!BlockOf(s, total, optBlockSize)) \in Encodings
  BY MemoryCut DEF MemoryIInv
<1> QED
  BY <1>1 DEF MemoryIInv, MemoryTyped, Memory!EncodeSlot, MemoryFilled, Memory!args

\* The loop of a single worker.
LEMMA MemorySerial == MemoryIInv /\ (Memory!EncodeHere \/ Memory!EndSerial) => MemoryIInv'
<1> SUFFICES ASSUME MemoryIInv, Memory!EncodeHere \/ Memory!EndSerial PROVE MemoryIInv'
  OBVIOUS
<1> USE DEF MemoryIInv
<1>1. /\ total \in Nat /\ optBlockSize \in Nat \ {0} /\ MaxTotal \in Nat
      /\ Memory!Blocks \in 1 .. MaxTotal /\ Memory!ShouldBlock(total, optBlockSize)
      /\ Memory!ShouldBlock(total, optBlockSize)'
      /\ pc = "serial" /\ i \in 0 .. MaxTotal /\ i <= Memory!Blocks /\ outcome = "running"
      /\ phase = "idle"
      /\ UNCHANGED <<Memory!args, out, Memory!pool>> /\ Memory!Blocks' = Memory!Blocks
  BY MemoryCut
    DEF Memory!EncodeHere, Memory!EndSerial, MemoryRunning, MemoryTasks, MemoryLoops, Memory!Fail,
        Memory!args, Memory!Blocks
<1>2. CASE /\ i < Memory!Blocks /\ Memory!EncodeSlot(i)
           /\ i' = i + 1 /\ UNCHANGED <<pc, assembled, outcome>>
  <2>1. PICK s \in Memory!Slots : s = i
    BY <1>1, <1>2 DEF Memory!Slots
  <2>2. /\ encoded' \in [Memory!Slots -> Encodings]
        /\ MemoryFilled(s)'
        /\ \A t \in Memory!Slots : MemoryFilled(t) => MemoryFilled(t)'
    BY <1>1, <1>2, <2>1, MemoryFillSlot
  <2> QED
    BY <1>1, <1>2, <2>1, <2>2
      DEF MemoryTyped, MemoryRunning, MemoryTasks, MemoryLoops, Memory!Pool!TypeOK, Memory!pool,
          Memory!args, Memory!Slots
<1>3. CASE Memory!Fail("encode")
  BY <1>1, <1>3
    DEF MemoryTyped, MemoryRunning, MemoryTasks, MemoryLoops, Memory!Fail, Memory!Failures,
        Memory!Pool!TypeOK, Memory!pool, Memory!args
<1>4. CASE Memory!EndSerial
  <2>1. /\ i = Memory!Blocks /\ pc' = "assemble" /\ i' = 0
        /\ assembled' = <<Memory!Header("blocked", total)>>
        /\ UNCHANGED <<encoded, outcome>>
    BY <1>4 DEF Memory!EndSerial
  <2>2. assembled' = Beginning(total, optBlockSize, 1) /\ Len(assembled') = 1
    BY <1>1, <2>1, SameFraming, HeaderFirst
  <2>3. MemoryLoops'
    BY <1>1, <2>1, <2>2 DEF MemoryLoops, Memory!args, MemoryFilled, Memory!Slots
  <2> QED
    BY <1>1, <2>1, <2>3
      DEF MemoryTyped, MemoryRunning, MemoryTasks, Memory!Pool!TypeOK, Memory!pool, Memory!args
<1> QED
  BY <1>1, <1>2, <1>3, <1>4 DEF Memory!EncodeHere

\* The tasks of the pool.
LEMMA MemoryTask ==
    ASSUME MemoryIInv, NEW s \in Memory!Slots,
           Memory!TaskStarts(s) \/ Memory!TaskReturns(s) \/ Memory!TaskThrows(s)
    PROVE  MemoryIInv'
<1> USE DEF MemoryIInv
<1>1. /\ total \in Nat /\ optBlockSize \in Nat \ {0} /\ MaxTotal \in Nat
      /\ Memory!Blocks \in 1 .. MaxTotal /\ Memory!ShouldBlock(total, optBlockSize)
      /\ Memory!ShouldBlock(total, optBlockSize)'
      /\ pc = "encode" /\ i = 0 /\ outcome = "running" /\ phase = "busy" /\ count = Memory!Blocks
      /\ UNCHANGED <<Memory!args, pc, i, assembled, out, outcome, phase, count, result>>
      /\ Memory!Blocks' = Memory!Blocks
  BY MemoryCut
    DEF Memory!TaskStarts, Memory!TaskReturns, Memory!TaskThrows, MemoryRunning, MemoryTasks,
        MemoryLoops, Memory!args, Memory!Blocks,
             Memory!Pool!Start, Memory!Pool!End
<1>2. Memory!Slots = Memory!Pool!Indices
  BY DEF Memory!Slots, Memory!Pool!Indices
<1>3. CASE Memory!TaskStarts(s) \/ Memory!TaskThrows(s)
  <2>1. encoded' = encoded /\ s < Memory!Blocks
    BY <1>1, <1>3
      DEF Memory!TaskStarts, Memory!TaskThrows, Memory!Pool!Start, Memory!Pool!End, MemoryTasks
  <2>2. \E how \in {"running", "threw"} : task' = [task EXCEPT ![s] = how]
    BY <1>3 DEF Memory!TaskStarts, Memory!TaskThrows, Memory!Pool!Start, Memory!Pool!End
  <2>3. Memory!Pool!TypeOK'
    BY <1>1, <2>2 DEF MemoryTyped, Memory!Pool!TypeOK, Memory!Pool!Ended
  <2>4. MemoryTasks'
    BY <1>1, <1>2, <2>1, <2>2
      DEF MemoryTasks, MemoryTyped, Memory!Pool!TypeOK, MemoryFilled, Memory!args
  <2> QED
    BY <1>1, <2>1, <2>3, <2>4 DEF MemoryTyped, MemoryRunning, MemoryLoops, Memory!args
<1>4. CASE Memory!TaskReturns(s)
  <2>1. s < Memory!Blocks /\ Memory!EncodeSlot(s) /\ task' = [task EXCEPT ![s] = "ok"]
    BY <1>1, <1>4 DEF Memory!TaskReturns, Memory!Pool!End, MemoryTasks
  <2>2. /\ encoded' \in [Memory!Slots -> Encodings]
        /\ MemoryFilled(s)'
        /\ \A t \in Memory!Slots : MemoryFilled(t) => MemoryFilled(t)'
    BY <1>1, <2>1, MemoryFillSlot
  <2>3. Memory!Pool!TypeOK'
    BY <1>1, <2>1 DEF MemoryTyped, Memory!Pool!TypeOK, Memory!Pool!Ended
  <2>4. MemoryTasks'
    BY <1>1, <1>2, <2>1, <2>2 DEF MemoryTasks, MemoryTyped, Memory!Pool!TypeOK
  <2> QED
    BY <1>1, <2>2, <2>3, <2>4 DEF MemoryTyped, MemoryRunning, MemoryLoops, Memory!args
<1> QED
  BY <1>3, <1>4

\* forEach returns with every slot filled, or rethrows.
LEMMA MemoryEndParallel == MemoryIInv /\ Memory!EndParallel => MemoryIInv'
<1> SUFFICES ASSUME MemoryIInv, Memory!EndParallel PROVE MemoryIInv'
  OBVIOUS
<1> USE DEF MemoryIInv
<1>1. /\ total \in Nat /\ optBlockSize \in Nat \ {0} /\ MaxTotal \in Nat
      /\ Memory!Blocks \in 1 .. MaxTotal /\ Memory!ShouldBlock(total, optBlockSize)
      /\ Memory!ShouldBlock(total, optBlockSize)'
      /\ pc = "encode" /\ i = 0 /\ outcome = "running" /\ phase = "busy" /\ count = Memory!Blocks
      /\ UNCHANGED <<Memory!args, i, encoded, out, task>> /\ phase' = "idle" /\ count' = 0
      /\ Memory!Blocks' = Memory!Blocks
  BY MemoryCut
    DEF Memory!EndParallel, MemoryRunning, MemoryTasks, MemoryLoops, Memory!Fail, Memory!args,
        Memory!Blocks, Memory!Pool!Return
<1>2. Memory!Pool!TypeOK'
  BY <1>1, EncoderAssumption
    DEF Memory!EndParallel, MemoryTyped, Memory!Pool!Return, Memory!Pool!TypeOK, Memory!Pool!Threw
<1>3. CASE result' = Memory!Pool!NoError
  <2>1. pc' = "assemble" /\ assembled' = <<Memory!Header("blocked", total)>> /\ outcome' = outcome
    BY <1>3 DEF Memory!EndParallel
  <2>2. assembled' = Beginning(total, optBlockSize, 1) /\ Len(assembled') = 1
    BY <1>1, <2>1, SameFraming, HeaderFirst
  <2>3. Memory!Pool!Threw = {}
    BY <1>3
      DEF Memory!EndParallel, Memory!Pool!Return, Memory!Pool!Threw, Memory!Pool!Indices,
          Memory!Pool!NoError
  <2>4. \A s \in Memory!Slots : s < Memory!Blocks => task[s] = "ok"
    BY <1>1, <2>3
      DEF Memory!EndParallel, Memory!Pool!Return, Memory!Pool!Threw, Memory!Pool!Indices,
          Memory!Pool!Ended, Memory!Slots
  <2>5. MemoryLoops'
    BY <1>1, <2>1, <2>2, <2>4 DEF MemoryLoops, MemoryTasks, MemoryFilled, Memory!args
  <2> QED
    BY <1>1, <1>2, <2>1, <2>5 DEF MemoryTyped, MemoryRunning, MemoryTasks, Memory!args
<1>4. CASE Memory!Fail("encode")
  BY <1>1, <1>2, <1>4
    DEF MemoryTyped, MemoryRunning, MemoryTasks, MemoryLoops, Memory!Fail, Memory!Failures,
        Memory!args
<1> QED
  BY <1>3, <1>4 DEF Memory!EndParallel

\* The slots are appended in order, and then the result is returned.
LEMMA MemoryAssemble == MemoryIInv /\ (Memory!AppendSlot \/ Memory!ReturnBlocked) => MemoryIInv'
<1> SUFFICES ASSUME MemoryIInv, Memory!AppendSlot \/ Memory!ReturnBlocked PROVE MemoryIInv'
  OBVIOUS
<1> USE DEF MemoryIInv
<1>1. /\ total \in Nat /\ optBlockSize \in Nat \ {0} /\ MaxTotal \in Nat
      /\ Memory!Blocks \in 1 .. MaxTotal /\ Memory!ShouldBlock(total, optBlockSize)
      /\ Memory!ShouldBlock(total, optBlockSize)'
      /\ pc = "assemble" /\ i \in 0 .. MaxTotal /\ i <= Memory!Blocks /\ outcome = "running"
      /\ phase = "idle"
      /\ UNCHANGED <<Memory!args, encoded, Memory!pool>> /\ Memory!Blocks' = Memory!Blocks
  BY MemoryCut
    DEF Memory!AppendSlot, Memory!ReturnBlocked, MemoryRunning, MemoryTasks, MemoryLoops,
        Memory!args, Memory!Blocks
<1>2. CASE Memory!AppendSlot
  <2>1. i < Memory!Blocks /\ i' = i + 1 /\ UNCHANGED <<pc, outcome>>
        /\ assembled' = Append(assembled, Memory!Frame(Memory!BlockOf(i, total, optBlockSize).len, encoded[i]))
    BY <1>2 DEF Memory!AppendSlot
  <2>2. i \in Memory!Slots /\ MemoryFilled(i) /\ assembled = Beginning(total, optBlockSize, 1 + i)
    BY <1>1, <2>1 DEF MemoryLoops, Memory!Slots
  <2>3. /\ assembled' = Beginning(total, optBlockSize, 1 + i')
        /\ Len(assembled') = 1 + i'
    <3>1. Append(Beginning(total, optBlockSize, 1 + i),
                 Memory!Frame(Memory!BlockOf(i, total, optBlockSize).len,
                              Memory!EncodeBlock(Memory!BlockOf(i, total, optBlockSize))))
             = Beginning(total, optBlockSize, 2 + i)
      BY <1>1, <2>1, SameFraming, FrameNext DEF Memory!Blocks
    <3>2. 2 + i \in 0 .. 1 + Memory!Blocks /\ 1 + i' = 2 + i
      BY <1>1, <2>1
    <3> QED
      BY <1>1, <2>1, <2>2, <3>1, <3>2, SameFraming, BeginningLength DEF MemoryFilled, Memory!Blocks
  <2>4. MemoryLoops'
    BY <1>1, <2>1, <2>3 DEF MemoryLoops, MemoryFilled, Memory!args
  <2> QED
    BY <1>1, <2>1, <2>4
      DEF MemoryTyped, MemoryRunning, MemoryTasks, Memory!Pool!TypeOK, Memory!pool, Memory!args
<1>3. CASE Memory!ReturnBlocked
  BY <1>1, <1>3
    DEF Memory!ReturnBlocked, MemoryTyped, MemoryRunning, MemoryTasks, MemoryLoops,
        Memory!Pool!TypeOK, Memory!pool, Memory!args
<1> QED
  BY <1>2, <1>3

\* Every step of compress keeps the invariant.
LEMMA MemoryStepKeeps == MemoryIInv /\ [Memory!Next]_(Memory!vars) => MemoryIInv'
<1> SUFFICES ASSUME MemoryIInv, [Memory!Next]_(Memory!vars) PROVE MemoryIInv'
  OBVIOUS
<1>1. CASE UNCHANGED Memory!vars
  <2>1. UNCHANGED <<total, optBlockSize, threads, pc, i, encoded, assembled, out, outcome,
                    phase, count, task, result>>
    BY <1>1 DEF Memory!vars
  <2>2. MemoryTyped' /\ MemoryRunning'
    BY <2>1 DEF MemoryIInv, MemoryTyped, MemoryRunning, Memory!Pool!TypeOK, Memory!ShouldBlock
  <2>3. MemoryTasks' /\ MemoryLoops'
    BY <2>1 DEF MemoryIInv, MemoryTasks, MemoryLoops, MemoryFilled, Memory!Blocks
  <2> QED
    BY <2>2, <2>3 DEF MemoryIInv
<1> QED
  BY <1>1, MemorySingle, MemoryStart, MemorySerial, MemoryTask, MemoryEndParallel, MemoryAssemble
     DEF Memory!Next, Memory!Step, Memory!Ended

------------------------------------------------------------------------------
\* Theorems

(***************************************************************************)
(* The inductive invariant of compress holds in every reachable state.     *)
(***************************************************************************)
THEOREM MemoryInvariance == Memory!Spec => []MemoryIInv
<1> QED
  BY MemoryInit, MemoryStepKeeps, PTL DEF Memory!Spec

\* The inductive invariant of compress says what Inv does.
LEMMA MemoryInv == MemoryIInv => Memory!Inv
<1> SUFFICES ASSUME MemoryIInv PROVE Memory!Inv
  OBVIOUS
<1>1. \A s \in Memory!Slots : encoded[s].encodes \in [from : 0 .. MaxTotal, len : 0 .. MaxTotal]
  BY DEF MemoryIInv, MemoryTyped, Encodings, Stretches
<1>2. Memory!TypeOK
  BY <1>1, EncoderAssumption DEF MemoryIInv, MemoryTyped, MemoryLoops, Memory!TypeOK
<1>3. Memory!SlotsFilled
  BY DEF MemoryIInv, MemoryLoops, Memory!SlotsFilled, MemoryFilled
<1> QED
  BY <1>2, <1>3 DEF Memory!Inv

(***************************************************************************)
(* No slot is appended before it holds its own block, whichever thread     *)
(* filled it (codec.cpp:82-106).                                           *)
(***************************************************************************)
THEOREM SlotsAreFilled == Memory!Spec => []Memory!Inv
<1> QED
  BY MemoryInv, MemoryInvariance, PTL

\* Every step of compress is a step of Encoding, or changes nothing it sees.
LEMMA MemoryEncodes == MemoryIInv /\ [Memory!Next]_(Memory!vars) => [Memory!E!Next]_(Memory!E!vars)
<1> SUFFICES ASSUME MemoryIInv, [Memory!Next]_(Memory!vars) PROVE [Memory!E!Next]_(Memory!E!vars)
  OBVIOUS
<1>0. /\ UNCHANGED Memory!args
      /\ Memory!Container(total, optBlockSize)' = Memory!Container(total, optBlockSize)
  BY
    DEF Memory!Next, Memory!Step, Memory!CompressSingle, Memory!StartBlocked, Memory!EncodeHere,
        Memory!EndSerial, Memory!TaskStarts, Memory!TaskReturns,
         Memory!TaskThrows, Memory!EndParallel, Memory!AppendSlot, Memory!ReturnBlocked,
         Memory!Ended, Memory!Fail, Memory!vars, Memory!args
<1>1. CASE Memory!CompressSingle
  BY <1>0, <1>1
    DEF MemoryIInv, MemoryRunning, Memory!CompressSingle, Memory!Fail, Memory!Failures,
        Memory!Container, Memory!E!Next, Memory!E!Succeed, Memory!E!Fail
<1>2. CASE Memory!StartBlocked
  BY <1>0, <1>2
    DEF MemoryIInv, MemoryRunning, Memory!StartBlocked, Memory!Fail, Memory!Failures,
        Memory!E!Next, Memory!E!Fail, Memory!E!vars
<1>3. CASE Memory!EncodeHere
  BY <1>0, <1>3
    DEF MemoryIInv, MemoryRunning, Memory!EncodeHere, Memory!Fail, Memory!Failures, Memory!E!Next,
        Memory!E!Fail, Memory!E!vars
<1>4. CASE Memory!EndParallel
  BY <1>0, <1>4
    DEF MemoryIInv, MemoryRunning, Memory!EndParallel, Memory!Fail, Memory!Failures,
        Memory!E!Next, Memory!E!Fail, Memory!E!vars
<1>5. CASE Memory!ReturnBlocked
  <2>1. out' = Memory!Container(total, optBlockSize)
    BY <1>5, SameFraming, Whole, MemoryCut
      DEF MemoryIInv, MemoryRunning, MemoryLoops, Memory!ReturnBlocked, Memory!Blocks
  <2> QED
    BY <1>0, <1>5, <2>1
      DEF MemoryIInv, MemoryRunning, Memory!ReturnBlocked, Memory!Failures, Memory!E!Next,
          Memory!E!Succeed
<1>6. CASE Memory!EndSerial \/ Memory!AppendSlot
           \/ (\E s \in Memory!Slots :
                 Memory!TaskStarts(s) \/ Memory!TaskReturns(s) \/ Memory!TaskThrows(s))
           \/ UNCHANGED Memory!vars
  BY <1>0, <1>6
    DEF Memory!EndSerial, Memory!AppendSlot, Memory!TaskStarts, Memory!TaskReturns,
        Memory!TaskThrows, Memory!vars, Memory!E!vars
<1> QED
  BY <1>1, <1>2, <1>3, <1>4, <1>5, <1>6 DEF Memory!Next, Memory!Step, Memory!Ended

(***************************************************************************)
(* compress returns the one container that its input has for this block    *)
(* size, whatever the threads do, or throws and returns nothing: it        *)
(* implements Encoding (codec.cpp:78-81, codec.h:35-38).                   *)
(***************************************************************************)
THEOREM ReturnsTheContainer == Memory!Spec => Memory!Contract
<1>1. Memory!Init => Memory!E!Init
  BY DEF Memory!Init, Memory!E!Init, Memory!Failures
<1> QED
  BY <1>1, MemoryEncodes, MemoryInvariance, PTL DEF Memory!Spec, Memory!Contract, Memory!E!Spec

------------------------------------------------------------------------------
\* The two side by side

\* The encoder that runs keeps its invariant.
Either ==
    /\ which = "stream" => IInv
    /\ which = "memory" => MemoryIInv

\* Either encoder starts in its invariant.
LEMMA EitherInit == MCInit => Either
BY InitIInv, MemoryInit DEF MCInit, Either, Memory!Init

\* A step is one of the encoder that runs.
LEMMA EitherNext == Either /\ [MCNext]_allVars => Either'
<1> SUFFICES ASSUME Either, [MCNext]_allVars PROVE Either'
  OBVIOUS
<1>1. CASE StreamNext
  BY <1>1, NextIInv DEF StreamNext, Either, Next
<1>2. CASE MemoryNext
  BY <1>2, MemoryStepKeeps DEF MemoryNext, Either, Memory!Next
<1>3. CASE UNCHANGED allVars
  <2>1. which' = which /\ UNCHANGED vars /\ UNCHANGED Memory!vars
    BY <1>3 DEF allVars, vars, Memory!vars
  <2>2. which = "stream" => IInv'
    BY <2>1, NextIInv DEF Either
  <2>3. which = "memory" => MemoryIInv'
    BY <2>1, MemoryStepKeeps DEF Either
  <2> QED
    BY <2>1, <2>2, <2>3 DEF Either
<1> QED
  BY <1>1, <1>2, <1>3 DEF MCNext, AllEnded

(***************************************************************************)
(* Whichever encoder runs, no slot is written or appended before it holds  *)
(* the block that belongs there (codec.cpp:82-106, 216-247).               *)
(***************************************************************************)
THEOREM SlotsAreRight == MCSpec => []SlotsRight
<1>1. Either => SlotsRight
  BY StreamInv, MemoryInv DEF Either, SlotsRight
<1> QED
  BY <1>1, EitherInit, EitherNext, PTL DEF MCSpec

(***************************************************************************)
(* Both encoders put out the one container of their input and its block    *)
(* size, whatever the threads do and whatever fails (codec.h:35-44).       *)
(***************************************************************************)
THEOREM BothMakeOneContainer == MCSpec => OneContainer
<1>1. MCInit => Both!Init
  BY DEF MCInit, Init, Memory!Init, Both!Init, Failures
<1>2. Either /\ [MCNext]_allVars => [Both!Next]_(Both!vars)
  <2> SUFFICES ASSUME Either, [MCNext]_allVars PROVE [Both!Next]_(Both!vars)
    OBVIOUS
  <2>1. CASE StreamNext
    <3>1. which = "stream" /\ which' = which /\ [E!Next]_(E!vars)
      BY <2>1, StreamEncodes DEF StreamNext, Either, Next
    <3> QED
      BY <3>1 DEF E!Next, E!vars, E!Extend, E!Succeed, E!Fail,
                  Both!Next, Both!vars, Both!Extend, Both!Succeed, Both!Fail
  <2>2. CASE MemoryNext
    <3>1. which = "memory" /\ which' = which /\ [Memory!E!Next]_(Memory!E!vars)
      BY <2>2, MemoryEncodes DEF MemoryNext, Either, Memory!Next
    <3>2. /\ Memory!Container(total, optBlockSize) = Container(total, optBlockSize)
          /\ Memory!Container(total, optBlockSize)' = Container(total, optBlockSize)'
          /\ Memory!Failures = Failures
      BY SameFraming DEF Memory!Failures, Failures
    <3> QED
      BY <3>1, <3>2 DEF Memory!E!Next, Memory!E!vars, Memory!E!Extend, Memory!E!Succeed, Memory!E!Fail,
                  Both!Next, Both!vars, Both!Extend, Both!Succeed, Both!Fail
  <2>3. CASE UNCHANGED allVars
    BY <2>3 DEF allVars, vars, Both!vars, Container, BlockSize
  <2> QED
    BY <2>1, <2>2, <2>3 DEF MCNext, AllEnded
<1> QED
  BY <1>1, <1>2, EitherInit, EitherNext, PTL DEF MCSpec, OneContainer, Both!Spec
==============================================================================
