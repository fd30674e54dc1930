---------------------------- MODULE StreamEncoder ----------------------------
(***************************************************************************)
(* compressStream (src/src/codec.cpp:186-250): a batch of blocks is read   *)
(* into slots, the slots are encoded together by the pool, and the results *)
(* are written in order; the slots are then used again for the next batch, *)
(* which may be smaller.                                                   *)
(*                                                                         *)
(* The pool is used through its contract, ParallelFor.  A failed write may *)
(* leave a part of the piece it was writing in the output; out holds the   *)
(* pieces that were written whole.                                         *)
(***************************************************************************)
EXTENDS EncoderOptions

VARIABLES
    total,          \* totalSize: what the caller says the input holds
    have,           \* what the input stream really holds
    optBlockSize,   \* options.blockSize
    threads,        \* options.threads
    pc,
    at,             \* the read position of the input stream
    done,           \* blocks written by earlier batches
    i,              \* the index of the loop in progress
    inputs,         \* the stretch of the input in each slot
    encoded,        \* the encoded block in each slot
    out,            \* the pieces written
    outcome,        \* "running", "ok", or which exception ended the call
    phase, count, task, result      \* the pool

args  == <<total, have, optBlockSize, threads>>
slots == <<inputs, encoded>>
pool  == <<phase, count, task, result>>
vars  == <<total, have, optBlockSize, threads, pc, at, done, i, inputs, encoded,
           out, outcome, phase, count, task, result>>

MaxBatch == Greatest(1, Greatest(MaxThreads, Hardware))
Slots    == 0 .. MaxBatch - 1

Pool == INSTANCE ParallelFor WITH MaxTasks <- MaxBatch

BlockSize == IF optBlockSize > 0 THEN optBlockSize ELSE DefaultBlockSize
Blocks    == BlockCountFor(total, BlockSize)
Workers   == ResolveThreadCount(threads, Hardware)
\* Mutant: one batch is read while another is encoded.
Batch_Doubled == 2 * Greatest(1, Workers)

Batch == IF Workers <= 1 THEN 1 ELSE Workers
Here == Least(Batch, Blocks - done)

TypeOK ==
    /\ total \in 0 .. MaxTotal
    /\ have \in 0 .. MaxTotal
    /\ optBlockSize \in 0 .. MaxBlockSize
    /\ threads \in 0 .. MaxThreads
    /\ pc \in {"begin", "pool", "fill", "encode", "serial", "write", "ended"}
    /\ at \in 0 .. have
    /\ done \in 0 .. Blocks
    /\ i \in 0 .. MaxBatch
    /\ inputs \in [Slots -> [from : 0 .. MaxTotal, len : 0 .. MaxTotal]]
    /\ \A s \in Slots : encoded[s].encodes \in [from : 0 .. MaxTotal, len : 0 .. MaxTotal]
    /\ outcome \in {"running", "ok"} \cup Failures
    /\ Pool!TypeOK

Init ==
    /\ total \in 0 .. MaxTotal
    /\ have \in 0 .. MaxTotal
    /\ optBlockSize \in 0 .. MaxBlockSize
    /\ threads \in 0 .. MaxThreads
    /\ pc = "begin"
    /\ at = 0
    /\ done = 0
    /\ i = 0
    /\ inputs = [s \in Slots |-> Stretch(0, 0)]
    /\ encoded = [s \in Slots |-> NoBlock]
    /\ out = << >>
    /\ outcome = "running"
    /\ Pool!Init

\* An exception leaves compressStream.
Leave(why) ==
    /\ outcome' = why
    /\ pc' = "ended"
    /\ UNCHANGED <<args, done, i, slots, out>>

Fail(why) == Leave(why) /\ UNCHANGED at

\* readFully takes what there is, and it is not enough.
RunOut == Leave("read") /\ at' = have

------------------------------------------------------------------------------
\* Not more than one block: read it and take the in-memory path.

CompressWhole ==
    /\ pc = "begin"
    /\ total <= BlockSize
    /\ have >= total
    /\ at' = total
    /\ out' = Container(total, optBlockSize)
    /\ outcome' = "ok"
    /\ pc' = "ended"
    /\ UNCHANGED <<args, done, i, slots, pool>>

CompressWholeFails ==
    /\ pc = "begin"
    /\ total <= BlockSize
    /\ \/ have < total /\ RunOut
       \/ /\ have >= total
          /\ at' = total
          /\ Leave("encode") \/ Leave("write")
    /\ UNCHANGED pool

------------------------------------------------------------------------------
\* More than one block.

WriteHeader ==
    /\ pc = "begin"
    /\ total > BlockSize
    /\ UNCHANGED pool
    /\ \/ /\ out' = <<Header("blocked", total)>>
          /\ pc' = "pool"
          /\ UNCHANGED <<args, at, done, i, slots, outcome>>
       \/ Fail("write")

\* The pool is constructed even when one worker will not use it.
StartPool ==
    /\ pc = "pool"
    /\ UNCHANGED pool
    /\ \/ /\ pc' = "fill"
          /\ UNCHANGED <<args, at, done, i, slots, out, outcome>>
       \/ Fail("pool")

\* The length that slot i is resized to, from its offset in the whole input.
SlotLength == BlockOf(done + i, total, BlockSize).len

\* Mutant: what readFully returns is not looked at.
ReadSlot_Unchecked ==
    /\ pc = "fill"
    /\ i < Here
    /\ inputs' = [inputs EXCEPT ![i] = Stretch(at, SlotLength)]
    /\ at' = at + SlotLength
    /\ i' = i + 1
    /\ UNCHANGED <<args, pc, done, encoded, out, outcome, pool>>

ReadSlot ==
    /\ pc = "fill"
    /\ i < Here
    /\ at + SlotLength <= have
    /\ inputs' = [inputs EXCEPT ![i] = Stretch(at, SlotLength)]
    /\ at' = at + SlotLength
    /\ i' = i + 1
    /\ UNCHANGED <<args, pc, done, encoded, out, outcome, pool>>

ReadSlotFails ==
    /\ pc = "fill"
    /\ i < Here
    /\ at + SlotLength > have
    /\ RunOut
    /\ UNCHANGED pool

StartBatch ==
    /\ pc = "fill"
    /\ i = Here
    /\ i' = 0
    /\ UNCHANGED <<args, at, done, slots, out, outcome>>
    /\ IF Workers <= 1
       THEN pc' = "serial" /\ UNCHANGED pool
       ELSE pc' = "encode" /\ Pool!Begin(Here)

\* compressOne(i) without the pool.
EncodeHere ==
    /\ pc = "serial"
    /\ i < Here
    /\ UNCHANGED pool
    /\ \/ /\ encoded' = [encoded EXCEPT ![i] = EncodeBlock(inputs[i])]
          /\ i' = i + 1
          /\ UNCHANGED <<args, pc, at, done, inputs, out, outcome>>
       \/ Fail("encode")

EndSerial ==
    /\ pc = "serial"
    /\ i = Here
    /\ pc' = "write"
    /\ i' = 0
    /\ UNCHANGED <<args, at, done, slots, out, outcome, pool>>

\* compressOne(s) on some thread of the pool, from its start to its end.
TaskStarts(s) ==
    /\ pc = "encode"
    /\ Pool!Start(s)
    /\ UNCHANGED <<args, pc, at, done, i, slots, out, outcome>>

TaskReturns(s) ==
    /\ pc = "encode"
    /\ Pool!End(s, "ok")
    /\ encoded' = [encoded EXCEPT ![s] = EncodeBlock(inputs[s])]
    /\ UNCHANGED <<args, pc, at, done, i, inputs, out, outcome>>

TaskThrows(s) ==
    /\ pc = "encode"
    /\ Pool!End(s, "threw")
    /\ UNCHANGED <<args, pc, at, done, i, slots, out, outcome>>

\* Mutants: the exception is not rethrown; the first block is written before it is.
EndBatch_IgnoresError ==
    /\ pc = "encode"
    /\ Pool!Return
    /\ pc' = "write"
    /\ UNCHANGED <<args, at, done, i, slots, out, outcome>>

EndBatch_KeepsFirst ==
    /\ pc = "encode"
    /\ Pool!Return
    /\ IF result' = Pool!NoError
       THEN /\ pc' = "write"
            /\ UNCHANGED <<args, at, done, i, slots, out, outcome>>
       ELSE /\ out' = IF task[0] = "ok"
                      THEN Append(out, Frame(inputs[0].len, encoded[0])) ELSE out
            /\ outcome' = "encode"
            /\ pc' = "ended"
            /\ UNCHANGED <<args, at, done, i, slots>>

\* forEach returns, or rethrows.
EndBatch ==
    /\ pc = "encode"
    /\ Pool!Return
    /\ IF result' = Pool!NoError
       THEN /\ pc' = "write"
            /\ UNCHANGED <<args, at, done, i, slots, out, outcome>>
       ELSE Fail("encode")

WriteSlot ==
    /\ pc = "write"
    /\ i < Here
    /\ UNCHANGED pool
    /\ \/ /\ out' = Append(out, Frame(inputs[i].len, encoded[i]))
          /\ i' = i + 1
          /\ UNCHANGED <<args, pc, at, done, slots, outcome>>
       \/ Fail("write")

\* Mutant: the batch counts as one block.
NextBatch_ByOne ==
    /\ pc = "write"
    /\ i = Here
    /\ done' = done + 1
    /\ i' = 0
    /\ IF done' < Blocks
       THEN pc' = "fill" /\ UNCHANGED outcome
       ELSE pc' = "ended" /\ outcome' = "ok"
    /\ UNCHANGED <<args, at, slots, out, pool>>

NextBatch ==
    /\ pc = "write"
    /\ i = Here
    /\ done' = done + Here
    /\ i' = 0
    /\ IF done' < Blocks
       THEN pc' = "fill" /\ UNCHANGED outcome
       ELSE pc' = "ended" /\ outcome' = "ok"
    /\ UNCHANGED <<args, at, slots, out, pool>>

Ended ==
    /\ pc = "ended"
    /\ UNCHANGED vars

Step ==
    \/ CompressWhole
    \/ CompressWholeFails
    \/ WriteHeader
    \/ StartPool
    \/ ReadSlot
    \/ ReadSlotFails
    \/ StartBatch
    \/ EncodeHere
    \/ EndSerial
    \/ \E s \in Slots : TaskStarts(s) \/ TaskReturns(s) \/ TaskThrows(s)
    \/ EndBatch
    \/ WriteSlot
    \/ NextBatch

Next == Step \/ Ended

Spec == Init /\ [][Next]_vars

------------------------------------------------------------------------------
\* Properties

(***************************************************************************)
(* What is written is always a beginning of the container that the input   *)
(* has for this block size, in order, whatever fails and whichever thread  *)
(* finishes first; success means all of it was written (codec.cpp:210-213).*)
(***************************************************************************)
E == INSTANCE Encoding WITH
        target  <- Container(total, BlockSize),
        outcome <- IF outcome \in Failures THEN "error" ELSE outcome

Contract == E!Spec

(***************************************************************************)
(* A slot is written out only with what this batch put in it: the block    *)
(* read into it this time, encoded this time, never what a larger earlier  *)
(* batch left there (codec.cpp:216-217, 243-247).                          *)
(***************************************************************************)
SlotsCurrent ==
    pc = "write" =>
        \A s \in Slots : s < Here =>
            /\ inputs[s] = BlockOf(done + s, total, BlockSize)
            /\ encoded[s] = EncodeBlock(inputs[s])

(***************************************************************************)
(* The variables have their types, and no slot is written before it holds  *)
(* the block of this batch (codec.cpp:216-247).                            *)
(***************************************************************************)
Inv == TypeOK /\ SlotsCurrent

(***************************************************************************)
(* An input shorter than its declared size is never passed off as a        *)
(* success, and one that is long enough is never reported as short         *)
(* (codec.cpp:195-197, 229-231).                                           *)
(***************************************************************************)
ShortInputReported ==
    /\ outcome = "ok"   => have >= total
    /\ outcome = "read" => have < total

(***************************************************************************)
(* When a block of a batch cannot be encoded, nothing of that batch is     *)
(* written, not even the blocks that were encoded (codec.cpp:240-247).     *)
(***************************************************************************)
FailedBatchUnwritten ==
    outcome = "encode" /\ out # << >> => Len(out) = 1 + done

(***************************************************************************)
(* What has been read and not yet written is never more than one batch:    *)
(* "Memory stays bounded by (workers x block size) rather than by the      *)
(* file" (codec.cpp:210-211).                                              *)
(***************************************************************************)
ReadAheadBounded ==
    total > BlockSize /\ out # << >> => at - Least(total, (Len(out) - 1) * BlockSize)
                            <= Greatest(1, Workers) * BlockSize

(***************************************************************************)
(* "They produce byte-identical output to the in-memory functions above    *)
(* for the same options" (codec.h:55-56).                                  *)
(***************************************************************************)
SameAsMemory == outcome = "ok" => out = Container(total, optBlockSize)
==============================================================================
