---------------------------- MODULE MemoryEncoder ----------------------------
(***************************************************************************)
(* compress (src/src/codec.cpp:64-108, 153-162): the whole input is in     *)
(* memory; a blocked container has one slot for each block, filled by the  *)
(* pool in any order and appended to the result in index order.            *)
(***************************************************************************)
EXTENDS EncoderOptions

VARIABLES
    size,           \* the bytes of the input
    optBlockSize,   \* options.blockSize
    threads,        \* options.threads
    pc,
    i,              \* the index of the loop in progress
    encoded,        \* the encoded block in each slot
    assembled,      \* the pieces appended to the local result
    out,            \* the result, once it is returned
    outcome,        \* "running", "ok", or which exception ended the call
    phase, count, task, result      \* the pool

args == <<size, optBlockSize, threads>>
pool == <<phase, count, task, result>>
vars == <<size, optBlockSize, threads, pc, i, encoded, assembled, out, outcome,
          phase, count, task, result>>

Slots == 0 .. MaxTotal - 1

Pool == INSTANCE ParallelFor WITH MaxTasks <- MaxTotal

Blocks  == BlockCountFor(size, optBlockSize)
Workers == ResolveThreadCount(threads, Hardware)

TypeOK ==
    /\ size \in 0 .. MaxTotal
    /\ optBlockSize \in 0 .. MaxBlockSize
    /\ threads \in 0 .. MaxThreads
    /\ pc \in {"begin", "encode", "serial", "assemble", "ended"}
    /\ i \in 0 .. MaxTotal
    /\ \A s \in Slots : encoded[s].encodes \in [from : 0 .. MaxTotal, len : 0 .. MaxTotal]
    /\ Len(assembled) <= 1 + MaxTotal
    /\ outcome \in {"running", "ok"} \cup Failures
    /\ Pool!TypeOK

Init ==
    /\ size \in 0 .. MaxTotal
    /\ optBlockSize \in 0 .. MaxBlockSize
    /\ threads \in 0 .. MaxThreads
    /\ pc = "begin"
    /\ i = 0
    /\ encoded = [s \in Slots |-> NoBlock]
    /\ assembled = << >>
    /\ out = << >>
    /\ outcome = "running"
    /\ Pool!Init

\* An exception leaves compress: the caller gets no result.
Fail(why) ==
    /\ outcome' = why
    /\ pc' = "ended"
    /\ UNCHANGED <<args, i, encoded, assembled, out>>

\* The empty input, and the input that is one block.
CompressSingle ==
    /\ pc = "begin"
    /\ ~ShouldBlock(size, optBlockSize)
    /\ UNCHANGED pool
    /\ \/ /\ out' = SingleBlock(size)
          /\ outcome' = "ok"
          /\ pc' = "ended"
          /\ UNCHANGED <<args, i, encoded, assembled>>
       \/ size > 0 /\ Fail("encode")

\* One worker needs no pool; for more, the pool is built and the job given to it.
StartBlocked ==
    /\ pc = "begin"
    /\ ShouldBlock(size, optBlockSize)
    /\ \/ /\ Workers <= 1
          /\ pc' = "serial"
          /\ UNCHANGED <<args, i, encoded, assembled, out, outcome, pool>>
       \/ /\ Workers > 1
          /\ pc' = "encode"
          /\ Pool!Begin(Blocks)
          /\ UNCHANGED <<args, i, encoded, assembled, out, outcome>>
       \/ /\ Workers > 1
          /\ Fail("pool")
          /\ UNCHANGED pool

\* compressOne: the block at index * blockSize.
EncodeSlot(s) ==
    encoded' = [encoded EXCEPT ![s] = EncodeBlock(BlockOf(s, size, optBlockSize))]

EncodeHere ==
    /\ pc = "serial"
    /\ i < Blocks
    /\ UNCHANGED pool
    /\ \/ /\ EncodeSlot(i)
          /\ i' = i + 1
          /\ UNCHANGED <<args, pc, assembled, out, outcome>>
       \/ Fail("encode")

EndSerial ==
    /\ pc = "serial"
    /\ i = Blocks
    /\ pc' = "assemble"
    /\ i' = 0
    /\ assembled' = <<Header("blocked", size)>>
    /\ UNCHANGED <<args, encoded, out, outcome, pool>>

TaskStarts(s) ==
    /\ pc = "encode"
    /\ Pool!Start(s)
    /\ UNCHANGED <<args, pc, i, encoded, assembled, out, outcome>>

TaskReturns(s) ==
    /\ pc = "encode"
    /\ Pool!End(s, "ok")
    /\ EncodeSlot(s)
    /\ UNCHANGED <<args, pc, i, assembled, out, outcome>>

TaskThrows(s) ==
    /\ pc = "encode"
    /\ Pool!End(s, "threw")
    /\ UNCHANGED <<args, pc, i, encoded, assembled, out, outcome>>

\* Mutant: the exception is not rethrown.
EndParallel_IgnoresError ==
    /\ pc = "encode"
    /\ Pool!Return
    /\ pc' = "assemble"
    /\ assembled' = <<Header("blocked", size)>>
    /\ UNCHANGED <<args, i, encoded, out, outcome>>

\* forEach returns, and the header starts the result; or it rethrows.
EndParallel ==
    /\ pc = "encode"
    /\ Pool!Return
    /\ IF result' = Pool!NoError
       THEN /\ pc' = "assemble"
            /\ assembled' = <<Header("blocked", size)>>
            /\ UNCHANGED <<args, i, encoded, out, outcome>>
       ELSE Fail("encode")

\* Mutant: the blocks are appended backwards.
AppendSlot_Backwards ==
    /\ pc = "assemble"
    /\ i < Blocks
    /\ assembled' = Append(assembled, Frame(BlockOf(i, size, optBlockSize).len,
                                           encoded[Blocks - 1 - i]))
    /\ i' = i + 1
    /\ UNCHANGED <<args, pc, encoded, out, outcome, pool>>

AppendSlot ==
    /\ pc = "assemble"
    /\ i < Blocks
    /\ assembled' = Append(assembled, Frame(BlockOf(i, size, optBlockSize).len, encoded[i]))
    /\ i' = i + 1
    /\ UNCHANGED <<args, pc, encoded, out, outcome, pool>>

ReturnBlocked ==
    /\ pc = "assemble"
    /\ i = Blocks
    /\ out' = assembled
    /\ outcome' = "ok"
    /\ pc' = "ended"
    /\ UNCHANGED <<args, i, encoded, assembled, pool>>

Ended ==
    /\ pc = "ended"
    /\ UNCHANGED vars

Step ==
    \/ CompressSingle
    \/ StartBlocked
    \/ EncodeHere
    \/ EndSerial
    \/ \E s \in Slots : TaskStarts(s) \/ TaskReturns(s) \/ TaskThrows(s)
    \/ EndParallel
    \/ AppendSlot
    \/ ReturnBlocked

Next == Step \/ Ended

Spec == Init /\ [][Next]_vars

------------------------------------------------------------------------------
\* Properties

(***************************************************************************)
(* compress returns the one container its input has for this block size,   *)
(* whatever the thread count and the order in which tasks end, or throws   *)
(* and returns nothing (codec.cpp:78-81, codec.h:35-38).                   *)
(***************************************************************************)
E == INSTANCE Encoding WITH
        target  <- Container(size, optBlockSize),
        outcome <- IF outcome \in Failures THEN "error" ELSE outcome

Contract == E!Spec

(***************************************************************************)
(* No slot is appended before it holds its own block (codec.cpp:82-106).   *)
(***************************************************************************)
SlotsFilled ==
    pc = "assemble" =>
        \A s \in Slots : s < Blocks =>
            encoded[s] = EncodeBlock(BlockOf(s, size, optBlockSize))

(***************************************************************************)
(* The variables have their types, and no slot is appended before it holds *)
(* its own block (codec.cpp:82-106).                                       *)
(***************************************************************************)
Inv == TypeOK /\ SlotsFilled
==============================================================================
