---------------------------- MODULE EncoderOptions ----------------------------
(***************************************************************************)
(* What the two encoders of src/src/codec.cpp are given: an input and the  *)
(* part of Options they read, within bounds.                               *)
(***************************************************************************)
EXTENDS Framing

CONSTANTS
    MaxTotal,           \* bound: the largest input
    MaxBlockSize,       \* bound: the largest Options::blockSize
    MaxThreads,         \* bound: the largest Options::threads
    DefaultBlockSize,   \* kDefaultBlockSize
    Hardware            \* what std::thread::hardware_concurrency() returns

ASSUME EncoderAssumption ==
    /\ U32 \in Nat \ {0}
    /\ MaxTotal \in Nat \ {0}
    /\ MaxBlockSize \in Nat
    /\ MaxThreads \in Nat
    /\ DefaultBlockSize \in Nat \ {0}
    /\ Hardware \in Nat

Failures == {"read", "write", "encode", "pool"}
==============================================================================
