------------------------------- MODULE MCEncoders -------------------------------
(***************************************************************************)
(* compressStream and compress on the same inputs and options, one or the  *)
(* other in a behaviour, each on a machine of its own.  The variables they *)
(* both have are shared.                                                   *)
(***************************************************************************)
EXTENDS StreamEncoder

CONSTANT MemoryHardware     \* hardware_concurrency() where compress runs

ASSUME MemoryHardwareAssumption == MemoryHardware \in Nat

VARIABLES
    which,          \* the encoder called
    assembled       \* of compress

allVars == <<vars, which, assembled>>

Memory == INSTANCE MemoryEncoder WITH size <- total, Hardware <- MemoryHardware

MCInit ==
    \/ /\ which = "stream"
       /\ Init
       /\ assembled = << >>
    \/ /\ which = "memory"
       /\ Memory!Init
       /\ have = total /\ at = 0 /\ done = 0 /\ inputs = << >>

StreamNext == which = "stream" /\ Step /\ UNCHANGED <<which, assembled>>
MemoryNext == which = "memory" /\ Memory!Step /\ UNCHANGED <<which, have, at, done, inputs>>

AllEnded ==
    /\ pc = "ended"
    /\ UNCHANGED allVars

MCNext == StreamNext \/ MemoryNext \/ AllEnded

MCSpec == MCInit /\ [][MCNext]_allVars

------------------------------------------------------------------------------
\* Properties

(***************************************************************************)
(* StreamEncoder!Inv and MemoryEncoder!Inv: no slot is written or appended *)
(* before it holds the block that belongs there (codec.cpp:82-106,         *)
(* 216-247).                                                               *)
(***************************************************************************)
SlotsRight ==
    /\ which = "stream" => Inv
    /\ which = "memory" => Memory!Inv

(***************************************************************************)
(* StreamEncoder!Contract and MemoryEncoder!Contract: both put out the one *)
(* container of their input and its block size, whatever the threads do    *)
(* and whatever fails (codec.h:35-44).                                     *)
(***************************************************************************)
Both == INSTANCE Encoding WITH
            target  <- Container(total, IF which = "stream" THEN BlockSize ELSE optBlockSize),
            outcome <- IF outcome \in Failures THEN "error" ELSE outcome

OneContainer == Both!Spec
==============================================================================
