------------------------------- MODULE Encoding -------------------------------
(***************************************************************************)
(* What an encoder promises, whatever threads it uses and whatever fails:  *)
(* what it has put out is always a beginning of the one container its      *)
(* input has, and when it reports success it has put out all of it         *)
(* (codec.h:35-38: the thread count never changes the bytes produced).     *)
(***************************************************************************)
EXTENDS Integers, Sequences

VARIABLES
    target,     \* the container, a sequence of pieces: it does not change
    out,        \* the pieces put out so far
    outcome     \* "running", "ok" or "error"

vars == <<target, out, outcome>>

Init ==
    /\ out = << >>
    /\ outcome = "running"

Extend ==
    /\ outcome = "running"
    /\ \E n \in Len(out) + 1 .. Len(target) : out' = SubSeq(target, 1, n)
    /\ UNCHANGED <<target, outcome>>

Succeed ==
    /\ outcome = "running"
    /\ outcome' = "ok"
    /\ out' = target
    /\ UNCHANGED target

\* What was put out before the error stays out.
Fail ==
    /\ outcome = "running"
    /\ outcome' = "error"
    /\ UNCHANGED <<target, out>>

Next == Extend \/ Succeed \/ Fail

Spec == Init /\ [][Next]_vars
==============================================================================
