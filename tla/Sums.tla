---------------------------------- MODULE Sums ----------------------------------
(***************************************************************************)
(* What a loop that adds up the first n terms of a list has when it ends.  *)
(***************************************************************************)
EXTENDS Integers

SumUpTo(term, n) ==
    LET sum[k \in 0 .. n] == IF k = 0 THEN 0 ELSE sum[k - 1] + term[k]
    IN  sum[n]
==============================================================================
