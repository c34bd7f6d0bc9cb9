------------------------------- MODULE Summing -------------------------------
(***************************************************************************)
(* What the samples of a sensor add up to.  (A recursive function and not  *)
(* a fold, so that something can be proved of it.)                         *)
(***************************************************************************)
EXTENDS Integers, Sequences

\* The sum of the elements of a sequence of numbers.
SumOf(s) ==
    LET sum[n \in 0 .. Len(s)] == IF n = 0 THEN 0 ELSE sum[n - 1] + s[n]
    IN  sum[Len(s)]
=============================================================================
