-------------------------------- MODULE Sums ---------------------------------
(***************************************************************************)
(* Sums over sequences of natural numbers: sizes of messages, and counts.  *)
(***************************************************************************)
EXTENDS Integers, Sequences

\* The sums of the prefixes of a sequence, by their lengths.
RunningSums(w) ==
  LET upto[n \in 0..Len(w)] == IF n = 0 THEN 0 ELSE upto[n - 1] + w[n]
  IN  upto

SumOf(w) == RunningSums(w)[Len(w)]

=============================================================================
