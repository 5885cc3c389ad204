------------------------------ MODULE SumOfSeq ------------------------------
(* The sum of a sequence of numbers, which the budget of a session and the   *)
(* scores of a grade are made of (Python's sum, SQL's SUM).                  *)
EXTENDS Integers, Sequences, SequencesExt

SumOf(s) == FoldLeft(+, 0, s)
=============================================================================
