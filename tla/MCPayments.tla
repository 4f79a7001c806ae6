----------------------------- MODULE MCPayments -----------------------------
(* Instances of Payments for TLC; the workers are interchangeable. *)
EXTENDS Payments, TLC

\* 6 cannot be converted at the old rate.
MCAmounts == {1, 2, 6}
Symmetry == Permutations(Workers)
=============================================================================
