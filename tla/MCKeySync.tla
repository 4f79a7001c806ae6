----------------------------- MODULE MCKeySync -----------------------------
(* Instances of KeySync for TLC; the handlers are interchangeable. *)
EXTENDS KeySync, TLC

Symmetry == Permutations(Handlers)
=============================================================================
