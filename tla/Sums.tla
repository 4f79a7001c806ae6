-------------------------------- MODULE Sums --------------------------------
(***************************************************************************)
(* Sums of money over rows numbered 1..n: what a SQL sum() over the rows   *)
(* of one user returns.  A recursive function, so that it can be proved    *)
(* about (see SumsProofs).                                                 *)
(***************************************************************************)
EXTENDS Integers

\* The function whose value at i is f[1] + ... + f[i].
PartialSums(f, n) ==
    LET s[i \in 0 .. n] == IF i = 0 THEN 0 ELSE s[i - 1] + f[i]
    IN  s

\* f[1] + ... + f[n].
SumUpTo(f, n) == PartialSums(f, n)[n]
=============================================================================
