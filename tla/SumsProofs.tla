----------------------------- MODULE SumsProofs -----------------------------
(***************************************************************************)
(* The facts about SumUpTo that the proofs about wallets rest on: the      *)
(* recursive function exists, is unique, and a change of one summand moves *)
(* the sum by the same amount.  The induction is the least-number          *)
(* principle on sets of naturals.                                          *)
(***************************************************************************)
EXTENDS Sums, WellFoundedInduction, TLAPS

\* Every non-empty set of naturals has a least element.
LEMMA LeastNatural ==
    ASSUME NEW T, T \subseteq Nat, T # {}
    PROVE  \E m \in T : \A k \in T : m <= k
<1>1. \E R : /\ IsWellFoundedOn(R, Nat)
             /\ \A i, j \in Nat : i < j => <<i, j>> \in R
  <2>1. \A i, j \in Nat : i < j => <<i, j>> \in OpToRel(<, Nat)
    BY DEF OpToRel
  <2>2. QED
    BY <2>1, NatLessThanWellFounded
<1>2. PICK R : /\ IsWellFoundedOn(R, Nat)
               /\ \A i, j \in Nat : i < j => <<i, j>> \in R
  BY <1>1
<1>3. PICK m \in T : \A k \in T : ~ (<<k, m>> \in R)
  <2>1. IsWellFoundedOn(R, Nat)
    BY <1>2
  <2>2. \E x \in T : \A y \in T : ~ (<<y, x>> \in R)
    BY <2>1, WFMin, Zenon
  <2>3. QED
    BY <2>2
<1>4. \A k \in T : ~ (k < m)
  BY <1>2, <1>3
<1>5. QED
  BY <1>4, <1>3

-----------------------------------------------------------------------------

\* s is the function of the partial sums of f up to n.
IsSums(s, f, n) == s = [i \in 0 .. n |-> IF i = 0 THEN 0 ELSE s[i - 1] + f[i]]

\* Integer partial sums exist for every number of integer summands, by
\* induction on that number.
LEMMA SumsExist ==
    ASSUME NEW n \in Nat, NEW f, \A i \in 1 .. n : f[i] \in Int
    PROVE  \E s \in [0 .. n -> Int] : IsSums(s, f, n)
<1> DEFINE Good(k) == \E s \in [0 .. k -> Int] : IsSums(s, f, k)
           T == {k \in 0 .. n : ~ Good(k)}
<1> SUFFICES ASSUME T # {}
             PROVE  FALSE
  OBVIOUS
<1>1. PICK m \in T : \A k \in T : m <= k
  <2>1. T \subseteq Nat
    OBVIOUS
  <2> HIDE DEF T
  <2>2. QED
    BY <2>1, LeastNatural, Zenon
<1>2. m # 0
  <2>1. IsSums([i \in 0 .. 0 |-> 0], f, 0)
    BY DEF IsSums
  <2>2. [i \in 0 .. 0 |-> 0] \in [0 .. 0 -> Int]
    OBVIOUS
  <2>3. Good(0)
    BY <2>1, <2>2
  <2>4. QED
    BY <2>3
<1>3. m - 1 \in 0 .. n /\ Good(m - 1)
  BY <1>1, <1>2
<1>4. PICK s \in [0 .. m - 1 -> Int] : IsSums(s, f, m - 1)
  BY <1>3
<1> DEFINE t == [i \in 0 .. m |-> IF i = m THEN s[m - 1] + f[m] ELSE s[i]]
<1>5. IsSums(t, f, m)
  BY <1>2, <1>4 DEF IsSums
<1>6. t \in [0 .. m -> Int]
  BY <1>2, <1>4
<1>7. QED
  BY <1>5, <1>6

\* Two functions that are the partial sums of the same summands are equal.
LEMMA SumsUnique ==
    ASSUME NEW n \in Nat, NEW f, NEW s, NEW t,
           IsSums(s, f, n), IsSums(t, f, n)
    PROVE  s = t
<1> DEFINE T == {k \in 0 .. n : s[k] # t[k]}
<1>1. ASSUME T # {}
      PROVE  FALSE
  <2>1. PICK m \in T : \A k \in T : m <= k
    <3>1. T \subseteq Nat
      OBVIOUS
    <3> HIDE DEF T
    <3>2. QED
      BY <1>1, <3>1, LeastNatural, Zenon
  <2>2. m # 0
    BY DEF IsSums
  <2>3. m - 1 \in 0 .. n /\ s[m - 1] = t[m - 1]
    BY <2>1, <2>2
  <2>4. QED
    BY <2>2, <2>3 DEF IsSums
<1>2. \A k \in 0 .. n : s[k] = t[k]
  BY <1>1
<1>3. /\ s = [k \in 0 .. n |-> s[k]]
      /\ t = [k \in 0 .. n |-> t[k]]
  BY DEF IsSums
<1>4. QED
  BY <1>2, <1>3

\* The recursive definition defines the partial sums, and they are integers.
LEMMA PartialSumsDef ==
    ASSUME NEW n \in Nat, NEW f, \A i \in 1 .. n : f[i] \in Int
    PROVE  /\ IsSums(PartialSums(f, n), f, n)
           /\ PartialSums(f, n) \in [0 .. n -> Int]
<1>1. PICK s \in [0 .. n -> Int] : IsSums(s, f, n)
  BY SumsExist
<1>2. PartialSums(f, n) = CHOOSE t : IsSums(t, f, n)
  BY DEF PartialSums, IsSums
<1>3. IsSums(PartialSums(f, n), f, n)
  BY <1>1, <1>2
<1>4. PartialSums(f, n) = s
  BY <1>1, <1>3, SumsUnique
<1>5. QED
  BY <1>3, <1>4

-----------------------------------------------------------------------------

\* Changing one summand moves the sum by as much.
THEOREM SumUpToChange ==
    ASSUME NEW n \in Nat, NEW f, NEW g, NEW k \in 1 .. n,
           \A i \in 1 .. n : f[i] \in Int /\ g[i] \in Int,
           \A i \in 1 .. n : i # k => g[i] = f[i]
    PROVE  SumUpTo(g, n) = SumUpTo(f, n) + g[k] - f[k]
<1> DEFINE s == PartialSums(f, n)
           t == [i \in 0 .. n |-> IF i < k THEN s[i] ELSE s[i] + g[k] - f[k]]
<1>1. IsSums(s, f, n) /\ s \in [0 .. n -> Int]
  BY PartialSumsDef
<1>2. IsSums(t, g, n)
  <2>1. ASSUME NEW i \in 0 .. n
        PROVE  t[i] = IF i = 0 THEN 0 ELSE t[i - 1] + g[i]
    <3> HIDE DEF s
    <3>1. s[i] = IF i = 0 THEN 0 ELSE s[i - 1] + f[i]
      BY <1>1 DEF IsSums
    <3>2. CASE i = 0
      BY <3>1, <3>2
    <3>3. CASE i # 0
      <4>1. i \in 1 .. n /\ i - 1 \in 0 .. n /\ s[i - 1] \in Int /\ s[i] \in Int
        BY <1>1, <3>3
      <4>2. CASE i < k
        BY <3>1, <3>3, <4>1, <4>2
      <4>3. CASE i = k
        BY <3>1, <3>3, <4>1, <4>3
      <4>4. CASE i > k
        BY <3>1, <3>3, <4>1, <4>4
      <4>5. QED
        BY <4>2, <4>3, <4>4
    <3>4. QED
      BY <3>2, <3>3
  <2> HIDE DEF s
  <2>2. QED
    BY <2>1 DEF IsSums
<1>3. PartialSums(g, n) = t
  <2>1. IsSums(PartialSums(g, n), g, n)
    BY PartialSumsDef
  <2> HIDE DEF t
  <2>2. QED
    BY <1>2, <2>1, SumsUnique
<1>4. QED
  <2> HIDE DEF s
  <2>1. s[n] \in Int
    BY <1>1
  <2>2. t[n] = s[n] + g[k] - f[k]
    BY <2>1
  <2>3. QED
    BY <1>3, <2>2 DEF SumUpTo, s

\* The sum depends on the summands only.
THEOREM SumUpToSame ==
    ASSUME NEW n \in Nat, NEW f, NEW g,
           \A i \in 1 .. n : f[i] \in Int /\ g[i] = f[i]
    PROVE  SumUpTo(g, n) = SumUpTo(f, n)
<1>1. IsSums(PartialSums(f, n), f, n) /\ IsSums(PartialSums(g, n), g, n)
  BY PartialSumsDef
<1> DEFINE t == PartialSums(g, n)
<1>2. IsSums(t, f, n)
  <2> HIDE DEF t
  <2>1. t = [i \in 0 .. n |-> IF i = 0 THEN 0 ELSE t[i - 1] + g[i]]
    BY <1>1 DEF IsSums, t
  <2>2. \A i \in 0 .. n : i # 0 => g[i] = f[i]
    OBVIOUS
  <2>3. [i \in 0 .. n |-> IF i = 0 THEN 0 ELSE t[i - 1] + g[i]]
          = [i \in 0 .. n |-> IF i = 0 THEN 0 ELSE t[i - 1] + f[i]]
    BY <2>2
  <2>4. QED
    BY <2>1, <2>3 DEF IsSums
<1>3. QED
  BY <1>1, <1>2, SumsUnique DEF SumUpTo

\* A sum of zeros is zero.
THEOREM SumUpToZero ==
    ASSUME NEW n \in Nat, NEW f, \A i \in 1 .. n : f[i] = 0
    PROVE  SumUpTo(f, n) = 0
<1>1. IsSums([i \in 0 .. n |-> 0], f, n)
  BY DEF IsSums
<1>2. PartialSums(f, n) = [i \in 0 .. n |-> 0]
  BY <1>1, PartialSumsDef, SumsUnique
<1>3. QED
  BY <1>2 DEF SumUpTo

\* A sum of naturals is a natural, by induction on the number of summands.
LEMMA SumUpToNat ==
    ASSUME NEW n \in Nat, NEW f, \A i \in 1 .. n : f[i] \in Nat
    PROVE  SumUpTo(f, n) \in Nat
<1> DEFINE s == PartialSums(f, n)
           T == {k \in 0 .. n : s[k] < 0}
<1>1. IsSums(s, f, n) /\ s \in [0 .. n -> Int]
  BY PartialSumsDef
<1> HIDE DEF s
<1>2. ASSUME T # {}
      PROVE  FALSE
  <2>1. PICK m \in T : \A k \in T : m <= k
    <3>1. T \subseteq Nat
      OBVIOUS
    <3> HIDE DEF T
    <3>2. QED
      BY <1>2, <3>1, LeastNatural, Zenon
  <2>2. m # 0
    BY <1>1 DEF IsSums
  <2>3. m \in 1 .. n /\ m - 1 \in 0 .. n /\ s[m - 1] \in Int /\ ~ (s[m - 1] < 0)
    BY <1>1, <2>1, <2>2
  <2>4. s[m] = s[m - 1] + f[m]
    BY <1>1, <2>2, <2>3 DEF IsSums
  <2>5. QED
    BY <2>3, <2>4
<1>3. s[n] \in Int /\ ~ (s[n] < 0)
  BY <1>1, <1>2
<1>4. QED
  BY <1>3 DEF SumUpTo, s

\* No summand exceeds a sum of naturals.
THEOREM SumUpToBounds ==
    ASSUME NEW n \in Nat, NEW f, \A i \in 1 .. n : f[i] \in Nat
    PROVE  /\ SumUpTo(f, n) \in Nat
           /\ \A k \in 1 .. n : f[k] <= SumUpTo(f, n)
<1>1. ASSUME NEW k \in 1 .. n
      PROVE  f[k] <= SumUpTo(f, n)
  <2> DEFINE g == [i \in 1 .. n |-> IF i = k THEN 0 ELSE f[i]]
  <2>1. SumUpTo(g, n) \in Nat
    BY SumUpToNat
  <2>2. SumUpTo(f, n) \in Nat
    BY SumUpToNat
  <2>3. SumUpTo(g, n) = SumUpTo(f, n) + g[k] - f[k]
    <3>1. \A i \in 1 .. n : f[i] \in Int /\ g[i] \in Int
      OBVIOUS
    <3>2. \A i \in 1 .. n : i # k => g[i] = f[i]
      OBVIOUS
    <3> HIDE DEF g
    <3>3. QED
      BY <3>1, <3>2, SumUpToChange
  <2>4. f[k] \in Nat /\ g[k] = 0
    OBVIOUS
  <2> HIDE DEF g
  <2>5. QED
    BY <2>1, <2>2, <2>3, <2>4
<1>2. QED
  BY <1>1, SumUpToNat

-----------------------------------------------------------------------------

\* One more summand.
THEOREM SumUpToNext ==
    ASSUME NEW n \in Nat, NEW f, \A i \in 1 .. n + 1 : f[i] \in Int
    PROVE  SumUpTo(f, n + 1) = SumUpTo(f, n) + f[n + 1]
<1> DEFINE s == PartialSums(f, n + 1)
           t == [i \in 0 .. n |-> s[i]]
<1>1. IsSums(s, f, n + 1) /\ IsSums(PartialSums(f, n), f, n)
  BY PartialSumsDef
<1> HIDE DEF s
<1>2. IsSums(t, f, n)
  <2>1. ASSUME NEW i \in 0 .. n
        PROVE  t[i] = IF i = 0 THEN 0 ELSE t[i - 1] + f[i]
    BY <1>1 DEF IsSums
  <2> QED
    BY <2>1 DEF IsSums
<1>3. PartialSums(f, n) = t
  <2> HIDE DEF t
  <2> QED
    BY <1>1, <1>2, SumsUnique
<1>4. s[n + 1] = s[n] + f[n + 1]
  BY <1>1 DEF IsSums
<1>5. QED
  BY <1>3, <1>4 DEF SumUpTo, s

\* The sum of two rows of summands.
THEOREM SumUpToAdd ==
    ASSUME NEW n \in Nat, NEW f, NEW g, NEW h,
           \A i \in 1 .. n : f[i] \in Int /\ g[i] \in Int /\ h[i] = f[i] + g[i]
    PROVE  SumUpTo(h, n) = SumUpTo(f, n) + SumUpTo(g, n)
<1> DEFINE r == PartialSums(f, n)
           s == PartialSums(g, n)
           t == [i \in 0 .. n |-> r[i] + s[i]]
<1>1. /\ IsSums(r, f, n) /\ r \in [0 .. n -> Int]
      /\ IsSums(s, g, n) /\ s \in [0 .. n -> Int]
      /\ IsSums(PartialSums(h, n), h, n)
  BY PartialSumsDef
<1> HIDE DEF r, s
<1>2. IsSums(t, h, n)
  <2>1. ASSUME NEW i \in 0 .. n
        PROVE  t[i] = IF i = 0 THEN 0 ELSE t[i - 1] + h[i]
    <3>1. /\ r[i] = IF i = 0 THEN 0 ELSE r[i - 1] + f[i]
          /\ s[i] = IF i = 0 THEN 0 ELSE s[i - 1] + g[i]
      BY <1>1 DEF IsSums
    <3>2. CASE i = 0
      BY <3>1, <3>2
    <3>3. CASE i # 0
      <4>1. /\ i - 1 \in 0 .. n /\ r[i - 1] \in Int /\ s[i - 1] \in Int
            /\ f[i] \in Int /\ g[i] \in Int /\ h[i] = f[i] + g[i]
        BY <1>1, <3>3
      <4> QED
        BY <3>1, <3>3, <4>1
    <3> QED
      BY <3>2, <3>3
  <2> QED
    BY <2>1 DEF IsSums
<1>3. PartialSums(h, n) = t
  <2> HIDE DEF t
  <2> QED
    BY <1>1, <1>2, SumsUnique
<1>4. QED
  BY <1>3 DEF SumUpTo, r, s

\* Larger summands, larger sum.
THEOREM SumUpToGrows ==
    ASSUME NEW n \in Nat, NEW f, NEW g,
           \A i \in 1 .. n : f[i] \in Nat /\ g[i] \in Nat /\ f[i] <= g[i]
    PROVE  SumUpTo(f, n) <= SumUpTo(g, n)
<1> DEFINE d == [i \in 1 .. n |-> g[i] - f[i]]
<1>1. \A i \in 1 .. n : d[i] \in Nat /\ f[i] \in Int /\ d[i] \in Int /\ g[i] = f[i] + d[i]
  OBVIOUS
<1> HIDE DEF d
<1>2. SumUpTo(g, n) = SumUpTo(f, n) + SumUpTo(d, n)
  BY <1>1, SumUpToAdd
<1>3. SumUpTo(d, n) \in Nat /\ SumUpTo(f, n) \in Nat
  BY <1>1, SumUpToNat
<1>4. QED
  BY <1>2, <1>3
=============================================================================
