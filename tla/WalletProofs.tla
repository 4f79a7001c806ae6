---------------------------- MODULE WalletProofs ----------------------------
(***************************************************************************)
(* Wallet's invariants for every number of requests and every amount, and  *)
(* that it implements Escrow.  WalletSound, and with it WalletInv, is      *)
(* inductive; the helper lemmas say what one transaction does to one       *)
(* wallet row, the step lemmas go through the actions.                     *)
(***************************************************************************)
EXTENDS Wallet, SumsProofs

\* A wallet row that is well typed and meets the table's CHECKs, and whose
\* promotional columns agree with the grants.
RowOK(w) ==
    /\ w \in [balance : Nat, held : Nat, promo : Nat,
              expiry : Grants \cup {NoExpiry}, remaining : [Grants -> Nat]]
    /\ w.held <= w.balance
    /\ w.promo <= w.balance
    /\ GrantSum(w.remaining) <= w.promo
    /\ w.expiry = EarliestActive(w.remaining)

\* What the promotional column has beyond the grants.  No transaction changes
\* it; the floors of a repricing may (see CoreProofs).
Short(w) == w.promo - GrantSum(w.remaining)

-----------------------------------------------------------------------------
(* Grants. *)

LEMMA GrantPair ==
    /\ EarlierGrant \in Grants
    /\ LaterGrant \in Grants
    /\ LaterGrant # EarlierGrant
    /\ \A g \in Grants : g = EarlierGrant \/ g = LaterGrant
<1>1. EarlierGrant \in Grants
  BY WalletAssumption
<1>2. \E g \in Grants : g # EarlierGrant
  BY DEF Grants
<1>3. LaterGrant \in Grants /\ LaterGrant # EarlierGrant
  BY <1>2 DEF LaterGrant
<1>4. QED
  BY <1>1, <1>3 DEF Grants

LEMMA GrantSumByExpiry ==
    ASSUME NEW rem \in [Grants -> Nat]
    PROVE  GrantSum(rem) = rem[EarlierGrant] + rem[LaterGrant]
BY GrantPair DEF GrantSum, Grants

LEMMA EarliestActiveType ==
    ASSUME NEW rem \in [Grants -> Nat]
    PROVE  EarliestActive(rem) \in Grants \cup {NoExpiry}
BY GrantPair DEF EarliestActive

\* Consuming up to what the eligible grants hold takes exactly that much and
\* leaves no grant negative.
LEMMA ConsumeFromAll ==
    ASSUME NEW rem \in [Grants -> Nat], NEW amt \in Nat, amt <= GrantSum(rem)
    PROVE  /\ ConsumeGrants(rem, amt, Grants) \in [Grants -> Nat]
           /\ GrantSum(ConsumeGrants(rem, amt, Grants)) = GrantSum(rem) - amt
           /\ \A g \in Grants : ConsumeGrants(rem, amt, Grants)[g] <= rem[g]
<1> DEFINE new == ConsumeGrants(rem, amt, Grants)
<1>1. rem[EarlierGrant] \in Nat /\ rem[LaterGrant] \in Nat
  BY GrantPair
<1>2. amt <= rem[EarlierGrant] + rem[LaterGrant]
  BY GrantSumByExpiry
<1>3. /\ new = [g \in Grants |-> new[g]]
      /\ new[EarlierGrant] = rem[EarlierGrant] - Least(amt, rem[EarlierGrant])
      /\ new[LaterGrant] = rem[LaterGrant]
                             - Least(amt - Least(amt, rem[EarlierGrant]), rem[LaterGrant])
  BY GrantPair DEF ConsumeGrants
<1> HIDE DEF new
<1>4. /\ new[EarlierGrant] \in Nat
      /\ new[LaterGrant] \in Nat
      /\ new[EarlierGrant] + new[LaterGrant] = rem[EarlierGrant] + rem[LaterGrant] - amt
      /\ new[EarlierGrant] <= rem[EarlierGrant]
      /\ new[LaterGrant] <= rem[LaterGrant]
  BY <1>1, <1>2, <1>3 DEF Least
<1>5. new \in [Grants -> Nat]
  BY <1>3, <1>4, GrantPair
<1>6. GrantSum(new) = GrantSum(rem) - amt
  <2>1. GrantSum(new) = new[EarlierGrant] + new[LaterGrant]
    BY <1>5, GrantSumByExpiry
  <2>2. GrantSum(rem) = rem[EarlierGrant] + rem[LaterGrant]
    BY GrantSumByExpiry
  <2>3. QED
    BY <1>1, <1>4, <2>1, <2>2
<1>7. \A g \in Grants : new[g] <= rem[g]
  BY <1>4, GrantPair
<1>8. QED
  BY <1>5, <1>6, <1>7 DEF new

LEMMA LapsedSumByExpiry ==
    ASSUME NEW rem \in [Grants -> Nat]
    PROVE  LapsedSum(rem) = (IF EarlierGrant \in lapsed THEN rem[EarlierGrant] ELSE 0)
                              + (IF LaterGrant \in lapsed THEN rem[LaterGrant] ELSE 0)
<1>1. CASE EarlierGrant = "trial"
  <2>1. LaterGrant = "bonus"
    BY <1>1, GrantPair DEF Grants
  <2>2. QED
    BY <1>1, <2>1 DEF LapsedSum
<1>2. CASE EarlierGrant = "bonus"
  <2>1. LaterGrant = "trial"
    BY <1>2, GrantPair DEF Grants
  <2>2. rem["trial"] \in Nat /\ rem["bonus"] \in Nat
    BY DEF Grants
  <2>3. QED
    BY <1>2, <2>1, <2>2 DEF LapsedSum
<1>3. QED
  BY <1>1, <1>2, GrantPair DEF Grants

LEMMA ConsumeFromLapsed ==
    ASSUME NEW rem \in [Grants -> Nat], NEW amt \in Nat, amt <= LapsedSum(rem)
    PROVE  /\ ConsumeGrants(rem, amt, lapsed) \in [Grants -> Nat]
           /\ GrantSum(ConsumeGrants(rem, amt, lapsed)) = GrantSum(rem) - amt
           /\ LapsedSum(ConsumeGrants(rem, amt, lapsed)) = LapsedSum(rem) - amt
           /\ \A g \in Grants : ConsumeGrants(rem, amt, lapsed)[g] <= rem[g]
<1> DEFINE new == ConsumeGrants(rem, amt, lapsed)
           early == IF EarlierGrant \in lapsed THEN rem[EarlierGrant] ELSE 0
           late == IF LaterGrant \in lapsed THEN rem[LaterGrant] ELSE 0
           first == IF EarlierGrant \in lapsed THEN Least(amt, rem[EarlierGrant]) ELSE 0
           second == IF LaterGrant \in lapsed THEN Least(amt - first, rem[LaterGrant]) ELSE 0
<1>1. rem[EarlierGrant] \in Nat /\ rem[LaterGrant] \in Nat
  BY GrantPair
<1>2. LapsedSum(rem) = early + late
  BY LapsedSumByExpiry
<1>3. /\ new = [g \in Grants |-> new[g]]
      /\ new[EarlierGrant] = rem[EarlierGrant] - first
      /\ new[LaterGrant] = rem[LaterGrant] - second
  BY GrantPair DEF ConsumeGrants
<1> HIDE DEF new
<1>4. /\ new[EarlierGrant] \in Nat
      /\ new[LaterGrant] \in Nat
      /\ new[EarlierGrant] + new[LaterGrant] = rem[EarlierGrant] + rem[LaterGrant] - amt
      /\ new[EarlierGrant] <= rem[EarlierGrant]
      /\ new[LaterGrant] <= rem[LaterGrant]
      /\ (IF EarlierGrant \in lapsed THEN new[EarlierGrant] ELSE 0)
           + (IF LaterGrant \in lapsed THEN new[LaterGrant] ELSE 0) = early + late - amt
  BY <1>1, <1>2, <1>3 DEF Least
<1>5. new \in [Grants -> Nat]
  BY <1>3, <1>4, GrantPair
<1>6. GrantSum(new) = GrantSum(rem) - amt
  <2>1. GrantSum(new) = new[EarlierGrant] + new[LaterGrant]
    BY <1>5, GrantSumByExpiry
  <2>2. GrantSum(rem) = rem[EarlierGrant] + rem[LaterGrant]
    BY GrantSumByExpiry
  <2>3. QED
    BY <1>1, <1>4, <2>1, <2>2
<1>7. \A g \in Grants : new[g] <= rem[g]
  BY <1>4, GrantPair
<1>8. LapsedSum(new) = LapsedSum(rem) - amt
  <2>1. LapsedSum(new) = (IF EarlierGrant \in lapsed THEN new[EarlierGrant] ELSE 0)
                           + (IF LaterGrant \in lapsed THEN new[LaterGrant] ELSE 0)
    BY <1>5, LapsedSumByExpiry
  <2>2. QED
    BY <1>1, <1>2, <1>4, <2>1
<1>9. QED
  BY <1>5, <1>6, <1>7, <1>8 DEF new

\* However much is asked for, no grant is left negative.
LEMMA ConsumeLeavesNat ==
    ASSUME NEW rem \in [Grants -> Nat], NEW amt \in Nat
    PROVE  ConsumeGrants(rem, amt, Grants) \in [Grants -> Nat]
<1>1. rem[EarlierGrant] \in Nat /\ rem[LaterGrant] \in Nat
  BY GrantPair
<1>2. \A g \in Grants : ConsumeGrants(rem, amt, Grants)[g] \in Nat
  BY <1>1, GrantPair DEF ConsumeGrants, Least
<1>3. QED
  BY <1>2 DEF ConsumeGrants

-----------------------------------------------------------------------------
(* What a transaction does to the wallet row. *)

LEMMA RemovableBounds ==
    ASSUME NEW w, RowOK(w)
    PROVE  /\ Removable(w) \in Nat
           /\ Removable(w) <= w.promo
           /\ Removable(w) <= w.balance - w.held
           /\ Removable(w) <= LapsedSum(w.remaining)
<1>1. LapsedSum(w.remaining) \in Nat
  BY DEF RowOK, LapsedSum, Grants
<1>2. QED
  BY <1>1 DEF RowOK, Removable, Least, Greatest

\* expirePromotionalWalletTx keeps a row sound: it takes the same amount from
\* the balance, the promotional column and the grants.
LEMMA ExpireRow ==
    ASSUME NEW w, RowOK(w)
    PROVE  /\ RowOK(Expire(w))
           /\ Expire(w).balance = w.balance - Removable(w)
           /\ Expire(w).held = w.held
           /\ Expire(w).promo = w.promo - Removable(w)
           /\ Short(Expire(w)) = Short(w)
           /\ \A g \in Grants : Expire(w).remaining[g] <= w.remaining[g]
<1> DEFINE k == Removable(w)
           rem == ConsumeGrants(w.remaining, k, lapsed)
<1>1. /\ k \in Nat
      /\ k <= w.promo
      /\ k <= w.balance - w.held
      /\ k <= LapsedSum(w.remaining)
  BY RemovableBounds
<1>2. CASE k = 0
  <2>1. Expire(w) = w
    BY <1>2 DEF Expire
  <2>2. w.balance = w.balance - k /\ w.promo = w.promo - k /\ \A g \in Grants : w.remaining[g] <= w.remaining[g]
    BY <1>2 DEF RowOK
  <2>3. QED
    BY <2>1, <2>2
<1>3. CASE k # 0
  <2>1. w.remaining \in [Grants -> Nat]
    BY DEF RowOK
  <2>2. /\ rem \in [Grants -> Nat]
        /\ GrantSum(rem) = GrantSum(w.remaining) - k
        /\ \A g \in Grants : rem[g] <= w.remaining[g]
    BY <1>1, <2>1, ConsumeFromLapsed
  <2>3. EarliestActive(rem) \in Grants \cup {NoExpiry}
    BY <2>2, EarliestActiveType
  <2>4. Expire(w) = [w EXCEPT !.balance = @ - k, !.promo = @ - k,
                              !.remaining = rem, !.expiry = EarliestActive(rem)]
    BY <1>3 DEF Expire
  <2> DEFINE e == Expire(w)
             p == EarliestActive(rem)
  <2>5. /\ w \in [balance : Nat, held : Nat, promo : Nat,
                   expiry : Grants \cup {NoExpiry}, remaining : [Grants -> Nat]]
        /\ w.held <= w.balance
        /\ w.promo <= w.balance
        /\ GrantSum(w.remaining) \in Nat
        /\ GrantSum(w.remaining) <= w.promo
    BY DEF RowOK, GrantSum, Grants
  <2> HIDE DEF k, rem, e, p
  <2>6. /\ e = [balance |-> w.balance - k, held |-> w.held, promo |-> w.promo - k,
                expiry |-> p, remaining |-> rem]
    BY <2>4, <2>5 DEF e, p
  <2>7. /\ w.balance - k \in Nat
        /\ w.promo - k \in Nat
        /\ w.held <= w.balance - k
        /\ w.promo - k <= w.balance - k
    BY <1>1, <2>5
  <2>8. /\ e \in [balance : Nat, held : Nat, promo : Nat,
                   expiry : Grants \cup {NoExpiry}, remaining : [Grants -> Nat]]
    BY <2>2, <2>3, <2>5, <2>6, <2>7 DEF p
  <2>9. /\ e.promo - GrantSum(e.remaining) = w.promo - GrantSum(w.remaining)
        /\ GrantSum(e.remaining) <= e.promo
        /\ e.expiry = EarliestActive(e.remaining)
    BY <1>1, <2>2, <2>5, <2>6 DEF p
  <2>10. RowOK(e)
    BY <2>6, <2>7, <2>8, <2>9 DEF RowOK
  <2>11. QED
    BY <2>2, <2>6, <2>9, <2>10 DEF e, k, Short
<1>4. QED
  BY <1>2, <1>3

-----------------------------------------------------------------------------
(* The inductive invariant. *)

\* Grants lapse in the order of their expiries.
LapsedInOrder == LaterGrant \in lapsed => EarlierGrant \in lapsed

\* The grants hold no more than the column says, which is enough for all but
\* the settlement of what was reserved.
GrantsWithinPromo ==
    /\ GrantSum(wallet.remaining) <= wallet.promo
    /\ wallet.expiry = EarliestActive(wallet.remaining)
    /\ wallet.remaining["trial"] > 0 => trialRow

WalletSound ==
    /\ TypeOK
    /\ HeldIsSumOfOpenHolds
    /\ WithinBalance
    /\ GrantsWithinPromo
    /\ BooksBalance
    /\ LapsedInOrder

WalletInv ==
    /\ TypeOK
    /\ HeldIsSumOfOpenHolds
    /\ WithinBalance
    /\ GrantsBackPromo
    /\ BooksBalance
    /\ LapsedInOrder

LEMMA SoundRow == WalletSound => RowOK(wallet)
BY DEF WalletSound, TypeOK, WithinBalance, GrantsWithinPromo, RowOK

\* What each operation shall do.
KeepsSound == WalletSound' /\ Short(wallet') = Short(wallet)

\* A sound wallet whose grants are not short is one of WalletInv.
LEMMA InvIsSound == WalletInv <=> WalletSound /\ Short(wallet) = 0
<1>1. TypeOK => GrantSum(wallet.remaining) \in Int /\ wallet.promo \in Int
  BY DEF TypeOK, GrantSum, Grants
<1>2. QED
  BY <1>1 DEF WalletInv, WalletSound, GrantsWithinPromo, GrantsBackPromo, Short

LEMMA InvRow == WalletInv => RowOK(wallet)
BY InvIsSound, SoundRow

\* The holds' sum follows a change of one request's hold.
LEMMA HeldChange ==
    ASSUME TypeOK, TypeOK', NEW r \in Requests,
           \A q \in Requests : q # r => hold'[q] = hold[q] /\ amount'[q] = amount[q]
    PROVE  /\ SumUpTo(HeldBy', NumRequests)
                = SumUpTo(HeldBy, NumRequests) + HeldBy'[r] - HeldBy[r]
           /\ HeldBy[r] \in Nat
           /\ HeldBy[r] <= SumUpTo(HeldBy, NumRequests)
           /\ SumUpTo(HeldBy, NumRequests) \in Nat
<1>1. /\ HeldBy \in [Requests -> Nat]
      /\ HeldBy' \in [Requests -> Nat]
  BY DEF HeldBy, TypeOK
<1>2. \A q \in Requests : q # r => HeldBy'[q] = HeldBy[q]
  BY DEF HeldBy
<1>3. NumRequests \in Nat /\ Requests = 1 .. NumRequests
  BY WalletAssumption DEF Requests
<1> DEFINE f == HeldBy
           g == HeldBy'
<1>4. /\ f \in [1 .. NumRequests -> Nat]
      /\ g \in [1 .. NumRequests -> Nat]
      /\ \A q \in 1 .. NumRequests : q # r => g[q] = f[q]
      /\ r \in 1 .. NumRequests
  BY <1>1, <1>2, <1>3
<1> HIDE DEF f, g
<1>5. SumUpTo(g, NumRequests) = SumUpTo(f, NumRequests) + g[r] - f[r]
  <2>1. \A i \in 1 .. NumRequests : f[i] \in Int /\ g[i] \in Int
    BY <1>4
  <2>2. QED
    BY <1>3, <1>4, <2>1, SumUpToChange
<1>6. SumUpTo(f, NumRequests) \in Nat /\ f[r] <= SumUpTo(f, NumRequests)
  <2>1. \A i \in 1 .. NumRequests : f[i] \in Nat
    BY <1>4
  <2>2. QED
    BY <1>3, <1>4, <2>1, SumUpToBounds
<1>7. QED
  BY <1>4, <1>5, <1>6 DEF f, g

\* The charges' sum follows a charge to one request.
LEMMA ChargedChange ==
    ASSUME TypeOK, TypeOK', NEW r \in Requests,
           \A q \in Requests : q # r => charged'[q] = charged[q]
    PROVE  /\ SumUpTo(charged', NumRequests)
                = SumUpTo(charged, NumRequests) + charged'[r] - charged[r]
           /\ SumUpTo(charged, NumRequests) \in Nat
<1> DEFINE f == charged
           g == charged'
<1>1. NumRequests \in Nat /\ Requests = 1 .. NumRequests
  BY WalletAssumption DEF Requests
<1>2. /\ f \in [1 .. NumRequests -> Nat]
      /\ g \in [1 .. NumRequests -> Nat]
      /\ \A q \in 1 .. NumRequests : q # r => g[q] = f[q]
      /\ r \in 1 .. NumRequests
  BY <1>1 DEF TypeOK
<1> HIDE DEF f, g
<1>3. \A i \in 1 .. NumRequests : f[i] \in Nat /\ f[i] \in Int /\ g[i] \in Int
  BY <1>2
<1>4. SumUpTo(g, NumRequests) = SumUpTo(f, NumRequests) + g[r] - f[r]
  BY <1>1, <1>2, <1>3, SumUpToChange
<1>5. SumUpTo(f, NumRequests) \in Nat
  BY <1>1, <1>3, SumUpToBounds
<1>6. QED
  BY <1>4, <1>5 DEF f, g

LEMMA ChargedSumNat ==
    ASSUME TypeOK
    PROVE  SumUpTo(charged, NumRequests) \in Nat
<1>1. NumRequests \in Nat /\ \A i \in 1 .. NumRequests : charged[i] \in Nat
  BY WalletAssumption DEF TypeOK, Requests
<1>2. QED
  BY <1>1, SumUpToBounds

-----------------------------------------------------------------------------

LEMMA InitWalletInv == Init => WalletInv
<1> SUFFICES ASSUME Init
             PROVE  WalletInv
  OBVIOUS
<1>1. NumRequests \in Nat /\ Requests = 1 .. NumRequests
  BY WalletAssumption DEF Requests
<1>2. PICK b \in {0, BonusMicros} :
        /\ wallet = [balance |-> b, held |-> 0, promo |-> b,
                     expiry |-> IF b > 0 THEN "bonus" ELSE NoExpiry,
                     remaining |-> [g \in Grants |-> IF g = "bonus" THEN b ELSE 0]]
        /\ credited = b
  BY DEF Init
<1>3. b \in Nat
  BY WalletAssumption
<1>4. SumUpTo(HeldBy, NumRequests) = 0
  <2>1. \A i \in 1 .. NumRequests : HeldBy[i] = 0
    BY <1>1 DEF HeldBy, Init
  <2>2. QED
    BY <1>1, <2>1, SumUpToZero
<1>5. SumUpTo(charged, NumRequests) = 0
  <2>1. \A i \in 1 .. NumRequests : charged[i] = 0
    BY <1>1 DEF Init
  <2>2. QED
    BY <1>1, <2>1, SumUpToZero
<1>6. TypeOK
  BY <1>2, <1>3 DEF TypeOK, Init, Grants, HoldStatus
<1>7. HeldIsSumOfOpenHolds /\ WithinBalance /\ BooksBalance
  BY <1>2, <1>3, <1>4, <1>5
     DEF HeldIsSumOfOpenHolds, WithinBalance, BooksBalance, Init
<1>8. GrantsBackPromo
  <2>1. /\ wallet.remaining["bonus"] = b
        /\ wallet.remaining["trial"] = 0
    BY <1>2 DEF Grants
  <2>2. EarliestActive(wallet.remaining) = IF b > 0 THEN "bonus" ELSE NoExpiry
    BY <1>3, <2>1, GrantPair DEF EarliestActive, Grants
  <2>3. QED
    BY <1>2, <1>3, <2>1, <2>2 DEF GrantsBackPromo, GrantSum
<1>9. LapsedInOrder
  BY DEF Init, LapsedInOrder
<1>10. QED
  BY <1>6, <1>7, <1>8, <1>9 DEF WalletInv

(* One lemma per operation. *)

LEMMA StepReserve ==
    ASSUME WalletSound, NEW r \in Requests, NEW a \in Amounts, ReserveWallet(r, a)
    PROVE  KeepsSound
<1> DEFINE w == Expire(wallet)
           k == Removable(wallet)
<1>1. /\ TypeOK
      /\ wallet.held = SumUpTo(HeldBy, NumRequests)
      /\ wallet.balance + expiredOut + SumUpTo(charged, NumRequests) = credited
      /\ \A q \in Requests : charged[q] > 0 => hold[q] = "settled"
      /\ wallet.remaining["trial"] > 0 => trialRow
  BY DEF WalletSound, HeldIsSumOfOpenHolds, BooksBalance, GrantsWithinPromo
<1>2. /\ RowOK(w)
      /\ w.balance = wallet.balance - k
      /\ w.held = wallet.held
      /\ \A g \in Grants : w.remaining[g] <= wallet.remaining[g]
      /\ k \in Nat
      /\ Short(w) = Short(wallet)
  BY SoundRow, ExpireRow, RemovableBounds
<1>3. /\ hold[r] = "none"
      /\ w.balance - w.held >= a
      /\ wallet' = [w EXCEPT !.held = @ + a]
      /\ hold' = [hold EXCEPT ![r] = "open"]
      /\ amount' = [amount EXCEPT ![r] = a]
      /\ expiredOut' = expiredOut + k
      /\ UNCHANGED <<lapsed, trialRow, overdue, recorded, charged, credited>>
  BY DEF ReserveWallet, HasHold, Admits
<1>4. a \in Nat
  BY WalletAssumption
<1> HIDE DEF w, k
<1>5. /\ wallet'.balance = w.balance
      /\ wallet'.held = w.held + a
      /\ wallet'.promo = w.promo
      /\ wallet'.expiry = w.expiry
      /\ wallet'.remaining = w.remaining
      /\ wallet' \in [balance : Nat, held : Nat, promo : Nat,
                      expiry : Grants \cup {NoExpiry}, remaining : [Grants -> Nat]]
  BY <1>2, <1>3, <1>4 DEF RowOK
<1>6. TypeOK'
  BY <1>1, <1>2, <1>3, <1>4, <1>5 DEF TypeOK, HoldStatus
<1>7. HeldIsSumOfOpenHolds'
  <2>1. HeldBy'[r] = a /\ HeldBy[r] = 0
    BY <1>1, <1>3, <1>6 DEF HeldBy, TypeOK
  <2>2. SumUpTo(HeldBy', NumRequests) = SumUpTo(HeldBy, NumRequests) + HeldBy'[r] - HeldBy[r]
    BY <1>1, <1>3, <1>6, HeldChange DEF TypeOK
  <2>3. SumUpTo(HeldBy, NumRequests) \in Nat
    BY <1>1, <1>3, <1>6, HeldChange DEF TypeOK
  <2>4. QED
    BY <1>1, <1>2, <1>4, <1>5, <2>1, <2>2, <2>3 DEF HeldIsSumOfOpenHolds
<1>8. WithinBalance' /\ GrantsWithinPromo'
  <2>1. "trial" \in Grants
    BY DEF Grants
  <2>2. QED
    BY <1>1, <1>2, <1>3, <1>4, <1>5, <2>1 DEF WithinBalance, GrantsWithinPromo, RowOK, TypeOK
<1>9. BooksBalance'
  <2>1. SumUpTo(charged, NumRequests) \in Nat
    BY <1>1, ChargedSumNat
  <2>2. charged' = charged
    BY <1>3
  <2>3. \A q \in Requests : charged'[q] > 0 => hold'[q] = "settled"
    BY <1>1, <1>3 DEF TypeOK
  <2>4. wallet'.balance + expiredOut' + SumUpTo(charged, NumRequests) = credited'
    BY <1>1, <1>2, <1>3, <1>5, <2>1 DEF TypeOK
  <2>5. QED
    BY <2>2, <2>3, <2>4 DEF BooksBalance
<1>10. LapsedInOrder'
  BY <1>3 DEF WalletSound, LapsedInOrder
<1>11. Short(wallet') = Short(wallet)
  BY <1>2, <1>5 DEF Short
<1>12. QED
  BY <1>6, <1>7, <1>8, <1>9, <1>10, <1>11 DEF WalletSound, KeepsSound

\* Releasing a hold and expiring one do the same to the row.
\* Freeing what an open hold reserves keeps the row sound.
LEMMA ReleasedRow ==
    ASSUME WalletSound, NEW r \in Requests, hold[r] = "open"
    PROVE  LET v == [wallet EXCEPT !.held = @ - amount[r]]
           IN  /\ RowOK(v)
               /\ v.balance = wallet.balance
               /\ v.held = wallet.held - amount[r]
               /\ v.promo = wallet.promo
               /\ v.remaining = wallet.remaining
               /\ Short(v) = Short(wallet)
               /\ amount[r] <= wallet.held
<1> DEFINE v == [wallet EXCEPT !.held = @ - amount[r]]
<1>1. TypeOK /\ wallet.held = SumUpTo(HeldBy, NumRequests) /\ RowOK(wallet)
  BY SoundRow DEF WalletSound, HeldIsSumOfOpenHolds
<1>2. HeldBy[r] = amount[r] /\ amount[r] \in Nat
  BY <1>1 DEF HeldBy, TypeOK
<1>3. HeldBy[r] <= SumUpTo(HeldBy, NumRequests)
  <2>1. \A i \in 1 .. NumRequests : HeldBy[i] \in Nat
    BY <1>1 DEF HeldBy, TypeOK, Requests
  <2>2. NumRequests \in Nat /\ r \in 1 .. NumRequests
    BY WalletAssumption DEF Requests
  <2>3. QED
    BY <2>1, <2>2, SumUpToBounds
<1>4. amount[r] <= wallet.held
  BY <1>1, <1>2, <1>3
<1>5. /\ v.balance = wallet.balance
      /\ v.held = wallet.held - amount[r]
      /\ v.promo = wallet.promo
      /\ v.expiry = wallet.expiry
      /\ v.remaining = wallet.remaining
      /\ v \in [balance : Nat, held : Nat, promo : Nat,
                expiry : Grants \cup {NoExpiry}, remaining : [Grants -> Nat]]
  BY <1>1, <1>2, <1>4 DEF RowOK
<1> HIDE DEF v
<1>6. RowOK(v)
  BY <1>1, <1>2, <1>4, <1>5 DEF RowOK
<1>7. QED
  BY <1>4, <1>5, <1>6 DEF v, Short

LEMMA StepCloseHold ==
    ASSUME WalletSound, NEW r \in Requests, NEW status \in {"released", "expired"},
           CloseHold(r, status)
    PROVE  KeepsSound
<1> DEFINE v == [wallet EXCEPT !.held = @ - amount[r]]
           w == Expire(v)
           k == Removable(v)
<1>1. /\ TypeOK
      /\ wallet.held = SumUpTo(HeldBy, NumRequests)
      /\ wallet.balance + expiredOut + SumUpTo(charged, NumRequests) = credited
      /\ \A q \in Requests : charged[q] > 0 => hold[q] = "settled"
      /\ wallet.remaining["trial"] > 0 => trialRow
      /\ RowOK(wallet)
  BY SoundRow DEF WalletSound, HeldIsSumOfOpenHolds, BooksBalance, GrantsWithinPromo
<1>2. /\ hold[r] = "open"
      /\ wallet' = w
      /\ hold' = [hold EXCEPT ![r] = status]
      /\ expiredOut' = expiredOut + k
      /\ UNCHANGED <<lapsed, trialRow, amount, overdue, recorded, charged, credited>>
  BY DEF CloseHold, IsOpen
<1>3. /\ HeldBy[r] = amount[r]
      /\ amount[r] \in Nat
  BY <1>1, <1>2 DEF HeldBy, TypeOK
<1>4. SumUpTo(HeldBy, NumRequests) \in Nat
  BY <1>1 DEF TypeOK
<1>5. /\ RowOK(v)
      /\ v.balance = wallet.balance
      /\ v.held = wallet.held - amount[r]
      /\ v.remaining = wallet.remaining
      /\ Short(v) = Short(wallet)
      /\ amount[r] <= wallet.held
  BY <1>2, ReleasedRow
<1> HIDE DEF v
<1>8. /\ RowOK(w)
      /\ w.balance = v.balance - k
      /\ w.held = v.held
      /\ \A g \in Grants : w.remaining[g] <= v.remaining[g]
      /\ k \in Nat
      /\ Short(w) = Short(v)
  BY <1>5, ExpireRow, RemovableBounds
<1> HIDE DEF w, k
<1>9. TypeOK'
  BY <1>1, <1>2, <1>8 DEF TypeOK, HoldStatus, RowOK
<1>10. HeldIsSumOfOpenHolds'
  <2>1. HeldBy'[r] = 0
    BY <1>1, <1>2 DEF HeldBy, TypeOK
  <2>2. SumUpTo(HeldBy', NumRequests) = SumUpTo(HeldBy, NumRequests) + HeldBy'[r] - HeldBy[r]
    BY <1>1, <1>2, <1>9, HeldChange DEF TypeOK
  <2>3. QED
    BY <1>1, <1>2, <1>3, <1>4, <1>5, <1>8, <2>1, <2>2 DEF HeldIsSumOfOpenHolds
<1>11. WithinBalance' /\ GrantsWithinPromo'
  <2>1. "trial" \in Grants
    BY DEF Grants
  <2>2. QED
    BY <1>1, <1>2, <1>5, <1>8, <2>1 DEF WithinBalance, GrantsWithinPromo, RowOK
<1>12. BooksBalance'
  <2>1. SumUpTo(charged, NumRequests) \in Nat
    BY <1>1, ChargedSumNat
  <2>2. charged' = charged
    BY <1>2
  <2>3. \A q \in Requests : charged'[q] > 0 => hold'[q] = "settled"
    BY <1>1, <1>2 DEF TypeOK
  <2>4. wallet'.balance + expiredOut' + SumUpTo(charged, NumRequests) = credited'
    BY <1>1, <1>2, <1>5, <1>8, <2>1 DEF TypeOK
  <2>5. QED
    BY <2>2, <2>3, <2>4 DEF BooksBalance
<1>13. LapsedInOrder'
  BY <1>2 DEF WalletSound, LapsedInOrder
<1>14. QED
  BY <1>2, <1>5, <1>8, <1>9, <1>10, <1>11, <1>12, <1>13 DEF WalletSound, KeepsSound

LEMMA StepSettle ==
    ASSUME WalletSound, NEW r \in Requests, NEW cost \in Amounts \cup {0},
           Settle(r, cost), recorded' \in SUBSET Requests
    PROVE  KeepsSound
<1> DEFINE used == Least(wallet.promo, cost)
           rem == ConsumeGrants(wallet.remaining, used, Grants)
<1>1. /\ TypeOK
      /\ wallet.held = SumUpTo(HeldBy, NumRequests)
      /\ wallet.balance + expiredOut + SumUpTo(charged, NumRequests) = credited
      /\ \A q \in Requests : charged[q] > 0 => hold[q] = "settled"
      /\ wallet.remaining["trial"] > 0 => trialRow
      /\ RowOK(wallet)
  BY SoundRow DEF WalletSound, HeldIsSumOfOpenHolds, BooksBalance, GrantsWithinPromo
<1>2. cost \in Nat
  BY WalletAssumption
<1>3. /\ used \in Nat
      /\ used <= wallet.promo
      /\ used <= cost
      /\ wallet.promo - used <= wallet.balance - cost
      /\ wallet.balance >= cost
      /\ wallet.held >= amount[r]
      /\ wallet.held - amount[r] <= wallet.balance - cost
      /\ amount[r] \in Nat
  BY <1>1, <1>2 DEF RowOK, Least, Settle, PromoUsed, CanSettle, TypeOK
<1>4. /\ rem \in [Grants -> Nat]
      /\ GrantSum(rem) = GrantSum(wallet.remaining) - used
      /\ \A g \in Grants : rem[g] <= wallet.remaining[g]
  <2>1. GrantSum(wallet.remaining) - GrantSum(rem) = used
    BY DEF Settle, CanSettle, PromoUsed
  <2> HIDE DEF used
  <2>2. wallet.remaining \in [Grants -> Nat]
    BY <1>1 DEF RowOK
  <2>3. rem \in [Grants -> Nat]
    BY <1>3, <2>2, ConsumeLeavesNat
  <2> HIDE DEF rem
  <2>4. used <= GrantSum(wallet.remaining)
    BY <1>3, <2>1, <2>2, <2>3 DEF GrantSum, Grants
  <2>5. QED
    BY <1>3, <2>2, <2>4, ConsumeFromAll DEF rem
<1>5. EarliestActive(rem) \in Grants \cup {NoExpiry}
  BY <1>4, EarliestActiveType
<1>6. /\ hold[r] = "open"
      /\ wallet' = [balance |-> wallet.balance - cost,
                    held |-> wallet.held - amount[r],
                    promo |-> wallet.promo - used,
                    expiry |-> EarliestActive(rem),
                    remaining |-> rem]
      /\ charged' = [charged EXCEPT ![r] = cost]
      /\ hold' = [hold EXCEPT ![r] = "settled"]
      /\ UNCHANGED <<lapsed, trialRow, amount, overdue, credited, expiredOut>>
  BY DEF Settle, IsOpen, PromoUsed
<1> HIDE DEF used, rem
<1>7. wallet' \in [balance : Nat, held : Nat, promo : Nat,
                   expiry : Grants \cup {NoExpiry}, remaining : [Grants -> Nat]]
  BY <1>1, <1>2, <1>3, <1>4, <1>5, <1>6 DEF RowOK
<1>8. TypeOK'
  BY <1>1, <1>2, <1>6, <1>7 DEF TypeOK, HoldStatus
<1>9. HeldIsSumOfOpenHolds'
  <2>1. HeldBy'[r] = 0 /\ HeldBy[r] = amount[r]
    BY <1>1, <1>6 DEF HeldBy, TypeOK
  <2>2. /\ SumUpTo(HeldBy', NumRequests) = SumUpTo(HeldBy, NumRequests) + HeldBy'[r] - HeldBy[r]
        /\ SumUpTo(HeldBy, NumRequests) \in Nat
    BY <1>1, <1>6, <1>8, HeldChange DEF TypeOK
  <2>3. QED
    BY <1>1, <1>3, <1>6, <2>1, <2>2 DEF HeldIsSumOfOpenHolds
<1>13. /\ wallet'.promo - GrantSum(wallet'.remaining) = wallet.promo - GrantSum(wallet.remaining)
       /\ GrantSum(wallet'.remaining) <= wallet'.promo
  <2>1. GrantSum(wallet.remaining) \in Nat
    BY <1>1 DEF RowOK, GrantSum, Grants
  <2>2. QED
    BY <1>1, <1>3, <1>4, <1>6, <2>1 DEF RowOK
<1>10. WithinBalance' /\ GrantsWithinPromo'
  <2>1. "trial" \in Grants /\ wallet.remaining["trial"] \in Nat /\ rem["trial"] \in Nat
    BY <1>1, <1>4 DEF Grants, RowOK
  <2>2. wallet'.remaining["trial"] > 0 => trialRow'
    BY <1>1, <1>4, <1>6, <2>1
  <2>3. GrantSum(wallet'.remaining) <= wallet'.promo
    BY <1>13
  <2>4. wallet'.expiry = EarliestActive(wallet'.remaining)
    BY <1>6
  <2>5. WithinBalance'
    BY <1>3, <1>6 DEF WithinBalance
  <2>6. QED
    BY <2>2, <2>3, <2>4, <2>5 DEF GrantsWithinPromo
<1>11. BooksBalance'
  <2>1. charged[r] = 0
    <3>1. charged[r] \in Nat
      BY <1>1 DEF TypeOK
    <3>2. ~ (charged[r] > 0)
      BY <1>1, <1>6
    <3>3. QED
      BY <3>1, <3>2
  <2>2. charged'[r] = cost
    BY <1>1, <1>6 DEF TypeOK
  <2>3. /\ SumUpTo(charged', NumRequests) = SumUpTo(charged, NumRequests) + charged'[r] - charged[r]
        /\ SumUpTo(charged, NumRequests) \in Nat
    BY <1>1, <1>6, <1>8, ChargedChange DEF TypeOK
  <2>4. \A q \in Requests : charged'[q] > 0 => hold'[q] = "settled"
    BY <1>1, <1>6 DEF TypeOK
  <2>5. wallet'.balance = wallet.balance - cost /\ wallet.balance \in Nat
    BY <1>1, <1>6 DEF RowOK
  <2>6. expiredOut' = expiredOut /\ credited' = credited /\ expiredOut \in Nat /\ credited \in Nat
    BY <1>1, <1>6 DEF TypeOK
  <2>7. wallet'.balance + expiredOut' + SumUpTo(charged', NumRequests) = credited'
    BY <1>1, <1>2, <2>1, <2>2, <2>3, <2>5, <2>6
  <2>8. QED
    BY <2>4, <2>7 DEF BooksBalance
<1>12. LapsedInOrder'
  BY <1>6 DEF WalletSound, LapsedInOrder
<1>14. QED
  BY <1>8, <1>9, <1>10, <1>11, <1>12, <1>13 DEF WalletSound, KeepsSound, Short

LEMMA StepExpire ==
    ASSUME WalletSound, ExpirePromotionalCredits
    PROVE  KeepsSound
<1> DEFINE w == Expire(wallet)
           k == Removable(wallet)
<1>1. /\ TypeOK
      /\ wallet.held = SumUpTo(HeldBy, NumRequests)
      /\ wallet.balance + expiredOut + SumUpTo(charged, NumRequests) = credited
      /\ \A q \in Requests : charged[q] > 0 => hold[q] = "settled"
      /\ wallet.remaining["trial"] > 0 => trialRow
      /\ RowOK(wallet)
  BY SoundRow DEF WalletSound, HeldIsSumOfOpenHolds, BooksBalance, GrantsWithinPromo
<1>2. /\ RowOK(w)
      /\ w.balance = wallet.balance - k
      /\ w.held = wallet.held
      /\ \A g \in Grants : w.remaining[g] <= wallet.remaining[g]
      /\ k \in Nat
      /\ Short(w) = Short(wallet)
  BY <1>1, ExpireRow, RemovableBounds
<1>3. /\ wallet' = w
      /\ expiredOut' = expiredOut + k
      /\ UNCHANGED <<lapsed, trialRow, hold, amount, overdue, recorded, charged,
                     credited>>
  BY DEF ExpirePromotionalCredits
<1> HIDE DEF w, k
<1>4. TypeOK'
  BY <1>1, <1>2, <1>3 DEF TypeOK, RowOK
<1>5. HeldIsSumOfOpenHolds'
  BY <1>1, <1>2, <1>3 DEF HeldIsSumOfOpenHolds, HeldBy
<1>6. WithinBalance' /\ GrantsWithinPromo'
  <2>1. "trial" \in Grants
    BY DEF Grants
  <2>2. QED
    BY <1>1, <1>2, <1>3, <2>1 DEF WithinBalance, GrantsWithinPromo, RowOK
<1>7. BooksBalance'
  <2>1. SumUpTo(charged, NumRequests) \in Nat
    BY <1>1, ChargedSumNat
  <2>2. wallet'.balance + expiredOut' + SumUpTo(charged, NumRequests) = credited'
    BY <1>1, <1>2, <1>3, <2>1 DEF TypeOK, RowOK
  <2>3. QED
    BY <1>1, <1>3, <2>2 DEF BooksBalance
<1>8. LapsedInOrder'
  BY <1>3 DEF WalletSound, LapsedInOrder
<1>9. QED
  BY <1>2, <1>3, <1>4, <1>5, <1>6, <1>7, <1>8 DEF WalletSound, KeepsSound

LEMMA StepTopup ==
    ASSUME WalletSound, NEW c \in TopUps, CreditTopup(c)
    PROVE  KeepsSound
<1>1. /\ TypeOK
      /\ wallet.held = SumUpTo(HeldBy, NumRequests)
      /\ wallet.balance + expiredOut + SumUpTo(charged, NumRequests) = credited
      /\ \A q \in Requests : charged[q] > 0 => hold[q] = "settled"
      /\ wallet.remaining["trial"] > 0 => trialRow
      /\ RowOK(wallet)
      /\ c \in Nat
  BY SoundRow, WalletAssumption DEF WalletSound, HeldIsSumOfOpenHolds, BooksBalance, GrantsWithinPromo
<1>2. /\ wallet' = [wallet EXCEPT !.balance = @ + c]
      /\ credited' = credited + c
      /\ UNCHANGED <<lapsed, trialRow, hold, amount, overdue, recorded, charged, expiredOut>>
  BY DEF CreditTopup
<1>3. /\ wallet'.balance = wallet.balance + c
      /\ wallet'.held = wallet.held
      /\ wallet'.promo = wallet.promo
      /\ wallet'.expiry = wallet.expiry
      /\ wallet'.remaining = wallet.remaining
      /\ wallet' \in [balance : Nat, held : Nat, promo : Nat,
                      expiry : Grants \cup {NoExpiry}, remaining : [Grants -> Nat]]
  BY <1>1, <1>2 DEF RowOK
<1>4. TypeOK'
  BY <1>1, <1>2, <1>3 DEF TypeOK
<1>5. HeldIsSumOfOpenHolds'
  BY <1>1, <1>2, <1>3 DEF HeldIsSumOfOpenHolds, HeldBy
<1>6. WithinBalance' /\ GrantsWithinPromo'
  BY <1>1, <1>2, <1>3 DEF WithinBalance, GrantsWithinPromo, RowOK
<1>7. BooksBalance'
  <2>1. SumUpTo(charged, NumRequests) \in Nat
    BY <1>1, ChargedSumNat
  <2>2. wallet'.balance + expiredOut' + SumUpTo(charged, NumRequests) = credited'
    BY <1>1, <1>2, <1>3, <2>1 DEF TypeOK, RowOK
  <2>3. QED
    BY <1>1, <1>2, <2>2 DEF BooksBalance
<1>8. LapsedInOrder'
  BY <1>2 DEF WalletSound, LapsedInOrder
<1>9. QED
  BY <1>3, <1>4, <1>5, <1>6, <1>7, <1>8 DEF WalletSound, KeepsSound, Short

LEMMA StepTrial ==
    ASSUME WalletSound, GrantTrial
    PROVE  KeepsSound
<1> DEFINE t == TrialMicros
<1>1. /\ TypeOK
      /\ wallet.held = SumUpTo(HeldBy, NumRequests)
      /\ wallet.balance + expiredOut + SumUpTo(charged, NumRequests) = credited
      /\ \A q \in Requests : charged[q] > 0 => hold[q] = "settled"
      /\ wallet.remaining["trial"] > 0 => trialRow
      /\ RowOK(wallet)
      /\ t \in Nat /\ t > 0
  BY SoundRow, WalletAssumption DEF WalletSound, HeldIsSumOfOpenHolds, BooksBalance, GrantsWithinPromo
<1>2. /\ ~ trialRow
      /\ trialRow'
      /\ trialRow' \in BOOLEAN
      /\ wallet' = [wallet EXCEPT
                      !.balance = @ + t, !.promo = @ + t, !.remaining["trial"] = t,
                      !.expiry = IF EarlierGrant \in {@, "trial"} THEN EarlierGrant ELSE "trial"]
      /\ credited' = credited + t
      /\ UNCHANGED <<lapsed, hold, amount, overdue, recorded, charged, expiredOut>>
  BY DEF GrantTrial
<1> DEFINE rem == [wallet.remaining EXCEPT !["trial"] = t]
           expiry == IF EarlierGrant \in {wallet.expiry, "trial"} THEN EarlierGrant ELSE "trial"
<1>3. /\ rem \in [Grants -> Nat]
      /\ rem["trial"] = t
      /\ rem["bonus"] = wallet.remaining["bonus"]
      /\ wallet.remaining["trial"] = 0
      /\ wallet.remaining["bonus"] \in Nat
      /\ expiry \in Grants \cup {NoExpiry}
  BY <1>1, <1>2, GrantPair DEF RowOK, Grants
<1>4. GrantSum(rem) = GrantSum(wallet.remaining) + t
  BY <1>1, <1>3 DEF GrantSum
<1>5. expiry = EarliestActive(rem)
  <2>1. CASE EarlierGrant = "trial"
    BY <1>1, <1>3, <2>1 DEF EarliestActive
  <2>2. CASE EarlierGrant = "bonus"
    <3>1. LaterGrant = "trial"
      BY <2>2, GrantPair DEF Grants
    <3>2. wallet.expiry = IF wallet.remaining["bonus"] > 0 THEN "bonus" ELSE NoExpiry
      BY <1>1, <1>3, <2>2, <3>1 DEF EarliestActive, RowOK
    <3>3. EarliestActive(rem) = IF wallet.remaining["bonus"] > 0 THEN "bonus" ELSE "trial"
      BY <1>1, <1>3, <2>2, <3>1 DEF EarliestActive
    <3>4. NoExpiry # "bonus"
      BY DEF NoExpiry
    <3>5. QED
      BY <2>2, <3>2, <3>3, <3>4
  <2>3. QED
    BY <2>1, <2>2, GrantPair DEF Grants
<1>6. /\ wallet'.balance = wallet.balance + t
      /\ wallet'.held = wallet.held
      /\ wallet'.promo = wallet.promo + t
      /\ wallet'.expiry = expiry
      /\ wallet'.remaining = rem
      /\ wallet' \in [balance : Nat, held : Nat, promo : Nat,
                      expiry : Grants \cup {NoExpiry}, remaining : [Grants -> Nat]]
  <2> HIDE DEF expiry
  <2>1. wallet' = [balance |-> wallet.balance + t, held |-> wallet.held,
                   promo |-> wallet.promo + t, expiry |-> expiry, remaining |-> rem]
    BY <1>1, <1>2 DEF RowOK, expiry
  <2> HIDE DEF rem, t
  <2>2. QED
    BY <1>1, <1>3, <2>1 DEF RowOK
<1> HIDE DEF rem, expiry, t
<1>7. TypeOK'
  BY <1>1, <1>2, <1>6 DEF TypeOK
<1>8. HeldIsSumOfOpenHolds'
  BY <1>1, <1>2, <1>6 DEF HeldIsSumOfOpenHolds, HeldBy
<1>9. WithinBalance' /\ GrantsWithinPromo' /\ Short(wallet') = Short(wallet)
  <2>1. GrantSum(wallet.remaining) \in Nat
    BY <1>1 DEF RowOK, GrantSum, Grants
  <2>2. Short(wallet') = Short(wallet) /\ GrantSum(wallet'.remaining) <= wallet'.promo
    BY <1>1, <1>4, <1>6, <2>1 DEF RowOK, Short
  <2>3. QED
    BY <1>1, <1>2, <1>5, <1>6, <2>2 DEF WithinBalance, GrantsWithinPromo, RowOK
<1>10. BooksBalance'
  <2>1. SumUpTo(charged, NumRequests) \in Nat
    BY <1>1, ChargedSumNat
  <2>2. wallet'.balance + expiredOut' + SumUpTo(charged, NumRequests) = credited'
    BY <1>1, <1>2, <1>6, <2>1 DEF TypeOK, RowOK
  <2>3. QED
    BY <1>1, <1>2, <2>2 DEF BooksBalance
<1>11. LapsedInOrder'
  BY <1>2 DEF WalletSound, LapsedInOrder
<1>12. QED
  BY <1>7, <1>8, <1>9, <1>10, <1>11 DEF WalletSound, KeepsSound

\* The usage row of a request without an open hold, and the clock, leave the
\* wallet and the books alone.
LEMMA StepQuiet ==
    ASSUME WalletSound, TypeOK', LapsedInOrder',
           UNCHANGED <<wallet, trialRow, hold, amount, charged, credited, expiredOut>>
    PROVE  KeepsSound
<1>1. HeldIsSumOfOpenHolds' /\ WithinBalance' /\ GrantsWithinPromo' /\ BooksBalance'
  BY DEF WalletSound, HeldIsSumOfOpenHolds, HeldBy, WithinBalance, GrantsWithinPromo, BooksBalance
<1>2. QED
  BY <1>1 DEF WalletSound, KeepsSound

LEMMA StepRecord ==
    ASSUME WalletSound, NEW r \in Requests, NEW cost \in Amounts \cup {0},
           RecordUsage(r, cost)
    PROVE  KeepsSound
<1>1. recorded' \in SUBSET Requests
  BY DEF RecordUsage, WalletSound, TypeOK
<1>2. CASE Settle(r, cost)
  BY <1>1, <1>2, StepSettle
<1>3. CASE UNCHANGED <<wallet, lapsed, trialRow, hold, amount, overdue,
                       charged, credited, expiredOut>>
  <2>1. TypeOK' /\ LapsedInOrder'
    BY <1>1, <1>3 DEF WalletSound, TypeOK, LapsedInOrder
  <2>2. QED
    BY <1>3, <2>1, StepQuiet
<1>4. QED
  BY <1>2, <1>3 DEF RecordUsage

LEMMA StepClock ==
    ASSUME WalletSound,
           \/ \E g \in Grants : GrantLapses(g)
           \/ \E r \in Requests : HoldLapses(r)
    PROVE  KeepsSound
<1>1. ASSUME NEW g \in Grants, GrantLapses(g)
      PROVE  KeepsSound
  <2>1. TypeOK'
    BY <1>1 DEF GrantLapses, WalletSound, TypeOK
  <2>2. LapsedInOrder'
    BY <1>1, GrantPair DEF GrantLapses, WalletSound, LapsedInOrder
  <2>3. QED
    BY <1>1, <2>1, <2>2, StepQuiet DEF GrantLapses
<1>2. ASSUME NEW r \in Requests, HoldLapses(r)
      PROVE  KeepsSound
  <2>1. TypeOK'
    BY <1>2 DEF HoldLapses, WalletSound, TypeOK
  <2>2. LapsedInOrder'
    BY <1>2 DEF HoldLapses, WalletSound, LapsedInOrder
  <2>3. QED
    BY <1>2, <2>1, <2>2, StepQuiet DEF HoldLapses
<1>3. QED
  BY <1>1, <1>2

\* WalletSound is inductive, and no step changes what the grants are short of.
LEMMA SoundStep == WalletSound /\ [Next]_vars => KeepsSound
<1> SUFFICES ASSUME WalletSound, [Next]_vars
             PROVE  KeepsSound
  OBVIOUS
<1>1. ASSUME NEW r \in Requests, NEW a \in Amounts, ReserveWallet(r, a)
      PROVE  KeepsSound
  BY <1>1, StepReserve
<1>2. ASSUME NEW r \in Requests, ReleaseWallet(r)
      PROVE  KeepsSound
  BY <1>2, StepCloseHold DEF ReleaseWallet
<1>3. ASSUME NEW r \in Requests, ReleaseExpiredHold(r)
      PROVE  KeepsSound
  BY <1>3, StepCloseHold DEF ReleaseExpiredHold
<1>4. ASSUME NEW r \in Requests, NEW cost \in Amounts \cup {0}, SettleWallet(r, cost)
      PROVE  KeepsSound
  <2>1. recorded' \in SUBSET Requests
    BY <1>4 DEF SettleWallet, WalletSound, TypeOK
  <2>2. QED
    BY <1>4, <2>1, StepSettle DEF SettleWallet
<1>5. ASSUME NEW r \in Requests, NEW cost \in Amounts \cup {0}, RecordUsage(r, cost)
      PROVE  KeepsSound
  BY <1>5, StepRecord
<1>6. CASE ExpirePromotionalCredits
  BY <1>6, StepExpire
<1>7. ASSUME NEW c \in TopUps, CreditTopup(c)
      PROVE  KeepsSound
  BY <1>7, StepTopup
<1>8. CASE GrantTrial
  BY <1>8, StepTrial
<1>9. CASE UNCHANGED vars
  <2>1. TypeOK' /\ LapsedInOrder'
    BY <1>9 DEF vars, WalletSound, TypeOK, LapsedInOrder
  <2>2. QED
    BY <1>9, <2>1, StepQuiet DEF vars
<1>10. QED
  BY <1>1, <1>2, <1>3, <1>4, <1>5, <1>6, <1>7, <1>8, <1>9, StepClock DEF Next

\* So WalletInv is inductive.
LEMMA WalletStep == WalletInv /\ [Next]_vars => WalletInv'
<1> SUFFICES ASSUME WalletInv, [Next]_vars
             PROVE  WalletInv'
  OBVIOUS
<1>1. WalletSound /\ Short(wallet) = 0
  BY InvIsSound
<1>2. WalletSound' /\ Short(wallet') = 0
  BY <1>1, SoundStep DEF KeepsSound
<1>3. GrantSum(wallet'.remaining) \in Int /\ wallet'.promo \in Int
  BY <1>2 DEF WalletSound, TypeOK, GrantSum, Grants
<1>4. QED
  BY <1>2, <1>3 DEF WalletInv, WalletSound, GrantsWithinPromo, GrantsBackPromo, Short

LEMMA WalletAlways == Spec => []WalletInv
BY InitWalletInv, WalletStep, PTL DEF Spec

-----------------------------------------------------------------------------
(***************************************************************************)
(* The theorems.                                                           *)
(***************************************************************************)

\* No sequence of transactions drives a column of the wallet row or of a hold
\* below zero or out of its type.
THEOREM WalletTypes == Spec => []TypeOK
<1>1. WalletInv => TypeOK
  BY DEF WalletInv
<1>2. QED
  BY <1>1, WalletAlways, PTL

\* held_micros is the sum of the open holds whatever the order in which
\* reservations, releases, settlements and the janitor reach the wallet.
THEOREM HeldMatchesHolds == Spec => []HeldIsSumOfOpenHolds
<1>1. WalletInv => HeldIsSumOfOpenHolds
  BY DEF WalletInv
<1>2. QED
  BY <1>1, WalletAlways, PTL

\* The CHECK constraints of the wallets table can never fail outside a
\* settlement: holds and promotional credit stay within the balance.
THEOREM HoldsWithinBalance == Spec => []WithinBalance
<1>1. WalletInv => WithinBalance
  BY DEF WalletInv
<1>2. QED
  BY <1>1, WalletAlways, PTL

\* promotional_micros never drifts from the grants that back it.
THEOREM PromoBacked == Spec => []GrantsBackPromo
<1>1. WalletInv => GrantsBackPromo
  BY DEF WalletInv
<1>2. QED
  BY <1>1, WalletAlways, PTL

\* The balance is always what the ledger adds up to, and only settled requests
\* are charged: what ReconcileWalletBalances looks for never happens.
THEOREM LedgerMatches == Spec => []BooksBalance
<1>1. WalletInv => BooksBalance
  BY DEF WalletInv
<1>2. QED
  BY <1>1, WalletAlways, PTL

\* A hold that was settled, released or expired is never reopened, closed again
\* or charged again, however often the data plane retries.
THEOREM HoldsCloseOnce == Spec => ClosedHoldsStayClosed
<1>1. ASSUME WalletInv, [Next]_vars, NEW r \in Requests, hold[r] \notin {"none", "open"}
      PROVE  hold'[r] = hold[r] /\ charged'[r] = charged[r]
  <2>1. ASSUME NEW q \in Requests, NEW cost \in Amounts \cup {0}, Settle(q, cost)
        PROVE  hold'[r] = hold[r] /\ charged'[r] = charged[r]
    BY <1>1, <2>1 DEF Settle, IsOpen, PromoUsed, WalletInv, TypeOK
  <2>2. ASSUME NEW q \in Requests, NEW status, CloseHold(q, status)
        PROVE  hold'[r] = hold[r] /\ charged'[r] = charged[r]
    BY <1>1, <2>2 DEF CloseHold, IsOpen, WalletInv, TypeOK
  <2>3. ASSUME NEW q \in Requests, NEW a \in Amounts, ReserveWallet(q, a)
        PROVE  hold'[r] = hold[r] /\ charged'[r] = charged[r]
    BY <1>1, <2>3 DEF ReserveWallet, HasHold, Admits, WalletInv, TypeOK
  <2>4. CASE UNCHANGED <<hold, charged>>
    BY <2>4
  <2>5. QED
    BY <1>1, <2>1, <2>2, <2>3, <2>4
       DEF Next, vars, ReleaseWallet, ReleaseExpiredHold, SettleWallet, RecordUsage,
           HoldLapses, ExpirePromotionalCredits, CreditTopup, GrantTrial, GrantLapses
<1>2. WalletInv /\ [Next]_vars =>
        [\A r \in Requests : hold[r] \notin {"none", "open"} =>
            hold'[r] = hold[r] /\ charged'[r] = charged[r]]_vars
  BY <1>1
<1>3. QED
  BY <1>2, WalletAlways, PTL DEF Spec, ClosedHoldsStayClosed

\* Whatever credit expiry leaves spendable is credit that has not lapsed.
LEMMA SpendableIsUnlapsed ==
    ASSUME NEW w, RowOK(w), LapsedInOrder, Expire(w).balance > Expire(w).held
    PROVE  LapsedSum(Expire(w).remaining) = 0
<1> DEFINE k == Removable(w)
           rem == w.remaining
           total == LapsedSum(rem)
<1>1. /\ rem \in [Grants -> Nat]
      /\ rem[EarlierGrant] \in Nat
      /\ rem[LaterGrant] \in Nat
      /\ w.balance \in Nat
      /\ w.held \in Nat
      /\ rem[EarlierGrant] + rem[LaterGrant] <= w.promo
      /\ w.promo \in Nat
      /\ w.expiry = EarliestActive(rem)
  BY GrantPair, GrantSumByExpiry DEF RowOK
<1>2. total = (IF EarlierGrant \in lapsed THEN rem[EarlierGrant] ELSE 0)
                + (IF LaterGrant \in lapsed THEN rem[LaterGrant] ELSE 0)
  BY <1>1, LapsedSumByExpiry
<1>3. k \in Nat /\ w.balance - k > w.held /\ k <= total
  BY ExpireRow, RemovableBounds
<1>4. CASE total = 0
  <2>1. k = 0
    BY <1>3, <1>4
  <2>2. Expire(w) = w
    BY <2>1 DEF Expire
  <2>3. QED
    BY <1>4, <2>2
<1>5. CASE total # 0
  <2>1. w.promo > 0 /\ total <= w.promo
    BY <1>1, <1>2, <1>5
  <2>2. w.expiry \in lapsed
    BY <1>1, <1>2, <1>5 DEF EarliestActive, LapsedInOrder
  <2>3. k = Least(Least(w.promo, Greatest(w.balance - w.held, 0)), total)
    BY <2>1, <2>2 DEF Removable
  <2>4. k = total
    <3>1. total \in Nat /\ w.promo \in Nat
      BY <1>1, <1>2
    <3> HIDE DEF k, total
    <3>2. QED
      BY <1>1, <1>3, <2>1, <2>3, <3>1 DEF Least, Greatest
  <2>5. Expire(w).remaining = ConsumeGrants(rem, k, lapsed)
    <3>1. k # 0
      BY <1>5, <2>4
    <3>2. QED
      BY <3>1 DEF Expire, RowOK
  <2>6. LapsedSum(ConsumeGrants(rem, k, lapsed)) = total - k
    BY <1>1, <1>3, ConsumeFromLapsed
  <2>7. QED
    BY <1>3, <2>4, <2>5, <2>6
<1>6. QED
  BY <1>4, <1>5

\* ReserveWallet admits no request on credit that has lapsed, whatever older
\* holds were protecting when it lapsed.
THEOREM NoLapsedCreditAdmitted == Spec => NoReservationOnLapsedCredit
<1>1. ASSUME WalletInv, [Next]_vars, NEW r \in Requests,
             hold[r] = "none", hold'[r] = "open"
      PROVE  LapsedSum(wallet'.remaining) = 0
  <2>1. PICK a \in Amounts : ReserveWallet(r, a)
    <3>1. ASSUME NEW q \in Requests, NEW cost \in Amounts \cup {0}, Settle(q, cost)
          PROVE  FALSE
      BY <1>1, <3>1 DEF Settle, IsOpen, PromoUsed, WalletInv, TypeOK
    <3>2. ASSUME NEW q \in Requests, NEW status \in {"released", "expired"},
                 CloseHold(q, status)
          PROVE  FALSE
      BY <1>1, <3>2 DEF CloseHold, IsOpen, WalletInv, TypeOK
    <3>3. ASSUME NEW q \in Requests, NEW a \in Amounts, ReserveWallet(q, a)
          PROVE  q = r
      BY <1>1, <3>3 DEF ReserveWallet, HasHold, Admits, WalletInv, TypeOK
    <3>4. ~ UNCHANGED hold
      BY <1>1
    <3>5. QED
      BY <1>1, <3>1, <3>2, <3>3, <3>4
         DEF Next, vars, ReleaseWallet, ReleaseExpiredHold, SettleWallet, RecordUsage,
             HoldLapses, ExpirePromotionalCredits, CreditTopup, GrantTrial, GrantLapses
  <2> DEFINE w == Expire(wallet)
  <2>2. RowOK(w) /\ RowOK(wallet) /\ LapsedInOrder
    BY <1>1, InvRow, ExpireRow DEF WalletInv
  <2>3. w.balance > w.held
    BY <2>1, <2>2, WalletAssumption DEF ReserveWallet, HasHold, Admits, RowOK
  <2>4. LapsedSum(w.remaining) = 0
    BY <2>2, <2>3, SpendableIsUnlapsed
  <2>5. wallet'.remaining = w.remaining /\ lapsed' = lapsed
    <3>1. wallet' = [w EXCEPT !.held = @ + a] /\ lapsed' = lapsed
      BY <2>1 DEF ReserveWallet, HasHold, Admits
    <3> HIDE DEF w
    <3>2. QED
      BY <2>2, <3>1 DEF RowOK
  <2>6. QED
    BY <2>4, <2>5 DEF LapsedSum
<1>2. WalletInv /\ [Next]_vars =>
        [\A r \in Requests : hold[r] = "none" /\ hold'[r] = "open" =>
            LapsedSum(wallet'.remaining) = 0]_vars
  BY <1>1
<1>3. QED
  BY <1>2, WalletAlways, PTL DEF Spec, NoReservationOnLapsedCredit

\* Paid credit leaves the wallet only through a settlement that has used up the
\* promotional credit first: expiry never takes it.
THEOREM PaidCreditLast == Spec => PaidCreditSpentLast
<1> DEFINE paid == wallet.balance - wallet.promo
           SpentBySettling == /\ wallet'.promo = 0
                              /\ \E r \in Requests : hold[r] = "open" /\ hold'[r] = "settled"
<1>1. ASSUME WalletInv, [Next]_vars
      PROVE  paid' < paid => SpentBySettling
  <2>1. RowOK(wallet) /\ wallet.balance \in Nat /\ wallet.promo \in Nat
    BY <1>1, InvRow DEF RowOK
  <2>2. ASSUME NEW r \in Requests, NEW cost \in Amounts \cup {0}, Settle(r, cost)
        PROVE  paid' < paid => SpentBySettling
    <3>1. cost \in Nat
      BY WalletAssumption
    <3>2. /\ wallet'.balance = wallet.balance - cost
          /\ wallet'.promo = wallet.promo - Least(wallet.promo, cost)
          /\ hold[r] = "open"
          /\ hold'[r] = "settled"
      BY <1>1, <2>2 DEF Settle, IsOpen, PromoUsed, WalletInv, TypeOK
    <3>3. QED
      BY <2>1, <3>1, <3>2 DEF Least
  <2>3. ASSUME NEW r \in Requests, NEW status, CloseHold(r, status)
        PROVE  paid' = paid
    <3> DEFINE v == [wallet EXCEPT !.held = @ - amount[r]]
    <3>1. hold[r] = "open" /\ wallet' = Expire(v)
      BY <2>3 DEF CloseHold, IsOpen
    <3>2. RowOK(v) /\ v.balance = wallet.balance /\ v.promo = wallet.promo
      BY <1>1, <3>1, InvIsSound, ReleasedRow
    <3> HIDE DEF v
    <3>3. /\ wallet'.balance = wallet.balance - Removable(v)
          /\ wallet'.promo = wallet.promo - Removable(v)
          /\ Removable(v) \in Nat
      BY <3>1, <3>2, ExpireRow, RemovableBounds
    <3>4. QED
      BY <2>1, <3>3
  <2>4. ASSUME NEW r \in Requests, NEW a \in Amounts, ReserveWallet(r, a)
        PROVE  paid' = paid
    <3> DEFINE w == Expire(wallet)
    <3>1. wallet' = [w EXCEPT !.held = @ + a]
      BY <2>4 DEF ReserveWallet, HasHold, Admits
    <3>2. /\ RowOK(w)
          /\ w.balance = wallet.balance - Removable(wallet)
          /\ w.promo = wallet.promo - Removable(wallet)
          /\ Removable(wallet) \in Nat
      BY <2>1, ExpireRow, RemovableBounds
    <3> HIDE DEF w
    <3>3. wallet'.balance = w.balance /\ wallet'.promo = w.promo
      BY <3>1, <3>2 DEF RowOK
    <3>4. QED
      BY <2>1, <3>2, <3>3
  <2>5. CASE ExpirePromotionalCredits
    <3>1. wallet' = Expire(wallet)
      BY <2>5 DEF ExpirePromotionalCredits
    <3>2. /\ wallet'.balance = wallet.balance - Removable(wallet)
          /\ wallet'.promo = wallet.promo - Removable(wallet)
          /\ Removable(wallet) \in Nat
      BY <2>1, <3>1, ExpireRow, RemovableBounds
    <3>3. QED
      BY <2>1, <3>2
  <2>6. ASSUME NEW c \in TopUps, CreditTopup(c)
        PROVE  paid' = paid + c /\ c \in Nat
    <3>1. wallet'.balance = wallet.balance + c /\ wallet'.promo = wallet.promo
      BY <1>1, <2>6 DEF CreditTopup, WalletInv, TypeOK
    <3>2. QED
      BY <2>1, <3>1, WalletAssumption
  <2>7. CASE GrantTrial
    <3>1. /\ wallet'.balance = wallet.balance + TrialMicros
          /\ wallet'.promo = wallet.promo + TrialMicros
      BY <1>1, <2>7 DEF GrantTrial, WalletInv, TypeOK
    <3>2. QED
      BY <2>1, <3>1, WalletAssumption
  <2>8. CASE UNCHANGED wallet
    BY <2>1, <2>8
  <2>9. paid' \in Int /\ paid \in Int
    <3>1. TypeOK'
      BY <1>1, WalletStep DEF WalletInv
    <3>2. QED
      BY <2>1, <3>1 DEF TypeOK
  <2> HIDE DEF paid, SpentBySettling
  <2>10. ASSUME paid' = paid \/ \E c \in TopUps : paid' = paid + c /\ c \in Nat
         PROVE  ~ (paid' < paid)
    BY <2>9, <2>10
  <2>11. QED
    BY <1>1, <2>2, <2>3, <2>4, <2>5, <2>6, <2>7, <2>8, <2>10
       DEF Next, vars, ReleaseWallet, ReleaseExpiredHold, SettleWallet, RecordUsage,
           HoldLapses, GrantLapses
<1>2. WalletInv /\ [Next]_vars =>
        [LET was == wallet.balance - wallet.promo
             is == wallet'.balance - wallet'.promo
         IN  is < was =>
                /\ wallet'.promo = 0
                /\ \E r \in Requests : hold[r] = "open" /\ hold'[r] = "settled"]_vars
  BY <1>1
<1>3. QED
  BY <1>2, WalletAlways, PTL DEF Spec, PaidCreditSpentLast

\* What was reserved can be settled for all of it if the grants cover what it
\* takes of them: neither the balance nor the table's CHECK refuses it.
LEMMA CoveredSettles ==
    ASSUME WalletSound, NEW r \in Requests, hold[r] = "open",
           \/ wallet.promo = GrantSum(wallet.remaining)
           \/ amount[r] <= GrantSum(wallet.remaining)
    PROVE  CanSettle(r, amount[r])
<1> DEFINE used == PromoUsed(amount[r])
           rem == ConsumeGrants(wallet.remaining, used, Grants)
<1>1. /\ amount[r] <= wallet.held
      /\ amount[r] \in Nat
      /\ RowOK(wallet)
  BY ReleasedRow, SoundRow DEF WalletSound, TypeOK
<1>2. /\ used \in Nat
      /\ used <= GrantSum(wallet.remaining)
      /\ wallet.remaining \in [Grants -> Nat]
      /\ GrantSum(wallet.remaining) \in Nat
  <2>1. wallet.remaining \in [Grants -> Nat] /\ wallet.promo \in Nat
    BY <1>1 DEF RowOK
  <2>2. GrantSum(wallet.remaining) \in Nat
    BY <2>1 DEF GrantSum, Grants
  <2>3. QED
    BY <1>1, <2>1, <2>2 DEF PromoUsed, Least
<1>3. GrantSum(rem) = GrantSum(wallet.remaining) - used
  <2> HIDE DEF used
  <2>1. QED
    BY <1>2, ConsumeFromAll
<1> HIDE DEF used, rem
<1>4. GrantSum(wallet.remaining) - GrantSum(rem) = used
  BY <1>2, <1>3
<1>5. /\ wallet.balance >= amount[r]
      /\ wallet.held >= amount[r]
      /\ wallet.held - amount[r] <= wallet.balance - amount[r]
  BY <1>1 DEF RowOK
<1>6. QED
  BY <1>4, <1>5 DEF CanSettle, used, rem

\* A reservation can always be settled for all it reserved: neither the balance,
\* nor the table's CHECK, nor the grants refuse it.
THEOREM ReservationsSettle == Spec => []ReservedCostSettles
<1>1. WalletInv => ReservedCostSettles
  BY InvIsSound, CoveredSettles DEF WalletInv, GrantsBackPromo, ReservedCostSettles
<1>2. QED
  BY <1>1, WalletAlways, PTL

-----------------------------------------------------------------------------
(***************************************************************************)
(* Wallet implements Escrow: initial states map to initial states, every   *)
(* transaction maps to a step of Escrow or to a stutter.  The proof rests  *)
(* on WalletInv, whose conjuncts say that what is set aside is within the  *)
(* balance and that expiry and settlement take what they say they take.    *)
(***************************************************************************)

(* How the mapped columns follow the rows. *)

LEMMA MapOpen ==
    ASSUME TypeOK, NEW r \in Requests, NEW a,
           hold' = [hold EXCEPT ![r] = "open"], amount' = [amount EXCEPT ![r] = a]
    PROVE  /\ HeldBy' = [HeldBy EXCEPT ![r] = a]
           /\ EscrowFate' = [EscrowFate EXCEPT ![r] = "open"]
BY DEF TypeOK, HeldBy, EscrowFate

LEMMA MapClose ==
    ASSUME TypeOK, NEW r \in Requests, NEW status \in {"settled", "released", "expired"},
           hold' = [hold EXCEPT ![r] = status], amount' = amount
    PROVE  /\ HeldBy' = [HeldBy EXCEPT ![r] = 0]
           /\ EscrowFate' = [EscrowFate EXCEPT
                                ![r] = IF status = "settled" THEN "charged" ELSE "returned"]
BY DEF TypeOK, HeldBy, EscrowFate

LEMMA MapOfOpen ==
    ASSUME TypeOK, NEW r \in Requests, hold[r] = "open"
    PROVE  EscrowFate[r] = "open" /\ HeldBy[r] = amount[r] /\ amount[r] \in Nat
BY DEF TypeOK, HeldBy, EscrowFate

LEMMA MapUnchanged ==
    ASSUME UNCHANGED <<hold, amount>>
    PROVE  HeldBy' = HeldBy /\ EscrowFate' = EscrowFate
BY DEF HeldBy, EscrowFate

-----------------------------------------------------------------------------

LEMMA EscrowInit == Init => Escrow!Init
<1> SUFFICES ASSUME Init
             PROVE  Escrow!Init
  OBVIOUS
<1>1. wallet.balance - wallet.held \in Nat
  BY WalletAssumption DEF Init
<1>2. HeldBy = [r \in Requests |-> 0] /\ EscrowFate = [r \in Requests |-> "none"]
  BY DEF Init, HeldBy, EscrowFate
<1>3. QED
  BY <1>1, <1>2 DEF Escrow!Init

LEMMA ReserveSetsAside ==
    ASSUME WalletInv, NEW r \in Requests, NEW a \in Amounts, ReserveWallet(r, a)
    PROVE  Escrow!Next
<1> DEFINE w == Expire(wallet)
           k == Removable(wallet)
           free == wallet.balance - wallet.held
<1>1. /\ RowOK(w)
      /\ RowOK(wallet)
      /\ w.balance = wallet.balance - k
      /\ w.held = wallet.held
      /\ k \in Nat
      /\ a \in Nat
  BY InvRow, ExpireRow, RemovableBounds, WalletAssumption
<1>2. /\ hold[r] = "none"
      /\ w.balance - w.held >= a
      /\ wallet' = [w EXCEPT !.held = @ + a]
      /\ hold' = [hold EXCEPT ![r] = "open"]
      /\ amount' = [amount EXCEPT ![r] = a]
  BY DEF ReserveWallet, HasHold, Admits
<1> HIDE DEF w, k
<1>3. wallet'.balance = w.balance /\ wallet'.held = w.held + a
  BY <1>1, <1>2 DEF RowOK
<1>4. /\ a \in 0 .. free
      /\ wallet'.balance - wallet'.held \in 0 .. (free - a)
  BY <1>1, <1>2, <1>3 DEF RowOK
<1>5. /\ HeldBy' = [HeldBy EXCEPT ![r] = a]
      /\ EscrowFate' = [EscrowFate EXCEPT ![r] = "open"]
      /\ EscrowFate[r] = "none"
  <2>1. TypeOK
    BY DEF WalletInv
  <2>2. EscrowFate[r] = "none"
    BY <1>2 DEF EscrowFate
  <2>3. QED
    BY <1>2, <2>1, <2>2, MapOpen
<1>6. QED
  BY <1>4, <1>5 DEF Escrow!Next, Escrow!SetAside

LEMMA CloseReturns ==
    ASSUME WalletInv, NEW r \in Requests, NEW status \in {"released", "expired"},
           CloseHold(r, status)
    PROVE  Escrow!Next
<1> DEFINE v == [wallet EXCEPT !.held = @ - amount[r]]
           free == wallet.balance - wallet.held
<1>1. /\ hold[r] = "open"
      /\ wallet' = Expire(v)
      /\ hold' = [hold EXCEPT ![r] = status]
      /\ amount' = amount
  BY DEF CloseHold, IsOpen
<1>2. /\ RowOK(v)
      /\ v.balance = wallet.balance
      /\ v.held = wallet.held - amount[r]
      /\ RowOK(wallet)
  BY <1>1, ReleasedRow, InvIsSound, InvRow
<1> HIDE DEF v
<1>3. /\ wallet'.balance = v.balance - Removable(v)
      /\ wallet'.held = v.held
      /\ Removable(v) \in Nat
      /\ Removable(v) <= v.balance - v.held
  BY <1>1, <1>2, ExpireRow, RemovableBounds
<1>4. TypeOK
  BY DEF WalletInv
<1>5. EscrowFate[r] = "open" /\ HeldBy[r] = amount[r] /\ amount[r] \in Nat
  BY <1>1, <1>4, MapOfOpen
<1>6. wallet'.balance - wallet'.held \in 0 .. (free + HeldBy[r])
  BY <1>2, <1>3, <1>5 DEF RowOK
<1>7. /\ HeldBy' = [HeldBy EXCEPT ![r] = 0]
      /\ EscrowFate' = [EscrowFate EXCEPT ![r] = "returned"]
  BY <1>1, <1>4, MapClose
<1>8. QED
  BY <1>5, <1>6, <1>7 DEF Escrow!Next, Escrow!Return

LEMMA SettleCharges ==
    ASSUME WalletInv, NEW r \in Requests, NEW cost \in Amounts \cup {0}, Settle(r, cost)
    PROVE  Escrow!Next
<1> DEFINE free == wallet.balance - wallet.held
<1>1. /\ hold[r] = "open"
      /\ wallet'.balance = wallet.balance - cost
      /\ wallet'.held = wallet.held - amount[r]
      /\ hold' = [hold EXCEPT ![r] = "settled"]
      /\ amount' = amount
      /\ wallet.held - amount[r] <= wallet.balance - cost
  BY DEF Settle, IsOpen, CanSettle
<1>2. RowOK(wallet) /\ TypeOK /\ cost \in Nat
  BY InvRow, WalletAssumption DEF WalletInv
<1>3. EscrowFate[r] = "open" /\ HeldBy[r] = amount[r] /\ amount[r] \in Nat
  BY <1>1, <1>2, MapOfOpen
<1>4. /\ cost \in 0 .. (free + HeldBy[r])
      /\ wallet'.balance - wallet'.held = free + HeldBy[r] - cost
  BY <1>1, <1>2, <1>3 DEF RowOK
<1>5. /\ HeldBy' = [HeldBy EXCEPT ![r] = 0]
      /\ EscrowFate' = [EscrowFate EXCEPT ![r] = "charged"]
  BY <1>1, <1>2, MapClose
<1>6. QED
  BY <1>3, <1>4, <1>5 DEF Escrow!Next, Escrow!Charge

LEMMA ExpiryLapses ==
    ASSUME WalletInv, ExpirePromotionalCredits
    PROVE  Escrow!Next
<1>1. /\ RowOK(wallet)
      /\ wallet'.balance = wallet.balance - Removable(wallet)
      /\ wallet'.held = wallet.held
      /\ Removable(wallet) \in Nat
      /\ Removable(wallet) <= wallet.balance - wallet.held
  BY InvRow, ExpireRow, RemovableBounds DEF ExpirePromotionalCredits
<1>2. wallet'.balance - wallet'.held \in 0 .. (wallet.balance - wallet.held)
  BY <1>1 DEF RowOK
<1>3. HeldBy' = HeldBy /\ EscrowFate' = EscrowFate
  BY MapUnchanged DEF ExpirePromotionalCredits
<1>4. QED
  BY <1>2, <1>3 DEF Escrow!Next, Escrow!Lapse

LEMMA CreditDeposits ==
    ASSUME WalletInv, GrantTrial \/ \E c \in TopUps : CreditTopup(c)
    PROVE  Escrow!Next
<1>1. PICK c \in Nat : wallet'.balance = wallet.balance + c /\ wallet'.held = wallet.held
  <2>1. ASSUME NEW c \in TopUps, CreditTopup(c)
        PROVE  /\ wallet'.balance = wallet.balance + c
               /\ wallet'.held = wallet.held
               /\ c \in Nat
    BY <2>1, WalletAssumption DEF CreditTopup, WalletInv, TypeOK
  <2>2. CASE GrantTrial
    BY <2>2, WalletAssumption DEF GrantTrial, WalletInv, TypeOK
  <2>3. QED
    BY <2>1, <2>2
<1>2. RowOK(wallet)
  BY InvRow
<1>3. /\ wallet'.balance - wallet'.held \in Nat
      /\ wallet'.balance - wallet'.held >= wallet.balance - wallet.held
  BY <1>1, <1>2 DEF RowOK
<1>4. HeldBy' = HeldBy /\ EscrowFate' = EscrowFate
  BY MapUnchanged DEF GrantTrial, CreditTopup
<1>5. QED
  BY <1>3, <1>4 DEF Escrow!Next, Escrow!Deposit

LEMMA QuietStutters ==
    ASSUME UNCHANGED <<wallet, hold, amount>>
    PROVE  UNCHANGED Escrow!vars
BY MapUnchanged DEF Escrow!vars

\* Every step of the wallet is a step of Escrow or invisible to it.
LEMMA EscrowStep == WalletInv /\ [Next]_vars => [Escrow!Next]_(Escrow!vars)
<1> SUFFICES ASSUME WalletInv, [Next]_vars
             PROVE  [Escrow!Next]_(Escrow!vars)
  OBVIOUS
<1>1. ASSUME NEW r \in Requests, NEW a \in Amounts, ReserveWallet(r, a)
      PROVE  Escrow!Next
  BY <1>1, ReserveSetsAside
<1>2. ASSUME NEW r \in Requests, ReleaseWallet(r) \/ ReleaseExpiredHold(r)
      PROVE  Escrow!Next
  BY <1>2, CloseReturns DEF ReleaseWallet, ReleaseExpiredHold
<1>3. ASSUME NEW r \in Requests, NEW cost \in Amounts \cup {0}, Settle(r, cost)
      PROVE  Escrow!Next
  BY <1>3, SettleCharges
<1>4. CASE ExpirePromotionalCredits
  BY <1>4, ExpiryLapses
<1>5. CASE GrantTrial \/ \E c \in TopUps : CreditTopup(c)
  BY <1>5, CreditDeposits
<1>6. CASE UNCHANGED <<wallet, hold, amount>>
  BY <1>6, QuietStutters
<1>7. QED
  BY <1>1, <1>2, <1>3, <1>4, <1>5, <1>6
     DEF Next, vars, SettleWallet, RecordUsage, HoldLapses, GrantLapses

\* The wallet of internal/store keeps the promise of Escrow for any number of
\* requests and any amounts: it is never overdrawn, a request sets credit aside
\* once, and is charged only out of its own and of spendable credit.
THEOREM WalletImplementsEscrow == Spec => ImplementsEscrow
BY EscrowInit, EscrowStep, WalletAlways, PTL DEF Spec, ImplementsEscrow, Escrow!Spec
=============================================================================
