------------------------------- MODULE Wallet -------------------------------
(***************************************************************************)
(* One user's prepaid wallet in napkey-core's Postgres store: the wallets  *)
(* row, its promotional grants, the wallet_holds rows of the user's        *)
(* requests, and the part of the ledger the reconciler sums.               *)
(*                                                                         *)
(* Every operation of internal/store is one database transaction that      *)
(* locks the wallet row before it decides anything, so each is one atomic  *)
(* action; a transaction that returns an error rolls back and is a step    *)
(* that changes nothing.  Time appears only through what a query compares  *)
(* with now(): the set of lapsed grants and the set of overdue holds.      *)
(***************************************************************************)
EXTENDS Integers, Sums

CONSTANTS
    NumRequests,    \* request ids are numbered 1..NumRequests
    Amounts,        \* what a hold may reserve and a request may cost
    TopUps,         \* what a payment may credit
    TrialMicros,    \* the trial credit granted on verification
    BonusMicros,    \* a first top-up bonus granted before the bonus was retired
    EarlierGrant,   \* the grant whose expires_at comes first
    MaxCredited     \* bound: total credit a behaviour may bring in

Grants == {"trial", "bonus"}

ASSUME WalletAssumption ==
    /\ NumRequests \in Nat
    /\ Amounts \subseteq Nat \ {0}
    /\ TopUps \subseteq Nat \ {0}
    /\ TrialMicros \in Nat \ {0}
    /\ BonusMicros \in Nat
    /\ EarlierGrant \in Grants
    /\ MaxCredited \in Nat

VARIABLES
    wallet,     \* the wallets row and the grants' remaining_micros
    lapsed,     \* grants whose expires_at is past
    trialRow,   \* a trial_grants row exists for the user
    hold,       \* wallet_holds.status by request, "none" without a row
    amount,     \* wallet_holds.amount_micros by request
    overdue,    \* open holds whose expires_at is past
    recorded,   \* requests with a usage_records row
    charged,    \* ledger rows of kind usage, by request
    credited,   \* ledger total of kinds topup, trial and promotion
    expiredOut  \* ledger total removed by promotional expiry

vars == <<wallet, lapsed, trialRow, hold, amount, overdue, recorded, charged,
          credited, expiredOut>>

Requests == 1 .. NumRequests
NoExpiry == "never"
HoldStatus == {"none", "open", "settled", "released", "expired"}

LaterGrant == CHOOSE g \in Grants : g # EarlierGrant

Least(a, b) == IF a <= b THEN a ELSE b
Greatest(a, b) == IF a >= b THEN a ELSE b

(***************************************************************************)
(* Promotional grants.                                                     *)
(***************************************************************************)

\* What two grants hold together.
GrantSum(rem) == rem["trial"] + rem["bonus"]

\* min(expires_at) over the grants with credit left, named by its grant.
EarliestActive(rem) ==
    IF rem[EarlierGrant] > 0 THEN EarlierGrant
    ELSE IF rem[LaterGrant] > 0 THEN LaterGrant ELSE NoExpiry

\* consumePromotionalGrantsTx: take amt from the eligible grants, the one that
\* expires first first.  It falls short of amt when they hold less.
ConsumeGrants(rem, amt, eligible) ==
    LET first  == IF EarlierGrant \in eligible
                  THEN Least(amt, rem[EarlierGrant]) ELSE 0
        second == IF LaterGrant \in eligible
                  THEN Least(amt - first, rem[LaterGrant]) ELSE 0
    IN  [g \in Grants |-> rem[g] - (IF g = EarlierGrant THEN first ELSE second)]

\* Lapsed credit that expirePromotionalWalletTx may remove from w now: never
\* what an open hold protects, and only once the row's cached expiry is past.
LapsedSum(rem) ==
    (IF "trial" \in lapsed THEN rem["trial"] ELSE 0)
      + (IF "bonus" \in lapsed THEN rem["bonus"] ELSE 0)

Removable(w) ==
    IF w.promo > 0 /\ w.expiry \in lapsed
    THEN Least(Least(w.promo, Greatest(w.balance - w.held, 0)),
               LapsedSum(w.remaining))
    ELSE 0

\* Mutation: the cached expiry is cleared instead of recomputed.
ExpireClearingExpiry(w) ==
    [w EXCEPT !.balance = @ - Removable(w),
              !.promo = @ - Removable(w),
              !.remaining = ConsumeGrants(@, Removable(w), lapsed),
              !.expiry = IF Removable(w) = 0 THEN @ ELSE NoExpiry]

\* expirePromotionalWalletTx: w after the removable credit is gone.
Expire(w) ==
    LET removable == Removable(w)
        rem == ConsumeGrants(w.remaining, removable, lapsed)
    IN  IF removable = 0 THEN w
        ELSE [w EXCEPT !.balance = @ - removable,
                       !.promo = @ - removable,
                       !.remaining = rem,
                       !.expiry = EarliestActive(rem)]

-----------------------------------------------------------------------------

\* A user whose wallet may carry a bonus from before the bonus was retired.
Init ==
    /\ \E b \in {0, BonusMicros} :
        /\ wallet = [balance |-> b, held |-> 0, promo |-> b,
                     expiry |-> IF b > 0 THEN "bonus" ELSE NoExpiry,
                     remaining |-> [g \in Grants |-> IF g = "bonus" THEN b ELSE 0]]
        /\ credited = b
    /\ lapsed = {}
    /\ trialRow = FALSE
    /\ hold = [r \in Requests |-> "none"]
    /\ amount = [r \in Requests |-> 0]
    /\ overdue = {}
    /\ recorded = {}
    /\ charged = [r \in Requests |-> 0]
    /\ expiredOut = 0

\* A hold of any status answers a reservation for the request.
HasHold(r) == hold[r] # "none"

\* WHERE request_id=$1 AND status='open'.
IsOpen(r) == hold[r] = "open"

\* Mutation: what other requests hold is not subtracted.
AdmitsHeldCredit(w, a) == w.balance >= a

\* The spendable balance covers a reservation of a.
Admits(w, a) == w.balance - w.held >= a

\* ReserveWallet for a request without a hold.  (With one, of any status, the
\* existing hold is returned and nothing changes.)
ReserveWallet(r, a) ==
    LET w == Expire(wallet) IN
    /\ ~ HasHold(r)
    /\ Admits(w, a)
    /\ wallet' = [w EXCEPT !.held = @ + a]
    /\ hold' = [hold EXCEPT ![r] = "open"]
    /\ amount' = [amount EXCEPT ![r] = a]
    /\ expiredOut' = expiredOut + Removable(wallet)
    /\ UNCHANGED <<lapsed, trialRow, overdue, recorded, charged, credited>>

\* The part ReleaseWallet and ReleaseExpiredHolds share: the hold's amount goes
\* back to the spendable balance, then lapsed credit it protected goes.
CloseHold(r, status) ==
    LET w == [wallet EXCEPT !.held = @ - amount[r]] IN
    /\ IsOpen(r)
    /\ wallet' = Expire(w)
    /\ hold' = [hold EXCEPT ![r] = status]
    /\ expiredOut' = expiredOut + Removable(w)
    /\ UNCHANGED <<lapsed, trialRow, amount, overdue, recorded, charged, credited>>

\* ReleaseWallet: refused by its UPDATE's own condition if held is too small.
ReleaseWallet(r) ==
    /\ wallet.held >= amount[r]
    /\ CloseHold(r, "released")

\* Mutation: an expiry pass that finds nothing to remove fails the round.
ReleaseExpiredHoldIfLapsed(r) ==
    /\ r \in overdue
    /\ Removable([wallet EXCEPT !.held = @ - amount[r]]) > 0
    /\ CloseHold(r, "expired")

\* One round of ReleaseExpiredHolds.
ReleaseExpiredHold(r) ==
    /\ r \in overdue
    /\ CloseHold(r, "expired")

\* The promotional part of a charge.
PromoUsed(cost) == Least(wallet.promo, cost)

\* Mutation: the request is settled out of what the others hold.
CanSettleOfOthers(r, cost) ==
    /\ wallet.balance >= cost
    /\ wallet.held >= amount[r]

\* settleWalletTx commits: its UPDATE matches, the row's CHECK held <= balance
\* accepts the result, and the grants cover the promotional part of the cost.
CanSettle(r, cost) ==
    LET rem == ConsumeGrants(wallet.remaining, PromoUsed(cost), Grants)
    IN  /\ wallet.balance >= cost
        /\ wallet.held >= amount[r]
        /\ wallet.held - amount[r] <= wallet.balance - cost
        /\ GrantSum(wallet.remaining) - GrantSum(rem) = PromoUsed(cost)

\* settleWalletTx on an open hold.
Settle(r, cost) ==
    LET rem == ConsumeGrants(wallet.remaining, PromoUsed(cost), Grants)
    IN  /\ IsOpen(r)
        /\ CanSettle(r, cost)
        /\ wallet' = [balance |-> wallet.balance - cost,
                      held |-> wallet.held - amount[r],
                      promo |-> wallet.promo - PromoUsed(cost),
                      expiry |-> EarliestActive(rem),
                      remaining |-> rem]
        /\ charged' = [charged EXCEPT ![r] = cost]
        /\ hold' = [hold EXCEPT ![r] = "settled"]
        /\ UNCHANGED <<lapsed, trialRow, amount, overdue, credited, expiredOut>>

\* SettleWallet, the store's settlement outside a usage report.
SettleWallet(r, cost) ==
    /\ Settle(r, cost)
    /\ UNCHANGED recorded

\* RecordUsage for a request not on file: the row is written, and the hold is
\* settled in the same transaction.  Without an open hold (allowMissing) the
\* row stands and nothing is charged.
RecordUsage(r, cost) ==
    /\ r \notin recorded
    /\ recorded' = recorded \cup {r}
    /\ \/ Settle(r, cost)
       \/ /\ ~ IsOpen(r)
          /\ UNCHANGED <<wallet, lapsed, trialRow, hold, amount, overdue,
                         charged, credited, expiredOut>>

\* GetWallet and the janitor's ExpirePromotionalCredits.
ExpirePromotionalCredits ==
    /\ Removable(wallet) > 0
    /\ wallet' = Expire(wallet)
    /\ expiredOut' = expiredOut + Removable(wallet)
    /\ UNCHANGED <<lapsed, trialRow, hold, amount, overdue, recorded, charged,
                   credited>>

\* A payment credited by CreditPayOSPayment or CreditPaymentEvent.
CreditTopup(c) ==
    /\ credited + c <= MaxCredited
    /\ wallet' = [wallet EXCEPT !.balance = @ + c]
    /\ credited' = credited + c
    /\ UNCHANGED <<lapsed, trialRow, hold, amount, overdue, recorded, charged,
                   expiredOut>>

\* Mutation: a trial keeps the later expiry of the bonus already there.
GrantTrialKeepingExpiry ==
    /\ ~ trialRow
    /\ "trial" \notin lapsed
    /\ credited + TrialMicros <= MaxCredited
    /\ trialRow' = TRUE
    /\ wallet' = [wallet EXCEPT !.balance = @ + TrialMicros, !.promo = @ + TrialMicros,
                                !.remaining["trial"] = TrialMicros,
                                !.expiry = IF @ = NoExpiry THEN "trial" ELSE @]
    /\ credited' = credited + TrialMicros
    /\ UNCHANGED <<lapsed, hold, amount, overdue, recorded, charged, expiredOut>>

\* VerifyEmailAndGrantTrial and GrantTrialForUser: at most one row per user,
\* and only for an expiry in the future.
GrantTrial ==
    /\ ~ trialRow
    /\ "trial" \notin lapsed
    /\ credited + TrialMicros <= MaxCredited
    /\ trialRow' = TRUE
    /\ wallet' = [wallet EXCEPT
                    !.balance = @ + TrialMicros,
                    !.promo = @ + TrialMicros,
                    !.remaining["trial"] = TrialMicros,
                    !.expiry = IF EarlierGrant \in {@, "trial"}
                               THEN EarlierGrant ELSE "trial"]
    /\ credited' = credited + TrialMicros
    /\ UNCHANGED <<lapsed, hold, amount, overdue, recorded, charged, expiredOut>>

\* The clock passes a grant's expires_at.
GrantLapses(g) ==
    /\ g \notin lapsed
    /\ g = EarlierGrant \/ EarlierGrant \in lapsed
    /\ lapsed' = lapsed \cup {g}
    /\ UNCHANGED <<wallet, trialRow, hold, amount, overdue, recorded, charged,
                   credited, expiredOut>>

\* The clock passes a hold's expires_at, fifteen minutes after it was taken.
HoldLapses(r) ==
    /\ IsOpen(r)
    /\ r \notin overdue
    /\ overdue' = overdue \cup {r}
    /\ UNCHANGED <<wallet, lapsed, trialRow, hold, amount, recorded, charged,
                   credited, expiredOut>>

Next ==
    \/ \E r \in Requests :
        \/ \E a \in Amounts : ReserveWallet(r, a)
        \/ ReleaseWallet(r)
        \/ ReleaseExpiredHold(r)
        \/ \E cost \in Amounts \cup {0} : SettleWallet(r, cost)
        \/ \E cost \in Amounts \cup {0} : RecordUsage(r, cost)
        \/ HoldLapses(r)
    \/ ExpirePromotionalCredits
    \/ \E c \in TopUps : CreditTopup(c)
    \/ GrantTrial
    \/ \E g \in Grants : GrantLapses(g)

Spec == Init /\ [][Next]_vars

\* The janitor runs every hour for as long as the process does, and time passes.
Fairness ==
    /\ \A r \in Requests : WF_vars(HoldLapses(r)) /\ WF_vars(ReleaseExpiredHold(r))
    /\ WF_vars(ExpirePromotionalCredits)

FairSpec == Spec /\ Fairness

-----------------------------------------------------------------------------
(***************************************************************************)
(* Properties.                                                             *)
(***************************************************************************)

\* What each request holds of the balance.
HeldBy == [r \in Requests |-> IF hold[r] = "open" THEN amount[r] ELSE 0]

\* The columns and rows have their types.
TypeOK ==
    /\ wallet \in [balance : Nat, held : Nat, promo : Nat,
                    expiry : Grants \cup {NoExpiry}, remaining : [Grants -> Nat]]
    /\ lapsed \in SUBSET Grants
    /\ trialRow \in BOOLEAN
    /\ hold \in [Requests -> HoldStatus]
    /\ amount \in [Requests -> Nat]
    /\ overdue \in SUBSET Requests
    /\ recorded \in SUBSET Requests
    /\ charged \in [Requests -> Nat]
    /\ credited \in Nat
    /\ expiredOut \in Nat

\* held_micros is the sum of the user's open holds, whichever of the racing
\* release, settlement and expiry closed the others: nothing stays reserved for
\* a request that is over, and nothing reserved is freed twice.
HeldIsSumOfOpenHolds == wallet.held = SumUpTo(HeldBy, NumRequests)

\* The CHECKs of the wallets table hold by the operations' own conditions, so
\* no operation but a settlement can be refused by them: holds never exceed the
\* balance and promotional credit is a part of it.
WithinBalance ==
    /\ wallet.held <= wallet.balance
    /\ wallet.promo <= wallet.balance

\* promotional_micros is what the grants still hold, and the cached expiry is
\* the earliest of theirs: the "promotional grant balance drifted" error of
\* consumePromotionalGrantsTx never arises.
GrantsBackPromo ==
    /\ wallet.promo = GrantSum(wallet.remaining)
    /\ wallet.expiry = EarliestActive(wallet.remaining)
    /\ wallet.remaining["trial"] > 0 => trialRow

\* A reservation is a guarantee: the request it admitted can be settled for all
\* it reserved, whatever other requests, the janitor, expiring credit and
\* payments did to the wallet meanwhile.
ReservedCostSettles == \A r \in Requests : hold[r] = "open" => CanSettle(r, amount[r])

\* ReconcileWalletBalances finds nothing: every micro ever credited is in the
\* balance, was removed as expired promotion, or was charged to a request that
\* was settled.
BooksBalance ==
    /\ wallet.balance + expiredOut + SumUpTo(charged, NumRequests) = credited
    /\ \A r \in Requests : charged[r] > 0 => hold[r] = "settled"

\* A hold is closed once: no later release, expiry, settlement or retried
\* reservation reopens it or charges it again.
ClosedHoldsStayClosed ==
    [][\A r \in Requests :
         hold[r] \notin {"none", "open"} =>
            hold'[r] = hold[r] /\ charged'[r] = charged[r]]_vars

\* A request is only admitted on credit that has not lapsed: after a successful
\* reservation no lapsed promotional credit is left in the wallet, not even
\* credit an older hold was protecting.
NoReservationOnLapsedCredit ==
    [][\A r \in Requests :
         hold[r] = "none" /\ hold'[r] = "open" => LapsedSum(wallet'.remaining) = 0]_vars

\* Money the user paid in leaves the wallet only by settlement, and only when
\* promotional credit is used up: expiry never eats into paid credit.
PaidCreditSpentLast ==
    [][LET paid == wallet.balance - wallet.promo
           paidNext == wallet'.balance - wallet'.promo
       IN  paidNext < paid =>
              /\ wallet'.promo = 0
              /\ \E r \in Requests : hold[r] = "open" /\ hold'[r] = "settled"]_vars

\* No hold stays open for good: the data plane may die with a request in
\* flight, the janitor still gives the reserved credit back.
EveryHoldCloses ==
    \A r \in Requests : hold[r] = "open" ~> hold[r] # "open"

\* Lapsed credit leaves even a wallet nobody looks at, and credit protected by
\* holds leaves once they are gone.
LapsedCreditLeaves ==
    \A g \in Grants : g \in lapsed ~> wallet.remaining[g] = 0

\* The wallet as the data plane sees it: spendable credit and one sum set aside
\* per request.
EscrowFate ==
    [r \in Requests |->
        IF hold[r] = "settled" THEN "charged"
        ELSE IF hold[r] \in {"released", "expired"} THEN "returned" ELSE hold[r]]

Escrow == INSTANCE Escrow WITH
    available <- wallet.balance - wallet.held,
    aside <- HeldBy,
    fate <- EscrowFate

\* Every transaction is a step of Escrow or leaves it unchanged: no interleaving
\* overdraws the wallet, sets credit aside twice for a request, or charges a
\* request out of what others set aside.
ImplementsEscrow == Escrow!Spec
=============================================================================
