------------------------------ MODULE Reprice ------------------------------
(***************************************************************************)
(* Migration 0017 in the life of a wallet: balances were credits at 75 VND *)
(* and are restated at 400 VND.  The migration runs once, under exclusive  *)
(* locks, so it is one step that may come at any point of the wallet's     *)
(* life, with holds open and grants partly used.  HeldIsSumOfOpenHolds,    *)
(* WithinBalance and BooksBalance of the wallet must survive it.           *)
(***************************************************************************)
EXTENDS Wallet

CONSTANTS NewPrice, OldPrice    \* 400 and 75

ASSUME RepriceAssumption ==
    /\ NewPrice \in Nat \ {0}
    /\ OldPrice \in Nat \ {0}
    /\ OldPrice <= NewPrice

VARIABLE repriced   \* the migration is in schema_migrations

repricedVars == <<wallet, lapsed, trialRow, hold, amount, overdue, recorded,
                  charged, credited, expiredOut, repriced>>

\* Mutation: rounded up, in the customer's favour.
ScaledUp(x) == (x * NewPrice + OldPrice - 1) \div OldPrice

\* floor(x::numeric * 400 / 75)::bigint
Scaled(x) == (x * NewPrice) \div OldPrice

ScaledHolds == [r \in Requests |-> IF hold[r] = "open" THEN Scaled(amount[r]) ELSE 0]

\* Mutation: the held column is scaled like the others.
HeldScaled == Scaled(wallet.held)

\* COALESCE((SELECT SUM(amount_micros) FROM wallet_holds ... 'open'), 0)
HeldResummed == SumUpTo(ScaledHolds, NumRequests)

\* Mutation: the wallet's total is adjusted by what its holds gained.
AdjustmentOfHolds == HeldResummed - wallet.held

\* The ledger's adjustment row: the change of the balance.
Adjustment == Scaled(wallet.balance) - wallet.balance

\* Closed holds keep the old amounts; nothing reads them again.
RepriceWallets ==
    /\ ~ repriced
    /\ repriced' = TRUE
    /\ wallet' = [wallet EXCEPT
                    !.balance = Scaled(@),
                    !.held = HeldResummed,
                    !.promo = Scaled(@),
                    !.remaining = [g \in Grants |-> Scaled(@[g])]]
    /\ amount' = [r \in Requests |->
                    IF hold[r] = "open" THEN Scaled(amount[r]) ELSE amount[r]]
    /\ credited' = credited + Adjustment
    /\ UNCHANGED <<lapsed, trialRow, hold, overdue, recorded, charged, expiredOut>>

RepriceInit == Init /\ repriced = FALSE

RepriceNext ==
    \/ Next /\ UNCHANGED repriced
    \/ RepriceWallets

RepriceSpec == RepriceInit /\ [][RepriceNext]_repricedVars

-----------------------------------------------------------------------------
\* Floored one by one, the grants lose at most one micro of the promotional
\* column, and none without the migration; whatever is spent, expires or is
\* granted afterwards adds nothing to the loss.  Unless its settlement needs that
\* micro, a request can still be settled for all it reserved, whether it did so
\* before the migration or after.
HoldsSettleButForAMicro ==
    LET left == GrantSum(wallet.remaining)
    IN  /\ wallet.promo - left \in 0 .. (IF repriced THEN 1 ELSE 0)
        /\ \A r \in Requests :
              hold[r] = "open" /\ (wallet.promo = left \/ amount[r] <= left)
                => CanSettle(r, amount[r])
=============================================================================
