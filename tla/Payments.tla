------------------------------ MODULE Payments ------------------------------
(***************************************************************************)
(* How money becomes credit in napkey-core: top-up orders, the PayOS       *)
(* webhook that credits a checkout at once, and the Casso events that a    *)
(* webhook or the 15-minute poll journals and a worker credits later.      *)
(*                                                                         *)
(* A transfer is one movement of money at a provider; its number stands    *)
(* for the provider's transaction id, so the payment_events row of a       *)
(* transfer is event[t].  Reports of a transfer may come at any time, any  *)
(* number of times and in any order.  Time appears through what a query    *)
(* compares with now(): lapsed orders and leases that are over.            *)
(***************************************************************************)
EXTENDS Integers, Sums

CONSTANTS
    NumTransfers,   \* bound: transfers are numbered 1..NumTransfers
    NewOrders,      \* orders a customer may place, all through PayOS
    CassoOrders,    \* orders from before PayOS, paid by bank transfer
    PartPaid,       \* those of them that got money before the last repricing
    Expected,       \* expected_amount_micros of every order
    Before,         \* what each of PartPaid had received
    Retail,         \* RetailVNDPerCredit, the rate of all other orders
    OldRate,        \* retail_vnd_per_credit of PartPaid
    MaxMicros,      \* math.MaxInt64
    Amounts,        \* what a transfer may bring in
    Workers,        \* payment workers: two processes overlap in a deployment
    MaxFailures     \* bound: how often a worker fails between claim and close

Orders == NewOrders \cup CassoOrders

\* What a transfer names when no order can be found by it: a description
\* without a memo, or a memo or order code that no order has.
Nowhere == "nowhere"

ASSUME PaymentsAssumption ==
    /\ NumTransfers \in Nat
    /\ NewOrders \cap CassoOrders = {}
    /\ Nowhere \notin Orders
    /\ PartPaid \subseteq CassoOrders
    /\ Expected \in Nat \ {0} /\ Before \in 1 .. Expected - 1
    /\ Retail \in Nat \ {0} /\ OldRate \in Nat \ {0} /\ MaxMicros \in Nat
    /\ Amounts \subseteq Nat \ {0}
    /\ MaxFailures \in Nat

VARIABLES
    order,      \* topup_orders: status ("none" without a row) and received
    lapsed,     \* orders whose expires_at is past
    checkout,   \* progress of handleCreateTopup by order
    transfer,   \* the movements of money: how, to which order, how much
    event,      \* payment_events.status by transfer, "none" without a row
    leaseOver,  \* claimed more than 5 minutes ago
    ledger,     \* ledger rows of kind topup by their idempotency key
    holding,    \* the transfers whose event a worker has claimed, by worker
    failures    \* how often a worker has failed

vars == <<order, lapsed, checkout, transfer, event, leaseOver, ledger, holding,
          failures>>
orderVars == <<order, lapsed, checkout>>
workVars == <<leaseOver, holding, failures>>

Transfers == 1 .. NumTransfers
NoTransfer == [via |-> "none", to |-> Nowhere, amount |-> 0]
Idle == 0
Unbooked == -1
Final == {"credited", "duplicate", "unmatched", "rejected"}

-----------------------------------------------------------------------------
(* Orders. *)

Exists(o) == o \in Orders /\ order[o].status # "none"

\* CreateTopupOrder, the first half of handleCreateTopup.
CreateTopupOrder(o) ==
    /\ o \in NewOrders
    /\ ~ Exists(o)
    /\ order' = [order EXCEPT ![o].status = "pending"]
    /\ checkout' = [checkout EXCEPT ![o] = "asked"]
    /\ UNCHANGED <<lapsed, transfer, event, ledger, workVars>>

\* PayOS answered: AttachPayOSCheckout keeps the link of a pending order.  A
\* handler that ends before this leaves its order as it is.
AttachPayOSCheckout(o) ==
    /\ checkout[o] = "asked"
    /\ checkout' = [checkout EXCEPT ![o] = IF order[o].status = "pending"
                                           THEN "linked" ELSE "closed"]
    /\ UNCHANGED <<order, lapsed, transfer, event, ledger, workVars>>

\* PayOS did not answer or answered wrongly: CancelTopupOrder.
CancelTopupOrder(o) ==
    /\ checkout[o] = "asked"
    /\ order' = IF order[o].status = "pending"
                THEN [order EXCEPT ![o].status = "cancelled"] ELSE order
    /\ checkout' = [checkout EXCEPT ![o] = "closed"]
    /\ UNCHANGED <<lapsed, transfer, event, ledger, workVars>>

OrderLapses(o) ==
    /\ order[o].status = "pending"
    /\ lapsed' = lapsed \cup {o}
    /\ UNCHANGED <<order, checkout, transfer, event, ledger, workVars>>

Expires(o) == order[o].status = "pending" /\ o \in lapsed

\* GetTopupOrder and ListTopupOrders expire what they are about to show.
GetTopupOrder(o) ==
    /\ Expires(o)
    /\ order' = [order EXCEPT ![o].status = "expired"]
    /\ UNCHANGED <<lapsed, checkout, transfer, event, ledger, workVars>>

-----------------------------------------------------------------------------
(* Money moves at the providers. *)

MoneyMoves(t, movement) ==
    /\ transfer[t] = NoTransfer
    /\ \A s \in Transfers : s < t => transfer[s] # NoTransfer
    /\ transfer' = [transfer EXCEPT ![t] = movement]
    /\ UNCHANGED <<orderVars, event, ledger, workVars>>

\* A checkout is paid.  The link has no expiry of its own; the payment may be
\* of another amount, or for an order this database does not have.
PayCheckout(t, o, amt) ==
    /\ (o \in NewOrders /\ checkout[o] = "linked") \/ o = Nowhere
    /\ MoneyMoves(t, [via |-> "payos", to |-> o, amount |-> amt])

\* Money enters the bank account with the memo of an order, with none that
\* ExtractMemoCode can read, or with one no order has.
BankTransfer(t, o, amt) ==
    /\ Exists(o) \/ o = Nowhere
    /\ MoneyMoves(t, [via |-> "casso", to |-> o, amount |-> amt])

\* Money leaves the bank account.
BankOutgoing(t) ==
    MoneyMoves(t, [via |-> "casso", to |-> Nowhere, amount |-> 0])

-----------------------------------------------------------------------------
(* Crediting. *)

\* retail_vnd_per_credit: migrations move it only while nothing came in.
RateOf(o) == IF o \in PartPaid THEN OldRate ELSE Retail

\* walletCreditMicros: the credits the order was quoted for this money, in the
\* wallet's value of today; fractions of a micro are dropped.
CreditMicros(amt, rate) ==
    (amt \div rate) * Retail + ((amt % rate) * Retail) \div rate

\* Its errors: a factor or the sum does not fit, and the transaction fails.
Convertible(amt, rate) ==
    /\ amt \div rate <= MaxMicros \div Retail
    /\ amt % rate <= MaxMicros \div Retail
    /\ CreditMicros(amt, rate) <= MaxMicros

CreditOf(t) == CreditMicros(transfer[t].amount, RateOf(transfer[t].to))

\* The ledger row of one payment; its idempotency key is unique.
Booked(t) == [ledger EXCEPT ![t] = CreditOf(t)]
Bookable(t) ==
    ledger[t] = Unbooked /\ Convertible(transfer[t].amount, RateOf(transfer[t].to))

\* Mutation: the order's received amount is replaced, as PayOS may do.
PaidBy(row, amt) ==
    [status |-> IF amt < Expected THEN "underpaid" ELSE "paid", received |-> amt]

\* What a bank transfer makes of its order, whatever the order's status was.
Credited(row, amt) ==
    [status |-> IF row.received + amt < Expected THEN "underpaid" ELSE "paid",
     received |-> row.received + amt]

\* How CreditPayOSPayment closes a new event.
PayOSVerdict(t) ==
    LET o == transfer[t].to
    IN  IF ~ Exists(o) THEN "unmatched"
        ELSE IF order[o].status = "paid" THEN "duplicate"
        ELSE IF order[o].status # "pending" THEN "rejected"
        ELSE IF transfer[t].amount # Expected THEN "rejected"
        ELSE "credited"

\* INSERT ... ON CONFLICT DO NOTHING found no row of the transfer.
FirstSeen(t) == event[t] = "none"

\* handlePayOSWebhook: one transaction journals, decides and credits.  A
\* repeated delivery, or a transaction that fails, changes nothing.
PayOSWebhook(t) ==
    /\ transfer[t].via = "payos"
    /\ FirstSeen(t)
    /\ event' = [event EXCEPT ![t] = PayOSVerdict(t)]
    /\ IF PayOSVerdict(t) = "credited"
       THEN /\ Bookable(t)
            /\ ledger' = Booked(t)
            /\ order' = [order EXCEPT ![transfer[t].to] =
                            [status |-> "paid", received |-> transfer[t].amount]]
       ELSE UNCHANGED <<order, ledger>>
    /\ UNCHANGED <<lapsed, checkout, transfer, workVars>>

\* handleCassoWebhook journals; a delivery whose signature does not verify or
\* whose timestamp is more than 5 minutes off is journalled as rejected.
CassoWebhook(t, verified) ==
    /\ transfer[t].via = "casso"
    /\ FirstSeen(t)
    /\ event' = [event EXCEPT ![t] = IF verified THEN "received" ELSE "rejected"]
    /\ UNCHANGED <<orderVars, transfer, ledger, workVars>>

\* Reconcile: the poll of the last 24 hours journals what no webhook did.
Reconcile(t) ==
    /\ transfer[t].via = "casso"
    /\ FirstSeen(t)
    /\ event' = [event EXCEPT ![t] = "received"]
    /\ UNCHANGED <<orderVars, transfer, ledger, workVars>>

-----------------------------------------------------------------------------
(* The payment workers. *)

\* Mutation: a claim is for ever.
ClaimableOnce(t) == event[t] = "received"

Claimable(t) ==
    event[t] = "received" \/ (event[t] = "processing" /\ t \in leaseOver)

\* ClaimPaymentEvent: ORDER BY id SKIP LOCKED takes the oldest event that no
\* other transaction has locked; which one that is is left open.
ClaimPaymentEvent(w, t) ==
    /\ holding[w] = Idle
    /\ Claimable(t)
    /\ event' = [event EXCEPT ![t] = "processing"]
    /\ leaseOver' = leaseOver \ {t}
    /\ holding' = [holding EXCEPT ![w] = t]
    /\ UNCHANGED <<orderVars, transfer, ledger, failures>>

LeaseEnds(t) ==
    /\ event[t] = "processing"
    /\ leaseOver' = leaseOver \cup {t}
    /\ UNCHANGED <<orderVars, transfer, event, ledger, holding, failures>>

\* What ProcessNext closes the event as.
Verdict(t) ==
    IF transfer[t].amount = 0 THEN "rejected"
    ELSE IF ~ Exists(transfer[t].to) THEN "unmatched"
    ELSE "credited"

\* RejectPaymentEvent, which closes only an event that is still in processing.
\* CreditPaymentEvent, called before it for a memo, changes nothing if the memo
\* has no order.
RejectPaymentEvent(w) ==
    /\ holding[w] # Idle
    /\ Verdict(holding[w]) # "credited"
    /\ event' = IF event[holding[w]] = "processing"
                THEN [event EXCEPT ![holding[w]] = Verdict(holding[w])]
                ELSE event
    /\ holding' = [holding EXCEPT ![w] = Idle]
    /\ UNCHANGED <<orderVars, transfer, ledger, leaseOver, failures>>

\* Mutation: the credit and the closing of the event are two transactions,
\* and the second is lost.
CreditPaymentEventUnclosed(w) ==
    LET t == holding[w]
    IN  /\ t # Idle
        /\ Verdict(t) = "credited"
        /\ event[t] = "processing" /\ Bookable(t)
        /\ ledger' = Booked(t)
        /\ order' = [order EXCEPT ![transfer[t].to] =
                        Credited(@, transfer[t].amount)]
        /\ holding' = [holding EXCEPT ![w] = Idle]
        /\ UNCHANGED <<lapsed, checkout, transfer, event, leaseOver, failures>>

\* CreditPaymentEvent: the amount received, to the order of the memo, in one
\* transaction that also closes the event.  On an event somebody else closed
\* it changes nothing, and an amount that cannot be converted stays claimed
\* until its lease is over.
CreditPaymentEvent(w) ==
    LET t == holding[w]
    IN  /\ t # Idle
        /\ Verdict(t) = "credited"
        /\ IF event[t] = "processing" /\ Bookable(t)
           THEN /\ ledger' = Booked(t)
                /\ order' = [order EXCEPT ![transfer[t].to] =
                                Credited(@, transfer[t].amount)]
                /\ event' = [event EXCEPT ![t] = "credited"]
           ELSE UNCHANGED <<ledger, order, event>>
        /\ holding' = [holding EXCEPT ![w] = Idle]
        /\ UNCHANGED <<lapsed, checkout, transfer, leaseOver, failures>>

\* The database fails, transactions conflict or the process ends between the
\* claim and the close: the event stays in processing.
WorkerFails(w) ==
    /\ holding[w] # Idle
    /\ failures < MaxFailures
    /\ failures' = failures + 1
    /\ holding' = [holding EXCEPT ![w] = Idle]
    /\ UNCHANGED <<orderVars, transfer, event, ledger, leaseOver>>

-----------------------------------------------------------------------------

Init ==
    /\ order = [o \in Orders |->
                  [status |-> IF o \in PartPaid THEN "underpaid"
                              ELSE IF o \in CassoOrders THEN "pending" ELSE "none",
                   received |-> IF o \in PartPaid THEN Before ELSE 0]]
    /\ lapsed = {}
    /\ checkout = [o \in Orders |-> "none"]
    /\ transfer = [t \in Transfers |-> NoTransfer]
    /\ event = [t \in Transfers |-> "none"]
    /\ leaseOver = {}
    /\ ledger = [t \in Transfers |-> Unbooked]
    /\ holding = [w \in Workers |-> Idle]
    /\ failures = 0

Next ==
    \/ \E o \in Orders :
        \/ CreateTopupOrder(o)
        \/ AttachPayOSCheckout(o)
        \/ CancelTopupOrder(o)
        \/ OrderLapses(o)
        \/ GetTopupOrder(o)
    \/ \E t \in Transfers :
        \/ \E o \in Orders \cup {Nowhere}, amt \in Amounts :
            PayCheckout(t, o, amt) \/ BankTransfer(t, o, amt)
        \/ BankOutgoing(t)
        \/ PayOSWebhook(t)
        \/ \E verified \in BOOLEAN : CassoWebhook(t, verified)
        \/ Reconcile(t)
        \/ LeaseEnds(t)
    \/ \E w \in Workers :
        \/ \E t \in Transfers : ClaimPaymentEvent(w, t)
        \/ RejectPaymentEvent(w)
        \/ CreditPaymentEvent(w)
        \/ WorkerFails(w)

Spec == Init /\ [][Next]_vars

\* The reconciler polls a transfer at least once before it leaves the 24-hour
\* window, the workers keep polling, and time passes.  Webhooks may never come.
\* Workers poll every 2 seconds and an event that failed is out of their sight
\* for 5 minutes, so it does not keep them from the others.
Fairness ==
    /\ \A t \in Transfers :
        /\ WF_vars(Reconcile(t)) /\ WF_vars(LeaseEnds(t))
        /\ SF_vars(\E w \in Workers : ClaimPaymentEvent(w, t))
    /\ \A w \in Workers : WF_vars(RejectPaymentEvent(w) \/ CreditPaymentEvent(w))

FairSpec == Spec /\ Fairness

-----------------------------------------------------------------------------
(***************************************************************************)
(* Properties.                                                             *)
(***************************************************************************)

\* The variables have their types; an event is in the hands of a worker only
\* after it was journalled.
PaymentsTypeOK ==
    /\ order \in [Orders -> [status : {"none", "pending", "paid", "underpaid",
                                       "expired", "cancelled"},
                             received : Nat]]
    /\ lapsed \subseteq Orders
    /\ checkout \in [Orders -> {"none", "asked", "linked", "closed"}]
    /\ transfer \in [Transfers -> [via : {"none", "payos", "casso"},
                                   to : Orders \cup {Nowhere},
                                   amount : Nat]]
    /\ event \in [Transfers -> {"none", "received", "processing"} \cup Final]
    /\ leaseOver \subseteq Transfers
    /\ ledger \in [Transfers -> Nat \cup {Unbooked}]
    /\ holding \in [Workers -> Transfers \cup {Idle}]
    /\ failures \in 0 .. MaxFailures
    /\ \A w \in Workers :
        holding[w] # Idle => event[holding[w]] \in {"processing"} \cup Final

\* What each transfer brought an order, and all of it with what it had before.
Brought(o) ==
    [t \in Transfers |->
        IF event[t] = "credited" /\ transfer[t].to = o THEN transfer[t].amount ELSE 0]
CreditedTo(o) == SumUpTo(Brought(o), NumTransfers)
ReceivedBefore(o) == IF o \in PartPaid THEN Before ELSE 0

\* A transfer is in the ledger exactly when its event says credited, however
\* often it was reported, polled, claimed or given up half way, and for the
\* credit its amount buys at the rate of its order, short of it by less than a
\* micro: CreditPaymentEvent, CreditPayOSPayment and walletCreditMicros, which
\* divides before it multiplies.
LedgerMatchesEvents ==
    \A t \in Transfers :
        IF event[t] # "credited" THEN ledger[t] = Unbooked
        ELSE LET rate == RateOf(transfer[t].to)
                 owed == transfer[t].amount * Retail - ledger[t] * rate
             IN  ledger[t] \in 0 .. MaxMicros /\ owed \in 0 .. rate - 1

\* An order counts all the money credited to it through either provider, is
\* paid once that covers it, underpaid while it does not, and anything else
\* only while nothing came in.
OrdersMatchMoney ==
    \A o \in Orders :
        /\ order[o].received = ReceivedBefore(o) + CreditedTo(o)
        /\ order[o].received >= Expected <=> order[o].status = "paid"
        /\ order[o].received \in 1 .. Expected - 1
             <=> order[o].status = "underpaid"

\* No checkout is credited twice: of the PayOS payments of one order at most
\* one is credited, the others are filed for a refund.
CheckoutCreditedOnce ==
    \A s, t \in Transfers :
        /\ transfer[s].via = "payos" /\ transfer[t].via = "payos"
        /\ event[s] = "credited" /\ event[t] = "credited"
        /\ transfer[s].to = transfer[t].to
        => s = t

\* A closed event stays as it was closed: late deliveries, polls and workers
\* whose lease ran out do not reopen it or change the verdict.
ClosedEventsStay ==
    [][\A t \in Transfers : event[t] \in Final => event'[t] = event[t]]_vars

\* Every bank transfer is closed in the end, although no webhook may ever come
\* and workers fail between claim and close; money with the memo of an order
\* reaches the wallet, unless a delivery that did not verify was filed for it.
\* Only an amount that cannot be converted is tried for ever, and it does not
\* keep the others waiting.
TransfersArrive ==
    \A t \in Transfers :
        /\ transfer[t].via = "casso"
        /\ Convertible(transfer[t].amount, RateOf(transfer[t].to))
        ~>
            event[t] \in IF transfer[t].to \in Orders
                         THEN {"credited", "rejected"} ELSE Final
=============================================================================
