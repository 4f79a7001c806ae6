--------------------------- MODULE PaymentsProofs ---------------------------
(***************************************************************************)
(* Payments' safety for every number of transfers, orders, workers and     *)
(* failures.  PaymentsInv is inductive.  Its steps are of two sorts: those *)
(* that credit a transfer, and those that leave the credited money alone.  *)
(***************************************************************************)
EXTENDS Payments, SumsProofs

\* Only a transfer that happened has an event, and only those of Casso wait for
\* a worker.
EventsHaveTransfers ==
    \A t \in Transfers :
        /\ event[t] # "none" => transfer[t].via # "none"
        /\ event[t] \in {"received", "processing"} => transfer[t].via = "casso"

\* A credited checkout has paid its order.
CheckoutsPaid ==
    \A t \in Transfers :
        transfer[t].via = "payos" /\ event[t] = "credited"
            => transfer[t].to \in Orders /\ order[transfer[t].to].status = "paid"

PaymentsInv ==
    /\ PaymentsTypeOK
    /\ EventsHaveTransfers
    /\ LedgerMatchesEvents
    /\ OrdersMatchMoney
    /\ CheckoutsPaid
    /\ CheckoutCreditedOnce

-----------------------------------------------------------------------------
(* The money credited to an order. *)

LEMMA TransferNumbers == NumTransfers \in Nat /\ Transfers = 1 .. NumTransfers
BY PaymentsAssumption DEF Transfers

LEMMA BroughtType ==
    ASSUME PaymentsTypeOK, NEW o \in Orders
    PROVE  /\ Brought(o) \in [1 .. NumTransfers -> Nat]
           /\ CreditedTo(o) \in Nat
<1>1. Brought(o) \in [1 .. NumTransfers -> Nat]
  BY TransferNumbers DEF Brought, PaymentsTypeOK
<1>2. \A i \in 1 .. NumTransfers : Brought(o)[i] \in Nat
  BY <1>1
<1> HIDE DEF Brought
<1>3. CreditedTo(o) \in Nat
  BY <1>2, TransferNumbers, SumUpToBounds DEF CreditedTo
<1>4. QED
  BY <1>1, <1>3

LEMMA CreditedSame ==
    ASSUME PaymentsTypeOK, NEW o \in Orders,
           \A t \in Transfers : Brought(o)'[t] = Brought(o)[t]
    PROVE  CreditedTo(o)' = CreditedTo(o)
<1> DEFINE f == Brought(o)
           g == Brought(o)'
<1>1. \A i \in 1 .. NumTransfers : f[i] \in Int /\ g[i] = f[i]
  BY BroughtType, TransferNumbers
<1> HIDE DEF f, g
<1>2. SumUpTo(g, NumTransfers) = SumUpTo(f, NumTransfers)
  BY <1>1, TransferNumbers, SumUpToSame
<1>3. QED
  BY <1>2 DEF CreditedTo, f, g

LEMMA CreditedMore ==
    ASSUME PaymentsTypeOK, PaymentsTypeOK', NEW o \in Orders, NEW t \in Transfers,
           \A s \in Transfers : s # t => Brought(o)'[s] = Brought(o)[s]
    PROVE  CreditedTo(o)' = CreditedTo(o) + Brought(o)'[t] - Brought(o)[t]
<1> DEFINE f == Brought(o)
           g == Brought(o)'
<1>1. /\ f \in [1 .. NumTransfers -> Nat]
      /\ g \in [1 .. NumTransfers -> Nat]
  <2>1. f \in [1 .. NumTransfers -> Nat]
    BY BroughtType
  <2>2. g \in [1 .. NumTransfers -> Nat]
    BY TransferNumbers DEF Brought, PaymentsTypeOK
  <2>3. QED
    BY <2>1, <2>2
<1>2. \A s \in 1 .. NumTransfers : s # t => g[s] = f[s]
  BY TransferNumbers
<1>3. t \in 1 .. NumTransfers
  BY TransferNumbers
<1> HIDE DEF f, g
<1>4. \A i \in 1 .. NumTransfers : f[i] \in Int /\ g[i] \in Int
  BY <1>1
<1>5. SumUpTo(g, NumTransfers) = SumUpTo(f, NumTransfers) + g[t] - f[t]
  BY <1>2, <1>3, <1>4, TransferNumbers, SumUpToChange
<1>6. QED
  BY <1>5 DEF CreditedTo, f, g

-----------------------------------------------------------------------------
(* The credit a payment buys. *)

\* x divided by d, and what is left.
LEMMA Quotient ==
    ASSUME NEW x \in Nat, NEW d \in Nat \ {0}
    PROVE  /\ x \div d \in Nat /\ x % d \in 0 .. d - 1
           /\ x = d * (x \div d) + (x % d)
<1>1. x \in Int /\ d \in Int /\ d > 0 /\ x >= 0
  OBVIOUS
<1>2. x \div d \in Int /\ x % d \in 0 .. d - 1
  BY <1>1, SMTT(30)
<1>3. x = d * (x \div d) + (x % d)
  BY <1>1, SMTT(30)
<1>4. x \div d \in Nat
  BY <1>1, SMTT(30)
<1>5. QED
  BY <1>2, <1>3, <1>4

\* walletCreditMicros drops less than a micro, although it converts the quotient
\* and the remainder apart.
LEMMA CreditRounds ==
    ASSUME NEW amt \in Nat, NEW rate \in Nat \ {0}
    PROVE  /\ CreditMicros(amt, rate) \in Nat
           /\ amt * Retail - CreditMicros(amt, rate) * rate \in 0 .. rate - 1
<1> DEFINE q == amt \div rate
           m == amt % rate
           d == (m * Retail) \div rate
           e == (m * Retail) % rate
<1>1. Retail \in Nat
  BY PaymentsAssumption
<1>2. q \in Nat /\ m \in Nat /\ amt = rate * q + m
  BY Quotient
<1>3. CreditMicros(amt, rate) = q * Retail + d
  BY DEF CreditMicros
<1> HIDE DEF q, m
<1>4. m * Retail \in Nat
  BY <1>1, <1>2
<1>5. d \in Nat /\ e \in 0 .. rate - 1 /\ m * Retail = rate * d + e
  BY <1>4, Quotient
<1> HIDE DEF d, e
<1>6. amt * Retail = (rate * q) * Retail + m * Retail
  BY <1>1, <1>2, SMTT(30)
<1>7. (q * Retail + d) * rate = (rate * q) * Retail + rate * d
  BY <1>1, <1>2, <1>5, SMTT(30)
<1>8. (rate * q) * Retail \in Nat /\ rate * d \in Nat /\ q * Retail + d \in Nat
  BY <1>1, <1>2, <1>5, SMTT(30)
<1>9. amt * Retail - (q * Retail + d) * rate = e
  BY <1>4, <1>5, <1>6, <1>7, <1>8
<1>10. QED
  BY <1>3, <1>5, <1>8, <1>9

LEMMA RateType == ASSUME NEW o PROVE RateOf(o) \in Nat \ {0}
BY PaymentsAssumption DEF RateOf

LEMMA CreditType ==
    ASSUME PaymentsTypeOK, NEW t \in Transfers
    PROVE  CreditOf(t) \in Nat
<1>1. transfer[t].amount \in Nat
  BY DEF PaymentsTypeOK
<1>2. QED
  BY <1>1, RateType, CreditRounds DEF CreditOf

-----------------------------------------------------------------------------
(* The two sorts of steps. *)

\* A step that credits nothing: transfers with events stay, no order changes
\* what it received, and none becomes or stops being paid or underpaid.
LEMMA StepWithoutCredit ==
    ASSUME PaymentsInv, PaymentsTypeOK', EventsHaveTransfers', ledger' = ledger,
           \A t \in Transfers : event'[t] = "credited" <=> event[t] = "credited",
           \A t \in Transfers : event[t] # "none" => transfer'[t] = transfer[t],
           \A o \in Orders :
               /\ order'[o].received = order[o].received
               /\ order'[o].status = "paid" <=> order[o].status = "paid"
               /\ order'[o].status = "underpaid" <=> order[o].status = "underpaid"
    PROVE  PaymentsInv'
<1>1. LedgerMatchesEvents'
  <2> SUFFICES ASSUME NEW t \in Transfers
               PROVE  IF event'[t] # "credited" THEN ledger[t] = Unbooked
                      ELSE LET rate == RateOf(transfer'[t].to)
                               owed == transfer'[t].amount * Retail - ledger[t] * rate
                           IN  ledger[t] \in 0 .. MaxMicros /\ owed \in 0 .. rate - 1
    BY DEF LedgerMatchesEvents
  <2>1. IF event[t] # "credited" THEN ledger[t] = Unbooked
        ELSE LET rate == RateOf(transfer[t].to)
                 owed == transfer[t].amount * Retail - ledger[t] * rate
             IN  ledger[t] \in 0 .. MaxMicros /\ owed \in 0 .. rate - 1
    BY DEF PaymentsInv, LedgerMatchesEvents
  <2>2. event[t] = "credited" => transfer'[t] = transfer[t]
    OBVIOUS
  <2>3. QED
    BY <2>1, <2>2
<1>2. ASSUME NEW o \in Orders
      PROVE  CreditedTo(o)' = CreditedTo(o)
  <2>1. \A t \in Transfers : Brought(o)'[t] = Brought(o)[t]
    BY DEF Brought
  <2>2. QED
    BY <2>1, CreditedSame DEF PaymentsInv
<1>3. OrdersMatchMoney'
  BY <1>2 DEF PaymentsInv, OrdersMatchMoney
<1>4. CheckoutsPaid'
  BY DEF PaymentsInv, CheckoutsPaid
<1>5. CheckoutCreditedOnce'
  BY DEF PaymentsInv, CheckoutCreditedOnce
<1>6. QED
  BY <1>1, <1>3, <1>4, <1>5 DEF PaymentsInv

\* A step that credits one transfer to its order.  A checkout is credited only
\* to an order nothing was credited to.
LEMMA StepWithCredit ==
    ASSUME PaymentsInv, PaymentsTypeOK', NEW t \in Transfers, NEW o \in Orders,
           o = transfer[t].to, transfer[t].via # "none", transfer[t].amount > 0,
           event[t] # "credited",
           event' = [event EXCEPT ![t] = "credited"],
           transfer' = transfer,
           ledger' = Booked(t), Convertible(transfer[t].amount, RateOf(o)),
           order' = [order EXCEPT ![o] = Credited(@, transfer[t].amount)],
           transfer[t].via = "payos" =>
               order[o].status = "pending" /\ transfer[t].amount = Expected
    PROVE  PaymentsInv'
<1> DEFINE amt == transfer[t].amount
<1>1. /\ PaymentsTypeOK
      /\ amt \in Nat /\ amt > 0
      /\ Expected \in Nat \ {0}
      /\ order[o].received \in Nat
  BY PaymentsAssumption DEF PaymentsInv, PaymentsTypeOK
<1>2. /\ event'[t] = "credited"
      /\ \A s \in Transfers : s # t => event'[s] = event[s]
  BY <1>1 DEF PaymentsTypeOK
<1>3. /\ order'[o] = Credited(order[o], amt)
      /\ \A p \in Orders : p # o => order'[p] = order[p]
  BY <1>1 DEF PaymentsTypeOK
<1>4. EventsHaveTransfers'
  BY <1>2 DEF PaymentsInv, EventsHaveTransfers
<1>5. LedgerMatchesEvents'
  <2> DEFINE Kept(s, l) ==
               IF event'[s] # "credited" THEN l = Unbooked
               ELSE LET rate == RateOf(transfer[s].to)
                        owed == transfer[s].amount * Retail - l * rate
                    IN  l \in 0 .. MaxMicros /\ owed \in 0 .. rate - 1
  <2>1. /\ ledger'[t] = CreditMicros(amt, RateOf(o))
        /\ \A s \in Transfers : s # t => ledger'[s] = ledger[s]
    BY <1>1 DEF PaymentsTypeOK, Booked, CreditOf
  <2>2. ASSUME NEW s \in Transfers, s # t
        PROVE  Kept(s, ledger'[s])
    BY <1>2, <2>1, <2>2 DEF PaymentsInv, LedgerMatchesEvents
  <2>3. Kept(t, ledger'[t])
    <3> DEFINE l == CreditMicros(amt, RateOf(o))
    <3>1. /\ l \in Nat
          /\ amt * Retail - l * RateOf(o) \in 0 .. RateOf(o) - 1
      BY <1>1, RateType, CreditRounds
    <3>2. l <= MaxMicros /\ MaxMicros \in Nat
      BY PaymentsAssumption DEF Convertible
    <3> HIDE DEF l
    <3>3. l \in 0 .. MaxMicros
      BY <3>1, <3>2
    <3>4. ledger'[t] = l
      BY <2>1 DEF l
    <3>5. QED
      BY <1>2, <3>1, <3>3, <3>4
  <2>4. QED
    BY <2>2, <2>3 DEF LedgerMatchesEvents
<1>6. ASSUME NEW p \in Orders
      PROVE  CreditedTo(p)' = CreditedTo(p) + (IF p = o THEN amt ELSE 0)
  <2>1. \A s \in Transfers : s # t => Brought(p)'[s] = Brought(p)[s]
    BY <1>2 DEF Brought
  <2>2. /\ Brought(p)'[t] = IF p = o THEN amt ELSE 0
        /\ Brought(p)[t] = 0
    BY <1>2 DEF Brought
  <2>3. CreditedTo(p)' = CreditedTo(p) + Brought(p)'[t] - Brought(p)[t]
    BY <1>1, <2>1, CreditedMore
  <2>4. CreditedTo(p) \in Nat
    BY <1>1, BroughtType
  <2>5. QED
    BY <1>1, <2>2, <2>3, <2>4
<1>7. OrdersMatchMoney'
  <2> SUFFICES ASSUME NEW p \in Orders
               PROVE  /\ order'[p].received = ReceivedBefore(p) + CreditedTo(p)'
                      /\ order'[p].received >= Expected <=> order'[p].status = "paid"
                      /\ order'[p].received \in 1 .. Expected - 1
                           <=> order'[p].status = "underpaid"
    BY DEF OrdersMatchMoney
  <2>1. /\ order[p].received = ReceivedBefore(p) + CreditedTo(p)
        /\ order[p].received >= Expected <=> order[p].status = "paid"
        /\ order[p].received \in 1 .. Expected - 1 <=> order[p].status = "underpaid"
        /\ order[p].received \in Nat
        /\ ReceivedBefore(p) \in Nat /\ CreditedTo(p) \in Nat
    BY <1>1, BroughtType, PaymentsAssumption
       DEF PaymentsInv, OrdersMatchMoney, PaymentsTypeOK, ReceivedBefore
  <2>2. CASE p # o
    BY <1>1, <1>3, <1>6, <2>1, <2>2
  <2>3. CASE p = o
    <3>1. order'[p].received = order[p].received + amt
      BY <1>3, <2>3 DEF Credited
    <3>2. order'[p].status = IF order[p].received + amt < Expected
                             THEN "underpaid" ELSE "paid"
      BY <1>3, <2>3 DEF Credited
    <3>3. order'[p].received = ReceivedBefore(p) + CreditedTo(p)'
      BY <1>1, <1>6, <2>1, <2>3, <3>1
    <3> HIDE DEF amt
    <3>4. QED
      BY <1>1, <2>1, <3>1, <3>2, <3>3
  <2>4. QED
    BY <2>2, <2>3
<1>8. ASSUME NEW p \in Orders, order[p].status = "paid"
      PROVE  order'[p].status = "paid"
  <2>1. order[p].received >= Expected
    BY <1>8 DEF PaymentsInv, OrdersMatchMoney
  <2>2. CASE p # o
    BY <1>3, <1>8, <2>2
  <2>3. CASE p = o
    BY <1>1, <1>3, <2>1, <2>3 DEF Credited
  <2>4. QED
    BY <2>2, <2>3
<1>9. ASSUME transfer[t].via = "payos"
      PROVE  order'[o].status = "paid"
  BY <1>1, <1>3, <1>9 DEF Credited
<1>10. CheckoutsPaid'
  BY <1>2, <1>8, <1>9 DEF PaymentsInv, CheckoutsPaid
<1>11. ASSUME transfer[t].via = "payos", NEW s \in Transfers, s # t,
              transfer[s].via = "payos", event[s] = "credited"
       PROVE  transfer[s].to # o
  BY <1>11 DEF PaymentsInv, CheckoutsPaid
<1>12. CheckoutCreditedOnce'
  BY <1>2, <1>11 DEF PaymentsInv, CheckoutCreditedOnce
<1>13. QED
  BY <1>4, <1>5, <1>7, <1>10, <1>12 DEF PaymentsInv

-----------------------------------------------------------------------------
(* The actions. *)

LEMMA InitPaymentsInv == Init => PaymentsInv
<1> SUFFICES ASSUME Init
             PROVE  PaymentsInv
  OBVIOUS
<1>1. PaymentsTypeOK
  BY PaymentsAssumption DEF Init, PaymentsTypeOK, NoTransfer, Final
<1>2. \A t \in Transfers : event[t] = "none" /\ ledger[t] = Unbooked
  BY DEF Init
<1>3. ASSUME NEW o \in Orders
      PROVE  CreditedTo(o) = 0
  <2>1. \A i \in 1 .. NumTransfers : Brought(o)[i] = 0
    BY <1>2, TransferNumbers DEF Brought
  <2> HIDE DEF Brought
  <2>2. QED
    BY <2>1, TransferNumbers, SumUpToZero DEF CreditedTo
<1>4. OrdersMatchMoney
  BY <1>3, PaymentsAssumption DEF Init, OrdersMatchMoney, ReceivedBefore, Orders
<1>5. QED
  BY <1>1, <1>2, <1>4
     DEF PaymentsInv, EventsHaveTransfers, LedgerMatchesEvents, CheckoutsPaid,
         CheckoutCreditedOnce

\* The steps of an order: its status moves among those nothing was received in.
LEMMA StepOrder ==
    ASSUME PaymentsInv, NEW o \in Orders,
           \/ CreateTopupOrder(o) \/ AttachPayOSCheckout(o) \/ CancelTopupOrder(o)
           \/ OrderLapses(o) \/ GetTopupOrder(o)
    PROVE  PaymentsInv'
<1>1. PaymentsTypeOK
  BY DEF PaymentsInv
<1>2. UNCHANGED <<transfer, event, ledger>>
  BY DEF CreateTopupOrder, AttachPayOSCheckout, CancelTopupOrder, OrderLapses, GetTopupOrder
<1>3. \/ order' = order
      \/ /\ order[o].status \in {"none", "pending"}
         /\ \E st \in {"pending", "cancelled", "expired"} :
               order' = [order EXCEPT ![o].status = st]
  BY DEF CreateTopupOrder, AttachPayOSCheckout, CancelTopupOrder, OrderLapses,
         GetTopupOrder, Exists, Expires
<1>4. \A p \in Orders :
        /\ order'[p].received = order[p].received
        /\ order'[p].status = "paid" <=> order[p].status = "paid"
        /\ order'[p].status = "underpaid" <=> order[p].status = "underpaid"
  BY <1>1, <1>3 DEF PaymentsTypeOK
<1>5. PaymentsTypeOK'
  <2>1. order' \in [Orders -> [status : {"none", "pending", "paid", "underpaid",
                                         "expired", "cancelled"}, received : Nat]]
    BY <1>1, <1>3 DEF PaymentsTypeOK
  <2>2. /\ lapsed' \subseteq Orders
        /\ checkout' \in [Orders -> {"none", "asked", "linked", "closed"}]
        /\ UNCHANGED workVars
    BY <1>1 DEF PaymentsTypeOK, CreateTopupOrder, AttachPayOSCheckout,
                CancelTopupOrder, OrderLapses, GetTopupOrder
  <2>3. QED
    BY <1>1, <1>2, <2>1, <2>2 DEF PaymentsTypeOK, workVars
<1>6. EventsHaveTransfers'
  BY <1>2 DEF PaymentsInv, EventsHaveTransfers
<1>7. QED
  BY <1>2, <1>4, <1>5, <1>6, StepWithoutCredit

\* Money moves: a transfer without an event comes to be.
LEMMA StepMoney ==
    ASSUME PaymentsInv, NEW t \in Transfers, NEW movement,
           movement \in [via : {"payos", "casso"}, to : Orders \cup {Nowhere}, amount : Nat],
           MoneyMoves(t, movement)
    PROVE  PaymentsInv'
<1>1. /\ PaymentsTypeOK
      /\ EventsHaveTransfers
  BY DEF PaymentsInv
<1>2. /\ transfer' = [transfer EXCEPT ![t] = movement]
      /\ UNCHANGED <<order, lapsed, checkout, event, ledger, workVars>>
      /\ transfer[t] = NoTransfer
  BY DEF MoneyMoves, orderVars
<1>3. event[t] = "none"
  BY <1>1, <1>2 DEF EventsHaveTransfers, NoTransfer
<1>4. /\ transfer'[t].via # "none"
      /\ \A s \in Transfers : s # t => transfer'[s] = transfer[s]
  BY <1>1, <1>2 DEF PaymentsTypeOK
<1>5. PaymentsTypeOK'
  <2>1. transfer' \in [Transfers -> [via : {"none", "payos", "casso"},
                                     to : Orders \cup {Nowhere}, amount : Nat]]
    BY <1>1, <1>2 DEF PaymentsTypeOK
  <2>2. QED
    BY <1>1, <1>2, <2>1 DEF PaymentsTypeOK, workVars
<1>6. EventsHaveTransfers'
  BY <1>1, <1>2, <1>3, <1>4 DEF EventsHaveTransfers
<1>7. QED
  BY <1>2, <1>3, <1>4, <1>5, <1>6, StepWithoutCredit

\* An event changes and nothing is credited: the journal of a webhook or of the
\* poll, a payment PayOS' webhook turns away, a claim, a rejection.
LEMMA StepEvent ==
    ASSUME PaymentsInv, PaymentsTypeOK', NEW t \in Transfers,
           UNCHANGED <<order, transfer, ledger>>,
           transfer[t].via # "none",
           event[t] # "credited",
           NEW status, status # "credited",
           status \in {"received", "processing"} => transfer[t].via = "casso",
           event' = [event EXCEPT ![t] = status]
    PROVE  PaymentsInv'
<1>1. /\ event'[t] = status
      /\ \A s \in Transfers : s # t => event'[s] = event[s]
  BY DEF PaymentsInv, PaymentsTypeOK
<1>2. EventsHaveTransfers'
  BY <1>1 DEF PaymentsInv, EventsHaveTransfers
<1>3. \A s \in Transfers : event'[s] = "credited" <=> event[s] = "credited"
  BY <1>1
<1>4. QED
  BY <1>2, <1>3, StepWithoutCredit

LEMMA StepPayOSWebhook ==
    ASSUME PaymentsInv, NEW t \in Transfers, PayOSWebhook(t)
    PROVE  PaymentsInv'
<1> DEFINE o == transfer[t].to
<1>1. /\ PaymentsTypeOK
      /\ transfer[t].via = "payos"
      /\ event[t] = "none"
      /\ event' = [event EXCEPT ![t] = PayOSVerdict(t)]
      /\ UNCHANGED <<lapsed, checkout, transfer, workVars>>
  BY DEF PaymentsInv, PayOSWebhook, FirstSeen
<1>2. PayOSVerdict(t) \in Final
  BY DEF PayOSVerdict, Final
<1>3. /\ event' \in [Transfers -> {"none", "received", "processing"} \cup Final]
      /\ \A w \in Workers :
            holding'[w] # Idle => event'[holding'[w]] \in {"processing"} \cup Final
  BY <1>1, <1>2 DEF PaymentsTypeOK, workVars, Final
<1>4. CASE PayOSVerdict(t) = "credited"
  <2>1. /\ o \in Orders
        /\ order[o].status = "pending"
        /\ transfer[t].amount = Expected
    BY <1>4 DEF PayOSVerdict, Exists
  <2>2. /\ ledger' = Booked(t)
        /\ order' = [order EXCEPT ![o] = [status |-> "paid", received |-> Expected]]
    BY <1>4, <2>1 DEF PayOSWebhook
  <2>3. order[o].received = 0
    BY <1>1, <2>1, PaymentsAssumption DEF PaymentsInv, PaymentsTypeOK, OrdersMatchMoney
  <2>4. Credited(order[o], transfer[t].amount) = [status |-> "paid", received |-> Expected]
    BY <2>1, <2>3, PaymentsAssumption DEF Credited
  <2>5. order' = [order EXCEPT ![o] = Credited(@, transfer[t].amount)]
    BY <2>2, <2>4
  <2>6. PaymentsTypeOK'
    <3>1. order' \in [Orders -> [status : {"none", "pending", "paid", "underpaid",
                                           "expired", "cancelled"}, received : Nat]]
      BY <1>1, <2>1, <2>2, PaymentsAssumption DEF PaymentsTypeOK
    <3>2. ledger' \in [Transfers -> Nat \cup {Unbooked}]
      BY <1>1, <2>2, CreditType DEF PaymentsTypeOK, Booked
    <3>3. QED
      BY <1>1, <1>3, <3>1, <3>2 DEF PaymentsTypeOK, workVars
  <2>7. transfer[t].amount > 0
    BY <2>1, PaymentsAssumption
  <2>8. QED
    <3>1. Convertible(transfer[t].amount, RateOf(o))
      BY <1>4 DEF PayOSWebhook, Bookable
    <3>2. QED
      BY <1>1, <1>4, <2>1, <2>2, <2>5, <2>6, <2>7, <3>1, StepWithCredit
<1>5. CASE PayOSVerdict(t) # "credited"
  <2>1. UNCHANGED <<order, ledger>>
    BY <1>5 DEF PayOSWebhook
  <2>2. PaymentsTypeOK'
    BY <1>1, <1>3, <2>1 DEF PaymentsTypeOK, workVars
  <2>3. QED
    BY <1>1, <1>2, <1>5, <2>1, <2>2, StepEvent DEF Final
<1>6. QED
  BY <1>4, <1>5

\* The Casso webhook and the poll journal a transfer they are the first to see.
LEMMA StepJournal ==
    ASSUME PaymentsInv, NEW t \in Transfers,
           Reconcile(t) \/ \E verified \in BOOLEAN : CassoWebhook(t, verified)
    PROVE  PaymentsInv'
<1>1. /\ PaymentsTypeOK
      /\ transfer[t].via = "casso"
      /\ event[t] = "none"
      /\ UNCHANGED <<orderVars, transfer, ledger, workVars>>
  BY DEF PaymentsInv, Reconcile, CassoWebhook, FirstSeen
<1>2. PICK status \in {"received", "rejected"} :
        event' = [event EXCEPT ![t] = status]
  BY DEF Reconcile, CassoWebhook
<1>3. PaymentsTypeOK'
  BY <1>1, <1>2 DEF PaymentsTypeOK, orderVars, workVars, Final
<1>4. QED
  BY <1>1, <1>2, <1>3, StepEvent DEF orderVars

LEMMA StepClaim ==
    ASSUME PaymentsInv, NEW w \in Workers, NEW t \in Transfers, ClaimPaymentEvent(w, t)
    PROVE  PaymentsInv'
<1>1. /\ PaymentsTypeOK
      /\ event[t] \in {"received", "processing"}
      /\ event' = [event EXCEPT ![t] = "processing"]
      /\ leaseOver' = leaseOver \ {t}
      /\ holding' = [holding EXCEPT ![w] = t]
      /\ UNCHANGED <<orderVars, transfer, ledger, failures>>
  BY DEF PaymentsInv, ClaimPaymentEvent, Claimable
<1>2. transfer[t].via = "casso"
  BY <1>1 DEF PaymentsInv, EventsHaveTransfers
<1>3. PaymentsTypeOK'
  <2>1. \A v \in Workers :
          holding'[v] # Idle => event'[holding'[v]] \in {"processing"} \cup Final
    BY <1>1 DEF PaymentsTypeOK
  <2>2. QED
    BY <1>1, <2>1 DEF PaymentsTypeOK, orderVars
<1>4. QED
  BY <1>1, <1>2, <1>3, StepEvent DEF orderVars

LEMMA StepReject ==
    ASSUME PaymentsInv, NEW w \in Workers, RejectPaymentEvent(w)
    PROVE  PaymentsInv'
<1> DEFINE t == holding[w]
<1>1. /\ PaymentsTypeOK
      /\ t \in Transfers
      /\ holding' = [holding EXCEPT ![w] = Idle]
      /\ UNCHANGED <<orderVars, transfer, ledger, leaseOver, failures>>
  BY DEF PaymentsInv, PaymentsTypeOK, RejectPaymentEvent
<1>2. Verdict(t) \in {"rejected", "unmatched"}
  BY DEF RejectPaymentEvent, Verdict
<1>3. \E status \in {event[t], "rejected", "unmatched"} :
        /\ event' = [event EXCEPT ![t] = status]
        /\ status # event[t] => event[t] = "processing"
  BY <1>1, <1>2 DEF RejectPaymentEvent, PaymentsTypeOK
<1>4. PaymentsTypeOK'
  <2>1. event' \in [Transfers -> {"none", "received", "processing"} \cup Final]
    BY <1>1, <1>3 DEF PaymentsTypeOK, Final
  <2>2. \A v \in Workers :
          holding'[v] # Idle => event'[holding'[v]] \in {"processing"} \cup Final
    BY <1>1, <1>3 DEF PaymentsTypeOK, Final
  <2>3. QED
    BY <1>1, <2>1, <2>2 DEF PaymentsTypeOK, orderVars
<1>5. CASE event' = event
  BY <1>1, <1>4, <1>5, StepWithoutCredit
     DEF PaymentsInv, EventsHaveTransfers, orderVars
<1>6. CASE event[t] = "processing"
  <2>1. transfer[t].via # "none"
    BY <1>1, <1>6 DEF PaymentsInv, EventsHaveTransfers
  <2>2. event' = [event EXCEPT ![t] = Verdict(t)]
    BY <1>6 DEF RejectPaymentEvent
  <2>3. QED
    BY <1>1, <1>2, <1>4, <1>6, <2>1, <2>2, StepEvent DEF orderVars
<1>7. QED
  BY <1>5, <1>6 DEF RejectPaymentEvent

LEMMA StepCredit ==
    ASSUME PaymentsInv, NEW w \in Workers, CreditPaymentEvent(w)
    PROVE  PaymentsInv'
<1> DEFINE t == holding[w]
<1>1. /\ PaymentsTypeOK
      /\ t \in Transfers
      /\ Verdict(t) = "credited"
      /\ holding' = [holding EXCEPT ![w] = Idle]
      /\ UNCHANGED <<lapsed, checkout, transfer, leaseOver, failures>>
  BY DEF PaymentsInv, PaymentsTypeOK, CreditPaymentEvent
<1>2. transfer[t].to \in Orders /\ transfer[t].amount # 0
  BY <1>1 DEF Verdict, Exists
<1>3. CASE event[t] = "processing" /\ Bookable(t)
  <2>1. /\ ledger' = Booked(t)
        /\ order' = [order EXCEPT ![transfer[t].to] = Credited(@, transfer[t].amount)]
        /\ event' = [event EXCEPT ![t] = "credited"]
    BY <1>3 DEF CreditPaymentEvent
  <2>2. transfer[t].via # "none"
    BY <1>1, <1>3 DEF PaymentsInv, EventsHaveTransfers
  <2>3. transfer[t].amount \in Nat
    BY <1>1 DEF PaymentsTypeOK
  <2>4. PaymentsTypeOK'
    <3>1. Credited(order[transfer[t].to], transfer[t].amount) \in
            [status : {"underpaid", "paid"}, received : Nat]
      BY <1>1, <1>2, <2>3 DEF Credited, PaymentsTypeOK
    <3>2. order' \in [Orders -> [status : {"none", "pending", "paid", "underpaid",
                                           "expired", "cancelled"}, received : Nat]]
      BY <1>1, <2>1, <3>1 DEF PaymentsTypeOK
    <3>3. ledger' \in [Transfers -> Nat \cup {Unbooked}]
      BY <1>1, <2>1, CreditType DEF PaymentsTypeOK, Booked
    <3>4. /\ event' \in [Transfers -> {"none", "received", "processing"} \cup Final]
          /\ \A v \in Workers :
                holding'[v] # Idle => event'[holding'[v]] \in {"processing"} \cup Final
      BY <1>1, <2>1 DEF PaymentsTypeOK, Final
    <3>5. QED
      BY <1>1, <3>2, <3>3, <3>4 DEF PaymentsTypeOK
  <2>5. transfer[t].via # "payos"
    BY <1>1, <1>3 DEF PaymentsInv, EventsHaveTransfers
  <2>6. transfer[t].amount > 0
    BY <1>2, <2>3
  <2>7. event[t] # "credited"
    BY <1>3
  <2>8. Convertible(transfer[t].amount, RateOf(transfer[t].to))
    BY <1>3 DEF Bookable
  <2> HIDE DEF t
  <2>9. QED
    BY <1>1, <1>2, <2>1, <2>2, <2>4, <2>5, <2>6, <2>7, <2>8, StepWithCredit
<1>4. CASE UNCHANGED <<ledger, order, event>>
  <2>1. PaymentsTypeOK'
    BY <1>1, <1>4 DEF PaymentsTypeOK
  <2>2. QED
    BY <1>1, <1>4, <2>1, StepWithoutCredit DEF PaymentsInv, EventsHaveTransfers
<1>5. QED
  BY <1>3, <1>4 DEF CreditPaymentEvent
LEMMA StepTime ==
    ASSUME PaymentsInv,
           \/ \E t \in Transfers : LeaseEnds(t)
           \/ \E w \in Workers : WorkerFails(w)
           \/ UNCHANGED vars
    PROVE  PaymentsInv'
<1>1. PaymentsTypeOK
  BY DEF PaymentsInv
<1>2. UNCHANGED <<order, lapsed, checkout, transfer, event, ledger>>
  BY DEF LeaseEnds, WorkerFails, vars, orderVars
<1>3. PaymentsTypeOK'
  <2>1. CASE \E t \in Transfers : LeaseEnds(t)
    BY <1>1, <1>2, <2>1 DEF LeaseEnds, PaymentsTypeOK
  <2>2. CASE \E w \in Workers : WorkerFails(w)
    <3>1. PICK w \in Workers : WorkerFails(w)
      BY <2>2
    <3>2. failures' \in 0 .. MaxFailures
      BY <1>1, <3>1, PaymentsAssumption DEF WorkerFails, PaymentsTypeOK
    <3>3. holding' = [holding EXCEPT ![w] = Idle] /\ UNCHANGED leaseOver
      BY <3>1 DEF WorkerFails
    <3>4. QED
      BY <1>1, <1>2, <3>2, <3>3 DEF PaymentsTypeOK
  <2>3. CASE UNCHANGED vars
    BY <1>1, <2>3 DEF vars, PaymentsTypeOK
  <2>4. QED
    BY <2>1, <2>2, <2>3
<1>4. EventsHaveTransfers'
  BY <1>2 DEF PaymentsInv, EventsHaveTransfers
<1>5. QED
  BY <1>2, <1>3, <1>4, StepWithoutCredit

LEMMA PaymentsStep == PaymentsInv /\ [Next]_vars => PaymentsInv'
<1> SUFFICES ASSUME PaymentsInv, [Next]_vars
             PROVE  PaymentsInv'
  OBVIOUS
<1>1. CASE \E o \in Orders :
             \/ CreateTopupOrder(o) \/ AttachPayOSCheckout(o) \/ CancelTopupOrder(o)
             \/ OrderLapses(o) \/ GetTopupOrder(o)
  BY <1>1, StepOrder
<1>2. ASSUME NEW t \in Transfers, NEW o \in Orders \cup {Nowhere}, NEW amt \in Amounts,
             PayCheckout(t, o, amt) \/ BankTransfer(t, o, amt)
      PROVE  PaymentsInv'
  <2>1. PICK via \in {"payos", "casso"} :
          MoneyMoves(t, [via |-> via, to |-> o, amount |-> amt])
    BY <1>2 DEF PayCheckout, BankTransfer
  <2>2. [via |-> via, to |-> o, amount |-> amt] \in
          [via : {"payos", "casso"}, to : Orders \cup {Nowhere}, amount : Nat]
    BY PaymentsAssumption
  <2>3. QED
    BY <2>1, <2>2, StepMoney
<1>3. ASSUME NEW t \in Transfers, BankOutgoing(t)
      PROVE  PaymentsInv'
  BY <1>3, StepMoney DEF BankOutgoing
<1>4. CASE \E t \in Transfers : PayOSWebhook(t)
  BY <1>4, StepPayOSWebhook
<1>5. CASE \E t \in Transfers :
             Reconcile(t) \/ \E verified \in BOOLEAN : CassoWebhook(t, verified)
  BY <1>5, StepJournal
<1>6. CASE \E w \in Workers : \E t \in Transfers : ClaimPaymentEvent(w, t)
  BY <1>6, StepClaim
<1>7. CASE \E w \in Workers : RejectPaymentEvent(w)
  BY <1>7, StepReject
<1>8. CASE \E w \in Workers : CreditPaymentEvent(w)
  BY <1>8, StepCredit
<1>9. CASE \/ \E t \in Transfers : LeaseEnds(t)
           \/ \E w \in Workers : WorkerFails(w)
           \/ UNCHANGED vars
  BY <1>9, StepTime
<1>10. QED
  BY <1>1, <1>2, <1>3, <1>4, <1>5, <1>6, <1>7, <1>8, <1>9 DEF Next

LEMMA PaymentsAlways == Spec => []PaymentsInv
BY InitPaymentsInv, PaymentsStep, PTL DEF Spec

-----------------------------------------------------------------------------
(* Results. *)

\* The variables keep their types, and no worker holds an event that was not
\* journalled.
THEOREM PaymentsTypes == Spec => []PaymentsTypeOK
<1>1. PaymentsInv => PaymentsTypeOK
  BY DEF PaymentsInv
<1>2. QED
  BY <1>1, PaymentsAlways, PTL

\* Money is booked once, exactly for the credited events, and as the credit it
\* buys at the rate of its order, rounded down by less than a micro.
THEOREM LedgerOfEvents == Spec => []LedgerMatchesEvents
<1>1. PaymentsInv => LedgerMatchesEvents
  BY DEF PaymentsInv
<1>2. QED
  BY <1>1, PaymentsAlways, PTL

\* What an order received, and its status, follow the money of both providers.
THEOREM OrdersFollowMoney == Spec => []OrdersMatchMoney
<1>1. PaymentsInv => OrdersMatchMoney
  BY DEF PaymentsInv
<1>2. QED
  BY <1>1, PaymentsAlways, PTL

\* Of the PayOS payments of one order at most one is credited.
THEOREM CheckoutsOnce == Spec => []CheckoutCreditedOnce
<1>1. PaymentsInv => CheckoutCreditedOnce
  BY DEF PaymentsInv
<1>2. QED
  BY <1>1, PaymentsAlways, PTL

\* No delivery, poll or worker changes an event that was closed.
THEOREM EventsCloseOnce == Spec => ClosedEventsStay
<1>1. ASSUME PaymentsTypeOK, [Next]_vars, NEW t \in Transfers, event[t] \in Final
      PROVE  event'[t] = event[t]
  <2>1. event[t] \notin {"none", "received", "processing"}
    BY <1>1 DEF Final
  <2>2. CASE UNCHANGED event
    BY <2>2
  <2>3. ASSUME NEW s \in Transfers,
               PayOSWebhook(s) \/ Reconcile(s)
                 \/ \E verified \in BOOLEAN : CassoWebhook(s, verified)
        PROVE  event'[t] = event[t]
    <3>1. s # t
      BY <2>1, <2>3 DEF PayOSWebhook, Reconcile, CassoWebhook, FirstSeen
    <3>2. \E status : event' = [event EXCEPT ![s] = status]
      BY <2>3 DEF PayOSWebhook, Reconcile, CassoWebhook
    <3>3. QED
      BY <1>1, <3>1, <3>2 DEF PaymentsTypeOK
  <2>4. ASSUME NEW w \in Workers, NEW s \in Transfers, ClaimPaymentEvent(w, s)
        PROVE  event'[t] = event[t]
    BY <1>1, <2>1, <2>4 DEF ClaimPaymentEvent, Claimable, PaymentsTypeOK
  <2>5. ASSUME NEW w \in Workers, RejectPaymentEvent(w) \/ CreditPaymentEvent(w)
        PROVE  event'[t] = event[t]
    BY <1>1, <2>1, <2>5 DEF RejectPaymentEvent, CreditPaymentEvent, PaymentsTypeOK
  <2>6. QED
    BY <1>1, <2>2, <2>3, <2>4, <2>5
       DEF Next, vars, CreateTopupOrder, AttachPayOSCheckout, CancelTopupOrder,
           OrderLapses, GetTopupOrder, PayCheckout, BankTransfer, BankOutgoing,
           MoneyMoves, LeaseEnds, WorkerFails
<1>2. PaymentsTypeOK /\ [Next]_vars =>
        [\A t \in Transfers : event[t] \in Final => event'[t] = event[t]]_vars
  BY <1>1
<1>3. QED
  BY <1>2, PaymentsTypes, PTL DEF Spec, ClosedEventsStay
=============================================================================
