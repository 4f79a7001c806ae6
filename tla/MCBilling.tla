----------------------------- MODULE MCBilling -----------------------------
(* Instances of Billing for TLC. *)
EXTENDS Billing

MCAmounts == {1, 2}
MCTopUps == {2}
MCQuote == [r \in Requests |-> r]
MCQuoteOne == [r \in Requests |-> 1]
=============================================================================
