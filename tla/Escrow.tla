------------------------------- MODULE Escrow -------------------------------
(***************************************************************************)
(* What a prepaid wallet promises the rest of the system, without          *)
(* promotional credit, ledger or clock: spendable credit, and for each     *)
(* request one sum set aside out of it, once.  Wallet implements this.     *)
(***************************************************************************)
EXTENDS Integers

CONSTANT Requests

VARIABLES
    available,  \* credit that can still be set aside
    aside,      \* what is set aside for each request
    fate        \* "none", "open", "charged" or "returned", by request

vars == <<available, aside, fate>>

Init ==
    /\ available \in Nat
    /\ aside = [r \in Requests |-> 0]
    /\ fate = [r \in Requests |-> "none"]

\* Credit may lapse at any step that looks at it, but only spendable credit.
SetAside(r, a) ==
    /\ fate[r] = "none"
    /\ available' \in 0 .. (available - a)
    /\ aside' = [aside EXCEPT ![r] = a]
    /\ fate' = [fate EXCEPT ![r] = "open"]

\* The request is over without a charge: what was set aside is spendable again.
Return(r) ==
    /\ fate[r] = "open"
    /\ available' \in 0 .. (available + aside[r])
    /\ aside' = [aside EXCEPT ![r] = 0]
    /\ fate' = [fate EXCEPT ![r] = "returned"]

\* The request is charged c out of what it set aside and of spendable credit,
\* never out of what is set aside for others.
Charge(r, c) ==
    /\ fate[r] = "open"
    /\ available' = available + aside[r] - c
    /\ aside' = [aside EXCEPT ![r] = 0]
    /\ fate' = [fate EXCEPT ![r] = "charged"]

Deposit ==
    /\ available' \in Nat
    /\ available' >= available
    /\ UNCHANGED <<aside, fate>>

Lapse ==
    /\ available' \in 0 .. available
    /\ UNCHANGED <<aside, fate>>

Next ==
    \/ \E r \in Requests :
        \/ \E a \in 0 .. available : SetAside(r, a)
        \/ Return(r)
        \/ \E c \in 0 .. (available + aside[r]) : Charge(r, c)
    \/ Deposit
    \/ Lapse

Spec == Init /\ [][Next]_vars
=============================================================================
