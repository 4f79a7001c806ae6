------------------------------ MODULE MCWallet ------------------------------
(* Instances of Wallet for TLC. *)
EXTENDS Wallet

MCAmounts == {1, 2}
MCTopUps == {3}
=============================================================================
