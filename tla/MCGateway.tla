----------------------------- MODULE MCGateway -----------------------------
(* Small instances of Gateway. *)
EXTENDS Gateway

OneKey    == [r \in Requests |-> "k"]
OneWallet == [r \in Requests |-> "u"]
=============================================================================
