------------------------------ MODULE MCAuditor ------------------------------
(* A small instance of Auditor. *)
EXTENDS Auditor

\* Both workers claim model a, one of them a second model too.
TwoClaims == [w \in Workers |-> IF w = "w1" THEN <<"a", "b">> ELSE <<"a">>]
=============================================================================
