--------------------------- MODULE MCRegistrations ---------------------------
(* A small instance of ApiKeys and one of SPRegistration.  They share no     *)
(* variable, and no property speaks of both, so that the states of one with  *)
(* those of the other add nothing: a behaviour is of one of the two.         *)
EXTENDS ApiKeys, SPRegistration

VARIABLE part   \* whose behaviour this is

\* Signers are interchangeable, so that it does not matter who controls the first
\* miner; where the users' behaviours start, nor who controls the others.
RegistrationInit ==
  /\ Init /\ SPInit
  /\ LET signer == CHOOSE s \in Signers : TRUE IN
     \/ part = "users" /\ controller = [m \in Miners |-> signer]
     \/ part = "providers" /\ controller[CHOOSE m \in Miners : TRUE] = signer

UserNext == part = "users" /\ Next /\ UNCHANGED <<spVars, part>>
ProviderNext == part = "providers" /\ SPNext /\ UNCHANGED <<vars, part>>

RegistrationSpec ==
  RegistrationInit /\ [][UserNext \/ ProviderNext]_<<vars, spVars, part>>
=============================================================================
