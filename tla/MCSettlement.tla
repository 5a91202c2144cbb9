---------------------------- MODULE MCSettlement ----------------------------
(* Small instances of Settlement. *)
EXTENDS SettlementInvariant, TLC

\* Two requests of one wallet, served by workers of two SPs.
TwoSPsWalletOf == "r1" :> 1 @@ "r2" :> 1
TwoSPsWorkerOf == "r1" :> "w1" @@ "r2" :> "w2"
TwoSPsCostOf   == "r1" :> 1 @@ "r2" :> 2
TwoSPsSPOf     == "w1" :> 1 @@ "w2" :> 2

\* One request of one wallet.
OneWalletOf == "r1" :> 1
OneWorkerOf == "r1" :> "w1"
BigCostOf   == "r1" :> 3
OneSPOf     == "w1" :> 1
=============================================================================
