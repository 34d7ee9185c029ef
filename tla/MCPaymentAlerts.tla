-------------------------- MODULE MCPaymentAlerts ----------------------------
(***************************************************************************)
(* Instances of PaymentAlerts for TLC: an expiry and a settlement of the   *)
(* same order, and a notification that carries a wrong signature.          *)
(***************************************************************************)
EXTENDS PaymentAlerts, TLC

CONSTANTS expiry, paid, forged, o1

MC_Order == (expiry :> o1) @@ (paid :> o1)
MC_Status == (expiry :> "EXPIRE") @@ (paid :> "SETTLEMENT")
MC_OrderOf == [n \in Notes |-> MC_Order[n]]
MC_Asks == [n \in Notes |-> MC_Status[n]]
=============================================================================
