--------------------------- MODULE MCPaymentOrders ---------------------------
(***************************************************************************)
(* Instances of PaymentOrders for TLC: two top-ups, a test payment with    *)
(* two commission parties, and two wallet payments, each of which the      *)
(* first top-up covers exactly.  One user owns them all, or all but the    *)
(* test payment.                                                           *)
(***************************************************************************)
EXTENDS PaymentOrders, TLC

CONSTANTS o_topup, o_topup2, o_test, o_wallet, o_wallet2, yayasan, referrer, u1, u2

MC_Kind == (o_topup :> "TOPUP") @@ (o_topup2 :> "TOPUP")
             @@ (o_test :> "TEST") @@ (o_wallet :> "WALLET") @@ (o_wallet2 :> "WALLET")
MC_KindOf == [o \in Orders |-> MC_Kind[o]]
MC_OneOwner == [o \in Orders |-> u1]
MC_TwoOwners == [o \in Orders |-> IF o = o_test THEN u2 ELSE u1]
MC_Amount == [o \in Orders |-> IF o = o_topup2 THEN 1 ELSE 2]
MC_PartiesOf == [o \in Orders |-> IF KindOf[o] = "TOPUP" THEN {} ELSE {yayasan, referrer}]

\* Callers are interchangeable, and so are the two commission parties.
MC_Symmetry == Permutations(Procs) \cup Permutations(Parties)
=============================================================================
