----------------------------- MODULE SettleOnce ------------------------------
(***************************************************************************)
(* What the payment core promises, without transactions, snapshots, locks  *)
(* or provider statuses: an order is placed, may fail, may be settled      *)
(* (also after it failed), and is settled once; settling books its         *)
(* business effect exactly then; a wallet payment needs the funds.         *)
(***************************************************************************)
EXTENDS Naturals

CONSTANTS Orders, Users, KindOf, OwnerOf, Amount

VARIABLES outcome,  \* order -> "none", "open", "failed" or "settled"
          booked,   \* order -> how often its business effect was booked
          funds     \* user -> spendable balance

vars == <<outcome, booked, funds>>

Init ==
    /\ outcome = [o \in Orders |-> "none"]
    /\ booked = [o \in Orders |-> 0]
    /\ funds = [u \in Users |-> 0]

Place(o) ==
    /\ KindOf[o] # "WALLET"
    /\ outcome[o] = "none"
    /\ outcome' = [outcome EXCEPT ![o] = "open"]
    /\ UNCHANGED <<booked, funds>>

Fail(o) ==
    /\ outcome[o] = "open"
    /\ outcome' = [outcome EXCEPT ![o] = "failed"]
    /\ UNCHANGED <<booked, funds>>

Settle(o) ==
    /\ outcome[o] \in {"open", "failed"}
    /\ outcome' = [outcome EXCEPT ![o] = "settled"]
    /\ booked' = [booked EXCEPT ![o] = @ + 1]
    /\ funds' = IF KindOf[o] = "TOPUP"
                THEN [funds EXCEPT ![OwnerOf[o]] = @ + Amount[o]]
                ELSE funds

PayFromWallet(o) ==
    /\ KindOf[o] = "WALLET"
    /\ outcome[o] = "none"
    /\ funds[OwnerOf[o]] >= Amount[o]
    /\ outcome' = [outcome EXCEPT ![o] = "settled"]
    /\ booked' = [booked EXCEPT ![o] = @ + 1]
    /\ funds' = [funds EXCEPT ![OwnerOf[o]] = @ - Amount[o]]

Next == \E o \in Orders : Place(o) \/ Fail(o) \/ Settle(o) \/ PayFromWallet(o)

Spec == Init /\ [][Next]_vars
=============================================================================
