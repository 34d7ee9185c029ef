----------------------------- MODULE MCPayouts -----------------------------
(* Instances of Payouts for TLC: two requests under way at once.            *)
EXTENDS Payouts, TLC

MC_Symmetry == Permutations(Procs)
=============================================================================
