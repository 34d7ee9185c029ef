--------------------------- MODULE MCSnapCheckout ---------------------------
(***************************************************************************)
(* Instances of SnapCheckout for TLC: two browser tabs of one user and the *)
(* reconcile cron.                                                         *)
(***************************************************************************)
EXTENDS SnapCheckout, TLC

CONSTANTS t1, t2

MC_Symmetry == Permutations(Procs)
=============================================================================
