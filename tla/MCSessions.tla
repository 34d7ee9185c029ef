----------------------------- MODULE MCSessions -----------------------------
(* Instances of Sessions for TLC: two requests under way at once.           *)
EXTENDS Sessions, TLC

MC_Symmetry == Permutations(Procs) \cup Permutations(Tokens)
=============================================================================
