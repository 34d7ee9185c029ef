--------------------------- MODULE MCRegistration ---------------------------
(* Instances of Registration for TLC: two yayasans, two requests at once. *)
EXTENDS Registration, TLC

MC_Symmetry == Permutations(Procs) \cup Permutations(Applicants)
=============================================================================
