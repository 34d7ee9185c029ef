--------------------------- MODULE MCCertificates ---------------------------
(***************************************************************************)
(* Instances of Certificates for TLC: a profile that moves between two     *)
(* birth dates, one whose digits are added up twice and one of an          *)
(* ambivert, two tabs, two certificate requests at once, and answers at    *)
(* the ends of the scales.                                                 *)
(***************************************************************************)
EXTENDS Certificates, TLC

MC_Births == {[day |-> 29, month |-> 9, year |-> 1999],
              [day |-> 9, month |-> 9, year |-> 1998]}

All(n) == [i \in 1..5 |-> n]

\* One element takes every vote and every point; the votes of the golden unit
\* test with points that tie.
MC_Sheets ==
    {[yes |-> 1..3, b |-> [q \in 1..5 |-> "Api"],
      c |-> [e \in Elements |-> IF e \in {"Api", "Tanah"} THEN All(10) ELSE All(1)]],
     [yes |-> {1, 2, 4}, b |-> <<"Logam", "Kayu", "Air", "Air", "Api">>,
      c |-> [e \in Elements |-> All(4)]]}

MC_Symmetry == Permutations(Procs) \cup Permutations(Desks) \cup Permutations(Keys)
=============================================================================
