------------------------------ MODULE MCMount ------------------------------
(* Mount for TLC: names and entries other than the root are interchangeable. *)
EXTENDS Mount, TLC

Symmetry == Permutations(Entry \ {Root}) \cup Permutations(Name)
=============================================================================
