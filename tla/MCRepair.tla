------------------------------ MODULE MCRepair ------------------------------
(* Repair for TLC: files, names, nodes and handles are interchangeable.     *)
EXTENDS Repair, TLC

Symmetry ==
  Permutations(Files) \cup Permutations(Name) \cup Permutations(Addr)
    \cup Permutations(Handle)
=============================================================================
