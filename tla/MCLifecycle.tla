---------------------------- MODULE MCLifecycle ----------------------------
(* Lifecycle for TLC: entries other than the root, names, nodes, clients and *)
(* collectors are interchangeable.                                          *)
EXTENDS Lifecycle, TLC

Symmetry ==
  Permutations(Entry \ {Root}) \cup Permutations(Name) \cup Permutations(Addr)
    \cup Permutations(Client) \cup Permutations(Collector)
=============================================================================
