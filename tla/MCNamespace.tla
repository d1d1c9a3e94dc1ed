---------------------------- MODULE MCNamespace ----------------------------
(* Namespace for TLC: names and nodes are interchangeable, and so are the    *)
(* entries that no UpdateReplicas command mentions.                         *)
EXTENDS Replay, TLC

\* A list of replicas at the path of one FileID, whatever file it is sent to.
CONSTANT Other
Payloads == {Addr \X {Other}}

Symmetry ==
  Permutations(Entry \ {Root, Other}) \cup Permutations(Name) \cup Permutations(Addr)
=============================================================================
