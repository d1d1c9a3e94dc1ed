----------------------------- MODULE MCCluster -----------------------------
(* Cluster for TLC.                                                         *)
EXTENDS Cluster

\* Servers are alike, so that one choice for all data nodes shows the others.
OneServer == [n \in Node |-> CHOOSE s \in Server : TRUE]
=============================================================================
