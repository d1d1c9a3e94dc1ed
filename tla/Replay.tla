------------------------------- MODULE Replay -------------------------------
(***************************************************************************)
(* Snapshots of the tree (entry.toSnapshot, internal/metadata/mds.go), and  *)
(* the tree of pointers in Namespace as an implementation of the tree of    *)
(* values in Snapshots.                                                     *)
(***************************************************************************)
EXTENDS Namespace

\* entrySnapshot
Image(e) ==
  [kind |-> kind[e], id |-> fileID[e], status |-> status[e], size |-> size[e],
   replicas |-> replicas[e]]

\* The paths, from d on, that the recursion over the children of d visits.
Visits(d) ==
  LET below[e \in Entry] ==
        {<<>>} \cup UNION {{<<n>> \o p : p \in below[children[e][n]]} :
                             n \in {m \in Name : children[e][m] # Nil}}
  IN  below[d]

\* The entry that it finds there.
At(p) ==
  LET w[i \in 0..Len(p)] == IF i = 0 THEN Root ELSE children[w[i - 1]][p[i]]
  IN  w[Len(p)]

WithoutStatus ==                                                 \* mutant
  [p \in Visits(Root) |-> [Image(At(p)) EXCEPT !.status = "none"]]

toSnapshot == [p \in Visits(Root) |-> Image(At(p))]

Snap == INSTANCE Snapshots WITH
          FileIDs <- Entry \ {Root}, Sizes <- Size, NoID <- Nil,
          Lists <- ReplicaLists \cup {addrs \X {e} : addrs \in SUBSET Addr \ {{}},
                                                     e \in Entry \ {Root}},
          fs <- toSnapshot

\* Whatever pointers, detached subtrees and entries of overwritten files a
\* server has in memory, every step of its tree is a command on the value that
\* a snapshot holds: nothing that a restart loses ever shows in the tree, and
\* no command changes a part of the tree that it does not name.
SnapshotsSuffice == Snap!Spec
=============================================================================
