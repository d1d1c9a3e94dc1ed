----------------------------- MODULE Identities -----------------------------
(***************************************************************************)
(* What the metadata server promises about FileIDs ("inode equivalents",    *)
(* internal/metadata/mds.go, type entry): an identity is drawn once, names   *)
(* one object of the tree from then on, and never comes back after the      *)
(* object has left the tree.  The orphan collector depends on it: a FileID   *)
(* it did not see in the tree may be deleted from the data nodes only       *)
(* because it can never be referenced again.                                *)
(***************************************************************************)
CONSTANT Id

VARIABLES
  drawn,  \* every FileID a command has used so far
  live    \* the FileIDs of the objects in the tree

vars == <<drawn, live>>

Init == drawn = {} /\ live = {}

\* A new object enters the tree, or the identity drawn for it is dropped
\* because the command found an object to reuse.
Draw(id) ==
  /\ id \notin drawn
  /\ drawn' = drawn \cup {id}
  /\ live' \in {live, live \cup {id}}

\* Objects leave the tree: a file, or a directory with everything below it.
Retire(S) ==
  /\ live' = live \ S
  /\ UNCHANGED drawn

Next == (\E id \in Id : Draw(id)) \/ (\E S \in SUBSET Id : Retire(S))

Spec == Init /\ [][Next]_vars
=============================================================================
