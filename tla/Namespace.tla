----------------------------- MODULE Namespace -----------------------------
(***************************************************************************)
(* The directory tree of the metadata server (MDS): the part of the Raft    *)
(* state machine that Apply (internal/metadata/state_machine.go) changes    *)
(* through the apply* functions of internal/metadata/apply.go.              *)
(*                                                                          *)
(* A heap object *entry is an element of Entry (a pointer), never reused;   *)
(* "free" entries are not allocated yet.  Every Mkdir or CreateFile draws   *)
(* one random FileID and allocates at most one entry, so the FileID drawn   *)
(* with entry e is written e too: a FileID is an element of Entry, and so   *)
(* is the physical path /data/{FileID} of a replica.  "" (the root has no   *)
(* FileID) is Nil.  A path is the sequence of names splitPath returns, so   *)
(* spellings that split alike ("/a", "/a/") are one path here.  Names,      *)
(* modes and timestamps carry no control and are left out.                  *)
(*                                                                          *)
(* A command whose apply* function returns an error changes nothing and is  *)
(* a disabled action.                                                       *)
(***************************************************************************)
EXTENDS Naturals, Sequences

CONSTANTS
  Name,        \* path components
  Entry,       \* entry objects, FileIDs and physical paths
  Root,        \* mds.root
  Nil,         \* Go's nil, and a missing map key
  Addr,        \* data node addresses
  Size,        \* file sizes
  MaxDepth,    \* bound: components of the longest path used
  CreateModes, \* the CreateMode values clients send
  ReplicaLists \* the replica lists that UpdateReplicas commands carry

ASSUME NamespaceAssumption ==
  /\ Root \in Entry
  /\ Nil \notin Entry
  /\ MaxDepth \in Nat
  /\ CreateModes \subseteq {"CreateIfNotExist", "OverwriteIfExists"}
  /\ ReplicaLists \subseteq SUBSET (Addr \X Entry)

VARIABLES
  kind,      \* "free" (not allocated), "dir" or "file"
  children,  \* children[d][n]: the entry named n in directory d, or Nil
  fileID,    \* stable object identity
  status,    \* files: "pending", "complete" or "recovering"
  size,      \* files: the size clients see
  replicas   \* files: a set of <<data node address, physical path>>

vars == <<kind, children, fileID, status, size, replicas>>
data == <<fileID, status, size, replicas>>

Status == {"pending", "complete", "recovering"}

Path == UNION {[1..n -> Name] : n \in 0..MaxDepth}

TypeOK ==
  /\ kind \in [Entry -> {"free", "dir", "file"}]
  /\ children \in [Entry -> [Name -> Entry \cup {Nil}]]
  /\ fileID \in [Entry -> Entry \cup {Nil}]
  /\ status \in [Entry -> Status \cup {"none"}]
  /\ size \in [Entry -> Size \cup {0}]
  /\ replicas \in [Entry -> SUBSET (Addr \X Entry)]
  /\ \A e \in Entry : kind[e] = "file" <=> status[e] \in Status

Init ==
  /\ kind = [e \in Entry |-> IF e = Root THEN "dir" ELSE "free"]
  /\ children = [e \in Entry |-> [n \in Name |-> Nil]]
  /\ fileID = [e \in Entry |-> Nil]
  /\ status = [e \in Entry |-> "none"]
  /\ size = [e \in Entry |-> 0]
  /\ replicas = [e \in Entry |-> {}]

----------------------------------------------------------------------------
(* Walking the tree.                                                        *)

\* The entries the loop over dirParts visits on its way to the parent of p.
Walk(p) ==
  LET w[i \in 0..(Len(p) - 1)] ==
        IF i = 0 THEN Root
        ELSE IF w[i - 1] = Nil THEN Nil ELSE children[w[i - 1]][p[i]]
  IN  w

\* The loop ran to its end: w starts at the root and follows existing
\* directories, named as in p.
IsWalk(w, p) ==
  /\ Len(p) > 0
  /\ w \in [0..(Len(p) - 1) -> Entry]
  /\ w[0] = Root
  /\ \A i \in 0..(Len(p) - 1) : kind[w[i]] = "dir"
  /\ \A i \in 1..(Len(p) - 1) : w[i] = children[w[i - 1]][p[i]]

ParentFound(p) == IsWalk(Walk(p), p)
Parent(p) == Walk(p)[Len(p) - 1]
Last(p) == p[Len(p)]

\* mds.lookup, for paths other than "/": a file has no children, so only
\* directories are walked through.
lookup(p) == IF ParentFound(p) THEN children[Parent(p)][Last(p)] ELSE Nil

\* The entries a recursion from mds.root visits: the least set that holds the
\* root and the children of its members.
Closed(S) ==
  /\ Root \in S
  /\ \A d \in S, n \in Name : children[d][n] # Nil => children[d][n] \in S

Reachable == {e \in Entry : \A S \in SUBSET Entry : Closed(S) => e \in S}

collectAllFileIDs == {fileID[e] : e \in Reachable}               \* mutant

collectUnlinkedToo == {fileID[e] : e \in {d \in Entry : kind[d] = "file"}}
                                                                 \* mutant

collectValidFileIDs == {fileID[e] : e \in {d \in Reachable : kind[d] = "file"}}

\* generateFileID and the allocation of an entry: 16 random bytes, taken to
\* differ from every FileID drawn before.
FreshOrUnlinked(e) ==                                            \* mutant
  e # Root /\ \A d \in Entry, n \in Name : children[d][n] # e

Fresh(e) == kind[e] = "free"

----------------------------------------------------------------------------
(* The commands.                                                            *)

\* An existing directory is left as it is (the command is idempotent).
applyMkdir(p, e) ==
  /\ ParentFound(p)
  /\ lookup(p) = Nil
  /\ Fresh(e)
  /\ kind' = [kind EXCEPT ![e] = "dir"]
  /\ fileID' = [fileID EXCEPT ![e] = e]
  /\ children' = [children EXCEPT ![Parent(p)][Last(p)] = e]
  /\ UNCHANGED <<status, size, replicas>>

\* The existence check CreateFile makes only here, in the serial Apply.
MayReplaceFile(old, mode) == old # Nil => kind[old] = "file"     \* mutant

MayCreate(old, mode) ==
  old # Nil => kind[old] = "file" /\ mode = "OverwriteIfExists"

\* CreateFile draws FileID e and places the replicas at /data/e; when it
\* overwrites a file, the new entry keeps the FileID of the old one.
applyCreateFile(p, e, mode, sz, addrs) ==
  LET old == lookup(p) IN
  /\ ParentFound(p)
  /\ MayCreate(old, mode)
  /\ Fresh(e)
  /\ kind' = [kind EXCEPT ![e] = "file"]
  /\ fileID' = [fileID EXCEPT ![e] = IF old = Nil THEN e ELSE fileID[old]]
  /\ status' = [status EXCEPT ![e] = "pending"]
  /\ size' = [size EXCEPT ![e] = sz]
  /\ replicas' = [replicas EXCEPT ![e] = addrs \X {e}]
  /\ children' = [children EXCEPT ![Parent(p)][Last(p)] = e]

IsEntry(e) == e # Nil                                            \* mutant

IsFile(e) == e # Nil /\ kind[e] = "file"

applyCompleteFile(p) ==
  /\ IsFile(lookup(p))
  /\ status' = [status EXCEPT ![lookup(p)] = "complete"]
  /\ UNCHANGED <<kind, children, fileID, size, replicas>>

\* Deletes a file, or a directory with everything below it.
applyDelete(p) ==
  /\ lookup(p) # Nil
  /\ children' = [children EXCEPT ![Parent(p)][Last(p)] = Nil]
  /\ UNCHANGED <<kind, data>>

\* The walk to the parent of dst passes through directory e.
IsParentOf(e, dst) == kind[e] = "dir" /\ Parent(dst) = e         \* mutant

IsAncestorOf(e, dst) ==
  kind[e] = "dir" /\ \E i \in 0..(Len(dst) - 1) : Walk(dst)[i] = e

\* Moving a directory below itself is refused, as is replacing a directory.
RenameAsLink(src, dst) ==                                        \* mutant
  /\ lookup(src) # Nil
  /\ ParentFound(dst)
  /\ ~IsAncestorOf(lookup(src), dst)
  /\ lookup(dst) # Nil => kind[lookup(dst)] # "dir"
  /\ children' = [children EXCEPT ![Parent(dst)][Last(dst)] = lookup(src)]
  /\ UNCHANGED <<kind, data>>

applyRename(src, dst) ==
  LET e == lookup(src)
      old == lookup(dst)
  IN
  /\ e # Nil
  /\ ParentFound(dst)
  /\ ~IsAncestorOf(e, dst)
  /\ old # Nil => kind[old] # "dir"
  /\ children' = [children EXCEPT ![Parent(src)][Last(src)] = Nil,
                                  ![Parent(dst)][Last(dst)] = e]
  /\ UNCHANGED <<kind, data>>

applyUpdateSize(p, sz) ==
  /\ IsFile(lookup(p))
  /\ status[lookup(p)] # "recovering"
  /\ size' = [size EXCEPT ![lookup(p)] = sz]
  /\ UNCHANGED <<kind, children, fileID, status, replicas>>

\* Replaces the whole list; the command names the file by its path only.
applyUpdateReplicas(p, list) ==
  /\ IsFile(lookup(p))
  /\ list # {}
  /\ replicas' = [replicas EXCEPT ![lookup(p)] = list]
  /\ UNCHANGED <<kind, children, fileID, status, size>>

applyUpdateStatus(p, st) ==
  /\ IsFile(lookup(p))
  /\ status' = [status EXCEPT ![lookup(p)] = st]
  /\ UNCHANGED <<kind, children, fileID, size, replicas>>

----------------------------------------------------------------------------

\* The commands that clients cause, and those of the replicator.
ClientNext ==
  \/ \E p \in Path, e \in Entry : applyMkdir(p, e)
  \/ \E p \in Path, e \in Entry, mode \in CreateModes, sz \in Size,
        addrs \in SUBSET Addr : addrs # {} /\ applyCreateFile(p, e, mode, sz, addrs)
  \/ \E p \in Path : applyCompleteFile(p)
  \/ \E p \in Path : applyDelete(p)
  \/ \E src, dst \in Path : applyRename(src, dst)
  \/ \E p \in Path, sz \in Size : applyUpdateSize(p, sz)

ReplicatorNext ==
  \/ \E p \in Path, list \in ReplicaLists : applyUpdateReplicas(p, list)
  \/ \E p \in Path, st \in {"complete", "recovering"} : applyUpdateStatus(p, st)

Next == ClientNext \/ ReplicatorNext

Spec == Init /\ [][Next]_vars

\* Without the replicator.
ClientSpec == Init /\ [][ClientNext]_vars

----------------------------------------------------------------------------
(* Properties.                                                              *)

\* Only allocated directories have children, children are allocated entries,
\* and the root, which is nobody's child, is a directory.
Linked ==
  /\ kind[Root] = "dir"
  /\ \A d \in Entry, n \in Name :
        children[d][n] # Nil =>
          /\ kind[d] = "dir"
          /\ kind[children[d][n]] # "free"
          /\ children[d][n] # Root

\* No entry hangs in two directories, or in one under two names.
OneParent ==
  \A d1, d2 \in Entry, n1, n2 \in Name :
    children[d1][n1] = children[d2][n2] /\ children[d1][n1] # Nil
      => d1 = d2 /\ n1 = n2

\* No set of entries in which everyone is a child of another one: there is
\* no cycle, so collectFileIDsRecursive and findUnderReplicatedTasks end.
NoCycle ==
  \A S \in SUBSET Entry :
    S # {} => \E e \in S : \A d \in S, n \in Name : children[d][n] # e

\* The tree stays a tree, whatever renames, deletes and overwrites do to it
\* (detached subtrees included, until Go collects them).
IsTree == Linked /\ OneParent /\ NoCycle

\* Two objects never share an identity: neither two places of the tree, nor
\* a place of the tree and an entry yet to be allocated.
UniqueIdentity ==
  /\ \A d1, d2 \in Entry, n1, n2 \in Name :
       /\ children[d1][n1] # Nil /\ children[d2][n2] # Nil
       /\ fileID[children[d1][n1]] = fileID[children[d2][n2]]
       => d1 = d2 /\ n1 = n2
  /\ \A e \in Entry :
       kind[e] # "free" /\ e # Root =>
         fileID[e] \in Entry /\ kind[fileID[e]] # "free"

\* The identities of the objects in the tree.
LiveIDs == {fileID[e] : e \in Reachable \ {Root}}

\* The tree keeps the promise of Identities: no FileID comes back after its
\* object was deleted, renamed over or went down with its directory.
Ids == INSTANCE Identities WITH
         Id <- Entry,
         drawn <- {e \in Entry \ {Root} : kind[e] # "free"},
         live <- LiveIDs

FileIDsNeverReturn == Ids!Spec
=============================================================================
