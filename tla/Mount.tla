------------------------------- MODULE Mount -------------------------------
(***************************************************************************)
(* A mounted file system: the FUSE nodes and file handles of internal/fuse  *)
(* (node.go, file_handle.go) between the kernel, which works with inodes    *)
(* and cached names, and the MDS, which works with paths.                   *)
(*                                                                          *)
(* An inode number is a FileID (inodeFromID: a hash, taken to be            *)
(* injective), the root's is Root.  A fuseNode holds the path that it was   *)
(* created with.  The kernel and go-fuse are external: the kernel caches     *)
(* which inode a name leads to, asks again (Lookup) once defaultTimeout is   *)
(* over, moves a name on rename, and forgets inodes nothing leads to;        *)
(* NewInode keeps the node it has for an inode number.  The kernel locks     *)
(* the directories a call works on, so a call is one step; the races inside  *)
(* Client.Open are in Handles.  Only this mount changes the tree: what       *)
(* others change may be unseen for defaultTimeout, by design.                *)
(***************************************************************************)
EXTENDS Namespace, FiniteSets

CONSTANTS
  Movable,  \* the kinds of objects that applications rename
  MaxOpen   \* bound: open files

ASSUME MountAssumption ==
  /\ Movable \subseteq {"file", "dir"}
  /\ MaxOpen \in Nat
  /\ Nil \notin Path
  /\ "CreateIfNotExist" \in CreateModes /\ 0 \in Size /\ Addr # {}

VARIABLES
  node,     \* node[i]: fuseNode.path of inode i, or Nil
  dentry,   \* dentry[d][n]: the inode that name n in directory d leads to
  open      \* the open files

tree == <<kind, children, fileID, status, size, replicas>>
mvars == <<tree, node, dentry, open>>

Object(e) == IF e = Root THEN Root ELSE fileID[e]

\* A fuseFileHandle: the inode it was opened on, and what Client.Open found.
FD == [ino : Entry, id : Entry, path : Path, status : Status]

Known == {i \in Entry : node[i] # Nil}
Led == {dentry[d][n] : d \in Entry, n \in Name} \ {Nil}

MTypeOK ==
  /\ TypeOK
  /\ node \in [Entry -> Path \cup {Nil}] /\ node[Root] = <<>>
  /\ dentry \in [Entry -> [Name -> Entry \cup {Nil}]]
  /\ open \subseteq FD
  /\ Led \subseteq Known \ {Root}

MInit ==
  /\ Init
  /\ node = [i \in Entry |-> IF i = Root THEN <<>> ELSE Nil]
  /\ dentry = [d \in Entry |-> [n \in Name |-> Nil]]
  /\ open = {}

----------------------------------------------------------------------------

joinPath(p, n) == Append(p, n)

\* NewInode, and what the kernel makes of the reply.
NewInode(d, n, i, p) ==
  /\ node' = [node EXCEPT ![i] = IF @ = Nil THEN p ELSE @]
  /\ dentry' = [dentry EXCEPT ![d][n] = i]

\* The kernel works on a directory that it knows, below the longest path.
Dir(d) ==
  /\ node[d] # Nil /\ kind[d] = "dir"
  /\ Len(node[d]) < MaxDepth

Lookup(d, n) ==
  LET p == joinPath(node[d], n) IN
  /\ Dir(d) /\ dentry[d][n] = Nil
  /\ lookup(p) # Nil
  /\ NewInode(d, n, Object(lookup(p)), p)
  /\ UNCHANGED <<tree, open>>

\* Create opens with O_CREAT and O_TRUNC.  The kernel looks the name up first,
\* but the answer may be out of date.
Create(d, n, e) ==
  LET p == joinPath(node[d], n)
      old == lookup(p)
      id == IF old = Nil THEN e ELSE fileID[old]
  IN
  /\ Dir(d) /\ dentry[d][n] = Nil
  /\ \/ applyCreateFile(p, e, "CreateIfNotExist", 0, Addr)
     \/ e = Root /\ IsFile(old) /\ applyUpdateSize(p, 0)
  /\ NewInode(d, n, id, p)
  /\ Cardinality(open) < MaxOpen
  /\ open' = open \cup {[ino |-> id, id |-> id, path |-> p,
                         status |-> IF old = Nil THEN "pending" ELSE status[old]]}

\* Client.Mkdir takes an existing directory for its own; Stat follows.
Mkdir(d, n, e) ==
  LET p == joinPath(node[d], n)
      old == lookup(p)
  IN
  /\ Dir(d) /\ dentry[d][n] = Nil
  /\ \/ applyMkdir(p, e)
     \/ e = Root /\ old # Nil /\ kind[old] = "dir" /\ UNCHANGED tree
  /\ NewInode(d, n, IF old = Nil THEN e ELSE fileID[old], p)
  /\ UNCHANGED open

\* The kernel sends Unlink for files only (there is no Rmdir); Client.Delete
\* removes whatever is at the path.
Unlink(d, n) ==
  LET c == dentry[d][n] IN
  /\ Dir(d) /\ c # Nil /\ kind[c] = "file"
  /\ applyDelete(joinPath(node[d], n))
  /\ dentry' = [dentry EXCEPT ![d][n] = Nil]
  /\ UNCHANGED <<node, open>>

RenameInPlace(d1, n1, d2, n2) ==                                 \* mutant
  LET c == dentry[d1][n1] IN
  /\ Dir(d1) /\ Dir(d2) /\ <<d1, n1>> # <<d2, n2>>
  /\ c # Nil /\ kind[c] \in Movable
  /\ applyRename(joinPath(node[d1], n1), joinPath(node[d1], n2))
  /\ dentry' = [dentry EXCEPT ![d1][n1] = Nil, ![d2][n2] = c]
  /\ UNCHANGED <<node, open>>

\* The moved node keeps its path: RmChild only takes it out of go-fuse's tree.
Rename(d1, n1, d2, n2) ==
  LET c == dentry[d1][n1] IN
  /\ Dir(d1) /\ Dir(d2) /\ <<d1, n1>> # <<d2, n2>>
  /\ c # Nil /\ kind[c] \in Movable
  /\ applyRename(joinPath(node[d1], n1), joinPath(node[d2], n2))
  /\ dentry' = [dentry EXCEPT ![d1][n1] = Nil, ![d2][n2] = c]
  /\ UNCHANGED <<node, open>>

OpenAnyKind(i) ==                                                \* mutant
  LET e == lookup(node[i]) IN
  /\ i \in Led /\ kind[i] = "file"
  /\ e # Nil
  /\ Cardinality(open) < MaxOpen
  /\ open' = open \cup {[ino |-> i, id |-> fileID[e], path |-> node[i],
                         status |-> status[e]]}
  /\ UNCHANGED <<tree, node, dentry>>

\* fuseNode.Open, by the path of the node.
Open(i) ==
  LET e == lookup(node[i]) IN
  /\ i \in Led /\ kind[i] = "file"
  /\ IsFile(e)
  /\ Cardinality(open) < MaxOpen
  /\ open' = open \cup {[ino |-> i, id |-> fileID[e], path |-> node[i],
                         status |-> status[e]]}
  /\ UNCHANGED <<tree, node, dentry>>

\* truncate(2): Client.Open, FileHandle.Truncate and Close.
Setattr(i, k) ==
  LET e == lookup(node[i]) IN
  /\ i \in Led /\ kind[i] = "file"
  /\ IsFile(e) /\ status[e] # "recovering"
  /\ size' = [size EXCEPT ![e] = k]
  /\ status' = [status EXCEPT ![e] = "complete"]
  /\ UNCHANGED <<kind, children, fileID, replicas, node, dentry, open>>

\* ftruncate(2), on the handle.
SetattrOpen(fd, k) ==
  /\ fd \in open
  /\ applyUpdateSize(fd.path, k)
  /\ UNCHANGED <<node, dentry, open>>

\* Release closes the handle, which completes the file at its path.
Release(fd) ==
  /\ fd \in open
  /\ open' = open \ {fd}
  /\ IF fd.status = "pending" /\ IsFile(lookup(fd.path))
     THEN applyCompleteFile(fd.path) ELSE UNCHANGED tree
  /\ UNCHANGED <<node, dentry>>

\* defaultTimeout is over for a name.
Expire(d, n) ==
  /\ dentry[d][n] # Nil
  /\ dentry' = [dentry EXCEPT ![d][n] = Nil]
  /\ UNCHANGED <<tree, node, open>>

\* The kernel forgets an inode that no name and no open file leads to.
Forget(i) ==
  /\ node[i] # Nil /\ i \notin Led \cup {Root} \cup {fd.ino : fd \in open}
  /\ \A n \in Name : dentry[i][n] = Nil
  /\ node' = [node EXCEPT ![i] = Nil]
  /\ UNCHANGED <<tree, dentry, open>>

NameStep(d, n) ==
  \/ Lookup(d, n) \/ Unlink(d, n) \/ Expire(d, n)
  \/ \E e \in Entry : Create(d, n, e) \/ Mkdir(d, n, e)
  \/ \E d2 \in Entry, n2 \in Name : Rename(d, n, d2, n2)

MNext ==
  \/ \E d \in Entry, n \in Name : NameStep(d, n)
  \/ \E i \in Entry : Open(i) \/ Forget(i) \/ \E k \in Size : Setattr(i, k)
  \/ \E fd \in open : Release(fd) \/ \E k \in Size : SetattrOpen(fd, k)

MSpec == MInit /\ [][MNext]_mvars

----------------------------------------------------------------------------
(* Properties.                                                              *)

\* What a name leads to in the kernel is what the MDS has under the path that
\* the directory's node and the name make, so that Unlink, Rename and Create
\* act on the object that the caller sees.
NamesCurrent ==
  \A d \in Entry, n \in Name :
    dentry[d][n] # Nil => LET e == lookup(joinPath(node[d], n)) IN
      e # Nil /\ fileID[e] = dentry[d][n]

\* Opening an inode opens that file, renamed or not (inode numbers come from
\* FileIDs so that they survive renames).
OpensItself == \A fd \in open : fd.id = fd.ino
=============================================================================
