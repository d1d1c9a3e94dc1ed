---------------------------- MODULE MountProofs ----------------------------
(***************************************************************************)
(* The names that the kernel has cached, for every set of names, inodes and *)
(* depth of paths: as long as only files are renamed, a directory's node     *)
(* keeps a path that leads to that directory, and every cached name leads    *)
(* where the MDS says.                                                       *)
(***************************************************************************)
EXTENDS Mount, NamespaceProofs

\* FUSE never overwrites: an object keeps the FileID drawn with its entry,
\* which is its inode number.
OwnIds == \A e \in Entry : kind[e] # "free" /\ e # Root => fileID[e] = e

\* go-fuse has nodes of allocated objects only.
KnownObjects == \A i \in Known : kind[i] # "free"

MBase == IInv /\ OwnIds /\ MTypeOK /\ KnownObjects

\* The path of a directory's node leads to that directory.
DirPaths == \A d \in Known : kind[d] = "dir" => Leads(children, node[d], d)

\* A cached name is in a directory that has it.
NamesAt ==
  \A d \in Entry, n \in Name :
    dentry[d][n] # Nil => Dir(d) /\ children[d][n] = dentry[d][n]

MInv == MBase /\ DirPaths /\ NamesAt

----------------------------------------------------------------------------
(* Paths and cached names.                                                  *)

LEMMA PathIs == \A p : p \in Path <=> p \in Seq(Name) /\ Len(p) <= MaxDepth
<1>1. ASSUME NEW p, p \in Path PROVE p \in Seq(Name) /\ Len(p) <= MaxDepth
  <2>1. PICK k \in 0..MaxDepth : p \in [1..k -> Name]
    BY <1>1 DEF Path
  <2>2. k \in Nat /\ k <= MaxDepth
    BY NamespaceAssumption
  <2>3. p \in Seq(Name) /\ Len(p) = k
    BY <2>1, <2>2
  <2> QED
    BY <2>2, <2>3
<1>2. ASSUME NEW p, p \in Seq(Name), Len(p) <= MaxDepth PROVE p \in Path
  <2>1. p \in [1..Len(p) -> Name] /\ Len(p) \in 0..MaxDepth
    BY <1>2, NamespaceAssumption
  <2> QED
    BY <2>1 DEF Path
<1> QED
  BY <1>1, <1>2

LEMMA JoinedPath ==
  ASSUME MTypeOK, NEW d \in Entry, Dir(d), NEW n \in Name
  PROVE  /\ node[d] \in Seq(Name)
         /\ joinPath(node[d], n) \in Path
         /\ Len(joinPath(node[d], n)) = Len(node[d]) + 1
         /\ Last(joinPath(node[d], n)) = n
         /\ \A i \in 1..Len(node[d]) : joinPath(node[d], n)[i] = node[d][i]
<1>1. node[d] \in Path /\ Len(node[d]) < MaxDepth
  BY DEF MTypeOK, Dir
<1>2. node[d] \in Seq(Name) /\ MaxDepth \in Nat /\ Len(node[d]) \in Nat
  BY <1>1, PathIs, NamespaceAssumption
<1>3. /\ Append(node[d], n) \in Seq(Name)
      /\ Len(Append(node[d], n)) = Len(node[d]) + 1
      /\ Append(node[d], n)[Len(node[d]) + 1] = n
      /\ \A i \in 1..Len(node[d]) : Append(node[d], n)[i] = node[d][i]
  BY <1>2
<1>4. Append(node[d], n) \in Path
  <2>1. Len(Append(node[d], n)) <= MaxDepth
    BY <1>1, <1>2, <1>3
  <2> QED
    BY <1>3, <2>1, PathIs, Zenon
<1> QED
  BY <1>2, <1>3, <1>4 DEF joinPath, Last

\* The path that a directory's node and a name make leads to what the
\* directory has under the name.
LEMMA NameFound ==
  ASSUME MInv, NEW d \in Entry, Dir(d), NEW n \in Name
  PROVE  LET p == joinPath(node[d], n) IN
         /\ p \in Path /\ ParentFound(p) /\ Parent(p) = d /\ Last(p) = n
         /\ lookup(p) = children[d][n]
<1> DEFINE p == joinPath(node[d], n)
<1>1. /\ node[d] \in Seq(Name) /\ p \in Path /\ Len(p) = Len(node[d]) + 1 /\ Last(p) = n
      /\ \A i \in 1..Len(node[d]) : p[i] = node[d][i]
  BY JoinedPath DEF MInv, MBase
<1>2. Leads(children, node[d], d) /\ kind[d] = "dir"
  BY Zenon DEF MInv, DirPaths, Dir, Known
<1>3. PICK w \in [0..Len(node[d]) -> Entry] :
        /\ w[0] = Root /\ w[Len(node[d])] = d
        /\ \A i \in 1..Len(node[d]) : w[i] = children[w[i - 1]][node[d][i]]
  BY <1>2 DEF Leads
<1>4. Len(node[d]) \in Nat /\ Len(p) - 1 = Len(node[d]) /\ Len(p) > 0
  BY <1>1
<1>5. /\ w \in [0..(Len(p) - 1) -> Entry] /\ w[0] = Root /\ w[Len(p) - 1] = d
      /\ \A i \in 1..(Len(p) - 1) : w[i] = children[w[i - 1]][p[i]]
  BY <1>1, <1>3, <1>4
<1> HIDE DEF p
<1>6. TypeOK /\ Linked
  BY DEF MInv, MBase, IInv
<1>7. ParentFound(p) /\ Parent(p) = d /\ lookup(p) = children[d][Last(p)]
  BY <1>1, <1>2, <1>4, <1>5, <1>6, LeadsDir
<1> QED
  BY <1>1, <1>7 DEF p

\* NewInode gives an inode a node, unless it has one, and the name to it.
LEMMA NewInodeStep ==
  ASSUME MTypeOK, NEW d \in Entry, NEW n \in Name, NEW i \in Entry, i # Root,
         NEW p \in Path, NewInode(d, n, i, p)
  PROVE  /\ node' \in [Entry -> Path \cup {Nil}] /\ node'[Root] = <<>>
         /\ dentry' \in [Entry -> [Name -> Entry \cup {Nil}]]
         /\ \A x \in Entry : node'[x] = IF x = i /\ node[x] = Nil THEN p ELSE node[x]
         /\ \A x \in Entry, y \in Name :
              dentry'[x][y] = IF x = d /\ y = n THEN i ELSE dentry[x][y]
         /\ Led' \subseteq Known' \ {Root}
<1>1. /\ node \in [Entry -> Path \cup {Nil}] /\ node[Root] = <<>>
      /\ dentry \in [Entry -> [Name -> Entry \cup {Nil}]]
  BY DEF MTypeOK
<1>2. \A x \in Entry : node'[x] = IF x = i /\ node[x] = Nil THEN p ELSE node[x]
  BY <1>1 DEF NewInode
<1>3. node' \in [Entry -> Path \cup {Nil}] /\ node'[Root] = <<>>
  <2>1. node' = [node EXCEPT ![i] = IF node[i] = Nil THEN p ELSE node[i]]
    BY <1>1 DEF NewInode
  <2> QED
    BY <1>1, <2>1
<1>4. dentry' = [dentry EXCEPT ![d] = [dentry[d] EXCEPT ![n] = i]]
  BY DEF NewInode
<1>5. [dentry[d] EXCEPT ![n] = i] \in [Name -> Entry \cup {Nil}]
  BY <1>1
<1>6. dentry' \in [Entry -> [Name -> Entry \cup {Nil}]]
  BY <1>1, <1>4, <1>5
<1>7. \A x \in Entry, y \in Name :
        dentry'[x][y] = IF x = d /\ y = n THEN i ELSE dentry[x][y]
  BY <1>1, <1>4
<1>8. Led' \subseteq Known' \ {Root}
  <2> SUFFICES ASSUME NEW x \in Entry, NEW y \in Name, dentry'[x][y] # Nil
               PROVE  dentry'[x][y] \in Entry /\ node'[dentry'[x][y]] # Nil /\ dentry'[x][y] # Root
    BY DEF Led, Known
  <2>1. node'[i] # Nil
    BY <1>2, MountAssumption
  <2>2. CASE x = d /\ y = n
    BY <1>7, <2>1, <2>2
  <2>3. CASE ~(x = d /\ y = n)
    <3>1. dentry'[x][y] = dentry[x][y]
      BY <1>7, <2>3
    <3>2. dentry[x][y] \in Entry /\ node[dentry[x][y]] # Nil /\ dentry[x][y] # Root
      BY <3>1 DEF MTypeOK, Led, Known
    <3> QED
      BY <1>2, <2>1, <3>1, <3>2
  <2> QED
    BY <2>2, <2>3
<1> QED
  BY <1>2, <1>3, <1>6, <1>7, <1>8

\* A name is forgotten.
LEMMA DropName ==
  ASSUME MTypeOK, NEW d \in Entry, NEW n \in Name, UNCHANGED node,
         dentry' = [dentry EXCEPT ![d][n] = Nil]
  PROVE  /\ dentry' \in [Entry -> [Name -> Entry \cup {Nil}]]
         /\ \A x \in Entry, y \in Name :
              dentry'[x][y] = IF x = d /\ y = n THEN Nil ELSE dentry[x][y]
         /\ Led' \subseteq Known' \ {Root}
<1>1. dentry \in [Entry -> [Name -> Entry \cup {Nil}]] /\ Led \subseteq Known \ {Root}
  BY DEF MTypeOK
<1>2. dentry' = [dentry EXCEPT ![d] = [dentry[d] EXCEPT ![n] = Nil]]
  OBVIOUS
<1>3. [dentry[d] EXCEPT ![n] = Nil] \in [Name -> Entry \cup {Nil}]
  BY <1>1
<1>4. dentry' \in [Entry -> [Name -> Entry \cup {Nil}]]
  BY <1>1, <1>2, <1>3
<1>5. \A x \in Entry, y \in Name :
        dentry'[x][y] = IF x = d /\ y = n THEN Nil ELSE dentry[x][y]
  BY <1>1, <1>2
<1>6. Led' \subseteq Led
  <2> SUFFICES ASSUME NEW x \in Entry, NEW y \in Name, dentry'[x][y] # Nil
               PROVE  dentry'[x][y] \in Led
    BY DEF Led
  <2> QED
    BY <1>5 DEF Led
<1> QED
  BY <1>1, <1>4, <1>5, <1>6 DEF Known

LEMMA FewerNames ==
  ASSUME \A x \in Entry, y \in Name :
           dentry'[x][y] # Nil =>
             \E u \in Entry, v \in Name : dentry'[x][y] = dentry[u][v]
  PROVE  Led' \subseteq Led
<1> SUFFICES ASSUME NEW x \in Entry, NEW y \in Name, dentry'[x][y] # Nil
             PROVE  dentry'[x][y] \in Led
  BY DEF Led
<1> QED
  BY DEF Led

\* A name is moved.
LEMMA MoveName ==
  ASSUME MTypeOK, NEW d1 \in Entry, NEW n1 \in Name, NEW d2 \in Entry, NEW n2 \in Name,
         <<d1, n1>> # <<d2, n2>>, UNCHANGED node, dentry[d1][n1] # Nil,
         dentry' = [dentry EXCEPT ![d1][n1] = Nil, ![d2][n2] = dentry[d1][n1]]
  PROVE  /\ dentry' \in [Entry -> [Name -> Entry \cup {Nil}]]
         /\ \A x \in Entry, y \in Name :
              dentry'[x][y] = IF x = d2 /\ y = n2 THEN dentry[d1][n1]
                              ELSE IF x = d1 /\ y = n1 THEN Nil ELSE dentry[x][y]
         /\ Led' \subseteq Known' \ {Root}
<1>1. dentry \in [Entry -> [Name -> Entry \cup {Nil}]] /\ Led \subseteq Known \ {Root}
  BY DEF MTypeOK
<1>2. PICK h : h = [dentry EXCEPT ![d1] = [dentry[d1] EXCEPT ![n1] = Nil]]
  OBVIOUS
<1>3. [dentry[d1] EXCEPT ![n1] = Nil] \in [Name -> Entry \cup {Nil}]
  BY <1>1
<1>4. /\ h \in [Entry -> [Name -> Entry \cup {Nil}]]
      /\ \A x \in Entry, y \in Name :
           h[x][y] = IF x = d1 /\ y = n1 THEN Nil ELSE dentry[x][y]
  BY <1>1, <1>2, <1>3
<1>5. dentry' = [h EXCEPT ![d2] = [h[d2] EXCEPT ![n2] = dentry[d1][n1]]]
  BY <1>2
<1>6. [h[d2] EXCEPT ![n2] = dentry[d1][n1]] \in [Name -> Entry \cup {Nil}]
  BY <1>1, <1>4
<1>7. dentry' \in [Entry -> [Name -> Entry \cup {Nil}]]
  BY <1>4, <1>5, <1>6
<1>8. \A x \in Entry, y \in Name :
        dentry'[x][y] = IF x = d2 /\ y = n2 THEN dentry[d1][n1]
                        ELSE IF x = d1 /\ y = n1 THEN Nil ELSE dentry[x][y]
  BY <1>4, <1>5
<1>9. \A x \in Entry, y \in Name :
        dentry'[x][y] # Nil => \E u \in Entry, v \in Name : dentry'[x][y] = dentry[u][v]
  <2> SUFFICES ASSUME NEW x \in Entry, NEW y \in Name, dentry'[x][y] # Nil
               PROVE  dentry'[x][y] = dentry[d1][n1] \/ dentry'[x][y] = dentry[x][y]
    BY Zenon
  <2>1. dentry'[x][y] = IF x = d2 /\ y = n2 THEN dentry[d1][n1]
                        ELSE IF x = d1 /\ y = n1 THEN Nil ELSE dentry[x][y]
    BY <1>8, Zenon
  <2> QED
    BY <2>1, Zenon
<1>10. Led' \subseteq Led
  BY <1>9, FewerNames, Zenon
<1> QED
  BY <1>1, <1>7, <1>8, <1>10 DEF Known

----------------------------------------------------------------------------
(* What the calls of a mount do, whatever applications rename.              *)

\* A call that gives an inode to a name: the object was there, or the call
\* created it where nothing was.
LEMMA NewName ==
  ASSUME MBase, NEW d \in Entry, NEW n \in Name, NEW e \in Entry,
         Lookup(d, n) \/ Create(d, n, e) \/ Mkdir(d, n, e)
  PROVE  LET p == joinPath(node[d], n) IN
         /\ Dir(d) /\ p \in Path
         /\ \E i \in Entry \ {Root} :
              /\ NewInode(d, n, i, p)
              /\ \/ lookup(p) = i /\ UNCHANGED <<kind, children, fileID>>
                 \/ /\ lookup(p) = Nil /\ ParentFound(p) /\ i = e /\ Fresh(e)
                    /\ \E k \in {"dir", "file"} : kind' = [kind EXCEPT ![e] = k]
                    /\ children' = [children EXCEPT ![Parent(p)][Last(p)] = e]
                    /\ fileID' = [fileID EXCEPT ![e] = e]
<1> DEFINE p == joinPath(node[d], n)
<1>1. Dir(d) /\ TypeOK /\ Linked /\ MTypeOK
  BY DEF Lookup, Create, Mkdir, MBase, IInv
<1>2. p \in Path
  BY <1>1, JoinedPath
<1> HIDE DEF p
<1>3. lookup(p) # Nil => /\ lookup(p) \in Entry /\ lookup(p) # Root
                         /\ fileID[lookup(p)] = lookup(p)
  BY <1>1, <1>2, LookupFacts DEF MBase, OwnIds
<1>4. Fresh(e) => e # Root
  BY <1>1, NamespaceAssumption DEF Fresh, Linked
<1>5. CASE Lookup(d, n)
  <2>1. NewInode(d, n, lookup(p), p) /\ lookup(p) # Nil
    BY <1>3, <1>5 DEF Lookup, Object, p
  <2>2. UNCHANGED <<kind, children, fileID>>
    BY <1>5 DEF Lookup, tree
  <2> QED
    BY <1>1, <1>2, <1>3, <2>1, <2>2 DEF p
<1>6. CASE Create(d, n, e)
  <2>1. CASE applyCreateFile(p, e, "CreateIfNotExist", 0, Addr)
    <3>1. /\ lookup(p) = Nil /\ ParentFound(p) /\ Fresh(e)
          /\ kind' = [kind EXCEPT ![e] = "file"]
          /\ children' = [children EXCEPT ![Parent(p)][Last(p)] = e]
          /\ fileID' = [fileID EXCEPT ![e] = e]
      BY <2>1 DEF applyCreateFile, MayCreate
    <3>2. NewInode(d, n, e, p)
      BY <1>6, <3>1 DEF Create, p
    <3> QED
      BY <1>1, <1>2, <1>4, <3>1, <3>2 DEF p
  <2>2. CASE IsFile(lookup(p)) /\ applyUpdateSize(p, 0)
    <3>1. lookup(p) # Nil /\ UNCHANGED <<kind, children, fileID>>
      BY <2>2 DEF IsFile, applyUpdateSize
    <3>2. NewInode(d, n, lookup(p), p)
      BY <1>3, <1>6, <3>1 DEF Create, p
    <3> QED
      BY <1>1, <1>2, <1>3, <3>1, <3>2 DEF p
  <2> QED
    BY <1>6, <2>1, <2>2 DEF Create, p
<1>7. CASE Mkdir(d, n, e)
  <2>1. CASE applyMkdir(p, e)
    <3>1. /\ lookup(p) = Nil /\ ParentFound(p) /\ Fresh(e)
          /\ kind' = [kind EXCEPT ![e] = "dir"]
          /\ children' = [children EXCEPT ![Parent(p)][Last(p)] = e]
          /\ fileID' = [fileID EXCEPT ![e] = e]
      BY <2>1 DEF applyMkdir
    <3>2. NewInode(d, n, e, p)
      BY <1>7, <3>1 DEF Mkdir, p
    <3> QED
      BY <1>1, <1>2, <1>4, <3>1, <3>2 DEF p
  <2>2. CASE lookup(p) # Nil /\ UNCHANGED tree
    <3>1. UNCHANGED <<kind, children, fileID>>
      BY <2>2 DEF tree
    <3>2. NewInode(d, n, lookup(p), p)
      BY <1>3, <1>7, <2>2 DEF Mkdir, p
    <3> QED
      BY <1>1, <1>2, <1>3, <2>2, <3>1, <3>2 DEF p
  <2> QED
    BY <1>7, <2>1, <2>2 DEF Mkdir, p
<1> QED
  BY <1>5, <1>6, <1>7

\* Every call is a command of Namespace, or changes no more than the size and
\* the state of a file.
LEMMA MountTree ==
  ASSUME MBase, [MNext]_mvars
  PROVE  /\ IInv'
         /\ \A e \in Entry : kind[e] # "free" => kind'[e] = kind[e]
<1>1. IInv /\ MTypeOK /\ TypeOK /\ Linked
  BY DEF MBase, IInv
<1>2. CASE [Next]_vars
  BY <1>1, <1>2, NextIInv, TreeGrowth
<1>3. CASE UNCHANGED tree
  BY <1>2, <1>3 DEF tree, vars
<1>4. ASSUME NEW d \in Entry, NEW n \in Name, Dir(d)
      PROVE  joinPath(node[d], n) \in Path
  BY <1>1, <1>4, JoinedPath
<1>5. ASSUME NEW d \in Entry, NEW n \in Name, NEW e \in Entry, Create(d, n, e)
      PROVE  [Next]_vars
  <2> DEFINE p == joinPath(node[d], n)
  <2>1. p \in Path
    BY <1>4, <1>5 DEF Create
  <2>2. applyCreateFile(p, e, "CreateIfNotExist", 0, Addr) \/ applyUpdateSize(p, 0)
    BY <1>5 DEF Create
  <2> HIDE DEF p
  <2> QED
    BY <2>1, <2>2, MountAssumption DEF Next, ClientNext
<1>6. ASSUME NEW d \in Entry, NEW n \in Name, NEW e \in Entry, Mkdir(d, n, e)
      PROVE  [Next]_vars
  <2> DEFINE p == joinPath(node[d], n)
  <2>1. p \in Path
    BY <1>4, <1>6 DEF Mkdir
  <2>2. applyMkdir(p, e) \/ UNCHANGED tree
    BY <1>6 DEF Mkdir
  <2> HIDE DEF p
  <2> QED
    BY <2>1, <2>2 DEF Next, ClientNext, tree, vars
<1>7. ASSUME NEW d \in Entry, NEW n \in Name, Unlink(d, n)
      PROVE  [Next]_vars
  <2>1. joinPath(node[d], n) \in Path
    BY <1>4, <1>7 DEF Unlink
  <2> QED
    BY <1>7, <2>1 DEF Unlink, Next, ClientNext
<1>8. ASSUME NEW d1 \in Entry, NEW n1 \in Name, NEW d2 \in Entry, NEW n2 \in Name,
             Rename(d1, n1, d2, n2)
      PROVE  [Next]_vars
  <2>1. joinPath(node[d1], n1) \in Path /\ joinPath(node[d2], n2) \in Path
    BY <1>4, <1>8 DEF Rename
  <2> QED
    BY <1>8, <2>1 DEF Rename, Next, ClientNext
<1>9. ASSUME NEW i \in Entry, NEW k \in Size, Setattr(i, k)
      PROVE  /\ IInv'
             /\ \A e \in Entry : kind[e] # "free" => kind'[e] = kind[e]
  <2> DEFINE e == lookup(node[i])
  <2>1. node[i] \in Path
    BY <1>1, <1>9 DEF Setattr, MTypeOK, Known
  <2>2. e \in Entry /\ kind[e] = "file"
    BY <1>1, <1>9, <2>1, LookupFacts DEF Setattr, IsFile
  <2>3. /\ size' = [size EXCEPT ![e] = k] /\ status' = [status EXCEPT ![e] = "complete"]
        /\ UNCHANGED <<kind, children, fileID, replicas>>
    BY <1>9 DEF Setattr
  <2> HIDE DEF e
  <2>4. TypeOK'
    BY <1>1, <2>2, <2>3 DEF TypeOK, Status
  <2> QED
    BY <1>1, <2>3, <2>4, SameTree
<1>10. ASSUME NEW fd \in open, Release(fd) \/ \E k \in Size : SetattrOpen(fd, k)
       PROVE  [Next]_vars
  <2>1. fd.path \in Path
    BY <1>1 DEF MTypeOK, FD
  <2> QED
    BY <1>10, <2>1 DEF Release, SetattrOpen, Next, ClientNext, tree, vars
<1>11. CASE \E i \in Entry : Open(i) \/ Forget(i)
  BY <1>3, <1>11 DEF Open, Forget
<1>12. CASE \E d \in Entry, n \in Name : Lookup(d, n) \/ Expire(d, n)
  BY <1>3, <1>12 DEF Lookup, Expire
<1>13. CASE UNCHANGED mvars
  BY <1>3, <1>13 DEF mvars
<1> QED
  BY <1>2, <1>5, <1>6, <1>7, <1>8, <1>9, <1>10, <1>11, <1>12, <1>13 DEF MNext, NameStep

\* The node table and the cached names, once a call is over.
Inodes ==
  /\ node \in [Entry -> Path \cup {Nil}] /\ node[Root] = <<>>
  /\ dentry \in [Entry -> [Name -> Entry \cup {Nil}]]
  /\ Led \subseteq Known \ {Root}

\* Calls that name an inode.
LEMMA NewNameBase ==
  ASSUME MBase, NEW d \in Entry, NEW n \in Name, NEW e \in Entry,
         Lookup(d, n) \/ Create(d, n, e) \/ Mkdir(d, n, e)
  PROVE  OwnIds' /\ KnownObjects' /\ Inodes'
<1> DEFINE p == joinPath(node[d], n)
<1>1. /\ p \in Path
      /\ \E i \in Entry \ {Root} :
           /\ NewInode(d, n, i, p)
           /\ \/ lookup(p) = i /\ UNCHANGED <<kind, children, fileID>>
              \/ /\ lookup(p) = Nil /\ ParentFound(p) /\ i = e /\ Fresh(e)
                 /\ \E k \in {"dir", "file"} : kind' = [kind EXCEPT ![e] = k]
                 /\ children' = [children EXCEPT ![Parent(p)][Last(p)] = e]
                 /\ fileID' = [fileID EXCEPT ![e] = e]
  BY NewName
<1> HIDE DEF p
<1>2. /\ MTypeOK /\ TypeOK /\ Linked /\ OwnIds
      /\ \A x \in Entry : node[x] # Nil => kind[x] # "free"
  BY DEF MBase, IInv, KnownObjects, Known
<1>3. PICK i \in Entry \ {Root} :
        /\ NewInode(d, n, i, p)
        /\ \/ lookup(p) = i /\ UNCHANGED <<kind, children, fileID>>
           \/ /\ i = e /\ Fresh(e)
              /\ \E k \in {"dir", "file"} : kind' = [kind EXCEPT ![e] = k]
              /\ fileID' = [fileID EXCEPT ![e] = e]
  BY <1>1
<1>4. /\ Inodes'
      /\ \A x \in Entry : node'[x] = IF x = i /\ node[x] = Nil THEN p ELSE node[x]
  BY <1>1, <1>2, <1>3, NewInodeStep DEF Inodes
<1>5. CASE lookup(p) = i /\ UNCHANGED <<kind, children, fileID>>
  <2>1. kind[i] # "free"
    BY <1>1, <1>2, <1>5, LookupFacts, NamespaceAssumption
  <2>2. \A x \in Entry : node'[x] # Nil => kind'[x] # "free"
    BY <1>2, <1>4, <1>5, <2>1
  <2> QED
    BY <1>2, <1>4, <1>5, <2>2 DEF OwnIds, KnownObjects, Known
<1>6. CASE /\ i = e /\ Fresh(e)
           /\ \E k \in {"dir", "file"} : kind' = [kind EXCEPT ![e] = k]
           /\ fileID' = [fileID EXCEPT ![e] = e]
  <2>1. PICK k \in {"dir", "file"} : kind' = [kind EXCEPT ![e] = k]
    BY <1>6
  <2>2. \A x \in Entry : kind'[x] = IF x = e THEN k ELSE kind[x]
    BY <1>2, <2>1 DEF TypeOK
  <2>3. \A x \in Entry : node'[x] # Nil => kind'[x] # "free"
    BY <1>2, <1>4, <1>6, <2>2
  <2>4. \A x \in Entry : fileID'[x] = IF x = e THEN e ELSE fileID[x]
    BY <1>2, <1>6 DEF TypeOK
  <2>5. OwnIds'
    BY <1>2, <2>2, <2>4 DEF OwnIds
  <2> QED
    BY <1>4, <2>3, <2>5 DEF KnownObjects, Known
<1> QED
  BY <1>3, <1>4, <1>5, <1>6

\* What is open, after a call that opens a file.
LEMMA OpenStep ==
  ASSUME MBase, [MNext]_mvars
  PROVE  open' \subseteq FD
<1>1. open \subseteq FD /\ TypeOK /\ Linked /\ MTypeOK /\ OwnIds
  BY DEF MBase, MTypeOK, IInv
<1>2. ASSUME NEW d \in Entry, NEW n \in Name, NEW e \in Entry, Create(d, n, e)
      PROVE  open' \subseteq FD
  <2> DEFINE p == joinPath(node[d], n)
             old == lookup(p)
             id == IF old = Nil THEN e ELSE fileID[old]
             st == IF old = Nil THEN "pending" ELSE status[old]
  <2>1. p \in Path
    BY <1>1, <1>2, JoinedPath DEF Create
  <2>2. open' = open \cup {[ino |-> id, id |-> id, path |-> p, status |-> st]}
    BY <1>2 DEF Create
  <2>3. old = Nil \/ IsFile(old)
    BY <1>2 DEF Create, applyCreateFile, MayCreate
  <2> HIDE DEF p
  <2>4. id \in Entry /\ st \in Status
    <3>1. CASE old = Nil
      BY <3>1 DEF Status
    <3>2. CASE old # Nil
      <4>1. old \in Entry /\ old # Root /\ kind[old] = "file"
        BY <1>1, <2>1, <2>3, <3>2, LookupFacts DEF IsFile
      <4> QED
        BY <1>1, <3>2, <4>1 DEF OwnIds, TypeOK
    <3> QED
      BY <3>1, <3>2
  <2> HIDE DEF id, st
  <2>5. [ino |-> id, id |-> id, path |-> p, status |-> st] \in FD
    BY <2>1, <2>4 DEF FD
  <2> QED
    BY <1>1, <2>2, <2>5
<1>3. ASSUME NEW i \in Entry, Open(i)
      PROVE  open' \subseteq FD
  <2> DEFINE e == lookup(node[i])
  <2>1. node[i] \in Path
    BY <1>1, <1>3 DEF Open, MTypeOK, Known
  <2>2. open' = open \cup {[ino |-> i, id |-> fileID[e], path |-> node[i],
                            status |-> status[e]]}
    BY <1>3 DEF Open
  <2>3. e \in Entry /\ e # Root /\ kind[e] = "file"
    BY <1>1, <1>3, <2>1, LookupFacts DEF Open, IsFile
  <2> HIDE DEF e
  <2>4. fileID[e] \in Entry /\ status[e] \in Status
    BY <1>1, <2>3 DEF OwnIds, TypeOK
  <2>5. [ino |-> i, id |-> fileID[e], path |-> node[i], status |-> status[e]] \in FD
    BY <2>1, <2>4 DEF FD
  <2> QED
    BY <1>1, <2>2, <2>5
<1>4. ASSUME NEW fd \in open, Release(fd) PROVE open' \subseteq FD
  BY <1>1, <1>4 DEF Release
<1>5. CASE UNCHANGED open
  BY <1>1, <1>5
<1>6. ASSUME NEW d \in Entry, NEW n \in Name, NameStep(d, n) PROVE open' \subseteq FD
  BY <1>2, <1>5, <1>6 DEF NameStep, Lookup, Mkdir, Unlink, Rename, Expire
<1>7. ASSUME NEW i \in Entry, Forget(i) \/ \E k \in Size : Setattr(i, k)
      PROVE  UNCHANGED open
  BY <1>7 DEF Forget, Setattr
<1>8. ASSUME NEW fd \in open, NEW k \in Size, SetattrOpen(fd, k) PROVE UNCHANGED open
  BY <1>8 DEF SetattrOpen
<1>9. CASE UNCHANGED mvars
  BY <1>5, <1>9 DEF mvars
<1> QED
  BY <1>3, <1>4, <1>5, <1>6, <1>7, <1>8, <1>9 DEF MNext

LEMMA NextMBase ==
  ASSUME MBase, [MNext]_mvars
  PROVE  MBase'
<1>1. /\ IInv' /\ open' \subseteq FD /\ TypeOK'
      /\ \A e \in Entry : kind[e] # "free" => kind'[e] = kind[e]
  BY MountTree, OpenStep DEF IInv
<1>2. /\ MTypeOK /\ Inodes /\ OwnIds
      /\ \A x \in Entry : node[x] # Nil => kind[x] # "free"
  BY DEF MBase, KnownObjects, Known, MTypeOK, Inodes
<1>3. SUFFICES OwnIds' /\ KnownObjects' /\ Inodes'
  BY <1>1 DEF MBase, MTypeOK, Inodes
<1>4. ASSUME NEW d \in Entry, NEW n \in Name, NEW e \in Entry,
             Lookup(d, n) \/ Create(d, n, e) \/ Mkdir(d, n, e)
      PROVE  OwnIds' /\ KnownObjects' /\ Inodes'
  BY <1>4, NewNameBase
<1>5. CASE UNCHANGED <<kind, fileID, node>> /\ Inodes'
  BY <1>2, <1>5 DEF OwnIds, KnownObjects, Known
<1>6. CASE UNCHANGED <<kind, fileID, node, dentry>>
  BY <1>2, <1>5, <1>6 DEF Inodes, Led, Known
<1>7. ASSUME NEW d \in Entry, NEW n \in Name, Unlink(d, n) \/ Expire(d, n)
      PROVE  OwnIds' /\ KnownObjects' /\ Inodes'
  <2>1. UNCHANGED <<kind, fileID, node>>
    BY <1>7 DEF Unlink, Expire, applyDelete, data, tree
  <2>2. Inodes'
    BY <1>2, <1>7, <2>1, DropName DEF Unlink, Expire, Inodes
  <2> QED
    BY <1>5, <2>1, <2>2
<1>8. ASSUME NEW d1 \in Entry, NEW n1 \in Name, NEW d2 \in Entry, NEW n2 \in Name,
             Rename(d1, n1, d2, n2)
      PROVE  OwnIds' /\ KnownObjects' /\ Inodes'
  <2>1. UNCHANGED <<kind, fileID, node>>
    BY <1>8 DEF Rename, applyRename, data
  <2>2. Inodes'
    BY <1>2, <1>8, <2>1, MoveName DEF Rename, Inodes
  <2> QED
    BY <1>5, <2>1, <2>2
<1>9. ASSUME NEW i \in Entry, Forget(i)
      PROVE  OwnIds' /\ KnownObjects' /\ Inodes'
  <2>1. /\ UNCHANGED <<kind, fileID, dentry>> /\ node' = [node EXCEPT ![i] = Nil]
        /\ i \notin Led /\ i # Root
    BY <1>9 DEF Forget, tree
  <2>2. \A x \in Entry : node'[x] = IF x = i THEN Nil ELSE node[x]
    BY <1>2, <2>1 DEF Inodes
  <2>3. Led' = Led
    BY <2>1 DEF Led
  <2>4. Inodes'
    BY <1>2, <2>1, <2>2, <2>3, NamespaceAssumption DEF Inodes, Known
  <2>5. KnownObjects'
    BY <1>2, <2>1, <2>2 DEF KnownObjects, Known
  <2> QED
    BY <1>2, <2>1, <2>4, <2>5 DEF OwnIds
<1>10. CASE \E i \in Entry : Open(i) \/ \E k \in Size : Setattr(i, k)
  BY <1>6, <1>10 DEF Open, Setattr, tree
<1>11. CASE \E fd \in open : Release(fd) \/ \E k \in Size : SetattrOpen(fd, k)
  BY <1>6, <1>11 DEF Release, SetattrOpen, applyCompleteFile, applyUpdateSize, tree
<1>12. CASE UNCHANGED mvars
  BY <1>6, <1>12 DEF mvars, tree
<1>13. ASSUME NEW d \in Entry, NEW n \in Name, Lookup(d, n)
       PROVE  OwnIds' /\ KnownObjects' /\ Inodes'
  BY <1>4, <1>13
<1> QED
  BY <1>4, <1>7, <1>8, <1>9, <1>10, <1>11, <1>12, <1>13 DEF MNext, NameStep

LEMMA InitMBase == MInit => MBase
<1> SUFFICES ASSUME MInit PROVE MBase
  OBVIOUS
<1>1. IInv
  BY InitIInv DEF MInit
<1>2. <<>> \in Path
  BY NamespaceAssumption, SeqDef, SMTT(60) DEF Path
<1>3. /\ kind = [e \in Entry |-> IF e = Root THEN "dir" ELSE "free"]
      /\ node = [i \in Entry |-> IF i = Root THEN <<>> ELSE Nil]
      /\ dentry = [d \in Entry |-> [n \in Name |-> Nil]]
      /\ open = {}
  BY DEF MInit, Init
<1>4. Led = {}
  BY <1>3 DEF Led
<1>5. node \in [Entry -> Path \cup {Nil}] /\ node[Root] = <<>>
  BY <1>2, <1>3, NamespaceAssumption
<1>6. MTypeOK
  BY <1>1, <1>3, <1>4, <1>5 DEF MTypeOK, IInv
<1>7. OwnIds /\ KnownObjects
  BY <1>3 DEF OwnIds, KnownObjects, Known
<1> QED
  BY <1>1, <1>6, <1>7 DEF MBase

----------------------------------------------------------------------------
(* Files are renamed, directories are not.                                  *)

\* What leads to a directory still does when only places that held nothing,
\* or a file, have changed.
LEMMA LeadsKept ==
  ASSUME TypeOK, Linked, NEW p \in Path, NEW d \in Entry, kind[d] = "dir",
         Leads(children, p, d),
         \A x \in Entry, n \in Name :
           \/ children'[x][n] = children[x][n]
           \/ children[x][n] = Nil
           \/ kind[children[x][n]] # "dir"
  PROVE  Leads(children', p, d)
<1>1. p \in Seq(Name) /\ Len(p) \in Nat
  BY PathIsSeq
<1>2. PICK w \in [0..Len(p) -> Entry] :
        /\ w[0] = Root /\ w[Len(p)] = d
        /\ \A i \in 1..Len(p) : w[i] = children[w[i - 1]][p[i]]
  BY DEF Leads
<1>3. ASSUME NEW i \in 0..Len(p) PROVE kind[w[i]] = "dir"
  <2>1. CASE i = Len(p)
    BY <1>2, <2>1
  <2>2. CASE i # Len(p)
    <3>1. i + 1 \in 1..Len(p) /\ i + 1 \in 0..Len(p) /\ (i + 1) - 1 = i
      BY <1>1, <2>2
    <3>2. w[i + 1] = children[w[i]][p[i + 1]] /\ w[i + 1] \in Entry /\ w[i] \in Entry
      BY <1>2, <3>1
    <3>3. p[i + 1] \in Name /\ w[i + 1] # Nil
      BY <1>1, <3>1, <3>2, NamespaceAssumption
    <3> QED
      BY <3>2, <3>3 DEF Linked
  <2> QED
    BY <2>1, <2>2
<1>4. ASSUME NEW i \in 1..Len(p) PROVE w[i] = children'[w[i - 1]][p[i]]
  <2>1. i - 1 \in 0..Len(p) /\ i \in 0..Len(p) /\ p[i] \in Name
    BY <1>1
  <2>2. w[i] = children[w[i - 1]][p[i]] /\ w[i] # Nil /\ kind[w[i]] = "dir"
    BY <1>2, <1>3, <2>1, NamespaceAssumption
  <2> QED
    BY <2>1, <2>2
<1> QED
  BY <1>2, <1>4 DEF Leads

\* The paths of directories that had a node stay good.
LEMMA PathsKept ==
  ASSUME MInv, NEW d \in Entry, node[d] # Nil, kind[d] = "dir",
         \A x \in Entry, n \in Name :
           \/ children'[x][n] = children[x][n]
           \/ children[x][n] = Nil
           \/ kind[children[x][n]] # "dir"
  PROVE  Leads(children', node[d], d)
<1>1. TypeOK /\ Linked /\ node[d] \in Path /\ Leads(children, node[d], d)
  BY DEF MInv, MBase, IInv, MTypeOK, DirPaths, Known
<1> QED
  BY <1>1, LeadsKept

\* The invariant, entry by entry.
Paths == \A d \in Entry :
           node[d] # Nil /\ kind[d] = "dir" => Leads(children, node[d], d)

Names == \A d \in Entry, n \in Name :
           dentry[d][n] # Nil =>
             /\ node[d] # Nil /\ kind[d] = "dir" /\ Len(node[d]) < MaxDepth
             /\ children[d][n] = dentry[d][n]

LEMMA MInvIs == (MInv <=> MBase /\ Paths /\ Names)
<1>1. DirPaths <=> Paths
  BY DEF DirPaths, Paths, Known
<1>2. NamesAt <=> Names
  BY DEF NamesAt, Names, Dir
<1> QED
  BY <1>1, <1>2 DEF MInv

LEMMA NewNamePaths ==
  ASSUME MInv, NEW d \in Entry, NEW n \in Name, NEW e \in Entry,
         Lookup(d, n) \/ Create(d, n, e) \/ Mkdir(d, n, e)
  PROVE  Paths' /\ Names'
<1>1. /\ MBase /\ TypeOK /\ Linked /\ MTypeOK /\ Paths /\ Names
      /\ \A x \in Entry : node[x] # Nil => kind[x] # "free"
  BY MInvIs DEF MInv, MBase, IInv, KnownObjects, Known
<1>2. PICK p : p = joinPath(node[d], n)
  OBVIOUS
<1>3. /\ Dir(d) /\ p \in Path
      /\ \E i \in Entry \ {Root} :
           /\ NewInode(d, n, i, p)
           /\ \/ lookup(p) = i /\ UNCHANGED <<kind, children, fileID>>
              \/ /\ lookup(p) = Nil /\ ParentFound(p) /\ i = e /\ Fresh(e)
                 /\ \E k \in {"dir", "file"} : kind' = [kind EXCEPT ![e] = k]
                 /\ children' = [children EXCEPT ![Parent(p)][Last(p)] = e]
                 /\ fileID' = [fileID EXCEPT ![e] = e]
  BY <1>1, <1>2, NewName
<1>4. /\ ParentFound(p) /\ Parent(p) = d /\ Last(p) = n /\ lookup(p) = children[d][n]
      /\ node[d] # Nil /\ kind[d] = "dir" /\ Len(node[d]) < MaxDepth
  BY <1>2, <1>3, NameFound DEF Dir
<1>5. PICK i \in Entry \ {Root} :
        /\ NewInode(d, n, i, p)
        /\ \/ lookup(p) = i /\ UNCHANGED <<kind, children, fileID>>
           \/ /\ lookup(p) = Nil /\ ParentFound(p) /\ i = e /\ Fresh(e)
              /\ \E k \in {"dir", "file"} : kind' = [kind EXCEPT ![e] = k]
              /\ children' = [children EXCEPT ![Parent(p)][Last(p)] = e]
  BY <1>3
<1>6. /\ \A x \in Entry : node'[x] = IF x = i /\ node[x] = Nil THEN p ELSE node[x]
      /\ \A x \in Entry, y \in Name :
           dentry'[x][y] = IF x = d /\ y = n THEN i ELSE dentry[x][y]
  BY <1>1, <1>3, <1>5, NewInodeStep
<1>7. CASE lookup(p) = i /\ UNCHANGED <<kind, children, fileID>>
  <2>1. Leads(children, p, i)
    BY <1>1, <1>3, <1>7, LookupLeads, NamespaceAssumption
  <2>2. ASSUME NEW x \in Entry, node'[x] # Nil, kind'[x] = "dir"
        PROVE  Leads(children', node'[x], x)
    <3>1. CASE x = i /\ node[x] = Nil
      <4>1. node'[x] = p /\ children' = children
        BY <1>6, <1>7, <3>1
      <4> QED
        BY <2>1, <3>1, <4>1
    <3>2. CASE ~(x = i /\ node[x] = Nil)
      <4>1. node'[x] = node[x] /\ kind[x] = "dir" /\ node[x] # Nil /\ children' = children
        BY <1>6, <1>7, <2>2, <3>2
      <4>2. Leads(children, node[x], x)
        BY <1>1, <4>1 DEF Paths
      <4> QED
        BY <4>1, <4>2
    <3> QED
      BY <3>1, <3>2
  <2>3. ASSUME NEW x \in Entry, NEW y \in Name, dentry'[x][y] # Nil
        PROVE  /\ node'[x] # Nil /\ kind'[x] = "dir" /\ Len(node'[x]) < MaxDepth
               /\ children'[x][y] = dentry'[x][y]
    <3>1. children' = children /\ kind' = kind
      BY <1>7
    <3>2. CASE x = d /\ y = n
      BY <1>4, <1>6, <1>7, <3>1, <3>2
    <3>3. CASE ~(x = d /\ y = n)
      <4>1. dentry'[x][y] = dentry[x][y]
        BY <1>6, <3>3
      <4>2. /\ node[x] # Nil /\ kind[x] = "dir" /\ Len(node[x]) < MaxDepth
            /\ children[x][y] = dentry[x][y]
        BY <1>1, <2>3, <4>1 DEF Names
      <4>3. node'[x] = node[x]
        BY <1>6, <4>2
      <4> QED
        BY <3>1, <4>1, <4>2, <4>3
    <3> QED
      BY <3>2, <3>3
  <2> QED
    BY <2>2, <2>3 DEF Paths, Names
<1>8. CASE /\ lookup(p) = Nil /\ i = e /\ Fresh(e)
           /\ \E k \in {"dir", "file"} : kind' = [kind EXCEPT ![e] = k]
           /\ children' = [children EXCEPT ![Parent(p)][Last(p)] = e]
  <2>1. PICK k \in {"dir", "file"} : kind' = [kind EXCEPT ![e] = k]
    BY <1>8
  <2>2. /\ \A x \in Entry : kind'[x] = IF x = e THEN k ELSE kind[x]
        /\ kind[e] = "free" /\ node[e] = Nil /\ d # e
    BY <1>1, <1>4, <1>8, <2>1 DEF TypeOK, Fresh
  <2>3. \A x \in Entry, y \in Name :
          children'[x][y] = IF x = d /\ y = n THEN e ELSE children[x][y]
    <3>1. children' = [children EXCEPT ![d] = [children[d] EXCEPT ![n] = e]]
      BY <1>4, <1>8
    <3> QED
      BY <1>1, <3>1 DEF TypeOK
  <2>4. Leads(children', p, e)
    BY <1>1, <1>3, <1>4, <1>8, CreatedLeads
  <2>5. ASSUME NEW x \in Entry, node'[x] # Nil, kind'[x] = "dir"
        PROVE  Leads(children', node'[x], x)
    <3>1. CASE x = e
      <4>1. node'[x] = p
        BY <1>6, <1>8, <2>2, <3>1
      <4> QED
        BY <2>4, <3>1, <4>1
    <3>2. CASE x # e
      <4>1. node'[x] = node[x] /\ kind[x] = "dir" /\ node[x] # Nil
        BY <1>6, <1>8, <2>2, <2>5, <3>2
      <4>2. ASSUME NEW y \in Entry, NEW m \in Name
            PROVE  children'[y][m] = children[y][m] \/ children[y][m] = Nil
        BY <1>4, <1>8, <2>3, ZenonT(60)
      <4>3. Leads(children', node[x], x)
        BY <4>1, <4>2, PathsKept
      <4> QED
        BY <4>1, <4>3
    <3> QED
      BY <3>1, <3>2
  <2>6. Names'
    BY <1>1, <1>4, <1>6, <1>8, <2>2, <2>3 DEF Names
  <2> QED
    BY <2>5, <2>6 DEF Paths
<1> QED
  BY <1>5, <1>7, <1>8

\* Two places of a table of tables change.
LEMMA MovedChild ==
  ASSUME NEW h \in Heap, NEW d1 \in Entry, NEW n1 \in Name, NEW d2 \in Entry,
         NEW n2 \in Name, <<d1, n1>> # <<d2, n2>>, NEW c, NEW h2,
         h2 = [h EXCEPT ![d1][n1] = Nil, ![d2][n2] = c]
  PROVE  \A x \in Entry, y \in Name :
           h2[x][y] = IF x = d2 /\ y = n2 THEN c
                      ELSE IF x = d1 /\ y = n1 THEN Nil ELSE h[x][y]
<1>1. PICK g : g = [h EXCEPT ![d1] = [h[d1] EXCEPT ![n1] = Nil]]
  OBVIOUS
<1>2. [h[d1] EXCEPT ![n1] = Nil] \in [Name -> Entry \cup {Nil}]
  BY DEF Heap
<1>3. /\ g \in Heap
      /\ \A x \in Entry, y \in Name : g[x][y] = IF x = d1 /\ y = n1 THEN Nil ELSE h[x][y]
  BY <1>1, <1>2 DEF Heap
<1>4. h2 = [g EXCEPT ![d2] = [g[d2] EXCEPT ![n2] = c]]
  BY <1>1
<1> QED
  BY <1>3, <1>4 DEF Heap

\* Unlink takes the file away that the name leads to.
LEMMA UnlinkPaths ==
  ASSUME MInv, NEW d \in Entry, NEW n \in Name, Unlink(d, n)
  PROVE  Paths' /\ Names'
<1>1. MBase /\ TypeOK /\ MTypeOK /\ Paths /\ Names
  BY MInvIs DEF MBase, IInv
<1>2. PICK p : p = joinPath(node[d], n)
  OBVIOUS
<1>3. /\ Dir(d) /\ dentry[d][n] # Nil /\ kind[dentry[d][n]] = "file" /\ applyDelete(p)
      /\ dentry' = [dentry EXCEPT ![d][n] = Nil] /\ UNCHANGED node
  BY <1>2 DEF Unlink
<1>4. Parent(p) = d /\ Last(p) = n
  BY <1>2, <1>3, NameFound
<1>5. /\ children' = [children EXCEPT ![d][n] = Nil] /\ UNCHANGED kind
      /\ children[d][n] = dentry[d][n]
  BY <1>1, <1>3, <1>4 DEF applyDelete, Names
<1>6. \A x \in Entry, y \in Name :
        children'[x][y] = IF x = d /\ y = n THEN Nil ELSE children[x][y]
  <2>1. children' = [children EXCEPT ![d] = [children[d] EXCEPT ![n] = Nil]]
    BY <1>5
  <2> QED
    BY <1>1, <2>1 DEF TypeOK
<1>7. \A x \in Entry, y \in Name :
        dentry'[x][y] = IF x = d /\ y = n THEN Nil ELSE dentry[x][y]
  BY <1>1, <1>3, DropName, ZenonT(60)
<1>8. \A x \in Entry, y \in Name :
        children'[x][y] = children[x][y] \/ kind[children[x][y]] # "dir"
  BY <1>3, <1>5, <1>6
<1>9. ASSUME NEW x \in Entry, node'[x] # Nil, kind'[x] = "dir"
      PROVE  Leads(children', node'[x], x)
  <2>1. node[x] # Nil /\ kind[x] = "dir" /\ node'[x] = node[x]
    BY <1>3, <1>5, <1>9
  <2>2. Leads(children', node[x], x)
    BY <1>8, <2>1, PathsKept
  <2> QED
    BY <2>1, <2>2
<1>10. Names'
  BY <1>1, <1>3, <1>5, <1>6, <1>7 DEF Names
<1> QED
  BY <1>9, <1>10 DEF Paths

\* Rename moves the file that the name leads to, over a file or to a free
\* name.
LEMMA RenamePaths ==
  ASSUME MInv, "dir" \notin Movable,
         NEW d1 \in Entry, NEW n1 \in Name, NEW d2 \in Entry, NEW n2 \in Name,
         Rename(d1, n1, d2, n2)
  PROVE  Paths' /\ Names'
<1>1. MBase /\ TypeOK /\ Linked /\ MTypeOK /\ Paths /\ Names
  BY MInvIs DEF MBase, IInv
<1>2. PICK src, dst : src = joinPath(node[d1], n1) /\ dst = joinPath(node[d2], n2)
  OBVIOUS
<1>3. PICK c : c = dentry[d1][n1]
  OBVIOUS
<1>4. /\ Dir(d1) /\ Dir(d2) /\ <<d1, n1>> # <<d2, n2>>
      /\ c # Nil /\ kind[c] \in Movable /\ applyRename(src, dst)
      /\ dentry' = [dentry EXCEPT ![d1][n1] = Nil, ![d2][n2] = c] /\ UNCHANGED node
  BY <1>2, <1>3 DEF Rename
<1>5. /\ Parent(src) = d1 /\ Last(src) = n1 /\ lookup(src) = children[d1][n1]
      /\ Parent(dst) = d2 /\ Last(dst) = n2 /\ lookup(dst) = children[d2][n2]
  BY <1>2, <1>4, NameFound
<1>6. children[d1][n1] = c /\ kind[c] # "dir"
  BY <1>1, <1>3, <1>4 DEF Names
<1>7. /\ children' = [children EXCEPT ![d1][n1] = Nil, ![d2][n2] = c] /\ UNCHANGED kind
      /\ children[d2][n2] # Nil => kind[children[d2][n2]] # "dir"
  BY <1>4, <1>5, <1>6 DEF applyRename
<1>8. \A x \in Entry, y \in Name :
        children'[x][y] = IF x = d2 /\ y = n2 THEN c
                          ELSE IF x = d1 /\ y = n1 THEN Nil ELSE children[x][y]
  BY <1>1, <1>4, <1>7, MovedChild DEF TypeOK, Heap
<1>9. \A x \in Entry, y \in Name :
        dentry'[x][y] = IF x = d2 /\ y = n2 THEN c
                        ELSE IF x = d1 /\ y = n1 THEN Nil ELSE dentry[x][y]
  BY <1>1, <1>4, MovedChild DEF MTypeOK, Heap
<1>10. ASSUME NEW x \in Entry, NEW y \in Name
       PROVE  \/ children'[x][y] = children[x][y] \/ children[x][y] = Nil
              \/ kind[children[x][y]] # "dir"
  <2>1. CASE x = d2 /\ y = n2
    BY <1>7, <2>1
  <2>2. CASE x = d1 /\ y = n1
    BY <1>6, <2>2
  <2>3. CASE ~(x = d2 /\ y = n2) /\ ~(x = d1 /\ y = n1)
    <3>1. children'[x][y] = children[x][y]
      BY <1>8, <2>3, Zenon
    <3> QED
      BY <3>1
  <2> QED
    BY <2>1, <2>2, <2>3
<1>11. ASSUME NEW x \in Entry, node'[x] # Nil, kind'[x] = "dir"
       PROVE  Leads(children', node'[x], x)
  <2>1. node[x] # Nil /\ kind[x] = "dir" /\ node'[x] = node[x]
    BY <1>4, <1>7, <1>11
  <2>2. Leads(children', node[x], x)
    BY <1>10, <2>1, PathsKept
  <2> QED
    BY <2>1, <2>2
<1>12. ASSUME NEW x \in Entry, NEW y \in Name, dentry'[x][y] # Nil
       PROVE  /\ node'[x] # Nil /\ kind'[x] = "dir" /\ Len(node'[x]) < MaxDepth
              /\ children'[x][y] = dentry'[x][y]
  <2>1. node' = node /\ kind' = kind
    BY <1>4, <1>7
  <2>2. CASE x = d2 /\ y = n2
    <3>1. children'[x][y] = c /\ dentry'[x][y] = c
      BY <1>8, <1>9, <2>2
    <3> QED
      BY <1>4, <2>1, <2>2, <3>1 DEF Dir
  <2>3. CASE ~(x = d2 /\ y = n2)
    <3>1. ~(x = d1 /\ y = n1)
      BY <1>9, <1>12, <2>3
    <3>2. children'[x][y] = children[x][y] /\ dentry'[x][y] = dentry[x][y]
      BY <1>8, <1>9, <2>3, <3>1
    <3> QED
      BY <1>1, <1>12, <2>1, <3>2 DEF Names
  <2> QED
    BY <2>2, <2>3
<1> QED
  BY <1>11, <1>12 DEF Paths, Names

LEMMA NextMInv ==
  ASSUME "dir" \notin Movable, MInv, [MNext]_mvars
  PROVE  MInv'
<1>1. MBase /\ Paths /\ Names /\ MTypeOK
  BY MInvIs DEF MBase
<1>2. MBase'
  BY <1>1, NextMBase
<1>3. SUFFICES Paths' /\ Names'
  <2>1. DirPaths' <=> Paths'
    BY DEF DirPaths, Paths, Known
  <2>2. NamesAt' <=> Names'
    BY DEF NamesAt, Names, Dir
  <2> QED
    BY <1>2, <2>1, <2>2 DEF MInv
<1>4. CASE UNCHANGED <<kind, children, node, dentry>>
  BY <1>1, <1>4 DEF Paths, Names
<1>5. ASSUME NEW d \in Entry, NEW n \in Name, Expire(d, n)
      PROVE  Paths' /\ Names'
  <2>1. \A x \in Entry, y \in Name :
          dentry'[x][y] = IF x = d /\ y = n THEN Nil ELSE dentry[x][y]
    BY <1>1, <1>5, DropName, ZenonT(60) DEF Expire
  <2>2. UNCHANGED <<kind, children, node>>
    BY <1>5 DEF Expire, tree
  <2> QED
    BY <1>1, <2>1, <2>2 DEF Paths, Names
<1>6. ASSUME NEW i \in Entry, Forget(i)
      PROVE  Paths' /\ Names'
  <2>1. /\ UNCHANGED <<kind, children, dentry>> /\ \A n \in Name : dentry[i][n] = Nil
        /\ \A x \in Entry : node'[x] = IF x = i THEN Nil ELSE node[x]
    BY <1>1, <1>6 DEF Forget, tree, MTypeOK
  <2>2. Paths'
    BY <1>1, <2>1 DEF Paths
  <2>3. Names'
    BY <1>1, <2>1 DEF Names
  <2> QED
    BY <2>2, <2>3
<1>7. CASE \E i \in Entry : Open(i) \/ \E k \in Size : Setattr(i, k)
  BY <1>4, <1>7 DEF Open, Setattr, tree
<1>8. CASE \E fd \in open : Release(fd) \/ \E k \in Size : SetattrOpen(fd, k)
  BY <1>4, <1>8 DEF Release, SetattrOpen, applyCompleteFile, applyUpdateSize, tree
<1>9. CASE UNCHANGED mvars
  BY <1>4, <1>9 DEF mvars, tree
<1>10. ASSUME NEW d \in Entry, NEW n \in Name, NameStep(d, n)
       PROVE  Paths' /\ Names'
  BY <1>5, <1>10, NewNamePaths, UnlinkPaths, RenamePaths DEF NameStep
<1> QED
  BY <1>6, <1>7, <1>8, <1>9, <1>10 DEF MNext

----------------------------------------------------------------------------

\* Inodes, cached names and open files keep their types, and every cached name
\* leads to an inode that go-fuse has a node for, whatever applications
\* rename.
THEOREM MountTypeCorrect == MSpec => []MTypeOK
<1>1. MBase /\ [MNext]_mvars => MBase'
  BY NextMBase
<1>2. MBase => MTypeOK
  BY DEF MBase
<1> QED
  BY <1>1, <1>2, InitMBase, PTL DEF MSpec

\* As long as directories are not renamed, a name that the kernel has cached
\* leads to what the MDS has at the path that the call will send, so Unlink,
\* Rename and Create act on the object that the caller sees.  (A renamed
\* directory keeps the path it had in the nodes below it.)
THEOREM NamesStayCurrent ==
  ASSUME "dir" \notin Movable
  PROVE  MSpec => []NamesCurrent
<1>1. MInit => MInv
  <2> SUFFICES ASSUME MInit PROVE MInv
    OBVIOUS
  <2>1. MBase
    BY InitMBase
  <2>2. /\ \A d \in Entry, n \in Name : dentry[d][n] = Nil
        /\ \A d \in Entry : node[d] = IF d = Root THEN <<>> ELSE Nil
    BY DEF MInit
  <2>3. Leads(children, <<>>, Root)
    <3> DEFINE w == [i \in 0..0 |-> Root]
    <3>1. w \in [0..0 -> Entry] /\ w[0] = Root /\ Len(<<>>) = 0
      BY NamespaceAssumption
    <3> HIDE DEF w
    <3>2. \A i \in 1..0 : w[i] = children[w[i - 1]][<<>>[i]]
      OBVIOUS
    <3> QED
      BY <3>1, <3>2 DEF Leads
  <2>4. Paths /\ Names
    BY <2>2, <2>3 DEF Paths, Names
  <2> QED
    BY <2>1, <2>4, MInvIs
<1>2. MInv /\ [MNext]_mvars => MInv'
  BY NextMInv
<1>3. MInv => NamesCurrent
  <2> SUFFICES ASSUME MInv, NEW d \in Entry, NEW n \in Name, dentry[d][n] # Nil
               PROVE  /\ lookup(joinPath(node[d], n)) # Nil
                      /\ fileID[lookup(joinPath(node[d], n))] = dentry[d][n]
    BY DEF NamesCurrent
  <2>1. Dir(d) /\ children[d][n] = dentry[d][n]
    BY DEF MInv, NamesAt
  <2>2. lookup(joinPath(node[d], n)) = dentry[d][n]
    BY <2>1, NameFound
  <2>3. /\ dentry[d][n] \in Entry /\ dentry[d][n] # Root /\ kind[dentry[d][n]] # "free"
    BY <2>1 DEF MInv, MBase, IInv, MTypeOK, Linked
  <2>4. fileID[dentry[d][n]] = dentry[d][n]
    BY <2>3 DEF MInv, MBase, OwnIds
  <2> QED
    BY <2>2, <2>4
<1> QED
  BY <1>1, <1>2, <1>3, PTL DEF MSpec
=============================================================================
